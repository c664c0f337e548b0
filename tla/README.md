# A TLA+ model of SciRust-Verify

SciRust-Verify executes the checks of a Rust project, keeps what it observed in a
*dossier* (a run directory below `.scirust-verify/runs`), derives a verdict from it and
seals it; other programs import the evidence of foreign tools into a dossier of the same form, and two
commands attest a sealed one and authenticate the attestation. These modules model the parts on which
the value of a dossier rests: the store that seals it, the runner whose records fill it, the checks and the
pipeline that turn records into a verdict, the imports, and the attestation. Paths below are relative to the root of the repository; `store`, `runner`, ... stand
for `src/crates/scirust-verify-<name>/src/lib.rs`, `core/x.rs` for
`src/crates/scirust-verify-core/src/x.rs`, `cli/main.rs` for
`src/crates/scirust-verify-cli/src/main.rs`.

## 1. Inventory

| Component | State it keeps | Operations | Hard behaviour | What makes it correct |
|---|---|---|---|---|
| evidence store (`store`) | one directory per run: JSON documents, attachments, `bundle.json` | `create_run`, the document writers, `append_execution`, `add_evidence`, `finalize`, `verify_integrity` | other processes write below the run; every write can fail before or after its rename; the owner dies between two writes | a seal lists only a consistent directory that existed at one instant; sealed documents stay; a failed finalize leaves an open run; a verification neither accepts a mixture nor raises a false alarm |
| process runner (`runner`) | child, its process group, two capture threads with a pipe each, deadlines | `execute` | descendants that outlive the child or leave its group, full pipes, deadline against exit, failing system calls | a record means the group is dead and the output is complete; `execute` returns |
| pipeline (`core/pipeline.rs`, `cli/main.rs`) | manifest on disk, the options, the plan, executions in memory and on disk, the run | `verify`, `replay` | manifest read three times, tree changes during a run, failing store calls, kills | a PASS is earned; the dossier supports its verdict; other runs stay untouched |
| planning and manifest (`core/planning.rs`, `core/manifest`, `policy`) | none | `resolve_settings`, `plan` of five providers, claims of a plan | precedence of defaults, profile, `[claims]` and options | every check has a level, every claim its checks |
| verdict engine (`core/verdict_engine.rs`, `model/verdict.rs`) | none | interpretation of exits, `combine_verdicts`, `aggregate_dossier_verdict`, `--strict` | mixed outcomes of one claim | no missing or timed out check counts as success |
| providers: cargo, custom, numeric, determinism, source_clean | none between checks | `plan`, `execute` | missing tools, git state, repetitions | outcome agrees with what happened |
| determinism engine (`determinism`) | fingerprints per execution | repetitions and thread levels of one command | a failing repetition among succeeding ones | *verified* only from equal fingerprints |
| numerics and SVOP (`numerics`, `model/tolerance.rs`) | none | tolerance comparison, parsing of observations | subnormals, the largest numbers, distances across zero, rounding | a numeric verdict is what the words of the tolerance say of the exact values |
| command checks (`core/planning.rs` 90-330, `cargo` 380-560, `core/providers.rs`) | logs and evidence of the run | run a command, keep its output, evaluate its observations again, the outcome | output cut by the capture limit, lines that do not parse, ids that share a path | *verified* follows from the output; the logs of a sealed run are those of their checks |
| provenance, discovery, tree digest (`core`) | none | git, toolchain and tree probes | the tree changes between probes | artifact and provenance tell what was there |
| reports (`report`) | none | Markdown, JSON, JUnit from a run | | the report tells the verdict of the evaluations |
| attestation (`cli/main.rs` 756-1430) | an envelope beside a sealed run, a sealed memory file, a temporary directory | `attest`, `authenticate` | the run, the policy and the output change meanwhile, calls fail, the machine stops between two of them | an envelope is whole and lasts; nothing is clobbered; only the signature of an allowed signer over the verified bytes is accepted |
| ingest and bridges (`cli/scirust_ingest.rs`, `cli/*_main.rs`, `core/adapters`) | work root, run, output tar | look at the foreign files, seal a run, verify it, export it, tidy up | files replaced between two reads, two programs on one output, kills, reused process ids | foreign evidence never becomes a better claim than it supports; an export is whole; nothing is left behind |

How they interact. The command line builds the providers from the manifest and calls
`prepare` (plans, claims) and `run_verify`, which creates a run in the store, writes the
documents, executes the checks one after the other (each through the runner, whose captured
output becomes evidence in the store), appends the executions, evaluates the claims, writes
the report and calls `finalize`. `verify-evidence`, `authenticate` and `report` read runs that
another process may own. Nothing is locked: the store relies on atomic renames and on reading
twice, the pipeline on one process per run. Processes that a check leaves behind are the
one source of concurrent writes below a run, and the runner's business is that there are none.
The bridges and `ingest` use the store in the same order, with documents made from files of another tool.
`attest` and `authenticate` take one verified snapshot of a run from the store and meet each other, users and
other processes at one output name.

## 2. Modules

| Module | Models |
|---|---|
| `Dossier` | contents of a run directory and the validation of `finalize` |
| `EvidenceStore` | one run directory: its owner, a verifying process, outside writers, faults, crashes |
| `SealedRun` | abstract specification: what a sealed run promises |
| `EvidenceStoreProofs` | theorems about `EvidenceStore`, checked by TLAPS |
| `SnapshotProofs` | more theorems about `EvidenceStore`: simultaneity of the seal and of a verification, immutability, rollback, no false alarm |
| `CommandRunner` | `execute` of the runner, the operating system around it |
| `CommandRunnerProofs` | theorems about `CommandRunner`, checked by TLAPS |
| `Verdicts` | exits to outcomes, outcomes to claims, claims to a dossier verdict |
| `Planning` | manifest, profiles, plans of the providers, claims of a plan |
| `Pipeline` | the commands `verify` and `replay` over `Planning` and `Verdicts` |
| `PipelineProofs` | theorems about `Pipeline` and laws of `Verdicts`, checked by TLAPS |
| `Determinism` | the determinism engine: repetitions, thread levels, fingerprints, evidence |
| `DeterminismProofs` | theorems about `Determinism`, checked by TLAPS |
| `Numerics` | floats as bit patterns, `compare`, and exact arithmetic as its reference |
| `Observations` | the lines of the observation protocol (SVOP) |
| `CommandChecks` | the checks that run a command: capture, logs, evidence, observations, outcome, `finalize` (over `Numerics`, `Observations`, `Verdicts`) |
| `CommandCheckProofs` | theorems about `CommandChecks`, checked by TLAPS |
| `ToolEvidence` | what the five imports have in common: files, facts, the documents of a verified import |
| `NnisParity`, `SciCapsule`, `ElasticRuntime`, `ForgeSoup` | one adapter each: what it looks at, what it accepts, the documents it makes |
| `ScirustProtocol` | the summary of gates that `ingest scirust` reads, its verdicts and exit code |
| `Imports` | the programs around the five, over `Dossier`: work roots, runs, the output, faults and kills |
| `ImportsProofs` | theorems about `Imports`, checked by TLAPS |
| `Attestation` | `attest` and `authenticate`, users, other processes, crashes |
| `AttestationProofs` | theorems about `Attestation`, checked by TLAPS |
| `MCEvidenceStore`, `MCCommandRunner`, `MCPipeline`, `MCDeterminism`, `MCCommandChecks`, `MCImports`, `MCAttestation` | constants for TLC |

Definitions named `Operation_Variation` are altered forms of the operation that follows them.
Nothing uses them; they record which mistake in the code each property is able to notice.

### Dossier, EvidenceStore, SealedRun

`files` is the directory: a function from paths to contents, `Absent` where there is no file.
`manifest` is `bundle.json`. Digests are taken to be injective, so a manifest is a
function from paths to contents too, and "the digest matches" is equality.

Every operation of the API is one action, named after the function. `add_evidence`,
`finalize` and `verify_integrity_snapshot` take several steps, because other processes can act
between their file operations: `pc` is the owner's program counter, `rpc` that of the verifying
process. The two traversals of `finalize` read one file per step (`CollectFile`), the
validation is `Validate` (its condition, `Consistent`, is in `Dossier`), the second
traversal is compared in `Compare`, then follow the writes of `run.json` (`PublishRun`) and
`bundle.json` (`PublishManifest` is the rename, `ConfirmManifest` what `atomic_write` does after
it), and `RestoreRun` is the rollback. `verify_integrity_snapshot` is `VerifyStart` to
`VerifyManifestAgain`.

`AtomicWrite` has four outcomes: done; failed before the rename; failed after it, where
`atomic_write` removes the file; failed after it with a removal that failed too, whose error the code ignores, so that the file stays. The
same holds of the removals of `bundle.json` in `PublishManifest` and `ConfirmManifest`: a run that was rolled back may keep a manifest.
`faults` counts failing operations, up to `MaxFaults`. The tests with `Path::exists` are operations that fail: `WriteJson` then takes a sealed document for an open one
(`is_sealed`), `AddEvidence` a recorded id for a free one. The history field `misled` of `job` says that the latter has happened. `Crash` is the death of the owner at any step, with or without
a temporary left behind, `Open` is `RunsRoot::open`. `OutsideWrite` is a process that a check
left running; its bytes are always fresh, so it never puts back earlier contents.

Abstractions: the environment document, the provenance and the evaluations are written like
`artifact.json` and `report.md` and have no action of their own. The date `finalized_at_utc`
is the number of the call of `finalize`. A document that does not parse is refused at
`Validate` and not when it is read; nothing happens in between. A temporary that stays because
its removal failed and an I/O error of a verifying process are left out (a temporary stays after a crash only); the failing removals of `bundle.json` in `ConfirmManifest`, of which there are two, count as one failure. `write_executions` has no caller in the repository;
it runs with the documents in `Rewrites`. `schema_version`, limits of size, depth
and number, symbolic links and the comparison of `run_id` only refuse inputs and are left out.

`SealedRun` says what a reader of a sealed run relies on: there is at most one seal, it
is consistent, it may be withdrawn or replaced only until it is acknowledged, and a verification returns
nothing but the seal. `EvidenceStore` implements it with `seal <- manifest`,
`accepted <- rman` after a successful verification. A manifest is acknowledged when no `finalize` is under way and `run.json` does not say that the run is
open: a manifest that a rollback could not remove is no seal to rely on, and a later `finalize` replaces it.

### CommandRunner

The processes of the command (`Proc`) fork, leave the group, write, close their streams and
exit at any time (actions of the environment, external to the repository). A capturer is
`Read`, `EndOfStream`, `ReadFails`. `execute` is a program counter: `Spawn`, the polling loop
(`TryWait`, `CheckDeadline`), `Kill` and `ReapLeader` (`terminate_and_confirm`), the confirmation
loop (`Probe`, the scan of `/proc` one entry at a time in `Inspect` and `EndScan`, `Confirm`), and
`Receive` for the two captured streams. Each waiting phase has a deadline of its own; `late` says
it has passed. Bytes are counted. Not modelled: a panic of `thread::spawn`, a process group number
that is used again, processes that enter the group from outside; other operating systems.

### Verdicts, Planning, Pipeline

`Verdicts` and `Planning` are operators; a manifest is a record of what the plans read. `Pipeline`
has a program counter `pc` with one action per store call of `run_verify`, one per check
(`ExecuteCheck`, with what happened chosen in `Events`), and the three readings of the
manifest (`StartVerify`, `BuildRegistry`, `Prepare`). `runs` are the dossiers on disk,
`executions` those in memory, `saved` how many of them are in `executions.json`. `happened` is a history
variable: what each check really did, apart from its interpretation. The store appears through what
`EvidenceStore` shows of it: a call takes place or returns an error, `finalize` seals or leaves
the run open. The user edits the manifest and the tree at any time; `Kill` ends a command anywhere.

Abstractions: one command runs at a time. No built-in provider returns `ProviderError`. SVOP
observations enter as `contradicted`: a parsed observation contradicts the exit of its command
(`CommandChecks` says when, and what an infinite error does to the run, which the pipeline leaves out). TOML loads or does not (`Broken`).

### Determinism

One action per execution of the program (`Execute`: the record of the runner, the counters, the logs, the record of evidence and
the fingerprint), one for the comparison (`Compare`), and `Abort` for an error of the runner or the store. An output is what
was captured of it (`head`): nothing that lies beyond the limit reaches the engine. `Observations` is what the SVOP parser
makes of a head; every head that does not parse has one fingerprint in the structured mode. Executions with one label, which a thread level named twice produces, share their log files and
their entry of the fingerprint map. `Pipeline` uses the result of the engine as the event of a determinism check: `identical`, `diverged` or
`insufficient`.

### Numerics, Observations, CommandChecks

A float is its bit pattern, in a binary format whose two sizes are constants; the value of a finite one is an integer, in units of
the smallest subnormal. `Compare`, `UlpDistance`, `AbsError` and `RelError` follow the code, with the rounding of the machine in
`Nearest`; `Within` and `Steps` are the reference, the words of `model/tolerance.rs` about exact values, and `Shifted` moves
the bounds by a number of floats. JSON has neither NaN nor infinities, so the branches of `Compare` for them are
there and no line of a program reaches them.

A line of output is `Plain`, `Broken` (marked, and no object of the protocol) or the record of its fields. `ParseObservations` makes
something of all marked lines, in their order, or of none. In `CommandChecks` each command ends (`ExecuteCommand`) with an exit and its lines, of
which the capture limit leaves any prefix; of the line at the limit `Cut` leaves something plain, something broken, or, of a broken line, a sound one it begins with
(`Openings`: a JSON object with something after it, cut behind the object). The log goes to the path
made of the id of the check, in which every `:` becomes `-` (an id is a sequence of words, `LogPath`), then the record of evidence with the digest,
then the observations and what the check adds to them (`Reevaluation`). An infinite error is written as JSON null (`Written`), and an execution with one cannot
be read back (`IsReadable`): the code then fails in the next `append_execution`, in the report or in `finalize`; the model lets `Finalize` refuse the run. Checks of cargo only count their observations and may
find that their component is missing (`SkipCommand`). `AbortRun` is an error of the runner or of the store. `Finalize` compares the logs with the
digests of the records. One log stands for the two of a check. The early return for a check
without a command cannot be reached from the providers, and no store call of a check returns `ProviderError`: both are left out.

### Imports and the adapters

The four bridges are copies of one program, and `ingest scirust` is a shorter one; `Imports` is that program with the adapter
as a parameter. A definition is mapped to the copy in which it is most complete. `Look` is one look at one file, in the order of the code,
files being looked at more than once where the code reads them more than once; `Accept` and `Refuse` decide on all that was seen. `MakeWorkRoot` makes the
directory named by the program and its process id, `CreateRun`, `WriteDocument` (one call of the store each), `Finalize` and `Verify` act on the run in it, with the
validation of `Dossier`, `CreateOutput` opens the output if nothing is there, `CopyFile` adds one file of the run, the last time the end marker (`whole`), `Discard` removes an unfinished
output and `Cleanup` the work root. `Fault` makes any call fail, `Replace` changes an input file at any moment, `Kill` ends an
invocation, whose process id may be used again (`Start`).

The adapters hold the conditions that bind the parts of the foreign evidence: digests of the source in the validation, distinct signers,
commits with their events, trials with their measurements, gates with their statuses. JSON that does not decode, sizes beyond a limit, tar headers and texts are
one bit each. `Decode` gives the meaning of bytes, so a digest of bytes is the bytes.

### Attestation

One action per system call that others can see. `Verify` is `verify_integrity_snapshot`, in one step: that the bytes it returns were
the manifest of an intact run at one instant is `AcceptIsSimultaneous` of `EvidenceStore`. An attest takes the snapshot, makes the directory of the output if there is none
(`PrepareOutput`), signs (`Sign`), looks whether the output name is free (`CheckOutput`), writes and syncs an unnamed file (`WriteUnnamed`, `SyncFile`), links it (`Link`, which fails when the name is taken), looks again
(`InspectPublished`) and syncs the directory. An authenticate reads the envelope, opens the allowed signers once, copies them line by line into a memory file (`ReadLine`, `CopyLines`), seals it,
checks where it was opened (`Locate`), stages the signature and asks `ssh-keygen` (`AskVerifier`). An `ssh-keygen` that ends for a reason of its own (a signal, a file it cannot read) is a failing
call of that step; `Fail` gives it both ends of the code, a refusal and an error of the infrastructure, and the history `broken` names the commands to which it happened. `listed` is the history of
whole policies, so a torn one can be told from one that somebody wrote.

Around them: users put their own file at the name, edit an envelope, rewrite a policy or touch the run; other processes open what a command leaves visible in
`/proc` (`Reopen`); any call fails, any command is killed, and `Crash` loses files that are not synced, names whose directory was not synced, and a directory
that was just made. `ssh-keygen` accepts a signature exactly when its key is among the signers for the principal and the payload is the one
signed; it is external, as are users and crashes. All attests of the model write one output name, the case in which they meet.

## 3. Runs

TLC runs with deadlock checking except where noted.

| Run | Properties | Instance |
|---|---|---|
| `store_interference` | `TypeOK`, `SealIsSimultaneous`, `AcceptIsSimultaneous`, `ImplementsSealedRun` | one check with a log, two outside writes or removals of the report and the log at any point |
| `store_faults` | `OneFaultIsRolledBack`, `RolledBackIsOpen`, `SealedDocumentsFrozen`, `ImplementsSealedRun` | two failing operations anywhere, stats and removals among them, two calls of `finalize`, of complete and incomplete directories |
| `store_recovery` | `SealedWasConsistent`, `SealedIsSelfContained`, `EvidenceImmutable`, `RefusalIsJustified` | one crash at any step, two calls of `finalize`, two plans, two sets of claims, two executions, two records for one id |
| `store_crash_looks_final` | `NeverLooksFinal` is violated | one crash |
| `runner` | `TypeOK`, `RecordMeansGroupIsDead`, `RecordIsComplete`, `ExitStatusIsTheChilds`, `ExecuteReturns`, `FullPipeIsDrained` | a child and a descendant, pipes of two bytes, capture limit of one, one failing system call, fairness |
| `pipeline` | `PassIsEarned`, `SealedIsComplete`, `DossierSupportsVerdict`, `OtherRunsStay` | five projects, every outcome of every check, three profiles, `--strict`, clean and dirty trees, one edit, one failing call, one kill; two commands, the second a verify or a replay and only after a run of the small library |
| `pipeline_replay` | `ReplayIsFaithful` is violated | a run, an edit of the manifest or a `--profile`, a replay |
| `determinism_outcomes` | `VerifiedIsEarned`, `EvidenceSupportsOutcome` | two repetitions, no, one or one repeated thread level, both modes, every exit, four heads, one failing call |
| `determinism_unparseable` | `UnparseableIsNotVerified` is violated | structured outputs none of which parses |
| `command_checks` | `NumericVerdictsAreRight`, `VerdictsFollowFromOutput`, `FinalizedLogsAreOwn` | every two finite floats of a six-bit format under nine tolerances, every output of two lines out of fourteen cut anywhere, broken lines that begin with a sound one, ids that share a path, one failing call |
| `imports` | `ExportIsWhole`, `NothingLeftBehind`, `WorkRootIsOwn`, `SealedIsJustified`, `ImportIsHonest`, `OutputIsItsMakers` | each program with inputs it accepts and inputs that break one of its rules each, two invocations of one bridge, one replaced file, one failing call, one kill, two process ids |
| `attestation` | `EnvelopeIsWhole`, `SuccessIsDurable`, `UsageIsUnpublished`, `AuthenticatedIsEarned`, `RefusalHasCause`, `NothingIsClobbered` | two attests and an authenticate, two runs, principals and keys, a policy of two lines outside and one inside the project, one change by a user, one failing call, one kill or crash |

Bounds. `MaxFaults`, `MaxCrashes`, `MaxStrays`, `MaxKills`, `MaxEdits` count disturbances, not steps: one
disturbance at *every* point is what the code's recovery is written for, and a second outside write
is there because the two traversals of `finalize` can be deceived only by a change and a change back. `store_faults` has two
failing operations, since a removal that fails in a rollback is the second one.
One evidence record with one attachment, one check and one claim are the smallest dossier in which every kind
of reference exists; a second record competing for the id and a second version of
the other documents give the validation something to refuse. In the runner the descendant may leave the group or stay; a pipe of two bytes and a capture limit of one
give chunks that cross the limit. Three mantissa and two exponent bits are the least with normal, subnormal and halfway cases
on either side of one in which the rounding of the difference can push a ratio above its bound. The inputs of `imports` differ from an accepted one in one respect each, and one replacement
joins any two of them. `MaxRuns = 2` is one run and its replay. The theorems of section 5
do not depend on these bounds; those of the runner cover any number of processes.

`ReadBefore` orders the steps of a traversal among files that nobody writes meanwhile, where the order
makes no difference; the files that outside processes write are read at every possible moment.

The second command of `pipeline` follows only a run of the smallest project (the constraint `SecondIsSmall` of `MCPipeline`): two runs of
every project are too many for a run of TLC, and what a second command can do to a first dossier does not depend on its number of checks.

Fairness. In the runner `WF` of `execute`, of the capturers, of the clock and of the
delivery of a `SIGKILL`; nothing is assumed of the command, which may run or hold its pipes open for
ever. The pipeline states no fairness: a command is a straight line of calls and checks, and a check ends by `ExecuteReturns`.
The store states no fairness: `finalize` and a verification wait for nobody. The pipeline runs say `CHECK_DEADLOCK FALSE` because no command starts after `MaxRuns` runs.
The imports and the attestation state no fairness: their programs wait for nobody but `ssh-keygen`, which runs without a deadline.

## 4. What the runs show

The double reading of `finalize` is a snapshot although it takes no lock: whatever is sealed was in the
directory at one instant (`SealIsSimultaneous`), and the same holds of a verification (`AcceptIsSimultaneous`).
Sealed dossiers are consistent and self-contained through failing writes, crashes and reopening; their documents stay as long as no
operation of the call fails that would touch them. One failing operation never leaves a run that looks final without its manifest. A record
of the runner means that nothing of the command can act any more, except processes that left the group, and
those have closed its pipes. For every required claim that was registered a PASS rests on one check that was really executed and succeeded,
and on none that failed or timed out; what is not registered is listed below.

A numeric verdict is never more than two floats away from the words of the tolerance when it accepts, and
less than one when it refuses (unless the difference overflows), each comparison has one verdict and these come in the order of the comparisons, and the outcome of a command check follows from
the lines that were captured: a check is verified against no captured line unless one of them does not parse, and a command that ended well fails only for a line of its own, which may be what the capture limit left of
a line that does not parse as a whole (the converse cases are listed below). Two check ids that share a log path
cannot slip through: the run is not finalized.

Whatever is replaced, fails or is killed while evidence is imported, the facts a bridge seals were decided on bytes that it validated, the digests it seals are of these bytes
(but for the bundle of Forge/SOUP, which is read again for its digest), an export is
a whole dossier or is not there, the work root of one program is never used by another, and no program touches
an output that is not its own. `ingest scirust` keeps the status of each gate when the summary names each gate once.

An attestation that stands under its name is a whole envelope over the bytes that were verified. Exit code 0 means that it survives a crash of the machine
if its directory does (one that `attest` had to make may be lost, see below), exit codes 1 and 2 that nothing was published. `authenticate` accepts only what an allowed signer signed, however policy, envelope and run change
while it works, and what it refuses has a cause in the dossier or the policy, unless `ssh-keygen` itself failed.

Three runs end in a counterexample; each is a sentence of the repository that the code does not keep:

- `store_crash_looks_final`: after a crash between the two writes of `finalize` the run says *finalized*
  and has no manifest; it can be neither finalized nor verified. `store`:192 says an interrupted run
  "never looks final".
- `pipeline_replay`: a replay takes the claim levels from the manifest on disk and has no `--profile` of the
  original; `core/pipeline.rs`:398 promises a faithful replay.
- `determinism_unparseable`: structured output that does not parse has a constant fingerprint, so nothing but unparseable outputs is *verified* (`determinism`:380; `README.md`:154).

Divergences that were met while modelling and that the modules follow the code in, without a run of their own. A property that comes close to one of the first thirteen
states what holds all the same, and names the exception: `SealedDocumentsFrozen`, `EvidenceImmutable`, `RolledBackIsOpen`, `AcceptIsSimultaneous`, `SealedIsComplete`, `PassIsEarned`, `VerifiedIsEarned`, `VerdictsFollowFromOutput`,
`NumericVerdictsAreRight`, `SealedIsJustified`, `ImportIsHonest`, `RefusalHasCause`, `AuthenticatedIsEarned`.

- `Path::exists` is false when the stat fails, so a call of a sealed run whose stat of `bundle.json` fails overwrites a listed document
  (`store`:1088). `docs/EVIDENCE_FORMAT.md`:110 says "Sealed runs reject mutation through the store API."
- Likewise `add_evidence` overwrites a record (`store`:593). `store`:590 says "Evidence ids are immutable once written".
- When both the write of `bundle.json` and its removal fail, an open run has a manifest (`store`:949 and 1482). `store`:193 says that only
  finalized bundles carry one.
- A sealed run accepts documents that its manifest does not list, and is refused by every verification afterwards (`store`:1092; `docs/EVIDENCE_FORMAT.md`:110).
- `append_execution` takes any failing read of `executions.json` for a missing file and drops the history (`store`:551); `store`:546 says that it appends.
- Nobody looks whether `manifest-used.json` could be written (`core/pipeline.rs`:399); the run is sealed without it and cannot be replayed.
- An outcome is *verified* although one execution failed and the comparison record of the same check says so (`determinism`:309; `README.md`:152).
- One marked line that does not parse makes the check drop every observation (`core/planning.rs`:245), those that refute it included; `numerics`:31 says that such a line
  is "a protocol error, not silently skipped".
- A comparison that fails because its difference overflows has an infinite error, which is written as null; the executions cannot be read back and the run is not sealed
  (`core/planning.rs`:275). `README.md`:153 promises the verdict *failed*.
- The digest of the evidence tar in a Forge/SOUP dossier is that of a second read, which nobody validates (`core/adapters/forge_soup.rs`:540; line 362 there says "exact Hub
  evidence tar bytes").
- In `ingest scirust` every check takes the first gate with its id, so the status of a later one is nowhere in the dossier (`cli/scirust_ingest.rs`:243; its head says that nothing is flattened).
- An `ssh-keygen` that was killed or could not read its files leads to exit code 1, as if the signature was not accepted (`cli/main.rs`:1386);
  `cli/main.rs`:255 says that infrastructure failures exit 3.
- The policy is read line by line and may be rewritten meanwhile, so the decision rests on a policy that nobody ever wrote (`cli/main.rs`:792; line 788 there asks for "one exact, bounded byte snapshot").
- `cargo.enabled = false` still plans `cargo:deny` (`cargo`:216; `core/manifest/mod.rs`:124 "Master switch").
- `deny = "required"` without the tool is Skipped and, at the default level of its claim, a PASS (`cargo`:226,
  `core/pipeline.rs`:284; `core/manifest/mod.rs`:178 "absence fails the gate").
- The strict profile leaves `docs_build` and `dependency_policy_passes` optional (`policy`:97; `policy`:34
  "Everything enabled must hold as required").
- A required claim that no check supports is not registered and the dossier can be a PASS (`core/pipeline.rs`:271;
  `model/verdict.rs`:23 "missing entirely => PassWithGaps").
- Internal errors leave with code 2 (`cli/main.rs`:644; `cli/main.rs`:255 "infrastructure failures exit 3").
- A project below the root of its repository has `source_clean` verified with a dirty tree (`core/providers.rs`:67).
- A child that ends by itself between the last `try_wait` and the `SIGKILL` is recorded as timed out (`runner`:425; `runner`:208 "and was killed").
- Structured fingerprints follow the order of the observations (`determinism`:361; `docs/EVIDENCE_FORMAT.md`:187 "sorted").
- Outputs that differ only beyond the capture limit have one fingerprint and are *verified* (`determinism`:382; `determinism`:18
  "output identity").
- `source_clean` runs `git status` when the run directory already exists in the worktree (`core/providers.rs`:72; `core/providers.rs`:17 says
  no process is spawned and the result of discovery is used): without an entry in `.gitignore` a clean tree is found dirty.
- A numeric check without observations, or with one line that does not parse or that the capture limit cuts, is *verified* by
  its exit alone. A line that does not parse may become a sound one when the capture limit cuts it, and then counts.
- No outcome considers that output was cut, and the evidence of cargo checks does not record it (`cargo`; `docs/THREAT_MODEL.md`:50
  "truncation recorded as evidence"). Checks of cargo ignore observations that contradict the exit.
- The documentation of `compare` speaks of a policy for NaN (`numerics`:8); the tolerance has none, and two NaN always agree.
- `strict_signed_zero` comes before every other criterion: two zeros of different sign are refused under any absolute bound.
- The relative criterion divides the rounded error by the scale instead of multiplying the bound; it accepts up to two
  floats beyond a bound, refuses up to one within it, and it refuses when the difference overflows, whatever the bound.
- Ids such as `a:b` and `a-b` share their log paths (`core/planning.rs`:173); the second log replaces the first, and the run cannot be finalized
  (`store`:584 promises payloads that "can never drift").
- The level of an optional gate becomes that of the required gate with the same claim (`build` and `check`), in `ingest scirust`.
- The verdict of `claim_map` differs from that of the core (a skipped check outweighs a verified one); nothing uses it.
- In a Forge/SOUP import the values of measured metrics are not compared with the scores of the report.
- While a bridge writes, the unfinished tar stands under the name of the output; after a kill it stays, and so does the work root, which keeps a later process with the same id
  from working.
- A killed `authenticate` leaves its temporary directory. The parent of a directory that `attest` had to make is not synced
  (`cli/main.rs`:985): a crash may take the directory with the attestation, after exit code 0.
- An error after the link leaves `attest` with exit code 3 and the attestation published.

## 5. Proofs

`EvidenceStoreProofs` holds, for every set of ids, attachments, payloads, plans, claims, executions and records and
every bound:

- `TypeCorrect`: `Spec => []TypeOK`.
- `SealingIsSound`: `Spec => []SealedWasConsistent`. Whatever is written by others, fails or crashes,
  `bundle.json` never lists a directory that the validation refuses.
- `StoreImplementsSealedRun`: `Spec => Abstract!Spec`, every step of the store is a step of `SealedRun` or leaves its
  variables alone.

`SealedWasConsistent` is not inductive: nothing in it says why a step that creates the manifest creates a consistent one, or
why a second `finalize` cannot replace a sealed one. `Inv` adds the reasons. `SnapshotValidated`: from the validation to the write
of the manifest the snapshot is consistent and its `run.json` is open. `OpenWhileFinalizing`: `finalize` past its first test means that
there is no manifest yet. `ManifestMeansFinalized`: while a manifest exists `run.json` says finalized or is unreadable, which is
what makes `FinalizeStart` refuse; this is where outside writes matter, whose bytes never parse as a run document.
`ReaderHoldsSeal`: a verification under way holds a copy of a manifest. The proof has one lemma per group of actions (`WritesType`,
`FinalizeType`, ...; `WritesKeepLooks`, `OtherKeepsLooks`; `TraversalInv`, `PublishInv`, `ReaderInv`), put together in
`StepInv`. `StepRefines` then maps each action to one of `SealedRun`.

`SnapshotProofs` goes on from `Inv`:

- `SealedAtOneInstant`: `Spec => []SealIsSimultaneous`. The two traversals of `finalize` are an atomic snapshot.
- `SealedDocumentsStay`: `Spec => SealedDocumentsFrozen`: a step in which no operation fails changes no listed document. With a failing stat it is false (section 4).
- `RecordsAreImmutable`: `Spec => EvidenceImmutable`: a record changes only if the stat failed with which `add_evidence` looked for it (section 4).
- `SealedRunsAreSelfContained`: `Spec => []SealedIsSelfContained`, from `SealingIsSound`: what passes the validation of
  `finalize` defines every claim, check, evidence record and payload it refers to.

The first three rest on `EveryWrite`: a step that is no stray write changes at most one path, to content of its own kind, no sealed
document unless an operation of it fails, and an evidence record only in `WriteRecord`. `RecordIsFree` then says that the record being added is missing while
its attachments are written, unless the duplicate test was misled, because no attachment has a record's path. For the
snapshot, `SealIsSimultaneous` is not inductive: nothing in it says why `Compare` notices. `LostSnapshotShows` does: if a captured
file was already different when the snapshot was validated, then the second traversal has read, or has yet to read, a difference. It is
preserved because stray bytes are never written twice (`AllDated`, `GoneForGood`) and the owner writes nothing meanwhile.
That stray writes do not restore earlier bytes is the assumption on which this claim of the code stands: two
traversals cannot see a file that was changed and changed back.

Four more theorems there are about what a reader of the run is told:

- `RolledBackRunsAreOpen`: `Spec => []RolledBackIsOpen`, if `RunPath \notin Strayable`: `run.json` is back, and after one failing operation `bundle.json` is gone. A process that rewrites `run.json`
  while nothing is sealed can of course undo what the rollback wrote.
- `OpenRunsLookOpen`: `Spec => [](crashes = 0 => OneFaultIsRolledBack)`, if `"finalized" \notin SettableStates`; the callers of
  `set_state` pass `Running` and `Aborted` only (`core/pipeline.rs`:401 and 587). The bounds on crashes and failures are there because the code
  needs them: a death between the two writes of `finalize` breaks `NeverLooksFinal` (a finding of section 4), and so does
  a second failing operation when it hits the rollback itself.
- `AcceptedAtOneInstant`: `Spec => []AcceptIsSimultaneous`, if `TempPath \notin Strayable`: of a verification that accepts the manifest of the `finalize` after which the owner has called nothing. The code gives each temporary a fresh
  name; the model has one name for all of them, so nobody may be allowed to remove it.
- `NoFalseAlarm`: `Spec => RefusalIsJustified`, with no hypothesis.

`FinalizedIsPending` carries the second: a `run.json` that says finalized without `bundle.json` is about to get it, or
its captured bytes back. `ReaderHistory` carries the third, along the same argument as for the seal, with the sealed contents in place of the snapshot:
`LostSealShows` says that the second pass of the verification has met, or has yet to meet, a difference, `SealsAreNumbered` that
a manifest which was replaced never comes back (each call of `finalize` has a date of its own), `LeftoverStays` that a temporary which was sealed is
still there, `ComparedIsHeld` and `AcceptedIsHeld` take the fact to the end. `Undisturbed` carries the fourth: as long as there was no stray write and no temporary is left,
each traversal sees the directory as it is (`WalkIsFaithful`, `CapturedIsThere`), what is sealed is what is there (`SealedIsThere`), and the reader
sees what is sealed (`ReaderIsFaithful`).

The assumptions are the named `ASSUME`s of `Dossier` and `EvidenceStore`: paths of evidence and attachments are disjoint and are
no document's path, the inputs are of their types, no directory is `Absent`, the bounds are naturals. TLC evaluates them in every run.

`CommandRunnerProofs` holds for every set of processes, every amount of output, every capture limit and every pipe size:

- `RunnerTypes`: `Spec => []TypeOK`.
- `NothingOutlivesTheRecord`: `Spec => []RecordMeansGroupIsDead`.
- `OutputIsComplete`: `Spec => []RecordIsComplete`.
- `StatusIsTheChilds`: `Spec => []ExitStatusIsTheChilds`.

None of the three is inductive, for a record says what earlier steps did. `Inv` carries the history along the program counter
of `execute`. `StatusInv`: before the kill nobody has been killed, so a status that is read then is the child's own, and it is
not touched afterwards. `GroupInv`: after the kill no member of the group runs, so none can fork; while the group is scanned
the members still alive are those left to scan; when the output is drained nobody is alive. `StreamInv`: on each stream
the bytes counted and those in the pipe are together the bytes written, what is kept is the first `Limit` of those counted,
and a capture thread that has sent its result saw an empty pipe that nobody holds open. `Started` covers the time before the
spawn. There is one lemma per conjunct (`StartedStep`, `StatusStep`, `GroupStep`, `StreamStep`, and `CommandType`,
`CaptureType`, `ExecuteType` for the types), each with one step per action.

`PipelineProofs` holds for any manifests, profiles and trees and any number of runs, edits, failing calls and kills:

- `TypeCorrect`: `Spec => [](TypeOK /\ CommandIsSound)`, the inductive invariant itself.
- `OtherRunsAreUntouched`: `Spec => OtherRunsStay`.
- `SealedRunsAreComplete` and `DossiersSupportTheirVerdicts`: `Spec => []SealedIsComplete` and `Spec => []DossierSupportsVerdict`, if
  `~LostReads`. `append_execution` takes every failing read of `executions.json` for a missing file (`store`:551): if one is
  lost, the records before it are gone, and both are false.
- `PassesAreEarned`: `Spec => []PassIsEarned`, if `GitAnswers`: the project is the root of its repository and `git status` answers, or it is in no
  repository. Otherwise `source_clean` counts as verified without having been looked at (`core/providers.rs`:67). Lost reads are
  allowed here: the verdict is made of what is in memory.
- `UneditedReplaysAreFaithful`: `Spec /\ [](disk = m) => [](ReplayIsFaithful /\ ReplayRepeatsPlan)` for a manifest `m`, if no command has a `--profile`
  (`CliProfiles = {Unset}`). It delimits the finding of `pipeline_replay`: the manifest on disk and the options are all that a sealed replay can
  differ by from its sealed original; failing calls, kills and edits of the sources change neither the plan nor a claim nor a level. The invariant is `OnlyManifest(m)`: every run names no
  other manifest, and every command plans what `m` alone determines, since the profile a replay hands on from the stored
  manifest is the one that is effective without it (`StoredProfileIsEffective`).
- `MoreClaimsNeverHelp` and `StrictOnlyTightens`: laws of the gate, for any set of claims. No claim that is added makes a gate better,
  whatever became of it; `--strict` turns no gate into a better one, makes none fail that did not fail without it, and passes the same ones.

A dossier is sealed at the end, so what it says must be carried through the program of the command. `CommandIsSound` does that: `RunIsOpen` (the
run of the command exists and is sealed only when the verdict is being printed), `ExecutedOnce` (a check is to do or executed, never both, never twice, and its
record is the outcome of what really happened), `ExecutionsAreSaved`, `PlanIsSaved` and `ConclusionIsSaved` (the documents on disk say what is in
memory, from the call on that writes them). The assumptions are `PipelineAssumption`, `IdsAreDistinct` (loading a manifest refuses two
checks with one id, `core/manifest/mod.rs`:442) and `AbsentIsNoDossier`.

`DeterminismProofs` holds for any program, repetitions, thread levels, outputs and faults:

- `RecordsHold`: `Spec => []IInv`: every execution has a true record and counts once (`RecordsAreTrue`), each fingerprint is of the log with
  its label (`PrintsAreOfLogs`), and the outcome follows from them (`OutcomeFollows`).
- `VerifiedMeansDeterministic`: `Spec => []VerifiedIsEarned`.
- `EvidenceIsEnough`: `Spec => []EvidenceSupportsOutcome`.

Two executions with one label share a log and a fingerprint, so the engine compares fewer outputs than it ran; that
nothing is hidden by this rests on `LogsIntact`, the comparison of digests in `finalize`, which both properties name.

`ImportsProofs` holds for any lists of programs, any number of invocations, process ids, replacements, faults and kills, and any inputs:

- `OwnDirectory`: `Spec => []WorkRootIsOwn`.
- `TidyReturn`: `Spec => []NothingLeftBehind`.
- `OutputsStay`: `Spec => OutputIsItsMakers`.
- `ExportsAreWhole`: `Spec => []ExportIsWhole`.
- `SealsAreJustified`: `Spec => []SealedIsJustified`.
- `ImportsAreHonest`: `Spec => []ImportIsHonest`.

The invariant `IInv` says whose each thing is. `RootsHaveMakers`: a work root is where the program and the process id of its maker say, and its maker is at work, was killed, or failed to
remove it. With `Placed` (a program at work has a process id) and because no two living programs have one process id, the `create_dir` of a second program fails where the first works. `OutputHasMaker`: an output
is being written or discarded by its maker, is whole, or was left by a kill or a removal that failed.

`EInv` adds what the directory of a bridge is after each of its calls (`DirectoryIsWritten`), that a verified run is sealed and has every document (`RunIsWhole`), that what is
copied so far is of that run (`OutputIsCopied`) and that only a whole output is told by exit code 0 (`ZeroMeansWhole`). `JInv` adds that nothing is written before the adapter accepted what it saw, and that
the sealed run holds what it accepted (`SealsAreSupported`); the proof then takes each adapter's conditions apart. For SciCapsule it also needs that both looks were at capsules
(`CapsulesAreSeen`). `HInv` adds `ImportsAreFollowed`, the same walk through the calls of `ingest scirust`: after `n` of them the run has the executions
of the gates that `n` covers, at the end the evaluations of all, and the exit code is made of these. `GatesAreFound` is where each gate having its own name enters: the gate found by
name is then the gate itself. The assumptions are `RequestsNamePrograms`, `AbsentIsNoPid` and `AbsentIsNoDocument`, `RecordsHaveNames` (the records have distinct names, the first one `EVD-1`), and of what decoding yields
`CapsulesAreDecoded` and `SummariesAreDecoded`.

`AttestationProofs` holds for any number of commands, runs, principals, keys, envelopes and policies and any number of changes, failing
calls, kills and crashes:

- `TypeCorrect`, `WholeEnvelope`, `DurableSuccess`, `UnpublishedUsage`, `EarnedAuthentication`, `CausedRefusal`: `[]TypeOK`, `[]EnvelopeIsWhole`, `[]SuccessIsDurable`, `[]UsageIsUnpublished`,
  `[]AuthenticatedIsEarned`, `[]RefusalHasCause`.
- `NoClobber`: `Spec => NothingIsClobbered`.

They share one inductive invariant `IInv`. `HasSigned` and `HasWritten` say what an attest has made at each of its steps; `WholeIsText` and `NameIsLinked` that a name leads only to a file
its attest has synced before it linked it; `NameIsHeld` that from the link to its end the name is the attest's own, and on the disk too once the directory was synced;
`SignaturesAreMade`, `BundlesAreOfTheirRun` and `LinesAreListed` that signatures, digests and policy lines met anywhere come from an attest, a verified run and a policy file;
`SuccessIsAgreed` that an accepting verifier saw them agree, and that one which refuses without having failed saw them disagree. The assumptions are `CommandsAreDistinct` and `ArgumentsAreKnown`.

`CommandCheckProofs` holds for every project, every output and every float format:

- `CheckTypes`: `Spec => []TypeOK`, one execution with a verdict for each command that ran.
- `LogsAreOwn`: `Spec => []FinalizedLogsAreOwn`.
- `OutcomesFollowFromOutput`: `Spec => []VerdictsFollowFromOutput`.
- `RecordedVerdictsAreRight`: `Spec => []NumericVerdictsAreRight`.
- `CompareIsRight`: what `compare` says of two finite floats is right (`IsRight`), for every tolerance.
- `CompareIsSymmetric` and `WiderBoundsAcceptMore`: for all floats, NaNs and infinities included, `compare` treats its two arguments alike,
  and raising or adding a bound makes it refuse nothing it accepted.

`FinalizedLogsAreOwn` is not inductive, for while the run goes on a log may well be overwritten. `Recorded` keeps for each command that ran a record with the path and the digest of its capture,
and `Intact` that in a finalized run every record agrees with the log at its path; `Shape` and `Outcomes` are the types. For the outcomes and the numeric verdicts, `Made` says that an execution is what the
check makes of the capture, or empty if the command was skipped; `CapturesAreOfLines` that a sound line of the capture is the line that was written there or the beginning of a broken one; `ObservationsAreOfLines` that each marked line
is one observation and each observation one line, by counting the marked lines before it (`PlacesAreTaken`). `VerdictsAreMatched` finds for each comparison the place of its verdict: the check
appends the re-evaluations of all observations one after the other, and `HasOffsets` says how many come before those of the i-th (`Flattening`).

`CompareIsRight` is about rounding. Two neighbouring floats are `UnitOf` apart, at most a part in `2^MantissaBits` of their value (`Units`), so values grow with patterns (`Increasing`), and `Nearest` is no
further from an exact quotient than any other float (`NearestIsNearest`). An absolute error is rounded once and stays within one float of a bound (`AbsoluteIsSound`); a relative one is the rounding of a
quotient of a rounded difference, and the two roundings together cross two floats at most (`RoundingIsRelative`, `RelativeIsSound`). Between two finite floats lie as many values as `ToOrdered` says, across zero
as well (`UlpsAreSteps`). Neither side of `IsRight` can be sharpened: with one float instead of two, or with the bound itself instead of the float below it, the run `command_checks` violates `NumericVerdictsAreRight`.

These lemmas stand on induction, which the theorems of the library cannot give (they take a predicate as a parameter). `Induction` states it of a set: a set of naturals that contains 0 and the successor
of each of its members is all of them. It follows from the pigeonhole principle `FS_PigeonHole`: if k were missing, sending each member to
the next number and each missing number to itself would be an injection of `0..k` into `1..k`. `PowersOfTwo` follows from counting the subsets of an interval (`FS_SUBSET`), and `FlattenSeqIsLast` unfolds the recursive function of the community module `SequencesExt` by `Induction`.
The assumptions are `FormatIsBinary`, `NothingIsNoNumber` (a bound that is not set is no number) and `ProjectsAreWellFormed`.

Only model-checked:

- `ExecuteReturns` and `FullPipeIsDrained`: liveness is beyond the prover.

The properties of the three runs above that are violated are no theorems, since the code violates them. Of `NeverLooksFinal` and `ReplayIsFaithful` the theorems state the part that holds.

The hypotheses of the theorems, where there are any, are values of constants for which the runs are made as well: `store_interference` has no stray
writes to `run.json` or to temporaries, `pipeline` has no lost reads. Only `UneditedReplaysAreFaithful` speaks of a case
without a run of its own, the complement of what `pipeline_replay` shows.

## 6. Not modelled

Serialization and layout of documents, identifier syntax, TOML and JSON parsing, environment scrubbing and command lines of the runner,
size limits except where an import refuses, symbolic links except as an input that is refused, terminal output. The commands `inspect`, `plan`, `report`, `diff`, `hash` only read. The
digest of the tree is a hash over a sorted list of files, and the toolchain probes record what they find: neither keeps state. A panic when no thread can
be made, and process group numbers that are used again, are outside the model of the runner. That imports and attestation commands end is not checked: the first are straight lines of
calls, the second depend on `ssh-keygen`.

## 7. Plan

1. Proofs: that the documents of `Planning` cover every level a manifest states.
2. Two commands at once on one project: a replay reads the documents of a run one after the other while its owner still writes it (`cli/main.rs`:1442).
3. The tree digest as a reader of a tree that changes, between discovery and the checks.
