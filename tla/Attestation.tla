---------------------------- MODULE Attestation ----------------------------
(* The commands attest and authenticate of the command line: detached      *)
(* signatures over a sealed dossier. An attest signs the manifest bytes    *)
(* that the store has just verified and publishes an envelope by linking   *)
(* an unnamed file; an authenticate checks an envelope against a policy    *)
(* file that it copies into a sealed memory file. Commands run at the same *)
(* time on one output name, while users rotate and edit envelopes, rewrite *)
(* policies and touch the dossier, calls fail, commands are killed and the *)
(* machine stops. What verify_integrity_snapshot promises is taken from    *)
(* EvidenceStore; ssh-keygen is an external program.                       *)
EXTENDS Naturals, FiniteSets

CONSTANTS
  Attests, Authenticates,  \* the commands, one invocation each
  Run,                     \* the run each command names
  Principal, Key,          \* what each attest is given
  Runs, Versions, Sealed,  \* the versions of a dossier, and the first of each run
  Principals, Keys,
  TrustFiles, Embedded,    \* policy files, and those that lie under .scirust-verify
  PolicyLines, Policy,     \* how many lines a policy file has, and the first ones
  User,                    \* the file a user saves over an envelope
  Nothing,
  MaxChanges, MaxFaults, MaxStops   \* bounds on users, failing calls, kills and crashes

Commands == Attests \cup Authenticates
Bundles == Runs \X Versions
Payloads == Principals \X Bundles
Signatures == [key : Keys, payload : Payloads]
Envelopes ==
  [run : Runs, digest : Bundles, principal : Principals, signature : Signatures]
Lines == Principals \X Keys
Files == Attests \cup {User}

ASSUME CommandsAreDistinct ==
  /\ Attests \cap Authenticates = {}
  /\ User \notin Attests
  /\ Nothing \notin Files \cup Bundles \cup Envelopes \cup Lines
ASSUME ArgumentsAreKnown ==
  /\ Run \in [Commands -> Runs]
  /\ Principal \in [Attests -> Principals]
  /\ Key \in [Attests -> Keys]
  /\ Embedded \subseteq TrustFiles
  /\ Sealed \in [Runs -> Versions]
  /\ PolicyLines \in Nat
  /\ Policy \in [TrustFiles -> [1..PolicyLines -> Lines \cup {Nothing}]]
  /\ MaxChanges \in Nat
  /\ MaxFaults \in Nat
  /\ MaxStops \in Nat

VARIABLES
  dossier,    \* of each run: its manifest bytes, and whether the files match them
  policy,     \* the lines of each policy file
  directory,  \* the directory of the output: absent, kept, or fresh: not surely on disk
  name,       \* the file that the output name leads to
  onDisk,     \* the files a crash may leave at that name
  file,       \* what each file holds, whether all of it and safely on disk
  at,         \* where each command is: the next step, or how it ended
  bundle,     \* the manifest bytes the command verified
  envelope,   \* the envelope an attest made or an authenticate read
  trust,      \* the policy file an authenticate opened
  pos, got,   \* how far it has read, and the lines
  memory,     \* the memory file made of them
  hidden,     \* whether its descriptors are hidden from other processes
  temp,       \* whether its temporary directory exists
  published,  \* history: the attests that linked their envelope
  gone,       \* history: those whose envelope a user or a lost directory took away
  listed,     \* history: what each policy file ever held
  broken,     \* history: those whose ssh-keygen ended for a reason of its own
  changes, faults, stops

world == <<dossier, policy, listed>>
output == <<directory, name, onDisk, published, gone>>
reader == <<trust, pos, got, memory, hidden, temp, broken>>
budget == <<changes, faults, stops>>
vars == <<world, output, file, at, bundle, envelope, reader, budget>>

Steps == {"begin", "prepare", "sign", "check", "write", "sync", "link", "inspect",
          "persist", "read_envelope", "open_trust", "read_trust", "copy", "seal",
          "locate", "stage", "verify"}
(* The exit codes 0, 1, 2 and 3, and no exit code.                         *)
Ends == {"success", "refused", "usage", "infrastructure", "killed"}

(* What is signed: the principal and the exact manifest bytes.             *)
Payload(principal, bytes) == <<principal, bytes>>

Init ==
  /\ dossier = [r \in Runs |-> [bytes |-> <<r, Sealed[r]>>, intact |-> TRUE]]
  /\ policy = Policy
  /\ directory \in {"absent", "kept"}
  /\ name = Nothing
  /\ onDisk = {Nothing}
  /\ file = [f \in Files |-> [text |-> Nothing, whole |-> FALSE, safe |-> FALSE]]
  /\ at = [c \in Commands |-> "begin"]
  /\ bundle = [c \in Commands |-> Nothing]
  /\ envelope = [c \in Commands |-> Nothing]
  /\ trust = [c \in Authenticates |-> Nothing]
  /\ pos = [c \in Authenticates |-> 0]
  /\ got = [c \in Authenticates |-> {}]
  /\ memory = [c \in Authenticates |-> {}]
  /\ hidden = [c \in Authenticates |-> FALSE]
  /\ temp = [c \in Authenticates |-> FALSE]
  /\ published = {}
  /\ gone = {}
  /\ listed = {<<f, Policy[f]>> : f \in TrustFiles}
  /\ broken = {}
  /\ changes = 0
  /\ faults = 0
  /\ stops = 0

-----------------------------------------------------------------------------
(* A command takes its step from "step" to "next", or ends.                *)
Goes(c, step, next) == at[c] = step /\ at' = [at EXCEPT ![c] = next]

(* A call of the step fails: the error's code ends the command, and the    *)
(* guard that hides its descriptors goes with it. What the step had made   *)
(* by then stays. A failing look at the output in "check" is passed over.  *)
(* An ssh-keygen that does not verify, be it because a signal ends it or   *)
(* because it cannot read the staged signature or the memory file, refuses.*)
Errors(step) ==
  CASE step = "begin" -> {"refused", "usage"}
    [] step = "check" -> {"write"}
    [] step \in {"prepare", "sign", "read_envelope", "open_trust", "read_trust"} ->
         {"usage", "infrastructure"}
    [] step = "verify" -> {"refused", "infrastructure"}
    [] OTHER -> {"infrastructure"}
Fail(c) ==
  /\ at[c] \in Steps
  /\ faults < MaxFaults
  /\ faults' = faults + 1
  /\ \E code \in Errors(at[c]) :
       /\ at' = [at EXCEPT ![c] = code]
       /\ temp' = [u \in Authenticates |->
            IF u = c THEN at[c] = "stage" \/ (temp[c] /\ code # "refused") ELSE temp[u]]
  /\ broken' = broken \cup {u \in {c} : at[c] = "verify"}
  /\ directory' \in
       {directory} \cup {d \in {"fresh"} : at[c] = "prepare" /\ directory = "absent"}
  /\ hidden' = [u \in Authenticates |-> hidden[u] /\ u # c]
  /\ UNCHANGED <<world, name, onDisk, published, gone, file, bundle, envelope, trust, pos,
                 got, memory, changes, stops>>

(* open_run and verify_integrity_snapshot: the manifest bytes of a dossier *)
(* whose files match them, or nothing.                                     *)
Verify(c, next) ==
  IF dossier[Run[c]].intact
  THEN Goes(c, "begin", next) /\ bundle' = [bundle EXCEPT ![c] = dossier[Run[c]].bytes]
  ELSE Goes(c, "begin", "refused") /\ UNCHANGED bundle

(* A principal with whitespace, or none, is refused before anything.       *)
BeginAttest(c) ==
  /\ \/ Goes(c, "begin", "usage") /\ UNCHANGED bundle
     \/ Verify(c, "prepare")
  /\ UNCHANGED <<world, output, file, envelope, reader, budget>>

(* The directory of the output must lie outside the runs. It is made when  *)
(* only its last component is missing, and its parent is not synced.       *)
PrepareOutput(c) ==
  /\ \E inside \in BOOLEAN :
       IF inside
       THEN Goes(c, "prepare", "usage") /\ UNCHANGED directory
       ELSE /\ directory' = IF directory = "absent" THEN "fresh" ELSE directory
            /\ Goes(c, "prepare", IF name = Nothing THEN "sign" ELSE "usage")
  /\ UNCHANGED <<world, name, onDisk, published, gone, file, bundle, envelope, reader,
                 budget>>

(* ssh-keygen -Y sign over the payload, and the envelope around it.        *)
Signed(c) == [key |-> Key[c], payload |-> Payload(Principal[c], bundle[c])]
Sign(c) ==
  /\ Goes(c, "sign", "check")
  /\ envelope' = [envelope EXCEPT ![c] =
       [run |-> Run[c], digest |-> bundle[c], principal |-> Principal[c],
        signature |-> Signed(c)]]
  /\ UNCHANGED <<world, output, file, bundle, reader, budget>>

-----------------------------------------------------------------------------
(* write_attestation: an unnamed file is written, synced and linked; the   *)
(* name is then compared with it, and the directory is synced.             *)
CheckOutput(c) ==
  /\ Goes(c, "check", IF name = Nothing THEN "write" ELSE "usage")
  /\ UNCHANGED <<world, output, file, bundle, envelope, reader, budget>>

WriteUnnamed(c) ==
  /\ Goes(c, "write", "sync")
  /\ file' = [file EXCEPT ![c] = [text |-> envelope[c], whole |-> TRUE, safe |-> FALSE]]
  /\ UNCHANGED <<world, output, bundle, envelope, reader, budget>>

(* Mutant: the envelope is linked without having been synced.              *)
SyncFile_Skipped(c) ==
  /\ Goes(c, "sync", "link")
  /\ UNCHANGED <<world, output, file, bundle, envelope, reader, budget>>

SyncFile(c) ==
  /\ Goes(c, "sync", "link")
  /\ file' = [file EXCEPT ![c].safe = TRUE]
  /\ UNCHANGED <<world, output, bundle, envelope, reader, budget>>

(* Mutant: a temporary file is renamed over the output name.               *)
Link_Renames(c) ==
  /\ Goes(c, "link", "inspect")
  /\ name' = c
  /\ onDisk' = onDisk \cup {c}
  /\ published' = published \cup {c}
  /\ UNCHANGED <<world, directory, gone, file, bundle, envelope, reader, budget>>

Link(c) ==
  /\ IF name = Nothing
     THEN /\ Goes(c, "link", "inspect")
          /\ name' = c
          /\ onDisk' = onDisk \cup {c}
          /\ published' = published \cup {c}
     ELSE Goes(c, "link", "usage") /\ UNCHANGED <<name, onDisk, published>>
  /\ UNCHANGED <<world, directory, gone, file, bundle, envelope, reader, budget>>

(* Mutant: another file at the name is reported as an occupied output.     *)
InspectPublished_Occupied(c) ==
  /\ Goes(c, "inspect", IF name = c THEN "persist" ELSE "usage")
  /\ UNCHANGED <<world, output, file, bundle, envelope, reader, budget>>

InspectPublished(c) ==
  /\ Goes(c, "inspect", IF name = c THEN "persist" ELSE "infrastructure")
  /\ UNCHANGED <<world, output, file, bundle, envelope, reader, budget>>

(* Mutant: success is reported before the directory is synced.             *)
SyncDirectory_Skipped(c) ==
  /\ Goes(c, "persist", "success")
  /\ UNCHANGED <<world, output, file, bundle, envelope, reader, budget>>

SyncDirectory(c) ==
  /\ Goes(c, "persist", "success")
  /\ onDisk' = {name}
  /\ UNCHANGED <<world, directory, name, published, gone, file, bundle, envelope, reader,
                 budget>>

-----------------------------------------------------------------------------
BeginAuthenticate(c) ==
  /\ Verify(c, "read_envelope")
  /\ UNCHANGED <<world, output, file, envelope, reader, budget>>

(* The fields of the envelope are compared in this order.                  *)
AfterFields(c, text) ==
  IF text.run # Run[c] THEN "usage"
  ELSE IF text.digest # bundle[c] THEN "refused" ELSE "open_trust"

(* An envelope that is missing or does not parse is a usage error.         *)
ReadEnvelope(c) ==
  /\ IF name = Nothing \/ ~file[name].whole
     THEN Goes(c, "read_envelope", "usage") /\ UNCHANGED envelope
     ELSE LET text == file[name].text IN
          /\ envelope' = [envelope EXCEPT ![c] = text]
          /\ Goes(c, "read_envelope", AfterFields(c, text))
  /\ UNCHANGED <<world, output, file, bundle, reader, budget>>

(* open_allowed_signers: the file is opened, read to its end while others  *)
(* may rewrite it, and copied into a memory file that is then sealed; the  *)
(* process hides its descriptors from before the copy until the seals.     *)
OpenTrustRoot(c) ==
  /\ Goes(c, "open_trust", "read_trust")
  /\ \E f \in TrustFiles : trust' = [trust EXCEPT ![c] = f]
  /\ UNCHANGED <<world, output, file, bundle, envelope, pos, got, memory, hidden, temp,
                 broken, budget>>

ReadLine(c) ==
  /\ at[c] = "read_trust"
  /\ IF pos[c] = PolicyLines
     THEN Goes(c, "read_trust", "copy") /\ UNCHANGED <<pos, got>>
     ELSE /\ pos' = [pos EXCEPT ![c] = pos[c] + 1]
          /\ got' = [got EXCEPT ![c] = got[c] \cup {policy[trust[c]][pos[c] + 1]}]
          /\ UNCHANGED at
  /\ UNCHANGED <<world, output, file, bundle, envelope, trust, memory, hidden, temp, broken,
                 budget>>

CopyLines(c) ==
  /\ Goes(c, "copy", "seal")
  /\ hidden' = [hidden EXCEPT ![c] = TRUE]
  /\ memory' = [memory EXCEPT ![c] = got[c]]
  /\ UNCHANGED <<world, output, file, bundle, envelope, trust, pos, got, temp, broken,
                 budget>>

Seal(c) ==
  /\ Goes(c, "seal", "locate")
  /\ hidden' = [hidden EXCEPT ![c] = FALSE]
  /\ UNCHANGED <<world, output, file, bundle, envelope, trust, pos, got, memory, temp,
                 broken, budget>>

(* Mutant: where the trust root lies is not asked.                         *)
Locate_Anywhere(c) ==
  /\ Goes(c, "locate", "stage")
  /\ UNCHANGED <<world, output, file, bundle, envelope, reader, budget>>

(* A trust root under .scirust-verify is refused, after it was read.       *)
Locate(c) ==
  /\ Goes(c, "locate", IF trust[c] \in Embedded THEN "usage" ELSE "stage")
  /\ UNCHANGED <<world, output, file, bundle, envelope, reader, budget>>

StageSignature(c) ==
  /\ Goes(c, "stage", "verify")
  /\ temp' = [temp EXCEPT ![c] = TRUE]
  /\ UNCHANGED <<world, output, file, bundle, envelope, trust, pos, got, memory, hidden,
                 broken, budget>>

(* ssh-keygen -Y verify: the signature is over this payload, by a key that *)
(* a line gives to this principal.                                         *)
Accepts(lines, principal, signature, payload) ==
  /\ signature.payload = payload
  /\ <<principal, signature.key>> \in lines

(* Mutant: the payload is rebuilt from the manifest read a second time.    *)
AskVerifier_ReadsAgain(c) ==
  /\ at[c] = "verify"
  /\ IF LET e == envelope[c] IN
        Accepts(memory[c], e.principal, e.signature,
                Payload(e.principal, dossier[Run[c]].bytes))
     THEN Goes(c, "verify", "success") /\ temp' = [temp EXCEPT ![c] = FALSE]
     ELSE Goes(c, "verify", "refused") /\ temp' = [temp EXCEPT ![c] = FALSE]
  /\ UNCHANGED <<world, output, file, bundle, envelope, trust, pos, got, memory, hidden,
                 broken, budget>>

(* A verifier that refuses may end before it has read the payload: feeding *)
(* it then fails, which is another exit code and leaves the directory.     *)
AskVerifier(c) ==
  /\ at[c] = "verify"
  /\ IF LET e == envelope[c] IN
        Accepts(memory[c], e.principal, e.signature, Payload(e.principal, bundle[c]))
     THEN Goes(c, "verify", "success") /\ temp' = [temp EXCEPT ![c] = FALSE]
     ELSE \/ Goes(c, "verify", "refused") /\ temp' = [temp EXCEPT ![c] = FALSE]
          \/ Goes(c, "verify", "infrastructure") /\ UNCHANGED temp
  /\ UNCHANGED <<world, output, file, bundle, envelope, trust, pos, got, memory, hidden,
                 broken, budget>>

AttestStep(c) ==
  \/ BeginAttest(c) \/ PrepareOutput(c) \/ Sign(c) \/ CheckOutput(c) \/ WriteUnnamed(c)
  \/ SyncFile(c) \/ Link(c) \/ InspectPublished(c) \/ SyncDirectory(c)
AuthenticateStep(c) ==
  \/ BeginAuthenticate(c) \/ ReadEnvelope(c) \/ OpenTrustRoot(c) \/ ReadLine(c)
  \/ CopyLines(c) \/ Seal(c) \/ Locate(c) \/ StageSignature(c) \/ AskVerifier(c)

-----------------------------------------------------------------------------
(* What others do. A user rotates the envelope away, saves an edited copy  *)
(* over it, rewrites a policy line by line, or writes into a dossier,      *)
(* which may leave it with other manifest bytes or with none that match.   *)
Change == changes < MaxChanges /\ changes' = changes + 1

Rotate ==
  /\ Change
  /\ name # Nothing
  /\ name' = Nothing
  /\ onDisk' = onDisk \cup {Nothing}
  /\ gone' = gone \cup ({name} \cap Attests)
  /\ UNCHANGED <<world, directory, published, file, at, bundle, envelope, reader, faults, stops>>

Edits(text) ==
  {[text EXCEPT !.run = r] : r \in Runs} \cup {[text EXCEPT !.digest = d] : d \in Bundles}
  \cup {[text EXCEPT !.principal = p] : p \in Principals}
EditEnvelope ==
  /\ Change
  /\ name \in Attests
  /\ \E text \in Edits(file[name].text) :
       file' = [file EXCEPT ![User] = [text |-> text, whole |-> TRUE, safe |-> FALSE]]
  /\ name' = User
  /\ onDisk' = onDisk \cup {User}
  /\ gone' = gone \cup {name}
  /\ UNCHANGED <<world, directory, published, at, bundle, envelope, reader, faults, stops>>

EditPolicy ==
  /\ Change
  /\ \E f \in TrustFiles, i \in 1..PolicyLines, line \in Lines \cup {Nothing} :
       /\ line # policy[f][i]
       /\ policy' = [policy EXCEPT ![f][i] = line]
       /\ listed' = listed \cup {<<f, policy'[f]>>}
  /\ UNCHANGED <<dossier, output, file, at, bundle, envelope, reader, faults, stops>>

TouchDossier ==
  /\ Change
  /\ \E r \in Runs, v \in Versions, ok \in BOOLEAN :
       /\ dossier[r] # [bytes |-> <<r, v>>, intact |-> ok]
       /\ dossier' = [dossier EXCEPT ![r] = [bytes |-> <<r, v>>, intact |-> ok]]
  /\ UNCHANGED <<policy, listed, output, file, at, bundle, envelope, reader, faults, stops>>

(* Another process of the user opens the memory file through procfs, while *)
(* the command's descriptors are not hidden; seals keep it as it is.       *)
Reopen(c) ==
  /\ Change
  /\ at[c] \in {"seal", "locate", "stage", "verify"}
  /\ ~hidden[c]
  /\ \E line \in Lines :
       memory' = IF at[c] = "seal" THEN [memory EXCEPT ![c] = {line}] ELSE memory
  /\ UNCHANGED <<world, output, file, at, bundle, envelope, trust, pos, got, hidden, temp,
                 broken, faults, stops>>

Kill(c) ==
  /\ at[c] \in Steps
  /\ stops < MaxStops
  /\ stops' = stops + 1
  /\ at' = [at EXCEPT ![c] = "killed"]
  /\ hidden' = [u \in Authenticates |-> hidden[u] /\ u # c]
  /\ UNCHANGED <<world, output, file, bundle, envelope, trust, pos, got, memory, temp,
                 broken, changes, faults>>

(* The machine stops: the disk holds the name as it was at some time since *)
(* the directory was synced last, a fresh directory may be lost with all   *)
(* it held, and a file that was not synced is torn.                        *)
Crash ==
  /\ stops < MaxStops
  /\ stops' = stops + 1
  /\ at' = [c \in Commands |-> IF at[c] \in Steps THEN "killed" ELSE at[c]]
  /\ \E kept \in onDisk :
       \/ /\ directory' = IF directory = "fresh" THEN "kept" ELSE directory
          /\ name' = kept
          /\ UNCHANGED gone
       \/ /\ directory = "fresh"
          /\ directory' = "absent"
          /\ name' = Nothing
          /\ gone' = gone \cup published
  /\ onDisk' = {name'}
  /\ file' = [f \in Files |-> [file[f] EXCEPT !.whole = file[f].whole /\ file[f].safe]]
  /\ hidden' = [u \in Authenticates |-> FALSE]
  /\ UNCHANGED <<world, published, bundle, envelope, trust, pos, got, memory, temp,
                 broken, changes, faults>>

(* Every command has ended.                                                *)
Ended == (\A c \in Commands : at[c] \in Ends) /\ UNCHANGED vars

Next ==
  \/ \E c \in Attests : AttestStep(c)
  \/ \E c \in Authenticates : AuthenticateStep(c) \/ Reopen(c)
  \/ \E c \in Commands : Fail(c) \/ Kill(c)
  \/ Rotate \/ EditEnvelope \/ EditPolicy \/ TouchDossier \/ Crash \/ Ended

Spec == Init /\ [][Next]_vars

-----------------------------------------------------------------------------
(* Every variable has its type.                                            *)
TypeOK ==
  /\ dossier \in [Runs -> [bytes : Bundles, intact : BOOLEAN]]
  /\ policy \in [TrustFiles -> [1..PolicyLines -> Lines \cup {Nothing}]]
  /\ directory \in {"absent", "fresh", "kept"}
  /\ name \in Files \cup {Nothing}
  /\ onDisk \subseteq Files \cup {Nothing}
  /\ file \in [Files -> [text : Envelopes \cup {Nothing}, whole : BOOLEAN, safe : BOOLEAN]]
  /\ at \in [Commands -> Steps \cup Ends]
  /\ bundle \in [Commands -> Bundles \cup {Nothing}]
  /\ envelope \in [Commands -> Envelopes \cup {Nothing}]
  /\ trust \in [Authenticates -> TrustFiles \cup {Nothing}]
  /\ pos \in [Authenticates -> 0..PolicyLines]
  /\ got \in [Authenticates -> SUBSET (Lines \cup {Nothing})]
  /\ memory \in [Authenticates -> SUBSET (Lines \cup {Nothing})]
  /\ hidden \in [Authenticates -> BOOLEAN]
  /\ temp \in [Authenticates -> BOOLEAN]
  /\ published \subseteq Attests
  /\ gone \subseteq Attests
  /\ listed \subseteq TrustFiles \X [1..PolicyLines -> Lines \cup {Nothing}]
  /\ broken \subseteq Commands
  /\ changes \in 0..MaxChanges
  /\ faults \in 0..MaxFaults
  /\ stops \in 0..MaxStops

(* What an attest left at the output name is its whole envelope, at every  *)
(* moment and after every kill and crash, and the envelope's digest is     *)
(* that of the bytes its signature covers (write_attestation: the synced   *)
(* unnamed inode is linked; attest: one snapshot serves both).             *)
EnvelopeIsWhole ==
  name \in Attests =>
    LET f == file[name] IN
    /\ f.whole
    /\ f.text = [run |-> Run[name], digest |-> bundle[name], principal |-> Principal[name],
                 signature |-> [key |-> Key[name],
                                payload |-> Payload(Principal[name], bundle[name])]]

(* Two attests on one name, or an attest and a user: what stands at the    *)
(* name is replaced by users and by crashes only, never by a command       *)
(* ("Publication is no-clobber": linkat, and the checks before it).        *)
NothingIsClobbered ==
  [][name # Nothing /\ name' # name => changes' # changes \/ stops' # stops]_vars

(* An attest that reported success published an envelope that survives     *)
(* every crash, until a user takes it away or the directory that an attest *)
(* had to make is lost (the file and the directory are synced, in this     *)
(* order, before the exit code 0; the parent of a new directory is not).   *)
SuccessIsDurable ==
  \A c \in Attests \ gone : at[c] = "success" => name = c /\ file[c].whole

(* The exit codes 1 and 2 of attest say that nothing was published: a      *)
(* script may repeat the command under another name. Only the exit code 3  *)
(* leaves it open (an error after linkat).                                 *)
UsageIsUnpublished ==
  \A c \in Attests : at[c] \in {"refused", "usage"} => c \notin published

(* The lines that each policy file ever had.                               *)
ListedLines == {<<held[1], held[2][i]>> : held \in listed, i \in 1..PolicyLines}

(* "authenticity: verified" was earned: an attest signed this principal    *)
(* and the very manifest bytes that were verified now, and a policy file   *)
(* outside .scirust-verify, one and the same, gave the principal the key,  *)
(* whatever was edited, rewritten or reopened meanwhile.                   *)
AuthenticatedIsEarned ==
  \A u \in Authenticates : at[u] = "success" =>
    /\ bundle[u][1] = Run[u]
    /\ trust[u] \notin Embedded
    /\ \E a \in Attests :
         /\ envelope[a] # Nothing
         /\ bundle[a] = bundle[u]
         /\ Principal[a] = envelope[u].principal
         /\ <<trust[u], <<Principal[a], Key[a]>>>> \in ListedLines

Unexplained(u, a) ==
  /\ at[u] = "refused" /\ envelope[u] # Nothing
  /\ envelope[u] = file[a].text /\ bundle[u] = bundle[a]
  /\ <<Principal[a], Key[a]>> \in got[u]

(* An envelope that an attest published and nobody edited is refused only  *)
(* if the dossier has other bytes now, if the policy as it was read does   *)
(* not give the signer's key to the principal, or if ssh-keygen itself     *)
(* failed, which the command does not tell from a refusal.                 *)
RefusalHasCause ==
  \A u \in Authenticates, a \in Attests : Unexplained(u, a) => u \in broken
=============================================================================
