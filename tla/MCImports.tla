----------------------------- MODULE MCImports -----------------------------
(* Values for TLC of the constants of Imports: for each program, inputs it *)
(* accepts and inputs that break one of its rules each.                    *)
EXTENDS Imports, Integers, TLC

File(bytes) == [regular |-> TRUE, bytes |-> bytes]
Link(bytes) == [regular |-> FALSE, bytes |-> bytes]

(* NNIS: a record and a suite, and validations of them.                    *)
Parity(kind) == [json |-> TRUE, size |-> 1, kind |-> kind, commit |-> "c1"]
Validation(kind, specs) ==
  [json |-> TRUE, size |-> 1, envelope |-> TRUE, kind |-> kind, source |-> [sha256 |-> kind],
   commit |-> "c1", count |-> Len(specs), specs |-> specs,
   levels |-> <<"generation_trajectory">>, runtimes |-> <<"r1">>, backends |-> <<"b1", "b2">>,
   asserted |-> {}, boundary |-> TRUE]
OfRecord == Validation("record", <<"s1">>)
OfSuite == Validation("suite", <<"s1", "s2">>)
NnisBytes ==
  [record |-> Parity("record"), suite |-> Parity("suite"),
   of_record |-> OfRecord, of_suite |-> OfSuite,
   promoting |-> [OfRecord EXCEPT !.asserted = {"promotion_authorized"}],
   other_commit |-> [OfRecord EXCEPT !.commit = "c2"],
   specs_twice |-> [OfSuite EXCEPT !.specs = <<"s1", "s1">>],
   no_runtime |-> [OfSuite EXCEPT !.runtimes = <<>>],
   backend_twice |-> [OfRecord EXCEPT !.backends = <<"b1", "b1">>]]
NnisInputs ==
  {<<File("record"), File("of_record")>>, <<File("suite"), File("of_suite")>>,
   <<File("record"), File("promoting")>>, <<File("record"), File("other_commit")>>,
   <<File("suite"), File("specs_twice")>>, <<File("suite"), File("no_runtime")>>,
   <<File("record"), File("backend_twice")>>, <<Link("record"), File("huge")>>}

(* SciCapsule: two signers required, and ways to have fewer.               *)
Executed(required, signers, signatures) ==
  [json |-> TRUE, size |-> 1, envelope |-> TRUE, status |-> "succeeded",
   trust_is_scientific_verdict |-> FALSE, required_signatures |-> required,
   matched_signers |-> signers, signatures |-> signatures,
   execution_mode |-> "bounded_process_unix", sandbox |-> "none", source_version |-> 1]
CapsuleBytes ==
  [two_of_two |-> Executed(2, <<"a", "b">>, <<"x", "y">>),
   one_of_two |-> Executed(1, <<"a", "b">>, <<"x">>),
   signer_twice |-> Executed(2, <<"a", "a">>, <<"x", "y">>),
   one_signature |-> Executed(2, <<"a", "b">>, <<"x">>),
   none_required |-> Executed(0, <<"a">>, <<"x">>)]
CapsuleInputs == {<<File(b)>> : b \in DOMAIN CapsuleBytes} \cup {<<Link("two_of_two")>>}

(* Elastic: cycles that commit, roll back, or contradict their events.     *)
Cycle(committed, rolled_back, events) ==
  [committed |-> committed, rolled_back |-> rolled_back, events |-> events]
Controller(resource, cycles) == [resource |-> resource, events |-> <<>>, cycles |-> cycles]
Runtime(controllers) ==
  [json |-> TRUE, size |-> 1, envelope |-> TRUE, controllers |-> controllers]
Commits == Cycle(TRUE, FALSE, <<"VerificationPerformed", "CommitExecuted">>)
RollsBack == Cycle(FALSE, TRUE, <<"RollbackExecuted">>)
Single(cycle) == Runtime(<<Controller("ram", <<cycle>>)>>)
ElasticBytes ==
  [three_cycles |-> Runtime(<<Controller("ram", <<Commits, RollsBack>>),
                              Controller("vram", <<Commits>>)>>),
   no_controller |-> Runtime(<<>>),
   resource_twice |-> Runtime(<<Controller("ram", <<Commits>>), Controller("ram", <<>>)>>),
   unproven |-> Single(Cycle(TRUE, FALSE, <<>>)),
   unclaimed |-> Single(Cycle(FALSE, FALSE, <<"CommitExecuted">>)),
   both |-> Single(Cycle(TRUE, TRUE, <<"CommitExecuted", "RollbackExecuted">>))]
ElasticInputs == {<<File(b)>> : b \in DOMAIN ElasticBytes}

(* Forge/SOUP: a front of one candidate, its dry run and its measurement.  *)
Score(value) == [valid |-> TRUE, objectives |->
  <<[name |-> "loss", direction |-> "maximize", value |-> value, minimized |-> -1, finite |-> TRUE]>>]
Candidate(value) == [id |-> 1, values |-> <<"lr">>, score |-> Score(value)]
Campaign(front, best) ==
  [json |-> TRUE, size |-> 1, identity |-> TRUE, domain |-> "d", finite_history |-> TRUE,
   engine |-> [generations |-> 1, population |-> 2, survivors |-> 1],
   best |-> best, other_scores |-> {[valid |-> FALSE, objectives |-> <<>>]}, front |-> front]
Trial(phase, id, config) ==
  [phase |-> phase, shape |-> TRUE, domain |-> "d", candidate |-> 1, seed |-> 1, generation |-> 1,
   values |-> <<"lr">>, config |-> config, dataset |-> 1, fingerprint |-> "f", id |-> id,
   passed |-> TRUE, returncode |-> 0, metrics |-> {"loss"}, finite |-> TRUE]
Entry(type, record) == [type |-> type, header |-> TRUE, size |-> 1, record |-> record]
Root == Entry("directory", <<>>)
Zero == Entry("zero", <<>>)
Tar(entries) == [json |-> TRUE, size |-> 1, entries |-> entries]
Records(records) ==
  Tar(<<Root>> \o [i \in DOMAIN records |-> Entry("file", records[i])] \o <<Zero, Zero>>)
DryRun == Trial("verify", "v", "cfg")
Measurement == Trial("measure", "m", "cfg")
ForgeBytes ==
  [front |-> Campaign(<<Candidate(1)>>, Candidate(1)),
   empty_front |-> Campaign(<<>>, NoCandidate),
   wrong_sign |-> Campaign(<<Candidate(-1)>>, NoCandidate),
   measured |-> Records(<<DryRun, Measurement>>),
   two_hosts |-> Records(<<[DryRun EXCEPT !.fingerprint = "g"], Measurement>>),
   dry_runs |-> Records(<<DryRun>>),
   two_configs |-> Records(<<Measurement, [DryRun EXCEPT !.config = "other"]>>),
   after_end |-> Tar(<<Root, Zero, Entry("file", Measurement), Zero>>)]
ForgeInputs ==
  {<<File(r), File(b)>> : <<r, b>> \in
     {<<"front", "measured">>, <<"front", "two_hosts">>, <<"empty_front", "dry_runs">>,
      <<"front", "two_configs">>, <<"wrong_sign", "measured">>, <<"front", "after_end">>}}

(* SciRust: summaries whose gates pass, fail or are skipped.               *)
Gate(id, status, required) ==
  [key |-> "gate", gate |-> [id |-> id, status |-> status, required |-> required]]
Line(key) == [key |-> key, value |-> "PASS"]
Summary(lines) == [json |-> FALSE, size |-> 1, utf8 |-> TRUE, lines |-> lines]
ScirustBytes ==
  [gap |-> Summary(<<Gate("fmt", "PASS", TRUE), Gate("deny", "SKIP", TRUE), Line("verdict")>>),
   one_slug |-> Summary(<<Gate("build", "PASS", TRUE), Gate("check", "FAIL", FALSE)>>),
   optional |-> Summary(<<Gate("own", "FAIL", FALSE), Gate("test", "PASS", TRUE)>>),
   failing |-> Summary(<<Line("metadata"), Gate("test", "FAIL", TRUE), Gate("fmt", "PASS", TRUE)>>),
   twice |-> Summary(<<Gate("test", "PASS", TRUE), Gate("test", "FAIL", TRUE)>>),
   unknown |-> Summary(<<Gate("fmt", "GREEN", TRUE)>>),
   binary |-> [json |-> FALSE, size |-> 1, utf8 |-> FALSE]]
ScirustInputs == {<<File(b)>> : b \in DOMAIN ScirustBytes}

AllBytes ==
  NnisBytes @@ CapsuleBytes @@ ElasticBytes @@ ForgeBytes @@ ScirustBytes
    @@ [huge |-> [json |-> TRUE, size |-> SizeLimit + 1]]

Names == <<"EVD-1", "EVD-2", "EVD-3", "EVD-4">>

ToolInputs ==
  [nnis |-> NnisInputs, scicapsule |-> CapsuleInputs, elastic |-> ElasticInputs,
   forge_soup |-> ForgeInputs, scirust |-> ScirustInputs]

(* Every program by itself, and two invocations of one bridge, at once or  *)
(* one after the other.                                                    *)
Invocations == {<<p>> : p \in Program} \cup {<<"elastic", "elastic">>}

=============================================================================
