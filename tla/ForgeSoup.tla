------------------------------ MODULE ForgeSoup ------------------------------
(***************************************************************************)
(* The Forge/SOUP bridge: which campaign report and evidence bundle it     *)
(* accepts (adapters/forge_soup.rs), and the documents its program writes  *)
(* about them (forge_soup_main.rs).  The bundle is the sequence of its tar *)
(* entries; a record's payload is its decoded document.                    *)
(***************************************************************************)
EXTENDS ToolEvidence, Integers, SequencesExt

CONSTANT NoCandidate   \* a report without a best candidate

(* The kind of both files, their sizes, a read of each, and a last read of *)
(* the bundle for its digest.                                              *)
Looks == <<1, 2, 1, 2, 1, 2, 2>>

-----------------------------------------------------------------------------
(* The report.                                                             *)

(* A direction says how the engine, which minimizes, saw the value.        *)
Normalized(objective) ==
  IF objective.direction = "minimize" THEN objective.minimized ELSE -objective.minimized

(* validate_score                                                          *)
ScoreHolds(score) ==
  IF ~score.valid THEN score.objectives = <<>>
  ELSE /\ score.objectives # <<>>
       /\ Distinct([i \in DOMAIN score.objectives |-> score.objectives[i].name])
       /\ \A i \in DOMAIN score.objectives :
            /\ score.objectives[i].finite
            /\ score.objectives[i].value = Normalized(score.objectives[i])

Best(report) == {report.best} \ {NoCandidate}

Candidates(report) == Best(report) \cup {report.front[i] : i \in DOMAIN report.front}

Scores(report) == {c.score : c \in Candidates(report)} \cup report.other_scores

ObjectiveNames(report) ==
  UNION {{s.objectives[i].name : i \in DOMAIN s.objectives} : s \in Scores(report)}

FrontIds(report) == {report.front[i].id : i \in DOMAIN report.front}

(* candidate_values: the recipe of every candidate the report names.       *)
Recipes(report) ==
  [id \in {c.id : c \in Candidates(report)} |->
     (CHOOSE c \in Candidates(report) : c.id = id).values]

(* validate_report.  identity stands for the schema, the source commits,   *)
(* the repository and the digests, which must be the qualified ones.       *)
ReportHolds(report) ==
  /\ report.identity
  /\ report.engine.generations > 0 /\ report.engine.survivors > 0
  /\ report.engine.survivors <= report.engine.population
  /\ report.finite_history
  /\ \A s \in Scores(report) : ScoreHolds(s)
  /\ Distinct([i \in DOMAIN report.front |-> report.front[i].id])
  /\ \A c \in Candidates(report) : c.values # <<>> /\ c.score.valid
  /\ \A b \in Best(report), i \in DOMAIN report.front :
       report.front[i].id = b.id => report.front[i].values = b.values

-----------------------------------------------------------------------------
(* The bundle.                                                             *)

ArchiveStart == [root |-> FALSE, zeros |-> 0, records |-> <<>>, refused |-> FALSE]

(* parse_evidence_tar, one block at a time: zero blocks end the archive,   *)
(* one directory comes first, and regular files are the rest.              *)
ReadEntry(archive, entry) ==
  IF entry.type = "zero" THEN [archive EXCEPT !.zeros = @ + 1]
  ELSE IF archive.zeros > 0 \/ ~entry.header THEN [archive EXCEPT !.refused = TRUE]
  ELSE IF entry.type = "directory" /\ ~archive.root THEN [archive EXCEPT !.root = TRUE]
  ELSE IF entry.type = "file" /\ archive.root
            /\ entry.size <= SizeLimit /\ Len(archive.records) < ItemLimit
    THEN [archive EXCEPT !.records = Append(@, entry.record)]
  ELSE [archive EXCEPT !.refused = TRUE]

ReadArchive(bundle) == FoldLeft(ReadEntry, ArchiveStart, bundle)

ArchiveHolds(archive) == ~archive.refused /\ archive.zeros >= 2

(* validate_evidence_record and validate_common_record.  shape stands for  *)
(* the schema and the fields that only have to be well formed.             *)
RecordHolds(record, domain) ==
  /\ record.shape
  /\ record.domain = domain
  /\ record.values # <<>>
  /\ record.phase = "verify" => record.passed = (record.returncode = 0)
  /\ record.phase = "measure" => record.metrics # {} /\ record.finite

Measured(records) ==
  {records[i].candidate : i \in {j \in DOMAIN records : records[j].phase = "measure"}}

(* What a candidate was run with: CandidateExecutionBinding.               *)
Binding(record) ==
  [generation |-> record.generation, values |-> record.values,
   config |-> record.config, dataset |-> record.dataset]

BindingsAgree(records) ==
  \A i, j \in DOMAIN records :
    records[i].candidate = records[j].candidate /\ records[i].seed = records[j].seed
      => Binding(records[i]) = Binding(records[j])

RecipesAgree(records, recipes) ==
  \A i \in DOMAIN records : records[i].candidate \in DOMAIN recipes
    => records[i].values = recipes[records[i].candidate]

(* ingest_forge_soup, after both parts have been validated by themselves.  *)
PartsAgree(report, records) ==
  /\ records # <<>>
  /\ Distinct([i \in DOMAIN records |-> records[i].id])
  /\ BindingsAgree(records)
  /\ RecipesAgree(records, Recipes(report))
  /\ FrontIds(report) \subseteq Measured(records)
  /\ \A b \in Best(report) : b.id \in Measured(records)
  /\ ObjectiveNames(report) # {} =>
       \A i \in DOMAIN records :
         records[i].phase = "measure" => records[i].metrics = ObjectiveNames(report)

Conforms(report, bundle) ==
  LET archive == ReadArchive(bundle)
  IN /\ ReportHolds(report)
     /\ ArchiveHolds(archive)
     /\ \A i \in DOMAIN archive.records : RecordHolds(archive.records[i], report.domain)
     /\ PartsAgree(report, archive.records)

(* ingest_qualified_forge_soup is called with the qualified identities;    *)
(* nothing compares the bundle read for its digest with the one parsed.    *)
Accepts(seen) ==
  /\ seen[1].regular /\ seen[2].regular
  /\ ReadsBounded(seen[3]) /\ ReadsBounded(seen[4])
  /\ Doc(seen[5]).json /\ Doc(seen[6]).json
  /\ Conforms(Doc(seen[5]), Doc(seen[6]).entries)

Fingerprints(records) == {records[i].fingerprint : i \in DOMAIN records}

Evidence(seen) ==
  LET records == ReadArchive(Doc(seen[6]).entries).records
  IN [attachments |-> {}, derived_from |-> {},
      inputs |-> <<Digest(seen[5]), Digest(seen[7])>>,
      facts |-> [front |-> FrontIds(Doc(seen[5])), records |-> records,
                 comparable |-> Cardinality(Fingerprints(records)) = 1]]

Check == "forge-soup:qualified-evidence-v1"
Claim == "forge_soup_evidence_contract"

Documents(seen) ==
  OneClaimDocuments(Check, Claim, Digest(seen[7]), Evidence(seen), NoPayload)

=============================================================================
