---------------------------- MODULE ToolEvidence ----------------------------
(***************************************************************************)
(* What the bridges to other tools share: the files they are handed, the   *)
(* digests they record, and the shape of the documents they put in a run.  *)
(* A file is regular or not, and has bytes; Decode tells what the bytes    *)
(* are: their length, and the fields of the document they hold.  A digest  *)
(* is injective, so the bytes themselves stand for it.                     *)
(***************************************************************************)
EXTENDS Naturals, Sequences, FiniteSets

CONSTANTS
  Decode,      \* a function from bytes to the document they hold
  SizeLimit,   \* the fixed byte bound of an input
  ItemLimit    \* the fixed bound of the lists an input may carry

Doc(file) == Decode[file.bytes]

Digest(file) == [sha256 |-> file.bytes]

(* symlink_metadata, before the read: a regular file of a bounded size.    *)
LooksRegular(file) == file.regular /\ Doc(file).size <= SizeLimit

(* fs::read follows whatever is at the path by then; only the length of    *)
(* what it returned is looked at again.                                    *)
ReadsBounded(file) == Doc(file).size <= SizeLimit

Distinct(list) == \A i, j \in DOMAIN list : list[i] = list[j] => i = j

IsListWithin(list, low) == Len(list) \in low..ItemLimit /\ Distinct(list)

NoPayload == [p \in {} |-> {}]

(* What a run with one check of one required claim records of them; the    *)
(* adapter states the outcome itself.                                      *)
OneExecution(check) ==
  [check |-> check, evidence_ids |-> {"EVD-1"}, outcome |-> "verified"]

OneEvaluation(claim) == [claim |-> claim, level |-> "required", verdict |-> "verified"]

(* The documents of such a run: what four of the bridges write.            *)
(* handed is the bytes that come with the attachments of the evidence.     *)
OneClaimDocuments(check, claim, content, evidence, handed) ==
  [artifact |-> [content_digest |-> content],
   plan |-> [checks |-> [k \in {check} |-> {claim}], sound |-> TRUE],
   claims |-> [claims |-> {claim}],
   evidence |-> <<evidence>>,
   handed |-> handed,
   executions |-> <<OneExecution(check)>>,
   evaluations |-> {OneEvaluation(claim)}]

=============================================================================
