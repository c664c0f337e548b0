------------------------- MODULE AttestationProofs -------------------------
(***************************************************************************)
(* Proofs about Attestation, for any number of commands, principals, keys, *)
(* policy files and versions, and any bounds on users, failing calls,      *)
(* kills and crashes.                                                      *)
(***************************************************************************)
EXTENDS Attestation, TLAPS

(* The envelope of an attest is made of its own arguments and of one       *)
(* manifest, from the step after the signature on.                         *)
EnvelopeOf(a) ==
  [run |-> Run[a], digest |-> bundle[a], principal |-> Principal[a],
   signature |-> [key |-> Key[a], payload |-> Payload(Principal[a], bundle[a])]]
Published == {"inspect", "persist", "success"}
Linking == {"link"} \cup Published
Writing == {"sync"} \cup Linking
Signing == {"check", "write"} \cup Writing
SignedBy(a) ==
  /\ at[a] \in {"prepare", "sign"} => bundle[a] \in Bundles
  /\ at[a] \in Signing => envelope[a] # Nothing
  /\ envelope[a] # Nothing =>
       /\ bundle[a] \in Bundles
       /\ envelope[a] = EnvelopeOf(a)
       /\ at[a] \notin {"begin", "prepare", "sign"}
HasSigned == \A a \in Attests : SignedBy(a)

(* It is written before it is synced, and synced before it is linked.      *)
WrittenBy(a) ==
  /\ at[a] \in Writing \/ a \in published =>
       file[a].text = EnvelopeOf(a) /\ file[a].whole /\ envelope[a] # Nothing
  /\ file[a].text # Nothing => file[a].text = EnvelopeOf(a) /\ envelope[a] # Nothing
  /\ at[a] \in Linking \/ a \in published => file[a].safe
  /\ a \in published => at[a] \in Published \cup {"infrastructure", "killed"}
  /\ at[a] \in Published => a \in published
HasWritten == \A a \in Attests : WrittenBy(a)
WholeIsText == \A f \in Files : file[f].whole => file[f].text \in Envelopes

(* The name, now and after a crash, leads to what was linked.              *)
NameIsLinked == name \in onDisk /\ onDisk \subseteq published \cup {User, Nothing}

(* From the link to the end the name is the attest's own, and from the     *)
(* sync of the directory on the disk agrees.                               *)
HeldBy(a) ==
  a \notin gone =>
    /\ at[a] \in Published => name = a
    /\ at[a] = "success" => onDisk = {a}
NameIsHeld == \A a \in Attests : HeldBy(a)

(* Every signature was made by an attest over its principal and manifest.  *)
MadeByAttest(text) ==
  \E a \in Attests : envelope[a] # Nothing /\ text.signature = EnvelopeOf(a).signature
SignaturesAreMade ==
  /\ \A f \in Files : file[f].text # Nothing => MadeByAttest(file[f].text)
  /\ \A c \in Commands : envelope[c] # Nothing => MadeByAttest(envelope[c])

(* A manifest that a command holds is of its run.                          *)
BundlesAreOfTheirRun ==
  /\ \A r \in Runs : dossier[r].bytes[1] = r
  /\ \A k \in Commands : bundle[k] # Nothing => bundle[k][1] = Run[k]

(* What is read, copied and sealed are lines of the file that was opened,  *)
(* and the copy is hidden as long as it can be written.                    *)
Later == {"locate", "stage", "verify", "success"}
PolicyIsListed == \A f \in TrustFiles : <<f, policy[f]>> \in listed
ListedFor(u) ==
  /\ at[u] \in {"begin", "read_envelope", "open_trust"} => got[u] = {} /\ pos[u] = 0
  /\ at[u] \in {"read_trust", "copy", "seal"} \cup Later => trust[u] \in TrustFiles
  /\ \A line \in got[u] : <<trust[u], line>> \in ListedLines
  /\ at[u] \in {"seal"} \cup Later => memory[u] = got[u]
  /\ at[u] = "seal" => hidden[u]
LinesAreListed == PolicyIsListed /\ \A u \in Authenticates : ListedFor(u)

(* A success comes after the place was checked and the verifier agreed.    *)
AgreedFor(u) ==
  /\ at[u] = "begin" => bundle[u] = Nothing
  /\ at[u] \in {"begin", "read_envelope"} => envelope[u] = Nothing
  /\ at[u] = "read_envelope" => bundle[u] # Nothing
  /\ at[u] \in {"read_trust", "open_trust", "copy", "seal"} \cup Later =>
       envelope[u] # Nothing /\ bundle[u] # Nothing
  /\ at[u] \in Later \ {"locate"} => trust[u] \notin Embedded
  /\ at[u] = "success" =>
       Accepts(memory[u], envelope[u].principal, envelope[u].signature,
               Payload(envelope[u].principal, bundle[u]))
  /\ at[u] = "refused" /\ envelope[u] # Nothing =>
       \/ u \in broken
       \/ envelope[u].digest # bundle[u]
       \/ memory[u] = got[u]
          /\ ~Accepts(memory[u], envelope[u].principal, envelope[u].signature,
                      Payload(envelope[u].principal, bundle[u]))
SuccessIsAgreed == \A u \in Authenticates : AgreedFor(u)

IInv ==
  /\ TypeOK /\ HasSigned /\ HasWritten /\ WholeIsText /\ NameIsLinked /\ NameIsHeld
  /\ SignaturesAreMade /\ BundlesAreOfTheirRun /\ LinesAreListed /\ SuccessIsAgreed

-----------------------------------------------------------------------------
(* An edit keeps the signature.                                            *)
LEMMA EditsKeepSignatures ==
  ASSUME NEW e \in Envelopes, NEW t \in Edits(e)
  PROVE  t \in Envelopes /\ t.signature = e.signature
<1>1. CASE \E r \in Runs : t = [e EXCEPT !.run = r]
  BY <1>1 DEF Envelopes
<1>2. CASE \E d \in Bundles : t = [e EXCEPT !.digest = d]
  BY <1>2 DEF Envelopes
<1>3. CASE \E p \in Principals : t = [e EXCEPT !.principal = p]
  BY <1>3 DEF Envelopes
<1> QED
  BY <1>1, <1>2, <1>3 DEF Edits

(* One lemma per part of the invariant: what a step does to it.            *)
LEMMA NextKeepsTyped ==
  ASSUME TypeOK, HasSigned, HasWritten, NameIsLinked, LinesAreListed, [Next]_vars
  PROVE  TypeOK'
<1> USE CommandsAreDistinct, ArgumentsAreKnown DEF TypeOK, vars, world, output, reader,
      budget, Commands, Files, Steps, Ends
<1>1. ASSUME NEW c \in Attests, BeginAttest(c) PROVE TypeOK'
  <2>1. dossier[Run[c]].bytes \in Bundles
    BY <1>1 DEF BeginAttest, Verify, Goes
  <2>2. bundle' = bundle \/ bundle' = [bundle EXCEPT ![c] = dossier[Run[c]].bytes]
    BY <2>1, <1>1 DEF BeginAttest, Verify, Goes
  <2>3. at' = [at EXCEPT ![c] = "usage"] \/ at' = [at EXCEPT ![c] = "prepare"] \/ at' = [at EXCEPT ![c] = "refused"]
    BY <2>1, <2>2, <1>1 DEF BeginAttest, Verify, Goes
  <2>4. bundle' \in [Commands -> Bundles \cup {Nothing}]
    BY <2>1, <2>2, <2>3, <1>1 DEF BeginAttest, Verify, Goes
  <2>5. at' \in [Commands -> Steps \cup Ends]
    BY <2>1, <2>2, <2>3, <2>4, <1>1, ZenonT(60) DEF BeginAttest, Verify, Goes
  <2> QED
    BY <2>1, <2>2, <2>3, <2>4, <2>5, <1>1 DEF BeginAttest, Verify, Goes
<1>2. ASSUME NEW c \in Attests, PrepareOutput(c) PROVE TypeOK'
  <2>1. at' = [at EXCEPT ![c] = "sign"] \/ at' = [at EXCEPT ![c] = "usage"]
    BY <1>2 DEF PrepareOutput, Goes
  <2>2. at' \in [Commands -> Steps \cup Ends]
    BY <2>1, <1>2 DEF PrepareOutput, Goes
  <2>3. directory' \in {"absent", "fresh", "kept"}
    BY <2>1, <2>2, <1>2 DEF PrepareOutput, Goes
  <2> QED
    BY <2>1, <2>2, <2>3, <1>2 DEF PrepareOutput, Goes
<1>3. ASSUME NEW c \in Attests, Sign(c) PROVE TypeOK'
  <2>1. at' \in [Commands -> Steps \cup Ends]
    BY <1>3 DEF Sign, Goes
  <2>2. bundle[c] \in Bundles
    BY <2>1, <1>3 DEF Sign, Goes, HasSigned, SignedBy
  <2>3. Signed(c) \in Signatures
    BY <2>1, <2>2, <1>3 DEF Sign, Goes, Signed, Signatures, Payload, Payloads
  <2>4. [run |-> Run[c], digest |-> bundle[c], principal |-> Principal[c],
        signature |-> Signed(c)] \in Envelopes
    BY <2>1, <2>2, <2>3, <1>3 DEF Sign, Goes, Envelopes
  <2>5. envelope' \in [Commands -> Envelopes \cup {Nothing}]
    BY <2>1, <2>2, <2>3, <2>4, <1>3 DEF Sign, Goes
  <2> QED
    BY <2>1, <2>2, <2>3, <2>4, <2>5, <1>3 DEF Sign, Goes
<1>4. ASSUME NEW c \in Attests, CheckOutput(c) PROVE TypeOK'
  BY <1>4 DEF CheckOutput, Goes
<1>5. ASSUME NEW c \in Attests, WriteUnnamed(c) PROVE TypeOK'
  BY <1>5 DEF WriteUnnamed, Goes
<1>6. ASSUME NEW c \in Attests, SyncFile(c) PROVE TypeOK'
  <2>1. at' \in [Commands -> Steps \cup Ends]
    BY <1>6 DEF SyncFile, Goes
  <2>2. file[c] \in [text : Envelopes \cup {Nothing}, whole : BOOLEAN, safe : BOOLEAN]
    BY <2>1, <1>6 DEF SyncFile, Goes
  <2>3. [file[c] EXCEPT !.safe = TRUE] \in [text : Envelopes \cup {Nothing}, whole : BOOLEAN,
        safe : BOOLEAN]
    BY <2>1, <2>2, <1>6 DEF SyncFile, Goes
  <2>4. file' = [file EXCEPT ![c] = [file[c] EXCEPT !.safe = TRUE]]
    BY <2>1, <2>2, <2>3, <1>6 DEF SyncFile, Goes
  <2>5. file' \in [Files -> [text : Envelopes \cup {Nothing}, whole : BOOLEAN, safe : BOOLEAN]]
    BY <2>1, <2>2, <2>3, <2>4, <1>6 DEF SyncFile, Goes
  <2> QED
    BY <2>1, <2>2, <2>3, <2>4, <2>5, <1>6 DEF SyncFile, Goes
<1>7. ASSUME NEW c \in Attests, Link(c) PROVE TypeOK'
  <2>1. at' = [at EXCEPT ![c] = "inspect"] \/ at' = [at EXCEPT ![c] = "usage"]
    BY <1>7 DEF Link, Goes
  <2>2. at' \in [Commands -> Steps \cup Ends]
    BY <2>1, <1>7 DEF Link, Goes
  <2>3. name' \in Files \cup {Nothing}
    BY <2>1, <2>2, <1>7 DEF Link, Goes
  <2>4. onDisk' \subseteq Files \cup {Nothing}
    BY <2>1, <2>2, <2>3, <1>7 DEF Link, Goes
  <2> QED
    BY <2>1, <2>2, <2>3, <2>4, <1>7 DEF Link, Goes
<1>8. ASSUME NEW c \in Attests, InspectPublished(c) PROVE TypeOK'
  BY <1>8 DEF InspectPublished, Goes
<1>9. ASSUME NEW c \in Attests, SyncDirectory(c) PROVE TypeOK'
  BY <1>9 DEF SyncDirectory, Goes
<1>10. ASSUME NEW c \in Authenticates, BeginAuthenticate(c) PROVE TypeOK'
  <2>1. dossier[Run[c]].bytes \in Bundles
    BY <1>10 DEF BeginAuthenticate, Verify, Goes
  <2>2. bundle' = bundle \/ bundle' = [bundle EXCEPT ![c] = dossier[Run[c]].bytes]
    BY <2>1, <1>10 DEF BeginAuthenticate, Verify, Goes
  <2>3. at' = [at EXCEPT ![c] = "read_envelope"] \/ at' = [at EXCEPT ![c] = "refused"]
    BY <2>1, <2>2, <1>10 DEF BeginAuthenticate, Verify, Goes
  <2>4. bundle' \in [Commands -> Bundles \cup {Nothing}]
    BY <2>1, <2>2, <2>3, <1>10 DEF BeginAuthenticate, Verify, Goes
  <2>5. at' \in [Commands -> Steps \cup Ends]
    BY <2>1, <2>2, <2>3, <2>4, <1>10, ZenonT(60) DEF BeginAuthenticate, Verify, Goes
  <2> QED
    BY <2>1, <2>2, <2>3, <2>4, <2>5, <1>10 DEF BeginAuthenticate, Verify, Goes
<1>11. ASSUME NEW c \in Authenticates, ReadEnvelope(c) PROVE TypeOK'
  <2>1. at' = [at EXCEPT ![c] = "usage"] \/ at' = [at EXCEPT ![c] = "refused"] \/ at' = [at EXCEPT ![c] = "open_trust"]
    BY <1>11 DEF ReadEnvelope, Goes, AfterFields
  <2>2. at' \in [Commands -> Steps \cup Ends]
    BY <2>1, <1>11 DEF ReadEnvelope, Goes, AfterFields
  <2>3. name # Nothing => file[name].text \in Envelopes \cup {Nothing}
    BY <2>1, <2>2, <1>11 DEF ReadEnvelope, Goes, AfterFields
  <2>4. envelope' = envelope \/ (name # Nothing
        /\ envelope' = [envelope EXCEPT ![c] = file[name].text])
    BY <2>1, <2>2, <2>3, <1>11 DEF ReadEnvelope, Goes, AfterFields
  <2>5. envelope' \in [Commands -> Envelopes \cup {Nothing}]
    BY <2>1, <2>2, <2>3, <2>4, <1>11 DEF ReadEnvelope, Goes, AfterFields
  <2> QED
    BY <2>1, <2>2, <2>3, <2>4, <2>5, <1>11 DEF ReadEnvelope, Goes, AfterFields
<1>12. ASSUME NEW c \in Authenticates, OpenTrustRoot(c) PROVE TypeOK'
  BY <1>12 DEF OpenTrustRoot, Goes
<1>13. ASSUME NEW c \in Authenticates, ReadLine(c) PROVE TypeOK'
  <2>1. at' = at \/ at' = [at EXCEPT ![c] = "copy"]
    BY <1>13 DEF ReadLine, Goes
  <2>2. at' \in [Commands -> Steps \cup Ends]
    BY <2>1, <1>13 DEF ReadLine, Goes
  <2>3. pos' \in [Authenticates -> 0..PolicyLines]
    <3>1. pos' = pos \/ (pos[c] # PolicyLines /\ pos' = [pos EXCEPT ![c] = pos[c] + 1])
      BY <1>13 DEF ReadLine
    <3>2. pos[c] \in 0..PolicyLines /\ PolicyLines \in Nat
      OBVIOUS
    <3>3. CASE pos' = pos
      BY <3>3
    <3>4. CASE pos[c] # PolicyLines /\ pos' = [pos EXCEPT ![c] = pos[c] + 1]
      <4> DEFINE next == pos[c] + 1
      <4>1. next \in 0..PolicyLines
        BY <3>2, <3>4
      <4>2. pos' = [pos EXCEPT ![c] = next] /\ pos \in [Authenticates -> 0..PolicyLines]
        BY <3>4
      <4> HIDE DEF next
      <4> QED
        BY <4>1, <4>2, Zenon
    <3> QED
      BY <3>1, <3>3, <3>4
  <2>4. trust[c] \in TrustFiles
    BY <2>1, <2>2, <2>3, <1>13 DEF ReadLine, Goes, LinesAreListed, ListedFor, Later
  <2>5. pos[c] # PolicyLines => policy[trust[c]][pos[c] + 1] \in Lines \cup {Nothing}
    BY <2>1, <2>2, <2>3, <2>4, <1>13 DEF ReadLine, Goes
  <2>6. got' = got \/ (pos[c] # PolicyLines
        /\ got' = [got EXCEPT ![c] = got[c] \cup {policy[trust[c]][pos[c] + 1]}])
    BY <2>1, <2>2, <2>3, <2>4, <2>5, <1>13 DEF ReadLine, Goes
  <2>7. pos[c] # PolicyLines => got[c] \cup {policy[trust[c]][pos[c] + 1]} \in SUBSET (Lines \cup {Nothing})
    BY <2>1, <2>2, <2>3, <2>4, <2>5, <2>6, <1>13 DEF ReadLine, Goes
  <2>8. pos[c] = PolicyLines => got' \in [Authenticates -> SUBSET (Lines \cup {Nothing})]
    BY <2>1, <2>2, <2>3, <2>4, <2>5, <2>6, <2>7, <1>13 DEF ReadLine, Goes
  <2>9. pos[c] # PolicyLines => got' = [got EXCEPT ![c] = got[c] \cup {policy[trust[c]][pos[c] + 1]}]
    BY <2>1, <2>2, <2>3, <2>4, <2>5, <2>6, <2>7, <2>8, <1>13 DEF ReadLine, Goes
  <2>10. got' \in [Authenticates -> SUBSET (Lines \cup {Nothing})]
    BY <2>1, <2>2, <2>3, <2>4, <2>5, <2>6, <2>7, <2>8, <2>9, <1>13 DEF ReadLine, Goes
  <2> QED
    BY <2>1, <2>2, <2>3, <2>4, <2>5, <2>6, <2>7, <2>8, <2>9, <2>10, <1>13 DEF ReadLine, Goes
<1>14. ASSUME NEW c \in Authenticates, CopyLines(c) PROVE TypeOK'
  BY <1>14 DEF CopyLines, Goes
<1>15. ASSUME NEW c \in Authenticates, Seal(c) PROVE TypeOK'
  BY <1>15 DEF Seal, Goes
<1>16. ASSUME NEW c \in Authenticates, Locate(c) PROVE TypeOK'
  BY <1>16 DEF Locate, Goes
<1>17. ASSUME NEW c \in Authenticates, StageSignature(c) PROVE TypeOK'
  BY <1>17 DEF StageSignature, Goes
<1>18. ASSUME NEW c \in Authenticates, AskVerifier(c) PROVE TypeOK'
  <2>1. at' = [at EXCEPT ![c] = "success"] \/ at' = [at EXCEPT ![c] = "refused"] \/ at' = [at EXCEPT ![c] = "infrastructure"]
    BY <1>18 DEF AskVerifier, Goes
  <2>2. at' \in [Commands -> Steps \cup Ends]
    BY <2>1, <1>18 DEF AskVerifier, Goes
  <2>3. temp' = temp \/ temp' = [temp EXCEPT ![c] = FALSE]
    BY <2>1, <2>2, <1>18 DEF AskVerifier, Goes
  <2>4. temp' \in [Authenticates -> BOOLEAN]
    BY <2>1, <2>2, <2>3, <1>18 DEF AskVerifier, Goes
  <2> QED
    BY <2>1, <2>2, <2>3, <2>4, <1>18 DEF AskVerifier, Goes
<1>19. ASSUME NEW c \in Authenticates, Reopen(c) PROVE TypeOK'
  BY <1>19 DEF Reopen, Change
<1>20. ASSUME NEW c \in Commands, Fail(c) PROVE TypeOK'
  <2>1. PICK code \in Errors(at[c]) :
          /\ at' = [at EXCEPT ![c] = code]
          /\ temp' = [u \in Authenticates |->
               IF u = c THEN at[c] = "stage" \/ (temp[c] /\ code # "refused") ELSE temp[u]]
    BY <1>20 DEF Fail
  <2>2. code \in Steps \cup Ends
    BY DEF Errors
  <2>3. at' \in [Commands -> Steps \cup Ends]
    BY <2>1, <2>2
  <2>4. temp' \in [Authenticates -> BOOLEAN]
    <3>1. ASSUME NEW u \in Authenticates
          PROVE  (IF u = c THEN at[c] = "stage" \/ (temp[c] /\ code # "refused") ELSE temp[u])
                   \in BOOLEAN
      <4>1. temp[u] \in BOOLEAN
        OBVIOUS
      <4> QED
        BY <4>1, Zenon
    <3> QED
      BY <2>1, <3>1, Zenon
  <2>5. /\ faults' \in 0..MaxFaults /\ directory' \in {"absent", "fresh", "kept"}
        /\ hidden' \in [Authenticates -> BOOLEAN] /\ broken' \subseteq Commands
    BY <1>20 DEF Fail
  <2>6. UNCHANGED <<world, name, onDisk, published, gone, file, bundle, envelope, trust, pos,
                   got, memory, changes, stops>>
    BY <1>20 DEF Fail
  <2> QED
    BY <2>3, <2>4, <2>5, <2>6
<1>21. ASSUME NEW c \in Commands, Kill(c) PROVE TypeOK'
  BY <1>21 DEF Kill
<1>22. CASE Rotate
  BY <1>22 DEF Rotate, Change
<1>23. CASE EditEnvelope
  <2>1. name \in published
    BY <1>23 DEF EditEnvelope, Change, NameIsLinked
  <2>2. file[name].text \in Envelopes
    BY <2>1, <1>23 DEF EditEnvelope, Change, HasSigned, SignedBy, HasWritten, WrittenBy
  <2>3. \A t \in Edits(file[name].text) : t \in Envelopes
        /\ t.signature = file[name].text.signature
    BY <2>1, <2>2, <1>23, EditsKeepSignatures DEF EditEnvelope, Change
  <2>4. file' \in [Files -> [text : Envelopes \cup {Nothing}, whole : BOOLEAN, safe : BOOLEAN]]
    BY <2>1, <2>2, <2>3, <1>23 DEF EditEnvelope, Change
  <2> QED
    BY <2>1, <2>2, <2>3, <2>4, <1>23 DEF EditEnvelope, Change
<1>24. CASE EditPolicy
  <2>1. PICK f \in TrustFiles, i \in 1..PolicyLines, line \in Lines \cup {Nothing} :
          /\ policy' = [policy EXCEPT ![f][i] = line]
          /\ listed' = listed \cup {<<f, policy'[f]>>}
    BY <1>24 DEF EditPolicy
  <2>2. [policy[f] EXCEPT ![i] = line] \in [1..PolicyLines -> Lines \cup {Nothing}]
    OBVIOUS
  <2>3. policy' = [policy EXCEPT ![f] = [policy[f] EXCEPT ![i] = line]]
    BY <2>1
  <2>4. policy' \in [TrustFiles -> [1..PolicyLines -> Lines \cup {Nothing}]]
    BY <2>2, <2>3
  <2>5. listed' \subseteq TrustFiles \X [1..PolicyLines -> Lines \cup {Nothing}]
    <3>1. policy'[f] \in [1..PolicyLines -> Lines \cup {Nothing}]
      BY <2>4, Zenon
    <3>2. <<f, policy'[f]>> \in TrustFiles \X [1..PolicyLines -> Lines \cup {Nothing}]
      BY <3>1, Zenon
    <3>3. /\ listed \subseteq TrustFiles \X [1..PolicyLines -> Lines \cup {Nothing}]
          /\ listed' = listed \cup {<<f, policy'[f]>>}
      BY <2>1, Zenon
    <3> QED
      BY <3>2, <3>3, Zenon
  <2>6. /\ changes' \in 0..MaxChanges
        /\ UNCHANGED <<dossier, output, file, at, bundle, envelope, reader, faults, stops>>
    BY <1>24 DEF EditPolicy, Change
  <2> QED
    BY <2>4, <2>5, <2>6
<1>25. CASE TouchDossier
  <2>1. dossier' \in [Runs -> [bytes : Bundles, intact : BOOLEAN]]
    BY <1>25 DEF TouchDossier, Change, Bundles
  <2> QED
    BY <2>1, <1>25 DEF TouchDossier, Change
<1>26. CASE Crash
  <2>1. at' \in [Commands -> Steps \cup Ends]
    BY <1>26 DEF Crash
  <2>2. \A f \in Files : [file[f] EXCEPT !.whole = file[f].whole
        /\ file[f].safe] = [text |-> file[f].text, whole |-> (file[f].whole /\ file[f].safe),
              safe |-> file[f].safe]
    BY <2>1, <1>26 DEF Crash
  <2>3. file' = [f \in Files |-> [text |-> file[f].text, whole |-> (file[f].whole
        /\ file[f].safe), safe |-> file[f].safe]]
    BY <2>1, <2>2, <1>26 DEF Crash
  <2>4. file' \in [Files -> [text : Envelopes \cup {Nothing}, whole : BOOLEAN, safe : BOOLEAN]]
    BY <2>1, <2>2, <2>3, <1>26 DEF Crash
  <2>5. name' \in Files \cup {Nothing} /\ onDisk' \subseteq Files \cup {Nothing}
    BY <2>1, <2>2, <2>3, <2>4, <1>26 DEF Crash
  <2>6. gone' \subseteq Attests
    BY <2>1, <2>2, <2>3, <2>4, <2>5, <1>26 DEF Crash
  <2> QED
    BY <2>1, <2>2, <2>3, <2>4, <2>5, <2>6, <1>26 DEF Crash
<1>27. CASE UNCHANGED vars
  BY <1>27 DEF vars
<1> QED
  BY <1>1, <1>2, <1>3, <1>4, <1>5, <1>6, <1>7, <1>8, <1>9, <1>10,
     <1>11, <1>12, <1>13, <1>14, <1>15, <1>16, <1>17, <1>18, <1>19, <1>20,
     <1>21, <1>22, <1>23, <1>24, <1>25, <1>26, <1>27
  DEF Next, AttestStep, AuthenticateStep, Ended

(* A manifest is taken before it is signed, and a signature stays.         *)
LEMMA NextKeepsSigned ==
  ASSUME TypeOK, HasSigned, [Next]_vars
  PROVE  HasSigned'
<1> USE CommandsAreDistinct, ArgumentsAreKnown DEF TypeOK, HasSigned, SignedBy, EnvelopeOf,
      Signing, Writing, Linking, Published, vars, world, output, reader, budget, Commands,
            Steps, Ends
<1> SUFFICES ASSUME NEW a \in Attests PROVE SignedBy(a)'
  BY DEF HasSigned
<1>1. ASSUME NEW c \in Attests, BeginAttest(c) PROVE SignedBy(a)'
  BY <1>1 DEF BeginAttest, Verify, Goes
<1>2. ASSUME NEW c \in Attests, PrepareOutput(c) PROVE SignedBy(a)'
  BY <1>2 DEF PrepareOutput, Goes
<1>3. ASSUME NEW c \in Attests, Sign(c) PROVE SignedBy(a)'
  <2>1. bundle[c] \in Bundles
    BY <1>3 DEF Sign, Goes
  <2>2. envelope'[c] = EnvelopeOf(c)
    BY <2>1, <1>3 DEF Sign, Goes, Signed
  <2>3. envelope'[c] # Nothing
    BY <2>1, <2>2, <1>3 DEF Sign, Goes, Envelopes, Signatures, Payloads, Payload
  <2>4. a # c => envelope'[a] = envelope[a] /\ at'[a] = at[a]
    BY <2>1, <2>2, <2>3, <1>3 DEF Sign, Goes
  <2>5. at'[c] = "check"
    BY <2>1, <2>2, <2>3, <2>4, <1>3 DEF Sign, Goes
  <2> QED
    BY <2>1, <2>2, <2>3, <2>4, <2>5, <1>3 DEF Sign, Goes
<1>4. ASSUME NEW c \in Attests, CheckOutput(c) PROVE SignedBy(a)'
  BY <1>4 DEF CheckOutput, Goes
<1>5. ASSUME NEW c \in Attests, WriteUnnamed(c) PROVE SignedBy(a)'
  BY <1>5 DEF WriteUnnamed, Goes
<1>6. ASSUME NEW c \in Attests, SyncFile(c) PROVE SignedBy(a)'
  BY <1>6 DEF SyncFile, Goes
<1>7. ASSUME NEW c \in Attests, Link(c) PROVE SignedBy(a)'
  BY <1>7 DEF Link, Goes
<1>8. ASSUME NEW c \in Attests, InspectPublished(c) PROVE SignedBy(a)'
  BY <1>8 DEF InspectPublished, Goes
<1>9. ASSUME NEW c \in Attests, SyncDirectory(c) PROVE SignedBy(a)'
  BY <1>9 DEF SyncDirectory, Goes
<1>10. ASSUME NEW c \in Authenticates, BeginAuthenticate(c) PROVE SignedBy(a)'
  BY <1>10 DEF BeginAuthenticate, Verify, Goes
<1>11. ASSUME NEW c \in Authenticates, ReadEnvelope(c) PROVE SignedBy(a)'
  BY <1>11 DEF ReadEnvelope, Goes, AfterFields
<1>12. ASSUME NEW c \in Authenticates, OpenTrustRoot(c) PROVE SignedBy(a)'
  BY <1>12 DEF OpenTrustRoot, Goes
<1>13. ASSUME NEW c \in Authenticates, ReadLine(c) PROVE SignedBy(a)'
  BY <1>13 DEF ReadLine, Goes
<1>14. ASSUME NEW c \in Authenticates, CopyLines(c) PROVE SignedBy(a)'
  BY <1>14 DEF CopyLines, Goes
<1>15. ASSUME NEW c \in Authenticates, Seal(c) PROVE SignedBy(a)'
  BY <1>15 DEF Seal, Goes
<1>16. ASSUME NEW c \in Authenticates, Locate(c) PROVE SignedBy(a)'
  BY <1>16 DEF Locate, Goes
<1>17. ASSUME NEW c \in Authenticates, StageSignature(c) PROVE SignedBy(a)'
  BY <1>17 DEF StageSignature, Goes
<1>18. ASSUME NEW c \in Authenticates, AskVerifier(c) PROVE SignedBy(a)'
  BY <1>18 DEF AskVerifier, Goes
<1>19. ASSUME NEW c \in Authenticates, Reopen(c) PROVE SignedBy(a)'
  BY <1>19 DEF Reopen, Change
<1>20. ASSUME NEW c \in Commands, Fail(c) PROVE SignedBy(a)'
  BY <1>20 DEF Fail, Errors
<1>21. ASSUME NEW c \in Commands, Kill(c) PROVE SignedBy(a)'
  BY <1>21 DEF Kill
<1>22. CASE Rotate
  BY <1>22 DEF Rotate, Change
<1>23. CASE EditEnvelope
  BY <1>23 DEF EditEnvelope, Change, Edits
<1>24. CASE EditPolicy
  BY <1>24 DEF EditPolicy, Change
<1>25. CASE TouchDossier
  BY <1>25 DEF TouchDossier, Change
<1>26. CASE Crash
  BY <1>26 DEF Crash
<1>27. CASE UNCHANGED vars
  BY <1>27 DEF vars
<1> QED
  BY <1>1, <1>2, <1>3, <1>4, <1>5, <1>6, <1>7, <1>8, <1>9, <1>10,
     <1>11, <1>12, <1>13, <1>14, <1>15, <1>16, <1>17, <1>18, <1>19, <1>20,
     <1>21, <1>22, <1>23, <1>24, <1>25, <1>26, <1>27
  DEF Next, AttestStep, AuthenticateStep, Ended

(* Nothing is linked before it is written and synced.                      *)
LEMMA NextKeepsWritten ==
  ASSUME TypeOK, HasSigned, HasWritten, [Next]_vars
  PROVE  HasWritten'
<1> USE CommandsAreDistinct, ArgumentsAreKnown DEF TypeOK, HasSigned, SignedBy, HasWritten,
      WrittenBy, EnvelopeOf, Signing, Writing, Linking, Published, vars, world, output,
            reader, budget, Commands, Files, Steps, Ends
<1> SUFFICES ASSUME NEW a \in Attests PROVE WrittenBy(a)'
  BY DEF HasWritten
<1>1. ASSUME NEW c \in Attests, BeginAttest(c) PROVE WrittenBy(a)'
  <2>1. at[c] = "begin" /\ c \notin published
    BY <1>1 DEF BeginAttest, Verify, Goes
  <2>2. at' = [at EXCEPT ![c] = "usage"] \/ at' = [at EXCEPT ![c] = "prepare"] \/ at' = [at EXCEPT ![c] = "refused"]
    BY <2>1, <1>1 DEF BeginAttest, Verify, Goes
  <2>3. a # c => bundle'[a] = bundle[a] /\ at'[a] = at[a]
    BY <2>1, <2>2, <1>1 DEF BeginAttest, Verify, Goes
  <2>4. a = c => at'[a] \in {"usage", "prepare", "refused"}
    BY <2>1, <2>2, <2>3, <1>1 DEF BeginAttest, Verify, Goes
  <2> QED
    BY <2>1, <2>2, <2>3, <2>4, <1>1, ZenonT(60) DEF BeginAttest, Verify, Goes
<1>2. ASSUME NEW c \in Attests, PrepareOutput(c) PROVE WrittenBy(a)'
  BY <1>2 DEF PrepareOutput, Goes
<1>3. ASSUME NEW c \in Attests, Sign(c) PROVE WrittenBy(a)'
  BY <1>3 DEF Sign, Goes, Signed, Payload
<1>4. ASSUME NEW c \in Attests, CheckOutput(c) PROVE WrittenBy(a)'
  BY <1>4 DEF CheckOutput, Goes
<1>5. ASSUME NEW c \in Attests, WriteUnnamed(c) PROVE WrittenBy(a)'
  <2>1. envelope[c] = EnvelopeOf(c) /\ envelope[c] # Nothing
    BY <1>5 DEF WriteUnnamed, Goes
  <2>2. file'[a] = IF a = c THEN [text |-> envelope[c], whole |-> TRUE,
        safe |-> FALSE] ELSE file[a]
    BY <2>1, <1>5 DEF WriteUnnamed, Goes
  <2>3. at'[a] = IF a = c THEN "sync" ELSE at[a]
    BY <2>1, <2>2, <1>5 DEF WriteUnnamed, Goes
  <2> QED
    BY <2>1, <2>2, <2>3, <1>5 DEF WriteUnnamed, Goes
<1>6. ASSUME NEW c \in Attests, SyncFile(c) PROVE WrittenBy(a)'
  BY <1>6 DEF SyncFile, Goes
<1>7. ASSUME NEW c \in Attests, Link(c) PROVE WrittenBy(a)'
  BY <1>7 DEF Link, Goes
<1>8. ASSUME NEW c \in Attests, InspectPublished(c) PROVE WrittenBy(a)'
  BY <1>8 DEF InspectPublished, Goes
<1>9. ASSUME NEW c \in Attests, SyncDirectory(c) PROVE WrittenBy(a)'
  BY <1>9 DEF SyncDirectory, Goes
<1>10. ASSUME NEW c \in Authenticates, BeginAuthenticate(c) PROVE WrittenBy(a)'
  BY <1>10 DEF BeginAuthenticate, Verify, Goes
<1>11. ASSUME NEW c \in Authenticates, ReadEnvelope(c) PROVE WrittenBy(a)'
  BY <1>11 DEF ReadEnvelope, Goes, AfterFields
<1>12. ASSUME NEW c \in Authenticates, OpenTrustRoot(c) PROVE WrittenBy(a)'
  BY <1>12 DEF OpenTrustRoot, Goes
<1>13. ASSUME NEW c \in Authenticates, ReadLine(c) PROVE WrittenBy(a)'
  BY <1>13 DEF ReadLine, Goes
<1>14. ASSUME NEW c \in Authenticates, CopyLines(c) PROVE WrittenBy(a)'
  BY <1>14 DEF CopyLines, Goes
<1>15. ASSUME NEW c \in Authenticates, Seal(c) PROVE WrittenBy(a)'
  BY <1>15 DEF Seal, Goes
<1>16. ASSUME NEW c \in Authenticates, Locate(c) PROVE WrittenBy(a)'
  BY <1>16 DEF Locate, Goes
<1>17. ASSUME NEW c \in Authenticates, StageSignature(c) PROVE WrittenBy(a)'
  BY <1>17 DEF StageSignature, Goes
<1>18. ASSUME NEW c \in Authenticates, AskVerifier(c) PROVE WrittenBy(a)'
  BY <1>18 DEF AskVerifier, Goes
<1>19. ASSUME NEW c \in Authenticates, Reopen(c) PROVE WrittenBy(a)'
  BY <1>19 DEF Reopen, Change
<1>20. ASSUME NEW c \in Commands, Fail(c) PROVE WrittenBy(a)'
  BY <1>20 DEF Fail, Errors
<1>21. ASSUME NEW c \in Commands, Kill(c) PROVE WrittenBy(a)'
  BY <1>21 DEF Kill
<1>22. CASE Rotate
  BY <1>22 DEF Rotate, Change
<1>23. CASE EditEnvelope
  BY <1>23 DEF EditEnvelope, Change, Edits
<1>24. CASE EditPolicy
  BY <1>24 DEF EditPolicy, Change
<1>25. CASE TouchDossier
  BY <1>25 DEF TouchDossier, Change
<1>26. CASE Crash
  <2>1. file'[a].text = file[a].text /\ file'[a].safe = file[a].safe
        /\ (file'[a].whole <=> file[a].whole /\ file[a].safe)
    BY <1>26 DEF Crash
  <2>2. at'[a] = IF at[a] \in Steps THEN "killed" ELSE at[a]
    BY <2>1, <1>26 DEF Crash
  <2> QED
    BY <2>1, <2>2, <1>26 DEF Crash
<1>27. CASE UNCHANGED vars
  BY <1>27 DEF vars
<1> QED
  BY <1>1, <1>2, <1>3, <1>4, <1>5, <1>6, <1>7, <1>8, <1>9, <1>10,
     <1>11, <1>12, <1>13, <1>14, <1>15, <1>16, <1>17, <1>18, <1>19, <1>20,
     <1>21, <1>22, <1>23, <1>24, <1>25, <1>26, <1>27
  DEF Next, AttestStep, AuthenticateStep, Ended

(* What is whole is an envelope.                                           *)
LEMMA NextKeepsText ==
  ASSUME TypeOK, HasSigned, HasWritten, NameIsLinked, WholeIsText, [Next]_vars
  PROVE  WholeIsText'
<1> USE CommandsAreDistinct, ArgumentsAreKnown DEF TypeOK, HasSigned, SignedBy, WholeIsText,
      vars, world, output, reader, budget, Commands, Files, Steps, Ends
<1> SUFFICES ASSUME NEW f \in Files PROVE (file[f].whole => file[f].text \in Envelopes)'
  BY DEF WholeIsText
<1>1. ASSUME NEW c \in Attests, BeginAttest(c) PROVE (file[f].whole
      => file[f].text \in Envelopes)'
  BY <1>1 DEF BeginAttest, Verify, Goes
<1>2. ASSUME NEW c \in Attests, PrepareOutput(c) PROVE (file[f].whole
      => file[f].text \in Envelopes)'
  BY <1>2 DEF PrepareOutput, Goes
<1>3. ASSUME NEW c \in Attests, Sign(c) PROVE (file[f].whole => file[f].text \in Envelopes)'
  BY <1>3 DEF Sign, Goes, Signed, Payload
<1>4. ASSUME NEW c \in Attests, CheckOutput(c) PROVE (file[f].whole
      => file[f].text \in Envelopes)'
  BY <1>4 DEF CheckOutput, Goes
<1>5. ASSUME NEW c \in Attests, WriteUnnamed(c) PROVE (file[f].whole
      => file[f].text \in Envelopes)'
  <2>1. envelope[c] \in Envelopes
    BY <1>5 DEF WriteUnnamed, Goes, Signing
  <2>2. file'[f] = IF f = c THEN [text |-> envelope[c], whole |-> TRUE,
        safe |-> FALSE] ELSE file[f]
    BY <2>1, <1>5 DEF WriteUnnamed, Goes
  <2> QED
    BY <2>1, <2>2, <1>5 DEF WriteUnnamed, Goes
<1>6. ASSUME NEW c \in Attests, SyncFile(c) PROVE (file[f].whole => file[f].text \in Envelopes)'
  BY <1>6 DEF SyncFile, Goes
<1>7. ASSUME NEW c \in Attests, Link(c) PROVE (file[f].whole => file[f].text \in Envelopes)'
  BY <1>7 DEF Link, Goes
<1>8. ASSUME NEW c \in Attests, InspectPublished(c) PROVE (file[f].whole
      => file[f].text \in Envelopes)'
  BY <1>8 DEF InspectPublished, Goes
<1>9. ASSUME NEW c \in Attests, SyncDirectory(c) PROVE (file[f].whole
      => file[f].text \in Envelopes)'
  BY <1>9 DEF SyncDirectory, Goes
<1>10. ASSUME NEW c \in Authenticates, BeginAuthenticate(c) PROVE (file[f].whole
      => file[f].text \in Envelopes)'
  BY <1>10 DEF BeginAuthenticate, Verify, Goes
<1>11. ASSUME NEW c \in Authenticates, ReadEnvelope(c) PROVE (file[f].whole
      => file[f].text \in Envelopes)'
  BY <1>11 DEF ReadEnvelope, Goes, AfterFields
<1>12. ASSUME NEW c \in Authenticates, OpenTrustRoot(c) PROVE (file[f].whole
      => file[f].text \in Envelopes)'
  BY <1>12 DEF OpenTrustRoot, Goes
<1>13. ASSUME NEW c \in Authenticates, ReadLine(c) PROVE (file[f].whole
      => file[f].text \in Envelopes)'
  BY <1>13 DEF ReadLine, Goes
<1>14. ASSUME NEW c \in Authenticates, CopyLines(c) PROVE (file[f].whole
      => file[f].text \in Envelopes)'
  BY <1>14 DEF CopyLines, Goes
<1>15. ASSUME NEW c \in Authenticates, Seal(c) PROVE (file[f].whole
      => file[f].text \in Envelopes)'
  BY <1>15 DEF Seal, Goes
<1>16. ASSUME NEW c \in Authenticates, Locate(c) PROVE (file[f].whole
      => file[f].text \in Envelopes)'
  BY <1>16 DEF Locate, Goes
<1>17. ASSUME NEW c \in Authenticates, StageSignature(c) PROVE (file[f].whole
      => file[f].text \in Envelopes)'
  BY <1>17 DEF StageSignature, Goes
<1>18. ASSUME NEW c \in Authenticates, AskVerifier(c) PROVE (file[f].whole
      => file[f].text \in Envelopes)'
  BY <1>18 DEF AskVerifier, Goes
<1>19. ASSUME NEW c \in Authenticates, Reopen(c) PROVE (file[f].whole
      => file[f].text \in Envelopes)'
  BY <1>19 DEF Reopen, Change
<1>20. ASSUME NEW c \in Commands, Fail(c) PROVE (file[f].whole => file[f].text \in Envelopes)'
  BY <1>20 DEF Fail, Errors
<1>21. ASSUME NEW c \in Commands, Kill(c) PROVE (file[f].whole => file[f].text \in Envelopes)'
  BY <1>21 DEF Kill
<1>22. CASE Rotate
  BY <1>22 DEF Rotate, Change
<1>23. CASE EditEnvelope
  <2>1. name \in published
    BY <1>23 DEF EditEnvelope, Change, NameIsLinked
  <2>2. file[name].text \in Envelopes
    BY <2>1, <1>23 DEF EditEnvelope, Change, HasWritten, WrittenBy
  <2>3. \A t \in Edits(file[name].text) : t \in Envelopes
        /\ t.signature = file[name].text.signature
    BY <2>1, <2>2, <1>23, EditsKeepSignatures DEF EditEnvelope, Change
  <2>4. f = User => file'[f].text \in Envelopes
    BY <2>1, <2>2, <2>3, <1>23 DEF EditEnvelope, Change
  <2>5. f # User => file'[f] = file[f]
    BY <2>1, <2>2, <2>3, <2>4, <1>23 DEF EditEnvelope, Change
  <2> QED
    BY <2>1, <2>2, <2>3, <2>4, <2>5, <1>23 DEF EditEnvelope, Change
<1>24. CASE EditPolicy
  BY <1>24 DEF EditPolicy, Change
<1>25. CASE TouchDossier
  BY <1>25 DEF TouchDossier, Change
<1>26. CASE Crash
  <2>1. file'[f].text = file[f].text /\ (file'[f].whole => file[f].whole)
    BY <1>26 DEF Crash
  <2> QED
    BY <2>1, <1>26 DEF Crash
<1>27. CASE UNCHANGED vars
  BY <1>27 DEF vars
<1> QED
  BY <1>1, <1>2, <1>3, <1>4, <1>5, <1>6, <1>7, <1>8, <1>9, <1>10,
     <1>11, <1>12, <1>13, <1>14, <1>15, <1>16, <1>17, <1>18, <1>19, <1>20,
     <1>21, <1>22, <1>23, <1>24, <1>25, <1>26, <1>27
  DEF Next, AttestStep, AuthenticateStep, Ended

(* The disk holds what was linked.                                         *)
LEMMA NextKeepsLinked ==
  ASSUME TypeOK, NameIsLinked, [Next]_vars
  PROVE  NameIsLinked'
<1> USE CommandsAreDistinct, ArgumentsAreKnown DEF TypeOK, NameIsLinked, vars, world, output,
      reader, budget, Commands, Files
<1>1. ASSUME NEW c \in Attests, BeginAttest(c) PROVE NameIsLinked'
  BY <1>1 DEF BeginAttest, Verify, Goes
<1>2. ASSUME NEW c \in Attests, PrepareOutput(c) PROVE NameIsLinked'
  BY <1>2 DEF PrepareOutput, Goes
<1>3. ASSUME NEW c \in Attests, Sign(c) PROVE NameIsLinked'
  BY <1>3 DEF Sign, Goes, Signed, Payload
<1>4. ASSUME NEW c \in Attests, CheckOutput(c) PROVE NameIsLinked'
  BY <1>4 DEF CheckOutput, Goes
<1>5. ASSUME NEW c \in Attests, WriteUnnamed(c) PROVE NameIsLinked'
  BY <1>5 DEF WriteUnnamed, Goes
<1>6. ASSUME NEW c \in Attests, SyncFile(c) PROVE NameIsLinked'
  BY <1>6 DEF SyncFile, Goes
<1>7. ASSUME NEW c \in Attests, Link(c) PROVE NameIsLinked'
  BY <1>7 DEF Link, Goes
<1>8. ASSUME NEW c \in Attests, InspectPublished(c) PROVE NameIsLinked'
  BY <1>8 DEF InspectPublished, Goes
<1>9. ASSUME NEW c \in Attests, SyncDirectory(c) PROVE NameIsLinked'
  BY <1>9 DEF SyncDirectory, Goes
<1>10. ASSUME NEW c \in Authenticates, BeginAuthenticate(c) PROVE NameIsLinked'
  BY <1>10 DEF BeginAuthenticate, Verify, Goes
<1>11. ASSUME NEW c \in Authenticates, ReadEnvelope(c) PROVE NameIsLinked'
  BY <1>11 DEF ReadEnvelope, Goes, AfterFields
<1>12. ASSUME NEW c \in Authenticates, OpenTrustRoot(c) PROVE NameIsLinked'
  BY <1>12 DEF OpenTrustRoot, Goes
<1>13. ASSUME NEW c \in Authenticates, ReadLine(c) PROVE NameIsLinked'
  BY <1>13 DEF ReadLine, Goes
<1>14. ASSUME NEW c \in Authenticates, CopyLines(c) PROVE NameIsLinked'
  BY <1>14 DEF CopyLines, Goes
<1>15. ASSUME NEW c \in Authenticates, Seal(c) PROVE NameIsLinked'
  BY <1>15 DEF Seal, Goes
<1>16. ASSUME NEW c \in Authenticates, Locate(c) PROVE NameIsLinked'
  BY <1>16 DEF Locate, Goes
<1>17. ASSUME NEW c \in Authenticates, StageSignature(c) PROVE NameIsLinked'
  BY <1>17 DEF StageSignature, Goes
<1>18. ASSUME NEW c \in Authenticates, AskVerifier(c) PROVE NameIsLinked'
  BY <1>18 DEF AskVerifier, Goes
<1>19. ASSUME NEW c \in Authenticates, Reopen(c) PROVE NameIsLinked'
  BY <1>19 DEF Reopen, Change
<1>20. ASSUME NEW c \in Commands, Fail(c) PROVE NameIsLinked'
  BY <1>20 DEF Fail, Errors
<1>21. ASSUME NEW c \in Commands, Kill(c) PROVE NameIsLinked'
  BY <1>21 DEF Kill
<1>22. CASE Rotate
  BY <1>22 DEF Rotate, Change
<1>23. CASE EditEnvelope
  BY <1>23 DEF EditEnvelope, Change, Edits
<1>24. CASE EditPolicy
  BY <1>24 DEF EditPolicy, Change
<1>25. CASE TouchDossier
  BY <1>25 DEF TouchDossier, Change
<1>26. CASE Crash
  BY <1>26 DEF Crash
<1>27. CASE UNCHANGED vars
  BY <1>27 DEF vars
<1> QED
  BY <1>1, <1>2, <1>3, <1>4, <1>5, <1>6, <1>7, <1>8, <1>9, <1>10,
     <1>11, <1>12, <1>13, <1>14, <1>15, <1>16, <1>17, <1>18, <1>19, <1>20,
     <1>21, <1>22, <1>23, <1>24, <1>25, <1>26, <1>27
  DEF Next, AttestStep, AuthenticateStep, Ended

(* Nobody but a user or a crash takes a name away.                         *)
LEMMA NextKeepsHeld ==
  ASSUME TypeOK, HasWritten, NameIsLinked, NameIsHeld, [Next]_vars
  PROVE  NameIsHeld'
<1> USE CommandsAreDistinct, ArgumentsAreKnown DEF TypeOK, HasWritten, WrittenBy,
      NameIsLinked, NameIsHeld, HeldBy, Published, vars, world, output, reader, budget,
            Commands, Files, Steps, Ends
<1> SUFFICES ASSUME NEW a \in Attests PROVE HeldBy(a)'
  BY DEF NameIsHeld
<1>1. ASSUME NEW c \in Attests, BeginAttest(c) PROVE HeldBy(a)'
  BY <1>1 DEF BeginAttest, Verify, Goes
<1>2. ASSUME NEW c \in Attests, PrepareOutput(c) PROVE HeldBy(a)'
  BY <1>2 DEF PrepareOutput, Goes
<1>3. ASSUME NEW c \in Attests, Sign(c) PROVE HeldBy(a)'
  BY <1>3 DEF Sign, Goes, Signed, Payload
<1>4. ASSUME NEW c \in Attests, CheckOutput(c) PROVE HeldBy(a)'
  BY <1>4 DEF CheckOutput, Goes
<1>5. ASSUME NEW c \in Attests, WriteUnnamed(c) PROVE HeldBy(a)'
  BY <1>5 DEF WriteUnnamed, Goes
<1>6. ASSUME NEW c \in Attests, SyncFile(c) PROVE HeldBy(a)'
  BY <1>6 DEF SyncFile, Goes
<1>7. ASSUME NEW c \in Attests, Link(c) PROVE HeldBy(a)'
  BY <1>7 DEF Link, Goes
<1>8. ASSUME NEW c \in Attests, InspectPublished(c) PROVE HeldBy(a)'
  BY <1>8 DEF InspectPublished, Goes
<1>9. ASSUME NEW c \in Attests, SyncDirectory(c) PROVE HeldBy(a)'
  BY <1>9 DEF SyncDirectory, Goes
<1>10. ASSUME NEW c \in Authenticates, BeginAuthenticate(c) PROVE HeldBy(a)'
  BY <1>10 DEF BeginAuthenticate, Verify, Goes
<1>11. ASSUME NEW c \in Authenticates, ReadEnvelope(c) PROVE HeldBy(a)'
  BY <1>11 DEF ReadEnvelope, Goes, AfterFields
<1>12. ASSUME NEW c \in Authenticates, OpenTrustRoot(c) PROVE HeldBy(a)'
  BY <1>12 DEF OpenTrustRoot, Goes
<1>13. ASSUME NEW c \in Authenticates, ReadLine(c) PROVE HeldBy(a)'
  BY <1>13 DEF ReadLine, Goes
<1>14. ASSUME NEW c \in Authenticates, CopyLines(c) PROVE HeldBy(a)'
  BY <1>14 DEF CopyLines, Goes
<1>15. ASSUME NEW c \in Authenticates, Seal(c) PROVE HeldBy(a)'
  BY <1>15 DEF Seal, Goes
<1>16. ASSUME NEW c \in Authenticates, Locate(c) PROVE HeldBy(a)'
  BY <1>16 DEF Locate, Goes
<1>17. ASSUME NEW c \in Authenticates, StageSignature(c) PROVE HeldBy(a)'
  BY <1>17 DEF StageSignature, Goes
<1>18. ASSUME NEW c \in Authenticates, AskVerifier(c) PROVE HeldBy(a)'
  BY <1>18 DEF AskVerifier, Goes
<1>19. ASSUME NEW c \in Authenticates, Reopen(c) PROVE HeldBy(a)'
  BY <1>19 DEF Reopen, Change
<1>20. ASSUME NEW c \in Commands, Fail(c) PROVE HeldBy(a)'
  BY <1>20 DEF Fail, Errors
<1>21. ASSUME NEW c \in Commands, Kill(c) PROVE HeldBy(a)'
  BY <1>21 DEF Kill
<1>22. CASE Rotate
  BY <1>22 DEF Rotate, Change
<1>23. CASE EditEnvelope
  BY <1>23 DEF EditEnvelope, Change, Edits
<1>24. CASE EditPolicy
  BY <1>24 DEF EditPolicy, Change
<1>25. CASE TouchDossier
  BY <1>25 DEF TouchDossier, Change
<1>26. CASE Crash
  BY <1>26 DEF Crash
<1>27. CASE UNCHANGED vars
  BY <1>27 DEF vars
<1> QED
  BY <1>1, <1>2, <1>3, <1>4, <1>5, <1>6, <1>7, <1>8, <1>9, <1>10,
     <1>11, <1>12, <1>13, <1>14, <1>15, <1>16, <1>17, <1>18, <1>19, <1>20,
     <1>21, <1>22, <1>23, <1>24, <1>25, <1>26, <1>27
  DEF Next, AttestStep, AuthenticateStep, Ended

(* A manifest stays of its run.                                            *)
LEMMA NextKeepsRuns ==
  ASSUME TypeOK, BundlesAreOfTheirRun, [Next]_vars
  PROVE  BundlesAreOfTheirRun'
<1> USE CommandsAreDistinct, ArgumentsAreKnown DEF TypeOK, BundlesAreOfTheirRun, vars, world,
      output, reader, budget, Commands
<1>1. ASSUME NEW c \in Attests, BeginAttest(c) PROVE BundlesAreOfTheirRun'
  <2>1. Run[c] \in Runs
    BY <1>1 DEF BeginAttest, Verify, Goes
  <2>2. bundle' = bundle \/ bundle' = [bundle EXCEPT ![c] = dossier[Run[c]].bytes]
    BY <2>1, <1>1 DEF BeginAttest, Verify, Goes
  <2>3. dossier[Run[c]].bytes[1] = Run[c]
    BY <2>1, <2>2, <1>1 DEF BeginAttest, Verify, Goes
  <2>4. \A k \in Commands : k # c => bundle'[k] = bundle[k]
    BY <2>1, <2>2, <2>3, <1>1 DEF BeginAttest, Verify, Goes
  <2>5. bundle'[c] # Nothing => bundle'[c][1] = Run[c]
    BY <2>1, <2>2, <2>3, <2>4, <1>1 DEF BeginAttest, Verify, Goes
  <2> QED
    BY <2>1, <2>2, <2>3, <2>4, <2>5, <1>1 DEF BeginAttest, Verify, Goes
<1>2. ASSUME NEW c \in Attests, PrepareOutput(c) PROVE BundlesAreOfTheirRun'
  BY <1>2 DEF PrepareOutput, Goes
<1>3. ASSUME NEW c \in Attests, Sign(c) PROVE BundlesAreOfTheirRun'
  BY <1>3 DEF Sign, Goes, Signed, Payload
<1>4. ASSUME NEW c \in Attests, CheckOutput(c) PROVE BundlesAreOfTheirRun'
  BY <1>4 DEF CheckOutput, Goes
<1>5. ASSUME NEW c \in Attests, WriteUnnamed(c) PROVE BundlesAreOfTheirRun'
  BY <1>5 DEF WriteUnnamed, Goes
<1>6. ASSUME NEW c \in Attests, SyncFile(c) PROVE BundlesAreOfTheirRun'
  BY <1>6 DEF SyncFile, Goes
<1>7. ASSUME NEW c \in Attests, Link(c) PROVE BundlesAreOfTheirRun'
  BY <1>7 DEF Link, Goes
<1>8. ASSUME NEW c \in Attests, InspectPublished(c) PROVE BundlesAreOfTheirRun'
  BY <1>8 DEF InspectPublished, Goes
<1>9. ASSUME NEW c \in Attests, SyncDirectory(c) PROVE BundlesAreOfTheirRun'
  BY <1>9 DEF SyncDirectory, Goes
<1>10. ASSUME NEW c \in Authenticates, BeginAuthenticate(c) PROVE BundlesAreOfTheirRun'
  <2>1. Run[c] \in Runs
    BY <1>10 DEF BeginAuthenticate, Verify, Goes
  <2>2. bundle' = bundle \/ bundle' = [bundle EXCEPT ![c] = dossier[Run[c]].bytes]
    BY <2>1, <1>10 DEF BeginAuthenticate, Verify, Goes
  <2>3. dossier[Run[c]].bytes[1] = Run[c]
    BY <2>1, <2>2, <1>10 DEF BeginAuthenticate, Verify, Goes
  <2>4. \A k \in Commands : k # c => bundle'[k] = bundle[k]
    BY <2>1, <2>2, <2>3, <1>10 DEF BeginAuthenticate, Verify, Goes
  <2>5. bundle'[c] # Nothing => bundle'[c][1] = Run[c]
    BY <2>1, <2>2, <2>3, <2>4, <1>10 DEF BeginAuthenticate, Verify, Goes
  <2> QED
    BY <2>1, <2>2, <2>3, <2>4, <2>5, <1>10 DEF BeginAuthenticate, Verify, Goes
<1>11. ASSUME NEW c \in Authenticates, ReadEnvelope(c) PROVE BundlesAreOfTheirRun'
  BY <1>11 DEF ReadEnvelope, Goes, AfterFields
<1>12. ASSUME NEW c \in Authenticates, OpenTrustRoot(c) PROVE BundlesAreOfTheirRun'
  BY <1>12 DEF OpenTrustRoot, Goes
<1>13. ASSUME NEW c \in Authenticates, ReadLine(c) PROVE BundlesAreOfTheirRun'
  BY <1>13 DEF ReadLine, Goes
<1>14. ASSUME NEW c \in Authenticates, CopyLines(c) PROVE BundlesAreOfTheirRun'
  BY <1>14 DEF CopyLines, Goes
<1>15. ASSUME NEW c \in Authenticates, Seal(c) PROVE BundlesAreOfTheirRun'
  BY <1>15 DEF Seal, Goes
<1>16. ASSUME NEW c \in Authenticates, Locate(c) PROVE BundlesAreOfTheirRun'
  BY <1>16 DEF Locate, Goes
<1>17. ASSUME NEW c \in Authenticates, StageSignature(c) PROVE BundlesAreOfTheirRun'
  BY <1>17 DEF StageSignature, Goes
<1>18. ASSUME NEW c \in Authenticates, AskVerifier(c) PROVE BundlesAreOfTheirRun'
  BY <1>18 DEF AskVerifier, Goes
<1>19. ASSUME NEW c \in Authenticates, Reopen(c) PROVE BundlesAreOfTheirRun'
  BY <1>19 DEF Reopen, Change
<1>20. ASSUME NEW c \in Commands, Fail(c) PROVE BundlesAreOfTheirRun'
  BY <1>20 DEF Fail, Errors
<1>21. ASSUME NEW c \in Commands, Kill(c) PROVE BundlesAreOfTheirRun'
  BY <1>21 DEF Kill
<1>22. CASE Rotate
  BY <1>22 DEF Rotate, Change
<1>23. CASE EditEnvelope
  BY <1>23 DEF EditEnvelope, Change, Edits
<1>24. CASE EditPolicy
  BY <1>24 DEF EditPolicy, Change
<1>25. CASE TouchDossier
  BY <1>25 DEF TouchDossier, Change
<1>26. CASE Crash
  BY <1>26 DEF Crash
<1>27. CASE UNCHANGED vars
  BY <1>27 DEF vars
<1> QED
  BY <1>1, <1>2, <1>3, <1>4, <1>5, <1>6, <1>7, <1>8, <1>9, <1>10,
     <1>11, <1>12, <1>13, <1>14, <1>15, <1>16, <1>17, <1>18, <1>19, <1>20,
     <1>21, <1>22, <1>23, <1>24, <1>25, <1>26, <1>27
  DEF Next, AttestStep, AuthenticateStep, Ended

(* What a policy file holds is listed.                                     *)
LEMMA NextKeepsPolicy ==
  ASSUME TypeOK, PolicyIsListed, [Next]_vars
  PROVE  PolicyIsListed' /\ listed \subseteq listed'
<1> USE CommandsAreDistinct, ArgumentsAreKnown DEF TypeOK, PolicyIsListed, vars, world,
      output, reader, budget, Commands
<1>1. ASSUME NEW c \in Attests, BeginAttest(c) PROVE PolicyIsListed' /\ listed \subseteq listed'
  BY <1>1 DEF BeginAttest, Verify, Goes
<1>2. ASSUME NEW c \in Attests, PrepareOutput(c) PROVE PolicyIsListed' /\ listed \subseteq listed'
  BY <1>2 DEF PrepareOutput, Goes
<1>3. ASSUME NEW c \in Attests, Sign(c) PROVE PolicyIsListed' /\ listed \subseteq listed'
  BY <1>3 DEF Sign, Goes, Signed, Payload
<1>4. ASSUME NEW c \in Attests, CheckOutput(c) PROVE PolicyIsListed' /\ listed \subseteq listed'
  BY <1>4 DEF CheckOutput, Goes
<1>5. ASSUME NEW c \in Attests, WriteUnnamed(c) PROVE PolicyIsListed' /\ listed \subseteq listed'
  BY <1>5 DEF WriteUnnamed, Goes
<1>6. ASSUME NEW c \in Attests, SyncFile(c) PROVE PolicyIsListed' /\ listed \subseteq listed'
  BY <1>6 DEF SyncFile, Goes
<1>7. ASSUME NEW c \in Attests, Link(c) PROVE PolicyIsListed' /\ listed \subseteq listed'
  BY <1>7 DEF Link, Goes
<1>8. ASSUME NEW c \in Attests, InspectPublished(c) PROVE PolicyIsListed' /\ listed \subseteq listed'
  BY <1>8 DEF InspectPublished, Goes
<1>9. ASSUME NEW c \in Attests, SyncDirectory(c) PROVE PolicyIsListed' /\ listed \subseteq listed'
  BY <1>9 DEF SyncDirectory, Goes
<1>10. ASSUME NEW c \in Authenticates, BeginAuthenticate(c) PROVE PolicyIsListed' /\ listed \subseteq listed'
  BY <1>10 DEF BeginAuthenticate, Verify, Goes
<1>11. ASSUME NEW c \in Authenticates, ReadEnvelope(c) PROVE PolicyIsListed' /\ listed \subseteq listed'
  BY <1>11 DEF ReadEnvelope, Goes, AfterFields
<1>12. ASSUME NEW c \in Authenticates, OpenTrustRoot(c) PROVE PolicyIsListed' /\ listed \subseteq listed'
  BY <1>12 DEF OpenTrustRoot, Goes
<1>13. ASSUME NEW c \in Authenticates, ReadLine(c) PROVE PolicyIsListed' /\ listed \subseteq listed'
  BY <1>13 DEF ReadLine, Goes
<1>14. ASSUME NEW c \in Authenticates, CopyLines(c) PROVE PolicyIsListed' /\ listed \subseteq listed'
  BY <1>14 DEF CopyLines, Goes
<1>15. ASSUME NEW c \in Authenticates, Seal(c) PROVE PolicyIsListed' /\ listed \subseteq listed'
  BY <1>15 DEF Seal, Goes
<1>16. ASSUME NEW c \in Authenticates, Locate(c) PROVE PolicyIsListed' /\ listed \subseteq listed'
  BY <1>16 DEF Locate, Goes
<1>17. ASSUME NEW c \in Authenticates, StageSignature(c) PROVE PolicyIsListed' /\ listed \subseteq listed'
  BY <1>17 DEF StageSignature, Goes
<1>18. ASSUME NEW c \in Authenticates, AskVerifier(c) PROVE PolicyIsListed' /\ listed \subseteq listed'
  BY <1>18 DEF AskVerifier, Goes
<1>19. ASSUME NEW c \in Authenticates, Reopen(c) PROVE PolicyIsListed' /\ listed \subseteq listed'
  BY <1>19 DEF Reopen, Change
<1>20. ASSUME NEW c \in Commands, Fail(c) PROVE PolicyIsListed' /\ listed \subseteq listed'
  BY <1>20 DEF Fail, Errors
<1>21. ASSUME NEW c \in Commands, Kill(c) PROVE PolicyIsListed' /\ listed \subseteq listed'
  BY <1>21 DEF Kill
<1>22. CASE Rotate
  BY <1>22 DEF Rotate, Change
<1>23. CASE EditEnvelope
  BY <1>23 DEF EditEnvelope, Change, Edits
<1>24. CASE EditPolicy
  BY <1>24 DEF EditPolicy, Change
<1>25. CASE TouchDossier
  BY <1>25 DEF TouchDossier, Change
<1>26. CASE Crash
  BY <1>26 DEF Crash
<1>27. CASE UNCHANGED vars
  BY <1>27 DEF vars
<1> QED
  BY <1>1, <1>2, <1>3, <1>4, <1>5, <1>6, <1>7, <1>8, <1>9, <1>10,
     <1>11, <1>12, <1>13, <1>14, <1>15, <1>16, <1>17, <1>18, <1>19, <1>20,
     <1>21, <1>22, <1>23, <1>24, <1>25, <1>26, <1>27
  DEF Next, AttestStep, AuthenticateStep, Ended

(* What was read is listed, and the copy is what was read.                 *)
LEMMA NextKeepsListed ==
  ASSUME TypeOK, LinesAreListed, [Next]_vars
  PROVE  (\A u \in Authenticates : ListedFor(u))'
<1> USE CommandsAreDistinct, ArgumentsAreKnown DEF TypeOK, LinesAreListed, PolicyIsListed,
      ListedFor, Later, vars, world, output, reader, budget, Commands, Steps, Ends
<1> SUFFICES ASSUME NEW u \in Authenticates PROVE ListedFor(u)'
  BY DEF LinesAreListed
<1>a. ListedLines \subseteq ListedLines'
  BY NextKeepsPolicy DEF ListedLines
<1>b. \A f \in TrustFiles, i \in 1..PolicyLines : <<f, policy[f][i]>> \in ListedLines
  <2>1. ASSUME NEW f \in TrustFiles, NEW i \in 1..PolicyLines
        PROVE  <<f, policy[f][i]>> \in ListedLines
    <3>1. PICK held \in listed : held = <<f, policy[f]>>
      OBVIOUS
    <3>2. <<held[1], held[2][i]>> \in ListedLines
      BY DEF ListedLines
    <3>3. <<held[1], held[2][i]>> = <<f, policy[f][i]>>
      BY <3>1
    <3> QED
      BY <3>2, <3>3
  <2> QED
    BY <2>1
<1> USE <1>a
<1>1. ASSUME NEW c \in Attests, BeginAttest(c) PROVE ListedFor(u)'
  BY <1>1 DEF BeginAttest, Verify, Goes
<1>2. ASSUME NEW c \in Attests, PrepareOutput(c) PROVE ListedFor(u)'
  BY <1>2 DEF PrepareOutput, Goes
<1>3. ASSUME NEW c \in Attests, Sign(c) PROVE ListedFor(u)'
  BY <1>3 DEF Sign, Goes, Signed, Payload
<1>4. ASSUME NEW c \in Attests, CheckOutput(c) PROVE ListedFor(u)'
  BY <1>4 DEF CheckOutput, Goes
<1>5. ASSUME NEW c \in Attests, WriteUnnamed(c) PROVE ListedFor(u)'
  BY <1>5 DEF WriteUnnamed, Goes
<1>6. ASSUME NEW c \in Attests, SyncFile(c) PROVE ListedFor(u)'
  BY <1>6 DEF SyncFile, Goes
<1>7. ASSUME NEW c \in Attests, Link(c) PROVE ListedFor(u)'
  BY <1>7 DEF Link, Goes
<1>8. ASSUME NEW c \in Attests, InspectPublished(c) PROVE ListedFor(u)'
  BY <1>8 DEF InspectPublished, Goes
<1>9. ASSUME NEW c \in Attests, SyncDirectory(c) PROVE ListedFor(u)'
  BY <1>9 DEF SyncDirectory, Goes
<1>10. ASSUME NEW c \in Authenticates, BeginAuthenticate(c) PROVE ListedFor(u)'
  BY <1>10 DEF BeginAuthenticate, Verify, Goes
<1>11. ASSUME NEW c \in Authenticates, ReadEnvelope(c) PROVE ListedFor(u)'
  BY <1>11 DEF ReadEnvelope, Goes, AfterFields
<1>12. ASSUME NEW c \in Authenticates, OpenTrustRoot(c) PROVE ListedFor(u)'
  BY <1>12 DEF OpenTrustRoot, Goes
<1>13. ASSUME NEW c \in Authenticates, ReadLine(c) PROVE ListedFor(u)'
  <2>1. u # c => at'[u] = at[u] /\ got'[u] = got[u] /\ pos'[u] = pos[u]
    BY <1>13 DEF ReadLine, Goes
  <2>2. trust[c] \in TrustFiles
    BY <2>1, <1>13 DEF ReadLine, Goes
  <2>3. pos[c] # PolicyLines => pos[c] + 1 \in 1..PolicyLines
    BY <2>1, <2>2, <1>13 DEF ReadLine, Goes
  <2>4. at'[c] \in {"read_trust", "copy"}
    BY <2>1, <2>2, <2>3, <1>13 DEF ReadLine, Goes
  <2>5. got'[c] = got[c] \/ (pos[c] # PolicyLines
        /\ got'[c] = got[c] \cup {policy[trust[c]][pos[c] + 1]})
    BY <2>1, <2>2, <2>3, <2>4, <1>13 DEF ReadLine, Goes
  <2>6. pos[c] # PolicyLines => <<trust[c], policy[trust[c]][pos[c] + 1]>> \in ListedLines
    BY <1>b, <2>2, <2>3
  <2>a. \A line \in got[c] : <<trust[c], line>> \in ListedLines
    OBVIOUS
  <2>7. \A line \in got'[c] : <<trust[c], line>> \in ListedLines
    <3>1. ASSUME NEW line \in got'[c] PROVE <<trust[c], line>> \in ListedLines
      <4>1. \/ line \in got[c]
            \/ pos[c] # PolicyLines /\ line = policy[trust[c]][pos[c] + 1]
        BY <2>5, <3>1
      <4> QED
        BY <4>1, <2>6, <2>a, Zenon
    <3> QED
      BY <3>1
  <2> QED
    BY <2>1, <2>2, <2>3, <2>4, <2>5, <2>6, <2>7, <1>13 DEF ReadLine, Goes
<1>14. ASSUME NEW c \in Authenticates, CopyLines(c) PROVE ListedFor(u)'
  BY <1>14 DEF CopyLines, Goes
<1>15. ASSUME NEW c \in Authenticates, Seal(c) PROVE ListedFor(u)'
  BY <1>15 DEF Seal, Goes
<1>16. ASSUME NEW c \in Authenticates, Locate(c) PROVE ListedFor(u)'
  BY <1>16 DEF Locate, Goes
<1>17. ASSUME NEW c \in Authenticates, StageSignature(c) PROVE ListedFor(u)'
  BY <1>17 DEF StageSignature, Goes
<1>18. ASSUME NEW c \in Authenticates, AskVerifier(c) PROVE ListedFor(u)'
  BY <1>18 DEF AskVerifier, Goes
<1>19. ASSUME NEW c \in Authenticates, Reopen(c) PROVE ListedFor(u)'
  BY <1>19 DEF Reopen, Change
<1>20. ASSUME NEW c \in Commands, Fail(c) PROVE ListedFor(u)'
  BY <1>20 DEF Fail, Errors
<1>21. ASSUME NEW c \in Commands, Kill(c) PROVE ListedFor(u)'
  BY <1>21 DEF Kill
<1>22. CASE Rotate
  BY <1>22 DEF Rotate, Change
<1>23. CASE EditEnvelope
  BY <1>23 DEF EditEnvelope, Change, Edits
<1>24. CASE EditPolicy
  BY <1>24 DEF EditPolicy, Change
<1>25. CASE TouchDossier
  BY <1>25 DEF TouchDossier, Change
<1>26. CASE Crash
  BY <1>26 DEF Crash
<1>27. CASE UNCHANGED vars
  BY <1>27 DEF vars
<1> QED
  BY <1>1, <1>2, <1>3, <1>4, <1>5, <1>6, <1>7, <1>8, <1>9, <1>10,
     <1>11, <1>12, <1>13, <1>14, <1>15, <1>16, <1>17, <1>18, <1>19, <1>20,
     <1>21, <1>22, <1>23, <1>24, <1>25, <1>26, <1>27
  DEF Next, AttestStep, AuthenticateStep, Ended

(* A verdict is the verifier's.                                            *)
LEMMA NextKeepsAgreed ==
  ASSUME TypeOK, WholeIsText, LinesAreListed, SuccessIsAgreed, [Next]_vars
  PROVE  SuccessIsAgreed'
<1> USE CommandsAreDistinct, ArgumentsAreKnown DEF TypeOK, WholeIsText, LinesAreListed,
      ListedFor, SuccessIsAgreed, AgreedFor, Later, vars, world, output, reader, budget,
            Commands, Files, Steps, Ends
<1> SUFFICES ASSUME NEW u \in Authenticates PROVE AgreedFor(u)'
  BY DEF SuccessIsAgreed
<1>1. ASSUME NEW c \in Attests, BeginAttest(c) PROVE AgreedFor(u)'
  BY <1>1 DEF BeginAttest, Verify, Goes
<1>2. ASSUME NEW c \in Attests, PrepareOutput(c) PROVE AgreedFor(u)'
  BY <1>2 DEF PrepareOutput, Goes
<1>3. ASSUME NEW c \in Attests, Sign(c) PROVE AgreedFor(u)'
  BY <1>3 DEF Sign, Goes, Signed, Payload
<1>4. ASSUME NEW c \in Attests, CheckOutput(c) PROVE AgreedFor(u)'
  BY <1>4 DEF CheckOutput, Goes
<1>5. ASSUME NEW c \in Attests, WriteUnnamed(c) PROVE AgreedFor(u)'
  BY <1>5 DEF WriteUnnamed, Goes
<1>6. ASSUME NEW c \in Attests, SyncFile(c) PROVE AgreedFor(u)'
  BY <1>6 DEF SyncFile, Goes
<1>7. ASSUME NEW c \in Attests, Link(c) PROVE AgreedFor(u)'
  BY <1>7 DEF Link, Goes
<1>8. ASSUME NEW c \in Attests, InspectPublished(c) PROVE AgreedFor(u)'
  BY <1>8 DEF InspectPublished, Goes
<1>9. ASSUME NEW c \in Attests, SyncDirectory(c) PROVE AgreedFor(u)'
  BY <1>9 DEF SyncDirectory, Goes
<1>10. ASSUME NEW c \in Authenticates, BeginAuthenticate(c) PROVE AgreedFor(u)'
  BY <1>10 DEF BeginAuthenticate, Verify, Goes
<1>11. ASSUME NEW c \in Authenticates, ReadEnvelope(c) PROVE AgreedFor(u)'
  BY <1>11 DEF ReadEnvelope, Goes, AfterFields
<1>12. ASSUME NEW c \in Authenticates, OpenTrustRoot(c) PROVE AgreedFor(u)'
  BY <1>12 DEF OpenTrustRoot, Goes
<1>13. ASSUME NEW c \in Authenticates, ReadLine(c) PROVE AgreedFor(u)'
  BY <1>13 DEF ReadLine, Goes
<1>14. ASSUME NEW c \in Authenticates, CopyLines(c) PROVE AgreedFor(u)'
  BY <1>14 DEF CopyLines, Goes
<1>15. ASSUME NEW c \in Authenticates, Seal(c) PROVE AgreedFor(u)'
  BY <1>15 DEF Seal, Goes
<1>16. ASSUME NEW c \in Authenticates, Locate(c) PROVE AgreedFor(u)'
  BY <1>16 DEF Locate, Goes
<1>17. ASSUME NEW c \in Authenticates, StageSignature(c) PROVE AgreedFor(u)'
  BY <1>17 DEF StageSignature, Goes
<1>18. ASSUME NEW c \in Authenticates, AskVerifier(c) PROVE AgreedFor(u)'
  BY <1>18 DEF AskVerifier, Goes
<1>19. ASSUME NEW c \in Authenticates, Reopen(c) PROVE AgreedFor(u)'
  BY <1>19 DEF Reopen, Change
<1>20. ASSUME NEW c \in Commands, Fail(c) PROVE AgreedFor(u)'
  BY <1>20 DEF Fail, Errors
<1>21. ASSUME NEW c \in Commands, Kill(c) PROVE AgreedFor(u)'
  BY <1>21 DEF Kill
<1>22. CASE Rotate
  BY <1>22 DEF Rotate, Change
<1>23. CASE EditEnvelope
  BY <1>23 DEF EditEnvelope, Change, Edits
<1>24. CASE EditPolicy
  BY <1>24 DEF EditPolicy, Change
<1>25. CASE TouchDossier
  BY <1>25 DEF TouchDossier, Change
<1>26. CASE Crash
  BY <1>26 DEF Crash
<1>27. CASE UNCHANGED vars
  BY <1>27 DEF vars
<1> QED
  BY <1>1, <1>2, <1>3, <1>4, <1>5, <1>6, <1>7, <1>8, <1>9, <1>10,
     <1>11, <1>12, <1>13, <1>14, <1>15, <1>16, <1>17, <1>18, <1>19, <1>20,
     <1>21, <1>22, <1>23, <1>24, <1>25, <1>26, <1>27
  DEF Next, AttestStep, AuthenticateStep, Ended

(* A signed envelope and its manifest stay as they are.                    *)
LEMMA SignedStays ==
  ASSUME TypeOK, HasSigned, [Next]_vars
  PROVE  \A a \in Attests : envelope[a] # Nothing => envelope'[a] = envelope[a]
        /\ bundle'[a] = bundle[a]
<1> USE CommandsAreDistinct, ArgumentsAreKnown DEF TypeOK, HasSigned, SignedBy, vars, world,
      output, reader, budget, Commands, Steps, Ends
<1>1. ASSUME NEW c \in Attests, BeginAttest(c)
      PROVE \A a \in Attests : envelope[a] # Nothing => envelope'[a] = envelope[a]
            /\ bundle'[a] = bundle[a]
  BY <1>1 DEF BeginAttest, Verify, Goes
<1>2. ASSUME NEW c \in Attests, PrepareOutput(c)
      PROVE \A a \in Attests : envelope[a] # Nothing => envelope'[a] = envelope[a]
            /\ bundle'[a] = bundle[a]
  BY <1>2 DEF PrepareOutput, Goes
<1>3. ASSUME NEW c \in Attests, Sign(c) PROVE \A a \in Attests : envelope[a] # Nothing
      => envelope'[a] = envelope[a] /\ bundle'[a] = bundle[a]
  BY <1>3 DEF Sign, Goes, Signed, Payload
<1>4. ASSUME NEW c \in Attests, CheckOutput(c)
      PROVE \A a \in Attests : envelope[a] # Nothing => envelope'[a] = envelope[a]
            /\ bundle'[a] = bundle[a]
  BY <1>4 DEF CheckOutput, Goes
<1>5. ASSUME NEW c \in Attests, WriteUnnamed(c)
      PROVE \A a \in Attests : envelope[a] # Nothing => envelope'[a] = envelope[a]
            /\ bundle'[a] = bundle[a]
  BY <1>5 DEF WriteUnnamed, Goes
<1>6. ASSUME NEW c \in Attests, SyncFile(c) PROVE \A a \in Attests : envelope[a] # Nothing
      => envelope'[a] = envelope[a] /\ bundle'[a] = bundle[a]
  BY <1>6 DEF SyncFile, Goes
<1>7. ASSUME NEW c \in Attests, Link(c) PROVE \A a \in Attests : envelope[a] # Nothing
      => envelope'[a] = envelope[a] /\ bundle'[a] = bundle[a]
  BY <1>7 DEF Link, Goes
<1>8. ASSUME NEW c \in Attests, InspectPublished(c)
      PROVE \A a \in Attests : envelope[a] # Nothing => envelope'[a] = envelope[a]
            /\ bundle'[a] = bundle[a]
  BY <1>8 DEF InspectPublished, Goes
<1>9. ASSUME NEW c \in Attests, SyncDirectory(c)
      PROVE \A a \in Attests : envelope[a] # Nothing => envelope'[a] = envelope[a]
            /\ bundle'[a] = bundle[a]
  BY <1>9 DEF SyncDirectory, Goes
<1>10. ASSUME NEW c \in Authenticates, BeginAuthenticate(c)
      PROVE \A a \in Attests : envelope[a] # Nothing => envelope'[a] = envelope[a]
            /\ bundle'[a] = bundle[a]
  BY <1>10 DEF BeginAuthenticate, Verify, Goes
<1>11. ASSUME NEW c \in Authenticates, ReadEnvelope(c)
      PROVE \A a \in Attests : envelope[a] # Nothing => envelope'[a] = envelope[a]
            /\ bundle'[a] = bundle[a]
  BY <1>11 DEF ReadEnvelope, Goes, AfterFields
<1>12. ASSUME NEW c \in Authenticates, OpenTrustRoot(c)
      PROVE \A a \in Attests : envelope[a] # Nothing => envelope'[a] = envelope[a]
            /\ bundle'[a] = bundle[a]
  BY <1>12 DEF OpenTrustRoot, Goes
<1>13. ASSUME NEW c \in Authenticates, ReadLine(c)
      PROVE \A a \in Attests : envelope[a] # Nothing => envelope'[a] = envelope[a]
            /\ bundle'[a] = bundle[a]
  BY <1>13 DEF ReadLine, Goes
<1>14. ASSUME NEW c \in Authenticates, CopyLines(c)
      PROVE \A a \in Attests : envelope[a] # Nothing => envelope'[a] = envelope[a]
            /\ bundle'[a] = bundle[a]
  BY <1>14 DEF CopyLines, Goes
<1>15. ASSUME NEW c \in Authenticates, Seal(c)
      PROVE \A a \in Attests : envelope[a] # Nothing => envelope'[a] = envelope[a]
            /\ bundle'[a] = bundle[a]
  BY <1>15 DEF Seal, Goes
<1>16. ASSUME NEW c \in Authenticates, Locate(c)
      PROVE \A a \in Attests : envelope[a] # Nothing => envelope'[a] = envelope[a]
            /\ bundle'[a] = bundle[a]
  BY <1>16 DEF Locate, Goes
<1>17. ASSUME NEW c \in Authenticates, StageSignature(c)
      PROVE \A a \in Attests : envelope[a] # Nothing => envelope'[a] = envelope[a]
            /\ bundle'[a] = bundle[a]
  BY <1>17 DEF StageSignature, Goes
<1>18. ASSUME NEW c \in Authenticates, AskVerifier(c)
      PROVE \A a \in Attests : envelope[a] # Nothing => envelope'[a] = envelope[a]
            /\ bundle'[a] = bundle[a]
  BY <1>18 DEF AskVerifier, Goes
<1>19. ASSUME NEW c \in Authenticates, Reopen(c)
      PROVE \A a \in Attests : envelope[a] # Nothing => envelope'[a] = envelope[a]
            /\ bundle'[a] = bundle[a]
  BY <1>19 DEF Reopen, Change
<1>20. ASSUME NEW c \in Commands, Fail(c) PROVE \A a \in Attests : envelope[a] # Nothing
      => envelope'[a] = envelope[a] /\ bundle'[a] = bundle[a]
  BY <1>20 DEF Fail, Errors
<1>21. ASSUME NEW c \in Commands, Kill(c) PROVE \A a \in Attests : envelope[a] # Nothing
      => envelope'[a] = envelope[a] /\ bundle'[a] = bundle[a]
  BY <1>21 DEF Kill
<1>22. CASE Rotate
  BY <1>22 DEF Rotate, Change
<1>23. CASE EditEnvelope
  BY <1>23 DEF EditEnvelope, Change, Edits
<1>24. CASE EditPolicy
  BY <1>24 DEF EditPolicy, Change
<1>25. CASE TouchDossier
  BY <1>25 DEF TouchDossier, Change
<1>26. CASE Crash
  BY <1>26 DEF Crash
<1>27. CASE UNCHANGED vars
  BY <1>27 DEF vars
<1> QED
  BY <1>1, <1>2, <1>3, <1>4, <1>5, <1>6, <1>7, <1>8, <1>9, <1>10,
     <1>11, <1>12, <1>13, <1>14, <1>15, <1>16, <1>17, <1>18, <1>19, <1>20,
     <1>21, <1>22, <1>23, <1>24, <1>25, <1>26, <1>27
  DEF Next, AttestStep, AuthenticateStep, Ended

(* Where the envelope of a command comes from.                             *)
LEMMA EnvelopesHaveSources ==
  ASSUME TypeOK, HasSigned, [Next]_vars
  PROVE  \A k \in Commands : envelope'[k] # Nothing
        => envelope'[k] = envelope[k] \/ (\E f \in Files : file[f].text # Nothing
              /\ envelope'[k] = file[f].text) \/ k \in Attests
<1> USE CommandsAreDistinct, ArgumentsAreKnown DEF TypeOK, vars, world, output, reader,
      budget, Commands, Files
<1>1. ASSUME NEW c \in Attests, BeginAttest(c)
      PROVE \A k \in Commands : envelope'[k] # Nothing
            => envelope'[k] = envelope[k] \/ (\E f \in Files : file[f].text # Nothing
                  /\ envelope'[k] = file[f].text) \/ k \in Attests
  BY <1>1 DEF BeginAttest, Verify, Goes
<1>2. ASSUME NEW c \in Attests, PrepareOutput(c)
      PROVE \A k \in Commands : envelope'[k] # Nothing
            => envelope'[k] = envelope[k] \/ (\E f \in Files : file[f].text # Nothing
                  /\ envelope'[k] = file[f].text) \/ k \in Attests
  BY <1>2 DEF PrepareOutput, Goes
<1>3. ASSUME NEW c \in Attests, Sign(c) PROVE \A k \in Commands : envelope'[k] # Nothing
      => envelope'[k] = envelope[k] \/ (\E f \in Files : file[f].text # Nothing
            /\ envelope'[k] = file[f].text) \/ k \in Attests
  BY <1>3 DEF Sign, Goes, Signed, Payload
<1>4. ASSUME NEW c \in Attests, CheckOutput(c)
      PROVE \A k \in Commands : envelope'[k] # Nothing
            => envelope'[k] = envelope[k] \/ (\E f \in Files : file[f].text # Nothing
                  /\ envelope'[k] = file[f].text) \/ k \in Attests
  BY <1>4 DEF CheckOutput, Goes
<1>5. ASSUME NEW c \in Attests, WriteUnnamed(c)
      PROVE \A k \in Commands : envelope'[k] # Nothing
            => envelope'[k] = envelope[k] \/ (\E f \in Files : file[f].text # Nothing
                  /\ envelope'[k] = file[f].text) \/ k \in Attests
  BY <1>5 DEF WriteUnnamed, Goes
<1>6. ASSUME NEW c \in Attests, SyncFile(c)
      PROVE \A k \in Commands : envelope'[k] # Nothing
            => envelope'[k] = envelope[k] \/ (\E f \in Files : file[f].text # Nothing
                  /\ envelope'[k] = file[f].text) \/ k \in Attests
  BY <1>6 DEF SyncFile, Goes
<1>7. ASSUME NEW c \in Attests, Link(c) PROVE \A k \in Commands : envelope'[k] # Nothing
      => envelope'[k] = envelope[k] \/ (\E f \in Files : file[f].text # Nothing
            /\ envelope'[k] = file[f].text) \/ k \in Attests
  BY <1>7 DEF Link, Goes
<1>8. ASSUME NEW c \in Attests, InspectPublished(c)
      PROVE \A k \in Commands : envelope'[k] # Nothing
            => envelope'[k] = envelope[k] \/ (\E f \in Files : file[f].text # Nothing
                  /\ envelope'[k] = file[f].text) \/ k \in Attests
  BY <1>8 DEF InspectPublished, Goes
<1>9. ASSUME NEW c \in Attests, SyncDirectory(c)
      PROVE \A k \in Commands : envelope'[k] # Nothing
            => envelope'[k] = envelope[k] \/ (\E f \in Files : file[f].text # Nothing
                  /\ envelope'[k] = file[f].text) \/ k \in Attests
  BY <1>9 DEF SyncDirectory, Goes
<1>10. ASSUME NEW c \in Authenticates, BeginAuthenticate(c)
      PROVE \A k \in Commands : envelope'[k] # Nothing
            => envelope'[k] = envelope[k] \/ (\E f \in Files : file[f].text # Nothing
                  /\ envelope'[k] = file[f].text) \/ k \in Attests
  BY <1>10 DEF BeginAuthenticate, Verify, Goes
<1>11. ASSUME NEW c \in Authenticates, ReadEnvelope(c)
      PROVE \A k \in Commands : envelope'[k] # Nothing
            => envelope'[k] = envelope[k] \/ (\E f \in Files : file[f].text # Nothing
                  /\ envelope'[k] = file[f].text) \/ k \in Attests
  BY <1>11 DEF ReadEnvelope, Goes, AfterFields
<1>12. ASSUME NEW c \in Authenticates, OpenTrustRoot(c)
      PROVE \A k \in Commands : envelope'[k] # Nothing
            => envelope'[k] = envelope[k] \/ (\E f \in Files : file[f].text # Nothing
                  /\ envelope'[k] = file[f].text) \/ k \in Attests
  BY <1>12 DEF OpenTrustRoot, Goes
<1>13. ASSUME NEW c \in Authenticates, ReadLine(c)
      PROVE \A k \in Commands : envelope'[k] # Nothing
            => envelope'[k] = envelope[k] \/ (\E f \in Files : file[f].text # Nothing
                  /\ envelope'[k] = file[f].text) \/ k \in Attests
  BY <1>13 DEF ReadLine, Goes
<1>14. ASSUME NEW c \in Authenticates, CopyLines(c)
      PROVE \A k \in Commands : envelope'[k] # Nothing
            => envelope'[k] = envelope[k] \/ (\E f \in Files : file[f].text # Nothing
                  /\ envelope'[k] = file[f].text) \/ k \in Attests
  BY <1>14 DEF CopyLines, Goes
<1>15. ASSUME NEW c \in Authenticates, Seal(c)
      PROVE \A k \in Commands : envelope'[k] # Nothing
            => envelope'[k] = envelope[k] \/ (\E f \in Files : file[f].text # Nothing
                  /\ envelope'[k] = file[f].text) \/ k \in Attests
  BY <1>15 DEF Seal, Goes
<1>16. ASSUME NEW c \in Authenticates, Locate(c)
      PROVE \A k \in Commands : envelope'[k] # Nothing
            => envelope'[k] = envelope[k] \/ (\E f \in Files : file[f].text # Nothing
                  /\ envelope'[k] = file[f].text) \/ k \in Attests
  BY <1>16 DEF Locate, Goes
<1>17. ASSUME NEW c \in Authenticates, StageSignature(c)
      PROVE \A k \in Commands : envelope'[k] # Nothing
            => envelope'[k] = envelope[k] \/ (\E f \in Files : file[f].text # Nothing
                  /\ envelope'[k] = file[f].text) \/ k \in Attests
  BY <1>17 DEF StageSignature, Goes
<1>18. ASSUME NEW c \in Authenticates, AskVerifier(c)
      PROVE \A k \in Commands : envelope'[k] # Nothing
            => envelope'[k] = envelope[k] \/ (\E f \in Files : file[f].text # Nothing
                  /\ envelope'[k] = file[f].text) \/ k \in Attests
  BY <1>18 DEF AskVerifier, Goes
<1>19. ASSUME NEW c \in Authenticates, Reopen(c)
      PROVE \A k \in Commands : envelope'[k] # Nothing
            => envelope'[k] = envelope[k] \/ (\E f \in Files : file[f].text # Nothing
                  /\ envelope'[k] = file[f].text) \/ k \in Attests
  BY <1>19 DEF Reopen, Change
<1>20. ASSUME NEW c \in Commands, Fail(c) PROVE \A k \in Commands : envelope'[k] # Nothing
      => envelope'[k] = envelope[k] \/ (\E f \in Files : file[f].text # Nothing
            /\ envelope'[k] = file[f].text) \/ k \in Attests
  BY <1>20 DEF Fail, Errors
<1>21. ASSUME NEW c \in Commands, Kill(c) PROVE \A k \in Commands : envelope'[k] # Nothing
      => envelope'[k] = envelope[k] \/ (\E f \in Files : file[f].text # Nothing
            /\ envelope'[k] = file[f].text) \/ k \in Attests
  BY <1>21 DEF Kill
<1>22. CASE Rotate
  BY <1>22 DEF Rotate, Change
<1>23. CASE EditEnvelope
  BY <1>23 DEF EditEnvelope, Change, Edits
<1>24. CASE EditPolicy
  BY <1>24 DEF EditPolicy, Change
<1>25. CASE TouchDossier
  BY <1>25 DEF TouchDossier, Change
<1>26. CASE Crash
  BY <1>26 DEF Crash
<1>27. CASE UNCHANGED vars
  BY <1>27 DEF vars
<1> QED
  BY <1>1, <1>2, <1>3, <1>4, <1>5, <1>6, <1>7, <1>8, <1>9, <1>10,
     <1>11, <1>12, <1>13, <1>14, <1>15, <1>16, <1>17, <1>18, <1>19, <1>20,
     <1>21, <1>22, <1>23, <1>24, <1>25, <1>26, <1>27
  DEF Next, AttestStep, AuthenticateStep, Ended

(* Where the text of a file comes from.                                    *)
LEMMA TextsHaveSources ==
  ASSUME TypeOK, HasSigned, HasWritten, NameIsLinked, [Next]_vars
  PROVE  \A f \in Files : file'[f].text # Nothing
        => (\E g \in Files : file[g].text # Nothing
              /\ file'[f].text.signature = file[g].text.signature) \/ (\E a \in Attests : envelope[a] # Nothing /\ file'[f].text = envelope[a])
<1> USE CommandsAreDistinct, ArgumentsAreKnown DEF TypeOK, vars, world, output, reader,
      budget, Commands, Files
<1>1. ASSUME NEW c \in Attests, BeginAttest(c)
      PROVE \A f \in Files : file'[f].text # Nothing
            => (\E g \in Files : file[g].text # Nothing
                  /\ file'[f].text.signature = file[g].text.signature) \/ (\E a \in Attests : envelope[a] # Nothing /\ file'[f].text = envelope[a])
  BY <1>1 DEF BeginAttest, Verify, Goes
<1>2. ASSUME NEW c \in Attests, PrepareOutput(c)
      PROVE \A f \in Files : file'[f].text # Nothing
            => (\E g \in Files : file[g].text # Nothing
                  /\ file'[f].text.signature = file[g].text.signature) \/ (\E a \in Attests : envelope[a] # Nothing /\ file'[f].text = envelope[a])
  BY <1>2 DEF PrepareOutput, Goes
<1>3. ASSUME NEW c \in Attests, Sign(c) PROVE \A f \in Files : file'[f].text # Nothing
      => (\E g \in Files : file[g].text # Nothing
            /\ file'[f].text.signature = file[g].text.signature) \/ (\E a \in Attests : envelope[a] # Nothing /\ file'[f].text = envelope[a])
  BY <1>3 DEF Sign, Goes, Signed, Payload
<1>4. ASSUME NEW c \in Attests, CheckOutput(c)
      PROVE \A f \in Files : file'[f].text # Nothing
            => (\E g \in Files : file[g].text # Nothing
                  /\ file'[f].text.signature = file[g].text.signature) \/ (\E a \in Attests : envelope[a] # Nothing /\ file'[f].text = envelope[a])
  BY <1>4 DEF CheckOutput, Goes
<1>5. ASSUME NEW c \in Attests, WriteUnnamed(c)
      PROVE \A f \in Files : file'[f].text # Nothing
            => (\E g \in Files : file[g].text # Nothing
                  /\ file'[f].text.signature = file[g].text.signature) \/ (\E a \in Attests : envelope[a] # Nothing /\ file'[f].text = envelope[a])
  BY <1>5 DEF WriteUnnamed, Goes
<1>6. ASSUME NEW c \in Attests, SyncFile(c) PROVE \A f \in Files : file'[f].text # Nothing
      => (\E g \in Files : file[g].text # Nothing
            /\ file'[f].text.signature = file[g].text.signature) \/ (\E a \in Attests : envelope[a] # Nothing /\ file'[f].text = envelope[a])
  BY <1>6 DEF SyncFile, Goes
<1>7. ASSUME NEW c \in Attests, Link(c) PROVE \A f \in Files : file'[f].text # Nothing
      => (\E g \in Files : file[g].text # Nothing
            /\ file'[f].text.signature = file[g].text.signature) \/ (\E a \in Attests : envelope[a] # Nothing /\ file'[f].text = envelope[a])
  BY <1>7 DEF Link, Goes
<1>8. ASSUME NEW c \in Attests, InspectPublished(c)
      PROVE \A f \in Files : file'[f].text # Nothing
            => (\E g \in Files : file[g].text # Nothing
                  /\ file'[f].text.signature = file[g].text.signature) \/ (\E a \in Attests : envelope[a] # Nothing /\ file'[f].text = envelope[a])
  BY <1>8 DEF InspectPublished, Goes
<1>9. ASSUME NEW c \in Attests, SyncDirectory(c)
      PROVE \A f \in Files : file'[f].text # Nothing
            => (\E g \in Files : file[g].text # Nothing
                  /\ file'[f].text.signature = file[g].text.signature) \/ (\E a \in Attests : envelope[a] # Nothing /\ file'[f].text = envelope[a])
  BY <1>9 DEF SyncDirectory, Goes
<1>10. ASSUME NEW c \in Authenticates, BeginAuthenticate(c)
      PROVE \A f \in Files : file'[f].text # Nothing
            => (\E g \in Files : file[g].text # Nothing
                  /\ file'[f].text.signature = file[g].text.signature) \/ (\E a \in Attests : envelope[a] # Nothing /\ file'[f].text = envelope[a])
  BY <1>10 DEF BeginAuthenticate, Verify, Goes
<1>11. ASSUME NEW c \in Authenticates, ReadEnvelope(c)
      PROVE \A f \in Files : file'[f].text # Nothing
            => (\E g \in Files : file[g].text # Nothing
                  /\ file'[f].text.signature = file[g].text.signature) \/ (\E a \in Attests : envelope[a] # Nothing /\ file'[f].text = envelope[a])
  BY <1>11 DEF ReadEnvelope, Goes, AfterFields
<1>12. ASSUME NEW c \in Authenticates, OpenTrustRoot(c)
      PROVE \A f \in Files : file'[f].text # Nothing
            => (\E g \in Files : file[g].text # Nothing
                  /\ file'[f].text.signature = file[g].text.signature) \/ (\E a \in Attests : envelope[a] # Nothing /\ file'[f].text = envelope[a])
  BY <1>12 DEF OpenTrustRoot, Goes
<1>13. ASSUME NEW c \in Authenticates, ReadLine(c)
      PROVE \A f \in Files : file'[f].text # Nothing
            => (\E g \in Files : file[g].text # Nothing
                  /\ file'[f].text.signature = file[g].text.signature) \/ (\E a \in Attests : envelope[a] # Nothing /\ file'[f].text = envelope[a])
  BY <1>13 DEF ReadLine, Goes
<1>14. ASSUME NEW c \in Authenticates, CopyLines(c)
      PROVE \A f \in Files : file'[f].text # Nothing
            => (\E g \in Files : file[g].text # Nothing
                  /\ file'[f].text.signature = file[g].text.signature) \/ (\E a \in Attests : envelope[a] # Nothing /\ file'[f].text = envelope[a])
  BY <1>14 DEF CopyLines, Goes
<1>15. ASSUME NEW c \in Authenticates, Seal(c)
      PROVE \A f \in Files : file'[f].text # Nothing
            => (\E g \in Files : file[g].text # Nothing
                  /\ file'[f].text.signature = file[g].text.signature) \/ (\E a \in Attests : envelope[a] # Nothing /\ file'[f].text = envelope[a])
  BY <1>15 DEF Seal, Goes
<1>16. ASSUME NEW c \in Authenticates, Locate(c)
      PROVE \A f \in Files : file'[f].text # Nothing
            => (\E g \in Files : file[g].text # Nothing
                  /\ file'[f].text.signature = file[g].text.signature) \/ (\E a \in Attests : envelope[a] # Nothing /\ file'[f].text = envelope[a])
  BY <1>16 DEF Locate, Goes
<1>17. ASSUME NEW c \in Authenticates, StageSignature(c)
      PROVE \A f \in Files : file'[f].text # Nothing
            => (\E g \in Files : file[g].text # Nothing
                  /\ file'[f].text.signature = file[g].text.signature) \/ (\E a \in Attests : envelope[a] # Nothing /\ file'[f].text = envelope[a])
  BY <1>17 DEF StageSignature, Goes
<1>18. ASSUME NEW c \in Authenticates, AskVerifier(c)
      PROVE \A f \in Files : file'[f].text # Nothing
            => (\E g \in Files : file[g].text # Nothing
                  /\ file'[f].text.signature = file[g].text.signature) \/ (\E a \in Attests : envelope[a] # Nothing /\ file'[f].text = envelope[a])
  BY <1>18 DEF AskVerifier, Goes
<1>19. ASSUME NEW c \in Authenticates, Reopen(c)
      PROVE \A f \in Files : file'[f].text # Nothing
            => (\E g \in Files : file[g].text # Nothing
                  /\ file'[f].text.signature = file[g].text.signature) \/ (\E a \in Attests : envelope[a] # Nothing /\ file'[f].text = envelope[a])
  BY <1>19 DEF Reopen, Change
<1>20. ASSUME NEW c \in Commands, Fail(c) PROVE \A f \in Files : file'[f].text # Nothing
      => (\E g \in Files : file[g].text # Nothing
            /\ file'[f].text.signature = file[g].text.signature) \/ (\E a \in Attests : envelope[a] # Nothing /\ file'[f].text = envelope[a])
  BY <1>20 DEF Fail, Errors
<1>21. ASSUME NEW c \in Commands, Kill(c) PROVE \A f \in Files : file'[f].text # Nothing
      => (\E g \in Files : file[g].text # Nothing
            /\ file'[f].text.signature = file[g].text.signature) \/ (\E a \in Attests : envelope[a] # Nothing /\ file'[f].text = envelope[a])
  BY <1>21 DEF Kill
<1>22. CASE Rotate
  BY <1>22 DEF Rotate, Change
<1>23. CASE EditEnvelope
  <2>1. name \in published /\ name # User
    BY <1>23 DEF EditEnvelope, Change, NameIsLinked
  <2>2. file[name].text = envelope[name] /\ envelope[name] # Nothing
    BY <2>1, <1>23 DEF EditEnvelope, Change, HasSigned, SignedBy, HasWritten, WrittenBy
  <2>3. file[name].text \in Envelopes
    BY <2>1, <2>2, <1>23 DEF EditEnvelope, Change
  <2>4. \A t \in Edits(file[name].text) : t \in Envelopes
        /\ t.signature = file[name].text.signature
    BY <2>1, <2>2, <2>3, <1>23, EditsKeepSignatures DEF EditEnvelope, Change
  <2>5. \A f \in Files \ {User} : file'[f] = file[f]
    BY <2>1, <2>2, <2>3, <2>4, <1>23 DEF EditEnvelope, Change
  <2>6. file'[User].text \in Edits(file[name].text)
    BY <2>1, <2>2, <2>3, <2>4, <2>5, <1>23 DEF EditEnvelope, Change
  <2> QED
    BY <2>1, <2>2, <2>3, <2>4, <2>5, <2>6, <1>23 DEF EditEnvelope, Change
<1>24. CASE EditPolicy
  BY <1>24 DEF EditPolicy, Change
<1>25. CASE TouchDossier
  BY <1>25 DEF TouchDossier, Change
<1>26. CASE Crash
  <2>1. \A f \in Files : file'[f].text = file[f].text
    BY <1>26 DEF Crash
  <2> QED
    BY <2>1, <1>26 DEF Crash
<1>27. CASE UNCHANGED vars
  BY <1>27 DEF vars
<1> QED
  BY <1>1, <1>2, <1>3, <1>4, <1>5, <1>6, <1>7, <1>8, <1>9, <1>10,
     <1>11, <1>12, <1>13, <1>14, <1>15, <1>16, <1>17, <1>18, <1>19, <1>20,
     <1>21, <1>22, <1>23, <1>24, <1>25, <1>26, <1>27
  DEF Next, AttestStep, AuthenticateStep, Ended

LEMMA NextKeepsMade ==
  ASSUME TypeOK, HasSigned, HasWritten, NameIsLinked, SignaturesAreMade, [Next]_vars
  PROVE  SignaturesAreMade'
<1>1. ASSUME NEW t, MadeByAttest(t) PROVE MadeByAttest(t)'
  BY <1>1, SignedStays DEF MadeByAttest, EnvelopeOf
<1>2. ASSUME NEW a \in Attests, envelope[a] # Nothing PROVE MadeByAttest(envelope[a])
  BY <1>2 DEF MadeByAttest, HasSigned, SignedBy
<1>3. ASSUME NEW f \in Files, file'[f].text # Nothing PROVE MadeByAttest(file[f].text)'
  <2>1. CASE \E g \in Files : /\ file[g].text # Nothing
                             /\ file'[f].text.signature = file[g].text.signature
    BY <2>1, <1>1 DEF SignaturesAreMade, MadeByAttest
  <2>2. CASE \E a \in Attests : envelope[a] # Nothing /\ file'[f].text = envelope[a]
    BY <2>2, <1>1, <1>2 DEF MadeByAttest
  <2> QED
    BY <2>1, <2>2, <1>3, TextsHaveSources
<1>4. ASSUME NEW k \in Commands, envelope'[k] # Nothing PROVE MadeByAttest(envelope[k])'
  <2>1. CASE envelope'[k] = envelope[k]
    BY <2>1, <1>1, <1>4 DEF SignaturesAreMade, MadeByAttest
  <2>2. CASE \E f \in Files : file[f].text # Nothing /\ envelope'[k] = file[f].text
    BY <2>2, <1>1 DEF SignaturesAreMade, MadeByAttest
  <2>3. CASE k \in Attests
    BY <2>3, <1>4, NextKeepsSigned DEF HasSigned, SignedBy, MadeByAttest
  <2> QED
    BY <2>1, <2>2, <2>3, <1>4, EnvelopesHaveSources
<1> QED
  BY <1>3, <1>4 DEF SignaturesAreMade

-----------------------------------------------------------------------------
LEMMA InitEstablishes == Init => IInv
<1> SUFFICES ASSUME Init PROVE IInv
  OBVIOUS
<1> USE CommandsAreDistinct, ArgumentsAreKnown DEF Init, Commands, Files
<1>1. TypeOK
  BY DEF TypeOK, Bundles, Steps
<1>2. HasSigned /\ HasWritten
  BY DEF HasSigned, SignedBy, HasWritten, WrittenBy, Signing, Writing, Linking, Published
<1>3. WholeIsText /\ NameIsLinked
  BY DEF WholeIsText, NameIsLinked
<1>4. NameIsHeld /\ SignaturesAreMade
  BY DEF NameIsHeld, HeldBy, Published, SignaturesAreMade
<1>5. BundlesAreOfTheirRun
  BY DEF BundlesAreOfTheirRun
<1>6. LinesAreListed
  BY DEF LinesAreListed, PolicyIsListed, ListedFor, Later
<1>7. \A u \in Authenticates : at[u] = "begin" /\ envelope[u] = Nothing /\ bundle[u] = Nothing
  OBVIOUS
<1>8. SuccessIsAgreed
  BY <1>7 DEF SuccessIsAgreed, AgreedFor, Later
<1> QED
  BY <1>1, <1>2, <1>3, <1>4, <1>5, <1>6, <1>8 DEF IInv

LEMMA NextKeepsInvariant == IInv /\ [Next]_vars => IInv'
<1> SUFFICES ASSUME IInv, [Next]_vars PROVE IInv'
  OBVIOUS
<1> USE DEF IInv
<1>1. TypeOK'
  BY NextKeepsTyped
<1>2. HasSigned' /\ HasWritten'
  BY NextKeepsSigned, NextKeepsWritten
<1>3. WholeIsText' /\ NameIsLinked' /\ NameIsHeld'
  BY NextKeepsText, NextKeepsLinked, NextKeepsHeld
<1>4. SignaturesAreMade' /\ BundlesAreOfTheirRun'
  BY NextKeepsMade, NextKeepsRuns
<1>5. LinesAreListed'
  BY NextKeepsPolicy, NextKeepsListed DEF LinesAreListed
<1>6. SuccessIsAgreed'
  BY NextKeepsAgreed
<1> QED
  BY <1>1, <1>2, <1>3, <1>4, <1>5, <1>6

(* The invariant holds in every state of every behaviour.                  *)
LEMMA InvariantHolds == Spec => []IInv
  BY InitEstablishes, NextKeepsInvariant, PTL DEF Spec

-----------------------------------------------------------------------------
(* Every variable keeps its type.                                          *)
THEOREM TypeCorrect == Spec => []TypeOK
<1>1. IInv => TypeOK
  BY DEF IInv
<1> QED
  BY InvariantHolds, <1>1, PTL

(* What an attest left at the output name is its whole envelope, whatever  *)
(* the kills, crashes and failing calls.                                   *)
THEOREM WholeEnvelope == Spec => []EnvelopeIsWhole
<1>1. IInv => EnvelopeIsWhole
  BY CommandsAreDistinct
  DEF IInv, EnvelopeIsWhole, NameIsLinked, HasWritten, WrittenBy, EnvelopeOf, Files
<1> QED
  BY InvariantHolds, <1>1, PTL

(* An attest that reported success is at the name for good, unless it was  *)
(* taken away.                                                             *)
THEOREM DurableSuccess == Spec => []SuccessIsDurable
<1>1. IInv => SuccessIsDurable
  BY DEF IInv, SuccessIsDurable, NameIsHeld, HeldBy, HasWritten, WrittenBy, Published,
         Linking, Writing
<1> QED
  BY InvariantHolds, <1>1, PTL

(* The exit codes 1 and 2 are those of attests that published nothing.     *)
THEOREM UnpublishedUsage == Spec => []UsageIsUnpublished
<1>1. IInv => UsageIsUnpublished
  BY DEF IInv, UsageIsUnpublished, HasWritten, WrittenBy, Published
<1> QED
  BY InvariantHolds, <1>1, PTL

(* A verified authenticity was earned.                                     *)
THEOREM EarnedAuthentication == Spec => []AuthenticatedIsEarned
<1>1. ASSUME IInv, NEW u \in Authenticates, at[u] = "success"
      PROVE  /\ bundle[u][1] = Run[u]
             /\ trust[u] \notin Embedded
             /\ \E a \in Attests :
                  /\ envelope[a] # Nothing
                  /\ bundle[a] = bundle[u]
                  /\ Principal[a] = envelope[u].principal
                  /\ <<trust[u], <<Principal[a], Key[a]>>>> \in ListedLines
  <2> USE <1>1 DEF IInv
  <2>1. envelope[u] # Nothing /\ bundle[u] # Nothing /\ trust[u] \notin Embedded
    BY DEF SuccessIsAgreed, AgreedFor, Later
  <2>2. bundle[u][1] = Run[u]
    BY <2>1 DEF BundlesAreOfTheirRun, Commands
  <2>3. PICK a \in Attests :
          envelope[a] # Nothing /\ envelope[u].signature = EnvelopeOf(a).signature
    BY <2>1 DEF SignaturesAreMade, MadeByAttest, Commands
  <2>4. envelope[u].signature =
          [key |-> Key[a], payload |-> <<Principal[a], bundle[a]>>]
    BY <2>3 DEF EnvelopeOf, Payload
  <2>5. /\ envelope[u].signature.payload = <<envelope[u].principal, bundle[u]>>
        /\ <<envelope[u].principal, envelope[u].signature.key>> \in memory[u]
    BY DEF SuccessIsAgreed, AgreedFor, Accepts, Payload
  <2>6. Principal[a] = envelope[u].principal /\ bundle[a] = bundle[u]
    BY <2>4, <2>5
  <2>7. <<trust[u], <<Principal[a], Key[a]>>>> \in ListedLines
    BY <2>4, <2>5, <2>6 DEF LinesAreListed, ListedFor, Later
  <2> QED
    BY <2>1, <2>2, <2>3, <2>6, <2>7
<1>2. IInv => AuthenticatedIsEarned
  BY <1>1 DEF AuthenticatedIsEarned
<1> QED
  BY InvariantHolds, <1>2, PTL

(* A refusal of an envelope that nobody edited has its cause outside: the  *)
(* dossier, the policy as it was read, or an ssh-keygen that failed.       *)
THEOREM CausedRefusal == Spec => []RefusalHasCause
<1>1. ASSUME IInv, NEW u \in Authenticates, NEW a \in Attests, at[u] = "refused",
             envelope[u] # Nothing, envelope[u] = file[a].text, bundle[u] = bundle[a],
             u \notin broken
      PROVE  <<Principal[a], Key[a]>> \notin got[u]
  <2> USE <1>1 DEF IInv
  <2>1. envelope[u] = EnvelopeOf(a)
    BY DEF HasWritten, WrittenBy
  <2>2. /\ envelope[u].digest = bundle[u]
        /\ envelope[u].principal = Principal[a]
        /\ envelope[u].signature =
             [key |-> Key[a], payload |-> Payload(Principal[a], bundle[u])]
    BY <2>1 DEF EnvelopeOf
  <2>3. memory[u] = got[u]
        /\ ~Accepts(memory[u], envelope[u].principal, envelope[u].signature,
                    Payload(envelope[u].principal, bundle[u]))
    BY <2>2 DEF SuccessIsAgreed, AgreedFor
  <2> QED
    BY <2>2, <2>3 DEF Accepts
<1>2. IInv => RefusalHasCause
  BY <1>1 DEF RefusalHasCause, Unexplained
<1> QED
  BY InvariantHolds, <1>2, PTL

(* No command replaces what stands at the output name.                     *)
THEOREM NoClobber == Spec => NothingIsClobbered
<1>1. ASSUME TypeOK, [Next]_vars, name # Nothing, name' # name
      PROVE  changes' # changes \/ stops' # stops
  <2> USE <1>1, ArgumentsAreKnown DEF TypeOK
  <2>1. ASSUME NEW c \in Attests, Link(c) PROVE FALSE
    BY <2>1 DEF Link
  <2>2. CASE Rotate \/ EditEnvelope
    BY <2>2 DEF Rotate, EditEnvelope, Change
  <2>3. CASE Crash
    BY <2>3 DEF Crash
  <2> QED
    BY <2>1, <2>2, <2>3
    DEF Next, AttestStep, AuthenticateStep, Ended, vars, output, BeginAttest, PrepareOutput,
        Sign, CheckOutput, WriteUnnamed, SyncFile, InspectPublished, SyncDirectory,
        BeginAuthenticate, ReadEnvelope, OpenTrustRoot, ReadLine, CopyLines, Seal, Locate,
        StageSignature, AskVerifier, Reopen, Fail, Kill, EditPolicy, TouchDossier
<1>2. TypeOK /\ [Next]_vars
      => [name # Nothing /\ name' # name => changes' # changes \/ stops' # stops]_vars
  BY <1>1
<1> QED
  BY TypeCorrect, <1>2, PTL DEF Spec, NothingIsClobbered
=============================================================================
