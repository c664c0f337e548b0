--------------------------- MODULE ImportsProofs ---------------------------
(***************************************************************************)
(* Proofs about Imports, for any number of invocations of any programs,    *)
(* any set of process ids and any number of faults, kills and replaced     *)
(* files: what is at a work root or at the output has an owner, and only   *)
(* its owner touches it; what is exported is whole, what is sealed is      *)
(* justified by the foreign evidence, and what ingest scirust says of it   *)
(* is what the evidence says.                                              *)
(***************************************************************************)
EXTENDS Imports, FunctionTheorems, SequenceTheorems, FiniteSetTheorems, TLAPS

Place == {"new", "check_output", "look", "accept", "refuse", "work_root", "create_run",
          "documents", "finalize", "verify", "archive", "copy", "discard", "cleanup",
          "ended", "killed"}

Roots == {request[i] : i \in Invocation} \X Pids

Typed ==
  /\ request \in Requests
  /\ pc \in [Invocation -> Place]
  /\ pid \in [Invocation -> Pids \cup {Absent}]
  /\ DOMAIN exit = Invocation
  /\ work \in [Roots -> Invocation \cup {Absent}]
  /\ output = [by |-> output.by, files |-> output.files, whole |-> output.whole]
  /\ output.by \in Invocation \cup {Absent}

(* What a place of the program tells: only a bridge comes to the places    *)
(* around its work root, and only a program that was started to any.       *)
Placed ==
  \A i \in Invocation :
    /\ IF pc[i] = "new" THEN pid[i] = Absent ELSE pid[i] \in Pids
    /\ pc[i] \in {"check_output", "work_root", "verify", "archive", "copy", "discard", "cleanup"}
         => request[i] \in Bridges

(* A work root is where the program and the process id of its maker say,   *)
(* and its maker is at work, was killed, or failed to remove it.           *)
RootsHaveMakers ==
  \A w \in Roots : work[w] # Absent =>
    LET i == work[w]
    IN /\ w = WorkRoot(i)
       /\ HasWorkRoot(i) \/ pc[i] \in {"cleanup", "killed"} \/ i \in kept

(* An output is being written, being discarded, whole, left by a kill, or  *)
(* was not removed.                                                        *)
OutputHasMaker ==
  \A i \in Invocation :
    /\ pc[i] \in {"copy", "discard"} => output.by = i /\ ~output.whole
    /\ output.by = i =>
         \/ pc[i] \in {"copy", "discard", "killed"}
         \/ i \in kept
         \/ output.whole /\ exit[i] = 0 /\ pc[i] \in {"cleanup", "ended"}

IInv == Typed /\ Placed /\ WorkRootIsOwn /\ RootsHaveMakers /\ OutputHasMaker

-----------------------------------------------------------------------------
LEMMA InitEstablishes == Init => IInv
<1> SUFFICES ASSUME Init PROVE IInv
  OBVIOUS
<1>1. Typed
  BY RequestsNamePrograms
  DEF Init, Typed, Roots, Invocation, Place, NoOutput
<1>2. Placed /\ WorkRootIsOwn
  BY DEF Init, Placed, WorkRootIsOwn, HasWorkRoot, Invocation
<1>3. RootsHaveMakers
  BY DEF Init, RootsHaveMakers, Roots, Invocation
<1>4. OutputHasMaker
  BY RequestsNamePrograms DEF Init, OutputHasMaker, NoOutput, Invocation
<1> QED
  BY <1>1, <1>2, <1>3, <1>4 DEF IInv

LEMMA NextKeepsTyped == Typed /\ [Next]_vars => Typed'
<1> SUFFICES ASSUME Typed, [Next]_vars PROVE Typed'
  OBVIOUS
<1> USE DEF Typed, Roots, Invocation
<1>1. ASSUME NEW i \in Invocation, NEW p \in Pids, Start(i, p) PROVE Typed'
  BY <1>1 DEF Start, Goto, Place
<1>2. ASSUME NEW i \in Invocation, CheckOutput(i) PROVE Typed'
  BY <1>2 DEF CheckOutput, Leave, HasWorkRoot, Goto, Place
<1>3. ASSUME NEW i \in Invocation, Look(i) PROVE Typed'
  BY <1>3 DEF Look, Goto, Place
<1>4. ASSUME NEW i \in Invocation, Accept(i) PROVE Typed'
  BY <1>4 DEF Accept, Goto, Place
<1>5. ASSUME NEW i \in Invocation, Refuse(i) PROVE Typed'
  BY <1>5 DEF Refuse, Leave, Place
<1>6. ASSUME NEW i \in Invocation, MakeWorkRoot(i) PROVE Typed'
  BY <1>6 DEF MakeWorkRoot, Leave, Goto, Place
<1>7. ASSUME NEW i \in Invocation, CreateRun(i) PROVE Typed'
  BY <1>7 DEF CreateRun, Goto, Place
<1>8. ASSUME NEW i \in Invocation, WriteDocument(i) PROVE Typed'
  BY <1>8 DEF WriteDocument, Leave, Goto, Place
<1>9. ASSUME NEW i \in Invocation, Finalize(i) PROVE Typed'
  BY <1>9 DEF Finalize, Leave, Goto, Place
<1>10. ASSUME NEW i \in Invocation, Verify(i) PROVE Typed'
  BY <1>10 DEF Verify, Goto, Place
<1>11. ASSUME NEW i \in Invocation, CreateOutput(i) PROVE Typed'
  BY <1>11 DEF CreateOutput, Leave, Goto, Place
<1>12. ASSUME NEW i \in Invocation, CopyFile(i) PROVE Typed'
  BY <1>12 DEF CopyFile, Leave, Place
<1>13. ASSUME NEW i \in Invocation, Discard(i) PROVE Typed'
  BY <1>13 DEF Discard, NoOutput, Goto, Place
<1>14. ASSUME NEW i \in Invocation, Cleanup(i) PROVE Typed'
  BY <1>14 DEF Cleanup, Goto, Place
<1>15. ASSUME NEW i \in Invocation, Fault(i) PROVE Typed'
  BY <1>15 DEF Fault, Leave, Goto, Place
<1>16. ASSUME NEW i \in Invocation, Kill(i) PROVE Typed'
  BY <1>16 DEF Kill, Goto, Place
<1>17. ASSUME NEW p \in Program, Replace(p) PROVE Typed'
  BY <1>17 DEF Replace
<1>18. CASE UNCHANGED vars
  BY <1>18 DEF vars
<1> QED
  BY <1>1, <1>2, <1>3, <1>4, <1>5, <1>6, <1>7, <1>8, <1>9, <1>10, <1>11, <1>12, <1>13,
     <1>14, <1>15, <1>16, <1>17, <1>18 DEF Next, Step, AllDone

LEMMA NextKeepsPlaced == Typed /\ Placed /\ [Next]_vars => Placed'
<1> SUFFICES ASSUME Typed, Placed, [Next]_vars PROVE Placed'
  OBVIOUS
<1> USE DEF Typed, Roots, Invocation, Placed, HasWorkRoot
<1>1. ASSUME NEW i \in Invocation, NEW p \in Pids, Start(i, p) PROVE Placed'
  BY <1>1 DEF Start, Goto
<1>2. ASSUME NEW i \in Invocation, CheckOutput(i) PROVE Placed'
  BY <1>2 DEF CheckOutput, Leave, Goto
<1>3. ASSUME NEW i \in Invocation, Look(i) PROVE Placed'
  BY <1>3 DEF Look, Goto
<1>4. ASSUME NEW i \in Invocation, Accept(i) PROVE Placed'
  BY <1>4 DEF Accept, Goto
<1>5. ASSUME NEW i \in Invocation, Refuse(i) PROVE Placed'
  BY <1>5 DEF Refuse, Leave
<1>6. ASSUME NEW i \in Invocation, MakeWorkRoot(i) PROVE Placed'
  BY <1>6 DEF MakeWorkRoot, Leave, Goto
<1>7. ASSUME NEW i \in Invocation, CreateRun(i) PROVE Placed'
  BY <1>7 DEF CreateRun, Goto
<1>8. ASSUME NEW i \in Invocation, WriteDocument(i) PROVE Placed'
  BY <1>8 DEF WriteDocument, Leave, Goto
<1>9. ASSUME NEW i \in Invocation, Finalize(i) PROVE Placed'
  BY <1>9, RequestsNamePrograms DEF Program, Bridges, Finalize, Leave, Goto
<1>10. ASSUME NEW i \in Invocation, Verify(i) PROVE Placed'
  BY <1>10 DEF Verify, Goto
<1>11. ASSUME NEW i \in Invocation, CreateOutput(i) PROVE Placed'
  BY <1>11 DEF CreateOutput, Leave, Goto
<1>12. ASSUME NEW i \in Invocation, CopyFile(i) PROVE Placed'
  BY <1>12 DEF CopyFile, Leave
<1>13. ASSUME NEW i \in Invocation, Discard(i) PROVE Placed'
  BY <1>13 DEF Discard, Goto
<1>14. ASSUME NEW i \in Invocation, Cleanup(i) PROVE Placed'
  BY <1>14 DEF Cleanup, Goto
<1>15. ASSUME NEW i \in Invocation, Fault(i) PROVE Placed'
  BY <1>15 DEF Fault, Fallible, Leave, Goto
<1>16. ASSUME NEW i \in Invocation, Kill(i) PROVE Placed'
  BY <1>16 DEF Kill, Alive, Goto
<1>17. ASSUME NEW p \in Program, Replace(p) PROVE Placed'
  BY <1>17 DEF Replace
<1>18. CASE UNCHANGED vars
  BY <1>18 DEF vars
<1> QED
  BY <1>1, <1>2, <1>3, <1>4, <1>5, <1>6, <1>7, <1>8, <1>9, <1>10, <1>11, <1>12, <1>13,
     <1>14, <1>15, <1>16, <1>17, <1>18 DEF Next, Step, AllDone

LEMMA NextKeepsOwnRoots == Typed /\ Placed /\ WorkRootIsOwn /\ [Next]_vars => WorkRootIsOwn'
<1> SUFFICES ASSUME Typed, Placed, WorkRootIsOwn, [Next]_vars PROVE WorkRootIsOwn'
  OBVIOUS
<1> USE DEF Typed, Roots, Invocation, Placed, WorkRootIsOwn, WorkRoot, HasWorkRoot
<1>1. ASSUME NEW i \in Invocation, NEW p \in Pids, Start(i, p) PROVE WorkRootIsOwn'
  BY <1>1 DEF Start, Goto
<1>2. ASSUME NEW i \in Invocation, CheckOutput(i) PROVE WorkRootIsOwn'
  BY <1>2 DEF CheckOutput, Leave, Goto
<1>3. ASSUME NEW i \in Invocation, Look(i) PROVE WorkRootIsOwn'
  BY <1>3 DEF Look, Goto
<1>4. ASSUME NEW i \in Invocation, Accept(i) PROVE WorkRootIsOwn'
  BY <1>4 DEF Accept, Goto
<1>5. ASSUME NEW i \in Invocation, Refuse(i) PROVE WorkRootIsOwn'
  BY <1>5 DEF Refuse, Leave
<1>6. ASSUME NEW i \in Invocation, MakeWorkRoot(i) PROVE WorkRootIsOwn'
  <2>1. CASE Leave(i, 3) /\ UNCHANGED work
    BY <1>6, <2>1 DEF MakeWorkRoot, Leave
  <2>2. CASE /\ work[WorkRoot(i)] = Absent
             /\ work' = [work EXCEPT ![WorkRoot(i)] = i]
             /\ Goto(i, "create_run")
    <3>1. WorkRoot(i) \in Roots
      BY <1>6 DEF MakeWorkRoot
    <3>2. \A j \in Invocation : WorkRoot(j)' = WorkRoot(j)
      BY <1>6 DEF MakeWorkRoot
    <3>3. ASSUME NEW j \in Invocation, j # i, HasWorkRoot(j)' \/ (pc[j] = "cleanup")'
          PROVE work[WorkRoot(j)]' = j
      <4>1. work[WorkRoot(j)] = j
        BY <1>6, <2>2, <3>3 DEF MakeWorkRoot, Goto
      <4>2. WorkRoot(j) # WorkRoot(i)
        BY <2>2, <4>1, RequestsNamePrograms
      <4> QED
        BY <2>2, <3>1, <3>2, <4>1, <4>2, SMTT(30)
    <3>4. work[WorkRoot(i)]' = i
      BY <2>2, <3>1, <3>2
    <3> QED
      BY <3>3, <3>4, <1>6 DEF MakeWorkRoot
  <2> QED
    BY <1>6, <2>1, <2>2 DEF MakeWorkRoot
<1>7. ASSUME NEW i \in Invocation, CreateRun(i) PROVE WorkRootIsOwn'
  BY <1>7 DEF CreateRun, Goto
<1>8. ASSUME NEW i \in Invocation, WriteDocument(i) PROVE WorkRootIsOwn'
  BY <1>8 DEF WriteDocument, Leave, Goto
<1>9. ASSUME NEW i \in Invocation, Finalize(i) PROVE WorkRootIsOwn'
  BY <1>9 DEF Finalize, Leave, Goto
<1>10. ASSUME NEW i \in Invocation, Verify(i) PROVE WorkRootIsOwn'
  BY <1>10 DEF Verify, Goto
<1>11. ASSUME NEW i \in Invocation, CreateOutput(i) PROVE WorkRootIsOwn'
  BY <1>11 DEF CreateOutput, Leave, Goto
<1>12. ASSUME NEW i \in Invocation, CopyFile(i) PROVE WorkRootIsOwn'
  BY <1>12 DEF CopyFile, Leave
<1>13. ASSUME NEW i \in Invocation, Discard(i) PROVE WorkRootIsOwn'
  BY <1>13 DEF Discard, Goto
<1>14. ASSUME NEW i \in Invocation, Cleanup(i) PROVE WorkRootIsOwn'
  BY <1>14 DEF Cleanup, Goto
<1>15. ASSUME NEW i \in Invocation, Fault(i) PROVE WorkRootIsOwn'
  BY <1>15 DEF Fault, Fallible, Leave, Goto
<1>16. ASSUME NEW i \in Invocation, Kill(i) PROVE WorkRootIsOwn'
  BY <1>16 DEF Kill, Alive, Goto
<1>17. ASSUME NEW p \in Program, Replace(p) PROVE WorkRootIsOwn'
  BY <1>17 DEF Replace
<1>18. CASE UNCHANGED vars
  BY <1>18 DEF vars
<1> QED
  BY <1>1, <1>2, <1>3, <1>4, <1>5, <1>6, <1>7, <1>8, <1>9, <1>10, <1>11, <1>12, <1>13,
     <1>14, <1>15, <1>16, <1>17, <1>18 DEF Next, Step, AllDone

LEMMA NextKeepsMakers == Typed /\ Placed /\ WorkRootIsOwn /\ RootsHaveMakers /\ [Next]_vars => RootsHaveMakers'
<1> SUFFICES ASSUME Typed, Placed, WorkRootIsOwn, RootsHaveMakers, [Next]_vars PROVE RootsHaveMakers'
  OBVIOUS
<1> USE DEF Typed, Roots, Invocation, Placed, WorkRootIsOwn, RootsHaveMakers, WorkRoot, HasWorkRoot
<1>1. ASSUME NEW i \in Invocation, NEW p \in Pids, Start(i, p) PROVE RootsHaveMakers'
  <2>1. ASSUME NEW w \in Roots, work[w] = i PROVE FALSE
    <3>1. w = <<request[i], pid[i]>>
      BY <2>1, RequestsNamePrograms
    <3>2. pid[i] = Absent
      BY <1>1 DEF Start
    <3>3. w[2] \in Pids
      BY <2>1
    <3> QED
      BY <3>1, <3>2, <3>3, AbsentIsNoPid
  <2> QED
    BY <1>1, <2>1 DEF Start, Goto
<1>2. ASSUME NEW i \in Invocation, CheckOutput(i) PROVE RootsHaveMakers'
  BY <1>2 DEF CheckOutput, Leave, Goto
<1>3. ASSUME NEW i \in Invocation, Look(i) PROVE RootsHaveMakers'
  BY <1>3 DEF Look, Goto
<1>4. ASSUME NEW i \in Invocation, Accept(i) PROVE RootsHaveMakers'
  BY <1>4 DEF Accept, Goto
<1>5. ASSUME NEW i \in Invocation, Refuse(i) PROVE RootsHaveMakers'
  BY <1>5 DEF Refuse, Leave
<1>6. ASSUME NEW i \in Invocation, MakeWorkRoot(i) PROVE RootsHaveMakers'
  <2>1. CASE Leave(i, 3) /\ UNCHANGED work
    BY <1>6, <2>1 DEF MakeWorkRoot, Leave
  <2>2. CASE /\ work[WorkRoot(i)] = Absent
             /\ work' = [work EXCEPT ![WorkRoot(i)] = i]
             /\ Goto(i, "create_run")
    <3>1. WorkRoot(i) \in Roots
      BY <1>6 DEF MakeWorkRoot
    <3>2. \A j \in Invocation : WorkRoot(j)' = WorkRoot(j)
      BY <1>6 DEF MakeWorkRoot
    <3>3. ASSUME NEW w \in Roots, w # WorkRoot(i), work[w] # Absent
          PROVE work[w] # i
      BY <3>3
    <3> QED
      BY <1>6, <2>2, <3>1, <3>2, <3>3 DEF MakeWorkRoot, Goto
  <2> QED
    BY <1>6, <2>1, <2>2 DEF MakeWorkRoot
<1>7. ASSUME NEW i \in Invocation, CreateRun(i) PROVE RootsHaveMakers'
  BY <1>7 DEF CreateRun, Goto
<1>8. ASSUME NEW i \in Invocation, WriteDocument(i) PROVE RootsHaveMakers'
  BY <1>8 DEF WriteDocument, Leave, Goto
<1>9. ASSUME NEW i \in Invocation, Finalize(i) PROVE RootsHaveMakers'
  BY <1>9 DEF Finalize, Leave, Goto
<1>10. ASSUME NEW i \in Invocation, Verify(i) PROVE RootsHaveMakers'
  BY <1>10 DEF Verify, Goto
<1>11. ASSUME NEW i \in Invocation, CreateOutput(i) PROVE RootsHaveMakers'
  BY <1>11 DEF CreateOutput, Leave, Goto
<1>12. ASSUME NEW i \in Invocation, CopyFile(i) PROVE RootsHaveMakers'
  BY <1>12 DEF CopyFile, Leave
<1>13. ASSUME NEW i \in Invocation, Discard(i) PROVE RootsHaveMakers'
  BY <1>13 DEF Discard, Goto
<1>14. ASSUME NEW i \in Invocation, Cleanup(i) PROVE RootsHaveMakers'
  <2>1. \A w \in Roots : work[w] = i => w = WorkRoot(i)
    BY RequestsNamePrograms
  <2>2. \A j \in Invocation : WorkRoot(j)' = WorkRoot(j)
    BY <1>14 DEF Cleanup
  <2>3. CASE work' = [work EXCEPT ![WorkRoot(i)] = Absent] /\ UNCHANGED kept
    BY <1>14, <2>1, <2>2, <2>3 DEF Cleanup, Goto
  <2>4. CASE kept' = kept \cup {i} /\ UNCHANGED work
    BY <1>14, <2>2, <2>4 DEF Cleanup, Goto
  <2> QED
    BY <1>14, <2>3, <2>4 DEF Cleanup
<1>15. ASSUME NEW i \in Invocation, Fault(i) PROVE RootsHaveMakers'
  BY <1>15 DEF Fault, Fallible, Leave, Goto
<1>16. ASSUME NEW i \in Invocation, Kill(i) PROVE RootsHaveMakers'
  BY <1>16 DEF Kill, Alive, Goto
<1>17. ASSUME NEW p \in Program, Replace(p) PROVE RootsHaveMakers'
  BY <1>17 DEF Replace
<1>18. CASE UNCHANGED vars
  BY <1>18 DEF vars
<1> QED
  BY <1>1, <1>2, <1>3, <1>4, <1>5, <1>6, <1>7, <1>8, <1>9, <1>10, <1>11, <1>12, <1>13,
     <1>14, <1>15, <1>16, <1>17, <1>18 DEF Next, Step, AllDone

LEMMA NextKeepsOutputHasMaker == Typed /\ Placed /\ OutputHasMaker /\ [Next]_vars => OutputHasMaker'
<1> SUFFICES ASSUME Typed, Placed, OutputHasMaker, [Next]_vars PROVE OutputHasMaker'
  OBVIOUS
<1> USE DEF Typed, Roots, Invocation, Placed, OutputHasMaker, HasWorkRoot, OutputExists, NoOutput
<1>1. ASSUME NEW i \in Invocation, NEW p \in Pids, Start(i, p) PROVE OutputHasMaker'
  BY <1>1 DEF Start, Goto
<1>2. ASSUME NEW i \in Invocation, CheckOutput(i) PROVE OutputHasMaker'
  BY <1>2 DEF CheckOutput, Leave, Goto
<1>3. ASSUME NEW i \in Invocation, Look(i) PROVE OutputHasMaker'
  BY <1>3 DEF Look, Goto
<1>4. ASSUME NEW i \in Invocation, Accept(i) PROVE OutputHasMaker'
  BY <1>4 DEF Accept, Goto
<1>5. ASSUME NEW i \in Invocation, Refuse(i) PROVE OutputHasMaker'
  BY <1>5 DEF Refuse, Leave
<1>6. ASSUME NEW i \in Invocation, MakeWorkRoot(i) PROVE OutputHasMaker'
  BY <1>6 DEF MakeWorkRoot, Leave, Goto
<1>7. ASSUME NEW i \in Invocation, CreateRun(i) PROVE OutputHasMaker'
  BY <1>7 DEF CreateRun, Goto
<1>8. ASSUME NEW i \in Invocation, WriteDocument(i) PROVE OutputHasMaker'
  BY <1>8 DEF WriteDocument, Leave, Goto
<1>9. ASSUME NEW i \in Invocation, Finalize(i) PROVE OutputHasMaker'
  BY <1>9 DEF Finalize, Leave, Goto
<1>10. ASSUME NEW i \in Invocation, Verify(i) PROVE OutputHasMaker'
  BY <1>10 DEF Verify, Goto
<1>11. ASSUME NEW i \in Invocation, CreateOutput(i) PROVE OutputHasMaker'
  BY <1>11, RequestsNamePrograms DEF CreateOutput, Leave, Goto
<1>12. ASSUME NEW i \in Invocation, CopyFile(i) PROVE OutputHasMaker'
  BY <1>12 DEF CopyFile, Leave
<1>13. ASSUME NEW i \in Invocation, Discard(i) PROVE OutputHasMaker'
  <2>1. CASE output' = NoOutput /\ UNCHANGED kept
    BY <1>13, <2>1, RequestsNamePrograms DEF Discard, Goto
  <2>2. CASE kept' = kept \cup {i} /\ UNCHANGED output
    BY <1>13, <2>2 DEF Discard, Goto
  <2> QED
    BY <1>13, <2>1, <2>2 DEF Discard
<1>14. ASSUME NEW i \in Invocation, Cleanup(i) PROVE OutputHasMaker'
  BY <1>14 DEF Cleanup, Goto
<1>15. ASSUME NEW i \in Invocation, Fault(i) PROVE OutputHasMaker'
  BY <1>15 DEF Fault, Fallible, Leave, Goto
<1>16. ASSUME NEW i \in Invocation, Kill(i) PROVE OutputHasMaker'
  BY <1>16 DEF Kill, Alive, Goto
<1>17. ASSUME NEW p \in Program, Replace(p) PROVE OutputHasMaker'
  BY <1>17 DEF Replace
<1>18. CASE UNCHANGED vars
  BY <1>18 DEF vars
<1> QED
  BY <1>1, <1>2, <1>3, <1>4, <1>5, <1>6, <1>7, <1>8, <1>9, <1>10, <1>11, <1>12, <1>13,
     <1>14, <1>15, <1>16, <1>17, <1>18 DEF Next, Step, AllDone

-----------------------------------------------------------------------------
LEMMA InvariantHolds == Spec => []IInv
<1>1. IInv /\ [Next]_vars => IInv'
  BY NextKeepsTyped, NextKeepsPlaced, NextKeepsOwnRoots, NextKeepsMakers,
     NextKeepsOutputHasMaker DEF IInv
<1> QED
  BY <1>1, InitEstablishes, PTL DEF Spec

(* However many programs run, fail, are killed or get the process id of an *)
(* earlier one: each works in a directory that is its own.                 *)
THEOREM OwnDirectory == Spec => []WorkRootIsOwn
<1>1. IInv => WorkRootIsOwn
  BY DEF IInv
<1> QED
  BY <1>1, InvariantHolds, PTL

(* A program that returns removes its work root and the output it did not  *)
(* finish, unless a removal fails.                                         *)
THEOREM TidyReturn == Spec => []NothingLeftBehind
<1>1. IInv => NothingLeftBehind
  <2> SUFFICES ASSUME IInv, NEW i \in Invocation, pc[i] = "ended", i \notin kept
               PROVE /\ \A w \in DOMAIN work : work[w] # i
                     /\ output.by = i => output.whole /\ exit[i] = 0
    BY DEF NothingLeftBehind
  <2>1. \A w \in DOMAIN work : work[w] # i
    BY RequestsNamePrograms DEF IInv, Typed, Roots, RootsHaveMakers, HasWorkRoot, Invocation
  <2>2. output.by = i => output.whole /\ exit[i] = 0
    BY DEF IInv, OutputHasMaker
  <2> QED
    BY <2>1, <2>2
<1> QED
  BY <1>1, InvariantHolds, PTL

(* No step changes an output that is whole, or one that another program is *)
(* writing or discarding.                                                  *)
THEOREM OutputsStay == Spec => OutputIsItsMakers
<1> DEFINE Kept == OutputExists =>
       /\ ~output.whole
       /\ pc[output.by] \in {"copy", "discard"}
       /\ output'.by \in {output.by, Absent}
<1>1. ASSUME IInv, [Next]_vars, output' # output PROVE Kept
  <2> USE DEF IInv, Typed, OutputHasMaker, OutputExists
  <2>1. ASSUME NEW i \in Invocation, CreateOutput(i) PROVE Kept
    BY <1>1, <2>1 DEF CreateOutput
  <2>2. ASSUME NEW i \in Invocation, CopyFile(i) PROVE Kept
    BY <2>2 , <1>1 DEF CopyFile
  <2>3. ASSUME NEW i \in Invocation, Discard(i) PROVE Kept
    BY <1>1, <2>3 DEF Discard, NoOutput
  <2> QED
    BY <1>1, <2>1, <2>2, <2>3
    DEF Next, Step, AllDone, vars, Start, CheckOutput, Look, Accept, Refuse, MakeWorkRoot,
        CreateRun, WriteDocument, Finalize, Verify, Cleanup, Fault, Kill, Replace
<1>2. IInv /\ [Next]_vars => [Kept]_output
  BY <1>1
<1> QED
  BY <1>2, InvariantHolds, PTL DEF Spec, OutputIsItsMakers

-----------------------------------------------------------------------------
(* What an export holds.  The directory of a bridge is followed through    *)
(* the calls that fill it, up to finalize; from there it does not change,  *)
(* and the output is a part of it until it is all of it.                   *)

Early == {"new", "check_output", "look", "accept", "work_root", "create_run"}

Documented(i) == DocumentsOf(request[i], seen[i])

Tables == DOMAIN run = Invocation /\ DOMAIN calls = Invocation /\ DOMAIN seen = Invocation

(* The evidence of a bridge is in its directory, under the bytes that came *)
(* with it.                                                                *)
HoldsEvidence(dir, documents) ==
  /\ dir[Run!ArtifactPath] = documents.artifact
  /\ dir["EVD-1"] = documents.evidence[1]
  /\ \A a \in documents.evidence[1].attachments :
       dir[a.path] = [bytes |-> documents.handed[a.path]]

(* The run directory of a bridge after n calls.                            *)
AsWritten(dir, documents, n) ==
  /\ dir = [p \in Run!Path |-> dir[p]]
  /\ dir[Run!RunPath] = RunDocument(IF n < 4 THEN "planning" ELSE "running")
  /\ dir[Run!ExecutionsPath] =
       IF n < 6 THEN Absent ELSE [executions |-> {documents.executions[1]}]
  /\ \A p \in EvidenceIds \ {"EVD-1"} : dir[p] = Absent
  /\ n >= 1 => dir[Run!ArtifactPath] = documents.artifact
  /\ n >= 5 => HoldsEvidence(dir, documents)
  /\ n = 7 => dir[Run!ReportPath] = [evaluations |-> documents.evaluations]

WritesOf(i) ==
  /\ pc[i] \in Early => run[i] = Run!Nothing /\ calls[i] = 0
  /\ pc[i] = "documents" => calls[i] \in 0..6
  /\ pc[i] = "finalize" => calls[i] = 7
  /\ pc[i] \in {"documents", "finalize"} => AsWritten(run[i], Documented(i), calls[i])

DirectoryIsWritten == \A i \in Invocation : request[i] \in Bridges => WritesOf(i)

(* A sealed run with every document its program writes.                    *)
IsWhole(dir, documents) ==
  /\ dir = [p \in Run!Path |-> dir[p]]
  /\ Run!IsFinalized(dir) /\ Run!Consistent(dir)
  /\ Run!RecordedExecutions(dir) = {documents.executions[1]}
  /\ dir[Run!ReportPath] # Absent

RunIsWhole ==
  \A i \in Invocation :
    pc[i] \in {"verify", "archive", "copy"} => IsWhole(run[i], Documented(i))

OutputIsCopied ==
  /\ \A i \in Invocation : pc[i] = "copy" =>
       /\ output.files = [p \in Run!Path |-> output.files[p]]
       /\ \A p \in Run!Path : output.files[p] \in {Absent, run[i][p]}
  /\ OutputExists => pc[output.by] \in {"copy", "discard", "cleanup", "ended", "killed"}
  /\ output.whole =>
       /\ OutputExists /\ request[output.by] \in Bridges
       /\ IsWhole(output.files, Documented(output.by))

ZeroMeansWhole ==
  \A i \in Invocation : request[i] \in Bridges =>
    /\ pc[i] = "discard" => exit[i] = 3
    /\ pc[i] \in {"cleanup", "ended"} /\ exit[i] = 0 => output.by = i /\ output.whole

EInv == IInv /\ Tables /\ DirectoryIsWritten /\ RunIsWhole /\ OutputIsCopied /\ ZeroMeansWhole

(* What a bridge writes: one record of evidence, one execution of one      *)
(* check, one evaluation of one claim.                                     *)
LEMMA BridgeDocuments ==
  ASSUME NEW program \in Bridges, NEW s
  PROVE  LET documents == DocumentsOf(program, s)
         IN /\ DOMAIN documents.evidence = {1} /\ Len(documents.evidence) = 1
            /\ DOMAIN documents.executions = {1} /\ Len(documents.executions) = 1
            /\ [executions |-> {documents.executions[1]}] # Absent
            /\ [evaluations |-> documents.evaluations] # Absent
            /\ \A a \in documents.evidence[1].attachments : a.path = Nnis!ValidationAttachment
<1> DEFINE documents == DocumentsOf(program, s)
<1>1. CASE program = "nnis"
  <2>1. documents = Nnis!OneClaimDocuments(Nnis!Check, Nnis!Claim, Nnis!Digest(s[2]),
                      Nnis!Evidence(s), [p \in {Nnis!ValidationAttachment} |-> s[5].bytes])
    BY <1>1 DEF DocumentsOf, Nnis!Documents
  <2>2. /\ documents.executions = <<Nnis!OneExecution(Nnis!Check)>>
        /\ documents.evaluations = {Nnis!OneEvaluation(Nnis!Claim)}
        /\ documents.evidence = <<Nnis!Evidence(s)>>
    BY <2>1 DEF Nnis!OneClaimDocuments
  <2>3. Nnis!Evidence(s).attachments
          = {[path |-> Nnis!ValidationAttachment, payload |-> s[4].bytes]}
    BY DEF Nnis!Evidence
  <2> QED
    BY <2>2, <2>3, AbsentIsNoDocument
<1>2. CASE program = "scicapsule"
  <2>1. documents = Capsule!OneClaimDocuments(Capsule!Check, Capsule!Claim, Capsule!Digest(s[2]),
                      Capsule!Evidence(s), Capsule!NoPayload)
    BY <1>2 DEF DocumentsOf, Capsule!Documents
  <2>2. /\ documents.executions = <<Nnis!OneExecution(Capsule!Check)>>
        /\ documents.evaluations = {Nnis!OneEvaluation(Capsule!Claim)}
        /\ documents.evidence = <<Capsule!Evidence(s)>>
    <3>1. /\ Capsule!OneExecution(Capsule!Check) = Nnis!OneExecution(Capsule!Check)
          /\ Capsule!OneEvaluation(Capsule!Claim) = Nnis!OneEvaluation(Capsule!Claim)
      BY DEF Capsule!OneExecution, Capsule!OneEvaluation, Nnis!OneExecution, Nnis!OneEvaluation
    <3> QED
      BY <2>1, <3>1 DEF Capsule!OneClaimDocuments
  <2>3. Capsule!Evidence(s).attachments = {}
    BY DEF Capsule!Evidence
  <2> QED
    BY <2>2, <2>3, AbsentIsNoDocument
<1>3. CASE program = "elastic"
  <2>1. documents = Elastic!OneClaimDocuments(Elastic!Check, Elastic!Claim, Elastic!Digest(s[2]),
                      Elastic!Evidence(s), Elastic!NoPayload)
    BY <1>3 DEF DocumentsOf, Elastic!Documents
  <2>2. /\ documents.executions = <<Nnis!OneExecution(Elastic!Check)>>
        /\ documents.evaluations = {Nnis!OneEvaluation(Elastic!Claim)}
        /\ documents.evidence = <<Elastic!Evidence(s)>>
    <3>1. /\ Elastic!OneExecution(Elastic!Check) = Nnis!OneExecution(Elastic!Check)
          /\ Elastic!OneEvaluation(Elastic!Claim) = Nnis!OneEvaluation(Elastic!Claim)
      BY DEF Elastic!OneExecution, Elastic!OneEvaluation, Nnis!OneExecution, Nnis!OneEvaluation
    <3> QED
      BY <2>1, <3>1 DEF Elastic!OneClaimDocuments
  <2>3. Elastic!Evidence(s).attachments = {}
    BY DEF Elastic!Evidence
  <2> QED
    BY <2>2, <2>3, AbsentIsNoDocument
<1>4. CASE program = "forge_soup"
  <2>1. documents = Forge!OneClaimDocuments(Forge!Check, Forge!Claim, Forge!Digest(s[7]),
                      Forge!Evidence(s), Forge!NoPayload)
    BY <1>4 DEF DocumentsOf, Forge!Documents
  <2>2. /\ documents.executions = <<Nnis!OneExecution(Forge!Check)>>
        /\ documents.evaluations = {Nnis!OneEvaluation(Forge!Claim)}
        /\ documents.evidence = <<Forge!Evidence(s)>>
    <3>1. /\ Forge!OneExecution(Forge!Check) = Nnis!OneExecution(Forge!Check)
          /\ Forge!OneEvaluation(Forge!Claim) = Nnis!OneEvaluation(Forge!Claim)
      BY DEF Forge!OneExecution, Forge!OneEvaluation, Nnis!OneExecution, Nnis!OneEvaluation
    <3> QED
      BY <2>1, <3>1 DEF Forge!OneClaimDocuments
  <2>3. Forge!Evidence(s).attachments = {}
    BY DEF Forge!Evidence
  <2> QED
    BY <2>2, <2>3, AbsentIsNoDocument
<1> QED
  BY <1>1, <1>2, <1>3, <1>4 DEF Bridges

(* set_state changes the state of a run document and nothing else.         *)
LEMMA StateIsSet ==
  ASSUME NEW before, NEW state
  PROVE  [RunDocument(before) EXCEPT !.state = state] = RunDocument(state)
<1> DEFINE document == [RunDocument(before) EXCEPT !.state = state]
<1>1. DOMAIN RunDocument(state) = {"state", "replay_of", "finalized_at"}
  BY DEF RunDocument
<1>2. DOMAIN document = DOMAIN RunDocument(state)
  BY DEF RunDocument
<1>3. document = [f \in DOMAIN RunDocument(state) |-> document[f]]
  BY <1>2 DEF RunDocument
<1>4. RunDocument(state) = [f \in DOMAIN RunDocument(state) |-> RunDocument(state)[f]]
  BY DEF RunDocument
<1>5. document["state"] = state /\ document["replay_of"] = FALSE /\ document["finalized_at"] = 0
  BY DEF RunDocument
<1>6. /\ RunDocument(state)["state"] = state /\ RunDocument(state)["replay_of"] = FALSE
      /\ RunDocument(state)["finalized_at"] = 0
  BY DEF RunDocument
<1> HIDE DEF document
<1>7. document = RunDocument(state)
  BY <1>1, <1>3, <1>4, <1>5, <1>6
<1> QED
  BY <1>7 DEF document

(* A record of evidence has a path of its own.                             *)
LEMMA EvidencePaths ==
  /\ EvidenceIds \subseteq Run!Path /\ "EVD-1" \in EvidenceIds
  /\ \A p \in EvidenceIds :
       p \notin {Run!RunPath, Run!ArtifactPath, Run!PlanPath, Run!ClaimsPath,
                Run!ExecutionsPath, Run!ReportPath} \cup Attachments
<1>1. 1 \in DOMAIN EvidenceName
  BY RecordsHaveNames
<1>2. "EVD-1" \in EvidenceIds
  BY <1>1, RecordsHaveNames DEF EvidenceIds
<1> QED
  BY <1>2, RecordsHaveNames DEF Run!Path, Run!Documents

(* One call of the store after the other.                                  *)
LEMMA CallsWrite ==
  ASSUME NEW documents, DOMAIN documents.evidence = {1}, Len(documents.evidence) = 1,
         DOMAIN documents.executions = {1}, Len(documents.executions) = 1,
         \A a \in documents.evidence[1].attachments : a.path = Nnis!ValidationAttachment,
         NEW dir, NEW n \in 0..6, AsWritten(dir, documents, n)
  PROVE  AsWritten(AfterCall(dir, documents, n + 1), documents, n + 1)
<1> DEFINE after == AfterCall(dir, documents, n + 1)
<1> USE DEF Planned, Run!RunPath, Run!ArtifactPath, Run!PlanPath, Run!ClaimsPath,
            Run!ExecutionsPath, Run!ReportPath, Run!TempPath, Nnis!ValidationAttachment
<1>1. /\ Run!RunPath \in Run!Path /\ Run!ArtifactPath \in Run!Path /\ Run!PlanPath \in Run!Path
      /\ Run!ClaimsPath \in Run!Path /\ Run!ExecutionsPath \in Run!Path
      /\ Run!ReportPath \in Run!Path
  BY DEF Run!Path, Run!Documents
<1>2. "EVD-1" \in Run!Path /\ Nnis!ValidationAttachment \in Run!Path
  BY EvidencePaths DEF Run!Path, Attachments
<1> /\ \A p \in EvidenceIds \ {"EVD-1"} :
         /\ p \in Run!Path /\ p # "EVD-1"
         /\ p \notin {Run!RunPath, Run!ArtifactPath, Run!PlanPath, Run!ClaimsPath,
                     Run!ExecutionsPath, Run!ReportPath, Nnis!ValidationAttachment}
  BY EvidencePaths DEF Attachments
<1>3. CASE n = 0
  <2>1. after = [dir EXCEPT ![Run!ArtifactPath] = documents.artifact]
    BY <1>3 DEF AfterCall
  <2> QED
    BY <1>1, <1>3, <2>1 DEF AsWritten
<1>4. CASE n = 1
  <2>1. after = [dir EXCEPT ![Run!PlanPath] = documents.plan]
    BY <1>4 DEF AfterCall
  <2> QED
    BY <1>1, <1>4, <2>1 DEF AsWritten
<1>5. CASE n = 2
  <2>1. after = [dir EXCEPT ![Run!ClaimsPath] = documents.claims]
    BY <1>5 DEF AfterCall
  <2> QED
    BY <1>1, <1>5, <2>1 DEF AsWritten
<1>6. CASE n = 3
  <2>1. after = [dir EXCEPT ![Run!RunPath].state = "running"]
    BY <1>6 DEF AfterCall
  <2>2. DOMAIN dir = Run!Path
    BY DEF AsWritten
  <2>3. after = [p \in Run!Path |-> after[p]]
    BY <2>1, <2>2
  <2> HIDE DEF after
  <2>4. after[Run!RunPath] = RunDocument("running")
    <3>1. after[Run!RunPath] = [dir[Run!RunPath] EXCEPT !.state = "running"]
      BY <1>1, <2>1, <2>2
    <3>2. dir[Run!RunPath] = RunDocument("planning")
      BY <1>6 DEF AsWritten
    <3>3. [RunDocument("planning") EXCEPT !.state = "running"] = RunDocument("running")
      BY StateIsSet
    <3> QED
      BY <3>1, <3>2, <3>3
  <2>5. \A p \in Run!Path : p # Run!RunPath => after[p] = dir[p]
    BY <2>1, <2>2
  <2>6. AsWritten(after, documents, 4)
    BY <1>1, <1>6, <2>3, <2>4, <2>5 DEF AsWritten
  <2> QED
    BY <2>6, <1>6 DEF after
<1>7. CASE n = 4
  <2>1. after = WithEvidence(dir, "EVD-1", documents.evidence[1], documents.handed)
    BY <1>7, RecordsHaveNames DEF AfterCall
  <2>2. \A p \in Run!Path : after[p] =
          CASE p = "EVD-1" -> documents.evidence[1]
            [] \E a \in documents.evidence[1].attachments : a.path = p ->
                 [bytes |-> documents.handed[p]]
            [] OTHER -> dir[p]
    BY <2>1 DEF WithEvidence, AsWritten
  <2>3. after = [p \in Run!Path |-> after[p]]
    <3>1. DOMAIN dir = Run!Path
      BY DEF AsWritten
    <3> QED
      BY <2>1, <3>1 DEF WithEvidence
  <2>4. after["EVD-1"] = documents.evidence[1]
    BY <2>2, <1>2
  <2>5. \A a \in documents.evidence[1].attachments :
          after[a.path] = [bytes |-> documents.handed[a.path]]
    BY <2>2, <1>2
  <2>6. \A p \in {Run!RunPath, Run!ArtifactPath, Run!ExecutionsPath} : after[p] = dir[p]
    BY <2>2, <1>1
  <2>7. \A p \in EvidenceIds \ {"EVD-1"} : after[p] = dir[p]
    <3> SUFFICES ASSUME NEW p \in EvidenceIds \ {"EVD-1"} PROVE after[p] = dir[p]
      OBVIOUS
    <3>1. ~\E a \in documents.evidence[1].attachments : a.path = p
      OBVIOUS
    <3> QED
      BY <2>2, <3>1
  <2> HIDE DEF after
  <2>8. AsWritten(after, documents, 5)
    BY <1>7, <2>3, <2>4, <2>5, <2>6, <2>7 DEF AsWritten, HoldsEvidence
  <2> QED
    BY <2>8, <1>7 DEF after
<1>8. CASE n = 5
  <2>1. after = [dir EXCEPT ![Run!ExecutionsPath] =
                   [executions |-> Run!RecordedExecutions(dir) \cup {documents.executions[1]}]]
    BY <1>8 DEF AfterCall
  <2>2. Run!RecordedExecutions(dir) = {}
    BY <1>8 DEF AsWritten, Run!RecordedExecutions
  <2>3. {} \cup {documents.executions[1]} = {documents.executions[1]}
    OBVIOUS
  <2>4. after = [dir EXCEPT ![Run!ExecutionsPath] = [executions |-> {documents.executions[1]}]]
    BY <2>1, <2>2, <2>3
  <2> HIDE DEF after
  <2>5. DOMAIN dir = Run!Path
    BY DEF AsWritten
  <2>6. after = [p \in Run!Path |-> after[p]]
    BY <2>4, <2>5
  <2>7. after[Run!ExecutionsPath] = [executions |-> {documents.executions[1]}]
    BY <1>1, <2>4, <2>5
  <2>8. \A p \in Run!Path : p # Run!ExecutionsPath => after[p] = dir[p]
    BY <2>4, <2>5
  <2>9. HoldsEvidence(after, documents)
    BY <1>1, <1>2, <1>8, <2>8 DEF AsWritten, HoldsEvidence
  <2>10. AsWritten(after, documents, 6)
    BY <1>1, <1>8, <2>6, <2>7, <2>8, <2>9 DEF AsWritten
  <2> QED
    BY <2>10, <1>8 DEF after
<1>9. CASE n = 6
  <2>1. after = [dir EXCEPT ![Run!ReportPath] = [evaluations |-> documents.evaluations]]
    BY <1>9 DEF AfterCall
  <2> HIDE DEF after
  <2>2. AsWritten(after, documents, 7)
    BY <1>1, <1>9, <2>1, SMTT(30) DEF AsWritten, HoldsEvidence
  <2> QED
    BY <2>2, <1>9 DEF after
<1> QED
  BY <1>3, <1>4, <1>5, <1>6, <1>7, <1>8, <1>9

(* finalize puts its mark on a directory it has found consistent, and what *)
(* is sealed then is as consistent.                                        *)
LEMMA SealIsWhole ==
  ASSUME NEW documents, NEW dir, AsWritten(dir, documents, 7), Run!Consistent(dir),
         [executions |-> {documents.executions[1]}] # Absent,
         [evaluations |-> documents.evaluations] # Absent,
         \A a \in documents.evidence[1].attachments : a.path = Nnis!ValidationAttachment
  PROVE  IsWhole([dir EXCEPT ![Run!RunPath] = RunDocument("finalized")], documents)
<1> DEFINE sealed == [dir EXCEPT ![Run!RunPath] = RunDocument("finalized")]
<1>1. /\ Run!RunPath \in Run!Path
      /\ \A p \in {Run!ArtifactPath, Run!PlanPath, Run!ClaimsPath, Run!ExecutionsPath,
                   Run!ReportPath} \cup EvidenceIds : p \in Run!Path /\ p # Run!RunPath
  BY EvidencePaths DEF Run!Path, Run!Documents, Run!RunPath, Run!ArtifactPath, Run!PlanPath,
         Run!ClaimsPath, Run!ExecutionsPath, Run!ReportPath
<1>2. /\ DOMAIN dir = Run!Path /\ DOMAIN sealed = Run!Path
      /\ sealed = [p \in Run!Path |-> sealed[p]]
  BY DEF AsWritten
<1>3. sealed[Run!RunPath] = RunDocument("finalized")
  BY <1>1, <1>2
<1>4. \A p \in Run!Path : p # Run!RunPath => sealed[p] = dir[p]
  BY <1>2
<1>5. \A x : x \notin Run!Stray
  BY DEF Run!Stray
<1>6. RunDocument("finalized") # Absent /\ RunDocument("running") # Absent
  BY AbsentIsNoDocument DEF Run!RunState
<1> HIDE DEF sealed
<1>7. Run!IsFinalized(sealed)
  BY <1>3, <1>5, <1>6 DEF Run!IsFinalized, RunDocument
<1>8. Run!RecordedEvidence(sealed) = Run!RecordedEvidence(dir)
  BY <1>1, <1>4 DEF Run!RecordedEvidence, Run!Present
<1>9. \A e \in Run!RecordedEvidence(dir) : sealed[e] = dir[e]
  BY <1>1, <1>4 DEF Run!RecordedEvidence
<1>10. Run!RecordedExecutions(sealed) = Run!RecordedExecutions(dir)
  BY <1>1, <1>4 DEF Run!RecordedExecutions
<1>11. Run!Deserializes(sealed)
  BY <1>5 DEF Run!Deserializes, Run!Unparseable
<1>12. Run!RequiredDocumentsPresent(sealed)
  BY <1>1, <1>3, <1>4, <1>6 DEF Run!RequiredDocumentsPresent, Run!Consistent
<1>13. Run!AttachmentsIntact(sealed)
  <2> SUFFICES ASSUME NEW e \in Run!RecordedEvidence(dir), NEW a \in dir[e].attachments
               PROVE  sealed[a.path] = [bytes |-> a.payload]
    BY <1>8, <1>9 DEF Run!AttachmentsIntact
  <2>1. dir[a.path] = [bytes |-> a.payload]
    BY DEF Run!Consistent, Run!AttachmentsIntact
  <2>2. e = "EVD-1"
    BY DEF Run!RecordedEvidence, Run!Present, AsWritten
  <2>3. a.path = Nnis!ValidationAttachment
    BY <2>2 DEF AsWritten, HoldsEvidence
  <2>4. a.path \in Run!Path /\ a.path # Run!RunPath
    BY <2>3 DEF Run!Path, Attachments, Nnis!ValidationAttachment, Run!RunPath
  <2> QED
    BY <1>4, <2>1, <2>4
<1>14. Run!ClaimReferencesResolve(sealed) /\ sealed[Run!PlanPath].sound
  BY <1>1, <1>4 DEF Run!ClaimReferencesResolve, Run!Consistent
<1>15. Run!ExecutionReferencesResolve(sealed)
  BY <1>1, <1>4, <1>8, <1>10 DEF Run!ExecutionReferencesResolve, Run!Consistent
<1>16. Run!DerivationsResolve(sealed)
  BY <1>8, <1>9 DEF Run!DerivationsResolve, Run!Consistent
<1>17. Run!Consistent(sealed)
  BY <1>11, <1>12, <1>13, <1>14, <1>15, <1>16 DEF Run!Consistent
<1>18. Run!RecordedExecutions(sealed) = {documents.executions[1]}
  BY <1>10 DEF AsWritten, Run!RecordedExecutions
<1>19. sealed[Run!ReportPath] # Absent
  BY <1>1, <1>4 DEF AsWritten
<1> QED
  BY <1>2, <1>7, <1>17, <1>18, <1>19 DEF IsWhole, sealed

-----------------------------------------------------------------------------
(* A step of one invocation leaves what the others are at alone.           *)
LEMMA OthersStay ==
  ASSUME Tables, Typed, NEW i \in Invocation,
         (\E p \in Pids : Start(i, p)) \/ Step(i) \/ Fault(i) \/ Kill(i)
  PROVE  /\ request' = request
         /\ \A j \in Invocation : j # i =>
              /\ pc'[j] = pc[j] /\ exit'[j] = exit[j] /\ run'[j] = run[j]
              /\ calls'[j] = calls[j] /\ seen'[j] = seen[j]
<1> USE DEF Tables, Typed
<1>1. ASSUME NEW p \in Pids, Start(i, p)
      PROVE  request' = request /\ run' = run /\ calls' = calls /\ seen' = seen /\ exit' = exit
             /\ \A j \in Invocation : j # i => pc'[j] = pc[j]
  BY <1>1 DEF Start, Goto
<1>2. CASE CheckOutput(i)
  BY <1>2 DEF CheckOutput, Leave, Goto
<1>3. CASE Look(i)
  BY <1>3 DEF Look, Goto
<1>4. CASE Accept(i)
  BY <1>4 DEF Accept, Goto
<1>5. CASE Refuse(i)
  BY <1>5 DEF Refuse, Leave
<1>6. CASE MakeWorkRoot(i)
  BY <1>6 DEF MakeWorkRoot, Leave, Goto
<1>7. CASE CreateRun(i)
  BY <1>7 DEF CreateRun, Goto
<1>8. CASE WriteDocument(i)
  BY <1>8 DEF WriteDocument, Leave, Goto
<1>9. CASE Finalize(i)
  BY <1>9 DEF Finalize, Leave, Goto
<1>10. CASE Verify(i)
  BY <1>10 DEF Verify, Goto
<1>11. CASE CreateOutput(i)
  BY <1>11 DEF CreateOutput, Leave, Goto
<1>12. CASE CopyFile(i)
  BY <1>12 DEF CopyFile, Leave
<1>13. CASE Discard(i)
  BY <1>13 DEF Discard, Goto
<1>14. CASE Cleanup(i)
  BY <1>14 DEF Cleanup, Goto
<1>15. CASE Fault(i)
  BY <1>15 DEF Fault, Leave, Goto
<1>16. CASE Kill(i)
  BY <1>16 DEF Kill, Goto
<1> QED
  BY <1>1, <1>2, <1>3, <1>4, <1>5, <1>6, <1>7, <1>8, <1>9, <1>10, <1>11, <1>12, <1>13,
     <1>14, <1>15, <1>16 DEF Step

(* A replaced file, or no step, is nothing an invocation notices by itself.*)
LEMMA WorldStays ==
  ASSUME \/ \E p \in Program : Replace(p)
         \/ AllDone
         \/ UNCHANGED vars
  PROVE  UNCHANGED <<request, pc, pid, seen, calls, run, exit, work, output, kept>>
  BY DEF Replace, AllDone, vars

LEMMA NextKeepsTables == Tables /\ [Next]_vars => Tables'
<1> SUFFICES ASSUME Tables, [Next]_vars PROVE Tables'
  OBVIOUS
<1> USE DEF Tables, Invocation
<1>1. ASSUME NEW i \in Invocation, NEW p \in Pids, Start(i, p) PROVE Tables'
  BY <1>1 DEF Start
<1>2. ASSUME NEW i \in Invocation, Look(i) PROVE Tables'
  BY <1>2 DEF Look
<1>3. ASSUME NEW i \in Invocation, CreateRun(i) PROVE Tables'
  BY <1>3 DEF CreateRun
<1>4. ASSUME NEW i \in Invocation, WriteDocument(i) PROVE Tables'
  BY <1>4 DEF WriteDocument
<1>5. ASSUME NEW i \in Invocation, Finalize(i) PROVE Tables'
  BY <1>5 DEF Finalize
<1>6. ASSUME NEW i \in Invocation, Cleanup(i) PROVE Tables'
  BY <1>6 DEF Cleanup
<1>7. ASSUME NEW i \in Invocation,
             \/ CheckOutput(i) \/ Accept(i) \/ Refuse(i) \/ MakeWorkRoot(i) \/ Verify(i)
             \/ CreateOutput(i) \/ CopyFile(i) \/ Discard(i) \/ Fault(i) \/ Kill(i)
      PROVE Tables'
  BY <1>7 DEF CheckOutput, Accept, Refuse, MakeWorkRoot, Verify, CreateOutput, CopyFile,
              Discard, Fault, Kill
<1>8. ASSUME (\E p \in Program : Replace(p)) \/ AllDone \/ UNCHANGED vars PROVE Tables'
  BY <1>8, WorldStays
<1> QED
  BY <1>1, <1>2, <1>3, <1>4, <1>5, <1>6, <1>7, <1>8 DEF Next, Step

(* What the calls have put in a run directory so far.                      *)
LEMMA NextKeepsWrites ==
  IInv /\ Tables /\ DirectoryIsWritten /\ [Next]_vars => DirectoryIsWritten'
<1> SUFFICES ASSUME IInv, Tables, DirectoryIsWritten, [Next]_vars PROVE DirectoryIsWritten'
  OBVIOUS
<1>1. ASSUME NEW i \in Invocation, request[i] \in Bridges, WritesOf(i),
             (\E p \in Pids : Start(i, p)) \/ Step(i) \/ Fault(i) \/ Kill(i)
      PROVE  WritesOf(i)'
  <2> USE DEF IInv, Typed, Tables, WritesOf, Early
  <2>1. ASSUME NEW p \in Pids, Start(i, p) PROVE WritesOf(i)'
    BY <1>1, <2>1 DEF Start, Goto
  <2>2. CASE CheckOutput(i)
    BY <1>1, <2>2 DEF CheckOutput, Leave, Goto, HasWorkRoot
  <2>3. CASE Look(i)
    BY <1>1, <2>3 DEF Look, Goto
  <2>4. CASE Accept(i)
    BY <1>1, <2>4 DEF Accept, Goto
  <2>5. CASE Refuse(i)
    BY <1>1, <2>5 DEF Refuse, Leave
  <2>6. CASE MakeWorkRoot(i)
    BY <1>1, <2>6 DEF MakeWorkRoot, Leave, Goto
  <2>7. CASE CreateRun(i)
    <3>1. pc'[i] = "documents" /\ calls'[i] = 0
      BY <1>1, <2>7 DEF CreateRun, Goto
    <3>2. run'[i] = [Run!Nothing EXCEPT ![Run!RunPath] = RunDocument("planning")]
      BY <1>1, <2>7 DEF CreateRun
    <3>3. AsWritten(run'[i], Documented(i)', 0)
      <4>1. \A p \in EvidenceIds : p \in Run!Path /\ p # Run!RunPath
        BY EvidencePaths
      <4>2. /\ Run!RunPath \in Run!Path /\ Run!ExecutionsPath \in Run!Path
            /\ Run!ExecutionsPath # Run!RunPath
        BY DEF Run!Path, Run!Documents, Run!RunPath, Run!ExecutionsPath
      <4> QED
        BY <3>2, <4>1, <4>2 DEF AsWritten, Run!Nothing
    <3> QED
      BY <3>1, <3>3
  <2>8. CASE WriteDocument(i)
    <3> DEFINE documents == Documented(i)
               n == calls[i] + 1
    <3>1. CASE Leave(i, FailureCode(i))
      BY <1>1, <3>1 DEF Leave
    <3>2. CASE /\ run' = [run EXCEPT ![i] = AfterCall(@, documents, n)]
               /\ calls' = [calls EXCEPT ![i] = n]
               /\ Goto(i, IF n = CallCount(documents) THEN "finalize" ELSE "documents")
      <4>1. pc[i] = "documents" /\ calls[i] \in 0..6 /\ AsWritten(run[i], documents, calls[i])
        BY <1>1, <2>8 DEF WriteDocument
      <4>2. AsWritten(AfterCall(run[i], documents, n), documents, n)
        <5> HIDE DEF WritesOf
        <5> QED
          BY <1>1, <4>1, BridgeDocuments, CallsWrite DEF Documented
      <4>3. CallCount(documents) = 7
        <5>1. Len(documents.evidence) = 1 /\ Len(documents.executions) = 1
          BY <1>1, BridgeDocuments DEF Documented
        <5>2. Len(Planned) = 4
          BY DEF Planned
        <5> QED
          BY <5>1, <5>2 DEF CallCount
      <4>4. Documented(i)' = documents
        BY <2>8 DEF WriteDocument, Documented
      <4>5. /\ run'[i] = AfterCall(run[i], documents, n) /\ calls'[i] = n
            /\ pc'[i] = IF n = 7 THEN "finalize" ELSE "documents"
        BY <3>2, <4>3 DEF Goto
      <4> HIDE DEF documents
      <4> QED
        BY <4>1, <4>2, <4>4, <4>5
    <3> QED
      BY <2>8, <3>1, <3>2 DEF WriteDocument, Documented
  <2>9. CASE Finalize(i)
    BY <1>1, <2>9 DEF Finalize, Leave, Goto, Bridges
  <2>10. CASE Verify(i)
    BY <2>10 DEF Verify, Goto
  <2>11. CASE CreateOutput(i)
    BY <2>11 DEF CreateOutput, Leave, Goto
  <2>12. CASE CopyFile(i)
    BY <2>12 DEF CopyFile, Leave
  <2>13. CASE Discard(i)
    BY <2>13 DEF Discard, Goto
  <2>14. CASE Cleanup(i)
    BY <2>14 DEF Cleanup, Goto
  <2>15. CASE Fault(i)
    BY <2>15 DEF Fault, Leave, Goto
  <2>16. CASE Kill(i)
    BY <2>16 DEF Kill, Goto
  <2> QED
    BY <1>1, <2>1, <2>2, <2>3, <2>4, <2>5, <2>6, <2>7, <2>8, <2>9, <2>10, <2>11, <2>12,
       <2>13, <2>14, <2>15, <2>16 DEF Step
<1>2. ASSUME NEW i \in Invocation,
             (\E p \in Pids : Start(i, p)) \/ Step(i) \/ Fault(i) \/ Kill(i)
      PROVE  DirectoryIsWritten'
  <2>1. request' = request /\ Invocation' = Invocation
    BY <1>2, OthersStay DEF IInv, Invocation
  <2>2. ASSUME NEW j \in Invocation, j # i, request[j] \in Bridges PROVE WritesOf(j)'
    <3>1. /\ pc'[j] = pc[j] /\ run'[j] = run[j] /\ calls'[j] = calls[j] /\ seen'[j] = seen[j]
      BY <1>2, <2>2, OthersStay DEF IInv
    <3>2. Documented(j)' = Documented(j)
      BY <2>1, <3>1 DEF Documented
    <3> QED
      BY <2>2, <3>1, <3>2 DEF DirectoryIsWritten, WritesOf
  <2>3. request[i] \in Bridges => WritesOf(i)'
    BY <1>1, <1>2 DEF DirectoryIsWritten
  <2> QED
    BY <2>1, <2>2, <2>3 DEF DirectoryIsWritten
<1>3. ASSUME (\E p \in Program : Replace(p)) \/ AllDone \/ UNCHANGED vars
      PROVE  DirectoryIsWritten'
  BY <1>3, WorldStays DEF DirectoryIsWritten, WritesOf, Documented, Invocation
<1> QED
  BY <1>2, <1>3 DEF Next

(* From its seal on a run is whole, and is left as it is.                  *)
LEMMA NextKeepsWhole ==
  EInv /\ [Next]_vars => RunIsWhole'
<1> SUFFICES ASSUME EInv, [Next]_vars PROVE RunIsWhole'
  OBVIOUS
<1> DEFINE WholeOf(i) ==
      pc[i] \in {"verify", "archive", "copy"} => IsWhole(run[i], Documented(i))
<1>1. ASSUME NEW i \in Invocation,
             (\E p \in Pids : Start(i, p)) \/ Step(i) \/ Fault(i) \/ Kill(i)
      PROVE  WholeOf(i)'
  <2> USE DEF EInv, IInv, Typed, Tables
  <2>1. ASSUME NEW p \in Pids, Start(i, p) PROVE WholeOf(i)'
    BY <2>1 DEF Start, Goto
  <2>2. CASE \/ CheckOutput(i) \/ Look(i) \/ Accept(i) \/ Refuse(i) \/ MakeWorkRoot(i)
             \/ CreateRun(i) \/ Discard(i) \/ Cleanup(i) \/ Fault(i) \/ Kill(i)
    BY <2>2 DEF CheckOutput, Look, Accept, Refuse, MakeWorkRoot, CreateRun, Discard, Cleanup,
                Fault, Kill, Leave, Goto
  <2>3. CASE WriteDocument(i)
    BY <2>3 DEF WriteDocument, Leave, Goto
  <2>4. CASE Finalize(i)
    <3>1. CASE Leave(i, FailureCode(i))
      BY <3>1 DEF Leave
    <3>2. CASE request[i] = "scirust"
      BY <2>4, <3>2 DEF Finalize, Leave
    <3>3. CASE /\ request[i] # "scirust"
               /\ Run!Consistent(run[i])
               /\ run' = [run EXCEPT ![i][Run!RunPath] = RunDocument("finalized")]
      <4>1. request[i] \in Bridges
        BY <3>3, RequestsNamePrograms DEF Program, Invocation
      <4>2. AsWritten(run[i], Documented(i), 7)
        BY <2>4, <4>1 DEF Finalize, DirectoryIsWritten, WritesOf
      <4>3. run'[i] = [run[i] EXCEPT ![Run!RunPath] = RunDocument("finalized")]
        BY <3>3
      <4>4. Documented(i)' = Documented(i)
        BY <2>4 DEF Finalize, Documented
      <4>5. IsWhole([run[i] EXCEPT ![Run!RunPath] = RunDocument("finalized")], Documented(i))
        BY <3>3, <4>1, <4>2, SealIsWhole, BridgeDocuments DEF Documented
      <4> QED
        BY <4>3, <4>4, <4>5
    <3> QED
      BY <2>4, <3>1, <3>2, <3>3 DEF Finalize
  <2>5. CASE Verify(i) \/ CreateOutput(i) \/ CopyFile(i)
    <3>1. pc[i] \in {"verify", "archive", "copy"} /\ run' = run /\ Documented(i)' = Documented(i)
      BY <2>5 DEF Verify, CreateOutput, CopyFile, Documented
    <3> QED
      BY <3>1 DEF RunIsWhole
  <2> QED
    BY <1>1, <2>1, <2>2, <2>3, <2>4, <2>5 DEF Step
<1>2. ASSUME NEW i \in Invocation,
             (\E p \in Pids : Start(i, p)) \/ Step(i) \/ Fault(i) \/ Kill(i)
      PROVE  RunIsWhole'
  <2>1. request' = request /\ Invocation' = Invocation
    BY <1>2, OthersStay DEF EInv, IInv, Invocation
  <2>2. ASSUME NEW j \in Invocation, j # i PROVE WholeOf(j)'
    <3>1. pc'[j] = pc[j] /\ run'[j] = run[j] /\ seen'[j] = seen[j]
      BY <1>2, <2>2, OthersStay DEF EInv, IInv
    <3>2. Documented(j)' = Documented(j)
      BY <2>1, <3>1 DEF Documented
    <3> QED
      BY <3>1, <3>2 DEF EInv, RunIsWhole
  <2>3. WholeOf(i)'
    BY <1>1, <1>2
  <2> QED
    BY <2>1, <2>2, <2>3 DEF RunIsWhole
<1>3. ASSUME (\E p \in Program : Replace(p)) \/ AllDone \/ UNCHANGED vars
      PROVE  RunIsWhole'
  BY <1>3, WorldStays DEF EInv, RunIsWhole, Documented, Invocation
<1> QED
  BY <1>2, <1>3 DEF Next

(* The two closing blocks are written when everything has been copied.     *)
LEMMA CopyEnds ==
  ASSUME NEW i \in Invocation, IsWhole(run[i], Documented(i)),
         output.files = [p \in Run!Path |-> output.files[p]],
         \A p \in Run!Path : output.files[p] \in {Absent, run[i][p]},
         ToCopy(i) = {}
  PROVE  output.files = run[i]
<1>1. run[i] = [p \in Run!Path |-> run[i][p]]
  BY DEF IsWhole
<1>2. ASSUME NEW p \in Run!Path PROVE output.files[p] = run[i][p]
  BY DEF ToCopy, Run!Present
<1> QED
  BY <1>1, <1>2

LEMMA NextKeepsCopied ==
  EInv /\ [Next]_vars => OutputIsCopied'
<1> SUFFICES ASSUME EInv, [Next]_vars PROVE OutputIsCopied'
  OBVIOUS
<1> USE DEF EInv, IInv, Typed, Tables
<1>1. ASSUME NEW i \in Invocation,
             (\E p \in Pids : Start(i, p)) \/ Step(i) \/ Fault(i) \/ Kill(i),
             UNCHANGED output
      PROVE  OutputIsCopied'
  <2>1. /\ request' = request /\ Invocation' = Invocation
        /\ \A j \in Invocation : j # i =>
             pc'[j] = pc[j] /\ run'[j] = run[j] /\ seen'[j] = seen[j]
    BY <1>1, OthersStay DEF Invocation
  <2>2. pc'[i] = "copy" => pc[i] = "copy" /\ run'[i] = run[i]
    <3>1. ASSUME NEW p \in Pids, Start(i, p) PROVE pc'[i] # "copy"
      BY <3>1 DEF Start, Goto
    <3>2. CASE \/ CheckOutput(i) \/ Look(i) \/ Accept(i) \/ Refuse(i) \/ MakeWorkRoot(i)
               \/ CreateRun(i) \/ WriteDocument(i) \/ Verify(i) \/ Discard(i) \/ Cleanup(i)
               \/ Fault(i) \/ Kill(i)
      BY <3>2 DEF CheckOutput, Look, Accept, Refuse, MakeWorkRoot, CreateRun, WriteDocument,
                  Verify, Discard, Cleanup, Fault, Kill, Leave, Goto
    <3>3. CASE Finalize(i)
      BY <3>3 DEF Finalize, Leave, Goto
    <3>4. CASE CreateOutput(i)
      <4>1. output.by = Absent \/ pc'[i] # "copy"
        BY <3>4 DEF CreateOutput, OutputExists, Leave
      <4>2. output' # output \/ pc'[i] # "copy"
        BY <3>4, <4>1, RequestsNamePrograms DEF CreateOutput, Leave, Invocation
      <4> QED
        BY <1>1, <4>2
    <3>5. CASE CopyFile(i)
      BY <3>5 DEF CopyFile
    <3> QED
      BY <1>1, <3>1, <3>2, <3>3, <3>4, <3>5 DEF Step
  <2>3. pc[i] \in {"copy", "discard", "cleanup", "ended", "killed"} =>
          /\ pc'[i] \in {"copy", "discard", "cleanup", "ended", "killed"}
          /\ seen'[i] = seen[i]
    <3>1. ASSUME NEW p \in Pids, Start(i, p) PROVE pc[i] = "new"
      BY <3>1 DEF Start
    <3>2. CASE \/ CheckOutput(i) \/ Look(i) \/ Accept(i) \/ Refuse(i) \/ MakeWorkRoot(i)
               \/ CreateRun(i) \/ WriteDocument(i) \/ Finalize(i) \/ Verify(i) \/ CreateOutput(i)
      BY <3>2 DEF CheckOutput, Look, Accept, Refuse, MakeWorkRoot, CreateRun, WriteDocument,
                  Finalize, Verify, CreateOutput
    <3>3. CASE CopyFile(i) \/ Discard(i) \/ Cleanup(i) \/ Fault(i) \/ Kill(i)
      BY <3>3 DEF CopyFile, Discard, Cleanup, Fault, Kill, Leave, Goto, HasWorkRoot
    <3> QED
      BY <1>1, <3>1, <3>2, <3>3 DEF Step
  <2>4. \A j \in Invocation : pc'[j] = "copy" => pc[j] = "copy" /\ run'[j] = run[j]
    BY <2>1, <2>2
  <2>5. OutputExists' => /\ OutputExists /\ output.by \in Invocation
                         /\ pc'[output.by] \in {"copy", "discard", "cleanup", "ended", "killed"}
                         /\ Documented(output.by)' = Documented(output.by)
    BY <1>1, <2>1, <2>3 DEF OutputIsCopied, OutputExists, Documented
  <2>6. /\ \A j \in Invocation : pc[j] = "copy" =>
              /\ output.files = [p \in Run!Path |-> output.files[p]]
              /\ \A p \in Run!Path : output.files[p] \in {Absent, run[j][p]}
        /\ output.whole =>
             /\ OutputExists /\ request[output.by] \in Bridges
             /\ IsWhole(output.files, Documented(output.by))
    BY DEF OutputIsCopied
  <2>7. output' = output /\ (OutputExists' <=> OutputExists)
    BY <1>1 DEF OutputExists
  <2> HIDE DEF IInv, Typed, Tables
  <2>8. output'.whole =>
          /\ OutputExists' /\ request'[output'.by] \in Bridges
          /\ IsWhole(output'.files, Documented(output.by)')
    BY <2>1, <2>5, <2>6, <2>7
  <2> QED
    BY <2>1, <2>4, <2>5, <2>6, <2>7, <2>8 DEF OutputIsCopied
<1>2. ASSUME NEW i \in Invocation, CreateOutput(i), output' # output PROVE OutputIsCopied'
  <2>1. /\ ~OutputExists /\ pc'[i] = "copy" /\ request' = request /\ run' = run
        /\ output' = [by |-> i, files |-> Run!Nothing, whole |-> FALSE]
        /\ \A j \in Invocation : j # i => pc'[j] = pc[j]
    BY <1>2 DEF CreateOutput, Goto
  <2>2. \A j \in Invocation : j # i => pc[j] # "copy"
    BY <2>1, RequestsNamePrograms DEF OutputHasMaker, OutputExists, Invocation
  <2>3. /\ Run!Nothing = [p \in Run!Path |-> Run!Nothing[p]]
        /\ \A p \in Run!Path : Run!Nothing[p] = Absent
    BY DEF Run!Nothing
  <2> HIDE DEF IInv, Typed, Tables
  <2> QED
    BY <2>1, <2>2, <2>3 DEF OutputIsCopied, Invocation
<1>3. ASSUME NEW i \in Invocation, CopyFile(i) PROVE OutputIsCopied'
  <2>1. /\ pc[i] = "copy" /\ output.by = i /\ IsWhole(run[i], Documented(i))
        /\ output.files = [p \in Run!Path |-> output.files[p]]
        /\ \A p \in Run!Path : output.files[p] \in {Absent, run[i][p]}
        /\ request[i] \in Bridges /\ i # Absent
    BY <1>3, RequestsNamePrograms
    DEF CopyFile, OutputHasMaker, RunIsWhole, OutputIsCopied, Placed, Invocation
  <2>2. \A j \in Invocation : j # i => pc[j] # "copy"
    BY <2>1 DEF OutputHasMaker
  <2>3. request' = request /\ run' = run /\ Documented(i)' = Documented(i)
        /\ Invocation' = Invocation
    BY <1>3 DEF CopyFile, Documented, Invocation
  <2>4. ASSUME NEW path \in ToCopy(i), output' = [output EXCEPT !.files[path] = run[i][path]],
               UNCHANGED pc
        PROVE  OutputIsCopied'
    <3>1. output'.by = i /\ output'.whole = output.whole
          /\ output'.files = [output.files EXCEPT ![path] = run[i][path]]
      BY <2>1, <2>4
    <3>2. ~output.whole
      BY <2>1 DEF OutputHasMaker
    <3>3. /\ output'.files = [p \in Run!Path |-> output'.files[p]]
          /\ \A p \in Run!Path : output'.files[p] \in {Absent, run[i][p]}
      BY <2>1, <3>1
    <3> HIDE DEF IInv, Typed, Tables
    <3> QED
      BY <2>1, <2>2, <2>3, <2>4, <3>1, <3>2, <3>3 DEF OutputIsCopied, OutputExists
  <2>5. ASSUME ToCopy(i) = {}, output' = [output EXCEPT !.whole = TRUE], Leave(i, 0)
        PROVE  OutputIsCopied'
    <3>1. output'.by = i /\ output'.files = output.files
      BY <2>1, <2>5
    <3>2. output.files = run[i]
      BY <2>1, <2>5, CopyEnds
    <3>3. /\ pc'[i] \in {"cleanup", "ended"}
          /\ \A j \in Invocation : j # i => pc'[j] = pc[j]
      BY <2>5 DEF Leave
    <3> HIDE DEF IInv, Typed, Tables
    <3> QED
      BY <2>1, <2>2, <2>3, <3>1, <3>2, <3>3 DEF OutputIsCopied, OutputExists
  <2>6. (\E path \in ToCopy(i) : output' = [output EXCEPT !.files[path] = run[i][path]] /\ UNCHANGED pc)
        \/ (ToCopy(i) = {} /\ output' = [output EXCEPT !.whole = TRUE] /\ Leave(i, 0))
    BY <1>3 DEF CopyFile
  <2> QED
    BY <2>4, <2>5, <2>6
<1>4. ASSUME NEW i \in Invocation, Discard(i), output' # output PROVE OutputIsCopied'
  <2>1. output' = NoOutput /\ pc[i] = "discard" /\ pc'[i] = "cleanup"
        /\ \A j \in Invocation : j # i => pc'[j] = pc[j]
    BY <1>4 DEF Discard, Goto
  <2>2. \A j \in Invocation : pc'[j] # "copy"
    BY <2>1 DEF OutputHasMaker
  <2>3. Invocation' = Invocation
    BY <1>4 DEF Discard, Invocation
  <2> QED
    BY <2>1, <2>2, <2>3 DEF OutputIsCopied, NoOutput, OutputExists
<1>5. ASSUME (\E p \in Program : Replace(p)) \/ AllDone \/ UNCHANGED vars
      PROVE  OutputIsCopied'
  BY <1>5, WorldStays DEF OutputIsCopied, OutputExists, Documented, Invocation
<1>6. ASSUME NEW i \in Invocation, Step(i), output' # output
      PROVE  CreateOutput(i) \/ CopyFile(i) \/ Discard(i)
  BY <1>6 DEF Step, CheckOutput, Look, Accept, Refuse, MakeWorkRoot, CreateRun, WriteDocument,
              Finalize, Verify, Cleanup
<1>7. ASSUME NEW i \in Invocation, (\E p \in Pids : Start(i, p)) \/ Fault(i) \/ Kill(i)
      PROVE  UNCHANGED output
  BY <1>7 DEF Start, Fault, Kill
<1> QED
  BY <1>1, <1>2, <1>3, <1>4, <1>5, <1>6, <1>7 DEF Next

(* A bridge returns 0 only past the closing blocks of its output, and an   *)
(* output that is whole stays.                                             *)
LEMMA NextKeepsZero == EInv /\ [Next]_vars => ZeroMeansWhole'
<1> SUFFICES ASSUME EInv, [Next]_vars PROVE ZeroMeansWhole'
  OBVIOUS
<1> DEFINE ZeroOf(i) == request[i] \in Bridges =>
      /\ pc[i] = "discard" => exit[i] = 3
      /\ pc[i] \in {"cleanup", "ended"} /\ exit[i] = 0 => output.by = i /\ output.whole
<1> USE DEF EInv, IInv, Typed, Tables
<1>1. ASSUME NEW i \in Invocation,
             (\E p \in Pids : Start(i, p)) \/ Step(i) \/ Fault(i) \/ Kill(i)
      PROVE  ZeroOf(i)'
  <2>1. ASSUME NEW p \in Pids, Start(i, p) PROVE ZeroOf(i)'
    BY <2>1 DEF Start, Goto
  <2>2. CASE \/ CheckOutput(i) \/ Refuse(i) \/ MakeWorkRoot(i) \/ WriteDocument(i)
             \/ CreateOutput(i)
    BY <2>2 DEF CheckOutput, Refuse, MakeWorkRoot, WriteDocument, CreateOutput, Leave, Goto,
                FailureCode
  <2>3. CASE Look(i) \/ Accept(i) \/ CreateRun(i) \/ Verify(i) \/ Kill(i)
    BY <2>3 DEF Look, Accept, CreateRun, Verify, Kill, Goto
  <2>4. CASE Finalize(i)
    BY <2>4 DEF Finalize, Leave, Goto, FailureCode, Bridges
  <2>5. CASE CopyFile(i)
    BY <2>5 DEF CopyFile, Leave, OutputHasMaker
  <2>6. CASE Discard(i)
    BY <2>6 DEF Discard, Goto, ZeroMeansWhole
  <2>7. CASE Cleanup(i)
    BY <2>7 DEF Cleanup, Goto, ZeroMeansWhole
  <2>8. CASE Fault(i)
    BY <2>8 DEF Fault, Leave, Goto, FailureCode, LookCode
  <2> QED
    BY <1>1, <2>1, <2>2, <2>3, <2>4, <2>5, <2>6, <2>7, <2>8 DEF Step
<1>2. ASSUME NEW i \in Invocation,
             (\E p \in Pids : Start(i, p)) \/ Step(i) \/ Fault(i) \/ Kill(i)
      PROVE  ZeroMeansWhole'
  <2>1. request' = request /\ Invocation' = Invocation
    BY <1>2, OthersStay DEF Invocation
  <2>2. ASSUME NEW j \in Invocation, j # i PROVE ZeroOf(j)'
    <3>1. pc'[j] = pc[j] /\ exit'[j] = exit[j]
      BY <1>2, <2>2, OthersStay
    <3>2. output.by = j /\ output.whole => output' = output
      <4>1. CASE CreateOutput(i)
        BY <4>1, RequestsNamePrograms DEF CreateOutput, OutputExists, Invocation
      <4>2. CASE CopyFile(i) \/ Discard(i)
        BY <2>2, <4>2 DEF CopyFile, Discard, OutputHasMaker
      <4>3. CASE UNCHANGED output
        BY <4>3
      <4> QED
        BY <1>2, <4>1, <4>2, <4>3
        DEF Step, Start, CheckOutput, Look, Accept, Refuse, MakeWorkRoot, CreateRun,
            WriteDocument, Finalize, Verify, Cleanup, Fault, Kill
    <3> QED
      BY <2>1, <3>1, <3>2 DEF ZeroMeansWhole
  <2>3. ZeroOf(i)'
    BY <1>1, <1>2
  <2> QED
    BY <2>1, <2>2, <2>3 DEF ZeroMeansWhole
<1>3. ASSUME (\E p \in Program : Replace(p)) \/ AllDone \/ UNCHANGED vars
      PROVE  ZeroMeansWhole'
  BY <1>3, WorldStays DEF ZeroMeansWhole, Invocation
<1> QED
  BY <1>2, <1>3 DEF Next

LEMMA ExportInvariantStarts == Init => EInv
<1> SUFFICES ASSUME Init PROVE EInv
  OBVIOUS
<1>1. IInv
  BY InitEstablishes
<1>2. Tables /\ RunIsWhole /\ ZeroMeansWhole
  BY DEF Init, Tables, RunIsWhole, ZeroMeansWhole, Invocation
<1>3. DirectoryIsWritten
  BY DEF Init, DirectoryIsWritten, WritesOf, Invocation
<1>4. OutputIsCopied
  BY DEF Init, OutputIsCopied, OutputExists, NoOutput, Invocation
<1> QED
  BY <1>1, <1>2, <1>3, <1>4 DEF EInv

LEMMA ExportInvariantStays == EInv /\ [Next]_vars => EInv'
<1>1. IInv /\ [Next]_vars => IInv'
  BY NextKeepsTyped, NextKeepsPlaced, NextKeepsOwnRoots, NextKeepsMakers,
     NextKeepsOutputHasMaker DEF IInv
<1>2. EInv /\ [Next]_vars => Tables' /\ DirectoryIsWritten'
  BY NextKeepsTables, NextKeepsWrites DEF EInv
<1> QED
  BY <1>1, <1>2, NextKeepsWhole, NextKeepsCopied, NextKeepsZero DEF EInv

LEMMA ExportInvariantHolds == Spec => []EInv
  BY ExportInvariantStarts, ExportInvariantStays, PTL DEF Spec

(* Whatever is replaced, fails or is killed meanwhile: an output that has  *)
(* its end marker is the sealed run of its maker, consistent and with the  *)
(* execution and the report the program writes; and a bridge that returned *)
(* 0 has left it there.                                                    *)
THEOREM ExportsAreWhole == Spec => []ExportIsWhole
<1>1. EInv => ExportIsWhole
  <2> SUFFICES ASSUME EInv PROVE ExportIsWhole
    OBVIOUS
  <2>1. ASSUME output.whole
        PROVE  LET documents == Documented(output.by)
               IN /\ Run!IsFinalized(output.files) /\ Run!Consistent(output.files)
                  /\ Run!RecordedExecutions(output.files)
                       = {documents.executions[x] : x \in DOMAIN documents.executions}
                  /\ output.files[Run!ReportPath] # Absent
    <3>1. request[output.by] \in Bridges /\ IsWhole(output.files, Documented(output.by))
      BY <2>1 DEF EInv, OutputIsCopied
    <3>2. DOMAIN Documented(output.by).executions = {1}
      BY <3>1, BridgeDocuments DEF Documented
    <3> HIDE DEF Documented
    <3>3. {Documented(output.by).executions[x] : x \in DOMAIN Documented(output.by).executions}
            = {Documented(output.by).executions[1]}
      BY <3>2
    <3> QED
      BY <3>1, <3>3 DEF IsWhole
  <2> QED
    BY <2>1 DEF EInv, ZeroMeansWhole, ExportIsWhole, Documented
<1> QED
  BY <1>1, ExportInvariantHolds, PTL

-----------------------------------------------------------------------------
(* What a sealed run says of the evidence it was made from.                *)

(* What a bridge seals has been accepted, and is in the run it seals.      *)
SealsAreSupported ==
  \A i \in Invocation :
    /\ pc[i] \in {"work_root", "create_run", "documents", "finalize"}
         => Accepts(request[i], seen[i])
    /\ request[i] \in Bridges /\ Run!IsFinalized(run[i])
         => Accepts(request[i], seen[i]) /\ HoldsEvidence(run[i], Documented(i))

(* The two looks of the SciCapsule bridge are at files it is handed.       *)
CapsuleFile == {files[1] : files \in Inputs["scicapsule"]}

OfCapsules(i) == seen[i] \in Seq(CapsuleFile)
Looked(i) == Len(seen[i])

CapsuleLooks(i) ==
  /\ OfCapsules(i)
  /\ pc[i] \in {"new", "check_output"} => Looked(i) = 0
  /\ pc[i] = "look" => Looked(i) \in {0, 1}
  /\ pc[i] \notin {"new", "check_output", "look", "ended", "killed"} => Looked(i) = 2
  /\ Run!IsFinalized(run[i]) => Looked(i) = 2

CapsulesAreSeen ==
  /\ DOMAIN disk = {request[i] : i \in Invocation}
  /\ "scicapsule" \in DOMAIN disk =>
       DOMAIN disk["scicapsule"] = {1} /\ disk["scicapsule"][1] \in CapsuleFile
  /\ \A i \in Invocation : request[i] = "scicapsule" => CapsuleLooks(i)

JInv == EInv /\ SealsAreSupported /\ CapsulesAreSeen

(* A run is not sealed before finalize.                                    *)
LEMMA OpenIsNotSealed ==
  ASSUME NEW dir,
         \/ dir = Run!Nothing
         \/ dir[Run!RunPath] \in {RunDocument("planning"), RunDocument("running")}
  PROVE  ~Run!IsFinalized(dir)
<1>1. Run!RunPath \in Run!Path
  BY DEF Run!Path, Run!Documents
<1> QED
  BY <1>1 DEF Run!Nothing, Run!IsFinalized, RunDocument

LEMMA NextKeepsSupport ==
  EInv /\ EInv' /\ SealsAreSupported /\ [Next]_vars => SealsAreSupported'
<1> SUFFICES ASSUME EInv, EInv', SealsAreSupported, [Next]_vars PROVE SealsAreSupported'
  OBVIOUS
<1> DEFINE
      Accepted(i) == pc[i] \in {"work_root", "create_run", "documents", "finalize"}
                       => Accepts(request[i], seen[i])
      Supported(i) == request[i] \in Bridges /\ Run!IsFinalized(run[i])
                        => Accepts(request[i], seen[i]) /\ HoldsEvidence(run[i], Documented(i))
<1>1. ASSUME NEW i \in Invocation,
             (\E p \in Pids : Start(i, p)) \/ Step(i) \/ Fault(i) \/ Kill(i)
      PROVE  Accepted(i)' /\ Supported(i)'
  <2>1. Accepted(i) /\ Supported(i)
    BY DEF SealsAreSupported
  <2>2. i \in Invocation'
    BY <1>1, OthersStay DEF EInv, IInv, Invocation
  <2>3. (request[i] \in Bridges /\ pc[i] \in Early \cup {"documents", "finalize"})'
          => Supported(i)'
    <3> SUFFICES ASSUME request'[i] \in Bridges, pc'[i] \in Early \cup {"documents", "finalize"}
                 PROVE  ~Run!IsFinalized(run'[i])
      BY DEF Early
    <3>1. WritesOf(i)'
      BY <2>2 DEF EInv, DirectoryIsWritten
    <3>2. \/ run'[i] = Run!Nothing
          \/ run'[i][Run!RunPath] \in {RunDocument("planning"), RunDocument("running")}
      BY <3>1 DEF WritesOf, AsWritten
    <3> QED
      BY <3>2, OpenIsNotSealed
  <2> USE DEF EInv, IInv, Typed, Tables, Early
  <2>4. ASSUME NEW p \in Pids, Start(i, p) PROVE Accepted(i)' /\ Supported(i)'
    BY <2>1, <2>4 DEF Start, Goto, Documented
  <2>5. CASE CheckOutput(i)
    BY <2>1, <2>5 DEF CheckOutput, Leave, Goto, Documented, HasWorkRoot
  <2>6. CASE Look(i)
    <3>1. pc'[i] \in {"look", "accept"}
      BY <2>6 DEF Look, Goto
    <3> QED
      BY <2>3, <3>1
  <2>7. CASE Accept(i)
    <3>1. Accepts(request[i], seen[i]) /\ UNCHANGED <<request, seen, run>>
      BY <2>7 DEF Accept
    <3> QED
      BY <2>1, <3>1 DEF Documented
  <2>8. CASE Refuse(i)
    BY <2>1, <2>8 DEF Refuse, Leave, Documented
  <2>9. CASE MakeWorkRoot(i)
    <3>1. /\ UNCHANGED <<request, seen, run>>
          /\ pc[i] = "work_root"
      BY <2>9 DEF MakeWorkRoot
    <3> QED
      BY <2>1, <3>1 DEF Documented
  <2>10. CASE CreateRun(i)
    <3>1. UNCHANGED <<request, seen>> /\ pc[i] = "create_run" /\ pc'[i] = "documents"
      BY <2>10 DEF CreateRun, Goto
    <3> QED
      BY <2>1, <2>3, <3>1
  <2>11. CASE WriteDocument(i)
    <3>1. UNCHANGED <<request, seen>> /\ pc[i] = "documents"
      BY <2>11 DEF WriteDocument
    <3>2. UNCHANGED run \/ pc'[i] \in {"documents", "finalize"}
      BY <2>11 DEF WriteDocument, Goto
    <3> QED
      BY <2>1, <2>3, <3>1, <3>2 DEF Documented
  <2>12. CASE Finalize(i)
    <3>1. UNCHANGED <<request, seen>> /\ pc[i] = "finalize"
      BY <2>12 DEF Finalize
    <3>2. CASE UNCHANGED run
      BY <2>1, <3>1, <3>2 DEF Documented
    <3>3. CASE run' = [run EXCEPT ![i][Run!RunPath] = RunDocument("finalized")]
                 /\ request[i] \in Bridges
      <4>1. AsWritten(run[i], Documented(i), 7)
        BY <3>1, <3>3 DEF DirectoryIsWritten, WritesOf
      <4>2. \A p \in Run!Path \ {Run!RunPath} : run'[i][p] = run[i][p]
        BY <3>3, <4>1 DEF AsWritten
      <4>3. \A a \in Documented(i).evidence[1].attachments : a.path = Nnis!ValidationAttachment
        BY <3>3, BridgeDocuments DEF Documented
      <4>4. {Run!ArtifactPath, "EVD-1", Nnis!ValidationAttachment} \subseteq Run!Path \ {Run!RunPath}
        BY EvidencePaths DEF Run!Path, Run!Documents, Attachments, Run!RunPath, Run!ArtifactPath,
               Nnis!ValidationAttachment
      <4>5. HoldsEvidence(run[i], Documented(i))
        BY <4>1 DEF AsWritten
      <4> HIDE DEF EInv
      <4>6. HoldsEvidence(run'[i], Documented(i))
        BY <4>2, <4>3, <4>4, <4>5 DEF HoldsEvidence
      <4>7. Documented(i)' = Documented(i)
        BY <3>1 DEF Documented
      <4> QED
        BY <2>1, <3>1, <4>6, <4>7
    <3>4. CASE request[i] \notin Bridges
      BY <2>1, <3>1, <3>4
    <3> QED
      BY <2>12, <3>2, <3>3, <3>4 DEF Finalize
  <2>13. CASE Verify(i) \/ CreateOutput(i) \/ CopyFile(i) \/ Discard(i) \/ Fault(i) \/ Kill(i)
    <3>1. UNCHANGED <<request, seen, run>>
      BY <2>13 DEF Verify, CreateOutput, CopyFile, Discard, Fault, Kill
    <3>2. pc'[i] \notin {"work_root", "create_run", "documents", "finalize"}
      BY <2>13 DEF Verify, CreateOutput, CopyFile, Discard, Fault, Kill, Leave, Goto
    <3> QED
      BY <2>1, <3>1, <3>2 DEF Documented
  <2>14. CASE Cleanup(i)
    <3>1. pc'[i] = "ended" /\ UNCHANGED <<request, seen>>
      BY <2>14 DEF Cleanup, Goto
    <3>2. run'[i] = run[i] \/ run'[i] = Run!Nothing
      BY <2>14 DEF Cleanup
    <3>3. ~Run!IsFinalized(Run!Nothing)
      BY DEF Run!IsFinalized, Run!Nothing, Run!Path, Run!Documents
    <3> QED
      BY <2>1, <3>1, <3>2, <3>3 DEF Documented
  <2> QED
    BY <1>1, <2>4, <2>5, <2>6, <2>7, <2>8, <2>9, <2>10, <2>11, <2>12, <2>13, <2>14 DEF Step
<1>2. ASSUME NEW i \in Invocation,
             (\E p \in Pids : Start(i, p)) \/ Step(i) \/ Fault(i) \/ Kill(i)
      PROVE  SealsAreSupported'
  <2>1. request' = request /\ Invocation' = Invocation
    BY <1>2, OthersStay DEF EInv, IInv, Invocation
  <2>2. ASSUME NEW j \in Invocation, j # i PROVE Accepted(j)' /\ Supported(j)'
    <3>1. pc'[j] = pc[j] /\ run'[j] = run[j] /\ seen'[j] = seen[j]
      BY <1>2, <2>2, OthersStay DEF EInv, IInv
    <3>2. Documented(j)' = Documented(j)
      BY <2>1, <3>1 DEF Documented
    <3> QED
      BY <2>1, <3>1, <3>2 DEF SealsAreSupported
  <2>3. Accepted(i)' /\ Supported(i)'
    BY <1>1, <1>2
  <2> QED
    BY <2>1, <2>2, <2>3 DEF SealsAreSupported
<1>3. ASSUME (\E p \in Program : Replace(p)) \/ AllDone \/ UNCHANGED vars
      PROVE  SealsAreSupported'
  BY <1>3, WorldStays DEF SealsAreSupported, Documented, Invocation
<1> QED
  BY <1>2, <1>3 DEF Next

(* A bridge looks at the file it is handed, whatever that is by then.      *)
LEMMA NextKeepsCapsules ==
  EInv /\ EInv' /\ CapsulesAreSeen /\ [Next]_vars => CapsulesAreSeen'
<1> SUFFICES ASSUME EInv, EInv', CapsulesAreSeen, [Next]_vars PROVE CapsulesAreSeen'
  OBVIOUS
<1> DEFINE Handed == /\ DOMAIN disk = {request[i] : i \in Invocation}
                     /\ "scicapsule" \in DOMAIN disk =>
                          DOMAIN disk["scicapsule"] = {1} /\ disk["scicapsule"][1] \in CapsuleFile
<1>1. ASSUME NEW i \in Invocation,
             (\E p \in Pids : Start(i, p)) \/ Step(i) \/ Fault(i) \/ Kill(i)
      PROVE  UNCHANGED disk
  BY <1>1 DEF Step, Start, CheckOutput, Look, Accept, Refuse, MakeWorkRoot, CreateRun,
              WriteDocument, Finalize, Verify, CreateOutput, CopyFile, Discard, Cleanup,
              Fault, Kill
<1>2. ASSUME NEW i \in Invocation,
             (\E p \in Pids : Start(i, p)) \/ Step(i) \/ Fault(i) \/ Kill(i),
             request[i] = "scicapsule"
      PROVE  CapsuleLooks(i)'
  <2>1. CapsuleLooks(i) /\ request[i] \in Bridges
    BY <1>2 DEF CapsulesAreSeen, Bridges
  <2>2. i \in Invocation' /\ request'[i] = "scicapsule"
    BY <1>2, OthersStay DEF EInv, IInv, Invocation
  <2>3. pc'[i] \in Early \cup {"documents", "finalize"} => ~Run!IsFinalized(run'[i])
    <3> SUFFICES ASSUME pc'[i] \in Early \cup {"documents", "finalize"}
                 PROVE  ~Run!IsFinalized(run'[i])
      OBVIOUS
    <3>1. WritesOf(i)'
      BY <2>1, <2>2 DEF EInv, DirectoryIsWritten, Bridges
    <3>2. \/ run'[i] = Run!Nothing
          \/ run'[i][Run!RunPath] \in {RunDocument("planning"), RunDocument("running")}
      BY <3>1 DEF WritesOf, AsWritten
    <3> QED
      BY <3>2, OpenIsNotSealed
  <2>4. CASE Look(i)
    <3>1. OfCapsules(i) /\ Looked(i) \in {0, 1}
      BY <2>1, <2>4 DEF Look, CapsuleLooks
    <3>2. LooksOf(request[i]) = <<1, 1>>
      BY <1>2 DEF LooksOf, Capsule!Looks
    <3>3. disk[request[i]][LooksOf(request[i])[Looked(i) + 1]] \in CapsuleFile
      <4>1. "scicapsule" \in DOMAIN disk
        BY <1>2 DEF CapsulesAreSeen
      <4>2. disk["scicapsule"][1] \in CapsuleFile
        BY <4>1 DEF CapsulesAreSeen
      <4>3. CASE Looked(i) = 0
        BY <1>2, <3>2, <4>2, <4>3
      <4>4. CASE Looked(i) = 1
        BY <1>2, <3>2, <4>2, <4>4
      <4> QED
        BY <3>1, <4>3, <4>4
    <3>4. seen'[i] = Append(seen[i], disk[request[i]][LooksOf(request[i])[Looked(i) + 1]])
      BY <2>4 DEF Look, Looked, EInv, Tables
    <3>5. OfCapsules(i)' /\ Looked(i)' = Looked(i) + 1
      BY <3>1, <3>3, <3>4, AppendProperties DEF OfCapsules, Looked
    <3>6. pc'[i] = IF Looked(i) + 1 = Len(LooksOf(request[i])) THEN "accept" ELSE "look"
      BY <2>4 DEF Look, Goto, Looked, EInv, IInv, Typed
    <3>7. Len(LooksOf(request[i])) = 2
      BY <3>2
    <3> QED
      BY <2>3, <3>1, <3>5, <3>6, <3>7 DEF CapsuleLooks, Early
  <2>5. CASE ~Look(i)
    <3>1. seen' = seen
      BY <1>2, <2>5
      DEF Step, Start, CheckOutput, Accept, Refuse, MakeWorkRoot, CreateRun, WriteDocument,
          Finalize, Verify, CreateOutput, CopyFile, Discard, Cleanup, Fault, Kill
    <3>2. (OfCapsules(i)' <=> OfCapsules(i)) /\ Looked(i)' = Looked(i)
      BY <3>1 DEF OfCapsules, Looked
    <3> USE DEF EInv, IInv, Typed, Tables, CapsuleLooks
    <3>3. ASSUME NEW p \in Pids, Start(i, p) PROVE CapsuleLooks(i)'
      BY <2>1, <3>2, <3>3 DEF Start, Goto, Bridges
    <3>4. CASE CheckOutput(i)
      BY <2>1, <3>2, <3>4 DEF CheckOutput, Leave, Goto, HasWorkRoot
    <3>5. CASE Accept(i) \/ Refuse(i)
      BY <2>1, <3>2, <3>5 DEF Accept, Refuse, Leave, Goto
    <3>6. CASE MakeWorkRoot(i) \/ CreateRun(i) \/ WriteDocument(i) \/ Finalize(i) \/ Cleanup(i)
      <4>1. pc[i] \in {"work_root", "create_run", "documents", "finalize", "cleanup"}
        BY <3>6 DEF MakeWorkRoot, CreateRun, WriteDocument, Finalize, Cleanup
      <4>2. pc'[i] \notin {"new", "check_output", "look"}
        BY <3>6 DEF MakeWorkRoot, CreateRun, WriteDocument, Finalize, Cleanup, Leave, Goto
      <4> QED
        BY <2>1, <3>2, <4>1, <4>2
    <3>7. CASE Verify(i) \/ CreateOutput(i) \/ CopyFile(i) \/ Discard(i)
      BY <2>1, <3>2, <3>7 DEF Verify, CreateOutput, CopyFile, Discard, Leave, Goto
    <3>8. CASE Fault(i)
      BY <2>1, <3>2, <3>8 DEF Fault, Leave, Goto, HasWorkRoot, Fallible
    <3>9. CASE Kill(i)
      BY <2>1, <3>2, <3>9 DEF Kill, Goto
    <3> QED
      BY <1>2, <2>5, <3>3, <3>4, <3>5, <3>6, <3>7, <3>8, <3>9 DEF Step
  <2> QED
    BY <2>4, <2>5
<1>3. ASSUME NEW i \in Invocation,
             (\E p \in Pids : Start(i, p)) \/ Step(i) \/ Fault(i) \/ Kill(i)
      PROVE  CapsulesAreSeen'
  <2>1. request' = request /\ Invocation' = Invocation /\ disk' = disk
    BY <1>1, <1>3, OthersStay DEF EInv, IInv, Invocation
  <2>2. ASSUME NEW j \in Invocation, j # i, request[j] = "scicapsule" PROVE CapsuleLooks(j)'
    <3>1. pc'[j] = pc[j] /\ run'[j] = run[j] /\ seen'[j] = seen[j]
      BY <1>3, <2>2, OthersStay DEF EInv, IInv
    <3> QED
      BY <2>2, <3>1 DEF CapsulesAreSeen, CapsuleLooks, OfCapsules, Looked
  <2>3. request[i] = "scicapsule" => CapsuleLooks(i)'
    BY <1>2, <1>3, <2>1
  <2>4. Handed'
    BY <2>1 DEF CapsulesAreSeen
  <2> QED
    BY <2>1, <2>2, <2>3, <2>4 DEF CapsulesAreSeen
<1>4. ASSUME NEW p \in Program, Replace(p) PROVE CapsulesAreSeen'
  <2>1. PICK files \in Inputs[p] : \E slot \in DOMAIN files :
          disk' = [disk EXCEPT ![p][slot] = files[slot]]
    BY <1>4 DEF Replace
  <2>2. PICK slot \in DOMAIN files : disk' = [disk EXCEPT ![p][slot] = files[slot]]
    BY <2>1
  <2>3. DOMAIN disk' = DOMAIN disk
    BY <2>2
  <2>4. "scicapsule" \in DOMAIN disk =>
          DOMAIN disk'["scicapsule"] = {1} /\ disk'["scicapsule"][1] \in CapsuleFile
    <3>1. CASE p # "scicapsule"
      BY <2>2, <3>1 DEF CapsulesAreSeen
    <3>2. CASE p = "scicapsule"
      <4>1. slot = 1 /\ files[1] \in CapsuleFile
        BY <2>1, <2>2, <3>2, CapsulesAreDecoded DEF CapsuleFile
      <4> QED
        BY <2>2, <3>2, <4>1 DEF CapsulesAreSeen
    <3> QED
      BY <3>1, <3>2
  <2> QED
    BY <1>4, <2>3, <2>4, WorldStays
    DEF CapsulesAreSeen, CapsuleLooks, OfCapsules, Looked, Invocation
<1>5. ASSUME AllDone \/ UNCHANGED vars PROVE CapsulesAreSeen'
  BY <1>5 DEF AllDone, vars, CapsulesAreSeen, CapsuleLooks, OfCapsules, Looked, Invocation
<1> QED
  BY <1>3, <1>4, <1>5 DEF Next

LEMMA SupportHolds == Spec => []JInv
<1>1. Init => JInv
  <2> SUFFICES ASSUME Init PROVE JInv
    OBVIOUS
  <2>1. ASSUME NEW i \in Invocation PROVE ~Run!IsFinalized(run[i])
    BY <2>1, OpenIsNotSealed DEF Init, Invocation
  <2>2. SealsAreSupported
    BY <2>1 DEF Init, SealsAreSupported, Invocation
  <2>3. CapsulesAreSeen
    <3>1. DOMAIN disk = {request[i] : i \in Invocation} /\ \A p \in DOMAIN disk : disk[p] \in Inputs[p]
      BY DEF Init, Invocation
    <3>2. \A i \in Invocation : seen[i] = <<>> /\ pc[i] = "new"
      BY DEF Init, Invocation
    <3>3. "scicapsule" \in DOMAIN disk =>
            DOMAIN disk["scicapsule"] = {1} /\ disk["scicapsule"][1] \in CapsuleFile
      BY <3>1, CapsulesAreDecoded DEF CapsuleFile
    <3>4. \A i \in Invocation : OfCapsules(i) /\ Looked(i) = 0
      BY <3>2, EmptySeq DEF OfCapsules, Looked
    <3> QED
      BY <2>1, <3>1, <3>2, <3>3, <3>4 DEF CapsulesAreSeen, CapsuleLooks
  <2> QED
    BY <2>2, <2>3, ExportInvariantStarts DEF JInv
<1>2. JInv /\ [Next]_vars => JInv'
  BY ExportInvariantStays, NextKeepsSupport, NextKeepsCapsules DEF JInv
<1> QED
  BY <1>1, <1>2, PTL DEF Spec

(* The bytes of the sealed validation are the ones that were validated.    *)
LEMMA NnisSupport ==
  ASSUME NEW i \in Invocation, request[i] = "nnis", Accepts(request[i], seen[i]),
         HoldsEvidence(run[i], Documented(i))
  PROVE  NnisIsJustified(i)
<1> DEFINE s == seen[i]
           VA == Nnis!ValidationAttachment
<1>1. Nnis!Accepts(s)
  BY DEF Accepts
<1>2. Documented(i) = Nnis!OneClaimDocuments(Nnis!Check, Nnis!Claim, Nnis!Digest(s[2]),
                        Nnis!Evidence(s), [p \in {VA} |-> s[5].bytes])
  BY DEF Documented, DocumentsOf, Nnis!Documents
<1>3. /\ Documented(i).artifact = [content_digest |-> Nnis!Digest(s[2])]
      /\ Documented(i).evidence[1] = Nnis!Evidence(s)
      /\ Documented(i).handed[VA] = s[5].bytes
  BY <1>2 DEF Nnis!OneClaimDocuments
<1>4. [path |-> VA, payload |-> s[4].bytes] \in Nnis!Evidence(s).attachments
  BY DEF Nnis!Evidence
<1>5. run[i][VA] = [bytes |-> s[5].bytes]
  BY <1>3, <1>4 DEF HoldsEvidence
<1>6. run[i][Run!ArtifactPath].content_digest = Nnis!Digest(s[2])
  BY <1>3 DEF HoldsEvidence
<1>7. run[i]["EVD-1"].inputs = <<Nnis!Digest(s[2]), Nnis!Digest(s[4])>>
  BY <1>3 DEF HoldsEvidence, Nnis!Evidence
<1>8. s[4].bytes = s[5].bytes
  BY <1>1 DEF Nnis!Accepts, Nnis!Digest
<1>9. /\ Decode[s[4].bytes].source = Nnis!Digest(s[2])
      /\ Decode[s[4].bytes].commit = Decode[s[2].bytes].commit
  BY <1>1 DEF Nnis!Accepts, Nnis!Ingests, Nnis!Binds, Nnis!Doc
<1> HIDE DEF s
<1>10. InputOf(i, 1) = Decode[s[2].bytes]
  BY <1>7 DEF InputOf, Nnis!Digest
<1> QED
  BY <1>5, <1>6, <1>7, <1>8, <1>9, <1>10 DEF NnisIsJustified, Nnis!Digest

(* A list without repetitions has as many different members as members.    *)
LEMMA DistinctAreCounted ==
  ASSUME NEW S, NEW list \in Seq(S), Capsule!Distinct(list)
  PROVE  Cardinality({list[k] : k \in DOMAIN list}) = Len(list)
<1>1. Len(list) \in Nat /\ DOMAIN list = 1..Len(list) /\ list \in [1..Len(list) -> S]
  BY LenProperties
<1> DEFINE n == Len(list)
           T == {list[k] : k \in 1..n}
<1>2. list \in Bijection(1..n, T)
  <2>1. list \in [1..n -> T]
    BY <1>1
  <2>2. \A a, b \in 1..n : list[a] = list[b] => a = b
    BY <1>1 DEF Capsule!Distinct
  <2>3. \A t \in T : \E a \in 1..n : list[a] = t
    OBVIOUS
  <2> HIDE DEF n, T
  <2> QED
    BY <2>1, <2>2, <2>3, Fun_IsBij
<1>3. ExistsBijection(1..n, T)
  BY <1>2 DEF ExistsBijection
<1>4. Cardinality(T) = n
  <2> HIDE DEF T
  <2> QED
    BY <1>1, <1>3, FS_CountingElements
<1> QED
  BY <1>1, <1>4

LEMMA CapsuleSupport ==
  ASSUME CapsulesAreSeen, NEW i \in Invocation, request[i] = "scicapsule",
         Run!IsFinalized(run[i]), Accepts(request[i], seen[i]),
         HoldsEvidence(run[i], Documented(i))
  PROVE  CapsuleIsJustified(i)
<1> DEFINE s == seen[i]
           result == Decode[s[2].bytes]
<1>1. Capsule!Accepts(s)
  BY DEF Accepts
<1>2. Documented(i) = Capsule!OneClaimDocuments(Capsule!Check, Capsule!Claim,
                        Capsule!Digest(s[2]), Capsule!Evidence(s), Capsule!NoPayload)
  BY DEF Documented, DocumentsOf, Capsule!Documents
<1>3. Documented(i).evidence[1] = Capsule!Evidence(s)
  BY <1>2 DEF Capsule!OneClaimDocuments
<1>4. /\ run[i]["EVD-1"].inputs = <<Capsule!Digest(s[2])>>
      /\ run[i]["EVD-1"].facts.required_signatures = result.required_signatures
  BY <1>3 DEF HoldsEvidence, Capsule!Evidence, Capsule!Doc
<1>5. InputOf(i, 1) = result
  BY <1>4 DEF InputOf, Capsule!Digest
<1>6. s[2] \in CapsuleFile
  <2>1. s \in Seq(CapsuleFile) /\ Len(s) = 2
    BY DEF CapsulesAreSeen, CapsuleLooks, OfCapsules, Looked
  <2> QED
    BY <2>1, ElementOfSeq
<1>7. result.json /\ result.envelope
  BY <1>1 DEF Capsule!Accepts, Capsule!Conforms, Capsule!Doc
<1>8. /\ result.required_signatures \in Nat
      /\ result.matched_signers \in Seq(STRING) /\ result.signatures \in Seq(STRING)
  BY <1>6, <1>7, CapsulesAreDecoded DEF CapsuleFile
<1>9. /\ Capsule!Distinct(result.matched_signers) /\ Capsule!Distinct(result.signatures)
      /\ result.required_signatures > 0
      /\ result.required_signatures <= Len(result.matched_signers)
      /\ result.required_signatures <= Len(result.signatures)
  BY <1>1 DEF Capsule!Accepts, Capsule!Conforms, Capsule!Doc, Capsule!IsListWithin,
              Capsule!ThresholdIsMet
<1> HIDE DEF result
<1>10. /\ Cardinality({result.matched_signers[k] : k \in DOMAIN result.matched_signers})
            = Len(result.matched_signers)
       /\ Cardinality({result.signatures[k] : k \in DOMAIN result.signatures})
            = Len(result.signatures)
  BY <1>8, <1>9, DistinctAreCounted
<1>11. Len(result.matched_signers) \in Nat /\ Len(result.signatures) \in Nat
  BY <1>8, LenProperties
<1>12. FactsOf(i).required_signatures = result.required_signatures
  BY <1>4 DEF FactsOf
<1> DEFINE signers == Cardinality({result.matched_signers[k] : k \in DOMAIN result.matched_signers})
           signatures == Cardinality({result.signatures[k] : k \in DOMAIN result.signatures})
<1>13. FactsOf(i).required_signatures \in 1..signers
  <2> HIDE DEF signers
  <2> DEFINE r == result.required_signatures
             l == Len(result.matched_signers)
  <2>1. r \in Nat /\ l \in Nat /\ r > 0 /\ r <= l /\ signers = l
    BY <1>8, <1>9, <1>10, <1>11 DEF signers
  <2> HIDE DEF r, l
  <2>2. r \in 1..signers
    BY <2>1
  <2> QED
    BY <2>2, <1>12 DEF r
<1>14. FactsOf(i).required_signatures <= signatures
  BY <1>9, <1>10, <1>12
<1> QED
  BY <1>5, <1>13, <1>14 DEF CapsuleIsJustified

(* The flags of the cycles agree with their events, so counting the ones   *)
(* counts the others.                                                      *)
LEMMA ElasticSupport ==
  ASSUME NEW i \in Invocation, request[i] = "elastic", Accepts(request[i], seen[i]),
         HoldsEvidence(run[i], Documented(i))
  PROVE  ElasticIsJustified(i)
<1> DEFINE s == seen[i]
           result == Decode[s[2].bytes]
           Executed(kind) == {c \in Elastic!Cycles(result) :
             \E k \in DOMAIN Elastic!CycleAt(result, c).events :
               Elastic!CycleAt(result, c).events[k] = kind}
<1>1. Elastic!Conforms(result)
  BY DEF Accepts, Elastic!Accepts, Elastic!Doc
<1>2. Documented(i) = Elastic!OneClaimDocuments(Elastic!Check, Elastic!Claim,
                        Elastic!Digest(s[2]), Elastic!Evidence(s), Elastic!NoPayload)
  BY DEF Documented, DocumentsOf, Elastic!Documents
<1>3. Documented(i).evidence[1] = Elastic!Evidence(s)
  BY <1>2 DEF Elastic!OneClaimDocuments
<1>4. /\ run[i]["EVD-1"].inputs = <<Elastic!Digest(s[2])>>
      /\ FactsOf(i) = Elastic!Counts(result)
  BY <1>3 DEF HoldsEvidence, Elastic!Evidence, Elastic!Doc, FactsOf
<1>5. InputOf(i, 1) = result
  BY <1>4 DEF InputOf, Elastic!Digest
<1> HIDE DEF result
<1>6. ASSUME NEW c \in Elastic!Cycles(result)
      PROVE  Elastic!CycleIsCoherent(Elastic!CycleAt(result, c))
  BY <1>1, <1>6 DEF Elastic!Conforms, Elastic!Cycles, Elastic!CycleAt
<1>7. {c \in Elastic!Cycles(result) : Elastic!CycleAt(result, c).committed}
        = Executed("CommitExecuted")
  BY <1>6 DEF Elastic!CycleIsCoherent, Elastic!EventKindPresent
<1>8. {c \in Elastic!Cycles(result) : Elastic!CycleAt(result, c).rolled_back}
        = Executed("RollbackExecuted")
  BY <1>6 DEF Elastic!CycleIsCoherent, Elastic!EventKindPresent
<1>9. Executed("CommitExecuted") \cap Executed("RollbackExecuted") = {}
  BY <1>6 DEF Elastic!CycleIsCoherent, Elastic!EventKindPresent
<1>10. /\ FactsOf(i).commits = Cardinality(Executed("CommitExecuted"))
       /\ FactsOf(i).rollbacks = Cardinality(Executed("RollbackExecuted"))
  <2> DEFINE committed == {c \in Elastic!Cycles(result) : Elastic!CycleAt(result, c).committed}
             rolled_back == {c \in Elastic!Cycles(result) : Elastic!CycleAt(result, c).rolled_back}
  <2>1. Elastic!Counts(result)
          = [commits |-> Cardinality(committed), rollbacks |-> Cardinality(rolled_back)]
    BY DEF Elastic!Counts, Elastic!Cardinality, Cardinality
  <2>2. committed = Executed("CommitExecuted") /\ rolled_back = Executed("RollbackExecuted")
    BY <1>7, <1>8, Zenon
  <2> HIDE DEF committed, rolled_back, Executed
  <2> QED
    BY <1>4, <2>1, <2>2
<1> QED
  BY <1>5, <1>9, <1>10 DEF ElasticIsJustified

LEMMA ForgeSupport ==
  ASSUME NEW i \in Invocation, request[i] = "forge_soup", Accepts(request[i], seen[i]),
         HoldsEvidence(run[i], Documented(i))
  PROVE  ForgeIsJustified(i)
<1> DEFINE s == seen[i]
           report == Decode[s[5].bytes]
           records == Forge!ReadArchive(Decode[s[6].bytes].entries).records
<1>1. /\ Forge!ReportHolds(report)
      /\ Forge!PartsAgree(report, records)
  BY DEF Accepts, Forge!Accepts, Forge!Doc, Forge!Conforms
<1>2. Documented(i) = Forge!OneClaimDocuments(Forge!Check, Forge!Claim,
                        Forge!Digest(s[7]), Forge!Evidence(s), Forge!NoPayload)
  BY DEF Documented, DocumentsOf, Forge!Documents
<1>3. Documented(i).evidence[1] = Forge!Evidence(s)
  BY <1>2 DEF Forge!OneClaimDocuments
<1>4. /\ run[i]["EVD-1"].inputs = <<Forge!Digest(s[5]), Forge!Digest(s[7])>>
      /\ FactsOf(i).records = records
  BY <1>3, SMTT(30) DEF HoldsEvidence, Forge!Evidence, Forge!Doc, FactsOf
<1>5. InputOf(i, 1) = report
  BY <1>4 DEF InputOf, Forge!Digest
<1> HIDE DEF report, records
<1>6. ASSUME NEW f \in DOMAIN report.front
      PROVE  \E r \in DOMAIN records :
               /\ records[r].phase = "measure"
               /\ records[r].candidate = report.front[f].id
               /\ records[r].values = report.front[f].values
               /\ \A o \in DOMAIN report.front[f].score.objectives :
                    report.front[f].score.objectives[o].name \in records[r].metrics
  <2> DEFINE candidate == report.front[f]
  <2>1. PICK r \in DOMAIN records :
          records[r].phase = "measure" /\ records[r].candidate = candidate.id
    <3>1. candidate.id \in Forge!FrontIds(report)
      BY DEF Forge!FrontIds
    <3>2. candidate.id \in Forge!Measured(records)
      BY <1>1, <3>1 DEF Forge!PartsAgree
    <3> QED
      BY <3>2 DEF Forge!Measured
  <2>2. candidate \in Forge!Candidates(report)
    BY DEF Forge!Candidates
  <2>3. ASSUME NEW c \in Forge!Candidates(report), c.id = candidate.id
        PROVE  c.values = candidate.values
    <3>1. CASE c \in Forge!Best(report)
      BY <1>1, <2>3, <3>1 DEF Forge!ReportHolds
    <3>2. CASE c \notin Forge!Best(report)
      <4>1. PICK g \in DOMAIN report.front : c = report.front[g]
        BY <2>3, <3>2 DEF Forge!Candidates
      <4>2. Forge!Distinct([k \in DOMAIN report.front |-> report.front[k].id])
        BY <1>1 DEF Forge!ReportHolds
      <4>3. g = f
        BY <2>3, <4>1, <4>2 DEF Forge!Distinct
      <4> QED
        BY <4>1, <4>3
    <3> QED
      BY <3>1, <3>2
  <2>4. records[r].values = candidate.values
    <3> DEFINE chosen == CHOOSE c \in Forge!Candidates(report) : c.id = candidate.id
    <3>1. chosen \in Forge!Candidates(report) /\ chosen.id = candidate.id
      BY <2>2
    <3>2. /\ candidate.id \in DOMAIN Forge!Recipes(report)
          /\ Forge!Recipes(report)[candidate.id] = chosen.values
      BY <2>2 DEF Forge!Recipes
    <3>3. records[r].values = Forge!Recipes(report)[candidate.id]
      BY <1>1, <2>1, <3>2 DEF Forge!PartsAgree, Forge!RecipesAgree
    <3> QED
      BY <2>3, <3>1, <3>2, <3>3
  <2>5. ASSUME NEW o \in DOMAIN candidate.score.objectives
        PROVE  candidate.score.objectives[o].name \in records[r].metrics
    <3>1. candidate.score \in Forge!Scores(report)
      BY <2>2 DEF Forge!Scores
    <3>2. candidate.score.objectives[o].name \in Forge!ObjectiveNames(report)
      BY <3>1 DEF Forge!ObjectiveNames
    <3>3. records[r].metrics = Forge!ObjectiveNames(report)
      BY <1>1, <2>1, <3>2 DEF Forge!PartsAgree
    <3> QED
      BY <3>2, <3>3
  <2> QED
    BY <2>1, <2>4, <2>5
<1>7. \A r, q \in DOMAIN records :
        <<records[r].candidate, records[r].seed>> = <<records[q].candidate, records[q].seed>>
          => records[r].config = records[q].config
  BY <1>1 DEF Forge!PartsAgree, Forge!BindingsAgree, Forge!Binding
<1>8. s[6] = s[7] => ForgeRecords(InputOf(i, 2)) = records
  BY <1>4 DEF InputOf, Forge!Digest, ForgeRecords, records
<1> QED
  BY <1>4, <1>5, <1>6, <1>7, <1>8 DEF ForgeIsJustified

(* Whatever the files hold and whenever they are replaced: a bridge seals  *)
(* a dossier only if the evidence its adapter names is there; of the       *)
(* Forge/SOUP bundle the sealed facts were validated, and the sealed       *)
(* digest is that of the bundle they are from if the two reads agree.      *)
THEOREM SealsAreJustified == Spec => []SealedIsJustified
<1>1. JInv => SealedIsJustified
  <2> SUFFICES ASSUME JInv PROVE SealedIsJustified
    OBVIOUS
  <2>1. ASSUME NEW program \in Bridges, NEW i \in SealedBy(program)
        PROVE  /\ i \in Invocation /\ request[i] = program /\ Run!IsFinalized(run[i])
               /\ Accepts(request[i], seen[i]) /\ HoldsEvidence(run[i], Documented(i))
    BY DEF SealedBy, JInv, SealsAreSupported
  <2>2. \A i \in SealedBy("nnis") : NnisIsJustified(i)
    BY <2>1, NnisSupport DEF Bridges
  <2>3. \A i \in SealedBy("scicapsule") : CapsuleIsJustified(i)
    BY <2>1, CapsuleSupport DEF Bridges, JInv
  <2>4. \A i \in SealedBy("elastic") : ElasticIsJustified(i)
    BY <2>1, ElasticSupport DEF Bridges
  <2>5. \A i \in SealedBy("forge_soup") : ForgeIsJustified(i)
    BY <2>1, ForgeSupport DEF Bridges
  <2> QED
    BY <2>2, <2>3, <2>4, <2>5 DEF SealedIsJustified
<1> QED
  BY <1>1, SupportHolds, PTL

-----------------------------------------------------------------------------
(* What `ingest scirust` seals.  Its directory is followed through the     *)
(* calls too, as far as the executions and the evaluations go.             *)

SummaryFile == {files[1] : files \in Inputs["scirust"]}

HandedSummary(s) == s[1] \in SummaryFile

(* The executions that the first n calls have appended.                    *)
AppendedBy(documents, n) ==
  {documents.executions[x] : x \in {y \in DOMAIN documents.executions :
                                      Len(Planned) + Len(documents.evidence) + y <= n}}

(* The run directory of an import after n calls.                           *)
AsImported(dir, documents, n) ==
  /\ dir = [p \in Run!Path |-> dir[p]]
  /\ dir[Run!RunPath] \in {RunDocument("planning"), RunDocument("running")}
  /\ n \in 0..CallCount(documents)
  /\ Run!RecordedExecutions(dir) = AppendedBy(documents, n)
  /\ n = CallCount(documents) =>
       dir[Run!ReportPath] = [evaluations |-> documents.evaluations]

ImportOf(i) ==
  /\ pc[i] \in {"new", "look"} => seen[i] = <<>>
  /\ pc[i] \in {"accept", "create_run", "documents", "finalize"} => HandedSummary(seen[i])
  /\ pc[i] \in Early => run[i] = Run!Nothing /\ calls[i] = 0
  /\ pc[i] \in {"documents", "finalize"} => AsImported(run[i], Documented(i), calls[i])
  /\ pc[i] = "documents" => calls[i] # CallCount(Documented(i))
  /\ pc[i] = "finalize" => calls[i] = CallCount(Documented(i))
  /\ Run!IsFinalized(run[i]) =>
       /\ pc[i] = "ended" /\ HandedSummary(seen[i]) /\ Accepts(request[i], seen[i])
       /\ \A x \in DOMAIN Documented(i).executions :
            Documented(i).executions[x] \in Run!RecordedExecutions(run[i])
       /\ exit[i] = Scirust!ExitCode(Documented(i).evaluations)

ImportsAreFollowed ==
  /\ "scirust" \in DOMAIN disk =>
       DOMAIN disk["scirust"] = {1} /\ disk["scirust"][1] \in SummaryFile
  /\ \A i \in Invocation : request[i] = "scirust" => ImportOf(i)

HInv == JInv /\ ImportsAreFollowed

(* Of a finite set of numbers every position is taken.                     *)
LEMMA EveryPlaceIsTaken ==
  ASSUME NEW top \in Nat, NEW S \in SUBSET (1..top), NEW place \in 1..Cardinality(S)
  PROVE  \E l \in S : Cardinality({k \in S : k < l}) = place - 1
<1> DEFINE Below(l) == {k \in S : k < l}
           c == Cardinality(S)
           f == [l \in S |-> Cardinality(Below(l))]
<1>1. IsFiniteSet(S) /\ c \in Nat
  <2>1. IsFiniteSet(1..top)
    <3>1. 1 \in Int /\ top \in Int
      OBVIOUS
    <3> QED
      BY <3>1, FS_Interval
  <2> QED
    BY <2>1, FS_Subset, FS_CardinalityType
<1>2. ASSUME NEW l \in S PROVE IsFiniteSet(Below(l)) /\ Cardinality(Below(l)) \in 0..(c - 1)
  <2>1. IsFiniteSet(S \ {l}) /\ Cardinality(S \ {l}) = c - 1
    BY <1>1, FS_RemoveElement
  <2>2. Below(l) \in SUBSET (S \ {l})
    OBVIOUS
  <2>3. IsFiniteSet(Below(l)) /\ Cardinality(Below(l)) <= c - 1
    BY <2>1, <2>2, FS_Subset
  <2> QED
    BY <1>1, <2>3, FS_CardinalityType
<1>3. ASSUME NEW l \in S, NEW m \in S, l < m PROVE f[l] # f[m]
  <2> l \in Nat /\ m \in Nat /\ \A k \in S : k \in Nat
    OBVIOUS
  <2>1. Below(l) \in SUBSET Below(m) /\ l \in Below(m) /\ l \notin Below(l)
    <3>1. \A k \in Below(l) : k \in Below(m)
      BY <1>3
    <3>2. l \in Below(m) /\ l \notin Below(l)
      BY <1>3
    <3> HIDE DEF Below
    <3> QED
      BY <3>1, <3>2
  <2>2. Below(l) # Below(m)
    BY <2>1
  <2> HIDE DEF Below
  <2>3. Cardinality(Below(l)) # Cardinality(Below(m))
    BY <1>2, <2>1, <2>2, FS_Subset
  <2> QED
    BY <2>3
<1>4. f \in [S -> 0..(c - 1)]
  BY <1>2
<1>5. f \in Injection(S, 0..(c - 1))
  <2>1. ASSUME NEW l \in S, NEW m \in S, f[l] = f[m] PROVE l = m
    <3>1. l < m \/ m < l \/ l = m
      OBVIOUS
    <3> QED
      BY <1>3, <2>1, <3>1
  <2> HIDE DEF f
  <2> QED
    BY <1>4, <2>1 DEF Injection, IsInjective
<1>6. IsFiniteSet(0..(c - 1)) /\ Cardinality(0..(c - 1)) = c
  <2> HIDE DEF c
  <2>1. 0 \in Int /\ c - 1 \in Int /\ c \in Nat
    BY <1>1
  <2>2. /\ IsFiniteSet(0..(c - 1))
        /\ Cardinality(0..(c - 1)) = IF 0 > c - 1 THEN 0 ELSE (c - 1) - 0 + 1
    BY <2>1, FS_Interval
  <2> QED
    BY <2>1, <2>2
<1> HIDE DEF f
<1>7. f \in Surjection(S, 0..(c - 1))
  BY <1>5, <1>6, FS_Injection
<1>8. place - 1 \in 0..(c - 1)
  BY <1>1
<1>9. PICK l \in S : f[l] = place - 1
  BY <1>7, <1>8 DEF Surjection
<1> QED
  BY <1>9 DEF f

(* The gates are a finite list, and each is that of one of the lines.      *)
LEMMA GatesAreListed ==
  ASSUME NEW lines, DOMAIN lines = 1..Len(lines), Len(lines) \in Nat
  PROVE  LET gates == Scirust!Gates(lines)
         IN \E n \in Nat :
              /\ gates \in [1..n -> {lines[l].gate : l \in Scirust!GateLines(lines)}]
              /\ Len(gates) = n
<1> DEFINE S == Scirust!GateLines(lines)
           n == Scirust!Cardinality(S)
           gates == Scirust!Gates(lines)
           Values == {lines[l].gate : l \in S}
<1>1. S \in SUBSET (1..Len(lines))
  BY DEF Scirust!GateLines
<1>2. \A set : Scirust!Cardinality(set) = Cardinality(set)
  BY DEF Scirust!Cardinality, Cardinality
<1>3. n \in Nat /\ n = Cardinality(S)
  <2>1. 1 \in Int /\ Len(lines) \in Int
    OBVIOUS
  <2>2. IsFiniteSet(1..Len(lines))
    BY <2>1, FS_Interval
  <2> QED
    <3>1. S \in SUBSET (1..Len(lines)) => IsFiniteSet(S) /\ Cardinality(S) \in Nat
      BY <2>2, FS_Subset, FS_CardinalityType
    <3> HIDE DEF S
    <3> QED
      BY <1>1, <1>2, <3>1
<1>4. gates = [i \in 1..n |->
                 lines[CHOOSE l \in S : Scirust!Cardinality({k \in S : k < l}) = i - 1].gate]
  BY DEF Scirust!Gates
<1>5. ASSUME NEW i \in 1..n PROVE gates[i] \in Values
  <2>1. \E l \in S : Scirust!Cardinality({k \in S : k < l}) = i - 1
    <3> HIDE DEF S
    <3>1. \E l \in S : Cardinality({k \in S : k < l}) = i - 1
      BY <1>1, <1>3, EveryPlaceIsTaken
    <3> QED
      BY <1>2, <3>1
  <2> DEFINE l == CHOOSE x \in S : Scirust!Cardinality({k \in S : k < x}) = i - 1
  <2>2. l \in S
    BY <2>1
  <2>3. gates[i] = lines[l].gate
    BY <1>4
  <2> QED
    BY <2>2, <2>3
<1> HIDE DEF S, n, gates
<1>6. gates \in [1..n -> Values]
  BY <1>4, <1>5
<1>7. gates \in Seq(Values) /\ Len(gates) = n
  BY <1>3, <1>6, LenProperties, SeqDef
<1> HIDE DEF Values
<1>8. gates \in [1..n -> Values] /\ Len(gates) = n /\ n \in Nat
  BY <1>3, <1>6, <1>7
<1> QED
  BY <1>8 DEF gates, n, S, Values

(* The gates of a summary that was accepted.                               *)
LEMMA AcceptedGates ==
  ASSUME NEW s, HandedSummary(s), Scirust!Accepts(s)
  PROVE  LET gates == Scirust!Gates(Scirust!Doc(s[1]).lines)
         IN /\ Len(gates) \in Nat /\ DOMAIN gates = 1..Len(gates)
            /\ Len(gates) < Len(EvidenceName)
            /\ \A i \in DOMAIN gates :
                 gates[i].status \in Scirust!GateStatus /\ gates[i].required \in BOOLEAN
<1> DEFINE lines == Scirust!Doc(s[1]).lines
           gates == Scirust!Gates(lines)
<1>1. PICK files \in Inputs["scirust"] : s[1] = files[1]
  BY DEF HandedSummary, SummaryFile
<1>2. Scirust!Accepts(files) /\ lines = Decode[files[1].bytes].lines
  BY <1>1 DEF Scirust!Accepts, Scirust!Doc
<1>3. /\ DOMAIN lines = 1..Len(lines) /\ Len(lines) \in Nat
      /\ \A l \in Scirust!GateLines(lines) : lines[l].gate.required \in BOOLEAN
      /\ Len(gates) < Len(EvidenceName)
  BY <1>2, SummariesAreDecoded
<1>4. Scirust!Parses(lines)
  BY DEF Scirust!Accepts
<1> HIDE DEF lines, gates
<1>5. \A l \in Scirust!GateLines(lines) : lines[l].gate.status \in Scirust!GateStatus
  BY <1>4 DEF Scirust!Parses, Scirust!LineParses, Scirust!GateLines
<1>6. PICK n \in Nat : /\ gates \in [1..n -> {lines[l].gate : l \in Scirust!GateLines(lines)}]
                       /\ Len(gates) = n
  BY <1>3, GatesAreListed DEF gates
<1>7. \A i \in 1..n : \E l \in Scirust!GateLines(lines) : gates[i] = lines[l].gate
  BY <1>6
<1>8. \A i \in 1..n : gates[i].status \in Scirust!GateStatus /\ gates[i].required \in BOOLEAN
  BY <1>3, <1>5, <1>7
<1>9. DOMAIN gates = 1..Len(gates) /\ Len(gates) \in Nat
  BY <1>6
<1> QED
  BY <1>3, <1>6, <1>8, <1>9 DEF gates, lines

(* What `ingest scirust` writes: a record of evidence for the summary and  *)
(* one for each gate, and one execution per gate.                          *)
IsImport(documents, n) ==
  /\ DOMAIN documents.evidence = 1..(n + 1) /\ Len(documents.evidence) = n + 1
  /\ DOMAIN documents.executions = 1..n /\ Len(documents.executions) = n
  /\ \A e \in 1..(n + 1) :
       /\ EvidenceName[e] \in EvidenceIds
       /\ \A a \in documents.evidence[e].attachments : a.path = Scirust!SummaryAttachment
  /\ \A some \in SUBSET {documents.executions[x] : x \in DOMAIN documents.executions} :
       [executions |-> some] # Absent

LEMMA ImportDocuments ==
  ASSUME NEW s, HandedSummary(s), Scirust!Accepts(s)
  PROVE  LET documents == DocumentsOf("scirust", s)
             n == Len(Scirust!Gates(Scirust!Doc(s[1]).lines))
         IN n \in Nat /\ IsImport(documents, n)
<1> DEFINE gates == Scirust!Gates(Scirust!Doc(s[1]).lines)
           n == Len(gates)
           documents == Scirust!Documents(s)
           records == Scirust!GateEvidence(gates)
           first == <<Scirust!SummaryEvidence(s[1])>>
<1>1. /\ n \in Nat /\ DOMAIN gates = 1..n /\ n < Len(EvidenceName)
  BY AcceptedGates
<1>2. documents.evidence = first \o records /\ documents.executions = Scirust!GateExecutions(gates)
  BY DEF Scirust!Documents
<1>3. PICK files \in Inputs["scirust"] : s[1] = files[1]
  BY DEF HandedSummary, SummaryFile
<1>4. Scirust!Accepts(files) /\ Scirust!Documents(files) = documents
  BY <1>3 DEF Scirust!Accepts, Scirust!Documents
<1>5. \A some \in SUBSET {documents.executions[x] : x \in DOMAIN documents.executions} :
        [executions |-> some] # Absent
  BY <1>4, AbsentIsNoDocument
<1> HIDE DEF gates, documents
<1>6. DOMAIN records = 1..n /\ \A i \in 1..n : records[i].attachments = {}
  BY <1>1 DEF Scirust!GateEvidence
<1>7. records = [i \in 1..n |-> records[i]]
  BY <1>1 DEF Scirust!GateEvidence
<1>8. Scirust!SummaryEvidence(s[1]).attachments
        = {[path |-> Scirust!SummaryAttachment, payload |-> s[1].bytes]}
  BY DEF Scirust!SummaryEvidence
<1>9. /\ DOMAIN Scirust!GateExecutions(gates) = 1..n
      /\ Scirust!GateExecutions(gates) = [i \in 1..n |-> Scirust!GateExecutions(gates)[i]]
  BY <1>1 DEF Scirust!GateExecutions
<1>10. Len(Scirust!GateExecutions(gates)) = n
  <2> DEFINE x == Scirust!GateExecutions(gates)
             Values == {x[i] : i \in 1..n}
  <2> HIDE DEF x, n
  <2>1. x \in [1..n -> Values]
    BY <1>9 DEF x
  <2>2. x \in Seq(Values)
    BY <1>1, <2>1, SeqDef
  <2> QED
    BY <1>1, <2>1, <2>2, LenProperties DEF x
<1> DEFINE Any == {records[i] : i \in 1..n} \cup {Scirust!SummaryEvidence(s[1])}
<1> HIDE DEF n, records
<1>11. records \in [1..n -> Any]
  BY <1>7
<1>12. records \in Seq(Any)
  BY <1>1, <1>11, SeqDef
<1>13. Len(records) = n
  BY <1>1, <1>6, <1>12, LenProperties
<1>14. first \in Seq(Any) /\ Len(first) = 1 /\ first[1] = Scirust!SummaryEvidence(s[1])
  OBVIOUS
<1> HIDE DEF Any, first
<1>15. /\ Len(first \o records) = n + 1
       /\ \A i \in 1..(n + 1) : (first \o records)[i] = IF i <= 1 THEN first[i] ELSE records[i - 1]
       /\ first \o records \in Seq(Any)
  <2>1. /\ first \o records \in Seq(Any)
        /\ Len(first \o records) = Len(first) + Len(records)
        /\ \A i \in 1..(Len(first) + Len(records)) : (first \o records)[i] =
             IF i <= Len(first) THEN first[i] ELSE records[i - Len(first)]
    BY <1>12, <1>14, ConcatProperties
  <2>2. Len(first) + Len(records) = n + 1
    BY <1>1, <1>13, <1>14
  <2> QED
    BY <2>1, <2>2, <1>14
<1>16. DOMAIN (first \o records) = 1..(n + 1)
  BY <1>15, LenProperties
<1>17. \A e \in 1..(n + 1) : \A a \in (first \o records)[e].attachments :
         a.path = Scirust!SummaryAttachment
  <2> SUFFICES ASSUME NEW e \in 1..(n + 1), NEW a \in (first \o records)[e].attachments
               PROVE  a.path = Scirust!SummaryAttachment
    OBVIOUS
  <2>1. CASE e = 1
    BY <1>8, <1>14, <1>15, <2>1
  <2>2. CASE e # 1
    <3>1. e - 1 \in 1..n /\ (first \o records)[e] = records[e - 1]
      BY <1>1, <1>15, <2>2
    <3> QED
      BY <1>6, <3>1
  <2> QED
    BY <2>1, <2>2
<1>18. \A e \in 1..(n + 1) : EvidenceName[e] \in EvidenceIds
  BY <1>1, RecordsHaveNames DEF EvidenceIds
<1>19. /\ DOMAIN documents.evidence = 1..(n + 1) /\ Len(documents.evidence) = n + 1
       /\ DOMAIN documents.executions = 1..n /\ Len(documents.executions) = n
       /\ \A e \in 1..(n + 1) : \A a \in documents.evidence[e].attachments :
            a.path = Scirust!SummaryAttachment
  BY <1>2, <1>9, <1>10, <1>15, <1>16, <1>17
<1>20. DocumentsOf("scirust", s) = documents
  BY DEF DocumentsOf, documents
<1> QED
  BY <1>1, <1>5, <1>18, <1>19, <1>20 DEF gates, n, IsImport

(* One call of the store after the other.                                  *)
LEMMA AppendedStays ==
  ASSUME NEW documents, NEW count \in Nat, IsImport(documents, count),
         NEW n \in Nat, n + 1 - (count + 5) \notin 1..count
  PROVE  AppendedBy(documents, n + 1) = AppendedBy(documents, n)
<1>1. Len(Planned) = 4
  BY DEF Planned
<1>2. \A y \in 1..count : 4 + (count + 1) + y <= n + 1 <=> 4 + (count + 1) + y <= n
  OBVIOUS
<1> QED
  BY <1>1, <1>2 DEF AppendedBy, IsImport

LEMMA AppendedGrows ==
  ASSUME NEW documents, NEW count \in Nat, IsImport(documents, count),
         NEW x \in 1..count
  PROVE  /\ AppendedBy(documents, count + 5 + x)
              = AppendedBy(documents, count + 4 + x) \cup {documents.executions[x]}
         /\ AppendedBy(documents, count + 5 + x)
              \subseteq {documents.executions[y] : y \in DOMAIN documents.executions}
<1>1. Len(Planned) = 4
  BY DEF Planned
<1>2. \A y \in 1..count : 4 + (count + 1) + y <= count + 5 + x <=>
                            y = x \/ 4 + (count + 1) + y <= count + 4 + x
  OBVIOUS
<1>3. \A m \in Nat : AppendedBy(documents, m)
        = {documents.executions[y] : y \in {z \in 1..count : 4 + (count + 1) + z <= m}}
  BY <1>1 DEF AppendedBy, IsImport
<1>4. {z \in 1..count : 4 + (count + 1) + z <= count + 5 + x}
        = {z \in 1..count : 4 + (count + 1) + z <= count + 4 + x} \cup {x}
  BY <1>2
<1> DEFINE Before == {z \in 1..count : 4 + (count + 1) + z <= count + 4 + x}
<1>5. /\ AppendedBy(documents, count + 5 + x) = {documents.executions[y] : y \in Before \cup {x}}
      /\ AppendedBy(documents, count + 4 + x) = {documents.executions[y] : y \in Before}
  BY <1>3, <1>4
<1>6. Before \cup {x} \subseteq DOMAIN documents.executions
  BY DEF IsImport
<1> HIDE DEF Before
<1> QED
  BY <1>5, <1>6

(* Which arm of the calls the m-th one is.                                 *)
LEMMA CallOfEvidence ==
  ASSUME NEW documents, NEW dir, NEW m, NEW e, m \notin {1, 2, 3, 4},
         m - Len(Planned) = e, e \in DOMAIN documents.evidence,
         e - Len(documents.evidence) \notin DOMAIN documents.executions
  PROVE  AfterCall(dir, documents, m)
           = WithEvidence(dir, EvidenceName[e], documents.evidence[e], documents.handed)
BY DEF AfterCall

LEMMA CallOfExecution ==
  ASSUME NEW documents, NEW dir, NEW m, NEW x, m \notin {1, 2, 3, 4},
         m - Len(Planned) \notin DOMAIN documents.evidence,
         m - Len(Planned) - Len(documents.evidence) = x, x \in DOMAIN documents.executions
  PROVE  AfterCall(dir, documents, m)
           = [dir EXCEPT ![Run!ExecutionsPath] =
                [executions |-> Run!RecordedExecutions(dir) \cup {documents.executions[x]}]]
BY DEF AfterCall

LEMMA CallOfReport ==
  ASSUME NEW documents, NEW dir, NEW m, m \notin {1, 2, 3, 4},
         m - Len(Planned) \notin DOMAIN documents.evidence,
         m - Len(Planned) - Len(documents.evidence) \notin DOMAIN documents.executions
  PROVE  AfterCall(dir, documents, m)
           = [dir EXCEPT ![Run!ReportPath] = [evaluations |-> documents.evaluations]]
BY DEF AfterCall

LEMMA CallsImport ==
  ASSUME NEW documents, NEW count \in Nat, IsImport(documents, count),
         NEW dir, NEW n, AsImported(dir, documents, n), n # CallCount(documents)
  PROVE  AsImported(AfterCall(dir, documents, n + 1), documents, n + 1)
<1> DEFINE after == AfterCall(dir, documents, n + 1)
<1>1. /\ Len(Planned) = 4 /\ Len(documents.evidence) = count + 1
      /\ Len(documents.executions) = count /\ CallCount(documents) = 2 * count + 6
  BY DEF IsImport, CallCount, Planned
<1>a. DOMAIN documents.evidence = 1..(count + 1) /\ DOMAIN documents.executions = 1..count
  BY DEF IsImport
<1>2. n \in 0..(2 * count + 5)
  BY <1>1 DEF AsImported
<1>b. /\ n \in Int /\ count \in Int
      /\ Len(Planned) = 4 /\ Len(documents.evidence) = count + 1
  BY <1>1, <1>2
<1>3. /\ {Run!RunPath, Run!ArtifactPath, Run!PlanPath, Run!ClaimsPath, Run!ExecutionsPath,
          Run!ReportPath, Scirust!SummaryAttachment} \cup EvidenceIds \subseteq Run!Path
      /\ {Run!RunPath, Run!ExecutionsPath, Run!ReportPath}
           \cap ({Run!ArtifactPath, Run!PlanPath, Run!ClaimsPath, Scirust!SummaryAttachment}
                   \cup EvidenceIds) = {}
      /\ Run!RunPath # Run!ExecutionsPath /\ Run!RunPath # Run!ReportPath
      /\ Run!ExecutionsPath # Run!ReportPath
  BY EvidencePaths
  DEF Run!Path, Run!Documents, Attachments, Run!RunPath, Run!ArtifactPath, Run!PlanPath,
      Run!ClaimsPath, Run!ExecutionsPath, Run!ReportPath, Scirust!SummaryAttachment
<1>4. /\ DOMAIN dir = Run!Path
      /\ dir[Run!RunPath] \in {RunDocument("planning"), RunDocument("running")}
      /\ Run!RecordedExecutions(dir) = AppendedBy(documents, n)
  BY DEF AsImported
<1>5. ASSUME NEW new, n + 1 - (count + 5) \notin 1..count, n + 1 # 2 * count + 6,
             new = [p \in Run!Path |-> new[p]],
             new[Run!RunPath] \in {RunDocument("planning"), RunDocument("running")},
             new[Run!ExecutionsPath] = dir[Run!ExecutionsPath]
      PROVE  AsImported(new, documents, n + 1)
  <2>1. Run!RecordedExecutions(new) = AppendedBy(documents, n + 1)
    <3>1. Run!RecordedExecutions(new) = Run!RecordedExecutions(dir)
      BY <1>5 DEF Run!RecordedExecutions
    <3>2. n \in Nat
      BY <1>2
    <3> QED
      BY <1>4, <1>5, <3>1, <3>2, AppendedStays
  <2>2. n + 1 \in 0..CallCount(documents) /\ n + 1 # CallCount(documents)
    BY <1>1, <1>2, <1>5, SMTT(30)
  <2> QED
    BY <1>5, <2>1, <2>2 DEF AsImported
<1>6. CASE n \in 0..2
  <2>1. PICK path \in {Run!ArtifactPath, Run!PlanPath, Run!ClaimsPath} : \E content :
          after = [dir EXCEPT ![path] = content]
    <3>1. n = 0 => after = [dir EXCEPT ![Run!ArtifactPath] = documents.artifact]
      BY <1>1, <1>a DEF AfterCall
    <3>2. n = 1 => after = [dir EXCEPT ![Run!PlanPath] = documents.plan]
      BY <1>1, <1>a DEF AfterCall
    <3>3. n = 2 => after = [dir EXCEPT ![Run!ClaimsPath] = documents.claims]
      BY <1>1, <1>a DEF AfterCall
    <3>4. n = 0 \/ n = 1 \/ n = 2
      BY <1>6
    <3> HIDE DEF after
    <3> QED
      BY <3>1, <3>2, <3>3, <3>4
  <2>2. n + 1 - (count + 5) \notin 1..count /\ n + 1 # 2 * count + 6
    BY <1>6
  <2> HIDE DEF after
  <2>3. /\ after = [p \in Run!Path |-> after[p]]
        /\ after[Run!RunPath] = dir[Run!RunPath]
        /\ after[Run!ExecutionsPath] = dir[Run!ExecutionsPath]
    BY <1>3, <1>4, <2>1
  <2>4. AsImported(after, documents, n + 1)
    BY <1>4, <1>5, <2>2, <2>3
  <2> QED
    BY <2>4 DEF after
<1>7. CASE n = 3
  <2>1. after = [dir EXCEPT ![Run!RunPath].state = "running"]
    <3>1. n + 1 = 4
      BY <1>7
    <3> QED
      BY <1>1, <1>a, <3>1 DEF AfterCall
  <2>2. n + 1 - (count + 5) \notin 1..count /\ n + 1 # 2 * count + 6
    BY <1>7
  <2> HIDE DEF after
  <2>3. /\ after = [p \in Run!Path |-> after[p]]
        /\ after[Run!RunPath] = [dir[Run!RunPath] EXCEPT !.state = "running"]
        /\ after[Run!ExecutionsPath] = dir[Run!ExecutionsPath]
    BY <1>3, <1>4, <2>1
  <2>4. after[Run!RunPath] = RunDocument("running")
    BY <1>4, <2>3, StateIsSet
  <2>5. AsImported(after, documents, n + 1)
    BY <1>5, <2>2, <2>3, <2>4
  <2> QED
    BY <2>5 DEF after
<1>8. CASE n \in 4..(count + 4)
  <2> DEFINE e == n + 1 - 4
  <2>1. e \in 1..(count + 1) /\ e \in DOMAIN documents.evidence
    BY <1>8 DEF IsImport
  <2>2. after = WithEvidence(dir, EvidenceName[e], documents.evidence[e], documents.handed)
    <3> DEFINE m == n + 1
    <3>1. /\ m \notin {1, 2, 3, 4} /\ m - Len(Planned) = e
          /\ e - Len(documents.evidence) \notin DOMAIN documents.executions
      BY <1>1, <1>a, <1>8
    <3> HIDE DEF m, e
    <3>2. AfterCall(dir, documents, m) = 
            WithEvidence(dir, EvidenceName[e], documents.evidence[e], documents.handed)
      BY <2>1, <3>1, CallOfEvidence
    <3> QED
      BY <3>2 DEF m
  <2>3. /\ EvidenceName[e] \in EvidenceIds
        /\ \A a \in documents.evidence[e].attachments : a.path = Scirust!SummaryAttachment
    BY <2>1 DEF IsImport
  <2>4. n + 1 - (count + 5) \notin 1..count /\ n + 1 # 2 * count + 6
    BY <1>8
  <2> HIDE DEF after, e
  <2>5. DOMAIN after = Run!Path /\ after = [p \in Run!Path |-> after[p]]
    BY <1>4, <2>2 DEF WithEvidence
  <2>6. \A p \in {Run!RunPath, Run!ExecutionsPath} : after[p] = dir[p]
    <3> SUFFICES ASSUME NEW p \in {Run!RunPath, Run!ExecutionsPath} PROVE after[p] = dir[p]
      OBVIOUS
    <3>1. /\ p \in Run!Path /\ p # EvidenceName[e]
          /\ ~\E a \in documents.evidence[e].attachments : a.path = p
      BY <1>3, <2>3
    <3> QED
      BY <1>4, <2>2, <3>1 DEF WithEvidence
  <2>7. AsImported(after, documents, n + 1)
    BY <1>4, <1>5, <2>4, <2>5, <2>6
  <2> QED
    BY <2>7 DEF after
<1>9. CASE n \in (count + 5)..(2 * count + 4)
  <2> DEFINE x == n + 1 - 4 - (count + 1)
  <2>1. /\ x \in 1..count /\ x \in DOMAIN documents.executions
        /\ n + 1 - 4 \notin DOMAIN documents.evidence
        /\ n = count + 4 + x /\ n + 1 = count + 5 + x
    BY <1>9 DEF IsImport
  <2>2. after = [dir EXCEPT ![Run!ExecutionsPath] =
                   [executions |-> Run!RecordedExecutions(dir) \cup {documents.executions[x]}]]
    <3> DEFINE m == n + 1
    <3>1. /\ m \notin {1, 2, 3, 4} /\ m - Len(Planned) \notin DOMAIN documents.evidence
          /\ m - Len(Planned) - Len(documents.evidence) = x
      <4>1. m \notin {1, 2, 3, 4}
        BY <2>1
      <4>2. m - Len(Planned) = n + 1 - 4
        BY <1>b
      <4>3. m - Len(Planned) - Len(documents.evidence) = x
        BY <1>b
      <4> HIDE DEF m, x
      <4> QED
        BY <2>1, <4>1, <4>2, <4>3
    <3> HIDE DEF m, x
    <3>2. AfterCall(dir, documents, m) = 
            [dir EXCEPT ![Run!ExecutionsPath] =
               [executions |-> Run!RecordedExecutions(dir) \cup {documents.executions[x]}]]
      BY <2>1, <3>1, CallOfExecution
    <3> QED
      BY <3>2 DEF m
  <2> HIDE DEF after, x
  <2>3. /\ AppendedBy(documents, n + 1) = AppendedBy(documents, n) \cup {documents.executions[x]}
        /\ AppendedBy(documents, n + 1)
             \subseteq {documents.executions[y] : y \in DOMAIN documents.executions}
    BY <2>1, AppendedGrows
  <2>4. [executions |-> AppendedBy(documents, n + 1)] # Absent
    BY <2>3 DEF IsImport
  <2>5. /\ after = [p \in Run!Path |-> after[p]]
        /\ after[Run!RunPath] = dir[Run!RunPath]
        /\ after[Run!ExecutionsPath] = [executions |-> AppendedBy(documents, n + 1)]
    BY <1>3, <1>4, <2>2, <2>3
  <2>6. Run!RecordedExecutions(after) = AppendedBy(documents, n + 1)
    BY <2>4, <2>5 DEF Run!RecordedExecutions
  <2>7. n + 1 \in 0..CallCount(documents) /\ n + 1 # CallCount(documents)
    BY <1>1, <1>9
  <2>8. AsImported(after, documents, n + 1)
    BY <1>4, <2>5, <2>6, <2>7 DEF AsImported
  <2> QED
    BY <2>8 DEF after
<1>10. CASE n = 2 * count + 5
  <2>1. /\ n + 1 \notin 1..4 /\ n + 1 - 4 \notin DOMAIN documents.evidence
        /\ n + 1 - 4 - (count + 1) \notin DOMAIN documents.executions
        /\ n + 1 - (count + 5) \notin 1..count
    BY <1>10 DEF IsImport
  <2>2. after = [dir EXCEPT ![Run!ReportPath] = [evaluations |-> documents.evaluations]]
    <3> DEFINE m == n + 1
    <3>1. /\ m \notin {1, 2, 3, 4} /\ m - Len(Planned) \notin DOMAIN documents.evidence
          /\ m - Len(Planned) - Len(documents.evidence) \notin DOMAIN documents.executions
      <4>1. m \notin {1, 2, 3, 4}
        BY <2>1
      <4>2. m - Len(Planned) = n + 1 - 4
        BY <1>b
      <4>3. m - Len(Planned) - Len(documents.evidence) = n + 1 - 4 - (count + 1)
        BY <1>b
      <4> HIDE DEF m
      <4> QED
        BY <2>1, <4>1, <4>2, <4>3
    <3> HIDE DEF m
    <3>2. AfterCall(dir, documents, m) = 
            [dir EXCEPT ![Run!ReportPath] = [evaluations |-> documents.evaluations]]
      BY <3>1, CallOfReport
    <3> QED
      BY <3>2 DEF m
  <2> HIDE DEF after
  <2>3. /\ after = [p \in Run!Path |-> after[p]]
        /\ after[Run!RunPath] = dir[Run!RunPath]
        /\ after[Run!ExecutionsPath] = dir[Run!ExecutionsPath]
        /\ after[Run!ReportPath] = [evaluations |-> documents.evaluations]
    BY <1>3, <1>4, <2>2
  <2>4. Run!RecordedExecutions(after) = AppendedBy(documents, n + 1)
    <3>1. Run!RecordedExecutions(after) = Run!RecordedExecutions(dir)
      BY <2>3 DEF Run!RecordedExecutions
    <3>2. n \in Nat
      BY <1>2
    <3> QED
      BY <1>4, <2>1, <3>1, <3>2, AppendedStays
  <2>5. n + 1 \in 0..CallCount(documents)
    BY <1>1, <1>10
  <2>6. AsImported(after, documents, n + 1)
    BY <1>4, <2>3, <2>4, <2>5 DEF AsImported
  <2> QED
    BY <2>6 DEF after
<1> QED
  BY <1>2, <1>6, <1>7, <1>8, <1>9, <1>10


-----------------------------------------------------------------------------
(* What the import makes of gates that are named once each: every gate is  *)
(* the one found by its name, and its status is the verdict of its claim.  *)

AreGates(gates) ==
  /\ DOMAIN gates = 1..Len(gates) /\ Len(gates) \in Nat
  /\ \A i \in DOMAIN gates :
       gates[i].status \in Scirust!GateStatus /\ gates[i].required \in BOOLEAN

NamedOnce(gates) == Scirust!Distinct([g \in DOMAIN gates |-> gates[g].id])

LEMMA GatesAreFound ==
  ASSUME NEW gates, AreGates(gates), NamedOnce(gates), NEW i \in DOMAIN gates
  PROVE  Scirust!FoundGate(gates, i) = gates[i]
<1>1. \A j \in DOMAIN gates : gates[j].id = gates[i].id => j = i
  BY DEF NamedOnce, Scirust!Distinct
<1>2. \A k \in 1..(i - 1) : k \in DOMAIN gates /\ k # i
  BY DEF AreGates
<1> DEFINE Found(j) == /\ gates[j].id = gates[i].id
                       /\ \A k \in 1..(j - 1) : gates[k].id # gates[i].id
<1>3. Found(i) /\ \A j \in DOMAIN gates : Found(j) => j = i
  BY <1>1, <1>2
<1>4. (CHOOSE j \in DOMAIN gates : Found(j)) = i
  <2> HIDE DEF Found
  <2> QED
    BY <1>3
<1> QED
  BY <1>4 DEF Scirust!FoundGate

LEMMA StatusIsOutcome ==
  ASSUME NEW gates, AreGates(gates), NamedOnce(gates), NEW i \in DOMAIN gates
  PROVE  /\ DOMAIN Scirust!GateExecutions(gates) = DOMAIN gates
         /\ Scirust!GateExecutions(gates)[i].check = Scirust!CheckOf(gates[i])
         /\ Scirust!GateExecutions(gates)[i].outcome = Scirust!ToVerdict[gates[i].status]
BY GatesAreFound DEF Scirust!GateExecutions

LEMMA VerdictsOfStatuses ==
  ASSUME NEW status \in Scirust!GateStatus
  PROVE  LET verdict == Scirust!ToVerdict[status]
         IN /\ verdict \in {"verified", "failed", "skipped"}
            /\ verdict = "verified" <=> status = "PASS"
            /\ verdict = "failed" <=> status = "FAIL"
            /\ Scirust!CombinedVerdict({verdict}) = verdict
<1>1. /\ Scirust!ToVerdict["PASS"] = "verified" /\ Scirust!ToVerdict["FAIL"] = "failed"
      /\ Scirust!ToVerdict["SKIP"] = "skipped"
  BY DEF Scirust!ToVerdict
<1>2. /\ Scirust!CombinedVerdict({"verified"}) = "verified"
      /\ Scirust!CombinedVerdict({"failed"}) = "failed"
      /\ Scirust!CombinedVerdict({"skipped"}) = "skipped"
  BY DEF Scirust!CombinedVerdict
<1> QED
  BY <1>1, <1>2 DEF Scirust!GateStatus

LEMMA StatusIsVerdict ==
  ASSUME NEW gates, AreGates(gates), NamedOnce(gates)
  PROVE  Scirust!Evaluations(gates) =
           {[claim |-> Scirust!ClaimOf(gates[i]), level |-> Scirust!LevelOf(gates, gates[i]),
             verdict |-> Scirust!ToVerdict[gates[i].status]] : i \in DOMAIN gates}
<1> DEFINE executions == Scirust!GateExecutions(gates)
           Outcomes(i) == {executions[j].outcome :
              j \in {k \in DOMAIN gates : Scirust!ClaimOf(gates[k]) = Scirust!ClaimOf(gates[i])}}
<1>1. ASSUME NEW i \in DOMAIN gates
      PROVE  Scirust!CombinedVerdict(Outcomes(i)) = Scirust!ToVerdict[gates[i].status]
  <2>1. \A k \in DOMAIN gates : Scirust!ClaimOf(gates[k]) = Scirust!ClaimOf(gates[i]) => k = i
    BY DEF Scirust!ClaimOf, NamedOnce, Scirust!Distinct
  <2>2. {k \in DOMAIN gates : Scirust!ClaimOf(gates[k]) = Scirust!ClaimOf(gates[i])} = {i}
    BY <2>1
  <2>3. Outcomes(i) = {executions[i].outcome}
    BY <2>2
  <2>4. executions[i].outcome = Scirust!ToVerdict[gates[i].status]
    BY StatusIsOutcome
  <2>5. gates[i].status \in Scirust!GateStatus
    BY DEF AreGates
  <2> HIDE DEF Outcomes, executions
  <2> QED
    BY <2>3, <2>4, <2>5, VerdictsOfStatuses
<1>2. Scirust!Evaluations(gates) =
        {[claim |-> Scirust!ClaimOf(gates[i]), level |-> Scirust!LevelOf(gates, gates[i]),
          verdict |-> Scirust!CombinedVerdict(Outcomes(i))] : i \in DOMAIN gates}
  BY DEF Scirust!Evaluations
<1> HIDE DEF Outcomes
<1> QED
  BY <1>1, <1>2

(* The exit code is that of the required gates.                            *)
LEMMA ExitIsHonest ==
  ASSUME NEW gates, AreGates(gates), NamedOnce(gates)
  PROVE  LET code == Scirust!ExitCode(Scirust!Evaluations(gates))
         IN /\ code = 0 => \A i \in DOMAIN gates : gates[i].required => gates[i].status # "FAIL"
            /\ code = 1 => \E i \in DOMAIN gates : gates[i].status = "FAIL"
<1> DEFINE Level(i) == Scirust!LevelOf(gates, gates[i])
           Verdict(i) == Scirust!ToVerdict[gates[i].status]
           evaluations == Scirust!Evaluations(gates)
           items == {[level |-> e.level, verdict |-> e.verdict] : e \in evaluations}
           required == {j.verdict : j \in {k \in items : k.level = "required"}}
           overall == Scirust!AggregateDossierVerdict(items)
<1>1. evaluations = {[claim |-> Scirust!ClaimOf(gates[i]), level |-> Level(i),
                      verdict |-> Verdict(i)] : i \in DOMAIN gates}
  BY StatusIsVerdict
<1>2. \A v : v \in required <=> \E i \in DOMAIN gates : Level(i) = "required" /\ v = Verdict(i)
  <2>1. \A e \in evaluations : \E i \in DOMAIN gates : e.level = Level(i) /\ e.verdict = Verdict(i)
    BY <1>1
  <2>2. ASSUME NEW i \in DOMAIN gates
        PROVE  \E e \in evaluations : e.level = Level(i) /\ e.verdict = Verdict(i)
    <3> DEFINE e == [claim |-> Scirust!ClaimOf(gates[i]), level |-> Level(i),
                     verdict |-> Verdict(i)]
    <3>1. e \in evaluations
      BY <1>1
    <3>2. e.level = Level(i) /\ e.verdict = Verdict(i)
      OBVIOUS
    <3> HIDE DEF e, evaluations, Level, Verdict
    <3> QED
      BY <3>1, <3>2
  <2> HIDE DEF evaluations, Level, Verdict
  <2>3. \A j \in items : \E i \in DOMAIN gates : j.level = Level(i) /\ j.verdict = Verdict(i)
    BY <2>1
  <2>4. ASSUME NEW i \in DOMAIN gates
        PROVE  \E j \in items : j.level = Level(i) /\ j.verdict = Verdict(i)
    <3>1. PICK e \in evaluations : e.level = Level(i) /\ e.verdict = Verdict(i)
      BY <2>2
    <3>2. [level |-> e.level, verdict |-> e.verdict] \in items
      OBVIOUS
    <3> QED
      BY <3>1, <3>2
  <2> HIDE DEF items
  <2> QED
    BY <2>3, <2>4
<1>3. \A i \in DOMAIN gates :
        /\ Verdict(i) \in {"verified", "failed", "skipped"}
        /\ Verdict(i) = "failed" <=> gates[i].status = "FAIL"
  BY VerdictsOfStatuses DEF AreGates
<1>4. \A i \in DOMAIN gates : gates[i].required => Level(i) = "required"
  BY DEF Scirust!LevelOf, Scirust!SlugIsRequired
<1> HIDE DEF Level, Verdict
<1>5. required \cap {"not_verified", "unsupported"} = {}
  BY <1>2, <1>3
<1>6. overall = "fail" <=> "failed" \in required
  BY <1>5 DEF Scirust!AggregateDossierVerdict
<1>7. overall \in {"fail", "pass", "pass_with_gaps"}
  BY <1>5 DEF Scirust!AggregateDossierVerdict
<1>8. Scirust!ExitCode(evaluations) = IF overall \in {"pass", "pass_with_gaps"} THEN 0 ELSE 1
  BY DEF Scirust!ExitCode, Scirust!OverallVerdict, Scirust!ExitSuccess
<1> HIDE DEF overall, required, evaluations
<1>9. "failed" \in required => \E i \in DOMAIN gates : gates[i].status = "FAIL"
  BY <1>2, <1>3
<1>10. (\E i \in DOMAIN gates : gates[i].required /\ gates[i].status = "FAIL") => "failed" \in required
  BY <1>2, <1>3, <1>4
<1>11. Scirust!ExitCode(evaluations) = 0 =>
         \A i \in DOMAIN gates : gates[i].required => gates[i].status # "FAIL"
  BY <1>6, <1>7, <1>8, <1>10
<1>12. Scirust!ExitCode(evaluations) = 1 => \E i \in DOMAIN gates : gates[i].status = "FAIL"
  BY <1>6, <1>7, <1>8, <1>9
<1> QED
  BY <1>11, <1>12 DEF evaluations

-----------------------------------------------------------------------------
(* The run directory of an import, through every step.                     *)

LEMMA ImportIsOpen ==
  ASSUME NEW i \in Invocation, ImportOf(i), pc[i] \in Early \cup {"documents", "finalize"}
  PROVE  ~Run!IsFinalized(run[i])
BY OpenIsNotSealed DEF ImportOf, AsImported, Early

LEMMA NextKeepsImport ==
  ASSUME JInv, ImportsAreFollowed,
         NEW i \in Invocation, request[i] = "scirust",
         (\E p \in Pids : Start(i, p)) \/ Step(i) \/ Fault(i) \/ Kill(i)
  PROVE  ImportOf(i)'
<1>1. /\ ImportOf(i)
      /\ pc[i] \notin {"check_output", "work_root", "verify", "archive", "copy", "discard",
                       "cleanup"}
      /\ request[i] \notin Bridges
  BY DEF ImportsAreFollowed, JInv, EInv, IInv, Placed, Bridges
<1>2. request' = request
  BY OthersStay DEF JInv, EInv, IInv
<1> Typed /\ Tables /\ SealsAreSupported /\ CapsulesAreSeen
  BY DEF JInv, EInv, IInv
<1> USE DEF Typed, Tables
<1>3. ASSUME seen' = seen, run' = run, calls' = calls, pc'[i] = "killed" \/ pc'[i] = "ended",
             pc[i] \in Early \cup {"documents", "finalize"}
      PROVE  ImportOf(i)'
  <2>1. ~Run!IsFinalized(run'[i])
    BY <1>1, <1>3, ImportIsOpen
  <2> QED
    BY <1>3, <2>1 DEF ImportOf, Early
<1>4. ASSUME NEW p \in Pids, Start(i, p) PROVE ImportOf(i)'
  <2>1. pc[i] = "new" /\ pc'[i] = "look" /\ seen' = seen /\ run' = run /\ calls' = calls
    BY <1>1, <1>4 DEF Start, Goto
  <2>2. ~Run!IsFinalized(run'[i])
    BY <1>1, <2>1, ImportIsOpen DEF Early
  <2> QED
    BY <1>1, <2>1, <2>2 DEF ImportOf, Early
<1>5. CASE Look(i)
  <2>1. /\ pc[i] = "look" /\ seen[i] = <<>> /\ run' = run /\ calls' = calls
        /\ run[i] = Run!Nothing /\ calls[i] = 0
    BY <1>1, <1>5 DEF Look, ImportOf, Early
  <2>2. LooksOf(request[i]) = <<1>>
    BY DEF LooksOf, Scirust!Looks
  <2>3. /\ seen'[i] = Append(<<>>, disk["scirust"][1])
        /\ pc'[i] = "accept"
    BY <1>5, <2>1, <2>2 DEF Look, Goto
  <2>4. disk["scirust"][1] \in SummaryFile
    <3>1. "scirust" \in DOMAIN disk
      BY DEF CapsulesAreSeen
    <3> QED
      BY <3>1 DEF ImportsAreFollowed
  <2>5. HandedSummary(seen'[i])
    BY <2>3, <2>4 DEF HandedSummary
  <2>6. ~Run!IsFinalized(run'[i])
    BY <2>1, OpenIsNotSealed
  <2> QED
    BY <2>1, <2>3, <2>5, <2>6 DEF ImportOf, Early, HandedSummary
<1>6. CASE Accept(i)
  <2>1. /\ pc[i] = "accept" /\ pc'[i] = "create_run" /\ seen' = seen /\ run' = run
        /\ calls' = calls
    BY <1>1, <1>6 DEF Accept, Goto
  <2>2. ~Run!IsFinalized(run'[i])
    BY <1>1, <2>1, ImportIsOpen DEF Early
  <2> QED
    BY <1>1, <2>1, <2>2 DEF ImportOf, Early
<1>7. CASE Refuse(i)
  BY <1>3, <1>7 DEF Refuse, Leave, HasWorkRoot, Early
<1>8. CASE CreateRun(i)
  <2>1. /\ pc[i] = "create_run" /\ pc'[i] = "documents" /\ seen' = seen /\ calls' = calls
        /\ calls[i] = 0 /\ HandedSummary(seen[i]) /\ Accepts(request[i], seen[i])
        /\ run'[i] = [Run!Nothing EXCEPT ![Run!RunPath] = RunDocument("planning")]
    BY <1>1, <1>8 DEF CreateRun, Goto, ImportOf, Early, SealsAreSupported
  <2>2. Documented(i)' = Documented(i)
    BY <1>2, <2>1 DEF Documented
  <2> DEFINE n == Len(Scirust!Gates(Scirust!Doc(seen[i][1]).lines))
  <2>3. n \in Nat /\ IsImport(Documented(i), n)
    <3>1. Scirust!Accepts(seen[i])
      BY <2>1 DEF Accepts
    <3> QED
      BY <2>1, <3>1, ImportDocuments DEF Documented
  <2> HIDE DEF n
  <2>4. /\ Len(Planned) = 4 /\ CallCount(Documented(i)) = 2 * n + 6
        /\ AppendedBy(Documented(i), 0) = {}
    <3>1. Len(Planned) = 4
      BY DEF Planned
    <3> QED
      BY <2>3, <3>1 DEF IsImport, CallCount, AppendedBy
  <2>5. /\ Run!RunPath \in Run!Path /\ Run!ExecutionsPath \in Run!Path
        /\ Run!ExecutionsPath # Run!RunPath
    BY DEF Run!Path, Run!Documents, Run!RunPath, Run!ExecutionsPath
  <2>6. /\ run'[i] = [p \in Run!Path |-> run'[i][p]]
        /\ run'[i][Run!RunPath] = RunDocument("planning")
        /\ run'[i][Run!ExecutionsPath] = Absent
    BY <2>1, <2>5 DEF Run!Nothing
  <2>7. Run!RecordedExecutions(run'[i]) = {}
    BY <2>6 DEF Run!RecordedExecutions
  <2>8. /\ AsImported(run'[i], Documented(i), 0)
        /\ 0 # CallCount(Documented(i))
    <3>1. 0 \in 0..CallCount(Documented(i)) /\ 0 # CallCount(Documented(i))
      BY <2>3, <2>4
    <3> QED
      BY <2>4, <2>6, <2>7, <3>1 DEF AsImported
  <2>9. ~Run!IsFinalized(run'[i])
    BY <2>6, OpenIsNotSealed
  <2> QED
    BY <2>1, <2>2, <2>8, <2>9 DEF ImportOf, Early
<1>9. CASE WriteDocument(i)
  <2> DEFINE documents == Documented(i)
             n == calls[i] + 1
             Refused == Leave(i, FailureCode(i)) /\ UNCHANGED <<calls, run>>
             Written ==
               /\ run' = [run EXCEPT ![i] = AfterCall(@, documents, n)]
               /\ calls' = [calls EXCEPT ![i] = n]
               /\ Goto(i, IF n = CallCount(documents) THEN "finalize" ELSE "documents")
  <2>1. CASE Refused
    <3>1. pc[i] = "documents" /\ pc'[i] = "ended" /\ seen' = seen
      BY <1>1, <1>9, <2>1 DEF WriteDocument, Leave, HasWorkRoot
    <3> QED
      BY <1>3, <2>1, <3>1
  <2>2. CASE Written
    <3>1. /\ pc[i] = "documents" /\ AsImported(run[i], documents, calls[i])
          /\ HandedSummary(seen[i]) /\ Accepts(request[i], seen[i]) /\ seen' = seen
      BY <1>1, <1>9 DEF WriteDocument, ImportOf, SealsAreSupported
    <3>2. PICK count \in Nat : IsImport(documents, count)
      <4>1. Scirust!Accepts(seen[i])
        BY <3>1 DEF Accepts
      <4> QED
        BY <3>1, <4>1, ImportDocuments DEF Documented
    <3>3. calls[i] # CallCount(documents)
      BY <1>1, <3>1 DEF ImportOf
    <3>4. AsImported(AfterCall(run[i], documents, n), documents, n)
      <4> HIDE DEF documents
      <4> QED
        BY <3>1, <3>2, <3>3, CallsImport
    <3>5. Documented(i)' = documents
      BY <1>2, <3>1 DEF Documented
    <3>6. /\ run'[i] = AfterCall(run[i], documents, n) /\ calls'[i] = n
          /\ pc'[i] = IF n = CallCount(documents) THEN "finalize" ELSE "documents"
      BY <2>2 DEF Goto
    <3> HIDE DEF documents, n
    <3>7. ~Run!IsFinalized(run'[i])
      BY <3>4, <3>6, OpenIsNotSealed DEF AsImported
    <3> QED
      BY <3>1, <3>4, <3>5, <3>6, <3>7 DEF ImportOf, Early
  <2> QED
    <3>1. Refused \/ Written
      BY <1>9 DEF WriteDocument, Documented
    <3> HIDE DEF Refused, Written
    <3> QED
      BY <2>1, <2>2, <3>1
<1>10. CASE Finalize(i)
  <2>1. CASE Leave(i, FailureCode(i)) /\ UNCHANGED run
    <3>1. pc[i] = "finalize" /\ pc'[i] = "ended" /\ seen' = seen /\ calls' = calls
      BY <1>1, <1>10, <2>1 DEF Finalize, Leave, HasWorkRoot
    <3> QED
      BY <1>3, <2>1, <3>1
  <2>2. CASE /\ run' = [run EXCEPT ![i][Run!RunPath] = RunDocument("finalized")]
             /\ Leave(i, Scirust!ExitCode(run[i][Run!ReportPath].evaluations))
    <3>1. /\ pc[i] = "finalize" /\ AsImported(run[i], Documented(i), calls[i])
          /\ calls[i] = CallCount(Documented(i)) /\ HandedSummary(seen[i])
          /\ Accepts(request[i], seen[i]) /\ seen' = seen
      BY <1>1, <1>10 DEF Finalize, ImportOf, SealsAreSupported
    <3>2. PICK count \in Nat : IsImport(Documented(i), count)
      <4>1. Scirust!Accepts(seen[i])
        BY <3>1 DEF Accepts
      <4> QED
        BY <3>1, <4>1, ImportDocuments DEF Documented
    <3>3. /\ pc'[i] = "ended"
          /\ exit'[i] = Scirust!ExitCode(run[i][Run!ReportPath].evaluations)
      BY <1>1, <2>2 DEF Leave, HasWorkRoot
    <3>4. exit'[i] = Scirust!ExitCode(Documented(i).evaluations)
      <4>1. run[i][Run!ReportPath] = [evaluations |-> Documented(i).evaluations]
        BY <3>1 DEF AsImported
      <4>2. run[i][Run!ReportPath].evaluations = Documented(i).evaluations
        BY <4>1
      <4> QED
        BY <3>3, <4>2
    <3>5. \A x \in DOMAIN Documented(i).executions :
            Documented(i).executions[x] \in Run!RecordedExecutions(run[i])
      <4>1. Run!RecordedExecutions(run[i]) = AppendedBy(Documented(i), CallCount(Documented(i)))
        BY <3>1 DEF AsImported
      <4>2. /\ Len(Planned) = 4 /\ Len(Documented(i).evidence) = count + 1
            /\ DOMAIN Documented(i).executions = 1..count
            /\ CallCount(Documented(i)) = 2 * count + 6
        BY <3>2 DEF IsImport, CallCount, Planned
      <4>3. \A x \in DOMAIN Documented(i).executions :
              Len(Planned) + Len(Documented(i).evidence) + x <= CallCount(Documented(i))
        BY <4>2
      <4> QED
        BY <4>1, <4>3 DEF AppendedBy
    <3>6. Run!RecordedExecutions(run'[i]) = Run!RecordedExecutions(run[i])
      <4>1. Run!ExecutionsPath # Run!RunPath
        BY DEF Run!RunPath, Run!ExecutionsPath
      <4>2. run'[i] = [run[i] EXCEPT ![Run!RunPath] = RunDocument("finalized")]
        BY <2>2
      <4>3. run'[i][Run!ExecutionsPath] = run[i][Run!ExecutionsPath]
        <5>1. DOMAIN run[i] = Run!Path /\ Run!ExecutionsPath \in Run!Path
          BY <3>1 DEF AsImported, Run!Path, Run!Documents
        <5> QED
          BY <4>1, <4>2, <5>1
      <4> QED
        BY <4>3 DEF Run!RecordedExecutions
    <3>7. Documented(i)' = Documented(i)
      BY <1>2, <3>1 DEF Documented
    <3> QED
      BY <1>2, <3>1, <3>3, <3>4, <3>5, <3>6, <3>7 DEF ImportOf, Early
  <2> QED
    BY <1>10, <2>1, <2>2 DEF Finalize
<1>11. CASE Fault(i)
  <2>1. /\ pc[i] \in Early \cup {"documents", "finalize"} /\ pc'[i] = "ended"
        /\ seen' = seen /\ run' = run /\ calls' = calls
    BY <1>1, <1>11 DEF Fault, Leave, HasWorkRoot, Fallible, Early
  <2> QED
    BY <1>3, <2>1
<1>12. CASE Kill(i)
  <2>1. /\ pc[i] \notin {"ended", "killed"} /\ pc'[i] = "killed"
        /\ seen' = seen /\ run' = run /\ calls' = calls
    BY <1>12 DEF Kill, Goto, Alive
  <2>2. ~Run!IsFinalized(run'[i])
    BY <1>1, <2>1 DEF ImportOf
  <2> QED
    BY <2>1, <2>2 DEF ImportOf, Early
<1>13. /\ ~CheckOutput(i) /\ ~MakeWorkRoot(i) /\ ~Verify(i) /\ ~CreateOutput(i)
       /\ ~CopyFile(i) /\ ~Discard(i) /\ ~Cleanup(i)
  BY <1>1 DEF CheckOutput, MakeWorkRoot, Verify, CreateOutput, CopyFile, Discard, Cleanup
<1>14. \/ \E p \in Pids : Start(i, p)
       \/ Look(i) \/ Accept(i) \/ Refuse(i) \/ CreateRun(i) \/ WriteDocument(i) \/ Finalize(i)
       \/ Fault(i) \/ Kill(i)
  BY <1>13 DEF Step
<1> QED
  BY <1>4, <1>5, <1>6, <1>7, <1>8, <1>9, <1>10, <1>11, <1>12, <1>14

LEMMA NextKeepsImports == JInv /\ ImportsAreFollowed /\ [Next]_vars => ImportsAreFollowed'
<1> SUFFICES ASSUME JInv, ImportsAreFollowed, [Next]_vars PROVE ImportsAreFollowed'
  OBVIOUS
<1> DEFINE Handed == "scirust" \in DOMAIN disk =>
                       DOMAIN disk["scirust"] = {1} /\ disk["scirust"][1] \in SummaryFile
<1>1. ASSUME NEW i \in Invocation,
             (\E p \in Pids : Start(i, p)) \/ Step(i) \/ Fault(i) \/ Kill(i)
      PROVE  ImportsAreFollowed'
  <2>1. disk' = disk
    BY <1>1 DEF Step, Start, CheckOutput, Look, Accept, Refuse, MakeWorkRoot, CreateRun,
                WriteDocument, Finalize, Verify, CreateOutput, CopyFile, Discard, Cleanup,
                Fault, Kill
  <2>2. request' = request /\ Invocation' = Invocation
    BY <1>1, OthersStay DEF JInv, EInv, IInv, Invocation
  <2>3. ASSUME NEW j \in Invocation, j # i, request[j] = "scirust" PROVE ImportOf(j)'
    <3>1. /\ pc'[j] = pc[j] /\ exit'[j] = exit[j] /\ run'[j] = run[j]
          /\ calls'[j] = calls[j] /\ seen'[j] = seen[j]
      BY <1>1, <2>3, OthersStay DEF JInv, EInv, IInv
    <3>2. Documented(j)' = Documented(j)
      BY <2>2, <3>1 DEF Documented
    <3> QED
      BY <2>2, <2>3, <3>1, <3>2 DEF ImportsAreFollowed, ImportOf
  <2>4. request[i] = "scirust" => ImportOf(i)'
    BY <1>1, NextKeepsImport
  <2>5. Handed'
    BY <2>1 DEF ImportsAreFollowed
  <2> QED
    BY <2>2, <2>3, <2>4, <2>5 DEF ImportsAreFollowed
<1>2. ASSUME NEW p \in Program, Replace(p) PROVE ImportsAreFollowed'
  <2>1. PICK files \in Inputs[p] : \E slot \in DOMAIN files :
          disk' = [disk EXCEPT ![p][slot] = files[slot]]
    BY <1>2 DEF Replace
  <2>2. PICK slot \in DOMAIN files : disk' = [disk EXCEPT ![p][slot] = files[slot]]
    BY <2>1
  <2>3. Handed'
    <3>1. CASE p # "scirust"
      BY <2>2, <3>1 DEF ImportsAreFollowed
    <3>2. CASE p = "scirust"
      <4>1. slot = 1 /\ files[1] \in SummaryFile
        BY <2>1, <2>2, <3>2, SummariesAreDecoded DEF SummaryFile
      <4> QED
        BY <2>2, <3>2, <4>1 DEF ImportsAreFollowed
    <3> QED
      BY <3>1, <3>2
  <2>4. UNCHANGED <<request, pc, pid, seen, calls, run, exit, work, output, kept>>
    BY <1>2, WorldStays
  <2>5. \A i \in Invocation' : request'[i] = "scirust" => ImportOf(i)'
    BY <2>4 DEF ImportsAreFollowed, ImportOf, Documented, Invocation
  <2> QED
    BY <2>3, <2>5 DEF ImportsAreFollowed
<1>3. ASSUME AllDone \/ UNCHANGED vars PROVE ImportsAreFollowed'
  BY <1>3 DEF AllDone, vars, ImportsAreFollowed, ImportOf, Documented, Invocation
<1> QED
  BY <1>1, <1>2, <1>3 DEF Next

LEMMA ImportsHold == Spec => []HInv
<1>1. Init => ImportsAreFollowed
  <2> SUFFICES ASSUME Init PROVE ImportsAreFollowed
    OBVIOUS
  <2>1. \A p \in DOMAIN disk : disk[p] \in Inputs[p]
    BY DEF Init
  <2>2. "scirust" \in DOMAIN disk =>
          DOMAIN disk["scirust"] = {1} /\ disk["scirust"][1] \in SummaryFile
    BY <2>1, SummariesAreDecoded DEF SummaryFile
  <2>3. ASSUME NEW i \in Invocation PROVE ImportOf(i)
    <3>1. /\ pc[i] = "new" /\ seen[i] = <<>> /\ run[i] = Run!Nothing /\ calls[i] = 0
      BY DEF Init, Invocation
    <3>2. ~Run!IsFinalized(run[i])
      BY <3>1, OpenIsNotSealed
    <3> QED
      BY <3>1, <3>2 DEF ImportOf
  <2> QED
    BY <2>2, <2>3 DEF ImportsAreFollowed
<1>2. Spec => []ImportsAreFollowed
  BY <1>1, SupportHolds, NextKeepsImports, PTL DEF Spec
<1> QED
  BY <1>2, SupportHolds, PTL DEF HInv

(* `ingest scirust` flattens nothing: in the run it seals every gate has   *)
(* its own status, exit 0 hides no required failure and exit 1 invents     *)
(* none, for any summary whose gates are named once.                       *)
THEOREM ImportsAreHonest == Spec => []ImportIsHonest
<1>1. HInv => ImportIsHonest
  <2> SUFFICES ASSUME HInv, NEW i \in SealedBy("scirust"),
                      NamedOnce(Scirust!Gates(Scirust!Doc(seen[i][1]).lines))
               PROVE  LET gates == Scirust!Gates(Scirust!Doc(seen[i][1]).lines)
                          Status(required) ==
                            {gates[g].status : g \in {h \in DOMAIN gates :
                                                 gates[h].required \in {required, TRUE}}}
                      IN /\ \A g \in DOMAIN gates : \E x \in Run!RecordedExecutions(run[i]) :
                              /\ x.check = Scirust!CheckOf(gates[g])
                              /\ (x.outcome = "verified") = (gates[g].status = "PASS")
                              /\ (x.outcome = "failed") = (gates[g].status = "FAIL")
                         /\ exit[i] = 0 => "FAIL" \notin Status(TRUE)
                         /\ exit[i] = 1 => "FAIL" \in Status(FALSE)
    BY DEF ImportIsHonest, NamedOnce
  <2> DEFINE gates == Scirust!Gates(Scirust!Doc(seen[i][1]).lines)
             Status(required) == {gates[g].status : g \in {h \in DOMAIN gates :
                                                   gates[h].required \in {required, TRUE}}}
  <2>1. /\ HandedSummary(seen[i]) /\ Scirust!Accepts(seen[i])
        /\ \A x \in DOMAIN Documented(i).executions :
             Documented(i).executions[x] \in Run!RecordedExecutions(run[i])
        /\ exit[i] = Scirust!ExitCode(Documented(i).evaluations)
    BY DEF HInv, ImportsAreFollowed, ImportOf, SealedBy, Accepts
  <2>2. AreGates(gates)
    BY <2>1, AcceptedGates DEF AreGates
  <2>3. /\ Documented(i).executions = Scirust!GateExecutions(gates)
        /\ Documented(i).evaluations = Scirust!Evaluations(gates)
    BY DEF Documented, DocumentsOf, Scirust!Documents, SealedBy
  <2> HIDE DEF gates
  <2>4. ASSUME NEW g \in DOMAIN gates
        PROVE  \E x \in Run!RecordedExecutions(run[i]) :
                 /\ x.check = Scirust!CheckOf(gates[g])
                 /\ (x.outcome = "verified") = (gates[g].status = "PASS")
                 /\ (x.outcome = "failed") = (gates[g].status = "FAIL")
    <3> DEFINE x == Scirust!GateExecutions(gates)[g]
    <3>0. NamedOnce(gates)
      BY DEF gates
    <3>1. /\ DOMAIN Scirust!GateExecutions(gates) = DOMAIN gates
          /\ x.check = Scirust!CheckOf(gates[g])
          /\ x.outcome = Scirust!ToVerdict[gates[g].status]
      BY <2>2, <3>0, StatusIsOutcome
    <3>2. x \in Run!RecordedExecutions(run[i])
      BY <2>1, <2>3, <3>1
    <3>3. gates[g].status \in Scirust!GateStatus
      BY <2>2 DEF AreGates
    <3> HIDE DEF x
    <3>4. /\ x.outcome = "verified" <=> gates[g].status = "PASS"
          /\ x.outcome = "failed" <=> gates[g].status = "FAIL"
      BY <3>1, <3>3, VerdictsOfStatuses
    <3> QED
      BY <3>1, <3>2, <3>4
  <2>5. /\ exit[i] = 0 => \A g \in DOMAIN gates : gates[g].required => gates[g].status # "FAIL"
        /\ exit[i] = 1 => \E g \in DOMAIN gates : gates[g].status = "FAIL"
    <3>1. NamedOnce(gates)
      BY DEF gates
    <3> QED
      BY <2>1, <2>2, <2>3, <3>1, ExitIsHonest
  <2>6. \A g \in DOMAIN gates : gates[g].required \in BOOLEAN
    BY <2>2 DEF AreGates
  <2>7. exit[i] = 0 => "FAIL" \notin Status(TRUE)
    BY <2>5, <2>6
  <2>8. exit[i] = 1 => "FAIL" \in Status(FALSE)
    BY <2>5, <2>6
  <2> QED
    BY <2>4, <2>7, <2>8 DEF gates
<1> QED
  BY <1>1, ImportsHold, PTL
=============================================================================
