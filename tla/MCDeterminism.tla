--------------------------- MODULE MCDeterminism ---------------------------
(* Values for TLC of the constants of Determinism.                         *)
EXTENDS Determinism

CONSTANTS h1, h2, h3

(* Two outputs that differ, but not in their observations; one that does   *)
(* not parse; one without observations.                                    *)
Heads == {h1, h2, h3, EmptyHead}
Parsed == [h \in Heads |->
  CASE h \in {h1, h2} -> <<"fingerprint">> [] h = h3 -> Unparseable [] OTHER -> <<>>]

TwiceAndThreads(levels) ==
  {[runs |-> 2, mode |-> m, thread_levels |-> levels] : m \in Modes}

(* Repetitions alone, a thread level, and one that is named twice.         *)
AnyConfiguration == TwiceAndThreads(<<>>) \cup TwiceAndThreads(<<4>>)
                    \cup TwiceAndThreads(<<4, 4>>)

=============================================================================
