-------------------------- MODULE MCCommandChecks --------------------------
(* Values for TLC of the constants of CommandChecks.                       *)
EXTENDS CommandChecks

(* A line with the fields that f gives and none of the others.             *)
Line(kind, f) ==
  LET Fields == {"expected", "observed", "value", "fingerprint", "unit", "holds", "description"}
  IN [x \in Fields \cup {"kind", "name"} |->
        CASE x = "kind" -> kind
          [] x \in DOMAIN f -> f[x]
          [] x = "name" /\ x \notin DOMAIN f -> "text"
          [] OTHER -> Nothing]

Comparison(e, o) == Line("numeric_comparison", [expected |-> e, observed |-> o])
Property(holds) == Line("property", [holds |-> holds, description |-> "text"])

(* One and its successor, one and the largest float, one and one.          *)
Near  == Comparison(8, 9)
Far   == Comparison(8, 23)
Equal == Comparison(8, 8)

Lines ==
  {Plain, Broken, Near, Far, Equal, Property(TRUE), Property(FALSE),
   Line("fingerprint", [value |-> "hex"]), Line("fingerprint", [fingerprint |-> "text"]),
   Line("metric", [value |-> "number", unit |-> "text"]),
   Line("metric", [value |-> "number"]),
   Line("numeric_comparison", [expected |-> 8]), Line("other", <<>>),
   Line("property", [name |-> "blank", holds |-> TRUE, description |-> "text"])}

SoundLines == {line \in Lines : IsMarked(line) /\ IsSound(line)}

Exact ==
         [absolute |-> Nothing, relative |-> Nothing, max_ulps |-> Nothing,
          strict_signed_zero |-> FALSE]

Tolerances ==
  {Exact, [Exact EXCEPT !.strict_signed_zero = TRUE],
   [Exact EXCEPT !.absolute = 1], [Exact EXCEPT !.absolute = 8],
   [Exact EXCEPT !.relative = 3], [Exact EXCEPT !.relative = 14],
   [Exact EXCEPT !.max_ulps = 1],
   [Exact EXCEPT !.max_ulps = 2, !.strict_signed_zero = TRUE],
   [Exact EXCEPT !.absolute = 2, !.relative = 3]}

Declared(provider, words) ==
  [id |-> <<provider, ":">> \o words, provider |-> provider, expect |-> "success",
   probes |-> FALSE]

Cargo(word, expect, probes) ==
  [id |-> <<"cargo", ":", word>>, provider |-> "cargo", expect |-> expect, probes |-> probes]

Pairs == {p \in Finite \X Finite : p[1] <= p[2]}

Ends(exits, outputs) == [exit : exits, lines : outputs] \cup [exit : {"spawn_failed"}, lines : {<<>>}]

(* Every two finite floats under every tolerance; every output of two      *)
(* lines; checks whose ids are alike but for a separator, and others.      *)
AnyProject ==
  {[checks |-> <<Declared("numeric", <<"a">>)>>, tolerance |-> t,
    ends |-> [exit : {"zero"}, lines : {<<Comparison(p[1], p[2])>>}]] : t \in Tolerances, p \in Pairs}
  \cup
  {[checks |-> <<Declared("numeric", <<"a">>)>>, tolerance |-> [Exact EXCEPT !.max_ulps = 1],
    ends |-> Ends({"zero", "nonzero", "signal", "timed_out"}, {<<l, m>> : l, m \in Lines})]}
  \cup
  {[checks |-> checks, tolerance |-> Exact,
    ends |-> Ends({"zero", "nonzero"}, {<<>>, <<Near>>, <<Plain, Equal>>})] :
     checks \in
       {<<Cargo("metadata", "ignore", FALSE), Cargo("fmt", "success", TRUE)>>,
        <<Declared("custom", <<"a", "-", "b">>), Declared("custom", <<"a", ":", "b">>)>>}}

=============================================================================
