------------------------------ MODULE MCHistory -----------------------------
(* Model checking instance of History. *)
EXTENDS History

CONSTANT n1

\* Rules that retain everything but n1, that retain property events only, and
\* rules for other things only.
SomeRules == {
    [defined |-> TRUE, rule |-> [n \in EventNames \cup {AnyName} |->
        CASE n = n1 -> "drop" [] n = AnyName -> "retain" [] OTHER -> "none"]],
    [defined |-> TRUE, rule |-> [n \in EventNames \cup {AnyName} |->
        IF n = PropsEvent THEN "retain" ELSE "none"]],
    [NoRules EXCEPT !.defined = TRUE] }

\* Property events, and ones whose data is not a map.
AnySet == {Names, {}}

=============================================================================
