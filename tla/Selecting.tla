------------------------------- MODULE Selecting -------------------------------
(* Of Python's lists and dicts: what a comprehension over a list with a    *)
(* condition, or a deque after remove(), is: the members of a sequence that *)
(* are in a set, in their order; what sorted() is of values that have an    *)
(* order; and what update() makes of a dict.  SelectSeq, SortSeq and @@ are *)
(* the same, but unknown to the prover: Kept is defined by the places it    *)
(* keeps, Sorted by how any two members are placed.                         *)
EXTENDS Naturals, Sequences, FiniteSets

Kept(s, keep) ==
    LET places == {i \in DOMAIN s : s[i] \in keep}
    IN  [k \in 1..Cardinality(places) |->
            s[CHOOSE i \in places : Cardinality({j \in places : j < i}) = k - 1]]

\* the members of S, each of them before those that R has it before
Sorted(S, R) ==
    CHOOSE s \in [1..Cardinality(S) -> S] :
        \A i, j \in 1..Cardinality(S) : i < j => <<s[i], s[j]>> \in R

\* dict.update
Updated(f, g) == [x \in DOMAIN f \cup DOMAIN g |-> IF x \in DOMAIN g THEN g[x] ELSE f[x]]
===============================================================================
