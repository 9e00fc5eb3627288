------------------------------ MODULE Selection ------------------------------
(***************************************************************************)
(* How the code picks from what it has: sorted by several keys, one of a      *)
(* kind, and not more than a limit.                                           *)
(***************************************************************************)
EXTENDS Integers, Sequences, FiniteSets, SequencesExt, FiniteSetsExt

(* The first n elements of a sequence, or all of them.                       *)
First(s, n) == SubSeq(s, 1, IF Len(s) < n THEN Len(s) ELSE n)

(* The elements of a set in an order that is total on it.                     *)
Sorted(S, Before(_, _)) ==
    [n \in 1 .. Cardinality(S) |-> CHOOSE x \in S : Cardinality({y \in S : Before(y, x)}) = n - 1]

(* The elements of which no earlier one has the same key.                    *)
FirstPer(s, Key(_)) ==
    LET new == Sorted({i \in DOMAIN s : \A j \in 1 .. i - 1 : Key(s[j]) # Key(s[i])}, <)
    IN  [n \in DOMAIN new |-> s[new[n]]]

(* The elements of a set, those with the greatest key first.                 *)
Ranked(S, Key(_)) ==
    Sorted(S, LAMBDA x, y :
        \E i \in DOMAIN Key(x) :
            /\ Key(x)[i] > Key(y)[i]
            /\ \A j \in 1 .. i - 1 : Key(x)[j] = Key(y)[j])
=============================================================================
