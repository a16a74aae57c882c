------------------------------- MODULE Places -------------------------------
(***************************************************************************)
(* Lists told by what they are made of: the positions of a set, one after  *)
(* the other, and those of a list that are in a set.                       *)
(***************************************************************************)
EXTENDS Naturals, FiniteSets, SequencesExt

\* The positions of a set, one after the other.
InOrder(positions) ==
    CHOOSE s \in [1..Cardinality(positions) -> positions] :
        \A i, j \in DOMAIN s : i < j => s[i] < s[j]

\* One, where the condition holds.
Only(item, condition) == IF condition THEN <<item>> ELSE <<>>

\* Those of a list that are in a set, in its order.
Those(list, set) == FlattenSeq([k \in DOMAIN list |-> Only(list[k], list[k] \in set)])

=============================================================================
