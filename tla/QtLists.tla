------------------------------ MODULE QtLists -------------------------------
(***************************************************************************)
(* QList::removeAll, for one element and for the elements of a set, as a   *)
(* recursive function: SelectSeq has no definition that can be unfolded.   *)
(***************************************************************************)
EXTENDS Integers, Sequences

\* The entries of list that are not in E, in their order.
Without(list, E) ==
  LET kept[i \in 0..Len(list)] ==
        IF i = 0 THEN <<>>
        ELSE IF list[i] \in E THEN kept[i - 1] ELSE Append(kept[i - 1], list[i])
  IN  kept[Len(list)]

removeAll(list, e) == Without(list, {e})
=============================================================================
