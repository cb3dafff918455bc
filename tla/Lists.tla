-------------------------------- MODULE Lists ---------------------------------
(***************************************************************************)
(* Arrays as the views use them.                                           *)
(***************************************************************************)
EXTENDS Integers, SequencesExt

\* Array.filter: those of a list that are in S, in their order.
Keep(list, S) ==
    FoldLeft(LAMBDA kept, x : IF x \in S THEN Append(kept, x) ELSE kept, <<>>, list)
=============================================================================
