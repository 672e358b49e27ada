-------------------------------- MODULE Lists --------------------------------
(* Filtering a list, in a form the provers can unfold.                     *)
EXTENDS Integers, SequencesExt

(***************************************************************************)
(* The elements of q that belong to S, in their order.  Written as a       *)
(* recursive function, since the provers see no definition of SelectSeq.   *)
(***************************************************************************)
Keep(q, S) ==
  LET kept[i \in 0..Len(q)] ==
        IF i = 0 THEN <<>>
        ELSE IF q[i] \in S THEN Append(kept[i - 1], q[i]) ELSE kept[i - 1]
  IN  kept[Len(q)]
=============================================================================
