----------------------------- MODULE StateStore -----------------------------
(***************************************************************************)
(* What the state file promises: a cell that is replaced as a whole.       *)
(*                                                                         *)
(* A reader sees nothing or one whole state, whatever fails on the way.  A *)
(* replacement may be undone by a power loss until it has settled, and     *)
(* then for no longer.                                                     *)
(***************************************************************************)
CONSTANTS
  Cell,             \* what the cell may hold
  Nothing           \* it holds nothing

VARIABLES
  shown,            \* what a reader sees
  kept              \* what a reader may see after a power loss

StoreInit ==
  /\ shown \in Cell \cup {Nothing}
  /\ kept = {shown}

Replace(v) ==
  /\ shown' = v
  /\ kept' = kept \cup {v}

Settle ==
  /\ kept' = {shown}
  /\ UNCHANGED shown

PowerLoss ==
  /\ shown' \in kept
  /\ kept' = {shown'}

StoreNext ==
  \/ \E v \in Cell \cup {Nothing} : Replace(v)
  \/ Settle
  \/ PowerLoss

StoreSpec == StoreInit /\ [][StoreNext]_<<shown, kept>>
=============================================================================
