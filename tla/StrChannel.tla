----------------------------- MODULE StrChannel -----------------------------
(***************************************************************************)
(* What one direction of two connected streams promises its users: a       *)
(* message that was written can be read, unless a flush discards it, and   *)
(* flow control bounds the number of messages under way.  The order is not *)
(* part of the promise.                                                    *)
(***************************************************************************)
EXTENDS Naturals

CONSTANT Capacity

VARIABLES
  transit,   \* the number of messages written, and neither read nor discarded
  flushing   \* a flush is under way

vars == <<transit, flushing>>

Init == transit = 0 /\ flushing = FALSE

Send ==
  /\ transit < Capacity
  /\ transit' = transit + 1
  /\ UNCHANGED flushing

Receive ==
  /\ transit > 0
  /\ transit' = transit - 1
  /\ UNCHANGED flushing

Flush ==
  /\ flushing \/ flushing'
  /\ flushing' \in BOOLEAN /\ transit' \in 0 .. transit

Next == Send \/ Receive \/ Flush

Spec == Init /\ [][Next]_vars
=============================================================================
