------------------------------ MODULE SlService ------------------------------
(***************************************************************************)
(* What a signalling link promises the level 3 of its ends, without any of *)
(* the protocol: PDUs, numbered as they are sent, come out at the other    *)
(* end in the order in which they were sent, none missing and none twice,  *)
(* and none forever under way.                                             *)
(***************************************************************************)
EXTENDS Naturals, Sequences

CONSTANT MaxMsg     \* PDUs that level 3 sends

VARIABLES
  given,            \* how many PDUs level 3 gave to the link
  taken             \* the PDUs that came out of it

vars == <<given, taken>>

Init == given = 0 /\ taken = <<>>

Give ==
  /\ given < MaxMsg
  /\ given' = given + 1
  /\ UNCHANGED taken

\* Level 3 takes one or several at a time.
Take ==
  \E n \in Len(taken) + 1 .. given :
    /\ taken' = [i \in 1..n |-> i]
    /\ UNCHANGED given

Next == Give \/ Take

Spec == Init /\ [][Next]_vars /\ WF_vars(Take)
=============================================================================
