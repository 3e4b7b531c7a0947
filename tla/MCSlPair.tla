------------------------------ MODULE MCSlPair ------------------------------
(***************************************************************************)
(* A link of two terminals on small instances.                             *)
(***************************************************************************)
EXTENDS SlPair
MCPdu == 1..MaxMsg
MCAbate == <<1, 2, 3>>
MCOnset == <<2, 3, 4>>
MCDiscd == <<3, 4, 5>>
Free == {<<TRUE, TRUE>>}
NextFlow == BOOLEAN \X {TRUE}
=============================================================================
