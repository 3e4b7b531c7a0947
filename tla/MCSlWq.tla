------------------------------- MODULE MCSlWq -------------------------------
(***************************************************************************)
(* The write queue on small instances.                                     *)
(***************************************************************************)
EXTENDS SlWq
MCAbate == <<1, 3, 5>>
MCOnset == <<2, 4, 6>>
MCDiscd == <<3, 5, 7>>
=============================================================================
