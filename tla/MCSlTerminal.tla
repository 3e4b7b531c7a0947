---------------------------- MODULE MCSlTerminal ----------------------------
(***************************************************************************)
(* One terminal on small instances.                                        *)
(***************************************************************************)
EXTENDS SlTerminal

MCAbate == <<1, 3, 5>>
MCOnset == <<2, 4, 6>>
MCDiscd == <<3, 5, 7>>

AllSio(x) == {[type |-> "LSSU", fsn |-> Mod - 1, fib |-> 1, bsn |-> Mod - 1, bib |-> 1, sio |-> i] : i \in x}
FirstFisu == [type |-> "FISU", fsn |-> Mod - 1, fib |-> 1, bsn |-> Mod - 1, bib |-> 1]

\* Level 3 and peer of the alignment runs: every status unit, and a FISU.
AlignmentRequests == {"POWER_ON", "START", "STOP", "EMERGENCY", "EMERGENCY_CEASES",
                      "LOCAL_PROCESSOR_OUTAGE", "RESUME"}
AlignmentSus == AllSio(Sio) \cup {FirstFisu}
Free == {<<TRUE, TRUE>>}

\* Level 3 and peer of the outage runs: processor outage, traffic, buffers.
OutageRequests == {"POWER_ON", "START", "LOCAL_PROCESSOR_OUTAGE", "RESUME",
                   "CLEAR_BUFFERS", "PDU"}
BufferRequests == OutageRequests \cup {"CLEAR_RTB", "RETRIEVAL"}
OutageSus == AllSio({"SIN", "SIPO", "SIB"}) \cup {[FirstFisu EXCEPT !.bsn = n] : n \in Sn}
NoBusySus == {su \in OutageSus : su.type = "LSSU" => su.sio # "SIB"}

\* Level 3 and peer of the congestion runs: messages arrive, flow control is
\* anything, and level 3 has its own congestion policy.
CongestionRequests == {"POWER_ON", "START", "STOP", "CONGESTION_DISCARD",
                       "CONGESTION_ACCEPT", "NO_CONGESTION", "LOCAL_PROCESSOR_OUTAGE", "RESUME",
                       "CLEAR_BUFFERS"}
FirstMsus == {[type |-> "MSU", fsn |-> n, fib |-> 1, bsn |-> Mod - 1, bib |-> 1, pdu |-> p] :
                n \in Sn, p \in Pdu}
CongestionSus == AllSio({"SIN", "SIPO"}) \cup {FirstFisu} \cup FirstMsus
AnyFlow == BOOLEAN \X BOOLEAN
=============================================================================
