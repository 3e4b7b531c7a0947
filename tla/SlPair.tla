------------------------------- MODULE SlPair -------------------------------
(***************************************************************************)
(* Two terminals of sl_tpi.c, one at each end of a signalling link, from   *)
(* the moment that they are in service.  The level 3 of "A" sends the PDUs *)
(* 1, 2, ..., and the transport provider may lose signal units but keeps   *)
(* their order.                                                            *)
(***************************************************************************)
EXTENDS SlRc, FiniteSets

CONSTANTS
  MaxMsg,       \* PDUs that level 3 sends
  MaxChan,      \* signal units under way in one direction
  MaxLoss,      \* signal units that may be lost
  Expiring,     \* the timers that may expire
  FlowStates    \* what canputnext and canput may answer: pairs of Booleans

ASSUME PairAssumption ==
  /\ Pdu = 1..MaxMsg
  /\ {MaxMsg, MaxChan, MaxLoss} \subseteq Nat
  /\ Expiring \subseteq Timer
  /\ FlowStates \subseteq BOOLEAN \X BOOLEAN

VARIABLES
  st,           \* the private structure of each terminal
  ch,           \* the signal units on their way to each terminal
  sent,         \* how many PDUs level 3 of A sent
  up,           \* the PDUs that level 3 of B received, a history variable
  lost          \* how many signal units were lost, a history variable

vars == <<st, ch, sent, up, lost>>

Node == {"A", "B"}
Peer(n) == CHOOSE m \in Node : m # n

Init ==
  /\ st = [n \in Node |-> InService]
  /\ ch = [n \in Node |-> <<>>]
  /\ sent = 0 /\ up = <<>> /\ lost = 0

------------------------------------------------------------------------------
\* Level 3 of A sends its next PDU.
Send ==
  /\ sent < MaxMsg /\ ~PduRefused(st["A"])
  /\ sent' = sent + 1
  /\ st' = [st EXCEPT !["A"] = sl_lsc_pdu(@, sent + 1)]
  /\ UNCHANGED <<ch, up, lost>>

\* sl_tx_wakeup: one signal unit goes out.
Transmit(n) ==
  \E junk \in (IF st[n].pos = -1 THEN Junk ELSE {NoJunk}) :
    LET r == sl_txc_transmission_request(st[n], junk)
    IN  /\ Len(ch[Peer(n)]) < MaxChan
        /\ r.su # NoSu
        /\ st' = [st EXCEPT ![n] = r.st]
        /\ ch' = [ch EXCEPT ![Peer(n)] = Append(@, r.su)]
        /\ UNCHANGED <<sent, up, lost>>

\* t_unitdata_ind: a unit for a receiver that is not in service is dropped.
Receive(n) ==
  /\ ch[n] # <<>>
  /\ ch' = [ch EXCEPT ![n] = Tail(@)]
  /\ \E flow \in FlowStates :
       st' = [st EXCEPT ![n] = IF @.rc # "IN_SERVICE" THEN @
                ELSE sl_daedr_received_bits(@, Head(ch[n]), flow[1], flow[2])]
  /\ UNCHANGED <<sent, up, lost>>

\* The network loses a unit (external: the transport provider).
Lose(n) ==
  /\ ch[n] # <<>> /\ lost < MaxLoss
  /\ ch' = [ch EXCEPT ![n] = Tail(@)]
  /\ lost' = lost + 1
  /\ UNCHANGED <<st, sent, up>>

Expire(n, t) ==
  /\ t \in st[n].tm \cap Expiring
  /\ st' = [st EXCEPT ![n] = sl_r_pcrse(sl_timer_stop(@, t), t)]
  /\ UNCHANGED <<ch, sent, up, lost>>

\* sl_rx_wakeup: level 3 takes what was received.
Deliver ==
  \E k \in 1..Len(st["B"].rb) :
    /\ st' = [st EXCEPT !["B"] = sl_rx_wakeup(@, k)]
    /\ DeliverableRb(st["B"], k) # <<>>
    /\ up' = up \o DeliverableRb(st["B"], k)
    /\ UNCHANGED <<ch, sent, lost>>

Next ==
  \/ Send
  \/ \E n \in Node : Transmit(n) \/ Receive(n) \/ Lose(n)
  \/ \E n \in Node, t \in Timer : Expire(n, t)
  \/ Deliver

Spec == Init /\ [][Next]_vars

\* sl_tx_wakeup runs on every T9 tick, what arrives is read, and level 3 of B
\* takes what it is given.  This is weak fairness of Transmit, Receive and
\* Deliver, with the conditions that enable them written out: TLC evaluates
\* ENABLED of these actions far too slowly.
CanTransmit(n) ==
  Len(ch[Peer(n)]) < MaxChan /\ sl_txc_transmission_request(st[n], NoJunk).su # NoSu
CanReceive(n) == ch[n] # <<>>
CanDeliver == st["B"].rb # <<>> /\ DeliverableRb(st["B"], 1) # <<>>

Fairness ==
  /\ \A n \in Node : []<>~CanTransmit(n) \/ []<><<Transmit(n)>>_vars
  /\ \A n \in Node : []<>~CanReceive(n) \/ []<><<Receive(n)>>_vars
  /\ []<>~CanDeliver \/ []<><<Deliver>>_vars

FairSpec == Spec /\ Fairness

------------------------------------------------------------------------------
\* Both private structures stay well typed, whatever the two terminals
\* receive from each other.
TypeOK ==
  /\ \A n \in Node : SlState(st[n])
  /\ sent \in 0..MaxMsg /\ up \in Seq(Pdu) /\ lost \in 0..MaxLoss
  /\ \A n \in Node : Len(ch[n]) <= MaxChan

\* What level 3 of B has, or has waiting in the receive buffer.
Received == up \o st["B"].rb

\* What level 3 would get back from A (sl_txc_retrieval_request_and_fsnc) with
\* the BSNT of B (sl_rc_retrieve_bsnt) as FSNC.
Retrievable == RetrievedMessages(st["A"], sl_rc_retrieve_bsnt(st["B"]))

(***************************************************************************)
(* Sequenced changeover loses nothing, duplicates nothing and keeps the    *)
(* order: at any moment, also after a failure, what level 3 would get back *)
(* from A continues what B received.  The receive and the retransmission   *)
(* buffer, two sets of sequence numbers and what is under way must agree.  *)
(***************************************************************************)
ChangeoverComplete == Received \o Retrievable = [i \in 1..sent |-> i]

\* Lost units alone never fail the link: abnormal BSN and FIB (AbnormalBsnr,
\* FibChecked) are for broken peers.
NeverFails == \A n \in Node : st[n].lsc = "IN_SERVICE"

\* What the transmit buffers hold, and whether it belongs to congestion level c.
Occupancy(x) == x.wqc + Len(x.tb) + Len(x.rtb)
TopLevel == IF MPLEV THEN 3 ELSE 1
AtLevel(occ, c) ==
  /\ c \in 0..TopLevel
  /\ c # 0 => occ >= TbAbate[c]
  /\ c # TopLevel => occ < TbOnset[c + 1]

(***************************************************************************)
(* The congestion that level 3 was told of is that of the buffers now:     *)
(* they hold at least what ends this level and less than what begins the   *)
(* next one, however many messages one acknowledgement frees, and also     *)
(* after a failure, which keeps the buffers (sl_check_congestion and the   *)
(* functions that call it or should).                                      *)
(***************************************************************************)
CongestionTold == \A n \in Node : AtLevel(Occupancy(st[n]), st[n].cong_status)

\* The two terminals and the lossy network implement the link service: in
\* sequence, without loss or duplicate, and each PDU gets through in the end.
Service == INSTANCE SlService WITH given <- sent, taken <- up
ImplementsService == Service!Spec

(***************************************************************************)
(* Whatever the remote end has not received can be retrieved, as sli.texi  *)
(* says of the buffer updating service.  Violated in two ways: with three  *)
(* unacknowledged messages an acknowledgement during a retransmission moves*)
(* z_ptr back to the head of the buffer but not N.fsn (sl_txc_bsnr_and_    *)
(* bibr), and the wrong message goes out under the next number; and with   *)
(* numbers of more bits than the mask of sl_rc_retrieve_bsnt, the BSNT is  *)
(* not the last number received.                                           *)
(***************************************************************************)
RetrievalRecoversAll ==
  \A i \in 1..sent : \E j \in DOMAIN (Received \o Retrievable) :
    (Received \o Retrievable)[j] = i
=============================================================================
