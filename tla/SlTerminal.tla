----------------------------- MODULE SlTerminal -----------------------------
(***************************************************************************)
(* One signalling link terminal (an enabled sl_tpi module of a stream)     *)
(* between any level 3 and any peer.                                       *)
(*                                                                         *)
(* STREAMS runs one put or service procedure of the module at a time, so   *)
(* each message that the module handles is one step:                       *)
(*   - a request of level 3, from the write queue;                         *)
(*   - a signal unit or an error from the transport provider, from the     *)
(*     read queue;                                                         *)
(*   - a timer.  Its callback clears the timer and puts an M_PCRSE message *)
(*     to the read side: sl_putq handles it at once if the read queue is   *)
(*     empty and queues it otherwise.  Queued expiries, pend, come before  *)
(*     any signal unit, and in order; level 3's requests do not wait for   *)
(*     them.                                                               *)
(* The procedures end with sl_tx_wakeup or sl_rx_wakeup, which sends or    *)
(* delivers as many messages as flow control and pacing allow, perhaps     *)
(* none, and which the T9 tick or a back-enable also calls: a step for     *)
(* each message sent, and for each batch delivered.                        *)
(***************************************************************************)
EXTENDS SlRc

CONSTANTS
  Requests,     \* the requests that level 3 makes
  PeerSus,      \* the signal units that arrive
  FlowStates,   \* what canputnext and canput may answer: pairs of Booleans
  SuErrors,     \* whether units arrive in error
  MaxPend,      \* bound on queued expiries
  MaxRtb,       \* bound on the retransmission buffer
  MaxRb,        \* bound on the receive buffer
  MaxCa         \* bound on the alignment error count

ASSUME EnvironmentAssumption ==
  /\ Requests \subseteq
       {"POWER_ON", "START", "STOP", "EMERGENCY", "EMERGENCY_CEASES",
        "LOCAL_PROCESSOR_OUTAGE", "RESUME", "CLEAR_BUFFERS", "CLEAR_RTB", "RETRIEVAL",
        "CONGESTION_DISCARD", "CONGESTION_ACCEPT", "NO_CONGESTION", "PDU"}
  /\ PeerSus \subseteq Fisu \cup Lssu \cup Msu
  /\ FlowStates \subseteq BOOLEAN \X BOOLEAN
  /\ SuErrors \in BOOLEAN

ASSUME BoundAssumption == {MaxPend, MaxRtb, MaxRb, MaxCa} \subseteq Nat

VARIABLES
  s,            \* the private structure
  pend          \* M_PCRSE messages on the read queue

vars == <<s, pend>>

Init == s = sl_alloc_priv /\ pend = <<>>

------------------------------------------------------------------------------
\* Level 3: the SL_..._REQ primitives handled by sl_w_proto.

Request(name, next) == name \in Requests /\ s' = next /\ UNCHANGED pend

PowerOn         == Request("POWER_ON", sl_lsc_power_on(s))
Start           == Request("START", sl_lsc_start(s))
Stop            == Request("STOP", sl_lsc_stop(s))
Emergency       == Request("EMERGENCY", sl_lsc_emergency(s))
EmergencyCeases == Request("EMERGENCY_CEASES", sl_lsc_emergency_ceases(s))
LocalProcessorOutage ==
  Request("LOCAL_PROCESSOR_OUTAGE", sl_lsc_local_processor_outage(s))
Resume          == Request("RESUME", sl_lsc_local_processor_recovered(s))
ClearBuffers    == Request("CLEAR_BUFFERS", sl_lsc_clear_buffers(s))
ClearRtb        == Request("CLEAR_RTB", sl_lsc_clear_rtb(s))
Retrieval       ==
  \E fsnc \in Sn : Request("RETRIEVAL", sl_lsc_retrieval_request_and_fsnc(s, fsnc))
CongestionDiscard == Request("CONGESTION_DISCARD", sl_lsc_congestion_discard(s))
CongestionAccept  == Request("CONGESTION_ACCEPT", sl_lsc_congestion_accept(s))
NoCongestion    == Request("NO_CONGESTION", sl_lsc_no_congestion(s))
PduReq          == \E p \in Pdu : Request("PDU", sl_lsc_pdu(s, p))

\* What waits on the write queue changes: level 3 puts, sl_wsrv gets.
WriteQueue      ==
  \E w \in 0..WqMax : w # s.wqc /\ s' = [s EXCEPT !.wqc = w] /\ UNCHANGED pend

L3Request ==
  \/ PowerOn \/ Start \/ Stop \/ Emergency \/ EmergencyCeases
  \/ LocalProcessorOutage \/ Resume \/ ClearBuffers \/ ClearRtb \/ Retrieval
  \/ CongestionDiscard \/ CongestionAccept \/ NoCongestion \/ PduReq \/ WriteQueue

------------------------------------------------------------------------------
\* The transport provider: t_unitdata_ind and t_uderror_ind.

\* The guard is t_unitdata_ind's: other units are dropped unseen.
Receive(su, flow) ==
  /\ pend = <<>>
  /\ s.lsc # "POWER_OFF" /\ s.rc = "IN_SERVICE"
  /\ Len(s.rb) < MaxRb
  /\ s' = sl_daedr_received_bits(s, su, flow[1], flow[2])
  /\ UNCHANGED pend

SuInError ==
  /\ SuErrors /\ pend = <<>> /\ s.Ca < MaxCa
  /\ s' = sl_daedr_su_in_error(s)
  /\ UNCHANGED pend

------------------------------------------------------------------------------
\* Timers: sl_t1_timeout to sl_t8_timeout, and the messages they put.

ExpireNow(t) ==
  /\ t \in s.tm /\ pend = <<>>
  /\ s' = sl_r_pcrse(sl_timer_stop(s, t), t)
  /\ UNCHANGED pend

ExpireQueued(t) ==
  /\ t \in s.tm /\ Len(pend) < MaxPend
  /\ s' = sl_timer_stop(s, t)
  /\ pend' = Append(pend, t)

HandleExpiry ==
  /\ pend # <<>>
  /\ s' = sl_r_pcrse(s, Head(pend))
  /\ pend' = Tail(pend)

------------------------------------------------------------------------------
\* Wakeups.

TxWakeup(junk) ==
  /\ s.lsc # "POWER_OFF" /\ s.txc = "IN_SERVICE"
  /\ Len(s.rtb) < MaxRtb \/ s.tb = <<>>
  /\ s' = sl_txc_transmission_request(s, junk).st
  /\ UNCHANGED pend

RxWakeup(k) ==
  /\ s.lsc # "POWER_OFF"
  /\ s' = sl_rx_wakeup(s, k)
  /\ UNCHANGED pend

Next ==
  \/ L3Request
  \/ \E su \in PeerSus, flow \in FlowStates : Receive(su, flow)
  \/ SuInError
  \/ \E t \in Timer : ExpireNow(t) \/ ExpireQueued(t)
  \/ HandleExpiry
  \/ \E junk \in (IF s.pos = -1 THEN Junk ELSE {NoJunk}) : TxWakeup(junk)
  \/ \E k \in 1..Len(s.rb) : RxWakeup(k)

Spec == Init /\ [][Next]_vars

\* Timers that run expire, and what waits on the read queue is handled.
Fairness ==
  /\ WF_vars(HandleExpiry)
  /\ \A t \in Timer : WF_vars(ExpireNow(t) \/ ExpireQueued(t))

FairSpec == Spec /\ Fairness

------------------------------------------------------------------------------
\* The state is well typed: no handler of sl_tpi.c takes a field of its
\* private structure out of its range.
TypeOK == SlState(s) /\ pend \in Seq(Timer)

\* A timer runs or its expiry waits on the read queue.
Armed(t) == t \in s.tm \/ \E i \in 1..Len(pend) : pend[i] = t

(***************************************************************************)
(* No state of initial alignment is a trap: each one that the terminal can *)
(* only leave on a timer or with the peer's help is supervised by its      *)
(* timer (sl_timer_start in sl_iac_start, sl_iac_sio, sl_iac_sin, ...),    *)
(* whatever requests of level 3 come between the timeout and the handling  *)
(* of its message.                                                         *)
(***************************************************************************)
AlignmentSupervised ==
  /\ s.lsc = "INITIAL_ALIGNMENT" => s.iac # "IDLE"
  /\ s.iac = "NOT_ALIGNED" => Armed("t2")
  /\ s.iac = "ALIGNED" => Armed("t3")
  /\ s.iac = "PROVING" => Armed("t4")

\* A link that waits for its peer after alignment is supervised by T1, which
\* sl_lsc_alignment_complete starts and only a change of state stops.
ReadySupervised == s.lsc \in {"ALIGNED_READY", "ALIGNED_NOT_READY"} => Armed("t1")

\* A receiver that called itself busy goes on sending SIB: T5 (sl_cc_busy,
\* sl_t5_expiry) runs as long as congestion control is in its busy state.
CongestionSupervised == s.cc = "BUSY" => Armed("t5")

\* Unacknowledged messages of a link in service are supervised by T7
\* (sl_txc_send_msu, sl_txc_bsnr_and_bibr, sl_txc_transmission_request).
AcksSupervised == s.lsc = "IN_SERVICE" /\ s.rtb # <<>> => Armed("t7")

\* The error rate of an aligned link is monitored (sl_suerm_start, sl_eim_start),
\* until a monitor itself fails the link.
ErrorsMonitored ==
  s.lsc \in {"ALIGNED_READY", "ALIGNED_NOT_READY", "IN_SERVICE", "PROCESSOR_OUTAGE"} =>
    IF HSL THEN s.eim = "MONITORING" /\ Armed("t8") ELSE s.suerm = "IN_SERVICE"

\* A link in service sends and receives: messages are not inhibited, and the
\* only status it may have to send is SIB (sl_txc_send_msu on every way into
\* service, and no other sl_txc_send after it).
InServiceSends ==
  s.lsc = "IN_SERVICE" =>
    s.txc = "IN_SERVICE" /\ s.rc = "IN_SERVICE" /\ s.msu_inhibited = 0
    /\ (s.lssu_available = 1 => s.sio = "SIB")

\* Level 3 never takes a failed link for one in service: whoever takes the
\* link out of service tells level 3 (sl_out_of_service_ind) or was asked to.
ServiceTold == s.l3 = "in_service" => s.lsc \in {"IN_SERVICE", "PROCESSOR_OUTAGE"}

\* The peer is told of the outage: SIPO, or the SIB of congestion control in its
\* place, as sl_cc_busy and sl_t5_expiry send that whatever the outage.  A SIB goes
\* out once, SIPO for as long as it stays available.
Told(x) == x.sio \in {"SIPO", "SIB"} /\ (x.lssu_available = 0 => x.sio = "SIB")

Blocked(x) == x.lsc \in {"ALIGNED_NOT_READY", "PROCESSOR_OUTAGE"}

\* A local outage is told to the peer where link state control knows of one: in
\* every variant in ALIGNED_NOT_READY, and in PROCESSOR_OUTAGE by the flag of ANSI
\* (sl_lsc_local_processor_outage, sl_lsc_alignment_complete).  ITU-T keeps the
\* outages of PROCESSOR_OUTAGE in poc_state: LocalOutageKept is about those.
LocalOutageTold ==
  (s.lsc = "ALIGNED_NOT_READY"
     \/ (ANSI /\ s.lsc = "PROCESSOR_OUTAGE" /\ s.local_processor_outage = 1))
    => Told(s)

\* Only level 3 withdraws SIPO from an outage that goes on, in every variant: by
\* RESUME (the peer's outage goes on), CLEAR_BUFFERS or CLEAR_RTB.  Nothing that
\* arrives, expires, congests or is sent does (sl_lsc_sipo, sl_lsc_fisu_msu_received,
\* sl_rb_congestion_function, the timers), unless it ends the outage.
LocalOutageKept ==
  [][Blocked(s) /\ Told(s) /\ Blocked(s)' =>
       Told(s)' \/ Resume \/ ClearBuffers \/ ClearRtb]_vars

\* Received messages wait for their acknowledgement only while the receiver
\* is congested: tx.X.fsn follows rx.X.fsn when congestion ends, however it
\* ends (sl_rc_no_congestion, sl_rc_retrieve_fsnx, sl_rc_align_fsnx).
AcksReleased == s.rc = "IN_SERVICE" /\ s.tXfsn # s.Xfsn => s.congestion_accept = 1

\* A receiver that discards or holds back knows who will end it: level 2's own
\* congestion function or level 3 (sl_rb_congestion_function, sl_lsc_no_congestion).
CongestionCaused ==
  s.rc = "IN_SERVICE" /\ (s.congestion_discard = 1 \/ s.congestion_accept = 1) =>
    s.l2_congestion_detect = 1 \/ s.l3_congestion_detect = 1

\* The peer returns to the beginning of alignment, which restarts T3 and T4.
PeerReturns ==
  \E su \in PeerSus, flow \in FlowStates :
    su.type = "LSSU" /\ su.sio = "SIO" /\ Receive(su, flow)

\* Every START is answered: the link comes into service, or into processor
\* outage, or level 3 is told that it did not (sl_t1_expiry to sl_t4_expiry) or
\* stops it, unless the peer returns to SIO again and again.
StartAnswered ==
  <>[][~PeerReturns]_vars =>
    (s.l3 = "starting" ~> s.l3 # "starting" \/ s.lsc \in {"IN_SERVICE", "PROCESSOR_OUTAGE"})
=============================================================================
