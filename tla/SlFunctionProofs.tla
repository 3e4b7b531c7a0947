-------------------------- MODULE SlFunctionProofs --------------------------
(***************************************************************************)
(* What the functions of sl_tpi.c preserve, for every value of the         *)
(* constants, one lemma for each function: the private structure stays     *)
(* well typed and every state that waits for a timer has its timer         *)
(* running, or its expiry among those queued on the read queue.            *)
(*                                                                         *)
(* The predicates are of a record x and a set P of queued expiries, so     *)
(* that they can be carried through the functions that a handler calls one *)
(* after the other.  Core holds at each point inside a handler; Link, the  *)
(* part about the link state, is broken while a handler takes the link out *)
(* of service and holds again when it has.                                 *)
(***************************************************************************)
EXTENDS SlRc, TLAPS, SequenceTheorems

IacSupervised(x, P) ==
  /\ x.iac = "NOT_ALIGNED" => "t2" \in x.tm \cup P
  /\ x.iac = "ALIGNED" => "t3" \in x.tm \cup P
  /\ x.iac = "PROVING" => "t4" \in x.tm \cup P

CcSupervised(x, P) == x.cc = "BUSY" => "t5" \in x.tm \cup P

Link(x, P) ==
  /\ x.lsc = "INITIAL_ALIGNMENT" => x.iac # "IDLE"
  /\ x.lsc \in {"ALIGNED_READY", "ALIGNED_NOT_READY"} => "t1" \in x.tm \cup P
  /\ x.l3 = "in_service" => x.lsc \in {"IN_SERVICE", "PROCESSOR_OUTAGE"}
  /\ x.lsc \in {"ALIGNED_READY", "ALIGNED_NOT_READY", "IN_SERVICE", "PROCESSOR_OUTAGE"} =>
       IF HSL THEN x.eim = "MONITORING" /\ "t8" \in x.tm \cup P ELSE x.suerm = "IN_SERVICE"

Core(x, P) == SlState(x) /\ IacSupervised(x, P) /\ CcSupervised(x, P)
Whole(x, P) == Core(x, P) /\ Link(x, P)

\* What a function from x to y preserves.
Keeps(x, y, P) == Core(x, P) => Core(y, P) /\ (Link(x, P) => Link(y, P))

\* A function that calls another one keeps what both keep.
LEMMA Chain ==
  ASSUME NEW x, NEW y, NEW z, NEW P, Keeps(x, y, P), Keeps(y, z, P)
  PROVE  Keeps(x, z, P)
  BY DEF Keeps

\* A function that returns early keeps everything.
LEMMA Early == ASSUME NEW x, NEW P PROVE Keeps(x, x, P)
  BY DEF Keeps

\* A handler keeps the invariant.
LEMMA KeepsWhole == ASSUME NEW x, NEW y, NEW P, Whole(x, P), Keeps(x, y, P) PROVE Whole(y, P)
  BY DEF Keeps, Whole

------------------------------------------------------------------------------
\* Sequence numbers, counters, buffers and congestion levels.

\* Arithmetic modulo the sequence number mask stays in range.
LEMMA ModSn == ASSUME NEW n \in Int PROVE n % Mod \in Sn
  BY NumberAssumption DEF Sn

\* The same for the counters, which wrap.
LEMMA ModCtr == ASSUME NEW n \in Int PROVE n % CtrMod \in Ctr
  BY NumberAssumption DEF Ctr

\* The constants that the code assigns to sequence numbers and counters.
LEMMA InRange == 0 \in Sn /\ Mod - 1 \in Sn /\ 0 \in Ctr
  BY NumberAssumption DEF Sn, Ctr

\* Sequence numbers and counters are integers.
LEMMA SnInt == Sn \subseteq Int /\ Ctr \subseteq Int
  BY DEF Sn, Ctr

\* So do the number after a sequence number and the one before it.
LEMMA Neighbours == ASSUME NEW n \in Sn PROVE (n + 1) % Mod \in Sn /\ (n - 1) % Mod \in Sn
  BY ModSn DEF Sn

\* What is left of a buffer is a buffer.
LEMMA DroppedSeq == ASSUME NEW q \in Seq(Pdu), NEW k \in Nat PROVE Dropped(q, k) \in Seq(Pdu)
  BY SubSeqProperties DEF Dropped

\* sl_check_congestion stays within the four congestion and discard levels.
LEMMA Levels ==
  ASSUME NEW occ \in Nat, NEW c \in 0..3, NEW d \in 0..3
  PROVE  /\ CongestionLevels(occ, c, d)[1] \in 0..3
         /\ CongestionLevels(occ, c, d)[2] \in 0..3
<1>1. Fallen(occ, c) \in 0..3
  BY ThresholdAssumption DEF Fallen
<1>2. Risen(occ, c, d)[1] \in 0..3 /\ Risen(occ, c, d)[2] \in 0..3
  BY ThresholdAssumption DEF Risen
<1> QED
  BY <1>1, <1>2 DEF CongestionLevels

------------------------------------------------------------------------------
\* The functions that only assign fields.  From here on the parts of Core are
\* expanded wherever Core is.
USE DEF IacSupervised, CcSupervised, SlState, Fields,
        LscState, IacState, PocState, L3State, Flag, Timer, Sio

\* sl_txc_send_sios keeps the invariant.
LEMMA SendSios == ASSUME NEW x, NEW P PROVE Keeps(x, sl_txc_send_sios(x), P)
  BY SMT DEF Keeps, Core, Link, sl_txc_send_sios

\* sl_txc_send_sipo keeps the invariant.
LEMMA SendSipo == ASSUME NEW x, NEW P PROVE Keeps(x, sl_txc_send_sipo(x), P)
  BY SMT DEF Keeps, Core, Link, sl_txc_send_sipo

\* sl_txc_send_sib keeps the invariant.
LEMMA SendSib == ASSUME NEW x, NEW P PROVE Keeps(x, sl_txc_send_sib(x), P)
  BY SMT DEF Keeps, Core, Link, sl_txc_send_sib

\* sl_txc_send_sio keeps the invariant.
LEMMA SendSio == ASSUME NEW x, NEW P PROVE Keeps(x, sl_txc_send_sio(x), P)
  BY SMT DEF Keeps, Core, Link, sl_txc_send_sio

\* sl_txc_send_sie keeps the invariant.
LEMMA SendSie == ASSUME NEW x, NEW P PROVE Keeps(x, sl_txc_send_sie(x), P)
  BY SMT DEF Keeps, Core, Link, sl_txc_send_sie

\* sl_txc_send_msu keeps the invariant.
LEMMA SendMsu == ASSUME NEW x, NEW P PROVE Keeps(x, sl_txc_send_msu(x), P)
  BY SMT DEF Keeps, Core, Link, sl_txc_send_msu

\* sl_txc_send_fisu keeps the invariant.
LEMMA SendFisuKeeps == ASSUME NEW x, NEW P PROVE Keeps(x, sl_txc_send_fisu(x), P)
  BY SMT DEF Keeps, Core, Link, sl_txc_send_fisu

\* sl_txc_fsnx_value keeps the invariant.
LEMMA FsnxValue == ASSUME NEW x, NEW P PROVE Keeps(x, sl_txc_fsnx_value(x), P)
  BY SMT DEF Keeps, Core, Link, sl_txc_fsnx_value

\* sl_txc_nack_to_be_sent keeps the invariant.
LEMMA NackToBeSent == ASSUME NEW x, NEW P PROVE Keeps(x, sl_txc_nack_to_be_sent(x), P)
  BY SMT DEF Keeps, Core, Link, sl_txc_nack_to_be_sent, Toggled

\* SibOver keeps the invariant.
LEMMA SibOverKeeps == ASSUME NEW x, NEW P PROVE Keeps(x, SibOver(x), P)
  BY SMT DEF Keeps, Core, Link, SibOver

\* sl_txc_sib_received keeps the invariant.
LEMMA SibReceived == ASSUME NEW x, NEW P PROVE Keeps(x, sl_txc_sib_received(x), P)
  BY SMT DEF Keeps, Core, Link, sl_txc_sib_received

\* sl_cc_normal keeps the invariant.
LEMMA CcNormal == ASSUME NEW x, NEW P PROVE Keeps(x, sl_cc_normal(x), P)
  BY SMT DEF Keeps, Core, Link, sl_cc_normal

\* sl_cc_busy keeps the invariant.
LEMMA CcBusy == ASSUME NEW x, NEW P PROVE Keeps(x, sl_cc_busy(x), P)
  BY SMT DEF Keeps, Core, Link, sl_cc_busy, sl_timer_start, sl_txc_send_sib

\* sl_rc_reject_msu_fisu keeps the invariant.
LEMMA RcReject == ASSUME NEW x, NEW P PROVE Keeps(x, sl_rc_reject_msu_fisu(x), P)
  BY SMT DEF Keeps, Core, Link, sl_rc_reject_msu_fisu

\* sl_rc_accept_msu_fisu keeps the invariant.
LEMMA RcAccept == ASSUME NEW x, NEW P PROVE Keeps(x, sl_rc_accept_msu_fisu(x), P)
  BY SMT DEF Keeps, Core, Link, sl_rc_accept_msu_fisu

\* sl_rc_clear_rb keeps the invariant.
LEMMA RcClearRb == ASSUME NEW x, NEW P PROVE Keeps(x, sl_rc_clear_rb(x), P)
  BY SMT, InRange DEF Keeps, Core, Link, sl_rc_clear_rb

\* sl_aerm_stop keeps the invariant.
LEMMA AermStop == ASSUME NEW x, NEW P PROVE Keeps(x, sl_aerm_stop(x), P)
  BY SMT, NumberAssumption DEF Keeps, Core, Link, sl_aerm_stop

\* sl_aerm_set_ti_to_tie keeps the invariant.
LEMMA SetTie == ASSUME NEW x, NEW P PROVE Keeps(x, sl_aerm_set_ti_to_tie(x), P)
  BY SMT, NumberAssumption DEF Keeps, Core, Link, sl_aerm_set_ti_to_tie

\* sl_aerm_set_ti_to_tin keeps the invariant.
LEMMA SetTin == ASSUME NEW x, NEW P PROVE Keeps(x, sl_aerm_set_ti_to_tin(x), P)
  BY SMT, NumberAssumption DEF Keeps, Core, Link, sl_aerm_set_ti_to_tin

\* Prove keeps the invariant.
LEMMA ProveKeeps == ASSUME NEW x, NEW P PROVE Keeps(x, Prove(x), P)
  BY SMT DEF Keeps, Core, Link, Prove, sl_aerm_start

\* sl_poc_stop keeps the invariant.
LEMMA PocStop == ASSUME NEW x, NEW P PROVE Keeps(x, sl_poc_stop(x), P)
  BY SMT DEF Keeps, Core, Link, sl_poc_stop

\* sl_poc_local_processor_outage keeps the invariant.
LEMMA PocLocal == ASSUME NEW x, NEW P PROVE Keeps(x, sl_poc_local_processor_outage(x), P)
  BY SMT DEF Keeps, Core, Link, sl_poc_local_processor_outage

\* sl_poc_remote_processor_outage keeps the invariant.
LEMMA PocRemote == ASSUME NEW x, NEW P PROVE Keeps(x, sl_poc_remote_processor_outage(x), P)
  BY SMT DEF Keeps, Core, Link, sl_poc_remote_processor_outage

\* sl_out_of_service_ind keeps the invariant.
LEMMA OutOfServiceInd == ASSUME NEW x, NEW P PROVE Keeps(x, sl_out_of_service_ind(x), P)
  BY SMT DEF Keeps, Core, Link, sl_out_of_service_ind

\* sl_suerm_start keeps the invariant.
LEMMA SuermStart == ASSUME NEW x, NEW P PROVE Keeps(x, sl_suerm_start(x), P)
  BY SMT DEF Keeps, Core, Link, sl_suerm_start, sl_eim_start

\* sl_iac_start keeps the invariant.
LEMMA IacStart == ASSUME NEW x, NEW P PROVE Keeps(x, sl_iac_start(x), P)
  BY SMT DEF Keeps, Core, Link, sl_iac_start, sl_timer_start, sl_txc_send_sio

\* sl_lsc_emergency_ceases keeps the invariant.
LEMMA EmergencyCeasesKeeps == ASSUME NEW x, NEW P PROVE Keeps(x, sl_lsc_emergency_ceases(x), P)
  BY SMT DEF Keeps, Core, Link, sl_lsc_emergency_ceases

\* sl_eim_su_in_error keeps the invariant.
LEMMA EimInError == ASSUME NEW x, NEW P PROVE Keeps(x, sl_eim_su_in_error(x), P)
  BY SMT DEF Keeps, Core, Link, sl_eim_su_in_error

\* sl_eim_correct_su keeps the invariant.
LEMMA EimCorrect == ASSUME NEW x, NEW P PROVE Keeps(x, sl_eim_correct_su(x), P)
  BY SMT DEF Keeps, Core, Link, sl_eim_correct_su

\* Leaked keeps the invariant.
LEMMA LeakedKeeps == ASSUME NEW x, NEW P PROVE Keeps(x, Leaked(x), P)
  BY SMT DEF Keeps, Core, Link, Leaked

------------------------------------------------------------------------------
\* Transmission control.

\* The congestion status is all that sl_check_congestion changes.
LEMMA CheckCongestion == ASSUME NEW x, NEW P PROVE Keeps(x, sl_check_congestion(x), P)
<1> DEFINE new == CongestionLevels(x.wqc + Len(x.tb) + Len(x.rtb), x.cong_status, x.disc_status)
<1> DEFINE y == [x EXCEPT !.cong_status = new[1], !.disc_status = new[2]]
<1>1. SlState(x) => new[1] \in 0..3 /\ new[2] \in 0..3
  <2> SUFFICES ASSUME SlState(x) PROVE new[1] \in 0..3 /\ new[2] \in 0..3
    OBVIOUS
  <2>1. x.wqc + Len(x.tb) + Len(x.rtb) \in Nat
    OBVIOUS
  <2> QED
    BY <2>1, Levels
<1> HIDE DEF new
<1>2. Keeps(x, y, P)
  BY SMT, <1>1 DEF Keeps, Core, Link
<1> QED
  BY <1>2 DEF sl_check_congestion, new

\* Starting the transmitter resets sequence numbers and flags.
LEMMA TxcStart == ASSUME NEW x, NEW P PROVE Keeps(x, sl_txc_start(x), P)
<1> DEFINE m == Mod - 1
<1>0. m \in Sn /\ 0 \in Sn /\ 0 \in Ctr
  BY InRange
<1> HIDE DEF m
<1> DEFINE a == [x EXCEPT !.forced_retransmission = 0, !.sib_received = 0, !.Ct = 0,
                          !.rtb_full = 0, !.clear_rtb = 0, !.msu_inhibited = 0, !.ib_mask = 1]
<1>1. Keeps(x, a, P)
  BY SMT, <1>0 DEF Keeps, Core, Link
<1> HIDE DEF a
<1> DEFINE b == [a EXCEPT !.sio = IF ANSI THEN "SIOS" ELSE @,
                          !.lssu_available = IF ANSI THEN 1 ELSE IF x.txc = "IDLE" THEN 0 ELSE @]
<1>2. Keeps(a, b, P)
  BY SMT DEF Keeps, Core, Link
<1> HIDE DEF b
<1> DEFINE c == [b EXCEPT !.Lfsn = m, !.Nfsn = m, !.tXfsn = 0, !.Nfib = 1, !.Nbib = 1]
<1>3. Keeps(b, c, P)
  BY SMT, <1>0 DEF Keeps, Core, Link
<1> HIDE DEF c
<1> DEFINE d == [c EXCEPT !.Ffsn = 0, !.Cm = 0, !.Z = 0, !.pos = 0, !.txc = "IN_SERVICE"]
<1>4. Keeps(c, d, P)
  BY SMT, <1>0 DEF Keeps, Core, Link
<1> HIDE DEF d
<1>5. sl_txc_start(x) = d
  BY SMT DEF a, b, c, d, sl_txc_start, m
<1> QED
  BY <1>1, <1>2, <1>3, <1>4, <1>5, Chain

\* Resuming traffic leaves PROCESSOR_OUTAGE for IN_SERVICE.
LEMMA RtbCleared == ASSUME NEW x, NEW P PROVE Keeps(x, sl_lsc_rtb_cleared(x), P)
<1> DEFINE y == sl_txc_send_msu(x)
<1> DEFINE z == [y EXCEPT !.remote_processor_outage = 0, !.lsc = "IN_SERVICE"]
<1>1. Keeps(x, y, P)
  BY SendMsu
<1>2. Core(x, P) => y.lsc = x.lsc
  BY SMT DEF Core, sl_txc_send_msu
<1> HIDE DEF y
<1>3. y.lsc = "PROCESSOR_OUTAGE" => Keeps(y, z, P)
  BY SMT DEF Keeps, Core, Link
<1>4. x.lsc = "PROCESSOR_OUTAGE" => Keeps(x, z, P)
  BY <1>1, <1>2, <1>3 DEF Keeps
<1>5. Keeps(x, [x EXCEPT !.remote_processor_outage = 0], P)
  BY SMT DEF Keeps, Core, Link
<1> QED
  BY <1>4, <1>5, Early DEF sl_lsc_rtb_cleared, y

\* An acknowledgement after the buffer was cleared.
LEMMA RtbClearedByKeeps ==
  ASSUME NEW x, NEW P, NEW bsn \in Sn, NEW bib \in Flag
  PROVE  Keeps(x, RtbClearedBy(x, bsn, bib), P)
<1> DEFINE next == (bsn + 1) % Mod
<1>0. next \in Sn /\ 0 \in Ctr
  BY ModSn, SnInt, InRange
<1> HIDE DEF next
<1> DEFINE r == [x EXCEPT !.rtb = <<>>, !.Ct = 0]
<1>1. Keeps(x, r, P)
  BY SMT, <1>0 DEF Keeps, Core, Link
<1> HIDE DEF r
<1> DEFINE a == sl_check_congestion(r)
<1>2. Keeps(r, a, P)
  BY CheckCongestion
<1> HIDE DEF a
<1> DEFINE n == [a EXCEPT !.Ffsn = next, !.Lfsn = bsn, !.Nfsn = bsn,
                          !.Nfib = bib, !.Z = next, !.pos = 0]
<1>3. Keeps(a, n, P)
  BY SMT, <1>0 DEF Keeps, Core, Link
<1> HIDE DEF n
<1> DEFINE b == sl_lsc_rtb_cleared(n)
<1>4. Keeps(n, b, P)
  BY RtbCleared
<1> HIDE DEF b
<1>5. Keeps(b, [b EXCEPT !.clear_rtb = 0, !.rtb_full = 0], P)
  BY SMT DEF Keeps, Core, Link
<1> QED
  BY <1>1, <1>2, <1>3, <1>4, <1>5, Chain DEF RtbClearedBy, b, n, a, r, next

\* An acknowledgement removes the messages it covers.
LEMMA AcknowledgedKeeps ==
  ASSUME NEW x, NEW P, NEW bsn \in Sn PROVE Keeps(x, Acknowledged(x, bsn), P)
<1>a. SUFFICES ASSUME Core(x, P) PROVE Keeps(x, Acknowledged(x, bsn), P)
  BY DEF Keeps
<1> DEFINE k == (bsn + 1 - x.Ffsn) % Mod
<1> DEFINE next == (bsn + 1) % Mod
<1>0. next \in Sn /\ k \in Nat
  <2>1. x.Ffsn \in Sn
    BY <1>a DEF Core
  <2> QED
    BY <2>1, ModSn, SnInt DEF Sn
<1> HIDE DEF k, next
<1> DEFINE o == SibOver(x)
<1>1. Keeps(x, o, P)
  BY SibOverKeeps
<1> HIDE DEF o
<1> DEFINE q == Dropped(o.rtb, k)
<1> DEFINE ct == (o.Ct - k) % CtrMod
<1>2. q \in Seq(Pdu) /\ ct \in Ctr
  <2>1. Core(o, P)
    BY <1>a, <1>1 DEF Keeps
  <2>2. o.rtb \in Seq(Pdu) /\ o.Ct \in Ctr
    BY <2>1 DEF Core
  <2>3. o.Ct - k \in Int
    BY <1>0, <2>2 DEF Ctr
  <2> QED
    BY <1>0, <2>2, <2>3, DroppedSeq, ModCtr
<1> HIDE DEF q, ct
<1> DEFINE a == [o EXCEPT !.rtb = q, !.Ct = ct, !.Ffsn = next]
<1>3. Keeps(o, a, P)
  BY SMT, <1>0, <1>2 DEF Keeps, Core, Link
<1> HIDE DEF a
<1> DEFINE c == sl_check_congestion(a)
<1>4. Keeps(a, c, P)
  BY CheckCongestion
<1> HIDE DEF c
<1> DEFINE rewind == SN_OUTSIDE(next, x.Z, x.Lfsn) \/ a.rtb = <<>>
<1> DEFINE z == IF rewind THEN next ELSE c.Z
<1> DEFINE p == IF rewind THEN (IF a.rtb = <<>> THEN 0 ELSE 1) ELSE PosAfter(c.pos, k)
<1>5. Core(c, P) => z \in Sn /\ p \in Int
  BY <1>0 DEF Core, PosAfter
<1> HIDE DEF z, p
<1> DEFINE d == [c EXCEPT !.tm = IF a.rtb = <<>> THEN @ \ {"t7"} ELSE @ \cup {"t7"},
                          !.rtb_full = IF ~PCR \/ Len(a.rtb) < N1 THEN 0 ELSE @,
                          !.Z = z, !.pos = p]
<1>6. Keeps(c, d, P)
  BY SMT, <1>5 DEF Keeps, Core, Link
<1> HIDE DEF d
<1>7. Acknowledged(x, bsn) = d
  BY SMT DEF Acknowledged, d, p, z, c, a, ct, q, o, next, k
<1> QED
  BY <1>1, <1>3, <1>4, <1>6, <1>7, Chain

\* A negative acknowledgement starts a retransmission cycle.
LEMMA NackedKeeps ==
  ASSUME NEW x, NEW P, NEW bib \in Flag PROVE Keeps(x, Nacked(x, bib), P)
<1> DEFINE o == SibOver(x)
<1>1. Keeps(x, o, P)
  BY SibOverKeeps
<1> HIDE DEF o
<1> DEFINE n == (x.Ffsn - 1) % Mod
<1>2. Core(x, P) => n \in Sn
  <2> SUFFICES ASSUME Core(x, P) PROVE n \in Sn
    OBVIOUS
  <2>1. x.Ffsn \in Sn
    BY DEF Core
  <2> QED
    BY <2>1, Neighbours
<1> HIDE DEF n
<1> DEFINE z == [o EXCEPT !.Nfib = bib, !.Nfsn = n, !.pos = IF x.rtb = <<>> THEN 0 ELSE 1,
                          !.retrans_cycle = IF x.rtb = <<>> THEN @ ELSE 1]
<1>3. n \in Sn => Keeps(o, z, P)
  BY SMT DEF Keeps, Core, Link
<1> QED
  BY <1>1, <1>2, <1>3 DEF Keeps, Nacked, n, o, z

\* A received BSN and BIB.
LEMMA BsnrAndBibr ==
  ASSUME NEW x, NEW P, NEW bsn \in Sn, NEW bib \in Flag
  PROVE  Keeps(x, sl_txc_bsnr_and_bibr(x, bsn, bib), P)
<1> DEFINE s0 == [x EXCEPT !.tRbsn = bsn]
<1>1. Keeps(x, s0, P)
  BY SMT DEF Keeps, Core, Link
<1> HIDE DEF s0
<1> DEFINE a == IF s0.Ffsn # (bsn + 1) % Mod THEN Acknowledged(s0, bsn) ELSE s0
<1>2. Keeps(s0, a, P)
  BY AcknowledgedKeeps, Early
<1> HIDE DEF a
<1>3. Keeps(a, Nacked(a, bib), P)
  BY NackedKeeps
<1>4. Keeps(s0, RtbClearedBy(s0, bsn, bib), P)
  BY RtbClearedByKeeps
<1> QED
  BY <1>1, <1>2, <1>3, <1>4, Chain DEF sl_txc_bsnr_and_bibr, s0, a

\* Clearing the retransmission buffer.
LEMMA ClearRtbKeeps == ASSUME NEW x, NEW P PROVE Keeps(x, sl_txc_clear_rtb(x), P)
<1> DEFINE p == Dangling(x.pos)
<1>0. p \in Int /\ 0 \in Ctr
  BY InRange DEF Dangling
<1> HIDE DEF p
<1> DEFINE y == [x EXCEPT !.rtb = <<>>, !.Ct = 0, !.clear_rtb = 1, !.rtb_full = 0, !.pos = p]
<1>1. Keeps(x, y, P)
  BY SMT, <1>0 DEF Keeps, Core, Link
<1> HIDE DEF y
<1>2. Keeps(x, sl_check_congestion(y), P)
  BY <1>1, CheckCongestion, Chain
<1>3. sl_txc_clear_rtb(x) = sl_check_congestion(y)
  BY SMT DEF sl_txc_clear_rtb, y, p
<1> QED
  BY <1>2, <1>3

\* Clearing the transmission buffer.
LEMMA ClearTbKeeps == ASSUME NEW x, NEW P PROVE Keeps(x, sl_txc_clear_tb(x), P)
<1> DEFINE y == [x EXCEPT !.tb = <<>>, !.Cm = 0, !.wqc = 0]
<1>1. Keeps(x, y, P)
  BY SMT, InRange DEF Keeps, Core, Link
<1> HIDE DEF y
<1> QED
  BY <1>1, CheckCongestion, Chain DEF sl_txc_clear_tb, y

\* Flushing both buffers.
LEMMA FlushBuffers == ASSUME NEW x, NEW P PROVE Keeps(x, sl_txc_flush_buffers(x), P)
<1> DEFINE next == (x.tRbsn + 1) % Mod
<1>0. Core(x, P) => next \in Sn
  <2> SUFFICES ASSUME Core(x, P) PROVE next \in Sn
    OBVIOUS
  <2>1. x.tRbsn \in Sn
    BY DEF Core
  <2> QED
    BY <2>1, Neighbours
<1> HIDE DEF next
<1> DEFINE a == [x EXCEPT !.rtb = <<>>, !.rtb_full = 0, !.Ct = 0, !.tb = <<>>, !.Cm = 0, !.wqc = 0]
<1>1. Keeps(x, a, P)
  BY SMT, InRange DEF Keeps, Core, Link
<1>2. Core(x, P) => x.rRbsn \in Sn
  BY DEF Core
<1> HIDE DEF a
<1> DEFINE r == x.rRbsn
<1> HIDE DEF r
<1> DEFINE b == [a EXCEPT !.pos = 0, !.Z = next, !.Ffsn = next, !.Lfsn = r, !.Tfsn = r,
                          !.tm = @ \ {"t7"}]
<1>3. next \in Sn /\ r \in Sn => Keeps(a, b, P)
  BY SMT DEF Keeps, Core, Link
<1> HIDE DEF b
<1>4. Core(x, P) => r \in Sn
  BY <1>2 DEF r
<1>5. Keeps(x, b, P)
  BY <1>0, <1>1, <1>3, <1>4 DEF Keeps
<1>6. sl_txc_flush_buffers(x) = b
  BY SMT DEF sl_txc_flush_buffers, b, a, next, r
<1> QED
  BY <1>5, <1>6

\* Retrieval empties both buffers and moves the sequence numbers to FSNC.
LEMMA RetrievalKeeps ==
  ASSUME NEW x, NEW P, NEW fsnc \in Sn
  PROVE  Keeps(x, sl_txc_retrieval_request_and_fsnc(x, fsnc), P)
<1> DEFINE next == (fsnc + 1) % SnMod(x)
<1> DEFINE c == fsnc % SnMod(x)
<1> DEFINE p == Dangling(x.pos)
<1>0. next \in Sn /\ c \in Sn /\ p \in Int
  <2>1. p \in Int
    BY DEF Dangling
  <2>2. CASE SnMod(x) = Mod
    BY <2>1, <2>2, ModSn, SnInt
  <2>3. CASE SnMod(x) = 1
    <3>1. next = 0 /\ c = 0
      BY <2>3 DEF Sn
    <3> QED
      BY <2>1, <3>1, InRange
  <2> QED
    BY <2>2, <2>3 DEF SnMod
<1> HIDE DEF next, c, p
<1> DEFINE a == [x EXCEPT !.rtb = <<>>, !.tb = <<>>, !.rtb_full = 0, !.Cm = 0, !.Ct = 0]
<1>1. Keeps(x, a, P)
  BY SMT, InRange DEF Keeps, Core, Link
<1> HIDE DEF a
<1> DEFINE b == [a EXCEPT !.Z = next, !.Ffsn = next, !.Nfsn = c, !.Lfsn = c, !.pos = p]
<1>2. Keeps(a, b, P)
  BY SMT, <1>0 DEF Keeps, Core, Link
<1> HIDE DEF b
<1>3. sl_txc_retrieval_request_and_fsnc(x, fsnc) = b
  BY SMT DEF sl_txc_retrieval_request_and_fsnc, b, a, next, c, p
<1> QED
  BY <1>1, <1>2, <1>3, Chain

\* A PDU of level 3 goes to the transmission buffer.
LEMMA LscPdu == ASSUME NEW x, NEW P, NEW u \in Pdu PROVE Keeps(x, sl_lsc_pdu(x, u), P)
<1> DEFINE q == Append(x.tb, u)
<1> DEFINE cm == (x.Cm + 1) % CtrMod
<1>1. Core(x, P) => q \in Seq(Pdu) /\ cm \in Ctr
  <2> SUFFICES ASSUME Core(x, P) PROVE q \in Seq(Pdu) /\ cm \in Ctr
    OBVIOUS
  <2>1. x.Cm + 1 \in Int /\ x.tb \in Seq(Pdu)
    BY DEF Core, Ctr
  <2> QED
    BY <2>1, ModCtr
<1> HIDE DEF q, cm
<1> DEFINE y == [x EXCEPT !.tb = q, !.Cm = cm]
<1>2. q \in Seq(Pdu) /\ cm \in Ctr => Keeps(x, y, P)
  BY SMT DEF Keeps, Core, Link
<1> HIDE DEF y
<1>3. Keeps(x, y, P)
  BY <1>1, <1>2 DEF Keeps
<1>4. sl_txc_message_for_transmission(x, u) = sl_check_congestion(y)
  BY SMT DEF sl_txc_message_for_transmission, y, q, cm
<1>5. Keeps(x, sl_txc_message_for_transmission(x, u), P)
  BY <1>3, <1>4, CheckCongestion, Chain
<1> QED
  BY <1>5, Early DEF sl_lsc_pdu

\* The transmission of one signal unit: a status unit or a fill-in unit.
LEMMA SendLssuKeeps == ASSUME NEW x, NEW P PROVE Keeps(x, SendLssu(x).st, P)
<1> DEFINE n == [x EXCEPT !.lssu_available = IF x.sio = "SIB" THEN 0 ELSE @, !.Nfsn = x.Lfsn]
<1>1. Keeps(x, n, P)
  BY SMT DEF Keeps, Core, Link
<1>2. SendLssu(x).st = n
  BY DEF SendLssu
<1> QED
  BY <1>1, <1>2

\* The same for a fill-in unit.
LEMMA SendFillIn == ASSUME NEW x, NEW P PROVE Keeps(x, SendFisu(x).st, P)
<1> DEFINE n == [x EXCEPT !.Nfsn = x.Lfsn]
<1>1. Keeps(x, n, P)
  BY SMT DEF Keeps, Core, Link
<1>2. SendFisu(x).st = n
  BY DEF SendFisu
<1> QED
  BY <1>1, <1>2

\* PCR: forced retransmission begins or ends.
LEMMA ForcingKeeps == ASSUME NEW x, NEW P PROVE Keeps(x, Forcing(x), P)
  BY SMT DEF Keeps, Core, Link, Forcing

\* A message is sent again.
LEMMA SendOldKeeps ==
  ASSUME NEW x, NEW P, NEW junk, junk.pos \in {-1, 0} PROVE Keeps(x, SendOld(x, junk).st, P)
<1> DEFINE over == PCR /\ x.pos = 0
<1> DEFINE s0 == IF over THEN [x EXCEPT !.pos = IF x.rtb = <<>> THEN 0 ELSE 1, !.Z = x.Ffsn]
                         ELSE x
<1> DEFINE p == IF s0.pos = 0 THEN NoPdu ELSE IF s0.pos = -1 THEN junk.pdu ELSE s0.rtb[s0.pos]
<1> DEFINE after == IF s0.pos = -1 THEN junk.pos
                    ELSE IF s0.pos = Len(s0.rtb) THEN 0 ELSE s0.pos + 1
<1> DEFINE fsn == IF PCR THEN s0.Z ELSE (s0.Nfsn + 1) % Mod
<1> DEFINE z == IF PCR THEN (s0.Z + 1) % Mod ELSE s0.Z
<1> DEFINE n == [s0 EXCEPT !.pos = after, !.Nfsn = fsn, !.Z = z,
                           !.retrans_cycle = IF fsn = s0.Lfsn \/ after = 0 THEN 0 ELSE @]
<1>1. Keeps(x, s0, P)
  BY SMT DEF Keeps, Core, Link
<1> HIDE DEF s0
<1>2. Core(s0, P) => after \in Int /\ fsn \in Sn /\ z \in Sn
  <2>1. Core(s0, P) => s0.pos \in Int /\ s0.Z \in Sn /\ s0.Nfsn \in Sn
    BY DEF Core
  <2> QED
    BY <2>1, Neighbours
<1> HIDE DEF after, fsn, z
<1>3. after \in Int /\ fsn \in Sn /\ z \in Sn => Keeps(s0, n, P)
  BY SMT DEF Keeps, Core, Link
<1> HIDE DEF n, p
<1>4. Keeps(x, n, P)
  BY <1>1, <1>2, <1>3 DEF Keeps
<1>5. SendOld(x, junk).st = IF p = NoPdu THEN s0 ELSE n
  BY DEF SendOld, p, n, after, fsn, z, s0
<1> QED
  BY <1>1, <1>4, <1>5

\* A new message goes out and into the retransmission buffer.
LEMMA SendNewKeeps ==
  ASSUME NEW x, NEW P, x.tb # <<>> PROVE Keeps(x, SendNew(x).st, P)
<1> DEFINE fsn == (x.Lfsn + 1) % Mod
<1> DEFINE q == Append(x.rtb, Head(x.tb))
<1> DEFINE full == Len(q) >= N1
<1> DEFINE t == Tail(x.tb)
<1> DEFINE cm == (x.Cm - 1) % CtrMod
<1> DEFINE ct == (x.Ct + 1) % CtrMod
<1> DEFINE isfull == full \/ (~PCR /\ fsn = (x.Ffsn - 2) % Mod)
<1>1. Core(x, P) => /\ fsn \in Sn /\ q \in Seq(Pdu) /\ t \in Seq(Pdu)
                    /\ cm \in Ctr /\ ct \in Ctr
  <2> SUFFICES ASSUME Core(x, P)
               PROVE  /\ fsn \in Sn /\ q \in Seq(Pdu) /\ t \in Seq(Pdu)
                      /\ cm \in Ctr /\ ct \in Ctr
    OBVIOUS
  <2>1. /\ x.Lfsn \in Sn /\ x.rtb \in Seq(Pdu) /\ x.tb \in Seq(Pdu)
        /\ x.Cm \in Ctr /\ x.Ct \in Ctr
    BY DEF Core
  <2>2. x.Cm - 1 \in Int /\ x.Ct + 1 \in Int
    BY <2>1 DEF Ctr
  <2>3. q \in Seq(Pdu) /\ t \in Seq(Pdu)
    BY <2>1
  <2> QED
    BY <2>1, <2>2, <2>3, Neighbours, ModCtr
<1> HIDE DEF fsn, q, t, cm, ct, full, isfull
<1> DEFINE a == [x EXCEPT !.tb = t, !.rtb = q, !.Cm = cm, !.Ct = ct]
<1>2. q \in Seq(Pdu) /\ t \in Seq(Pdu) /\ cm \in Ctr /\ ct \in Ctr => Keeps(x, a, P)
  BY SMT DEF Keeps, Core, Link
<1> HIDE DEF a
<1> DEFINE b == [a EXCEPT
                   !.Lfsn = fsn, !.Nfsn = fsn, !.Tfsn = fsn,
                   !.tm = @ \cup (IF x.rtb = <<>> THEN {"t7"} ELSE {}),
                   !.rtb_full = IF isfull THEN 1 ELSE @,
                   !.forced_retransmission = IF PCR /\ full THEN 1 ELSE @]
<1>3. fsn \in Sn => Keeps(a, b, P)
  BY SMT DEF Keeps, Core, Link
<1> HIDE DEF b
<1>4. Keeps(x, b, P)
  BY <1>1, <1>2, <1>3 DEF Keeps
<1>5. SendNew(x).st = b
  BY SMT DEF SendNew, b, a, isfull, full, ct, cm, t, q, fsn
<1> QED
  BY <1>4, <1>5

\* sl_txc_transmission_request keeps the invariant, whatever it sends.
LEMMA TransmissionRequest ==
  ASSUME NEW x, NEW P, NEW junk, junk.pos \in {-1, 0}
  PROVE  Keeps(x, sl_txc_transmission_request(x, junk).st, P)
<1> DEFINE f == IF PCR THEN Forcing(x) ELSE x
<1>1. Keeps(x, f, P)
  BY ForcingKeeps, Early
<1> HIDE DEF f
<1>2. Keeps(x, SendOld(f, junk).st, P)
  BY <1>1, SendOldKeeps, Chain
<1>3. Keeps(x, SendFisu(f).st, P)
  BY <1>1, SendFillIn, Chain
<1>4. f.tb # <<>> => Keeps(x, SendNew(f).st, P)
  BY <1>1, SendNewKeeps, Chain
<1>5. Keeps(x, SendLssu(x).st, P) /\ Keeps(x, SendFisu(x).st, P) /\ Keeps(x, x, P)
  BY SendLssuKeeps, SendFillIn, Early
<1> QED
  BY <1>2, <1>3, <1>4, <1>5 DEF sl_txc_transmission_request, f

------------------------------------------------------------------------------
\* Reception control and congestion control.

\* sl_rc_stop keeps the invariant.
LEMMA RcStop == ASSUME NEW x, NEW P PROVE Keeps(x, sl_rc_stop(x), P)
<1> DEFINE y == sl_cc_normal(x)
<1>1. Keeps(x, y, P)
  BY CcNormal
<1> HIDE DEF y
<1>2. Keeps(y, [y EXCEPT !.rc = "IDLE"], P)
  BY SMT DEF Keeps, Core, Link
<1> QED
  BY <1>1, <1>2, Chain DEF sl_rc_stop, y

\* sl_rc_start keeps the invariant.
LEMMA RcStart == ASSUME NEW x, NEW P PROVE Keeps(x, sl_rc_start(x), P)
<1> DEFINE m == IF x.ib_mask = 1 THEN Mod - 1 ELSE 0
<1>0. m \in Sn /\ 0 \in Sn
  BY InRange
<1> HIDE DEF m
<1> DEFINE a == [x EXCEPT !.Xfsn = 0, !.Xfib = x.ib_mask, !.rFfsn = 0, !.Tfsn = m, !.rtr = 0]
<1>1. Keeps(x, a, P)
  BY SMT, <1>0 DEF Keeps, Core, Link
<1> HIDE DEF a
<1> DEFINE b == [a EXCEPT !.msu_fisu_accepted = IF ANSI THEN 1 ELSE 0,
                          !.abnormal_bsnr = 0, !.abnormal_fibr = 0,
                          !.congestion_discard = 0, !.congestion_accept = 0,
                          !.rc = "IN_SERVICE"]
<1>2. Keeps(a, b, P)
  BY SMT DEF Keeps, Core, Link
<1> HIDE DEF b
<1>3. sl_rc_start(x) = IF x.rc # "IDLE" THEN x ELSE b
  BY SMT DEF sl_rc_start, b, a, m
<1> QED
  BY <1>1, <1>2, <1>3, Chain, Early

\* sl_rc_retrieve_fsnx keeps the invariant.
LEMMA RetrieveFsnx == ASSUME NEW x, NEW P PROVE Keeps(x, sl_rc_retrieve_fsnx(x), P)
<1> DEFINE y == sl_cc_normal(sl_txc_fsnx_value(x))
<1>1. Keeps(x, y, P)
  BY FsnxValue, CcNormal, Chain
<1> HIDE DEF y
<1>2. Keeps(y, [y EXCEPT !.congestion_discard = 0, !.congestion_accept = 0, !.rtr = 0], P)
  BY SMT DEF Keeps, Core, Link
<1> QED
  BY <1>1, <1>2, Chain DEF sl_rc_retrieve_fsnx, y

\* sl_rc_congestion_discard keeps the invariant.
LEMMA RcDiscard == ASSUME NEW x, NEW P PROVE Keeps(x, sl_rc_congestion_discard(x), P)
<1> DEFINE y == [x EXCEPT !.congestion_discard = 1]
<1>1. Keeps(x, y, P)
  BY SMT DEF Keeps, Core, Link
<1> HIDE DEF y
<1> QED
  BY <1>1, CcBusy, Chain, Early DEF sl_rc_congestion_discard, y

\* sl_rc_congestion_accept keeps the invariant.
LEMMA RcAcceptPolicy == ASSUME NEW x, NEW P PROVE Keeps(x, sl_rc_congestion_accept(x), P)
<1> DEFINE y == [x EXCEPT !.congestion_accept = 1]
<1>1. Keeps(x, y, P)
  BY SMT DEF Keeps, Core, Link
<1> HIDE DEF y
<1> QED
  BY <1>1, CcBusy, Chain, Early DEF sl_rc_congestion_accept, y

\* sl_rc_no_congestion keeps the invariant.
LEMMA RcNoCongestion == ASSUME NEW x, NEW P PROVE Keeps(x, sl_rc_no_congestion(x), P)
<1> DEFINE y == sl_txc_fsnx_value(sl_cc_normal(x))
<1>1. Keeps(x, y, P)
  BY CcNormal, FsnxValue, Chain
<1> HIDE DEF y
<1> DEFINE a == [y EXCEPT !.congestion_discard = 0, !.congestion_accept = 0]
<1>2. Keeps(y, a, P)
  BY SMT DEF Keeps, Core, Link
<1> HIDE DEF a
<1> DEFINE n == sl_txc_nack_to_be_sent(a)
<1> DEFINE i == Toggled(a, n.Xfib)
<1>3. Keeps(a, n, P)
  BY NackToBeSent
<1>4. Core(a, P) => i \in Flag
  BY SMT DEF Core, Toggled
<1> HIDE DEF n, i
<1>5. i \in Flag => Keeps(n, [n EXCEPT !.Xfib = i], P)
  BY SMT DEF Keeps, Core, Link
<1>6. Keeps(a, [n EXCEPT !.Xfib = i], P)
  BY <1>3, <1>4, <1>5 DEF Keeps
<1>7. sl_rc_no_congestion(x) = IF x.lsc = "POWER_OFF" THEN x
                               ELSE IF x.rtr = 1 THEN [n EXCEPT !.Xfib = i] ELSE a
  BY DEF sl_rc_no_congestion, n, i, a, y
<1> QED
  BY <1>1, <1>2, <1>6, <1>7, Chain, Early

\* Level 3's own congestion policy.
LEMMA LscCongestion ==
  ASSUME NEW x, NEW P
  PROVE  /\ Keeps(x, sl_lsc_congestion_discard(x), P)
         /\ Keeps(x, sl_lsc_congestion_accept(x), P)
         /\ Keeps(x, sl_lsc_no_congestion(x), P)
<1>1. ASSUME NEW y, NEW f \in Flag PROVE Keeps(y, [y EXCEPT !.l3_congestion_detect = f], P)
  BY SMT DEF Keeps, Core, Link
<1>2. /\ Keeps(x, sl_rc_congestion_discard(x), P)
      /\ Keeps(x, sl_rc_congestion_accept(x), P)
      /\ Keeps(x, sl_rc_no_congestion(x), P)
  BY RcDiscard, RcAcceptPolicy, RcNoCongestion
<1> QED
  BY <1>1, <1>2, Chain
     DEF sl_lsc_congestion_discard, sl_lsc_congestion_accept, sl_lsc_no_congestion

------------------------------------------------------------------------------
\* Leaving service: Link is broken on the way and holds at the end.

\* The end of every way out of service.
LEMMA OutOfServiceCore ==
  ASSUME NEW x, NEW P
  PROVE  Core(x, P) => /\ Core(OutOfService(x), P)
                       /\ OutOfService(x).lsc = "OUT_OF_SERVICE"
                       /\ OutOfService(x).l3 = x.l3
<1> DEFINE a == sl_suerm_stop(x)
<1>1. Core(x, P) => Core(a, P) /\ a.l3 = x.l3
  BY SMT DEF Core, sl_suerm_stop
<1> HIDE DEF a
<1> DEFINE b == sl_rc_stop(a)
<1>2. Core(a, P) => Core(b, P)
  BY RcStop DEF Keeps
<1>3. Core(a, P) => b.l3 = a.l3
  BY SMT DEF Core, sl_rc_stop, sl_cc_normal
<1> HIDE DEF b
<1> DEFINE c == sl_poc_stop(sl_txc_send_sios(b))
<1>4. Core(b, P) => Core(c, P)
  BY SendSios, PocStop DEF Keeps
<1>5. Core(b, P) => c.l3 = b.l3
  BY SMT DEF Core, sl_poc_stop, sl_txc_send_sios
<1> HIDE DEF c
<1> DEFINE d == [c EXCEPT !.emergency = 0, !.local_processor_outage = 0,
                          !.remote_processor_outage = 0, !.lsc = "OUT_OF_SERVICE"]
<1>6. Core(c, P) => Core(d, P) /\ d.lsc = "OUT_OF_SERVICE" /\ d.l3 = c.l3
  BY SMT DEF Core
<1> HIDE DEF d
<1>7. OutOfService(x) = d
  BY DEF OutOfService, d, c, b, a
<1> QED
  BY <1>1, <1>2, <1>3, <1>4, <1>5, <1>6, <1>7

\* A link that is out of service needs no timer, once level 3 has been told.
LEMMA Out ==
  ASSUME NEW x, NEW P, Core(x, P), x.lsc = "OUT_OF_SERVICE", x.l3 # "in_service"
  PROVE  Whole(x, P)
  BY DEF Whole, Link

\* The indication says so to level 3; stopping T1 and alignment keeps Core.
LEMMA Leaving ==
  ASSUME NEW x, NEW P, Core(x, P)
  PROVE  /\ Core(sl_out_of_service_ind(x), P) /\ sl_out_of_service_ind(x).l3 = "stopped"
         /\ Core(sl_timer_stop(x, "t1"), P) /\ sl_timer_stop(x, "t1").l3 = x.l3
<1>1. Core(sl_out_of_service_ind(x), P) /\ sl_out_of_service_ind(x).l3 = "stopped"
  BY SMT DEF Core, sl_out_of_service_ind
<1>2. Core(sl_timer_stop(x, "t1"), P) /\ sl_timer_stop(x, "t1").l3 = x.l3
  BY SMT DEF Core, sl_timer_stop
<1> QED
  BY <1>1, <1>2

\* sl_iac_stop stops the alignment timers and what they supervise.
LEMMA IacStop ==
  ASSUME NEW x, NEW P
  PROVE  Core(x, P) => Core(sl_iac_stop(x), P) /\ sl_iac_stop(x).l3 = x.l3
<1> DEFINE y == sl_aerm_stop(x)
<1>1. Core(x, P) => Core(y, P) /\ y.l3 = x.l3
  BY SMT, NumberAssumption DEF Core, sl_aerm_stop
<1> HIDE DEF y
<1> DEFINE z == [y EXCEPT !.tm = @ \ {"t2", "t3", "t4"}, !.emergency = 0, !.iac = "IDLE"]
<1>2. Core(y, P) => Core(z, P) /\ z.l3 = y.l3
  BY SMT DEF Core
<1> QED
  BY <1>1, <1>2 DEF sl_iac_stop, y

\* A failed link is out of service, or was never powered on.
LEMMA LinkFailure ==
  ASSUME NEW x, NEW P
  PROVE  /\ Keeps(x, sl_lsc_link_failure(x), P)
         /\ Core(x, P) => sl_lsc_link_failure(x).lsc \in {"POWER_OFF", "OUT_OF_SERVICE"}
<1> SUFFICES ASSUME Core(x, P)
             PROVE  /\ Keeps(x, sl_lsc_link_failure(x), P)
                    /\ sl_lsc_link_failure(x).lsc \in {"POWER_OFF", "OUT_OF_SERVICE"}
  BY DEF Keeps
<1> DEFINE a == sl_out_of_service_ind(x)
<1>1. Core(a, P) /\ a.l3 = "stopped"
  BY Leaving
<1> HIDE DEF a
<1> DEFINE b == sl_iac_stop(a)
<1>2. Core(b, P) /\ b.l3 = "stopped"
  BY <1>1, IacStop
<1> HIDE DEF b
<1> DEFINE c == sl_timer_stop(b, "t1")
<1>3. Core(c, P) /\ c.l3 = "stopped"
  BY <1>2, Leaving
<1> HIDE DEF c
<1>4. Whole(OutOfService(c), P) /\ OutOfService(c).lsc = "OUT_OF_SERVICE"
  BY <1>3, OutOfServiceCore, Out
<1> QED
  BY <1>4, Early DEF sl_lsc_link_failure, c, b, a, Keeps, Whole

\* sl_lsc_stop keeps the invariant.
LEMMA LscStop == ASSUME NEW x, NEW P PROVE Keeps(x, sl_lsc_stop(x), P)
<1> SUFFICES ASSUME Core(x, P) PROVE Keeps(x, sl_lsc_stop(x), P)
  BY DEF Keeps
<1> DEFINE a == sl_iac_stop(x)
<1>1. Core(a, P)
  BY IacStop
<1> HIDE DEF a
<1> DEFINE b == sl_timer_stop(a, "t1")
<1>2. Core(b, P)
  BY <1>1, Leaving
<1> HIDE DEF b
<1> DEFINE c == OutOfService(b)
<1>3. Core(c, P) /\ c.lsc = "OUT_OF_SERVICE"
  BY <1>2, OutOfServiceCore
<1> HIDE DEF c
<1> DEFINE d == [c EXCEPT !.l3 = "stopped"]
<1>4. Core(d, P) /\ d.lsc = "OUT_OF_SERVICE" /\ d.l3 = "stopped"
  <2>1. Core(c, P) => Core(d, P) /\ d.lsc = c.lsc /\ d.l3 = "stopped"
    BY SMT DEF Core
  <2> QED
    BY <1>3, <2>1
<1>5. Whole(d, P)
  BY <1>4, Out
<1> QED
  BY <1>5, Early DEF sl_lsc_stop, d, c, b, a, Keeps, Whole

\* sl_lsc_sio keeps the invariant.
LEMMA LscSio == ASSUME NEW x, NEW P PROVE Keeps(x, sl_lsc_sio(x), P)
<1> SUFFICES ASSUME Core(x, P) PROVE Keeps(x, sl_lsc_sio(x), P)
  BY DEF Keeps
<1> DEFINE a == sl_out_of_service_ind(sl_timer_stop(x, "t1"))
<1>1. Core(a, P) /\ a.l3 = "stopped"
  BY Leaving
<1> HIDE DEF a
<1>2. Whole(OutOfService(a), P)
  BY <1>1, OutOfServiceCore, Out
<1> QED
  BY <1>2, Early DEF sl_lsc_sio, a, Keeps, Whole

\* sl_lsc_sios keeps the invariant.
LEMMA LscSios == ASSUME NEW x, NEW P PROVE Keeps(x, sl_lsc_sios(x), P)
<1> SUFFICES ASSUME Core(x, P) PROVE Keeps(x, sl_lsc_sios(x), P)
  BY DEF Keeps
<1> DEFINE a == sl_out_of_service_ind(sl_timer_stop(x, "t1"))
<1> DEFINE b == sl_out_of_service_ind(x)
<1>1. Core(a, P) /\ a.l3 = "stopped" /\ Core(b, P) /\ b.l3 = "stopped"
  BY Leaving
<1> HIDE DEF a, b
<1>2. Whole(OutOfService(a), P) /\ Whole(OutOfService(b), P)
  BY <1>1, OutOfServiceCore, Out
<1>3. sl_lsc_sios(x) \in {OutOfService(a), OutOfService(b), x}
  BY DEF sl_lsc_sios, a, b
<1> QED
  BY <1>2, <1>3, Early DEF Keeps, Whole

\* The common part of SIN, SIE and of an alignment that is not possible.
LEMMA Silenced ==
  ASSUME NEW x, NEW P
  PROVE  Core(x, P) => /\ Core(sl_txc_send_sios(sl_rc_stop(x)), P)
                       /\ sl_txc_send_sios(sl_rc_stop(x)).l3 = x.l3
<1> DEFINE a == sl_rc_stop(x)
<1>1. Core(x, P) => a.l3 = x.l3
  BY SMT DEF Core, sl_rc_stop, sl_cc_normal
<1>2. Core(x, P) => Core(a, P)
  BY RcStop DEF Keeps
<1> HIDE DEF a
<1>3. Core(a, P) => sl_txc_send_sios(a).l3 = a.l3
  BY SMT DEF Core, sl_txc_send_sios
<1> QED
  BY <1>1, <1>2, <1>3, SendSios DEF Keeps, a

\* SinOrSie keeps the invariant.
LEMMA SinOrSieKeeps == ASSUME NEW x, NEW P PROVE Keeps(x, SinOrSie(x), P)
<1> SUFFICES ASSUME Core(x, P) PROVE Keeps(x, SinOrSie(x), P)
  BY DEF Keeps
<1> DEFINE a == sl_out_of_service_ind(x)
<1>1. Core(a, P) /\ a.l3 = "stopped"
  BY Leaving
<1> HIDE DEF a
<1> DEFINE b == sl_suerm_stop(a)
<1>2. Core(b, P) /\ b.l3 = "stopped"
  <2>1. Core(a, P) => Core(b, P) /\ b.l3 = a.l3
    BY SMT DEF Core, sl_suerm_stop
  <2> QED
    BY <1>1, <2>1
<1> HIDE DEF b
<1> DEFINE c == sl_txc_send_sios(sl_rc_stop(b))
<1>3. Core(c, P) /\ c.l3 = "stopped"
  BY <1>2, Silenced
<1> HIDE DEF c
<1> DEFINE d == [c EXCEPT !.emergency = 0, !.lsc = "OUT_OF_SERVICE"]
<1>4. Whole(d, P)
  <2>1. Core(c, P) => Core(d, P) /\ d.lsc = "OUT_OF_SERVICE" /\ d.l3 = c.l3
    BY SMT DEF Core
  <2> QED
    BY <1>3, <2>1, Out
<1> DEFINE e == [sl_poc_stop(c) EXCEPT !.emergency = 0, !.local_processor_outage = 0,
                                       !.remote_processor_outage = 0, !.lsc = "OUT_OF_SERVICE"]
<1>5. Whole(e, P)
  <2>1. Core(c, P) => Core(e, P) /\ e.lsc = "OUT_OF_SERVICE" /\ e.l3 = c.l3
    BY SMT DEF Core, sl_poc_stop
  <2> QED
    BY <1>3, <2>1, Out
<1> HIDE DEF d, e
<1>6. SinOrSie(x) \in {d, e, x}
  BY DEF SinOrSie, d, e, c, b, a
<1> QED
  BY <1>4, <1>5, <1>6, Early DEF Keeps, Whole

\* The link is out of service, whatever initial alignment control does next.
LEMMA AlignmentNotPossible ==
  ASSUME NEW x, NEW P
  PROVE  Core(x, P) => /\ Core(sl_lsc_alignment_not_possible(x), P)
                       /\ sl_lsc_alignment_not_possible(x).lsc = "OUT_OF_SERVICE"
                       /\ sl_lsc_alignment_not_possible(x).l3 = "stopped"
<1> SUFFICES ASSUME Core(x, P)
             PROVE  /\ Core(sl_lsc_alignment_not_possible(x), P)
                    /\ sl_lsc_alignment_not_possible(x).lsc = "OUT_OF_SERVICE"
                    /\ sl_lsc_alignment_not_possible(x).l3 = "stopped"
  OBVIOUS
<1> DEFINE a == sl_out_of_service_ind(x)
<1>1. Core(a, P) /\ a.l3 = "stopped"
  BY Leaving
<1> HIDE DEF a
<1> DEFINE c == sl_txc_send_sios(sl_rc_stop(a))
<1>2. Core(c, P) /\ c.l3 = "stopped"
  BY <1>1, Silenced
<1> HIDE DEF c
<1> DEFINE d == [c EXCEPT !.local_processor_outage = 0, !.emergency = 0, !.lsc = "OUT_OF_SERVICE"]
<1>3. Core(c, P) => Core(d, P) /\ d.lsc = "OUT_OF_SERVICE" /\ d.l3 = c.l3
  BY SMT DEF Core
<1> QED
  BY <1>2, <1>3 DEF sl_lsc_alignment_not_possible, c, a

------------------------------------------------------------------------------
\* Initial alignment control.  Each state that it enters has its timer.

\* ToAligned keeps the invariant.
LEMMA ToAlignedKeeps ==
  ASSUME NEW x, NEW P, NEW v \in {"n", "e"}, NEW b
  PROVE  Keeps(x, ToAligned(x, v, b), P)
<1> DEFINE y == IF b THEN sl_txc_send_sie(x) ELSE sl_txc_send_sin(x)
<1>1. Keeps(x, y, P)
  BY SMT DEF Keeps, Core, Link, sl_txc_send_sie, sl_txc_send_sin
<1> HIDE DEF y
<1>2. Keeps(y, [y EXCEPT !.t4v = v, !.tm = (@ \ {"t2"}) \cup {"t3"}, !.iac = "ALIGNED"], P)
  BY SMT DEF Keeps, Core, Link
<1> QED
  BY <1>1, <1>2, Chain DEF ToAligned, y

\* sl_iac_sio keeps the invariant.
LEMMA IacSio == ASSUME NEW x, NEW P PROVE Keeps(x, sl_iac_sio(x), P)
<1> DEFINE v == IF x.emergency = 1 THEN "e" ELSE "n"
<1> DEFINE a == ToAligned(x, v, x.emergency = 1)
<1>1. Keeps(x, a, P)
  BY ToAlignedKeeps
<1> HIDE DEF a
<1> DEFINE y == sl_aerm_stop(x)
<1> DEFINE b == [y EXCEPT !.tm = (@ \ {"t4"}) \cup {"t3"}, !.iac = "ALIGNED"]
<1>2. Keeps(x, y, P)
  BY AermStop
<1> HIDE DEF y
<1>3. Keeps(y, b, P)
  BY SMT DEF Keeps, Core, Link
<1> HIDE DEF b
<1>4. sl_iac_sio(x) \in {a, b, x}
  BY DEF sl_iac_sio, a, b, y
<1> QED
  BY <1>1, <1>2, <1>3, <1>4, Chain, Early

\* sl_iac_sin keeps the invariant.
LEMMA IacSin == ASSUME NEW x, NEW P PROVE Keeps(x, sl_iac_sin(x), P)
<1> DEFINE v == IF x.emergency = 1 THEN "e" ELSE "n"
<1> DEFINE c == ToAligned(x, v, x.emergency = 1)
<1>1. Keeps(x, c, P)
  BY ToAlignedKeeps
<1> HIDE DEF c
<1> DEFINE a == IF x.t4v = "e" THEN sl_aerm_set_ti_to_tie(x) ELSE x
<1> DEFINE b == [Prove(sl_timer_stop(a, "t3")) EXCEPT !.Cp = 0, !.iac = "PROVING"]
<1>2. Keeps(x, a, P)
  BY SetTie, Early
<1> HIDE DEF a
<1>3. Keeps(a, b, P)
  BY SMT DEF Keeps, Core, Link, Prove, sl_aerm_start, sl_timer_stop
<1> HIDE DEF b
<1>4. sl_iac_sin(x) \in {c, b, x}
  BY DEF sl_iac_sin, c, b, a
<1> QED
  BY <1>1, <1>2, <1>3, <1>4, Chain, Early

\* sl_iac_sie keeps the invariant.
LEMMA IacSie == ASSUME NEW x, NEW P PROVE Keeps(x, sl_iac_sie(x), P)
<1> DEFINE c == ToAligned(x, "e", x.emergency = 1)
<1>1. Keeps(x, c, P)
  BY ToAlignedKeeps
<1> HIDE DEF c
<1> DEFINE a == sl_aerm_set_ti_to_tie(sl_timer_stop(x, "t3"))
<1> DEFINE b == [Prove(a) EXCEPT !.t4v = "e", !.Cp = 0, !.iac = "PROVING"]
<1>2. Core(x, P) => /\ SlState(a) /\ CcSupervised(a, P)
                    /\ Link(x, P) => Link(a, P)
  BY SMT, NumberAssumption DEF Core, Link, sl_aerm_set_ti_to_tie, sl_timer_stop
<1> HIDE DEF a
<1>3. SlState(a) /\ CcSupervised(a, P) => Core(b, P) /\ (Link(a, P) => Link(b, P))
  BY SMT DEF Core, Link, Prove, sl_aerm_start
<1> HIDE DEF b
<1>4. Keeps(x, b, P)
  <2> HIDE DEF SlState, CcSupervised
  <2> QED
    BY <1>2, <1>3 DEF Keeps
<1> DEFINE d == Prove(sl_aerm_set_ti_to_tie(sl_aerm_stop(x)))
<1> DEFINE e == [d EXCEPT !.t4v = "e"]
<1>5. Keeps(x, d, P)
  BY AermStop, SetTie, ProveKeeps, Chain
<1> HIDE DEF d
<1>6. Keeps(d, e, P)
  BY SMT DEF Keeps, Core, Link
<1> HIDE DEF e
<1>7. sl_iac_sie(x) \in {c, b, e, x}
  BY DEF sl_iac_sie, c, b, a, d, e
<1> QED
  BY <1>1, <1>4, <1>5, <1>6, <1>7, Chain, Early


\* sl_iac_sios keeps the invariant.
LEMMA IacSios == ASSUME NEW x, NEW P PROVE Keeps(x, sl_iac_sios(x), P)
<1> SUFFICES ASSUME Core(x, P) PROVE Keeps(x, sl_iac_sios(x), P)
  BY DEF Keeps
<1> DEFINE a == sl_lsc_alignment_not_possible(x)
<1>1. Core(a, P) /\ a.lsc = "OUT_OF_SERVICE" /\ a.l3 = "stopped"
  BY AlignmentNotPossible
<1> HIDE DEF a
<1> DEFINE b == [sl_aerm_stop(a) EXCEPT !.tm = @ \ {"t3", "t4"}, !.emergency = 0, !.iac = "IDLE"]
<1>2. Core(a, P) => Core(b, P) /\ b.lsc = a.lsc /\ b.l3 = a.l3
  BY SMT, NumberAssumption DEF Core, sl_aerm_stop
<1>3. Whole(b, P)
  BY <1>1, <1>2, Out
<1> HIDE DEF b
<1> QED
  BY <1>3, Early DEF sl_iac_sios, b, a, Keeps, Whole

\* sl_iac_abort_proving keeps the invariant.
LEMMA IacAbort == ASSUME NEW x, NEW P PROVE Keeps(x, sl_iac_abort_proving(x), P)
<1> SUFFICES ASSUME Core(x, P) PROVE Keeps(x, sl_iac_abort_proving(x), P)
  BY DEF Keeps
<1> DEFINE a == sl_lsc_alignment_not_possible(x)
<1>1. Core(a, P) /\ a.lsc = "OUT_OF_SERVICE" /\ a.l3 = "stopped"
  BY AlignmentNotPossible
<1> HIDE DEF a
<1> DEFINE b == [sl_aerm_stop(sl_timer_stop(a, "t4")) EXCEPT
                   !.Cp = M, !.emergency = 0, !.iac = "IDLE"]
<1>2. Core(a, P) => Core(b, P) /\ b.lsc = a.lsc /\ b.l3 = a.l3
  BY SMT, NumberAssumption DEF Core, sl_aerm_stop, sl_timer_stop
<1>3. Whole(b, P)
  BY <1>1, <1>2, Out
<1> HIDE DEF b
<1> DEFINE c == [x EXCEPT !.Cp = @ + 1, !.further_proving = 1]
<1>4. Keeps(x, c, P)
  BY SMT DEF Keeps, Core, Link
<1> HIDE DEF c
<1>5. sl_iac_abort_proving(x) \in {b, c, x}
  BY DEF sl_iac_abort_proving, c, b, a
<1> QED
  BY <1>3, <1>4, <1>5, Early DEF Keeps, Whole

\* sl_iac_correct_su keeps the invariant.
LEMMA IacCorrect == ASSUME NEW x, NEW P PROVE Keeps(x, sl_iac_correct_su(x), P)
  BY ProveKeeps, Early DEF sl_iac_correct_su

\* sl_iac_emergency keeps the invariant.
LEMMA IacEmergency == ASSUME NEW x, NEW P PROVE Keeps(x, sl_iac_emergency(x), P)
<1>0. ASSUME NEW y PROVE Keeps(y, [y EXCEPT !.t4v = "e"], P)
  BY SMT DEF Keeps, Core, Link
<1> DEFINE a == Prove(sl_aerm_set_ti_to_tie(sl_aerm_stop(sl_txc_send_sie(x))))
<1>1. Keeps(x, [a EXCEPT !.t4v = "e"], P)
  BY <1>0, SendSie, AermStop, SetTie, ProveKeeps, Chain
<1> DEFINE b == sl_txc_send_sie(x)
<1>2. Keeps(x, [b EXCEPT !.t4v = "e"], P)
  BY <1>0, SendSie, Chain
<1>3. Keeps(x, [x EXCEPT !.emergency = 1], P)
  BY SMT DEF Keeps, Core, Link
<1> HIDE DEF a, b
<1>4. sl_iac_emergency(x) \in {[a EXCEPT !.t4v = "e"], [b EXCEPT !.t4v = "e"],
                               [x EXCEPT !.emergency = 1]}
  BY DEF sl_iac_emergency, a, b
<1> QED
  BY <1>1, <1>2, <1>3, <1>4

\* sl_lsc_emergency keeps the invariant.
LEMMA LscEmergency == ASSUME NEW x, NEW P PROVE Keeps(x, sl_lsc_emergency(x), P)
<1> DEFINE y == [x EXCEPT !.emergency = 1]
<1>1. Keeps(x, y, P)
  BY SMT DEF Keeps, Core, Link
<1> HIDE DEF y
<1> QED
  BY <1>1, IacEmergency, Chain DEF sl_lsc_emergency, y

------------------------------------------------------------------------------
\* Starting.

\* sl_lsc_power_on keeps the invariant.
LEMMA LscPowerOn == ASSUME NEW x, NEW P PROVE Keeps(x, sl_lsc_power_on(x), P)
<1> DEFINE a == sl_txc_send_sios(sl_txc_start(x))
<1> DEFINE b == sl_aerm_set_ti_to_tin(a)
<1>1. Keeps(x, b, P)
  BY TxcStart, SendSios, SetTin, Chain
<1>2. Core(x, P) => b.l3 = x.l3
  <2> DEFINE c == sl_txc_start(x)
  <2>1. Core(x, P) => c.l3 = x.l3
    BY SMT DEF Core, sl_txc_start
  <2>2. Core(x, P) => Core(c, P)
    BY TxcStart DEF Keeps
  <2> HIDE DEF c
  <2>3. Core(c, P) => sl_aerm_set_ti_to_tin(sl_txc_send_sios(c)).l3 = c.l3
    BY SMT DEF Core, sl_aerm_set_ti_to_tin, sl_txc_send_sios
  <2> QED
    BY <2>1, <2>2, <2>3 DEF c
<1> HIDE DEF b
<1> DEFINE d == [b EXCEPT !.local_processor_outage = 0, !.emergency = 0, !.lsc = "OUT_OF_SERVICE"]
<1>3. Core(b, P) => Core(d, P) /\ d.lsc = "OUT_OF_SERVICE" /\ d.l3 = b.l3
  BY SMT DEF Core
<1> HIDE DEF d
<1>4. x.lsc = "POWER_OFF" /\ Link(x, P) => x.l3 # "in_service"
  BY DEF Link
<1>5. x.lsc = "POWER_OFF" => Keeps(x, d, P)
  BY <1>1, <1>2, <1>3, <1>4, Out DEF Keeps, Whole
<1>6. sl_lsc_power_on(x) = IF x.lsc # "POWER_OFF" THEN x ELSE d
  BY DEF sl_lsc_power_on, d, b
<1> QED
  BY <1>5, <1>6, Early

\* After START alignment control is not idle, so INITIAL_ALIGNMENT has a timer.
LEMMA LscStart == ASSUME NEW x, NEW P PROVE Keeps(x, sl_lsc_start(x), P)
<1> DEFINE a == sl_txc_start(sl_rc_start(x))
<1>1. Keeps(x, a, P)
  BY RcStart, TxcStart, Chain
<1> HIDE DEF a
<1> DEFINE b == IF a.emergency = 1 THEN sl_iac_emergency(a) ELSE a
<1>2. Keeps(a, b, P)
  BY IacEmergency, Early
<1> HIDE DEF b
<1> DEFINE c == sl_iac_start(b)
<1>3. Keeps(b, c, P)
  BY IacStart
<1>4. Core(b, P) => c.iac # "IDLE"
  BY SMT DEF Core, sl_iac_start, sl_timer_start, sl_txc_send_sio
<1> HIDE DEF c
<1> DEFINE d == [c EXCEPT !.lsc = "INITIAL_ALIGNMENT", !.l3 = "starting"]
<1>5. Core(c, P) /\ c.iac # "IDLE" => Core(d, P) /\ Link(d, P)
  BY SMT DEF Core, Link
<1> HIDE DEF d
<1>6. Keeps(x, d, P)
  BY <1>1, <1>2, <1>3, <1>4, <1>5 DEF Keeps
<1>7. sl_lsc_start(x) = IF x.lsc # "OUT_OF_SERVICE" THEN x ELSE d
  BY DEF sl_lsc_start, d, c, b, a
<1> QED
  BY <1>6, <1>7, Early

------------------------------------------------------------------------------
\* Processor outage.  The link state moves among the aligned states only.

\* A function that also leaves the link state alone.
Quiet(x, y, P) == Keeps(x, y, P) /\ (Core(x, P) => y.lsc = x.lsc)

\* What two functions leave alone, both leave alone.
LEMMA QuietChain ==
  ASSUME NEW x, NEW y, NEW z, NEW P, Quiet(x, y, P), Quiet(y, z, P) PROVE Quiet(x, z, P)
  BY DEF Quiet, Keeps

\* Returning early leaves everything alone.
LEMMA QuietEarly == ASSUME NEW x, NEW P PROVE Quiet(x, x, P)
  BY DEF Quiet, Keeps

\* The functions of processor outage control that do not touch the link state.
LEMMA QuietFunctions ==
  ASSUME NEW x, NEW P
  PROVE  /\ Quiet(x, sl_txc_send_sipo(x), P) /\ Quiet(x, sl_txc_send_fisu(x), P)
         /\ Quiet(x, sl_txc_send_msu(x), P) /\ Quiet(x, sl_txc_fsnx_value(x), P)
         /\ Quiet(x, sl_cc_normal(x), P) /\ Quiet(x, sl_suerm_start(x), P)
         /\ Quiet(x, sl_rc_accept_msu_fisu(x), P) /\ Quiet(x, sl_rc_reject_msu_fisu(x), P)
         /\ Quiet(x, sl_poc_local_processor_outage(x), P)
         /\ Quiet(x, sl_poc_remote_processor_outage(x), P)
         /\ Quiet(x, [x EXCEPT !.local_processor_outage = 1], P)
         /\ Quiet(x, [x EXCEPT !.local_processor_outage = 0], P)
         /\ Quiet(x, [x EXCEPT !.remote_processor_outage = 1], P)
         /\ Quiet(x, [x EXCEPT !.remote_processor_outage = 0], P)
<1>1. Quiet(x, sl_txc_send_sipo(x), P)
  BY SMT DEF Quiet, Keeps, Core, Link, sl_txc_send_sipo
<1>2. Quiet(x, sl_txc_send_fisu(x), P)
  BY SMT DEF Quiet, Keeps, Core, Link, sl_txc_send_fisu
<1>3. Quiet(x, sl_txc_send_msu(x), P)
  BY SMT DEF Quiet, Keeps, Core, Link, sl_txc_send_msu
<1>4. Quiet(x, sl_txc_fsnx_value(x), P)
  BY SMT DEF Quiet, Keeps, Core, Link, sl_txc_fsnx_value
<1>5. Quiet(x, sl_cc_normal(x), P)
  BY SMT DEF Quiet, Keeps, Core, Link, sl_cc_normal
<1>6. Quiet(x, sl_suerm_start(x), P)
  BY SMT DEF Quiet, Keeps, Core, Link, sl_suerm_start, sl_eim_start
<1>7. Quiet(x, sl_rc_accept_msu_fisu(x), P)
  BY SMT DEF Quiet, Keeps, Core, Link, sl_rc_accept_msu_fisu
<1>8. Quiet(x, sl_rc_reject_msu_fisu(x), P)
  BY SMT DEF Quiet, Keeps, Core, Link, sl_rc_reject_msu_fisu
<1>9. Quiet(x, sl_poc_local_processor_outage(x), P)
  BY SMT DEF Quiet, Keeps, Core, Link, sl_poc_local_processor_outage
<1>10. Quiet(x, sl_poc_remote_processor_outage(x), P)
  BY SMT DEF Quiet, Keeps, Core, Link, sl_poc_remote_processor_outage
<1>11. ASSUME NEW f \in Flag
       PROVE  /\ Quiet(x, [x EXCEPT !.local_processor_outage = f], P)
              /\ Quiet(x, [x EXCEPT !.remote_processor_outage = f], P)
  BY SMT DEF Quiet, Keeps, Core, Link
<1>12. /\ Quiet(x, [x EXCEPT !.local_processor_outage = 1], P)
       /\ Quiet(x, [x EXCEPT !.local_processor_outage = 0], P)
       /\ Quiet(x, [x EXCEPT !.remote_processor_outage = 1], P)
       /\ Quiet(x, [x EXCEPT !.remote_processor_outage = 0], P)
  BY <1>11
<1> QED
  BY <1>1, <1>2, <1>3, <1>4, <1>5, <1>6, <1>7, <1>8, <1>9, <1>10, <1>12

\* A move between two link states that are supervised alike.
Alike(v, w) ==
  \/ v \in {"ALIGNED_READY", "ALIGNED_NOT_READY"} /\ w \in {"ALIGNED_READY", "ALIGNED_NOT_READY"}
  \/ v \in {"IN_SERVICE", "PROCESSOR_OUTAGE"} /\ w \in {"IN_SERVICE", "PROCESSOR_OUTAGE"}

\* Such a move after such functions keeps the invariant.
LEMMA Move ==
  ASSUME NEW x, NEW y, NEW P, NEW w \in LscState, Alike(x.lsc, w), Quiet(x, y, P)
  PROVE  Keeps(x, [y EXCEPT !.lsc = w], P)
<1>1. Alike(y.lsc, w) => Keeps(y, [y EXCEPT !.lsc = w], P)
  BY SMT DEF Keeps, Core, Link, Alike
<1> QED
  BY <1>1 DEF Quiet, Keeps

\* sl_lsc_no_processor_outage keeps the invariant.
LEMMA NoProcessorOutage == ASSUME NEW x, NEW P PROVE Keeps(x, sl_lsc_no_processor_outage(x), P)
<1> DEFINE a == sl_rc_accept_msu_fisu(sl_txc_send_msu(x))
<1>1. Keeps(x, a, P)
  BY SendMsu, RcAccept, Chain
<1>2. Core(x, P) => a.lsc = x.lsc
  BY SMT DEF Core, sl_rc_accept_msu_fisu, sl_txc_send_msu
<1> HIDE DEF a
<1> DEFINE b == [a EXCEPT !.processor_outage = 0, !.l3_indication_received = 0,
                          !.local_processor_outage = 0, !.lsc = "IN_SERVICE"]
<1>3. a.lsc = "PROCESSOR_OUTAGE" => Keeps(a, b, P)
  BY SMT DEF Keeps, Core, Link
<1>4. x.lsc = "PROCESSOR_OUTAGE" => Keeps(x, b, P)
  BY <1>1, <1>2, <1>3 DEF Keeps
<1>5. Keeps(x, [x EXCEPT !.processor_outage = 0], P)
  BY SMT DEF Keeps, Core, Link
<1> QED
  BY <1>4, <1>5, Early DEF sl_lsc_no_processor_outage, a

\* A recovered processor, local or remote.
LEMMA PocRecovered ==
  ASSUME NEW x, NEW P
  PROVE  /\ Keeps(x, sl_poc_remote_processor_recovered(x), P)
         /\ Keeps(x, sl_poc_local_processor_recovered(x), P)
<1>1. ASSUME NEW y, NEW v \in PocState PROVE Keeps(y, [y EXCEPT !.poc = v], P)
  BY SMT DEF Keeps, Core, Link
<1> DEFINE a == sl_lsc_no_processor_outage(x)
<1>2. Keeps(x, a, P)
  BY NoProcessorOutage
<1> HIDE DEF a
<1>3. /\ Keeps(x, [a EXCEPT !.poc = "IDLE"], P)
      /\ Keeps(x, [x EXCEPT !.poc = "LOCAL"], P)
      /\ Keeps(x, [x EXCEPT !.poc = "REMOTE"], P)
  BY <1>1, <1>2, Chain
<1>4. /\ sl_poc_remote_processor_recovered(x)
           \in {[a EXCEPT !.poc = "IDLE"], [x EXCEPT !.poc = "LOCAL"], x}
      /\ sl_poc_local_processor_recovered(x)
           \in {[a EXCEPT !.poc = "IDLE"], [x EXCEPT !.poc = "REMOTE"], x}
  BY DEF sl_poc_remote_processor_recovered, sl_poc_local_processor_recovered, a
<1> QED
  BY <1>3, <1>4, Early

\* A recovery brings a link with a processor outage into service, or nowhere.
LEMMA PocRecoveredLsc ==
  ASSUME NEW x, NEW P, Core(x, P), NEW y,
         \/ y = sl_poc_remote_processor_recovered(x)
         \/ y = sl_poc_local_processor_recovered(x)
  PROVE  y.lsc = x.lsc \/ (x.lsc = "PROCESSOR_OUTAGE" /\ y.lsc = "IN_SERVICE")
<1> DEFINE a == sl_lsc_no_processor_outage(x)
<1>1. a.lsc = x.lsc \/ (x.lsc = "PROCESSOR_OUTAGE" /\ a.lsc = "IN_SERVICE")
  BY SMT DEF Core, sl_lsc_no_processor_outage, sl_rc_accept_msu_fisu, sl_txc_send_msu
<1>2. Core(a, P)
  BY NoProcessorOutage DEF Keeps
<1> HIDE DEF a
<1>3. [a EXCEPT !.poc = "IDLE"].lsc = a.lsc
  <2>1. Core(a, P) => [a EXCEPT !.poc = "IDLE"].lsc = a.lsc
    BY SMT DEF Core
  <2> QED
    BY <1>2, <2>1
<1>4. ASSUME NEW v PROVE [x EXCEPT !.poc = v].lsc = x.lsc
  BY SMT DEF Core
<1>5. y \in {[a EXCEPT !.poc = "IDLE"], [x EXCEPT !.poc = "LOCAL"],
             [x EXCEPT !.poc = "REMOTE"], x}
  BY DEF sl_poc_remote_processor_recovered, sl_poc_local_processor_recovered, a
<1> QED
  BY <1>1, <1>3, <1>4, <1>5

\* sl_lsc_local_processor_outage keeps the invariant.
LEMMA LocalOutage == ASSUME NEW x, NEW P PROVE Keeps(x, sl_lsc_local_processor_outage(x), P)
<1> DEFINE out == IF ANSI THEN [x EXCEPT !.local_processor_outage = 1]
                          ELSE sl_poc_local_processor_outage(x)
<1>1. Quiet(x, out, P)
  BY QuietFunctions
<1> HIDE DEF out
<1> DEFINE a == sl_txc_send_sipo(out)
<1> DEFINE b == IF PVAR # "ITUT_93" THEN sl_rc_reject_msu_fisu(a) ELSE a
<1>2. Quiet(x, a, P) /\ Quiet(x, b, P)
  BY <1>1, QuietFunctions, QuietChain
<1> DEFINE c == sl_rc_reject_msu_fisu(a)
<1> DEFINE d == sl_cc_normal(sl_rc_align_fsnx(c))
<1>3. Quiet(x, c, P) /\ Quiet(x, d, P)
  <2>1. Quiet(x, c, P)
    BY <1>2, QuietFunctions, QuietChain
  <2> HIDE DEF c
  <2>2. Quiet(x, sl_txc_fsnx_value(c), P)
    BY <2>1, QuietFunctions, QuietChain
  <2> QED
    BY <2>1, <2>2, QuietFunctions, QuietChain DEF sl_rc_align_fsnx
<1> HIDE DEF a, b, c, d
<1> DEFINE e == [c EXCEPT !.processor_outage = 1]
<1>4. Quiet(x, e, P)
  <2>1. Quiet(c, e, P)
    BY SMT DEF Quiet, Keeps, Core, Link
  <2> QED
    BY <1>3, <2>1, QuietChain
<1> HIDE DEF e
<1>5. x.lsc = "ALIGNED_READY" => Keeps(x, [b EXCEPT !.lsc = "ALIGNED_NOT_READY"], P)
  BY <1>2, Move DEF Alike
<1>6. x.lsc = "IN_SERVICE" => /\ Keeps(x, [d EXCEPT !.lsc = "PROCESSOR_OUTAGE"], P)
                              /\ Keeps(x, [e EXCEPT !.lsc = "PROCESSOR_OUTAGE"], P)
  BY <1>3, <1>4, Move DEF Alike
<1>7. Keeps(x, [x EXCEPT !.local_processor_outage = 1], P) /\ Keeps(x, a, P) /\ Keeps(x, x, P)
  BY <1>2, QuietFunctions, Early DEF Quiet
<1>8. \/ /\ x.lsc = "ALIGNED_READY"
         /\ sl_lsc_local_processor_outage(x) = [b EXCEPT !.lsc = "ALIGNED_NOT_READY"]
      \/ /\ x.lsc = "IN_SERVICE"
         /\ sl_lsc_local_processor_outage(x) \in
              {[d EXCEPT !.lsc = "PROCESSOR_OUTAGE"], [e EXCEPT !.lsc = "PROCESSOR_OUTAGE"]}
      \/ sl_lsc_local_processor_outage(x) \in {[x EXCEPT !.local_processor_outage = 1], a, x}
  BY SMT DEF sl_lsc_local_processor_outage, out, a, b, c, d, e
<1> QED
  BY <1>5, <1>6, <1>7, <1>8

\* sl_lsc_local_processor_recovered keeps the invariant.
LEMMA LocalRecovered ==
  ASSUME NEW x, NEW P PROVE Keeps(x, sl_lsc_local_processor_recovered(x), P)
<1> SUFFICES ASSUME Core(x, P) PROVE Keeps(x, sl_lsc_local_processor_recovered(x), P)
  BY DEF Keeps
<1> DEFINE r == sl_poc_local_processor_recovered(x)
<1>1. /\ Keeps(x, r, P)
      /\ r.lsc = x.lsc \/ (x.lsc = "PROCESSOR_OUTAGE" /\ r.lsc = "IN_SERVICE")
  BY PocRecovered, PocRecoveredLsc
<1> HIDE DEF r
<1>2. CASE x.lsc = "ALIGNED_NOT_READY"
  <2> DEFINE b == sl_txc_send_fisu(IF ANSI THEN x ELSE r)
  <2> DEFINE c == IF PVAR = "ITUT_96" THEN sl_rc_accept_msu_fisu(b) ELSE b
  <2> DEFINE d == [c EXCEPT !.local_processor_outage = 0]
  <2>1. Quiet(x, r, P)
    BY <1>1, <1>2 DEF Quiet
  <2>2. Quiet(x, d, P)
    <3>1. Quiet(x, IF ANSI THEN x ELSE r, P)
      BY <2>1, QuietEarly
    <3>2. Quiet(x, b, P)
      BY <3>1, QuietFunctions, QuietChain
    <3> HIDE DEF b
    <3>3. Quiet(x, c, P)
      BY <3>2, QuietFunctions, QuietChain
    <3> HIDE DEF c
    <3> QED
      BY <3>3, QuietFunctions, QuietChain
  <2> HIDE DEF d
  <2>3. Keeps(x, [d EXCEPT !.lsc = "ALIGNED_READY"], P)
    BY <1>2, <2>2, Move DEF Alike
  <2>4. sl_lsc_local_processor_recovered(x) = [d EXCEPT !.lsc = "ALIGNED_READY"]
    BY <1>2, SMT DEF sl_lsc_local_processor_recovered, d, r
  <2> QED
    BY <2>3, <2>4
<1>3. CASE x.lsc = "PROCESSOR_OUTAGE" /\ (ITUT9x \/ ANSI)
  <2> DEFINE f == sl_rc_retrieve_fsnx(r)
  <2> DEFINE g == sl_txc_send_fisu(f)
  <2>1. Quiet(r, f, P)
    <3> DEFINE y == sl_cc_normal(sl_txc_fsnx_value(r))
    <3>1. Quiet(r, y, P)
      BY QuietFunctions, QuietChain
    <3> HIDE DEF y
    <3>2. Quiet(y, [y EXCEPT !.congestion_discard = 0, !.congestion_accept = 0, !.rtr = 0], P)
      BY SMT DEF Quiet, Keeps, Core, Link
    <3> QED
      BY <3>1, <3>2, QuietChain DEF sl_rc_retrieve_fsnx, y
  <2>2. Quiet(r, g, P)
    BY <2>1, QuietFunctions, QuietChain
  <2> HIDE DEF f, g
  <2> DEFINE itut == [g EXCEPT !.lsc = "IN_SERVICE"]
  <2>3. Keeps(x, itut, P) /\ Core(itut, P) /\ itut.lsc = "IN_SERVICE"
    <3>1. Alike(r.lsc, "IN_SERVICE")
      BY <1>1, <1>3 DEF Alike
    <3>2. Keeps(x, itut, P)
      BY <1>1, <2>2, <3>1, Move, Chain
    <3>3. Core(g, P)
      BY <1>1, <2>2 DEF Quiet, Keeps
    <3>4. Core(g, P) => itut.lsc = "IN_SERVICE"
      BY SMT DEF Core
    <3> QED
      BY <3>2, <3>3, <3>4 DEF Keeps
  <2> DEFINE u == IF ITUT9x THEN itut ELSE x
  <2>4. Keeps(x, u, P) /\ Alike(u.lsc, "IN_SERVICE")
    BY <2>3, <1>3, Early DEF Alike
  <2> HIDE DEF itut, u
  <2> DEFINE a == [sl_rc_accept_msu_fisu(u) EXCEPT !.local_processor_outage = 0]
  <2>5. Quiet(u, a, P)
    BY QuietFunctions, QuietChain
  <2> HIDE DEF a
  <2>6. Quiet(u, sl_txc_send_fisu(a), P) /\ Quiet(u, sl_txc_send_msu(a), P)
    BY <2>5, QuietFunctions, QuietChain
  <2>7. /\ Keeps(x, sl_txc_send_fisu(a), P)
        /\ Keeps(x, [sl_txc_send_msu(a) EXCEPT !.lsc = "IN_SERVICE"], P)
    <3>1. Keeps(u, [sl_txc_send_msu(a) EXCEPT !.lsc = "IN_SERVICE"], P)
      BY <2>4, <2>6, Move
    <3> QED
      BY <2>4, <2>6, <3>1, Chain DEF Quiet
  <2>8. sl_lsc_local_processor_recovered(x) \in
          {sl_txc_send_fisu(a), [sl_txc_send_msu(a) EXCEPT !.lsc = "IN_SERVICE"]}
    BY <1>3 DEF sl_lsc_local_processor_recovered, a, u, itut, g, f, r
  <2> QED
    BY <2>7, <2>8
<1>4. CASE /\ x.lsc # "ALIGNED_NOT_READY"
           /\ ~(x.lsc = "PROCESSOR_OUTAGE" /\ (ITUT9x \/ ANSI))
  <2>1. Keeps(x, [x EXCEPT !.local_processor_outage = 0], P)
    BY QuietFunctions DEF Quiet
  <2>2. sl_lsc_local_processor_recovered(x) \in {[x EXCEPT !.local_processor_outage = 0], x}
    BY <1>4 DEF sl_lsc_local_processor_recovered
  <2> QED
    BY <2>1, <2>2, Early
<1> QED
  BY <1>2, <1>3, <1>4

------------------------------------------------------------------------------
\* The end of alignment, and the signal units of an aligned peer.

\* T1 and the error monitor are started before the link state changes.
LEMMA AlignmentComplete ==
  ASSUME NEW x, NEW P
  PROVE  /\ Keeps(x, sl_lsc_alignment_complete(x), P)
         /\ Core(x, P) => sl_lsc_alignment_complete(x).lsc # "INITIAL_ALIGNMENT"
<1> DEFINE m == sl_suerm_start(x)
<1> DEFINE n == sl_timer_start(m, "t1")
<1> DEFINE on(y) == /\ "t1" \in y.tm
                    /\ IF HSL THEN y.eim = "MONITORING" /\ "t8" \in y.tm
                              ELSE y.suerm = "IN_SERVICE"
<1>1. Core(x, P) => Core(n, P) /\ on(n) /\ n.l3 = x.l3
  BY SMT DEF Core, sl_suerm_start, sl_eim_start, sl_timer_start
<1> HIDE DEF n
<1> DEFINE p == IF ANSI THEN n ELSE sl_poc_local_processor_outage(n)
<1>2. Core(n, P) => Core(p, P) /\ (on(n) => on(p)) /\ p.l3 = n.l3
  BY SMT DEF Core, sl_poc_local_processor_outage
<1> HIDE DEF p
<1> DEFINE a == sl_txc_send_sipo(p)
<1> DEFINE b == [(IF PVAR # "ITUT_93" THEN sl_rc_reject_msu_fisu(a) ELSE a) EXCEPT
                   !.lsc = "ALIGNED_NOT_READY"]
<1>3. Core(p, P) => Core(b, P) /\ (on(p) => on(b)) /\ b.l3 = p.l3 /\ b.lsc = "ALIGNED_NOT_READY"
  BY SMT DEF Core, sl_txc_send_sipo, sl_rc_reject_msu_fisu
<1> DEFINE c == [sl_rc_accept_msu_fisu(sl_txc_send_msu(n)) EXCEPT !.lsc = "ALIGNED_READY"]
<1>4. Core(n, P) => Core(c, P) /\ (on(n) => on(c)) /\ c.l3 = n.l3 /\ c.lsc = "ALIGNED_READY"
  BY SMT DEF Core, sl_txc_send_msu, sl_rc_accept_msu_fisu
<1> HIDE DEF a, b, c
<1>5. sl_lsc_alignment_complete(x) =
        IF x.lsc # "INITIAL_ALIGNMENT" THEN x ELSE IF n.local_processor_outage = 1 THEN b ELSE c
  BY DEF sl_lsc_alignment_complete, b, c, a, p, n
<1>6. ASSUME NEW y, y.lsc \in {"ALIGNED_READY", "ALIGNED_NOT_READY"}, on(y),
             y.l3 # "in_service"
      PROVE  Link(y, P)
  BY <1>6 DEF Link
<1> HIDE DEF on
<1>7. x.lsc = "INITIAL_ALIGNMENT" /\ Link(x, P) => x.l3 # "in_service"
  BY DEF Link
<1>8. x.lsc = "INITIAL_ALIGNMENT" => Keeps(x, b, P) /\ Keeps(x, c, P)
  BY <1>1, <1>2, <1>3, <1>4, <1>6, <1>7 DEF Keeps
<1> QED
  BY <1>1, <1>2, <1>3, <1>4, <1>5, <1>8, Early

\* sl_lsc_fisu_msu_received keeps the invariant.
LEMMA FisuMsuReceived == ASSUME NEW x, NEW P PROVE Keeps(x, sl_lsc_fisu_msu_received(x), P)
<1> DEFINE i == sl_timer_stop(sl_in_service_ind(x), "t1")
<1> DEFINE a == sl_txc_send_msu(i)
<1> DEFINE b == [(IF PVAR = "ITUT_93" THEN sl_rc_accept_msu_fisu(a) ELSE a) EXCEPT
                   !.lsc = "IN_SERVICE"]
<1> DEFINE c == [i EXCEPT !.lsc = "PROCESSOR_OUTAGE"]
<1>1. x.lsc = "ALIGNED_READY" => Keeps(x, b, P)
  BY SMT DEF Keeps, Core, Link, sl_timer_stop, sl_in_service_ind, sl_txc_send_msu,
             sl_rc_accept_msu_fisu
<1>2. x.lsc = "ALIGNED_NOT_READY" => Keeps(x, c, P)
  BY SMT DEF Keeps, Core, Link, sl_timer_stop, sl_in_service_ind
<1> HIDE DEF a, b, c, i
<1>3. Keeps(x, [x EXCEPT !.remote_processor_outage = 0], P)
  BY QuietFunctions DEF Quiet
<1>4. Keeps(x, sl_poc_remote_processor_recovered(x), P)
  BY PocRecovered
<1>5. \/ x.lsc = "ALIGNED_READY" /\ sl_lsc_fisu_msu_received(x) = b
      \/ x.lsc = "ALIGNED_NOT_READY" /\ sl_lsc_fisu_msu_received(x) = c
      \/ sl_lsc_fisu_msu_received(x) \in
           {[x EXCEPT !.remote_processor_outage = 0], sl_poc_remote_processor_recovered(x), x}
  BY DEF sl_lsc_fisu_msu_received, a, b, c, i
<1> QED
  BY <1>1, <1>2, <1>3, <1>4, <1>5, Early

\* sl_lsc_sib keeps the invariant.
LEMMA LscSib == ASSUME NEW x, NEW P PROVE Keeps(x, sl_lsc_sib(x), P)
  BY SibReceived, Early DEF sl_lsc_sib

\* sl_lsc_sipo keeps the invariant.
LEMMA LscSipo == ASSUME NEW x, NEW P PROVE Keeps(x, sl_lsc_sipo(x), P)
<1> DEFINE out(u) == IF ANSI THEN [u EXCEPT !.remote_processor_outage = 1]
                             ELSE sl_poc_remote_processor_outage(u)
<1>1. ASSUME NEW u PROVE Quiet(u, out(u), P)
  BY QuietFunctions
<1> DEFINE a == [out(sl_timer_stop(x, "t1")) EXCEPT !.lsc = "PROCESSOR_OUTAGE"]
<1>2. x.lsc \in {"ALIGNED_READY", "ALIGNED_NOT_READY"} => Keeps(x, a, P)
  BY SMT DEF Keeps, Core, Link, sl_timer_stop, sl_poc_remote_processor_outage
<1> HIDE DEF out, a
<1> DEFINE f == out(sl_txc_send_fisu(x))
<1>3. Quiet(x, f, P)
  BY <1>1, QuietFunctions, QuietChain
<1> HIDE DEF f
<1> DEFINE g == [f EXCEPT !.processor_outage = 1]
<1>4. Quiet(x, g, P)
  <2>1. Quiet(f, g, P)
    BY SMT DEF Quiet, Keeps, Core, Link
  <2> QED
    BY <1>3, <2>1, QuietChain
<1> DEFINE h == sl_cc_normal(sl_rc_align_fsnx(f))
<1>5. Quiet(x, h, P)
  <2>1. Quiet(x, sl_txc_fsnx_value(f), P)
    BY <1>3, QuietFunctions, QuietChain
  <2> QED
    BY <2>1, QuietFunctions, QuietChain DEF sl_rc_align_fsnx
<1> HIDE DEF g, h
<1>6. x.lsc = "IN_SERVICE" => /\ Keeps(x, [g EXCEPT !.lsc = "PROCESSOR_OUTAGE"], P)
                              /\ Keeps(x, [h EXCEPT !.lsc = "PROCESSOR_OUTAGE"], P)
  BY <1>4, <1>5, Move DEF Alike
<1>7. Keeps(x, out(x), P) /\ Keeps(x, [x EXCEPT !.remote_processor_outage = 1], P)
  BY <1>1, QuietFunctions DEF Quiet
<1>8. \/ x.lsc \in {"ALIGNED_READY", "ALIGNED_NOT_READY"} /\ sl_lsc_sipo(x) = a
      \/ /\ x.lsc = "IN_SERVICE"
         /\ sl_lsc_sipo(x) \in {[g EXCEPT !.lsc = "PROCESSOR_OUTAGE"],
                                [h EXCEPT !.lsc = "PROCESSOR_OUTAGE"]}
      \/ sl_lsc_sipo(x) \in {out(x), [x EXCEPT !.remote_processor_outage = 1], x}
  BY SMT DEF sl_lsc_sipo, a, f, g, h, out
<1> QED
  BY <1>2, <1>6, <1>7, <1>8, Early

------------------------------------------------------------------------------
\* Clearing buffers.

\* sl_lsc_clear_rtb keeps the invariant.
LEMMA LscClearRtb == ASSUME NEW x, NEW P PROVE Keeps(x, sl_lsc_clear_rtb(x), P)
<1> DEFINE a == [x EXCEPT !.local_processor_outage = 0]
<1>1. Keeps(x, a, P)
  BY QuietFunctions DEF Quiet
<1> HIDE DEF a
<1> QED
  BY <1>1, SendFisuKeeps, ClearRtbKeeps, Chain, Early DEF sl_lsc_clear_rtb, a

\* sl_lsc_clear_buffers keeps the invariant.
LEMMA LscClearBuffers == ASSUME NEW x, NEW P PROVE Keeps(x, sl_lsc_clear_buffers(x), P)
<1> DEFINE u == [x EXCEPT !.local_processor_outage = 0]
<1> DEFINE t == sl_txc_clear_rtb(sl_txc_clear_tb(sl_txc_send_fisu(
                  sl_rc_accept_msu_fisu(sl_rc_clear_rb(u)))))
<1>1. Keeps(x, u, P) /\ Keeps(x, t, P)
  <2>1. Keeps(x, u, P)
    BY QuietFunctions DEF Quiet
  <2> HIDE DEF u
  <2>2. Keeps(x, sl_txc_send_fisu(sl_rc_accept_msu_fisu(sl_rc_clear_rb(u))), P)
    BY <2>1, RcClearRb, RcAccept, SendFisuKeeps, Chain
  <2> QED
    BY <2>1, <2>2, ClearTbKeeps, ClearRtbKeeps, Chain
<1> DEFINE r == [sl_txc_send_fisu(x) EXCEPT !.local_processor_outage = 0]
<1>2. x.lsc = "ALIGNED_NOT_READY" => Keeps(x, [r EXCEPT !.lsc = "ALIGNED_READY"], P)
  <2>1. Quiet(x, r, P)
    <3> DEFINE w == sl_txc_send_fisu(x)
    <3>1. Quiet(x, w, P)
      BY QuietFunctions
    <3> HIDE DEF w
    <3>2. Quiet(w, [w EXCEPT !.local_processor_outage = 0], P)
      BY QuietFunctions
    <3> QED
      BY <3>1, <3>2, QuietChain DEF w
  <2> HIDE DEF r
  <2> QED
    BY <2>1, Move DEF Alike
<1> DEFINE b == sl_txc_flush_buffers(x)
<1> DEFINE f == [b EXCEPT !.l3_indication_received = 1]
<1>3. Quiet(x, f, P)
  <2>1. Core(x, P) => b.lsc = x.lsc
    BY SMT DEF Core, sl_txc_flush_buffers
  <2>2. Quiet(x, b, P)
    BY <2>1, FlushBuffers DEF Quiet
  <2> HIDE DEF b
  <2>3. Quiet(b, f, P)
    BY SMT DEF Quiet, Keeps, Core, Link
  <2> QED
    BY <2>2, <2>3, QuietChain
<1> HIDE DEF b, f
<1> DEFINE g == sl_rc_accept_msu_fisu(sl_txc_send_msu(f))
<1> DEFINE h == [g EXCEPT !.l3_indication_received = 0, !.local_processor_outage = 0]
<1>4. x.lsc = "PROCESSOR_OUTAGE" => Keeps(x, [h EXCEPT !.lsc = "IN_SERVICE"], P)
  <2>1. Quiet(x, g, P)
    BY <1>3, QuietFunctions, QuietChain
  <2> HIDE DEF g
  <2>2. Quiet(g, h, P)
    BY SMT DEF Quiet, Keeps, Core, Link
  <2>3. Quiet(x, h, P)
    BY <2>1, <2>2, QuietChain
  <2> HIDE DEF h
  <2> QED
    BY <2>3, Move DEF Alike
<1>5. Keeps(x, f, P)
  BY <1>3 DEF Quiet
<1> HIDE DEF u, t, r, g, h
<1>6. \/ x.lsc = "ALIGNED_NOT_READY" /\ sl_lsc_clear_buffers(x) = [r EXCEPT !.lsc = "ALIGNED_READY"]
      \/ x.lsc = "PROCESSOR_OUTAGE" /\ sl_lsc_clear_buffers(x) = [h EXCEPT !.lsc = "IN_SERVICE"]
      \/ sl_lsc_clear_buffers(x) \in {u, t, f, x}
  BY SMT DEF sl_lsc_clear_buffers, u, t, r, f, b, g, h
<1> QED
  BY <1>1, <1>2, <1>4, <1>5, <1>6, Early

\* sl_lsc_retrieval_request_and_fsnc keeps the invariant.
LEMMA LscRetrieval ==
  ASSUME NEW x, NEW P, NEW fsnc \in Sn
  PROVE  Keeps(x, sl_lsc_retrieval_request_and_fsnc(x, fsnc), P)
  BY RetrievalKeeps, Early DEF sl_lsc_retrieval_request_and_fsnc

------------------------------------------------------------------------------
\* Reception of signal units.

\* sl_rb_congestion_function keeps the invariant.
LEMMA RbCongestion ==
  ASSUME NEW x, NEW P, NEW next, NEW own
  PROVE  Keeps(x, sl_rb_congestion_function(x, next, own), P)
<1>1. ASSUME NEW y, NEW f \in Flag PROVE Keeps(y, [y EXCEPT !.l2_congestion_detect = f], P)
  BY SMT DEF Keeps, Core, Link
<1> DEFINE a == sl_rc_no_congestion(x)
<1> DEFINE b == sl_rc_congestion_discard(x)
<1> DEFINE c == sl_rc_congestion_accept(x)
<1>2. Keeps(x, a, P) /\ Keeps(x, b, P) /\ Keeps(x, c, P)
  BY RcNoCongestion, RcDiscard, RcAcceptPolicy
<1> HIDE DEF a, b, c
<1>3. /\ Keeps(x, [a EXCEPT !.l2_congestion_detect = 0], P)
      /\ Keeps(x, [b EXCEPT !.l2_congestion_detect = 1], P)
      /\ Keeps(x, [c EXCEPT !.l2_congestion_detect = 1], P)
  BY <1>1, <1>2, Chain
<1>4. sl_rb_congestion_function(x, next, own) \in
        {[a EXCEPT !.l2_congestion_detect = 0], [b EXCEPT !.l2_congestion_detect = 1],
         [c EXCEPT !.l2_congestion_detect = 1], x}
  BY DEF sl_rb_congestion_function, a, b, c
<1> QED
  BY <1>3, <1>4, Early

\* LssuReceived keeps the invariant.
LEMMA LssuKeeps ==
  ASSUME NEW x, NEW P, NEW i \in Sio PROVE Keeps(x, LssuReceived(x, i), P)
<1>1. CASE i = "SIO"
  BY <1>1, IacSio, LscSio, Chain DEF LssuReceived
<1>2. CASE i = "SIN"
  BY <1>2, IacSin, SinOrSieKeeps, Chain DEF LssuReceived, sl_lsc_sin
<1>3. CASE i = "SIE"
  BY <1>3, IacSie, SinOrSieKeeps, Chain DEF LssuReceived, sl_lsc_sie
<1>4. CASE i = "SIOS"
  BY <1>4, IacSios, LscSios, Chain DEF LssuReceived
<1>5. CASE i = "SIPO"
  BY <1>5, LscSipo DEF LssuReceived
<1>6. CASE i = "SIB"
  BY <1>6, LscSib DEF LssuReceived
<1> QED
  BY <1>1, <1>2, <1>3, <1>4, <1>5, <1>6

\* AbnormalBsnr keeps the invariant.
LEMMA AbnormalBsnrKeeps == ASSUME NEW x, NEW P PROVE Keeps(x, AbnormalBsnr(x), P)
<1> DEFINE a == sl_lsc_link_failure(x)
<1>1. Keeps(x, a, P)
  BY LinkFailure
<1> HIDE DEF a
<1>2. Keeps(a, [a EXCEPT !.rc = "IDLE"], P)
  BY SMT DEF Keeps, Core, Link
<1>3. Keeps(x, [x EXCEPT !.abnormal_bsnr = 1, !.unb = 0], P)
  BY SMT DEF Keeps, Core, Link
<1> QED
  BY <1>1, <1>2, <1>3, Chain DEF AbnormalBsnr, a

\* The units that arrive.
Su == Fisu \cup Lssu \cup Msu

\* The fields of a signal unit.
LEMMA SuFields ==
  ASSUME NEW su \in Su
  PROVE  /\ su.bsn \in Sn /\ su.bib \in Flag
         /\ su.type = "LSSU" => su.sio \in Sio
         /\ su.type = "MSU" => su.pdu \in Pdu
  BY SMT DEF Su, Fisu, Lssu, Msu

\* AckReceived keeps the invariant.
LEMMA AckReceivedKeeps ==
  ASSUME NEW x, NEW P, NEW su \in Su PROVE Keeps(x, AckReceived(x, su), P)
<1> DEFINE a == sl_txc_bsnr_and_bibr(x, su.bsn, su.bib)
<1> DEFINE n == (su.bsn + 1) % Mod
<1>1. Keeps(x, a, P)
  BY SuFields, BsnrAndBibr
<1>2. n \in Sn
  BY SuFields, Neighbours
<1> HIDE DEF a, n
<1>3. Keeps(a, [a EXCEPT !.rFfsn = n], P)
  BY <1>2, SMT DEF Keeps, Core, Link
<1> QED
  BY <1>1, <1>3, Chain DEF AckReceived, a, n

\* InSequence keeps the invariant.
LEMMA InSequenceKeeps ==
  ASSUME NEW x, NEW P, NEW su \in Su, su.type = "MSU" PROVE Keeps(x, InSequence(x, su), P)
<1> DEFINE f == (x.Xfsn + 1) % Mod
<1> DEFINE q == Append(x.rb, su.pdu)
<1> DEFINE c == (x.Cr + 1) % CtrMod
<1>1. Core(x, P) => f \in Sn /\ q \in Seq(Pdu) /\ c \in Ctr
  <2> SUFFICES ASSUME Core(x, P) PROVE f \in Sn /\ q \in Seq(Pdu) /\ c \in Ctr
    OBVIOUS
  <2>1. x.Xfsn \in Sn /\ x.rb \in Seq(Pdu) /\ x.Cr \in Ctr
    BY DEF Core
  <2>2. x.Cr + 1 \in Int
    BY <2>1 DEF Ctr
  <2>3. su.pdu \in Pdu
    BY SuFields
  <2> QED
    BY <2>1, <2>2, <2>3, Neighbours, ModCtr
<1> HIDE DEF f, q, c
<1> DEFINE a == [x EXCEPT !.Xfsn = f, !.rtr = IF PCR THEN @ ELSE 0, !.rb = q, !.Cr = c]
<1>2. f \in Sn /\ q \in Seq(Pdu) /\ c \in Ctr => Keeps(x, a, P)
  BY SMT DEF Keeps, Core, Link
<1>3. Keeps(x, a, P)
  BY <1>1, <1>2 DEF Keeps
<1> HIDE DEF a
<1>4. InSequence(x, su) = IF a.congestion_accept = 1 THEN sl_cc_busy(a) ELSE sl_txc_fsnx_value(a)
  BY SMT DEF InSequence, a, f, q, c
<1> QED
  BY <1>3, <1>4, CcBusy, FsnxValue, Chain

\* OutOfSequence keeps the invariant.
LEMMA OutOfSequenceKeeps ==
  ASSUME NEW x, NEW P, NEW su PROVE Keeps(x, OutOfSequence(x, su), P)
<1> DEFINE a == [x EXCEPT !.rtr = 1]
<1>1. Keeps(x, a, P)
  BY SMT DEF Keeps, Core, Link
<1>2. Keeps(x, sl_cc_busy(a), P)
  BY <1>1, CcBusy, Chain
<1> DEFINE n == sl_txc_nack_to_be_sent(x)
<1> DEFINE i == Toggled(x, n.Xfib)
<1>3. Keeps(x, n, P)
  BY NackToBeSent
<1>4. Core(x, P) => i \in Flag
  BY SMT DEF Core, Toggled
<1> HIDE DEF a, n, i
<1>5. i \in Flag => Keeps(n, [n EXCEPT !.rtr = 1, !.Xfib = i], P)
  BY SMT DEF Keeps, Core, Link
<1>6. Keeps(x, [n EXCEPT !.rtr = 1, !.Xfib = i], P)
  BY <1>3, <1>4, <1>5 DEF Keeps
<1>7. OutOfSequence(x, su) \in {x, sl_cc_busy(a), [n EXCEPT !.rtr = 1, !.Xfib = i]}
  BY SMT DEF OutOfSequence, a, n, i
<1> QED
  BY <1>2, <1>6, <1>7, Early

\* SuAccepted keeps the invariant.
LEMMA SuAcceptedKeeps ==
  ASSUME NEW x, NEW P, NEW su \in Su, NEW next, NEW own
  PROVE  Keeps(x, SuAccepted(x, su, next, own), P)
<1> DEFINE a == AckReceived(sl_lsc_fisu_msu_received(x), su)
<1>1. Keeps(x, a, P)
  BY FisuMsuReceived, AckReceivedKeeps, Chain
<1> HIDE DEF a
<1> DEFINE c == sl_rb_congestion_function(a, next, own)
<1>2. Keeps(x, c, P)
  BY <1>1, RbCongestion, Chain
<1> HIDE DEF c
<1> DEFINE b == [c EXCEPT !.rtr = IF PCR THEN @ ELSE 1]
<1>3. Keeps(c, b, P)
  BY SMT DEF Keeps, Core, Link
<1>4. Keeps(x, sl_cc_busy(b), P)
  BY <1>2, <1>3, CcBusy, Chain
<1> HIDE DEF b
<1>5. su.type = "MSU" => Keeps(x, InSequence(c, su), P)
  BY <1>2, InSequenceKeeps, Chain
<1>6. Keeps(x, OutOfSequence(c, su), P)
  BY <1>2, OutOfSequenceKeeps, Chain
<1>7. \/ su.type = "MSU" /\ SuAccepted(x, su, next, own) = InSequence(c, su)
      \/ SuAccepted(x, su, next, own) \in {a, sl_cc_busy(b), c, OutOfSequence(c, su)}
  BY DEF SuAccepted, a, b, c
<1> QED
  BY <1>1, <1>2, <1>4, <1>5, <1>6, <1>7

\* FibChecked keeps the invariant.
LEMMA FibCheckedKeeps ==
  ASSUME NEW x, NEW P, NEW su \in Su, NEW next, NEW own
  PROVE  Keeps(x, FibChecked(x, su, next, own), P)
<1> DEFINE a == [x EXCEPT !.abnormal_fibr = 0]
<1>1. /\ Keeps(x, a, P)
      /\ Keeps(x, [x EXCEPT !.unf = 1], P)
      /\ Keeps(x, [x EXCEPT !.abnormal_fibr = 1, !.unf = 0], P)
  BY SMT DEF Keeps, Core, Link
<1> HIDE DEF a
<1>2. Keeps(x, SuAccepted(a, su, next, own), P)
  BY <1>1, SuAcceptedKeeps, Chain
<1>3. Keeps(x, sl_lsc_link_failure(x), P) /\ Keeps(x, AckReceived(x, su), P)
  BY LinkFailure, AckReceivedKeeps
<1> QED
  BY <1>1, <1>2, <1>3 DEF FibChecked, a

\* sl_rc_signal_unit keeps the invariant.
LEMMA SignalUnit ==
  ASSUME NEW x, NEW P, NEW su \in Su, NEW next, NEW own
  PROVE  Keeps(x, sl_rc_signal_unit(x, su, next, own), P)
<1> DEFINE b == su.bsn
<1>0. b \in Sn
  BY SuFields
<1> HIDE DEF b
<1> DEFINE r == [x EXCEPT !.rRbsn = b]
<1>1. Keeps(x, r, P)
  BY <1>0, SMT DEF Keeps, Core, Link
<1> HIDE DEF r
<1>2. Keeps(r, [r EXCEPT !.unb = 1], P) /\ Keeps(r, [r EXCEPT !.abnormal_bsnr = 0], P)
  BY SMT DEF Keeps, Core, Link
<1> DEFINE a == [r EXCEPT !.abnormal_bsnr = 0]
<1>3. Keeps(x, a, P) /\ Keeps(x, [r EXCEPT !.unb = 1], P)
  BY <1>1, <1>2, Chain
<1> HIDE DEF a
<1>4. Keeps(x, SuAccepted(a, su, next, own), P) /\ Keeps(x, FibChecked(a, su, next, own), P)
  BY <1>3, SuAcceptedKeeps, FibCheckedKeeps, Chain
<1>5. Keeps(x, AbnormalBsnr(r), P)
  BY <1>1, AbnormalBsnrKeeps, Chain
<1>6. su.type = "LSSU" => Keeps(x, LssuReceived(r, su.sio), P)
  BY <1>1, SuFields, LssuKeeps, Chain
<1>7. \/ su.type = "LSSU" /\ sl_rc_signal_unit(x, su, next, own) = LssuReceived(r, su.sio)
      \/ sl_rc_signal_unit(x, su, next, own) \in
           {x, AbnormalBsnr(r), [r EXCEPT !.unb = 1], SuAccepted(a, su, next, own),
            FibChecked(a, su, next, own)}
  BY DEF sl_rc_signal_unit, a, r, b
<1> QED
  BY <1>3, <1>4, <1>5, <1>6, <1>7, Early

------------------------------------------------------------------------------
\* Error monitors and wakeups.

\* A monitor may stop once the link has failed.
LEMMA SuermInError == ASSUME NEW x, NEW P PROVE Keeps(x, sl_suerm_su_in_error(x), P)
<1> DEFINE a == [x EXCEPT !.Cs = @ + 1]
<1>1. Keeps(x, a, P)
  BY SMT DEF Keeps, Core, Link
<1> HIDE DEF a
<1> DEFINE b == sl_lsc_link_failure(a)
<1>2. Keeps(x, b, P) /\ (Core(a, P) => b.lsc \in {"POWER_OFF", "OUT_OF_SERVICE"})
  BY <1>1, LinkFailure, Chain
<1> HIDE DEF b
<1> DEFINE c == [b EXCEPT !.Ca = @ - 1, !.suerm = "IDLE"]
<1>3. b.lsc \in {"POWER_OFF", "OUT_OF_SERVICE"} => Keeps(b, c, P)
  BY SMT DEF Keeps, Core, Link
<1> HIDE DEF c
<1>4. Keeps(x, c, P)
  BY <1>1, <1>2, <1>3 DEF Keeps
<1>5. Keeps(x, Leaked(a), P)
  BY <1>1, LeakedKeeps, Chain
<1>6. sl_suerm_su_in_error(x) \in {x, c, Leaked(a)}
  BY DEF sl_suerm_su_in_error, a, b, c
<1> QED
  BY <1>4, <1>5, <1>6, Early

\* sl_aerm_su_in_error keeps the invariant.
LEMMA AermInError == ASSUME NEW x, NEW P PROVE Keeps(x, sl_aerm_su_in_error(x), P)
<1> DEFINE a == [x EXCEPT !.aborted_proving = 1]
<1>1. Keeps(x, a, P) /\ Keeps(x, [x EXCEPT !.Ca = @ + 1], P)
  BY SMT DEF Keeps, Core, Link
<1> HIDE DEF a
<1> DEFINE b == sl_iac_abort_proving(a)
<1>2. Keeps(x, b, P)
  BY <1>1, IacAbort, Chain
<1> HIDE DEF b
<1>3. Keeps(b, [b EXCEPT !.aerm = "IDLE"], P)
  BY SMT DEF Keeps, Core, Link
<1> QED
  BY <1>1, <1>2, <1>3, Chain, Early DEF sl_aerm_su_in_error, a, b

\* sl_aerm_correct_su keeps the invariant.
LEMMA AermCorrect == ASSUME NEW x, NEW P PROVE Keeps(x, sl_aerm_correct_su(x), P)
<1> DEFINE a == sl_iac_correct_su(x)
<1>1. Keeps(x, a, P)
  BY IacCorrect
<1> HIDE DEF a
<1>2. Keeps(a, [a EXCEPT !.aborted_proving = 0], P)
  BY SMT DEF Keeps, Core, Link
<1> QED
  BY <1>1, <1>2, Chain, Early DEF sl_aerm_correct_su, a

\* sl_daedr_su_in_error keeps the invariant.
LEMMA SuInErrorKeeps == ASSUME NEW x, NEW P PROVE Keeps(x, sl_daedr_su_in_error(x), P)
  BY EimInError, SuermInError, AermInError, Chain, Early DEF sl_daedr_su_in_error

\* sl_daedr_received_bits keeps the invariant.
LEMMA ReceivedBits ==
  ASSUME NEW x, NEW P, NEW su \in Su, NEW next, NEW own
  PROVE  Keeps(x, sl_daedr_received_bits(x, su, next, own), P)
<1> DEFINE a == sl_rc_signal_unit(x, su, next, own)
<1>1. Keeps(x, a, P)
  BY SignalUnit
<1> HIDE DEF a
<1>2. ASSUME NEW y PROVE Keeps(y, sl_suerm_correct_su(y), P)
  BY LeakedKeeps, Early DEF sl_suerm_correct_su
<1>3. Keeps(a, sl_daedr_correct_su(a), P)
  BY <1>2, EimCorrect, AermCorrect, Chain DEF sl_daedr_correct_su
<1> QED
  BY <1>1, <1>3, Chain, Early DEF sl_daedr_received_bits, a

\* sl_rx_wakeup keeps the invariant.
LEMMA RxWakeupKeeps ==
  ASSUME NEW x, NEW P, NEW k \in 1..Len(x.rb) PROVE Keeps(x, sl_rx_wakeup(x, k), P)
<1> DEFINE n == Len(DeliverableRb(x, k))
<1> DEFINE q == Dropped(x.rb, n)
<1> DEFINE c == (x.Cr - n) % CtrMod
<1>1. Core(x, P) => q \in Seq(Pdu) /\ c \in Ctr
  <2> SUFFICES ASSUME Core(x, P) PROVE q \in Seq(Pdu) /\ c \in Ctr
    OBVIOUS
  <2>1. x.rb \in Seq(Pdu) /\ x.Cr \in Ctr
    BY DEF Core
  <2>2. n \in Nat
    <3>1. SubSeq(x.rb, 1, k) \in Seq(Pdu)
      BY <2>1, SubSeqProperties
    <3>2. DeliverableRb(x, k) \in Seq(Pdu)
      BY <3>1 DEF DeliverableRb
    <3> QED
      BY <3>2
  <2>3. x.Cr - n \in Int
    BY <2>1, <2>2 DEF Ctr
  <2> QED
    BY <2>1, <2>2, <2>3, DroppedSeq, ModCtr
<1> HIDE DEF q, c
<1>2. q \in Seq(Pdu) /\ c \in Ctr => Keeps(x, [x EXCEPT !.rb = q, !.Cr = c], P)
  BY SMT DEF Keeps, Core, Link
<1>3. Keeps(x, [x EXCEPT !.rb = q, !.Cr = c], P)
  BY <1>1, <1>2 DEF Keeps
<1>4. Keeps(x, [x EXCEPT !.rb = <<>>], P)
  BY SMT DEF Keeps, Core, Link
<1>5. sl_rx_wakeup(x, k) \in {[x EXCEPT !.rb = <<>>], [x EXCEPT !.rb = q, !.Cr = c]}
  BY SMT DEF sl_rx_wakeup, q, c
<1> QED
  BY <1>3, <1>4, <1>5

------------------------------------------------------------------------------
\* Timer expiries.  The handler of t may not count on t itself any more: from
\* the invariant with t among the expiries to the invariant without it.

\* Core does not speak of T1, T6 and T7.
LEMMA OtherTimers ==
  ASSUME NEW x, NEW P, NEW t \in {"t1", "t6", "t7"}, Core(x, P \cup {t})
  PROVE  Core(x, P)
  BY DEF Core

\* T1 takes the link out of service, whatever its state.
LEMMA T1Expiry ==
  ASSUME NEW x, NEW P, Core(x, P \cup {"t1"}) PROVE Whole(sl_t1_expiry(x), P)
<1>1. Core(x, P)
  BY OtherTimers
<1> DEFINE a == sl_out_of_service_ind(x)
<1>2. Core(a, P) /\ a.l3 = "stopped"
  BY <1>1, Leaving
<1> HIDE DEF a
<1> DEFINE b == sl_rc_stop(a)
<1>3. Core(b, P) /\ b.l3 = "stopped"
  <2>1. Core(a, P) => b.l3 = a.l3
    BY SMT DEF Core, sl_rc_stop, sl_cc_normal
  <2> QED
    BY <1>2, <2>1, RcStop DEF Keeps
<1> HIDE DEF b
<1> DEFINE c == sl_txc_send_sios(sl_suerm_stop(b))
<1>4. Core(b, P) => Core(c, P) /\ c.l3 = b.l3
  BY SMT DEF Core, sl_txc_send_sios, sl_suerm_stop
<1> HIDE DEF c
<1> DEFINE d == IF x.lsc = "ALIGNED_NOT_READY"
                THEN [sl_poc_stop(c) EXCEPT !.local_processor_outage = 0] ELSE c
<1> DEFINE e == [d EXCEPT !.emergency = 0, !.lsc = "OUT_OF_SERVICE"]
<1>5. Core(c, P) => Core(e, P) /\ e.lsc = "OUT_OF_SERVICE" /\ e.l3 = c.l3
  BY SMT DEF Core, sl_poc_stop
<1> HIDE DEF d, e
<1>6. Whole(e, P)
  BY <1>3, <1>4, <1>5, Out
<1>7. sl_t1_expiry(x) = e
  BY DEF sl_t1_expiry, e, d, c, b, a
<1> QED
  BY <1>6, <1>7

\* T2: alignment is given up, or is past that state.
LEMMA T2Expiry ==
  ASSUME NEW x, NEW P, Whole(x, P \cup {"t2"}) PROVE Whole(sl_t2_expiry(x), P)
<1> DEFINE a == sl_lsc_alignment_not_possible(x)
<1> DEFINE b == [a EXCEPT !.emergency = 0, !.iac = "IDLE"]
<1>1. Core(a, P \cup {"t2"}) /\ a.lsc = "OUT_OF_SERVICE" /\ a.l3 = "stopped"
  BY AlignmentNotPossible DEF Whole
<1> HIDE DEF a
<1>2. Core(a, P \cup {"t2"}) => Core(b, P) /\ b.lsc = a.lsc /\ b.l3 = a.l3
  BY SMT DEF Core
<1> HIDE DEF b
<1>3. Whole(b, P)
  BY <1>1, <1>2, Out
<1>4. x.iac # "NOT_ALIGNED" => Whole(x, P)
  BY DEF Whole, Core, Link
<1>5. sl_t2_expiry(x) = IF x.iac = "NOT_ALIGNED" THEN b ELSE x
  BY DEF sl_t2_expiry, AlignmentTimeout, b, a
<1> QED
  BY <1>3, <1>4, <1>5

\* T3: the same for the aligned state.
LEMMA T3Expiry ==
  ASSUME NEW x, NEW P, Whole(x, P \cup {"t3"}) PROVE Whole(sl_t3_expiry(x), P)
<1> DEFINE a == sl_lsc_alignment_not_possible(x)
<1> DEFINE b == [a EXCEPT !.emergency = 0, !.iac = "IDLE"]
<1>1. Core(a, P \cup {"t3"}) /\ a.lsc = "OUT_OF_SERVICE" /\ a.l3 = "stopped"
  BY AlignmentNotPossible DEF Whole
<1> HIDE DEF a
<1>2. Core(a, P \cup {"t3"}) => Core(b, P) /\ b.lsc = a.lsc /\ b.l3 = a.l3
  BY SMT DEF Core
<1> HIDE DEF b
<1>3. Whole(b, P)
  BY <1>1, <1>2, Out
<1>4. x.iac # "ALIGNED" => Whole(x, P)
  BY DEF Whole, Core, Link
<1>5. sl_t3_expiry(x) = IF x.iac = "ALIGNED" THEN b ELSE x
  BY DEF sl_t3_expiry, AlignmentTimeout, b, a
<1> QED
  BY <1>3, <1>4, <1>5

\* Proving is over, or starts again with T4.
LEMMA T4Expiry ==
  ASSUME NEW x, NEW P, Whole(x, P \cup {"t4"}) PROVE Whole(sl_t4_expiry(x), P)
<1>1. Whole(Prove(x), P)
  <2> DEFINE y == Prove(x)
  <2>1. Whole(y, P \cup {"t4"})
    BY ProveKeeps, KeepsWhole
  <2>2. "t4" \in y.tm
    BY SMT DEF Prove, sl_aerm_start, Whole, Core
  <2> HIDE DEF y
  <2>3. Whole(y, P)
    BY <2>1, <2>2 DEF Whole, Core, Link
  <2> QED
    BY <2>3 DEF y
<1> DEFINE a == sl_lsc_alignment_complete(x)
<1>2. Whole(a, P \cup {"t4"}) /\ a.lsc # "INITIAL_ALIGNMENT"
  BY AlignmentComplete, KeepsWhole DEF Whole
<1> HIDE DEF a
<1> DEFINE b == [sl_aerm_stop(a) EXCEPT !.emergency = 0, !.iac = "IDLE"]
<1>3. Whole(a, P \cup {"t4"}) /\ a.lsc # "INITIAL_ALIGNMENT" => Whole(b, P)
  BY SMT, NumberAssumption DEF Whole, Core, Link, sl_aerm_stop
<1> HIDE DEF b
<1>4. x.iac # "PROVING" => Whole(x, P)
  BY DEF Whole, Core, Link
<1>5. \/ x.iac # "PROVING" /\ sl_t4_expiry(x) = x
      \/ sl_t4_expiry(x) \in {Prove(x), b}
  BY DEF sl_t4_expiry, b, a
<1> QED
  BY <1>1, <1>2, <1>3, <1>4, <1>5

\* T5 is started again while the receiver is busy.
LEMMA T5Expiry ==
  ASSUME NEW x, NEW P, Whole(x, P \cup {"t5"}) PROVE Whole(sl_t5_expiry(x), P)
  BY SMT DEF Whole, Core, Link, sl_t5_expiry, sl_timer_start, sl_txc_send_sib

\* T6 and T7 fail the link.
LEMMA T6T7Expiry ==
  ASSUME NEW x, NEW P
  PROVE  /\ Whole(x, P \cup {"t6"}) => Whole(sl_t6_expiry(x), P)
         /\ Whole(x, P \cup {"t7"}) => Whole(sl_t7_expiry(x), P)
<1> DEFINE a == sl_lsc_link_failure(x)
<1>1. Keeps(x, a, P)
  BY LinkFailure
<1> HIDE DEF a
<1>2. Keeps(a, sl_t6_expiry(x), P)
  <2> DEFINE y == sl_timer_stop([a EXCEPT !.sib_received = 0], "t7")
  <2>1. Keeps(a, y, P)
    BY SMT DEF Keeps, Core, Link, sl_timer_stop
  <2> QED
    BY <2>1 DEF sl_t6_expiry, a
<1>3. Keeps(a, sl_t7_expiry(x), P)
  <2> DEFINE b == sl_timer_stop(a, "t6")
  <2> DEFINE y == IF PVAR = "ITUT_96" THEN [b EXCEPT !.sib_received = 0] ELSE b
  <2>1. Keeps(a, y, P)
    BY SMT DEF Keeps, Core, Link, sl_timer_stop
  <2> QED
    BY <2>1 DEF sl_t7_expiry, a
<1>4. Whole(x, P \cup {"t6"}) \/ Whole(x, P \cup {"t7"}) => Whole(x, P)
  BY DEF Whole, Core, Link
<1> QED
  BY <1>1, <1>2, <1>3, <1>4, Chain, KeepsWhole

\* T8 is started again unless the link fails.
LEMMA T8Expiry ==
  ASSUME NEW x, NEW P, Whole(x, P \cup {"t8"}) PROVE Whole(sl_t8_expiry(x), P)
<1> DEFINE r == sl_timer_start(x, "t8")
<1>1. Whole(r, P)
  BY SMT DEF Whole, Core, Link, sl_timer_start
<1> HIDE DEF r
<1> DEFINE more == r.Ce + Ue
<1> DEFINE less == IF r.Ce < De THEN 0 ELSE r.Ce - De
<1>a. more \in Nat /\ less \in Nat
  <2>1. Core(r, P) => r.Ce \in Nat
    BY DEF Core
  <2> QED
    BY <1>1, <2>1, NumberAssumption DEF Whole
<1> HIDE DEF more, less
<1> DEFINE a == [r EXCEPT !.su_received = 0, !.Ce = more, !.interval_error = 0]
<1> DEFINE g == [r EXCEPT !.su_received = 0, !.Ce = less]
<1>2. Keeps(r, a, P) /\ Keeps(r, g, P)
  BY <1>a, SMT DEF Keeps, Core, Link
<1>3. Whole(a, P) /\ Whole(g, P)
  BY <1>1, <1>2, KeepsWhole
<1> HIDE DEF a, g
<1> DEFINE b == sl_lsc_link_failure(a)
<1>4. Whole(b, P) /\ b.lsc \in {"POWER_OFF", "OUT_OF_SERVICE"}
  BY <1>3, LinkFailure, KeepsWhole DEF Whole
<1> HIDE DEF b
<1> DEFINE c == [b EXCEPT !.eim = "IDLE"]
<1>5. b.lsc \in {"POWER_OFF", "OUT_OF_SERVICE"} => Keeps(b, c, P)
  BY SMT DEF Keeps, Core, Link
<1> HIDE DEF c
<1>6. x.eim # "MONITORING" => Whole(x, P)
  BY SMT DEF Whole, Core, Link
<1>7. \/ x.eim # "MONITORING" /\ sl_t8_expiry(x) = x
      \/ sl_t8_expiry(x) \in {g, c, a}
  BY DEF sl_t8_expiry, g, c, b, a, r, more, less
<1> QED
  BY <1>3, <1>4, <1>5, <1>6, <1>7, KeepsWhole

\* The handler of any expiry.
LEMMA Expiry ==
  ASSUME NEW x, NEW P, NEW t \in Timer, Whole(x, P \cup {t}) PROVE Whole(sl_r_pcrse(x, t), P)
<1> HIDE DEF IacSupervised, CcSupervised, SlState
<1>1. CASE t = "t1"
  BY <1>1, T1Expiry DEF sl_r_pcrse, Whole
<1>2. CASE t = "t2"
  BY <1>2, T2Expiry DEF sl_r_pcrse
<1>3. CASE t = "t3"
  BY <1>3, T3Expiry DEF sl_r_pcrse
<1>4. CASE t = "t4"
  BY <1>4, T4Expiry DEF sl_r_pcrse
<1>5. CASE t = "t5"
  BY <1>5, T5Expiry DEF sl_r_pcrse
<1>6. CASE t = "t6"
  BY <1>6, T6T7Expiry DEF sl_r_pcrse
<1>7. CASE t = "t7"
  BY <1>7, T6T7Expiry DEF sl_r_pcrse
<1>8. CASE t = "t8"
  BY <1>8, T8Expiry DEF sl_r_pcrse
<1> QED
  BY <1>1, <1>2, <1>3, <1>4, <1>5, <1>6, <1>7, <1>8

------------------------------------------------------------------------------
(***************************************************************************)
(* What the functions leave alone: the buffers, the congestion status and  *)
(* the sequence numbers, which only transmission control and the reception *)
(* of messages change.                                                     *)
(* X.fsn may become the number that is acknowledged (sl_txc_fsnx_value).   *)
(***************************************************************************)
Same(x, y) ==
  /\ y.tb = x.tb /\ y.rtb = x.rtb /\ y.rb = x.rb /\ y.pos = x.pos /\ y.Z = x.Z
  /\ y.Ffsn = x.Ffsn /\ y.Lfsn = x.Lfsn /\ y.Tfsn = x.Tfsn /\ y.rFfsn = x.rFfsn
  /\ y.Xfsn = x.Xfsn /\ y.tXfsn \in {x.tXfsn, x.Xfsn}
  /\ y.forced_retransmission = x.forced_retransmission
  /\ y.clear_rtb = x.clear_rtb /\ y.ib_mask = x.ib_mask
  /\ y.Cm = x.Cm /\ y.wqc = x.wqc /\ y.cong_status = x.cong_status

Leaves(x, y) == SlState(x) => SlState(y) /\ Same(x, y)

\* A function that calls another one leaves alone what both do.
LEMMA LeavesChain ==
  ASSUME NEW x, NEW y, NEW z, Leaves(x, y), Leaves(y, z)
  PROVE  Leaves(x, z)
<1> HIDE DEF SlState
<1> QED BY DEF Leaves, Same

\* A function that returns early leaves everything alone.
LEMMA LeavesEarly == ASSUME NEW x PROVE Leaves(x, x)
  BY DEF Leaves, Same

\* The same, of the fields alone.
LEMMA SameChain == ASSUME NEW x, NEW y, NEW z, Same(x, y), Same(y, z) PROVE Same(x, z)
  BY Zenon DEF Same

LEMMA SameEarly == ASSUME NEW x PROVE Same(x, x)
  BY Zenon DEF Same

\* With every timer among the expiries Core only says that the state is well typed.
LEMMA OnlyTyped == ASSUME NEW x PROVE Core(x, Timer) <=> SlState(x)
  BY DEF Core

\* A function that keeps the state well typed and leaves the fields alone.
LEMMA Left ==
  ASSUME NEW x, NEW y, Keeps(x, y, Timer), SlState(x) => Same(x, y)
  PROVE  Leaves(x, y)
<1> HIDE DEF SlState
<1> QED BY OnlyTyped DEF Leaves, Keeps

\* The small functions.
LEMMA SmallLeaves ==
  ASSUME NEW x
  PROVE  /\ Leaves(x, sl_cc_busy(x))
         /\ Leaves(x, sl_txc_fsnx_value(x))
         /\ Leaves(x, SibOver(x))
         /\ Leaves(x, sl_rc_no_congestion(x))
         /\ Leaves(x, sl_rc_congestion_discard(x))
         /\ Leaves(x, sl_rc_congestion_accept(x))
<1>1. SlState(x) => Same(x, sl_cc_busy(x))
  BY SMT DEF Same, sl_cc_busy, sl_timer_start, sl_txc_send_sib
<1>2. SlState(x) => Same(x, sl_txc_fsnx_value(x))
  BY SMT DEF Same, sl_txc_fsnx_value
<1>3. SlState(x) => Same(x, SibOver(x))
  BY SMT DEF Same, SibOver
<1>4. SlState(x) => Same(x, sl_rc_no_congestion(x))
  BY SMT DEF Same, sl_rc_no_congestion, sl_txc_fsnx_value, sl_cc_normal, sl_txc_nack_to_be_sent, Toggled
<1>5. SlState(x) => Same(x, sl_rc_congestion_discard(x))
  BY SMT DEF Same, sl_rc_congestion_discard, sl_cc_busy, sl_timer_start, sl_txc_send_sib
<1>6. SlState(x) => Same(x, sl_rc_congestion_accept(x))
  BY SMT DEF Same, sl_rc_congestion_accept, sl_cc_busy, sl_timer_start, sl_txc_send_sib
<1> HIDE DEF SlState
<1> QED
  BY <1>1, <1>2, <1>3, <1>4, <1>5, <1>6, Left,
     CcBusy, FsnxValue, SibOverKeeps, RcNoCongestion, RcDiscard, RcAcceptPolicy

\* Leaving service.
LEMMA OutLeaves ==
  ASSUME NEW x
  PROVE  /\ Leaves(x, sl_lsc_link_failure(x))
         /\ Leaves(x, sl_lsc_stop(x))
         /\ Leaves(x, sl_lsc_sio(x))
         /\ Leaves(x, sl_lsc_sios(x))
         /\ Leaves(x, SinOrSie(x))
<1>1. SlState(x) => Same(x, sl_lsc_link_failure(x))
  BY SMT DEF Same, sl_lsc_link_failure, OutOfService, sl_poc_stop, sl_txc_send_sios, sl_rc_stop,
             sl_cc_normal, sl_suerm_stop, sl_timer_stop, sl_iac_stop, sl_aerm_stop,
             sl_out_of_service_ind
<1>2. SlState(x) => Same(x, sl_lsc_stop(x))
  BY SMT DEF Same, sl_lsc_stop, OutOfService, sl_poc_stop, sl_txc_send_sios, sl_rc_stop,
             sl_cc_normal, sl_suerm_stop, sl_timer_stop, sl_iac_stop, sl_aerm_stop
<1>3. SlState(x) => Same(x, sl_lsc_sio(x))
  BY SMT DEF Same, sl_lsc_sio, OutOfService, sl_poc_stop, sl_txc_send_sios, sl_rc_stop,
             sl_cc_normal, sl_suerm_stop, sl_timer_stop, sl_out_of_service_ind
<1>4. SlState(x) => Same(x, sl_lsc_sios(x))
  BY SMT DEF Same, sl_lsc_sios, OutOfService, sl_poc_stop, sl_txc_send_sios, sl_rc_stop,
             sl_cc_normal, sl_suerm_stop, sl_timer_stop, sl_out_of_service_ind
<1>5. SlState(x) => Same(x, SinOrSie(x))
  BY SMT DEF Same, SinOrSie, sl_poc_stop, sl_txc_send_sios, sl_rc_stop,
             sl_cc_normal, sl_suerm_stop, sl_out_of_service_ind
<1> HIDE DEF SlState
<1> QED
  BY <1>1, <1>2, <1>3, <1>4, <1>5, Left, LinkFailure, LscStop, LscSio, LscSios, SinOrSieKeeps

\* Initial alignment control.
LEMMA IacLeaves ==
  ASSUME NEW x
  PROVE  /\ Leaves(x, sl_iac_sio(x))
         /\ Leaves(x, sl_iac_sin(x))
         /\ Leaves(x, sl_iac_sie(x))
         /\ Leaves(x, sl_iac_sios(x))
         /\ Leaves(x, sl_iac_correct_su(x))
<1>1. SlState(x) => Same(x, sl_iac_sio(x))
  BY SMT DEF Same, sl_iac_sio, ToAligned, sl_txc_send_sie, sl_txc_send_sin, sl_aerm_stop
<1>2. SlState(x) => Same(x, sl_iac_sin(x))
  BY SMT DEF Same, sl_iac_sin, ToAligned, sl_txc_send_sie, sl_txc_send_sin, sl_aerm_set_ti_to_tie,
             Prove, sl_aerm_start, sl_timer_stop
<1>3. SlState(x) => Same(x, sl_iac_sie(x))
  BY SMT DEF Same, sl_iac_sie, ToAligned, sl_txc_send_sie, sl_txc_send_sin, sl_aerm_set_ti_to_tie,
             Prove, sl_aerm_start, sl_timer_stop, sl_aerm_stop
<1>4. SlState(x) => Same(x, sl_iac_sios(x))
  BY SMT DEF Same, sl_iac_sios, sl_aerm_stop, sl_lsc_alignment_not_possible, sl_txc_send_sios,
             sl_rc_stop, sl_cc_normal, sl_out_of_service_ind
<1>5. SlState(x) => Same(x, sl_iac_correct_su(x))
  BY SMT DEF Same, sl_iac_correct_su, Prove, sl_aerm_start
<1> HIDE DEF SlState
<1> QED
  BY <1>1, <1>2, <1>3, <1>4, <1>5, Left, IacSio, IacSin, IacSie, IacSios, IacCorrect

\* Processor outage control.
LEMMA OutageLeaves ==
  ASSUME NEW x
  PROVE  /\ Leaves(x, sl_lsc_fisu_msu_received(x))
         /\ Leaves(x, sl_lsc_sipo(x))
         /\ Leaves(x, sl_lsc_sib(x))
         /\ Leaves(x, sl_lsc_local_processor_outage(x))
         /\ Leaves(x, sl_lsc_local_processor_recovered(x))
<1>1. SlState(x) => Same(x, sl_lsc_fisu_msu_received(x))
  BY SMT DEF Same, sl_lsc_fisu_msu_received, sl_txc_send_msu, sl_timer_stop, sl_in_service_ind,
             sl_rc_accept_msu_fisu, sl_poc_remote_processor_recovered, sl_lsc_no_processor_outage
<1>2. SlState(x) => Same(x, sl_lsc_sipo(x))
  BY SMT DEF Same, sl_lsc_sipo, sl_poc_remote_processor_outage, sl_timer_stop, sl_txc_send_fisu,
             sl_cc_normal, sl_rc_align_fsnx, sl_txc_fsnx_value
<1>3. SlState(x) => Same(x, sl_lsc_sib(x))
  BY SMT DEF Same, sl_lsc_sib, sl_txc_sib_received
<1>4. SlState(x) => Same(x, sl_lsc_local_processor_outage(x))
  BY SMT DEF Same, sl_lsc_local_processor_outage, sl_poc_local_processor_outage, sl_txc_send_sipo,
             sl_rc_reject_msu_fisu, sl_cc_normal, sl_rc_align_fsnx, sl_txc_fsnx_value
<1>5. SlState(x) => Same(x, sl_lsc_local_processor_recovered(x))
  <2> SUFFICES ASSUME SlState(x) PROVE Same(x, sl_lsc_local_processor_recovered(x))
    OBVIOUS
  <2> DEFINE So(u, v) == DOMAIN v = Fields /\ Same(u, v)
             r == sl_poc_local_processor_recovered(x)
             f == sl_rc_retrieve_fsnx(r)
             i == [sl_txc_send_fisu(f) EXCEPT !.lsc = "IN_SERVICE"]
             w == IF ITUT9x THEN i ELSE x
             a == [sl_rc_accept_msu_fisu(w) EXCEPT !.local_processor_outage = 0]
             s == IF ANSI THEN x ELSE r
             b == sl_txc_send_fisu(s)
             c == [(IF PVAR = "ITUT_96" THEN sl_rc_accept_msu_fisu(b) ELSE b) EXCEPT
                     !.local_processor_outage = 0, !.lsc = "ALIGNED_READY"]
             p == [x EXCEPT !.local_processor_outage = 0]
             m == sl_txc_send_fisu(a)
             n == [sl_txc_send_msu(a) EXCEPT !.lsc = "IN_SERVICE"]
  <2>1. sl_lsc_local_processor_recovered(x) \in {x, p, c, m, n}
    <3> HIDE DEF SlState, ITUT9x, ANSI
    <3> QED
      BY DEF sl_lsc_local_processor_recovered
  <2>2. So(x, x) /\ So(x, p)
    BY SMT DEF Same
  <2>3. So(x, r)
    BY SMT DEF Same, sl_poc_local_processor_recovered, sl_lsc_no_processor_outage,
               sl_rc_accept_msu_fisu, sl_txc_send_msu
  <2> HIDE DEF r, SlState
  <2>4. So(r, f)
    BY <2>3, SMT DEF Same, sl_rc_retrieve_fsnx, sl_txc_fsnx_value, sl_cc_normal
  <2> HIDE DEF f
  <2>5. So(f, i)
    BY <2>4, SMT DEF Same, sl_txc_send_fisu
  <2> HIDE DEF i
  <2>6. So(x, w)
    BY <2>2, <2>3, <2>4, <2>5, SameChain
  <2> HIDE DEF w
  <2>7. So(w, a)
    BY <2>6, SMT DEF Same, sl_rc_accept_msu_fisu
  <2> HIDE DEF a
  <2>8. So(a, m) /\ So(a, n)
    BY <2>7, SMT DEF Same, sl_txc_send_fisu, sl_txc_send_msu
  <2> HIDE DEF m, n
  <2>9. So(x, s)
    BY <2>2, <2>3
  <2> HIDE DEF s
  <2>10. So(s, c)
    BY <2>9, SMT DEF Same, sl_txc_send_fisu, sl_rc_accept_msu_fisu
  <2> HIDE DEF c
  <2> QED
    BY <2>1, <2>2, <2>6, <2>7, <2>8, <2>9, <2>10, SameChain
<1> HIDE DEF SlState
<1> QED
  BY <1>1, <1>2, <1>3, <1>4, <1>5, Left,
     FisuMsuReceived, LscSipo, LscSib, LocalOutage, LocalRecovered

\* The reception of a unit, but for what it acknowledges and carries.
LEMMA ReceptionLeaves ==
  ASSUME NEW x
  PROVE  /\ \A i \in Sio : Leaves(x, LssuReceived(x, i))
         /\ Leaves(x, AbnormalBsnr(x))
         /\ \A next, own \in BOOLEAN : Leaves(x, sl_rb_congestion_function(x, next, own))
         /\ Leaves(x, sl_daedr_correct_su(x))
<1> HIDE DEF SlState
<1>1. ASSUME NEW i \in Sio PROVE Leaves(x, LssuReceived(x, i))
  <2>1. Leaves(x, sl_lsc_sio(sl_iac_sio(x))) BY IacLeaves, OutLeaves, LeavesChain
  <2>2. Leaves(x, SinOrSie(sl_iac_sin(x))) BY IacLeaves, OutLeaves, LeavesChain
  <2>3. Leaves(x, SinOrSie(sl_iac_sie(x))) BY IacLeaves, OutLeaves, LeavesChain
  <2>4. Leaves(x, sl_lsc_sios(sl_iac_sios(x))) BY IacLeaves, OutLeaves, LeavesChain
  <2> QED BY <2>1, <2>2, <2>3, <2>4, OutageLeaves DEF LssuReceived, sl_lsc_sin, sl_lsc_sie
<1>2. Leaves(x, AbnormalBsnr(x))
  <2> DEFINE y == sl_lsc_link_failure(x)
             u == [y EXCEPT !.rc = "IDLE"]
             v == [x EXCEPT !.abnormal_bsnr = 1, !.unb = 0]
  <2>1. Leaves(x, y) BY OutLeaves
  <2>2. AbnormalBsnr(x) = IF x.abnormal_bsnr = 1 THEN u ELSE v BY DEF AbnormalBsnr
  <2> HIDE DEF y
  <2>3. Leaves(y, u) BY SMT DEF Leaves, Same, SlState
  <2>4. Leaves(x, v) BY SMT DEF Leaves, Same, SlState
  <2> QED BY <2>1, <2>2, <2>3, <2>4, LeavesChain
<1>3. ASSUME NEW next \in BOOLEAN, NEW own \in BOOLEAN
      PROVE  Leaves(x, sl_rb_congestion_function(x, next, own))
  <2> DEFINE a == sl_rc_no_congestion(x)
             b == sl_rc_congestion_discard(x)
             c == sl_rc_congestion_accept(x)
  <2>1. Leaves(x, a) /\ Leaves(x, b) /\ Leaves(x, c) BY SmallLeaves
  <2> DEFINE d == [a EXCEPT !.l2_congestion_detect = 0]
             e == [b EXCEPT !.l2_congestion_detect = 1]
             f == [c EXCEPT !.l2_congestion_detect = 1]
  <2>2. sl_rb_congestion_function(x, next, own) \in {x, d, e, f}
    BY DEF sl_rb_congestion_function
  <2> HIDE DEF a, b, c
  <2>3. Leaves(a, d) BY SMT DEF Leaves, Same, SlState
  <2>4. Leaves(b, e) BY SMT DEF Leaves, Same, SlState
  <2>5. Leaves(c, f) BY SMT DEF Leaves, Same, SlState
  <2> HIDE DEF d, e, f
  <2> QED BY <2>1, <2>2, <2>3, <2>4, <2>5, LeavesChain, LeavesEarly
<1>4. Leaves(x, sl_daedr_correct_su(x))
  <2> DEFINE a == sl_eim_correct_su(x)
             b == sl_suerm_correct_su(a)
             c == sl_iac_correct_su(b)
             d == [c EXCEPT !.aborted_proving = 0]
  <2>1. Leaves(x, a)
    <3>1. SlState(x) => Same(x, a) BY SMT DEF Same, SlState, sl_eim_correct_su
    <3> QED BY <3>1, EimCorrect, Left
  <2> HIDE DEF a
  <2>2. Leaves(a, b)
    <3>1. SlState(a) => Same(a, Leaked(a)) BY SMT DEF Same, SlState, Leaked
    <3> QED BY <3>1, LeakedKeeps, Left, LeavesEarly DEF sl_suerm_correct_su
  <2> HIDE DEF b
  <2>3. Leaves(b, c) BY IacLeaves
  <2> HIDE DEF c
  <2>4. Leaves(c, d) BY SMT DEF Leaves, Same, SlState
  <2>5. sl_daedr_correct_su(x) \in {b, d}
    BY DEF sl_daedr_correct_su, sl_aerm_correct_su, a, b, c
  <2> HIDE DEF d
  <2> QED BY <2>1, <2>2, <2>3, <2>4, <2>5, LeavesChain
<1> QED BY <1>1, <1>2, <1>3, <1>4

\* No expiry touches the buffers or the sequence numbers.
LEMMA ExpirySame ==
  ASSUME NEW x, NEW t \in Timer, SlState(x)
  PROVE  Same(x, sl_r_pcrse(x, t))
<1>1. Same(x, sl_t1_expiry(x))
  <2> DEFINE r == sl_rc_stop(sl_out_of_service_ind(x))
             a == sl_txc_send_sios(sl_suerm_stop(r))
             b == IF x.lsc = "ALIGNED_NOT_READY"
                  THEN [sl_poc_stop(a) EXCEPT !.local_processor_outage = 0] ELSE a
             c == [b EXCEPT !.emergency = 0, !.lsc = "OUT_OF_SERVICE"]
  <2>1. DOMAIN a = Fields /\ Same(x, a)
    <3>1. DOMAIN x = Fields
      OBVIOUS
    <3> HIDE DEF SlState
    <3>2. DOMAIN r = Fields /\ Same(x, r)
      BY <3>1, SMT DEF Same, sl_rc_stop, sl_cc_normal, sl_out_of_service_ind
    <3> HIDE DEF r
    <3>3. DOMAIN a = Fields /\ Same(r, a)
      BY <3>2, SMT DEF Same, sl_txc_send_sios, sl_suerm_stop
    <3> HIDE DEF a
    <3> QED
      BY <3>2, <3>3, SameChain
  <2> HIDE DEF a, SlState
  <2>2. Same(a, c)
    BY <2>1, SMT DEF Same, sl_poc_stop
  <2>3. sl_t1_expiry(x) = c
    BY DEF sl_t1_expiry, a
  <2> HIDE DEF c
  <2> QED
    BY <2>1, <2>2, <2>3, SameChain
<1>2. Same(x, sl_t2_expiry(x)) /\ Same(x, sl_t3_expiry(x))
  BY SMT DEF Same, sl_t2_expiry, sl_t3_expiry, AlignmentTimeout, sl_lsc_alignment_not_possible,
             sl_txc_send_sios, sl_rc_stop, sl_cc_normal, sl_out_of_service_ind
<1>3. Same(x, sl_t4_expiry(x))
  <2> DEFINE So(u, v) == DOMAIN v = Fields /\ Same(u, v)
             s == sl_timer_start(sl_suerm_start(x), "t1")
             p == sl_txc_send_sipo(IF ANSI THEN s ELSE sl_poc_local_processor_outage(s))
             a == [(IF PVAR # "ITUT_93" THEN sl_rc_reject_msu_fisu(p) ELSE p) EXCEPT
                     !.lsc = "ALIGNED_NOT_READY"]
             b == [sl_rc_accept_msu_fisu(sl_txc_send_msu(s)) EXCEPT !.lsc = "ALIGNED_READY"]
             c == sl_lsc_alignment_complete(x)
             d == [sl_aerm_stop(c) EXCEPT !.emergency = 0, !.iac = "IDLE"]
  <2>1. So(x, x) /\ So(x, Prove(x))
    BY SMT DEF Same, Prove, sl_aerm_start
  <2>2. So(x, s)
    BY SMT DEF Same, sl_timer_start, sl_suerm_start, sl_eim_start
  <2> HIDE DEF SlState, s
  <2>3. So(s, a)
    BY <2>2, SMT DEF Same, sl_txc_send_sipo, sl_poc_local_processor_outage, sl_rc_reject_msu_fisu
  <2>4. So(s, b)
    BY <2>2, SMT DEF Same, sl_rc_accept_msu_fisu, sl_txc_send_msu
  <2> HIDE DEF a, b
  <2>5. c \in {x, a, b}
    BY DEF sl_lsc_alignment_complete, s, a, b
  <2> HIDE DEF c
  <2>6. So(x, c)
    BY <2>1, <2>2, <2>3, <2>4, <2>5, SameChain
  <2>7. Same(c, d)
    BY <2>6, SMT DEF Same, sl_aerm_stop
  <2>8. sl_t4_expiry(x) \in {x, Prove(x), d}
    BY DEF sl_t4_expiry, c
  <2> HIDE DEF d
  <2> QED
    BY <2>1, <2>6, <2>7, <2>8, SameChain
<1>4. Same(x, sl_t5_expiry(x))
  BY SMT DEF Same, sl_t5_expiry, sl_timer_start, sl_txc_send_sib
<1>5. Same(x, sl_t6_expiry(x)) /\ Same(x, sl_t7_expiry(x))
  <2> DEFINE a == sl_lsc_link_failure(x)
             b == sl_timer_stop([a EXCEPT !.sib_received = 0], "t7")
             c == sl_timer_stop(a, "t6")
             d == [c EXCEPT !.sib_received = 0]
  <2>1. SlState(a) /\ Same(x, a)
    <3> HIDE DEF SlState
    <3> QED
      BY OutLeaves DEF Leaves
  <2> HIDE DEF a
  <2>2. Same(a, b) /\ Same(a, c) /\ Same(a, d)
    BY <2>1, SMT DEF Same, sl_timer_stop
  <2>3. sl_t6_expiry(x) = b /\ sl_t7_expiry(x) \in {c, d}
    BY DEF sl_t6_expiry, sl_t7_expiry, a
  <2> HIDE DEF b, c, d
  <2>4. Same(x, b) /\ Same(x, c) /\ Same(x, d)
    BY <2>1, <2>2, SameChain
  <2> QED
    BY <2>3, <2>4
<1>6. Same(x, sl_t8_expiry(x))
  <2> DEFINE s == sl_timer_start(x, "t8")
             n == s.Ce + Ue
             a == [s EXCEPT !.su_received = 0, !.Ce = n, !.interval_error = 0]
             b == sl_lsc_link_failure(a)
             c == [b EXCEPT !.eim = "IDLE"]
             d == [s EXCEPT !.su_received = 0, !.Ce = IF @ < De THEN 0 ELSE @ - De]
  <2>1. sl_t8_expiry(x) \in {x, a, c, d}
    BY DEF sl_t8_expiry
  <2>2. SlState(s) /\ Same(x, s)
    BY SMT DEF Same, sl_timer_start
  <2> HIDE DEF s
  <2>0. n \in Nat
    <3>1. s.Ce \in Nat
      BY <2>2
    <3> HIDE DEF SlState
    <3> QED
      BY <3>1, NumberAssumption
  <2> HIDE DEF n
  <2>3. SlState(a)
    BY <2>0, <2>2, SMT
  <2>4. Same(s, a) /\ Same(s, d)
    BY <2>2, SMT DEF Same
  <2> HIDE DEF a, d
  <2>5. SlState(b) /\ Same(a, b)
    <3> HIDE DEF SlState
    <3> QED
      BY <2>3, OutLeaves DEF Leaves
  <2> HIDE DEF b
  <2>6. Same(b, c)
    BY <2>5, SMT DEF Same
  <2> HIDE DEF c, SlState
  <2>7. Same(x, a) /\ Same(x, d)
    BY <2>2, <2>4, SameChain
  <2>8. Same(x, c)
    <3>1. Same(x, b)
      BY <2>5, <2>7, SameChain
    <3> QED
      BY <2>6, <3>1, SameChain
  <2> QED
    BY <2>1, <2>7, <2>8, SameEarly
<1> HIDE DEF SlState
<1> QED
  BY <1>1, <1>2, <1>3, <1>4, <1>5, <1>6 DEF sl_r_pcrse

\* Whoever extends this module expands what it cites and nothing else.
HIDE DEF IacSupervised, CcSupervised, SlState, Fields,
         LscState, IacState, PocState, L3State, Flag, Timer, Sio

------------------------------------------------------------------------------
(***************************************************************************)
(* How a terminal comes into service (InService), step by step.            *)
(***************************************************************************)
PoweredOn == sl_lsc_power_on(sl_alloc_priv)
Started == sl_lsc_start(PoweredOn)
Status(i) == [type |-> "LSSU", fsn |-> Mod - 1, fib |-> 1, bsn |-> Mod - 1, bib |-> 1, sio |-> i]
Fill == [type |-> "FISU", fsn |-> Mod - 1, fib |-> 1, bsn |-> Mod - 1, bib |-> 1]
Got(x, su) == sl_daedr_received_bits(x, su, TRUE, TRUE)
Proving == Got(Got(Started, Status("SIO")), Status("SIN"))
Ready == sl_t4_expiry(sl_timer_stop(Proving, "t4"))

\* The steps are those of InService.
LEMMA ComesIntoService == InService = Got(Ready, Fill)
  BY DEF InService, Got, Ready, Proving, Started, PoweredOn, Status, Fill

\* The units of an alignment are well formed.
LEMMA AlignmentUnits == Fill \in Su /\ \A i \in Sio : Status(i) \in Su
<1> DEFINE n == Mod - 1
<1>1. n \in Sn /\ 1 \in Flag
  BY InRange DEF Flag
<1> HIDE DEF n
<1>2. Fill \in Fisu
  BY <1>1 DEF Fill, Fisu, n
<1>3. ASSUME NEW i \in Sio PROVE Status(i) \in Lssu
  BY <1>1 DEF Status, Lssu, n
<1> QED
  BY <1>2, <1>3 DEF Su

\* A new private structure is well typed and no timer runs.
LEMMA AllocatedTyped == SlState(sl_alloc_priv)
<1> DEFINE x == sl_alloc_priv
<1>1. DOMAIN x = Fields
  BY SMT DEF sl_alloc_priv, Fields
<1>2. /\ x.lsc = "POWER_OFF" /\ x.iac = "IDLE" /\ x.poc = "IDLE" /\ x.cc = "IDLE"
      /\ x.txc = "IDLE" /\ x.rc = "IDLE" /\ x.aerm = "IDLE" /\ x.suerm = "IDLE"
      /\ x.eim = "IDLE" /\ x.tm = {} /\ x.t4v = "n" /\ x.sio = "SIO" /\ x.l3 = "stopped"
      /\ x.tb = <<>> /\ x.rtb = <<>> /\ x.rb = <<>>
  BY DEF sl_alloc_priv
<1>3. \A f \in Fields \ {"lsc", "iac", "poc", "cc", "txc", "rc", "aerm", "suerm", "eim", "tm",
                         "t4v", "sio", "l3", "tb", "rtb", "rb"} : x[f] = 0
  BY SMT DEF sl_alloc_priv, Fields
<1> HIDE DEF x
<1> QED
  BY <1>1, <1>2, <1>3, NumberAssumption, InRange, SMT
     DEF SlState, Fields, LscState, IacState, PocState, L3State, Flag, Timer, Sio, x

LEMMA AllocatedWhole == Whole(sl_alloc_priv, Timer)
<1>1. SlState(sl_alloc_priv)
  BY AllocatedTyped
<1> QED
  BY <1>1 DEF Whole, Core, Link, IacSupervised, CcSupervised, sl_alloc_priv

\* What the start of the transmitter changes and what it leaves.
LEMMA TxcStartFields ==
  ASSUME NEW x, DOMAIN x = Fields
  PROVE  LET y == sl_txc_start(x)
         IN  /\ DOMAIN y = Fields
             /\ y.ib_mask = 1 /\ y.pos = 0 /\ y.Z = 0 /\ y.Ffsn = 0 /\ y.Lfsn = Mod - 1
             /\ y.tXfsn = 0 /\ y.forced_retransmission = 0 /\ y.clear_rtb = 0
             /\ y.txc = "IN_SERVICE" /\ y.Cm = 0 /\ y.wqc = x.wqc /\ y.cong_status = x.cong_status
             /\ y.tb = x.tb /\ y.rtb = x.rtb /\ y.rb = x.rb
             /\ y.rFfsn = x.rFfsn /\ y.Tfsn = x.Tfsn /\ y.Xfsn = x.Xfsn
             /\ y.lsc = x.lsc /\ y.iac = x.iac /\ y.rc = x.rc /\ y.emergency = x.emergency
             /\ y.local_processor_outage = x.local_processor_outage
             /\ y.aerm = x.aerm /\ y.aborted_proving = x.aborted_proving
             /\ y.abnormal_bsnr = x.abnormal_bsnr
<1> DEFINE m == Mod - 1
<1> HIDE DEF m
<1> DEFINE a == [x EXCEPT !.forced_retransmission = 0, !.sib_received = 0, !.Ct = 0,
                          !.rtb_full = 0, !.clear_rtb = 0, !.msu_inhibited = 0, !.ib_mask = 1]
           b == [a EXCEPT !.sio = IF ANSI THEN "SIOS" ELSE @,
                          !.lssu_available = IF ANSI THEN 1 ELSE IF x.txc = "IDLE" THEN 0 ELSE @]
           c == [b EXCEPT !.Lfsn = m, !.Nfsn = m, !.tXfsn = 0, !.Nfib = 1, !.Nbib = 1]
           d == [c EXCEPT !.Ffsn = 0, !.Cm = 0, !.Z = 0, !.pos = 0, !.txc = "IN_SERVICE"]
           Rest(y) == /\ DOMAIN y = Fields /\ y.wqc = x.wqc /\ y.cong_status = x.cong_status
                      /\ y.tb = x.tb /\ y.rtb = x.rtb /\ y.rb = x.rb
                      /\ y.rFfsn = x.rFfsn /\ y.Tfsn = x.Tfsn /\ y.Xfsn = x.Xfsn
                      /\ y.lsc = x.lsc /\ y.iac = x.iac /\ y.rc = x.rc /\ y.emergency = x.emergency
                      /\ y.local_processor_outage = x.local_processor_outage
                      /\ y.aerm = x.aerm /\ y.aborted_proving = x.aborted_proving
                      /\ y.abnormal_bsnr = x.abnormal_bsnr
<1>1. Rest(a) /\ a.forced_retransmission = 0 /\ a.clear_rtb = 0 /\ a.ib_mask = 1
  BY SMT DEF Fields
<1>5. sl_txc_start(x) = d
  BY SMT DEF sl_txc_start, m
<1> HIDE DEF a
<1>2. Rest(b) /\ b.forced_retransmission = 0 /\ b.clear_rtb = 0 /\ b.ib_mask = 1
  BY <1>1, SMT DEF Fields
<1> HIDE DEF b
<1>3. /\ Rest(c) /\ c.forced_retransmission = 0 /\ c.clear_rtb = 0 /\ c.ib_mask = 1
      /\ c.Lfsn = m /\ c.tXfsn = 0
  BY <1>2, SMT DEF Fields
<1> HIDE DEF c
<1>4. /\ Rest(d) /\ d.forced_retransmission = 0 /\ d.clear_rtb = 0 /\ d.ib_mask = 1
      /\ d.Lfsn = m /\ d.tXfsn = 0 /\ d.Ffsn = 0 /\ d.Z = 0 /\ d.pos = 0 /\ d.txc = "IN_SERVICE"
      /\ d.Cm = 0
  BY <1>3, SMT DEF Fields
<1> HIDE DEF d
<1> QED
  BY <1>4, <1>5 DEF m

\* What the start of the receiver changes and what it leaves.
LEMMA RcStartFields ==
  ASSUME NEW x, DOMAIN x = Fields, x.rc = "IDLE", x.ib_mask = 1
  PROVE  LET y == sl_rc_start(x)
         IN  /\ DOMAIN y = Fields
             /\ y.Xfsn = 0 /\ y.rFfsn = 0 /\ y.Tfsn = Mod - 1 /\ y.abnormal_bsnr = 0
             /\ y.rc = "IN_SERVICE" /\ y.wqc = x.wqc /\ y.cong_status = x.cong_status
             /\ y.tb = x.tb /\ y.rtb = x.rtb /\ y.rb = x.rb /\ y.iac = x.iac
             /\ y.emergency = x.emergency /\ y.local_processor_outage = x.local_processor_outage
             /\ y.aerm = x.aerm /\ y.aborted_proving = x.aborted_proving
<1> DEFINE m == IF x.ib_mask = 1 THEN Mod - 1 ELSE 0
<1> HIDE DEF m
<1> DEFINE a == [x EXCEPT !.Xfsn = 0, !.Xfib = x.ib_mask, !.rFfsn = 0, !.Tfsn = m, !.rtr = 0]
           b == [a EXCEPT !.msu_fisu_accepted = IF ANSI THEN 1 ELSE 0,
                          !.abnormal_bsnr = 0, !.abnormal_fibr = 0,
                          !.congestion_discard = 0, !.congestion_accept = 0,
                          !.rc = "IN_SERVICE"]
           Rest(y) == /\ DOMAIN y = Fields /\ y.wqc = x.wqc /\ y.cong_status = x.cong_status
                      /\ y.tb = x.tb /\ y.rtb = x.rtb /\ y.rb = x.rb /\ y.iac = x.iac
                      /\ y.emergency = x.emergency
                      /\ y.local_processor_outage = x.local_processor_outage
                      /\ y.aerm = x.aerm /\ y.aborted_proving = x.aborted_proving
<1>1. sl_rc_start(x) = b
  BY SMT DEF sl_rc_start, m
<1>2. Rest(a) /\ a.Xfsn = 0 /\ a.rFfsn = 0 /\ a.Tfsn = m
  BY SMT DEF Fields
<1> HIDE DEF a
<1>3. /\ Rest(b) /\ b.Xfsn = 0 /\ b.rFfsn = 0 /\ b.Tfsn = m
      /\ b.abnormal_bsnr = 0 /\ b.rc = "IN_SERVICE"
  BY <1>2, SMT DEF Fields
<1> HIDE DEF b
<1>4. m = Mod - 1
  BY DEF m
<1> QED
  BY <1>1, <1>3, <1>4

\* What power on leaves: the buffers are empty and the transmitter is numbered.
LEMMA PoweredOnFields ==
  LET x == PoweredOn
  IN  /\ Whole(x, Timer)
      /\ x.lsc = "OUT_OF_SERVICE" /\ x.iac = "IDLE" /\ x.emergency = 0 /\ x.rc = "IDLE"
      /\ x.tb = <<>> /\ x.rtb = <<>> /\ x.rb = <<>> /\ x.ib_mask = 1 /\ x.txc = "IN_SERVICE"
      /\ x.local_processor_outage = 0 /\ x.aerm = "IDLE" /\ x.aborted_proving = 0 /\ x.wqc = 0
      /\ x.cong_status = 0
<1>1. Whole(PoweredOn, Timer)
  BY AllocatedWhole, LscPowerOn, KeepsWhole DEF PoweredOn
<1> DEFINE y == sl_txc_start(sl_alloc_priv)
<1>2. /\ y.iac = "IDLE" /\ y.rc = "IDLE" /\ y.tb = <<>> /\ y.rtb = <<>> /\ y.rb = <<>>
      /\ y.ib_mask = 1 /\ y.txc = "IN_SERVICE" /\ y.aerm = "IDLE" /\ y.aborted_proving = 0 /\ y.wqc = 0
      /\ y.cong_status = 0
      /\ DOMAIN y = Fields
  <2> DEFINE z == sl_alloc_priv
  <2>1. /\ z.iac = "IDLE" /\ z.rc = "IDLE" /\ z.tb = <<>> /\ z.rtb = <<>> /\ z.rb = <<>>
        /\ z.aerm = "IDLE" /\ z.aborted_proving = 0 /\ z.wqc = 0 /\ z.cong_status = 0
    BY DEF sl_alloc_priv
  <2>2. DOMAIN z = Fields
    BY AllocatedWhole DEF Whole, Core, SlState
  <2> HIDE DEF z
  <2> QED
    BY <2>1, <2>2, TxcStartFields DEF z
<1>3. sl_alloc_priv.lsc = "POWER_OFF"
  BY DEF sl_alloc_priv
<1> HIDE DEF y
<1> DEFINE z == [sl_aerm_set_ti_to_tin(sl_txc_send_sios(y)) EXCEPT
                   !.local_processor_outage = 0, !.emergency = 0, !.lsc = "OUT_OF_SERVICE"]
<1>4. PoweredOn = z
  BY <1>3 DEF PoweredOn, sl_lsc_power_on, y
<1>5. /\ z.lsc = "OUT_OF_SERVICE" /\ z.iac = "IDLE" /\ z.emergency = 0 /\ z.rc = "IDLE"
      /\ z.tb = <<>> /\ z.rtb = <<>> /\ z.rb = <<>> /\ z.ib_mask = 1 /\ z.txc = "IN_SERVICE"
      /\ z.local_processor_outage = 0 /\ z.aerm = "IDLE" /\ z.aborted_proving = 0 /\ z.wqc = 0
      /\ z.cong_status = 0
  BY <1>2, SMT DEF sl_aerm_set_ti_to_tin, sl_txc_send_sios, Fields
<1> QED
  BY <1>1, <1>4, <1>5

\* What the start leaves: the sequence numbers of both directions at their
\* beginning, and initial alignment under way.
LEMMA StartedFields ==
  LET x == Started
  IN  /\ Whole(x, Timer)
      /\ x.lsc = "INITIAL_ALIGNMENT" /\ x.iac = "NOT_ALIGNED" /\ x.rc = "IN_SERVICE"
      /\ x.tb = <<>> /\ x.rtb = <<>> /\ x.rb = <<>> /\ x.ib_mask = 1
      /\ x.pos = 0 /\ x.Z = 0 /\ x.Ffsn = 0 /\ x.rFfsn = 0
      /\ x.Lfsn = Mod - 1 /\ x.Tfsn = Mod - 1 /\ x.Xfsn = 0 /\ x.tXfsn = 0
      /\ x.forced_retransmission = 0 /\ x.clear_rtb = 0
      /\ x.local_processor_outage = 0 /\ x.aerm = "IDLE" /\ x.aborted_proving = 0
      /\ x.abnormal_bsnr = 0 /\ x.Cm = 0 /\ x.wqc = 0 /\ x.cong_status = 0
<1> DEFINE p == PoweredOn
           a == sl_rc_start(p)
           b == sl_txc_start(a)
           c == [sl_iac_start(b) EXCEPT !.lsc = "INITIAL_ALIGNMENT", !.l3 = "starting"]
<1>1. /\ Whole(p, Timer)
      /\ p.lsc = "OUT_OF_SERVICE" /\ p.iac = "IDLE" /\ p.emergency = 0 /\ p.rc = "IDLE"
      /\ p.tb = <<>> /\ p.rtb = <<>> /\ p.rb = <<>> /\ p.ib_mask = 1 /\ p.txc = "IN_SERVICE"
      /\ p.local_processor_outage = 0 /\ p.aerm = "IDLE" /\ p.aborted_proving = 0 /\ p.wqc = 0
      /\ p.cong_status = 0
  BY PoweredOnFields
<1>2. DOMAIN p = Fields
  BY <1>1 DEF Whole, Core, SlState
<1>3. Whole(Started, Timer)
  BY <1>1, LscStart, KeepsWhole DEF Started
<1>4. Started = IF b.emergency = 1
                THEN [sl_iac_start(sl_iac_emergency(b)) EXCEPT
                        !.lsc = "INITIAL_ALIGNMENT", !.l3 = "starting"]
                ELSE c
  BY <1>1 DEF Started, sl_lsc_start
<1> HIDE DEF p
<1>5. /\ a.iac = "IDLE" /\ a.emergency = 0 /\ a.rc = "IN_SERVICE"
      /\ a.tb = <<>> /\ a.rtb = <<>> /\ a.rb = <<>> /\ a.rFfsn = 0 /\ a.Tfsn = Mod - 1
      /\ a.Xfsn = 0 /\ a.local_processor_outage = 0 /\ a.aerm = "IDLE"
      /\ a.aborted_proving = 0 /\ a.wqc = 0 /\ a.abnormal_bsnr = 0 /\ DOMAIN a = Fields
      /\ a.cong_status = 0
  BY <1>1, <1>2, RcStartFields
<1> HIDE DEF a
<1>6. /\ b.iac = "IDLE" /\ b.emergency = 0 /\ b.rc = "IN_SERVICE"
      /\ b.tb = <<>> /\ b.rtb = <<>> /\ b.rb = <<>> /\ b.rFfsn = 0 /\ b.Tfsn = Mod - 1
      /\ b.Xfsn = 0 /\ b.local_processor_outage = 0 /\ b.aerm = "IDLE"
      /\ b.aborted_proving = 0 /\ b.wqc = 0 /\ b.abnormal_bsnr = 0 /\ DOMAIN b = Fields
      /\ b.cong_status = 0
      /\ b.ib_mask = 1 /\ b.pos = 0 /\ b.Z = 0 /\ b.Ffsn = 0 /\ b.Lfsn = Mod - 1
      /\ b.tXfsn = 0 /\ b.forced_retransmission = 0 /\ b.clear_rtb = 0 /\ b.Cm = 0
  BY <1>5, TxcStartFields
<1> HIDE DEF b
<1>7. /\ c.lsc = "INITIAL_ALIGNMENT" /\ c.iac = "NOT_ALIGNED" /\ c.rc = "IN_SERVICE"
      /\ c.tb = <<>> /\ c.rtb = <<>> /\ c.rb = <<>> /\ c.ib_mask = 1
      /\ c.pos = 0 /\ c.Z = 0 /\ c.Ffsn = 0 /\ c.rFfsn = 0
      /\ c.Lfsn = Mod - 1 /\ c.Tfsn = Mod - 1 /\ c.Xfsn = 0 /\ c.tXfsn = 0
      /\ c.forced_retransmission = 0 /\ c.clear_rtb = 0
      /\ c.local_processor_outage = 0 /\ c.aerm = "IDLE" /\ c.aborted_proving = 0
      /\ c.abnormal_bsnr = 0 /\ c.Cm = 0 /\ c.wqc = 0 /\ c.cong_status = 0
  BY <1>6, SMT DEF sl_iac_start, sl_timer_start, sl_txc_send_sio, Fields
<1> QED
  BY <1>3, <1>4, <1>6, <1>7

\* A status unit of the alignment changes neither buffers nor numbers.
LEMMA StatusGot ==
  ASSUME NEW x, NEW i \in Sio, Whole(x, Timer)
  PROVE  Whole(Got(x, Status(i)), Timer) /\ Same(x, Got(x, Status(i)))
<1> DEFINE m == Mod - 1
           r == [x EXCEPT !.rRbsn = m]
           y == LssuReceived(r, i)
           g == sl_daedr_correct_su(y)
<1>0. SlState(x) /\ m \in Sn
  BY InRange DEF Whole, Core
<1> HIDE DEF m
<1>1. Whole(Got(x, Status(i)), Timer)
  BY AlignmentUnits, ReceivedBits, KeepsWhole DEF Got
<1>2. Got(x, Status(i)) \in {x, g, sl_daedr_correct_su(x)}
  BY DEF Got, sl_daedr_received_bits, sl_rc_signal_unit, Status, m
<1>3. Leaves(x, r)
  BY <1>0, SMT DEF Leaves, Same, SlState, Fields
<1> HIDE DEF r
<1>4. Leaves(r, y) /\ Leaves(y, g) /\ Leaves(x, sl_daedr_correct_su(x)) /\ Leaves(x, x)
  BY ReceptionLeaves, LeavesEarly
<1> HIDE DEF y, g
<1>5. Leaves(x, g)
  BY <1>3, <1>4, LeavesChain
<1> QED
  BY <1>0, <1>1, <1>2, <1>4, <1>5 DEF Leaves

\* The end of proving does not either.
LEMMA ReadySame == Whole(Ready, Timer) /\ Same(Started, Ready)
<1> DEFINE a == Got(Started, Status("SIO"))
           b == sl_timer_stop(Proving, "t4")
<1>1. Whole(a, Timer) /\ Same(Started, a)
  BY StartedFields, StatusGot DEF Sio
<1> HIDE DEF a
<1>2. Whole(Proving, Timer) /\ Same(a, Proving)
  <2>1. Proving = Got(a, Status("SIN"))
    BY DEF Proving, a
  <2> QED
    BY <1>1, <2>1, StatusGot DEF Sio
<1>3. Whole(b, Timer) /\ Same(Proving, b)
  <2>1. SlState(b) /\ Same(Proving, b)
    <3>1. SlState(Proving)
      BY <1>2 DEF Whole, Core
    <3>2. SlState(b)
      BY <3>1, SMT DEF SlState, Fields, Timer, sl_timer_stop
    <3>3. DOMAIN Proving = Fields
      BY <3>1 DEF SlState
    <3>4. Same(Proving, b)
      BY <3>3, SMT DEF Fields, sl_timer_stop, Same
    <3> QED
      BY <3>2, <3>4
  <2>2. Link(b, Timer)
    BY <1>2, SMT DEF Whole, Core, Link, SlState, Fields, Timer, sl_timer_stop
  <2> HIDE DEF b
  <2> QED
    BY <2>1, <2>2, OnlyTyped DEF Whole
<1> HIDE DEF b
<1>4. Timer \cup {"t4"} = Timer
  BY DEF Timer
<1>5. Whole(sl_t4_expiry(b), Timer)
  BY <1>3, <1>4, T4Expiry
<1>6. Same(b, sl_t4_expiry(b))
  <2>1. SlState(b) /\ "t4" \in Timer
    BY <1>3 DEF Whole, Core, Timer
  <2>2. sl_r_pcrse(b, "t4") = sl_t4_expiry(b)
    BY DEF sl_r_pcrse
  <2> QED
    BY <2>1, <2>2, ExpirySame
<1>7. Ready = sl_t4_expiry(b)
  BY DEF Ready, b
<1>8. Started.tXfsn = Started.Xfsn
  BY StartedFields
<1> QED
  BY <1>1, <1>2, <1>3, <1>5, <1>6, <1>7 DEF Same
=============================================================================
