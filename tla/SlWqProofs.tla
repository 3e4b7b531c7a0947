----------------------------- MODULE SlWqProofs -----------------------------
(***************************************************************************)
(* Proofs about the write queue of SlWq, for every value of the constants: *)
(* its count agrees with what is on it (WriteQueueTyped), and a queue that *)
(* stands still is enabled again by the last message that leaves the       *)
(* transmission buffer (StallsEnd).                                        *)
(***************************************************************************)
EXTENDS SlWq, SlFunctionProofs

------------------------------------------------------------------------------
(***************************************************************************)
(* Functions that leave the transmission buffer, its count and the write   *)
(* queue alone.                                                            *)
(***************************************************************************)
Spares(x, y) == SlState(x) => SlState(y) /\ y.tb = x.tb /\ y.Cm = x.Cm /\ y.wqc = x.wqc

LEMMA SparesChain ==
  ASSUME NEW x, NEW y, NEW z, Spares(x, y), Spares(y, z)
  PROVE  Spares(x, z)
<1> HIDE DEF SlState
<1> QED BY DEF Spares

LEMMA SparesEarly == ASSUME NEW x PROVE Spares(x, x)
  BY DEF Spares

\* What touches no buffer spares the transmission buffer.
LEMMA LeavesSpares == ASSUME NEW x, NEW y, Leaves(x, y) PROVE Spares(x, y)
<1> HIDE DEF SlState
<1> QED BY DEF Leaves, Same, Spares

\* A function that keeps the state well typed.
LEMMA Spared ==
  ASSUME NEW x, NEW y, Keeps(x, y, Timer),
         SlState(x) => y.tb = x.tb /\ y.Cm = x.Cm /\ y.wqc = x.wqc
  PROVE  Spares(x, y)
<1> HIDE DEF SlState
<1> QED BY OnlyTyped DEF Spares, Keeps

\* An acknowledgement only frees what is in the retransmission buffer.
LEMMA AckSpares == ASSUME NEW x, NEW su \in Su PROVE Spares(x, AckReceived(x, su))
<1> DEFINE bsn == su.bsn
           bib == su.bib
           r == [x EXCEPT !.tRbsn = bsn]
           a == Acknowledged(r, bsn)
           Kept(y, z) == DOMAIN y = Fields =>
                           DOMAIN z = Fields /\ z.tb = y.tb /\ z.Cm = y.Cm /\ z.wqc = y.wqc
<1> HIDE DEF bsn, bib
<1>1. Kept(x, r)
  BY SMT DEF Fields
<1> HIDE DEF r
<1>2. Kept(r, a)
  <2> DEFINE k == (bsn + 1 - r.Ffsn) % Mod
             next == (bsn + 1) % Mod
             o == SibOver(r)
             q == Dropped(o.rtb, k)
             c == (o.Ct - k) % CtrMod
             b == [o EXCEPT !.rtb = q, !.Ct = c, !.Ffsn = next]
             d == sl_check_congestion(b)
  <2>1. Kept(r, o)
    BY SMT DEF SibOver, Fields
  <2> HIDE DEF o, q, c, next
  <2>2. Kept(o, b)
    BY SMT DEF Fields
  <2> HIDE DEF b
  <2>3. Kept(b, d)
    BY SMT DEF sl_check_congestion, Fields
  <2> HIDE DEF d
  <2>4. Kept(d, a)
    <3> DEFINE rewind == SN_OUTSIDE(next, r.Z, r.Lfsn) \/ b.rtb = <<>>
               w == IF rewind THEN (IF b.rtb = <<>> THEN 0 ELSE 1) ELSE PosAfter(d.pos, k)
               z == IF rewind THEN next ELSE d.Z
               f == IF ~PCR \/ Len(b.rtb) < N1 THEN 0 ELSE d.rtb_full
               t == IF b.rtb = <<>> THEN d.tm \ {"t7"} ELSE d.tm \cup {"t7"}
               e == [d EXCEPT !.tm = t, !.rtb_full = f, !.Z = z, !.pos = w]
    <3>1. DOMAIN d = Fields => a = e
      <4> SUFFICES ASSUME DOMAIN d = Fields PROVE a = e
        OBVIOUS
      <4>1. a = [d EXCEPT !.tm = IF b.rtb = <<>> THEN @ \ {"t7"} ELSE @ \cup {"t7"},
                          !.rtb_full = IF ~PCR \/ Len(b.rtb) < N1 THEN 0 ELSE @,
                          !.Z = IF rewind THEN next ELSE @,
                          !.pos = IF rewind THEN (IF b.rtb = <<>> THEN 0 ELSE 1)
                                  ELSE PosAfter(@, k)]
        BY DEF Acknowledged, o, q, c, next, b, d
      <4> QED
        BY <4>1, SMT DEF Fields
    <3> HIDE DEF t, f, z, w, a
    <3>2. Kept(d, e)
      BY SMT DEF Fields
    <3> QED
      BY <3>1, <3>2
  <2> HIDE DEF a, k
  <2> QED
    BY <2>1, <2>2, <2>3, <2>4
<1> HIDE DEF a
<1>3. ASSUME NEW y PROVE Kept(y, Nacked(y, bib))
  BY SMT DEF Nacked, SibOver, Fields
<1>4. ASSUME NEW y PROVE Kept(y, RtbClearedBy(y, bsn, bib))
  <2> DEFINE next == (bsn + 1) % Mod
             b == [y EXCEPT !.rtb = <<>>, !.Ct = 0]
             c == sl_check_congestion(b)
             d == [c EXCEPT !.Ffsn = next, !.Lfsn = bsn, !.Nfsn = bsn,
                            !.Nfib = bib, !.Z = next, !.pos = 0]
             e == sl_lsc_rtb_cleared(d)
             f == [e EXCEPT !.clear_rtb = 0, !.rtb_full = 0]
  <2>1. RtbClearedBy(y, bsn, bib) = f
    BY DEF RtbClearedBy
  <2> HIDE DEF next
  <2>2. Kept(y, b)
    BY SMT DEF Fields
  <2> HIDE DEF b
  <2>3. Kept(b, c)
    BY SMT DEF sl_check_congestion, Fields
  <2> HIDE DEF c
  <2>4. Kept(c, d)
    BY SMT DEF Fields
  <2> HIDE DEF d
  <2>5. Kept(d, e)
    BY SMT DEF sl_lsc_rtb_cleared, sl_txc_send_msu, Fields
  <2> HIDE DEF e
  <2>6. Kept(e, f)
    BY SMT DEF Fields
  <2> HIDE DEF f
  <2> QED
    BY <2>1, <2>2, <2>3, <2>4, <2>5, <2>6
<1> DEFINE v == sl_txc_bsnr_and_bibr(x, bsn, bib)
           n == (bsn + 1) % Mod
           w == [v EXCEPT !.rFfsn = n]
<1>5. v \in {RtbClearedBy(r, bsn, bib), Nacked(a, bib), Nacked(r, bib), a, r}
  BY DEF sl_txc_bsnr_and_bibr, a, r
<1> HIDE DEF v, n
<1>6. Kept(x, v)
  BY <1>1, <1>2, <1>3, <1>4, <1>5
<1>7. Kept(v, w)
  BY SMT DEF Fields
<1>8. AckReceived(x, su) = w
  BY DEF AckReceived, w, v, n, bsn, bib
<1> HIDE DEF w
<1>9. SlState(x) => w.tb = x.tb /\ w.Cm = x.Cm /\ w.wqc = x.wqc
  BY <1>6, <1>7 DEF SlState
<1> QED
  BY <1>8, <1>9, AckReceivedKeeps, Spared

\* A FISU or an MSU that is accepted, in sequence or not.
LEMMA AcceptedSpares ==
  ASSUME NEW x, NEW su \in Su, NEW next \in BOOLEAN, NEW own \in BOOLEAN
  PROVE  Spares(x, SuAccepted(x, su, next, own))
<1> DEFINE e == sl_lsc_fisu_msu_received(x)
           a == AckReceived(e, su)
           c == sl_rb_congestion_function(a, next, own)
           d == [c EXCEPT !.rtr = IF PCR THEN @ ELSE 1]
<1>1. \/ su.type = "MSU" /\ SuAccepted(x, su, next, own) = InSequence(c, su)
      \/ SuAccepted(x, su, next, own) \in {a, c, sl_cc_busy(d), OutOfSequence(c, su)}
  BY DEF SuAccepted
<1>2. Spares(x, e)
  BY OutageLeaves, LeavesSpares
<1> HIDE DEF e
<1>3. Spares(x, a)
  BY <1>2, AckSpares, SparesChain
<1> HIDE DEF a
<1>4. Spares(x, c)
  <2>1. Leaves(a, c)
    BY ReceptionLeaves
  <2> HIDE DEF c
  <2> QED
    BY <1>3, <2>1, LeavesSpares, SparesChain
<1> HIDE DEF c
<1>5. Spares(x, sl_cc_busy(d))
  <2>1. Spares(c, d)
    BY SMT DEF Spares, SlState, Fields, Flag
  <2> HIDE DEF d
  <2>2. Spares(d, sl_cc_busy(d))
    BY SmallLeaves, LeavesSpares
  <2> QED
    BY <1>4, <2>1, <2>2, SparesChain
<1>6. ASSUME su.type = "MSU" PROVE Spares(x, InSequence(c, su))
  <2> DEFINE f == (c.Xfsn + 1) % Mod
             q == Append(c.rb, su.pdu)
             n == (c.Cr + 1) % CtrMod
             i == [c EXCEPT !.Xfsn = f, !.rtr = IF PCR THEN @ ELSE 0, !.rb = q, !.Cr = n]
             y == InSequence(c, su)
  <2>1. SlState(c) => y.tb = c.tb /\ y.Cm = c.Cm /\ y.wqc = c.wqc
    <3> SUFFICES ASSUME SlState(c) PROVE y.tb = c.tb /\ y.Cm = c.Cm /\ y.wqc = c.wqc
      OBVIOUS
    <3>1. DOMAIN c = Fields
      BY DEF SlState
    <3>2. y \in {sl_cc_busy(i), sl_txc_fsnx_value(i)}
      BY <3>1, SMT DEF InSequence, Fields
    <3> HIDE DEF f, q, n, y, SlState
    <3>3. DOMAIN i = Fields /\ i.tb = c.tb /\ i.Cm = c.Cm /\ i.wqc = c.wqc
      BY <3>1, SMT DEF Fields
    <3> HIDE DEF i
    <3> DEFINE u == sl_cc_busy(i)
               v == sl_txc_fsnx_value(i)
    <3>4. u.tb = i.tb /\ u.Cm = i.Cm /\ u.wqc = i.wqc
      BY <3>3, SMT DEF sl_cc_busy, sl_timer_start, sl_txc_send_sib, Fields
    <3>5. v.tb = i.tb /\ v.Cm = i.Cm /\ v.wqc = i.wqc
      BY <3>3, SMT DEF sl_txc_fsnx_value, Fields
    <3>6. y \in {u, v}
      BY <3>2
    <3> HIDE DEF u, v
    <3> QED
      BY <3>3, <3>4, <3>5, <3>6
  <2> HIDE DEF y
  <2>2. Keeps(c, y, Timer)
    BY <1>6, InSequenceKeeps DEF y
  <2>3. Spares(c, y)
    BY <2>1, <2>2, Spared
  <2> QED
    BY <1>4, <2>3, SparesChain DEF y
<1>7. Spares(x, OutOfSequence(c, su))
  <2> DEFINE y == OutOfSequence(c, su)
  <2>1. SlState(c) => y.tb = c.tb /\ y.Cm = c.Cm /\ y.wqc = c.wqc
    <3> SUFFICES ASSUME SlState(c) PROVE y.tb = c.tb /\ y.Cm = c.Cm /\ y.wqc = c.wqc
      OBVIOUS
    <3>1. DOMAIN c = Fields
      BY DEF SlState
    <3> HIDE DEF SlState
    <3> QED
      BY <3>1, SMT DEF OutOfSequence, sl_cc_busy, sl_timer_start, sl_txc_send_sib,
                       sl_txc_nack_to_be_sent, Fields
  <2> HIDE DEF y
  <2>2. Keeps(c, y, Timer)
    BY OutOfSequenceKeeps DEF y
  <2>3. Spares(c, y)
    BY <2>1, <2>2, Spared
  <2> QED
    BY <1>4, <2>3, SparesChain DEF y
<1> HIDE DEF d
<1> QED
  BY <1>1, <1>3, <1>4, <1>5, <1>6, <1>7

\* Any unit that arrives.
LEMMA ReceivedSpares ==
  ASSUME NEW x, NEW su \in Su, NEW next \in BOOLEAN, NEW own \in BOOLEAN
  PROVE  Spares(x, sl_daedr_received_bits(x, su, next, own))
<1> DEFINE b == su.bsn
           r == [x EXCEPT !.rRbsn = b]
           a == [r EXCEPT !.abnormal_bsnr = 0]
           u == [r EXCEPT !.unb = 1]
           z == sl_rc_signal_unit(x, su, next, own)
<1>0. b \in Sn
  BY SuFields
<1>1. \/ su.type = "LSSU" /\ z = LssuReceived(r, su.sio)
      \/ z \in {x, AbnormalBsnr(r), u, SuAccepted(a, su, next, own), FibChecked(a, su, next, own)}
  BY DEF sl_rc_signal_unit
<1> HIDE DEF b, z
<1>2. Spares(x, r)
  BY <1>0, SMT DEF Spares, SlState, Fields
<1> HIDE DEF r
<1>3. Spares(r, a) /\ Spares(r, u)
  BY SMT DEF Spares, SlState, Fields, Flag
<1> HIDE DEF a, u
<1>4. Spares(x, a) /\ Spares(x, u)
  BY <1>2, <1>3, SparesChain
<1>5. Spares(x, AbnormalBsnr(r))
  BY <1>2, ReceptionLeaves, LeavesSpares, SparesChain
<1>6. su.type = "LSSU" => Spares(x, LssuReceived(r, su.sio))
  BY <1>2, SuFields, ReceptionLeaves, LeavesSpares, SparesChain
<1>7. Spares(x, SuAccepted(a, su, next, own))
  BY <1>4, AcceptedSpares, SparesChain
<1>8. Spares(x, FibChecked(a, su, next, own))
  <2> DEFINE c == [a EXCEPT !.abnormal_fibr = 0]
             d == [a EXCEPT !.unf = 1]
             e == [a EXCEPT !.abnormal_fibr = 1, !.unf = 0]
  <2>1. FibChecked(a, su, next, own) \in
          {d, e, SuAccepted(c, su, next, own), sl_lsc_link_failure(a), AckReceived(a, su)}
    BY DEF FibChecked
  <2>2. Spares(a, c) /\ Spares(a, d) /\ Spares(a, e)
    BY SMT DEF Spares, SlState, Fields, Flag
  <2> HIDE DEF c, d, e
  <2>3. Spares(c, SuAccepted(c, su, next, own))
    BY AcceptedSpares
  <2>4. Spares(a, sl_lsc_link_failure(a)) /\ Spares(a, AckReceived(a, su))
    BY OutLeaves, LeavesSpares, AckSpares
  <2>5. Spares(a, FibChecked(a, su, next, own))
    BY <2>1, <2>2, <2>3, <2>4, SparesChain
  <2> QED
    BY <1>4, <2>5, SparesChain
<1>9. Spares(x, z)
  BY <1>1, <1>4, <1>5, <1>6, <1>7, <1>8, SparesEarly
<1>10. Spares(x, sl_daedr_correct_su(z))
  BY <1>9, ReceptionLeaves, LeavesSpares, SparesChain
<1> QED
  BY <1>10, SparesEarly DEF sl_daedr_received_bits, z

\* No expiry touches the transmission buffer, its count or the write queue.
LEMMA ExpiryKeeps ==
  ASSUME NEW x, NEW t \in Timer, Whole(x, Timer)
  PROVE  LET y == sl_r_pcrse(sl_timer_stop(x, t), t)
         IN  Whole(y, Timer) /\ y.tb = x.tb /\ y.Cm = x.Cm /\ y.wqc = x.wqc
<1> DEFINE a == sl_timer_stop(x, t)
           y == sl_r_pcrse(a, t)
<1>1. Whole(a, Timer) /\ a.tb = x.tb /\ a.Cm = x.Cm /\ a.wqc = x.wqc
  BY SMT DEF Whole, Core, Link, SlState, Fields, Timer, IacSupervised, CcSupervised, sl_timer_stop
<1> HIDE DEF a
<1>2. Timer \cup {t} = Timer
  OBVIOUS
<1>3. Whole(y, Timer)
  BY <1>1, <1>2, Expiry
<1>4. SlState(a)
  BY <1>1 DEF Whole, Core
<1>5. Same(a, y)
  BY <1>4, ExpirySame
<1> HIDE DEF y
<1>6. y.tb = x.tb /\ y.Cm = x.Cm /\ y.wqc = x.wqc
  BY <1>1, <1>5 DEF Same
<1> QED
  BY <1>3, <1>6 DEF a, y

\* A link comes into service with nothing to send.
LEMMA InServiceEmpty ==
  Whole(InService, Timer) /\ InService.tb = <<>> /\ InService.Cm = 0 /\ InService.wqc = 0
<1> DEFINE x == Ready
           u == Fill
           free == TRUE
           y == sl_daedr_received_bits(x, u, free, free)
<1>1. Whole(x, Timer) /\ x.tb = <<>> /\ x.Cm = 0 /\ x.wqc = 0
  BY ReadySame, StartedFields DEF Same
<1>2. u \in Su
  BY AlignmentUnits
<1>3. free \in BOOLEAN
  OBVIOUS
<1>4. InService = y
  BY ComesIntoService DEF Got
<1> HIDE DEF x, u, free
<1>5. Spares(x, y) /\ Keeps(x, y, Timer)
  BY <1>2, <1>3, ReceivedSpares, ReceivedBits
<1> HIDE DEF y
<1>6. SlState(x)
  BY <1>1 DEF Whole, Core
<1>7. Whole(y, Timer)
  BY <1>1, <1>5, KeepsWhole
<1> QED
  BY <1>1, <1>4, <1>5, <1>6, <1>7 DEF Spares

------------------------------------------------------------------------------
(***************************************************************************)
(* What the requests of level 3 and the transmission of a unit do to the   *)
(* buffer.                                                                 *)
(***************************************************************************)
\* The count of the queue is known to nobody but the queue functions.
LEMMA Recounted ==
  ASSUME NEW x, NEW n \in Nat, Whole(x, Timer)
  PROVE  LET y == [x EXCEPT !.wqc = n]
         IN  Whole(y, Timer) /\ y.tb = x.tb /\ y.Cm = x.Cm /\ y.wqc = n
  BY SMT DEF Whole, Core, Link, SlState, Fields, IacSupervised, CcSupervised

\* A PDU is refused, or is one more in the buffer.
LEMMA PduBuffered ==
  ASSUME NEW x, NEW p \in Pdu, SlState(x)
  PROVE  LET y == sl_lsc_pdu(x, p)
         IN  /\ y.wqc = x.wqc
             /\ \/ y = x
                \/ ~PduRefused(x) /\ y.tb = Append(x.tb, p) /\ y.Cm = (x.Cm + 1) % CtrMod
<1> DEFINE q == Append(x.tb, p)
           n == (x.Cm + 1) % CtrMod
           a == [x EXCEPT !.tb = q, !.Cm = n]
           b == sl_check_congestion(a)
<1>1. DOMAIN x = Fields
  BY DEF SlState
<1>2. sl_lsc_pdu(x, p) = IF PduRefused(x) THEN x ELSE b
  BY DEF sl_lsc_pdu, sl_txc_message_for_transmission
<1> HIDE DEF q, n
<1>3. DOMAIN a = Fields /\ a.wqc = x.wqc /\ a.tb = q /\ a.Cm = n
  BY <1>1, SMT DEF Fields
<1> HIDE DEF a
<1>4. b.wqc = a.wqc /\ b.tb = a.tb /\ b.Cm = a.Cm
  BY <1>3, SMT DEF sl_check_congestion, Fields
<1> HIDE DEF b
<1> QED
  BY <1>2, <1>3, <1>4 DEF q, n

\* A retrieval empties the buffer, or is ignored.
LEMMA RetrievalEmpties ==
  ASSUME NEW x, NEW fsnc, SlState(x)
  PROVE  LET y == sl_lsc_retrieval_request_and_fsnc(x, fsnc)
         IN  y.wqc = x.wqc /\ (y = x \/ (y.tb = <<>> /\ y.Cm = 0))
<1> DEFINE next == (fsnc + 1) % SnMod(x)
           c == fsnc % SnMod(x)
           a == [x EXCEPT !.rtb = <<>>, !.tb = <<>>, !.rtb_full = 0, !.Cm = 0, !.Ct = 0]
           b == [a EXCEPT !.Z = next, !.Ffsn = next, !.Nfsn = c, !.Lfsn = c, !.pos = Dangling(@)]
           y == sl_lsc_retrieval_request_and_fsnc(x, fsnc)
<1>1. DOMAIN x = Fields
  BY DEF SlState
<1>2. y \in {x, sl_txc_retrieval_request_and_fsnc(x, fsnc)}
  BY DEF sl_lsc_retrieval_request_and_fsnc
<1>3. sl_txc_retrieval_request_and_fsnc(x, fsnc) = b
  BY SMT DEF sl_txc_retrieval_request_and_fsnc
<1> HIDE DEF next, c, y
<1>4. DOMAIN a = Fields /\ a.wqc = x.wqc /\ a.tb = <<>> /\ a.Cm = 0
  BY <1>1, SMT DEF Fields
<1> HIDE DEF a
<1>5. b.wqc = a.wqc /\ b.tb = a.tb /\ b.Cm = a.Cm
  BY <1>4, SMT DEF Fields
<1> HIDE DEF b
<1> QED
  BY <1>2, <1>3, <1>4, <1>5 DEF y

\* Clearing the buffers empties the buffer and the queue, or neither.
LEMMA ClearingEmpties ==
  ASSUME NEW x, SlState(x)
  PROVE  LET y == sl_lsc_clear_buffers(x)
         IN  \/ y.tb = x.tb /\ y.Cm = x.Cm /\ y.wqc = x.wqc
             \/ y.tb = <<>> /\ y.Cm = 0 /\ y.wqc = 0
<1> DEFINE Kept(a, b) == DOMAIN b = Fields /\ b.tb = a.tb /\ b.Cm = a.Cm /\ b.wqc = a.wqc
           Empty(b) == DOMAIN b = Fields /\ b.tb = <<>> /\ b.Cm = 0 /\ b.wqc = 0
           y == sl_lsc_clear_buffers(x)
           u == [x EXCEPT !.local_processor_outage = 0]
           c == sl_txc_send_fisu(sl_rc_accept_msu_fisu(sl_rc_clear_rb(u)))
           e == [c EXCEPT !.tb = <<>>, !.Cm = 0, !.wqc = 0]
           t == sl_txc_clear_rtb(sl_check_congestion(e))
           r == [sl_txc_send_fisu(x) EXCEPT !.local_processor_outage = 0, !.lsc = "ALIGNED_READY"]
           b == sl_txc_flush_buffers(x)
           f == [b EXCEPT !.l3_indication_received = 1]
           h == [sl_rc_accept_msu_fisu(sl_txc_send_msu(f)) EXCEPT
                   !.l3_indication_received = 0, !.local_processor_outage = 0, !.lsc = "IN_SERVICE"]
<1>1. DOMAIN x = Fields
  BY DEF SlState
<1>2. y \in {u, t, r, f, h, x}
  BY DEF sl_lsc_clear_buffers, sl_txc_clear_tb
<1> HIDE DEF y
<1>3. Kept(x, u) /\ Kept(x, r)
  BY <1>1, SMT DEF sl_txc_send_fisu, Fields
<1> HIDE DEF u, r
<1>4. DOMAIN c = Fields
  BY <1>3, SMT DEF sl_txc_send_fisu, sl_rc_accept_msu_fisu, sl_rc_clear_rb, Fields
<1> HIDE DEF c
<1>5. Empty(e)
  BY <1>4, SMT DEF Fields
<1> HIDE DEF e
<1>6. Empty(t)
  <2> DEFINE g == sl_check_congestion(e)
             z == [g EXCEPT !.rtb = <<>>, !.Ct = 0, !.clear_rtb = 1, !.rtb_full = 0,
                            !.pos = Dangling(@)]
  <2>1. Empty(g)
    BY <1>5, SMT DEF sl_check_congestion, Fields
  <2>2. t = sl_check_congestion(z)
    BY DEF sl_txc_clear_rtb
  <2> HIDE DEF g
  <2>3. Empty(z)
    BY <2>1, SMT DEF Fields
  <2> HIDE DEF z, t
  <2> QED
    BY <2>2, <2>3, SMT DEF sl_check_congestion, Fields
<1> HIDE DEF t
<1>7. Empty(b)
  <2> DEFINE next == (x.tRbsn + 1) % Mod
             a == [x EXCEPT !.rtb = <<>>, !.rtb_full = 0, !.Ct = 0, !.tb = <<>>, !.Cm = 0,
                            !.wqc = 0]
             d == [a EXCEPT !.pos = 0, !.Z = next, !.Ffsn = next, !.Lfsn = x.rRbsn,
                            !.Tfsn = x.rRbsn, !.tm = @ \ {"t7"}]
  <2>1. b = d
    BY SMT DEF sl_txc_flush_buffers
  <2> HIDE DEF next
  <2>2. Empty(a)
    BY <1>1, SMT DEF Fields
  <2> HIDE DEF a
  <2>3. Empty(d)
    BY <2>2, SMT DEF Fields
  <2> QED
    BY <2>1, <2>3
<1> HIDE DEF b
<1>8. Empty(f)
  BY <1>7, SMT DEF Fields
<1> HIDE DEF f
<1>9. Empty(h)
  BY <1>8, SMT DEF sl_rc_accept_msu_fisu, sl_txc_send_msu, Fields
<1> HIDE DEF h
<1> QED
  BY <1>2, <1>3, <1>6, <1>8, <1>9 DEF y

\* A restart leaves the queue alone (and resets the count of the buffer).
LEMMA StartLeavesQueue == ASSUME NEW x, SlState(x) PROVE sl_lsc_start(x).wqc = x.wqc
<1> DEFINE a == sl_rc_start(x)
           b == sl_txc_start(a)
           c == IF b.emergency = 1 THEN sl_iac_emergency(b) ELSE b
           d == sl_iac_start(c)
           e == [d EXCEPT !.lsc = "INITIAL_ALIGNMENT", !.l3 = "starting"]
<1>1. DOMAIN x = Fields
  BY DEF SlState
<1>2. sl_lsc_start(x) \in {x, e}
  BY DEF sl_lsc_start
<1>3. DOMAIN a = Fields /\ a.wqc = x.wqc
  <2> DEFINE m == IF x.ib_mask = 1 THEN Mod - 1 ELSE 0
             g == [x EXCEPT !.Xfsn = 0, !.Xfib = x.ib_mask, !.rFfsn = 0, !.Tfsn = m, !.rtr = 0]
             h == [g EXCEPT !.msu_fisu_accepted = IF ANSI THEN 1 ELSE 0,
                            !.abnormal_bsnr = 0, !.abnormal_fibr = 0,
                            !.congestion_discard = 0, !.congestion_accept = 0,
                            !.rc = "IN_SERVICE"]
  <2>1. a \in {x, h}
    BY SMT DEF sl_rc_start
  <2> HIDE DEF m
  <2>2. DOMAIN g = Fields /\ g.wqc = x.wqc
    BY <1>1, SMT DEF Fields
  <2> HIDE DEF g
  <2>3. DOMAIN h = Fields /\ h.wqc = x.wqc
    BY <2>2, SMT DEF Fields
  <2> HIDE DEF h, a
  <2> QED
    BY <1>1, <2>1, <2>3
<1> HIDE DEF a
<1>4. DOMAIN b = Fields /\ b.wqc = x.wqc
  BY <1>3, TxcStartFields
<1> HIDE DEF b
<1>5. DOMAIN c = Fields /\ c.wqc = x.wqc
  BY <1>4, SMT DEF sl_iac_emergency, Prove, sl_aerm_start, sl_aerm_set_ti_to_tie, sl_aerm_stop,
                   sl_txc_send_sie, Fields
<1> HIDE DEF c
<1>6. DOMAIN d = Fields /\ d.wqc = x.wqc
  BY <1>5, SMT DEF sl_iac_start, sl_timer_start, sl_txc_send_sio, Fields
<1> HIDE DEF d
<1>7. e.wqc = x.wqc
  BY <1>6, SMT DEF Fields
<1> HIDE DEF e
<1> QED
  BY <1>2, <1>7

\* What a unit takes from the buffer: nothing, or the first message.
LEMMA TransmissionTakes ==
  ASSUME NEW x, NEW junk, SlState(x)
  PROVE  LET y == sl_txc_transmission_request(x, junk).st
         IN  /\ y.wqc = x.wqc
             /\ \/ y.tb = x.tb /\ y.Cm = x.Cm
                \/ x.tb # <<>> /\ y.tb = Tail(x.tb) /\ y.Cm = (x.Cm - 1) % CtrMod
<1> DEFINE Kept(a, b) == DOMAIN b = Fields /\ b.tb = a.tb /\ b.Cm = a.Cm /\ b.wqc = a.wqc
           y == sl_txc_transmission_request(x, junk).st
           f == IF PCR THEN Forcing(x) ELSE x
           l == [x EXCEPT !.lssu_available = IF x.sio = "SIB" THEN 0 ELSE @, !.Nfsn = x.Lfsn]
           g == [x EXCEPT !.Nfsn = x.Lfsn]
           h == [f EXCEPT !.Nfsn = f.Lfsn]
           o == SendOld(f, junk).st
           n == SendNew(f).st
<1>1. DOMAIN x = Fields
  BY DEF SlState
<1>2. y \in {x, l, g, h, o} \/ (f.tb # <<>> /\ y = n)
  <2>1. SendLssu(x).st = l /\ SendFisu(x).st = g /\ SendFisu(f).st = h
    BY DEF SendLssu, SendFisu
  <2> HIDE DEF l, g, h, o, n
  <2>2. y \in {x, SendLssu(x).st, SendFisu(x).st, SendFisu(f).st, o} \/ (f.tb # <<>> /\ y = n)
    BY DEF sl_txc_transmission_request, o, n
  <2> QED
    BY <2>1, <2>2
<1> HIDE DEF y
<1>3. Kept(x, f)
  BY <1>1, SMT DEF Forcing, Fields
<1> HIDE DEF f
<1>4. Kept(x, l) /\ Kept(x, g) /\ Kept(x, h)
  BY <1>1, <1>3, SMT DEF Fields
<1> HIDE DEF l, g, h
<1>5. Kept(f, o)
  <2> DEFINE over == PCR /\ f.pos = 0
             a == IF over THEN [f EXCEPT !.pos = IF f.rtb = <<>> THEN 0 ELSE 1, !.Z = f.Ffsn]
                          ELSE f
             after == IF a.pos = -1 THEN junk.pos ELSE IF a.pos = Len(a.rtb) THEN 0 ELSE a.pos + 1
             fsn == IF PCR THEN a.Z ELSE (a.Nfsn + 1) % Mod
             b == [a EXCEPT !.pos = after, !.Nfsn = fsn, !.Z = IF PCR THEN (@ + 1) % Mod ELSE @,
                            !.retrans_cycle = IF fsn = a.Lfsn \/ after = 0 THEN 0 ELSE @]
  <2>1. o \in {a, b}
    BY DEF SendOld
  <2>2. Kept(f, a)
    BY <1>3, SMT DEF Fields
  <2> HIDE DEF a, after, fsn, o
  <2>3. Kept(a, b)
    BY <2>2, SMT DEF Fields
  <2> HIDE DEF b
  <2> QED
    BY <2>1, <2>2, <2>3
<1> HIDE DEF o
<1>6. n.wqc = f.wqc /\ n.tb = Tail(f.tb) /\ n.Cm = (f.Cm - 1) % CtrMod
  <2> DEFINE fsn == (f.Lfsn + 1) % Mod
             q == Append(f.rtb, Head(f.tb))
             t == Tail(f.tb)
             cm == (f.Cm - 1) % CtrMod
             ct == (f.Ct + 1) % CtrMod
             full == Len(q) >= N1
             isfull == full \/ (~PCR /\ fsn = (f.Ffsn - 2) % Mod)
             a == [f EXCEPT !.tb = t, !.rtb = q, !.Cm = cm, !.Ct = ct]
             b == [a EXCEPT
                     !.Lfsn = fsn, !.Nfsn = fsn, !.Tfsn = fsn,
                     !.tm = @ \cup (IF f.rtb = <<>> THEN {"t7"} ELSE {}),
                     !.rtb_full = IF isfull THEN 1 ELSE @,
                     !.forced_retransmission = IF PCR /\ full THEN 1 ELSE @]
  <2> HIDE DEF fsn, q, t, cm, ct, full, isfull, a, b
  <2>1. n = b
    BY <1>3, SMT DEF SendNew, b, a, isfull, full, ct, cm, t, q, fsn
  <2>2. DOMAIN a = Fields /\ a.wqc = f.wqc /\ a.tb = t /\ a.Cm = cm
    BY <1>3, SMT DEF Fields, a
  <2>3. b.wqc = a.wqc /\ b.tb = a.tb /\ b.Cm = a.Cm
    BY <2>2, SMT DEF Fields, b
  <2> QED
    BY <2>1, <2>2, <2>3 DEF t, cm
<1> HIDE DEF n
<1> QED
  BY <1>2, <1>3, <1>4, <1>5, <1>6 DEF y

\* A request keeps the private structure whole, and the count of the queue but
\* for a flush.
LEMMA HandledWhole ==
  ASSUME NEW x, NEW r \in Requests, NEW y \in Handled(x, r), Whole(x, Timer)
  PROVE  Whole(y, Timer) /\ y.wqc \in {x.wqc, 0}
<1>0. SlState(x)
  BY DEF Whole, Core
<1>1. CASE r = "PDU"
  <2>1. PICK p \in Pdu : y = sl_lsc_pdu(x, p)
    BY <1>1 DEF Handled
  <2> QED
    BY <1>0, <2>1, LscPdu, KeepsWhole, PduBuffered
<1>2. CASE r = "START"
  <2>1. y = sl_lsc_start(x)
    BY <1>2 DEF Handled
  <2> QED
    BY <1>0, <2>1, LscStart, KeepsWhole, StartLeavesQueue
<1>3. CASE r = "STOP"
  <2>1. y = sl_lsc_stop(x)
    BY <1>3 DEF Handled
  <2>2. Same(x, y)
    BY <1>0, <2>1, OutLeaves DEF Leaves
  <2> QED
    BY <2>1, <2>2, LscStop, KeepsWhole DEF Same
<1>4. CASE r = "LOCAL_PROCESSOR_OUTAGE"
  <2>1. y = sl_lsc_local_processor_outage(x)
    BY <1>4 DEF Handled
  <2>2. Same(x, y)
    BY <1>0, <2>1, OutageLeaves DEF Leaves
  <2> QED
    BY <2>1, <2>2, LocalOutage, KeepsWhole DEF Same
<1>5. CASE r = "RESUME"
  <2>1. y = sl_lsc_local_processor_recovered(x)
    BY <1>5 DEF Handled
  <2>2. Same(x, y)
    BY <1>0, <2>1, OutageLeaves DEF Leaves
  <2> QED
    BY <2>1, <2>2, LocalRecovered, KeepsWhole DEF Same
<1>6. CASE r = "CLEAR_BUFFERS"
  <2>1. y = sl_lsc_clear_buffers(x)
    BY <1>6 DEF Handled
  <2> QED
    BY <1>0, <2>1, LscClearBuffers, KeepsWhole, ClearingEmpties
<1>7. CASE r = "RETRIEVAL"
  <2>1. PICK k \in 0 .. Len(x.rtb) :
          y = sl_lsc_retrieval_request_and_fsnc(x, (x.Ffsn - 1 + k) % Mod)
    BY <1>7 DEF Handled
  <2> DEFINE fsnc == (x.Ffsn - 1 + k) % Mod
  <2>2. fsnc \in Sn
    <3>1. x.Ffsn - 1 + k \in Int
      BY <1>0, SnInt DEF SlState
    <3> QED
      BY <3>1, ModSn
  <2> HIDE DEF fsnc
  <2>3. y = sl_lsc_retrieval_request_and_fsnc(x, fsnc)
    BY <2>1 DEF fsnc
  <2> QED
    BY <1>0, <2>2, <2>3, LscRetrieval, KeepsWhole, RetrievalEmpties
<1> QED
  BY <1>1, <1>2, <1>3, <1>4, <1>5, <1>6, <1>7, WqAssumption

------------------------------------------------------------------------------
(***************************************************************************)
(* The queue: where a message is put, and that the others keep their       *)
(* order.                                                                  *)
(***************************************************************************)
Ordered(q) == \A i, j \in 1 .. Len(q) : i < j /\ q[j] \in Priority => q[i] \in Priority

\* The messages of the queue with r behind the first k.
LEMMA InsertedAt ==
  ASSUME NEW q \in Seq(Requests), NEW r \in Requests, NEW k \in 0 .. Len(q)
  PROVE  LET z == Inserted(q, r, k)
         IN  /\ z \in Seq(Requests) /\ Len(z) = Len(q) + 1
             /\ \A i \in 1 .. Len(q) + 1 :
                  z[i] = IF i <= k THEN q[i] ELSE IF i = k + 1 THEN r ELSE q[i - 1]
<1> DEFINE a == SubSeq(q, 1, k)
           b == SubSeq(q, k + 1, Len(q))
           c == a \o <<r>>
           z == c \o b
<1>1. /\ a \in Seq(Requests) /\ Len(a) = k /\ \A i \in 1..k : a[i] = q[i]
      /\ b \in Seq(Requests) /\ Len(b) = Len(q) - k
      /\ \A i \in 1 .. Len(q) - k : b[i] = q[k + i]
  BY SMT
<1> HIDE DEF a, b
<1>2. /\ c \in Seq(Requests) /\ Len(c) = k + 1 /\ c[k + 1] = r
      /\ \A i \in 1..k : c[i] = q[i]
  BY <1>1, SMT
<1> HIDE DEF c
<1>3. /\ z \in Seq(Requests) /\ Len(z) = Len(q) + 1
      /\ \A i \in 1 .. Len(q) + 1 : z[i] = IF i <= k + 1 THEN c[i] ELSE b[i - (k + 1)]
  <2>1. /\ z \in Seq(Requests) /\ Len(z) = Len(c) + Len(b)
        /\ \A i \in 1 .. Len(c) + Len(b) : z[i] = IF i <= Len(c) THEN c[i] ELSE b[i - Len(c)]
    <3>1. c \in Seq(Requests) /\ b \in Seq(Requests)
      BY <1>1, <1>2
    <3> QED
      BY <3>1, ConcatProperties
  <2>2. Len(c) + Len(b) = Len(q) + 1
    BY <1>1, <1>2, SMT
  <2> HIDE DEF z
  <2> QED
    BY <1>2, <2>1, <2>2
<1> HIDE DEF z
<1>4. ASSUME NEW i \in 1 .. Len(q) + 1
      PROVE  z[i] = IF i <= k THEN q[i] ELSE IF i = k + 1 THEN r ELSE q[i - 1]
  <2>1. CASE i <= k + 1
    BY <1>2, <1>3, <2>1, SMT
  <2>2. CASE i > k + 1
    <3> DEFINE j == i - (k + 1)
    <3>1. j \in 1 .. Len(q) - k /\ k + j = i - 1
      BY <2>2, SMT
    <3>2. z[i] = b[j]
      BY <1>3, <2>2, SMT
    <3> HIDE DEF j
    <3>3. b[j] = q[i - 1]
      BY <1>1, <3>1
    <3> QED
      BY <2>2, <3>2, <3>3, SMT
  <2> QED
    BY <2>1, <2>2, SMT
<1>5. Inserted(q, r, k) = z
  BY DEF Inserted, z, c, a, b
<1> QED
  BY <1>3, <1>4, <1>5

\* putq keeps the priority messages first, and all behind the head if it does
\* not put one in front of them.
LEMMA PutOrdered ==
  ASSUME NEW q \in Seq(Requests), NEW r \in Requests, NEW k \in 0 .. Len(q),
         Ordered(q), Place(q, r, k)
  PROVE  LET z == Inserted(q, r, k)
         IN  /\ z \in Seq(Requests) /\ Len(z) = Len(q) + 1 /\ z # <<>> /\ Ordered(z)
             /\ r \notin Priority /\ q # <<>> => Head(z) = Head(q)
<1> DEFINE z == Inserted(q, r, k)
<1>1. /\ z \in Seq(Requests) /\ Len(z) = Len(q) + 1
      /\ \A i \in 1 .. Len(q) + 1 :
           z[i] = IF i <= k THEN q[i] ELSE IF i = k + 1 THEN r ELSE q[i - 1]
  BY InsertedAt
<1> HIDE DEF z
<1>2. z # <<>>
  BY <1>1, SMT
<1>3. ASSUME NEW i \in 1 .. Len(z), NEW j \in 1 .. Len(z), i < j, z[j] \in Priority
      PROVE  z[i] \in Priority
  <2>1. CASE r \notin Priority
    <3>1. k = Len(q)
      BY <2>1 DEF Place
    <3>2. j <= k /\ i <= k /\ z[i] = q[i] /\ z[j] = q[j]
      BY <1>1, <1>3, <2>1, <3>1, SMT
    <3> QED
      BY <1>3, <3>1, <3>2, SMT DEF Ordered
  <2>2. CASE r \in Priority
    <3>1. /\ \A m \in 1..k : q[m] \in Priority
          /\ k < Len(q) => q[k + 1] \notin Priority
      BY <2>2 DEF Place
    <3>2. CASE i <= k + 1
      BY <1>1, <2>2, <3>1, <3>2, SMT
    <3>3. CASE i > k + 1
      <4>1. /\ j - 1 \in 1 .. Len(q) /\ k + 1 \in 1 .. Len(q) /\ k + 1 < j - 1 /\ k < Len(q)
            /\ z[j] = q[j - 1]
        BY <1>1, <1>3, <3>3, SMT
      <4>2. q[k + 1] \in Priority
        BY <1>3, <4>1 DEF Ordered
      <4> QED
        BY <3>1, <4>1, <4>2
    <3> QED
      BY <3>2, <3>3, SMT
  <2> QED
    BY <2>1, <2>2
<1>4. r \notin Priority /\ q # <<>> => Head(z) = Head(q)
  <2> SUFFICES ASSUME r \notin Priority, q # <<>> PROVE Head(z) = Head(q)
    OBVIOUS
  <2>1. k = Len(q) /\ 1 <= Len(q)
    BY SMT DEF Place
  <2>2. z[1] = q[1]
    BY <1>1, <2>1, SMT
  <2> QED
    BY <1>1, <1>2, <2>2, SMT
<1> QED
  BY <1>1, <1>2, <1>3, <1>4 DEF z, Ordered

\* getq takes the first message.
LEMMA GetOrdered ==
  ASSUME NEW q \in Seq(Requests), q # <<>>, Ordered(q)
  PROVE  /\ Head(q) \in Requests /\ Tail(q) \in Seq(Requests) /\ Len(Tail(q)) = Len(q) - 1
         /\ Ordered(Tail(q))
<1> DEFINE t == Tail(q)
<1>1. /\ Head(q) \in Requests /\ t \in Seq(Requests) /\ Len(t) = Len(q) - 1
      /\ \A i \in 1 .. Len(t) : t[i] = q[i + 1]
  BY SMT
<1> HIDE DEF t
<1>2. ASSUME NEW i \in 1 .. Len(t), NEW j \in 1 .. Len(t), i < j, t[j] \in Priority
      PROVE  t[i] \in Priority
  <2>1. i + 1 \in 1 .. Len(q) /\ j + 1 \in 1 .. Len(q) /\ i + 1 < j + 1
    BY <1>1, <1>2, SMT
  <2> QED
    BY <1>1, <1>2, <2>1 DEF Ordered
<1> QED
  BY <1>1, <1>2 DEF t, Ordered

------------------------------------------------------------------------------
(***************************************************************************)
(* The queue and its count.  That a timer which expires finds the link in  *)
(* order needs more of the private structure than its type (Whole).        *)
(***************************************************************************)
QInv ==
  /\ Whole(s, Timer) /\ s.wqc = Len(wq)
  /\ wq \in Seq(Requests) /\ Ordered(wq)
  /\ wantr \in BOOLEAN /\ enab \in BOOLEAN /\ serving \in BOOLEAN

\* In the beginning.
LEMMA QInit == Init => QInv
<1> SUFFICES ASSUME Init PROVE QInv
  OBVIOUS
<1>1. s = InService /\ wq = <<>> /\ wantr = TRUE /\ enab = FALSE /\ serving = FALSE
  BY DEF Init
<1>2. Whole(s, Timer) /\ s.wqc = 0
  BY <1>1, InServiceEmpty
<1>3. wq \in Seq(Requests) /\ Len(wq) = 0
  BY <1>1
<1>4. Ordered(wq)
  BY <1>3, SMT DEF Ordered
<1> QED
  BY <1>1, <1>2, <1>3, <1>4 DEF QInv

\* A message is handled, with those behind it still on the queue.
LEMMA HandleQueue ==
  ASSUME QInv, NEW r \in Requests, NEW behind \in Seq(Requests), Ordered(behind),
         Handle(r, behind)
  PROVE  /\ Whole(s', Timer) /\ s'.wqc = Len(wq') /\ wq' \in Seq(Requests) /\ Ordered(wq')
         /\ enab' \in BOOLEAN
<1> DEFINE n == Len(behind)
           x == [s EXCEPT !.wqc = n]
<1>0. n \in Nat
  OBVIOUS
<1>1. PICK y \in Handled(x, r) :
        /\ s' = y /\ wq' = (IF y.wqc = 0 THEN <<>> ELSE behind)
        /\ enab' = (enab \/ (r = "RETRIEVAL" /\ Enables(s, y)))
  BY DEF Handle
<1>2. Whole(x, Timer) /\ x.wqc = n
  BY <1>0, Recounted DEF QInv
<1> HIDE DEF x
<1>3. Whole(y, Timer) /\ y.wqc \in {x.wqc, 0}
  BY <1>2, HandledWhole
<1>4. enab' \in BOOLEAN
  BY <1>1
<1>5. s'.wqc = Len(wq') /\ wq' \in Seq(Requests) /\ Ordered(wq')
  <2>1. CASE y.wqc = 0
    <3>1. wq' = <<>>
      BY <1>1, <2>1
    <3>2. Ordered(wq')
      BY <3>1, SMT DEF Ordered
    <3> QED
      BY <1>1, <2>1, <3>1, <3>2
  <2>2. CASE y.wqc # 0
    <3>1. wq' = behind
      BY <1>1, <2>2
    <3> QED
      BY <1>1, <1>2, <1>3, <2>2, <3>1
  <2> QED
    BY <2>1, <2>2
<1> QED
  BY <1>1, <1>3, <1>4, <1>5

\* Level 3 sends a request.
LEMMA PutKeeps == ASSUME QInv, NEW r \in Requests, sl_wput(r) PROVE QInv'
<1>0. UNCHANGED <<wantr, serving>>
  BY DEF sl_wput
<1>1. CASE r \in Priority /\ wq = <<>> /\ ~serving
  <2>1. Handle(r, <<>>)
    BY <1>1 DEF sl_wput
  <2>2. <<>> \in Seq(Requests) /\ Ordered(<<>>)
    BY SMT DEF Ordered
  <2>3. /\ Whole(s', Timer) /\ s'.wqc = Len(wq') /\ wq' \in Seq(Requests) /\ Ordered(wq')
        /\ enab' \in BOOLEAN
    BY <2>1, <2>2, HandleQueue
  <2> QED
    BY <1>0, <2>3 DEF QInv
<1>2. CASE ~(r \in Priority /\ wq = <<>> /\ ~serving)
  <2> DEFINE n == Len(wq) + 1
  <2>1. putq(r) /\ s' = [s EXCEPT !.wqc = n]
    BY <1>2 DEF sl_wput
  <2>2. PICK k \in 0 .. Len(wq) : Place(wq, r, k) /\ wq' = Inserted(wq, r, k)
    BY <2>1 DEF putq
  <2>3. wq' \in Seq(Requests) /\ Len(wq') = n /\ Ordered(wq')
    BY <2>2, PutOrdered DEF QInv
  <2>4. n \in Nat
    BY SMT DEF QInv
  <2> HIDE DEF n
  <2>5. Whole(s', Timer) /\ s'.wqc = n
    BY <2>1, <2>4, Recounted DEF QInv
  <2>6. enab' \in BOOLEAN
    BY <2>1 DEF putq
  <2> QED
    BY <1>0, <2>3, <2>5, <2>6 DEF QInv
<1> QED
  BY <1>1, <1>2

\* A step of sl_wsrv.
LEMMA ServeKeeps == ASSUME QInv, sl_wsrv PROVE QInv'
<1>1. CASE Srvp \/ Drained \/ Refused
  <2>1. UNCHANGED <<s, wq>> /\ wantr' \in BOOLEAN /\ enab' \in BOOLEAN /\ serving' \in BOOLEAN
    BY <1>1 DEF Srvp, Drained, Refused, QInv
  <2> QED
    BY <2>1 DEF QInv
<1>2. CASE Served
  <2> DEFINE r == Head(wq)
             behind == Tail(wq)
  <2>1. wq # <<>> /\ Handle(r, behind) /\ wantr' = FALSE /\ serving' = serving
    BY <1>2 DEF Served
  <2>2. r \in Requests /\ behind \in Seq(Requests) /\ Ordered(behind)
    BY <2>1, GetOrdered DEF QInv
  <2> HIDE DEF r, behind
  <2>3. /\ Whole(s', Timer) /\ s'.wqc = Len(wq') /\ wq' \in Seq(Requests) /\ Ordered(wq')
        /\ enab' \in BOOLEAN
    BY <2>1, <2>2, HandleQueue
  <2> QED
    BY <2>1, <2>3 DEF QInv
<1> QED
  BY <1>1, <1>2 DEF sl_wsrv

\* The units that arrive are well formed.
LEMMA PeerUnits ==
  ASSUME SlState(s), NEW k \in 0 .. Len(s.rtb), NEW i \in Sio
  PROVE  /\ [type |-> "FISU", fsn |-> (s.Xfsn - 1) % Mod, fib |-> s.Xfib,
             bsn |-> (s.Ffsn - 1 + k) % Mod, bib |-> s.Nfib] \in Su
         /\ [type |-> "LSSU", fsn |-> (s.Xfsn - 1) % Mod, fib |-> s.Xfib,
             bsn |-> (s.Ffsn - 1) % Mod, bib |-> s.Nfib, sio |-> i] \in Su
<1> DEFINE f == (s.Xfsn - 1) % Mod
           b == (s.Ffsn - 1 + k) % Mod
           c == (s.Ffsn - 1) % Mod
<1>1. s.Xfsn \in Sn /\ s.Ffsn \in Sn /\ s.Xfib \in Flag /\ s.Nfib \in Flag
  BY DEF SlState
<1>2. s.Ffsn - 1 + k \in Int
  BY <1>1, SnInt
<1>3. f \in Sn /\ b \in Sn /\ c \in Sn
  BY <1>1, <1>2, ModSn, Neighbours
<1> HIDE DEF f, b, c
<1>4. /\ [type |-> "FISU", fsn |-> f, fib |-> s.Xfib, bsn |-> b, bib |-> s.Nfib] \in Su
      /\ [type |-> "LSSU", fsn |-> f, fib |-> s.Xfib, bsn |-> c, bib |-> s.Nfib, sio |-> i] \in Su
  BY <1>1, <1>3, SMT DEF Su, Fisu, Lssu, Msu
<1> QED
  BY <1>4 DEF f, b, c

\* A unit arrives.
LEMMA ArrivalKeeps ==
  ASSUME Whole(s, Timer), NEW u \in Su, s' = sl_daedr_received_bits(s, u, TRUE, TRUE)
  PROVE  Whole(s', Timer) /\ s'.tb = s.tb /\ s'.Cm = s.Cm /\ s'.wqc = s.wqc
<1> DEFINE free == TRUE
           y == sl_daedr_received_bits(s, u, free, free)
<1>1. free \in BOOLEAN /\ s' = y
  OBVIOUS
<1> HIDE DEF free
<1>2. Spares(s, y) /\ Keeps(s, y, Timer)
  BY <1>1, ReceivedSpares, ReceivedBits
<1> HIDE DEF y
<1>3. SlState(s)
  BY DEF Whole, Core
<1>4. Whole(y, Timer)
  BY <1>2, KeepsWhole
<1> QED
  BY <1>1, <1>2, <1>3, <1>4 DEF Spares

\* What arrives or expires leaves the queue and the buffer alone.
LEMMA LinkSpares ==
  ASSUME QInv,
         \/ \E k \in 0 .. Len(s.rtb) : Acknowledge(k)
         \/ \E i \in PeerSios : PeerStatus(i)
         \/ \E t \in Expiring : Expire(t)
  PROVE  /\ Whole(s', Timer) /\ s'.tb = s.tb /\ s'.Cm = s.Cm /\ s'.wqc = s.wqc
         /\ UNCHANGED <<wq, wantr, enab, serving>>
<1>0. Whole(s, Timer) /\ SlState(s)
  BY DEF QInv, Whole, Core
<1>1. ASSUME NEW k \in 0 .. Len(s.rtb), Acknowledge(k)
      PROVE  /\ Whole(s', Timer) /\ s'.tb = s.tb /\ s'.Cm = s.Cm /\ s'.wqc = s.wqc
             /\ UNCHANGED <<wq, wantr, enab, serving>>
  <2> DEFINE u == [type |-> "FISU", fsn |-> (s.Xfsn - 1) % Mod, fib |-> s.Xfib,
                   bsn |-> (s.Ffsn - 1 + k) % Mod, bib |-> s.Nfib]
  <2>1. u \in Su
    <3>1. "SIO" \in Sio
      BY DEF Sio
    <3> QED
      BY <1>0, <3>1, PeerUnits
  <2>2. s' = sl_daedr_received_bits(s, u, TRUE, TRUE) /\ UNCHANGED <<wq, wantr, enab, serving>>
    BY <1>1 DEF Acknowledge, Acked
  <2> HIDE DEF u
  <2> QED
    BY <1>0, <2>1, <2>2, ArrivalKeeps
<1>2. ASSUME NEW i \in PeerSios, PeerStatus(i)
      PROVE  /\ Whole(s', Timer) /\ s'.tb = s.tb /\ s'.Cm = s.Cm /\ s'.wqc = s.wqc
             /\ UNCHANGED <<wq, wantr, enab, serving>>
  <2> DEFINE u == [type |-> "LSSU", fsn |-> (s.Xfsn - 1) % Mod, fib |-> s.Xfib,
                   bsn |-> (s.Ffsn - 1) % Mod, bib |-> s.Nfib, sio |-> i]
  <2>1. u \in Su
    <3>1. i \in Sio
      BY WqAssumption
    <3>2. s.rtb \in Seq(Pdu)
      BY <1>0 DEF SlState
    <3>3. 0 \in 0 .. Len(s.rtb)
      BY <3>2, SMT
    <3> QED
      BY <1>0, <3>1, <3>3, PeerUnits
  <2>2. s' = sl_daedr_received_bits(s, u, TRUE, TRUE) /\ UNCHANGED <<wq, wantr, enab, serving>>
    BY <1>2 DEF PeerStatus
  <2> HIDE DEF u
  <2> QED
    BY <1>0, <2>1, <2>2, ArrivalKeeps
<1>3. ASSUME NEW t \in Expiring, Expire(t)
      PROVE  /\ Whole(s', Timer) /\ s'.tb = s.tb /\ s'.Cm = s.Cm /\ s'.wqc = s.wqc
             /\ UNCHANGED <<wq, wantr, enab, serving>>
  <2>1. t \in Timer
    BY WqAssumption
  <2>2. s' = sl_r_pcrse(sl_timer_stop(s, t), t) /\ UNCHANGED <<wq, wantr, enab, serving>>
    BY <1>3 DEF Expire
  <2> QED
    BY <1>0, <2>1, <2>2, ExpiryKeeps
<1> QED
  BY <1>1, <1>2, <1>3

\* The transmitter takes what it sends from the buffer.
LEMMA TransmitTakes ==
  ASSUME QInv, Transmit
  PROVE  /\ Whole(s', Timer) /\ s'.wqc = s.wqc
         /\ enab' = (enab \/ Enables(s, s')) /\ enab' \in BOOLEAN
         /\ UNCHANGED <<wq, wantr, serving>>
         /\ \/ s'.tb = s.tb /\ s'.Cm = s.Cm
            \/ s.tb # <<>> /\ s'.tb = Tail(s.tb) /\ s'.Cm = (s.Cm - 1) % CtrMod
<1>1. Whole(s, Timer) /\ SlState(s)
  BY DEF QInv, Whole, Core
<1>2. PICK junk \in (IF s.pos = -1 THEN Junk ELSE {NoJunk}) :
        /\ s' = sl_txc_transmission_request(s, junk).st
        /\ enab' = (enab \/ Enables(s, s'))
  BY DEF Transmit
<1>3. junk.pos \in {-1, 0}
  BY DEF Junk, NoJunk
<1>4. Keeps(s, s', Timer)
  BY <1>2, <1>3, TransmissionRequest
<1>5. Whole(s', Timer)
  BY <1>1, <1>4, KeepsWhole
<1>6. enab' \in BOOLEAN
  BY <1>2
<1>7. UNCHANGED <<wq, wantr, serving>>
  BY DEF Transmit
<1> QED
  BY <1>1, <1>2, <1>5, <1>6, <1>7, TransmissionTakes

\* Every step keeps the queue, its order and its count.
LEMMA QStep == QInv /\ [Next]_vars => QInv'
<1> SUFFICES ASSUME QInv, [Next]_vars PROVE QInv'
  OBVIOUS
<1>1. ASSUME NEW r \in Requests, sl_wput(r) PROVE QInv'
  BY <1>1, PutKeeps
<1>2. CASE sl_wsrv
  BY <1>2, ServeKeeps
<1>3. CASE Transmit
  BY <1>3, TransmitTakes DEF QInv
<1>4. CASE \/ \E k \in 0 .. Len(s.rtb) : Acknowledge(k)
           \/ \E i \in PeerSios : PeerStatus(i)
           \/ \E t \in Expiring : Expire(t)
  BY <1>4, LinkSpares DEF QInv
<1>5. CASE UNCHANGED vars
  BY <1>5 DEF vars, QInv
<1> QED
  BY <1>1, <1>2, <1>3, <1>4, <1>5 DEF Next

\* The count that the queue functions keep (q_count) is the number of messages
\* on the queue, whatever is put, taken, put back or flushed, and the priority
\* messages stand before the others.
THEOREM WriteQueueTyped == Spec => []TypeOK
<1>1. QInv => TypeOK
  BY DEF QInv, TypeOK, Ordered, Whole, Core
<1> QED
  BY <1>1, QInit, QStep, PTL DEF Spec

------------------------------------------------------------------------------
(***************************************************************************)
(* Stalls.  Cm counts the transmission buffer as long as the link is not   *)
(* restarted (sl_txc_start resets Cm and keeps the buffer) and as long as  *)
(* it does not wrap: the buffer holds at most one message more than its    *)
(* bound, which the counter has to hold too.  A queue that getq found      *)
(* empty is enabled by the next message; one that is not empty and that    *)
(* nobody will serve was left behind a PDU that was refused, so there is   *)
(* something in the transmission buffer, whose last message enables it.    *)
(***************************************************************************)
Unrestarted == "START" \notin Requests
CounterHolds == TbMax + 1 < CtrMod

Counted(x) == x.Cm = Len(x.tb) /\ Len(x.tb) <= TbMax + 1

SInv ==
  /\ QInv
  /\ Counted(s)
  /\ wq = <<>> /\ ~serving => wantr
  /\ wq # <<>> /\ ~enab /\ ~serving => Head(wq) = "PDU" /\ s.tb # <<>>

\* A count below the modulus is what the counter holds.
LEMMA CtrSmall == ASSUME NEW n \in Nat, n < CtrMod PROVE n % CtrMod = n
  BY NumberAssumption, SMT

\* An empty buffer is counted.
LEMMA EmptyCounted == ASSUME NEW x, x.tb = <<>>, x.Cm = 0 PROVE Counted(x)
  BY NumberAssumption, SMT DEF Counted

\* A request other than START keeps the count of the buffer.
LEMMA HandledCounted ==
  ASSUME Unrestarted, CounterHolds,
         NEW x, NEW r \in Requests, NEW y \in Handled(x, r), Whole(x, Timer), Counted(x)
  PROVE  Counted(y)
<1>0. SlState(x) /\ x.tb \in Seq(Pdu)
  BY DEF Whole, Core, SlState
<1>1. CASE r = "PDU"
  <2>1. PICK p \in Pdu : y = sl_lsc_pdu(x, p)
    BY <1>1 DEF Handled
  <2>2. CASE y = x
    BY <2>2
  <2>3. CASE ~PduRefused(x) /\ y.tb = Append(x.tb, p) /\ y.Cm = (x.Cm + 1) % CtrMod
    <3> DEFINE n == x.Cm + 1
    <3>1. n = Len(x.tb) + 1 /\ n \in Nat /\ n <= TbMax + 1 /\ n < CtrMod
      BY <1>0, <2>3, NumberAssumption, SMT DEF Counted, PduRefused, CounterHolds
    <3>2. Len(y.tb) = Len(x.tb) + 1
      BY <1>0, <2>3, SMT
    <3> HIDE DEF n
    <3>3. y.Cm = n % CtrMod
      BY <2>3 DEF n
    <3> QED
      BY <3>1, <3>2, <3>3, CtrSmall DEF Counted
  <2> QED
    BY <1>0, <2>1, <2>2, <2>3, PduBuffered
<1>2. CASE r = "STOP"
  <2>1. y = sl_lsc_stop(x)
    BY <1>2 DEF Handled
  <2>2. Same(x, y)
    BY <1>0, <2>1, OutLeaves DEF Leaves
  <2> QED
    BY <2>2 DEF Same, Counted
<1>3. CASE r = "LOCAL_PROCESSOR_OUTAGE"
  <2>1. y = sl_lsc_local_processor_outage(x)
    BY <1>3 DEF Handled
  <2>2. Same(x, y)
    BY <1>0, <2>1, OutageLeaves DEF Leaves
  <2> QED
    BY <2>2 DEF Same, Counted
<1>4. CASE r = "RESUME"
  <2>1. y = sl_lsc_local_processor_recovered(x)
    BY <1>4 DEF Handled
  <2>2. Same(x, y)
    BY <1>0, <2>1, OutageLeaves DEF Leaves
  <2> QED
    BY <2>2 DEF Same, Counted
<1>5. CASE r = "CLEAR_BUFFERS"
  <2>1. y = sl_lsc_clear_buffers(x)
    BY <1>5 DEF Handled
  <2>2. (y.tb = x.tb /\ y.Cm = x.Cm) \/ (y.tb = <<>> /\ y.Cm = 0)
    BY <1>0, <2>1, ClearingEmpties
  <2>3. y.tb = x.tb /\ y.Cm = x.Cm => Counted(y)
    BY DEF Counted
  <2> QED
    BY <2>2, <2>3, EmptyCounted
<1>6. CASE r = "RETRIEVAL"
  <2>1. PICK k \in 0 .. Len(x.rtb) :
          y = sl_lsc_retrieval_request_and_fsnc(x, (x.Ffsn - 1 + k) % Mod)
    BY <1>6 DEF Handled
  <2>2. y = x \/ (y.tb = <<>> /\ y.Cm = 0)
    BY <1>0, <2>1, RetrievalEmpties
  <2> QED
    BY <2>2, EmptyCounted
<1> QED
  BY <1>1, <1>2, <1>3, <1>4, <1>5, <1>6, WqAssumption DEF Unrestarted

\* The handler of a request keeps the count.
LEMMA HandleCounted ==
  ASSUME Unrestarted, CounterHolds, Whole(s, Timer), Counted(s),
         NEW r \in Requests, NEW behind \in Seq(Requests), Handle(r, behind)
  PROVE  Counted(s') /\ wq' \in {<<>>, behind}
<1> DEFINE n == Len(behind)
           x == [s EXCEPT !.wqc = n]
<1>0. n \in Nat
  OBVIOUS
<1>1. PICK y \in Handled(x, r) : s' = y /\ wq' = (IF y.wqc = 0 THEN <<>> ELSE behind)
  BY DEF Handle
<1> HIDE DEF n
<1>2. Whole(x, Timer) /\ x.tb = s.tb /\ x.Cm = s.Cm
  BY <1>0, Recounted
<1> HIDE DEF x
<1>3. Counted(x)
  BY <1>2 DEF Counted
<1>4. Counted(y)
  BY <1>2, <1>3, HandledCounted
<1> QED
  BY <1>1, <1>4

\* A request that finds the queue empty enables it, or is handled at once.
LEMMA PutStalls ==
  ASSUME Unrestarted, CounterHolds, SInv, NEW r \in Requests, sl_wput(r)
  PROVE  /\ Counted(s')
         /\ wq' = <<>> /\ ~serving' => wantr'
         /\ wq' # <<>> /\ ~enab' /\ ~serving' => Head(wq') = "PDU" /\ s'.tb # <<>>
<1>0. UNCHANGED <<wantr, serving>> /\ Whole(s, Timer) /\ Counted(s)
  BY DEF sl_wput, SInv, QInv
<1>1. CASE r \in Priority /\ wq = <<>> /\ ~serving
  <2>1. Handle(r, <<>>)
    BY <1>1 DEF sl_wput
  <2>2. Counted(s') /\ wq' = <<>>
    <3>1. <<>> \in Seq(Requests)
      OBVIOUS
    <3>2. Counted(s') /\ wq' \in {<<>>, <<>>}
      BY <1>0, <2>1, <3>1, HandleCounted
    <3> QED
      BY <3>2
  <2> QED
    BY <1>0, <1>1, <2>2 DEF SInv
<1>2. CASE ~(r \in Priority /\ wq = <<>> /\ ~serving)
  <2> DEFINE n == Len(wq) + 1
  <2>1. putq(r) /\ s' = [s EXCEPT !.wqc = n]
    BY <1>2 DEF sl_wput
  <2>2. PICK k \in 0 .. Len(wq) : Place(wq, r, k) /\ wq' = Inserted(wq, r, k)
    BY <2>1 DEF putq
  <2>3. wq' # <<>> /\ (r \notin Priority /\ wq # <<>> => Head(wq') = Head(wq))
    BY <2>2, PutOrdered DEF SInv, QInv
  <2>4. n \in Nat
    BY SMT DEF SInv, QInv
  <2> HIDE DEF n
  <2>5. s'.tb = s.tb /\ s'.Cm = s.Cm
    BY <1>0, <2>1, <2>4, Recounted
  <2>6. ~enab' => ~enab /\ r \notin Priority /\ ~(wq = <<>> /\ wantr)
    BY <2>1 DEF putq
  <2>7. Counted(s')
    BY <1>0, <2>5 DEF Counted
  <2>8. ~enab' /\ ~serving' => Head(wq') = "PDU" /\ s'.tb # <<>>
    BY <1>0, <2>3, <2>5, <2>6 DEF SInv
  <2> QED
    BY <2>3, <2>7, <2>8
<1> QED
  BY <1>1, <1>2

\* sl_wsrv stops when the queue is empty, or at a PDU that finds no room.
LEMMA ServeStalls ==
  ASSUME Unrestarted, CounterHolds, SInv, sl_wsrv
  PROVE  /\ Counted(s')
         /\ wq' = <<>> /\ ~serving' => wantr'
         /\ wq' # <<>> /\ ~enab' /\ ~serving' => Head(wq') = "PDU" /\ s'.tb # <<>>
<1>0. Whole(s, Timer) /\ Counted(s) /\ s.tb \in Seq(Pdu)
  BY DEF SInv, QInv, Whole, Core, SlState
<1>1. CASE Srvp
  BY <1>0, <1>1 DEF Srvp
<1>2. CASE Drained
  BY <1>0, <1>2 DEF Drained
<1>3. CASE Refused
  <2>1. s.tb # <<>>
    <3>1. Len(s.tb) > TbMax
      BY <1>3 DEF Refused, PduRefused
    <3> QED
      BY <1>0, <3>1, NumberAssumption, SMT
  <2> QED
    BY <1>0, <1>3, <2>1 DEF Refused
<1>4. CASE Served
  <2> DEFINE r == Head(wq)
             behind == Tail(wq)
  <2>1. wq # <<>> /\ Handle(r, behind) /\ serving /\ serving' = serving
    BY <1>4 DEF Served
  <2>2. r \in Requests /\ behind \in Seq(Requests)
    BY <2>1, GetOrdered DEF SInv, QInv
  <2> HIDE DEF r, behind
  <2>3. Counted(s')
    BY <1>0, <2>1, <2>2, HandleCounted
  <2> QED
    BY <2>1, <2>3
<1> QED
  BY <1>1, <1>2, <1>3, <1>4 DEF sl_wsrv

\* The last message that leaves the buffer enables the queue.
LEMMA TransmitStalls ==
  ASSUME CounterHolds, SInv, Transmit
  PROVE  /\ Counted(s')
         /\ wq' = <<>> /\ ~serving' => wantr'
         /\ wq' # <<>> /\ ~enab' /\ ~serving' => Head(wq') = "PDU" /\ s'.tb # <<>>
<1>0. QInv /\ Counted(s) /\ s.tb \in Seq(Pdu)
  BY DEF SInv, QInv, Whole, Core, SlState
<1>1. /\ enab' = (enab \/ Enables(s, s')) /\ UNCHANGED <<wq, wantr, serving>>
      /\ \/ s'.tb = s.tb /\ s'.Cm = s.Cm
         \/ s.tb # <<>> /\ s'.tb = Tail(s.tb) /\ s'.Cm = (s.Cm - 1) % CtrMod
  BY <1>0, TransmitTakes
<1>2. ~enab' => ~enab /\ ~Enables(s, s')
  BY <1>1
<1>3. CASE s'.tb = s.tb /\ s'.Cm = s.Cm
  BY <1>0, <1>1, <1>2, <1>3 DEF SInv, Counted
<1>4. CASE s.tb # <<>> /\ s'.tb = Tail(s.tb) /\ s'.Cm = (s.Cm - 1) % CtrMod
  <2> DEFINE n == s.Cm - 1
  <2>1. n \in Nat /\ n < CtrMod /\ n = Len(s.tb) - 1 /\ n <= TbMax + 1
    BY <1>0, <1>4, NumberAssumption, SMT DEF Counted, CounterHolds
  <2>2. Len(s'.tb) = Len(s.tb) - 1 /\ s'.tb \in Seq(Pdu)
    BY <1>0, <1>4, SMT
  <2> HIDE DEF n
  <2>3. s'.Cm = n
    <3>1. s'.Cm = n % CtrMod
      BY <1>4 DEF n
    <3> QED
      BY <2>1, <3>1, CtrSmall
  <2>4. Counted(s')
    BY <2>1, <2>2, <2>3 DEF Counted
  <2>5. s'.tb = <<>> => Enables(s, s')
    <3> SUFFICES ASSUME s'.tb = <<>> PROVE Enables(s, s')
      OBVIOUS
    <3>1. n = 0 /\ 1 \in 1 .. Len(s.tb) - Len(s'.tb)
      BY <1>0, <2>1, <2>2, SMT
    <3>2. (s.Cm - 1) % CtrMod = 0
      BY <1>4, <2>3, <3>1
    <3> QED
      BY <3>1, <3>2 DEF Enables
  <2> QED
    BY <1>1, <1>2, <2>4, <2>5 DEF SInv
<1> QED
  BY <1>1, <1>3, <1>4

\* In the beginning nothing is in the buffer and the queue waits for a message.
LEMMA SInit == Init => SInv
<1> SUFFICES ASSUME Init PROVE SInv
  OBVIOUS
<1>1. s = InService /\ wq = <<>> /\ wantr = TRUE
  BY DEF Init
<1>2. Counted(s)
  BY <1>1, InServiceEmpty, EmptyCounted
<1> QED
  BY <1>1, <1>2, QInit DEF SInv

\* No step leaves a queue behind that nobody will enable.
LEMMA SStep == ASSUME Unrestarted, CounterHolds PROVE SInv /\ [Next]_vars => SInv'
<1> SUFFICES ASSUME SInv, [Next]_vars PROVE SInv'
  OBVIOUS
<1>0. QInv /\ QInv'
  BY QStep DEF SInv
<1>1. ASSUME NEW r \in Requests, sl_wput(r) PROVE SInv'
  BY <1>0, <1>1, PutStalls DEF SInv
<1>2. CASE sl_wsrv
  BY <1>0, <1>2, ServeStalls DEF SInv
<1>3. CASE Transmit
  BY <1>0, <1>3, TransmitStalls DEF SInv
<1>4. CASE \/ \E k \in 0 .. Len(s.rtb) : Acknowledge(k)
           \/ \E i \in PeerSios : PeerStatus(i)
           \/ \E t \in Expiring : Expire(t)
  BY <1>0, <1>4, LinkSpares DEF SInv, Counted
<1>5. CASE UNCHANGED vars
  BY <1>5, <1>0 DEF vars, SInv, Counted
<1> QED
  BY <1>1, <1>2, <1>3, <1>4, <1>5 DEF Next

\* A queue that nobody is about to serve waits behind a PDU, there is something
\* in the transmission buffer, and the counter whose zero enables the queue
\* counts it: for every length of the queue, bound of the buffer and mixture of
\* requests without a restart, provided the counter holds the bound.
THEOREM StallsEnd == Unrestarted /\ CounterHolds => (Spec => []StallEnds)
<1> SUFFICES ASSUME Unrestarted, CounterHolds PROVE Spec => []StallEnds
  OBVIOUS
<1>1. SInv /\ [Next]_vars => SInv'
  BY SStep
<1>2. SInv => StallEnds
  BY DEF SInv, StallEnds, Counted
<1> QED
  BY <1>1, <1>2, SInit, PTL DEF Spec
=============================================================================
