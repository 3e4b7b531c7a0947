------------------------------- MODULE SlTxc -------------------------------
(***************************************************************************)
(* Transmission control (TXC) of sl_tpi.c: what the terminal sends, the    *)
(* transmission and retransmission buffers, acknowledgements, retrieval    *)
(* and the transmit congestion status.                                     *)
(***************************************************************************)
EXTENDS SlBase

\* sl_check_congestion: the level rises one threshold after the other,
\* and only past a discard threshold does it look at the next onset.
Risen(occ, c, d) ==
  LET l1 == IF c = 0
            THEN IF occ < TbOnset[1] THEN <<0, d>>
                 ELSE IF occ < TbDiscd[1] THEN <<1, d>> ELSE <<1, 1>>
            ELSE <<c, d>>
      on2 == MPLEV /\ (c = 1 \/ (c = 0 /\ occ >= TbOnset[1] /\ occ >= TbDiscd[1]))
      l2 == IF on2 /\ occ >= TbOnset[2]
            THEN IF occ < TbDiscd[2] THEN <<2, l1[2]>> ELSE <<2, 2>>
            ELSE l1
      on3 == MPLEV /\ (c = 2 \/ (on2 /\ occ >= TbOnset[2] /\ occ >= TbDiscd[2]))
  IN  IF on3 /\ occ >= TbOnset[3]
      THEN IF occ < TbDiscd[3] THEN <<3, l2[2]>> ELSE <<3, 3>>
      ELSE l2

\* Mutant of Fallen: one level at a time, however far the occupancy fell.
FallenByOne(occ, c) == IF occ >= TbAbate[c] THEN c ELSE c - 1

\* It falls to the highest level whose abatement threshold it has not passed.
Fallen(occ, c) ==
  IF c = 3 /\ occ >= TbAbate[3] THEN 3
  ELSE IF c >= 2 /\ occ >= TbAbate[2] THEN 2
  ELSE IF occ >= TbAbate[1] THEN 1 ELSE 0

CongestionLevels(occ, c, d) ==
  IF c \in {2, 3} /\ ~MPLEV THEN <<1, 1>>
  ELSE IF c # 0 /\ Fallen(occ, c) < c THEN <<Fallen(occ, c), Fallen(occ, c)>>
  ELSE Risen(occ, c, d)

sl_check_congestion(s) ==
  LET new == CongestionLevels(s.wqc + Len(s.tb) + Len(s.rtb), s.cong_status, s.disc_status)
  IN  [s EXCEPT !.cong_status = new[1], !.disc_status = new[2]]

\* What the transmitter sends from now on.
sl_txc_send_sios(s) ==
  [s EXCEPT !.tm = @ \ (IF ANSI THEN {"t6", "t7"} ELSE {"t7"}),
            !.lssu_available = 1, !.sio = "SIOS"]

\* Mutant of sl_txc_send_sipo: the status unit is not made available.
sl_txc_send_sipo_Unavailable(s) ==
  [s EXCEPT !.tm = @ \ (IF ANSI THEN {"t6", "t7"} ELSE {"t7"}), !.sio = "SIPO"]

sl_txc_send_sipo(s) ==
  [s EXCEPT !.tm = @ \ (IF ANSI THEN {"t6", "t7"} ELSE {"t7"}),
            !.lssu_available = 1, !.sio = "SIPO"]

sl_txc_send_sib(s) == [s EXCEPT !.lssu_available = 1, !.sio = "SIB"]
sl_txc_send_sio(s) == [s EXCEPT !.lssu_available = 1, !.sio = "SIO"]
sl_txc_send_sin(s) == [s EXCEPT !.lssu_available = 1, !.sio = "SIN"]
sl_txc_send_sie(s) == [s EXCEPT !.lssu_available = 1, !.sio = "SIE"]

\* Mutants of sl_txc_send_msu: T7 is not restarted; the status unit stays.
sl_txc_send_msu_NoT7(s) == [s EXCEPT !.msu_inhibited = 0, !.lssu_available = 0]
sl_txc_send_msu_Lssu(s) ==
  [s EXCEPT !.tm = @ \cup (IF s.rtb # <<>> THEN {"t7"} ELSE {}), !.msu_inhibited = 0]

sl_txc_send_msu(s) ==
  [s EXCEPT !.tm = @ \cup (IF s.rtb # <<>> THEN {"t7"} ELSE {}),
            !.msu_inhibited = 0, !.lssu_available = 0]

sl_txc_send_fisu(s) ==
  [s EXCEPT !.tm = @ \ (IF ANSI /\ ~PCR THEN {"t6", "t7"} ELSE {"t7"}),
            !.msu_inhibited = 1, !.lssu_available = 0]

sl_txc_fsnx_value(s) == [s EXCEPT !.tXfsn = s.Xfsn]

\* N.bib ? 0 : ib_mask, as sl_rc_signal_unit also toggles X.fib
Toggled(s, b) == IF b = 0 THEN s.ib_mask ELSE 0

sl_txc_nack_to_be_sent(s) == [s EXCEPT !.Nbib = Toggled(s, @)]

\* ANSI: the first acknowledgement after a clearing of the buffer resumes traffic.
sl_lsc_rtb_cleared(s) ==
  IF s.lsc # "PROCESSOR_OUTAGE" THEN s
  ELSE IF s.local_processor_outage = 1 THEN [s EXCEPT !.remote_processor_outage = 0]
  ELSE [sl_txc_send_msu(s) EXCEPT !.remote_processor_outage = 0, !.lsc = "IN_SERVICE"]

\* The retransmission buffer without its first k messages, and where
\* z_ptr then points.
Dropped(q, k) == SubSeq(q, k + 1, Len(q))
PosAfter(p, k) == IF p = 0 THEN 0 ELSE IF p > k THEN p - k ELSE -1

(***************************************************************************)
(* sl_txc_bsnr_and_bibr: a received BSN acknowledges messages of rtb, a    *)
(* received BIB that differs from the FIB asks for a retransmission.       *)
(***************************************************************************)
RtbClearedBy(s, bsn, bib) ==
  LET next == (bsn + 1) % Mod
      a == sl_check_congestion([s EXCEPT !.rtb = <<>>, !.Ct = 0])
      b == sl_lsc_rtb_cleared([a EXCEPT !.Ffsn = next, !.Lfsn = bsn, !.Nfsn = bsn,
                                        !.Nfib = bib, !.Z = next, !.pos = 0])
  IN  [b EXCEPT !.clear_rtb = 0, !.rtb_full = 0]

\* sib_received is cleared, and t6 stopped, by any sign of progress.
SibOver(s) ==
  [s EXCEPT !.sib_received = 0, !.tm = @ \ (IF s.sib_received = 1 THEN {"t6"} ELSE {})]

\* The loop that frees the acknowledged messages: it runs to the BSN even
\* when the buffer is empty before that.
Acknowledged(s, bsn) ==
  LET k == (bsn + 1 - s.Ffsn) % Mod
      next == (bsn + 1) % Mod
      a == [SibOver(s) EXCEPT !.rtb = Dropped(@, k), !.Ct = (@ - k) % CtrMod, !.Ffsn = next]
      rewind == SN_OUTSIDE(next, s.Z, s.Lfsn) \/ a.rtb = <<>>
  IN  [sl_check_congestion(a) EXCEPT
        !.tm = IF a.rtb = <<>> THEN @ \ {"t7"} ELSE @ \cup {"t7"},
        !.rtb_full = IF ~PCR \/ Len(a.rtb) < N1 THEN 0 ELSE @,
        !.Z = IF rewind THEN next ELSE @,
        !.pos = IF rewind THEN (IF a.rtb = <<>> THEN 0 ELSE 1) ELSE PosAfter(@, k)]

\* Mutant of Nacked: F.fsn - 1 without the sequence number mask.
NackedUnmasked(s, bib) ==
  [SibOver(s) EXCEPT
     !.Nfib = bib, !.Nfsn = s.Ffsn - 1,
     !.pos = IF s.rtb = <<>> THEN 0 ELSE 1,
     !.retrans_cycle = IF s.rtb = <<>> THEN @ ELSE 1]

\* Basic procedure only: go back to the first message not acknowledged.
Nacked(s, bib) ==
  [SibOver(s) EXCEPT
     !.Nfib = bib, !.Nfsn = (s.Ffsn - 1) % Mod,
     !.pos = IF s.rtb = <<>> THEN 0 ELSE 1,
     !.retrans_cycle = IF s.rtb = <<>> THEN @ ELSE 1]

sl_txc_bsnr_and_bibr(s0, bsn, bib) ==
  LET s == [s0 EXCEPT !.tRbsn = bsn]
      a == IF s.Ffsn # (bsn + 1) % Mod THEN Acknowledged(s, bsn) ELSE s
  IN  IF s.clear_rtb = 1 THEN RtbClearedBy(s, bsn, bib)
      ELSE IF ~PCR /\ a.Nfib # bib THEN Nacked(a, bib) ELSE a

sl_txc_sib_received(s) ==
  IF \/ ANSI /\ s.lssu_available = 1 /\ s.sio # "SIB"
     \/ PVAR # "ITUT_93" /\ s.rtb = <<>>
  THEN s
  ELSE [s EXCEPT !.tm = @ \cup (IF s.sib_received = 0 THEN {"t6", "t7"} ELSE {"t7"}),
                 !.sib_received = 1]

\* A pointer into a buffer whose messages were freed or given away.
Dangling(p) == IF p = 0 THEN 0 ELSE -1

sl_txc_clear_rtb(s) ==
  sl_check_congestion([s EXCEPT !.rtb = <<>>, !.Ct = 0, !.clear_rtb = 1, !.rtb_full = 0,
                                !.pos = Dangling(@)])

\* flushq(wq, FLUSHDATA) throws away whatever level 3 still has on the queue.
sl_txc_clear_tb(s) == sl_check_congestion([s EXCEPT !.tb = <<>>, !.Cm = 0, !.wqc = 0])

sl_txc_flush_buffers(s) ==
  LET next == (s.tRbsn + 1) % Mod
  IN  [s EXCEPT !.rtb = <<>>, !.rtb_full = 0, !.Ct = 0, !.tb = <<>>, !.Cm = 0, !.wqc = 0,
                !.pos = 0, !.Z = next, !.Ffsn = next, !.Lfsn = s.rRbsn, !.Tfsn = s.rRbsn,
                !.tm = @ \ {"t7"}]

(***************************************************************************)
(* sl_txc_retrieval_request_and_fsnc: what the peer did not receive goes   *)
(* back to level 3, oldest first.  Until START sets the masks sn_mask is 0. *)
(***************************************************************************)
SnMod(s) == IF s.ib_mask = 1 THEN Mod ELSE 1

RetrievedRtb(s, fsnc) ==
  Dropped(s.rtb, IF s.ib_mask = 1 THEN (fsnc + 1 - s.Ffsn) % Mod
                 ELSE IF s.Ffsn = 0 THEN 0 ELSE 1)

RetrievedMessages(s, fsnc) == RetrievedRtb(s, fsnc) \o s.tb

sl_txc_retrieval_request_and_fsnc(s, fsnc) ==
  LET next == (fsnc + 1) % SnMod(s)
      c == fsnc % SnMod(s)
  IN  [s EXCEPT !.rtb = <<>>, !.tb = <<>>, !.rtb_full = 0, !.Cm = 0, !.Ct = 0,
                !.Z = next, !.Ffsn = next, !.Nfsn = c, !.Lfsn = c, !.pos = Dangling(@)]

(***************************************************************************)
(* sl_txc_transmission_request: the next signal unit.  N.bsn is always     *)
(* tx.X.fsn - 1.  The result is the new state and the unit, or no unit.    *)
(***************************************************************************)
NoSu == [type |-> "none"]

\* A message read through a pointer to a freed message: any outcome.
Junk == [pdu : Pdu \cup {NoPdu}, pos : {-1, 0}]
NoJunk == [pdu |-> NoPdu, pos |-> 0]

\* sl_daedt_fisu, sl_daedt_lssu and sl_daedt_msu write the header.
sl_daedt_fisu(s) ==
  [type |-> "FISU", fsn |-> s.Nfsn, fib |-> s.Nfib, bsn |-> (s.tXfsn - 1) % Mod, bib |-> s.Nbib]
sl_daedt_lssu(s) ==
  [type |-> "LSSU", fsn |-> s.Nfsn, fib |-> s.Nfib, bsn |-> (s.tXfsn - 1) % Mod, bib |-> s.Nbib,
   sio |-> s.sio]
sl_daedt_msu(s, p) ==
  [type |-> "MSU", fsn |-> s.Nfsn, fib |-> s.Nfib, bsn |-> (s.tXfsn - 1) % Mod, bib |-> s.Nbib,
   pdu |-> p]

SendLssu(s) ==
  LET n == [s EXCEPT !.lssu_available = IF s.sio = "SIB" THEN 0 ELSE @, !.Nfsn = s.Lfsn]
  IN  [st |-> n, su |-> sl_daedt_lssu(n)]

SendFisu(s) == LET n == [s EXCEPT !.Nfsn = s.Lfsn] IN [st |-> n, su |-> sl_daedt_fisu(n)]

\* PCR: the buffer may have drained since, or new messages wait for it to drain.
Forcing(s) ==
  LET room == Len(s.rtb) < N1
      full == IF room THEN 0 ELSE s.rtb_full
  IN  [s EXCEPT !.rtb_full = full,
                !.forced_retransmission =
                   IF s.tb # <<>> /\ full = 1 THEN 1 ELSE IF room THEN 0 ELSE @]

\* Mutant of Retransmitting: PCR repeats messages only when forced to.
RetransmittingForced(s) ==
  \/ ~PCR /\ s.retrans_cycle = 1
  \/ PCR /\ s.forced_retransmission = 1

Retransmitting(s) ==
  \/ ~PCR /\ s.retrans_cycle = 1
  \/ PCR /\ (s.forced_retransmission = 1 \/ (s.tb = <<>> /\ s.rtb # <<>>))

\* z_ptr at NULL: the basic procedure sends nothing at all, PCR starts over.
SendOld(s0, junk) ==
  LET over == PCR /\ s0.pos = 0
      s == IF over THEN [s0 EXCEPT !.pos = IF s0.rtb = <<>> THEN 0 ELSE 1, !.Z = s0.Ffsn]
                   ELSE s0
      p == IF s.pos = 0 THEN NoPdu ELSE IF s.pos = -1 THEN junk.pdu ELSE s.rtb[s.pos]
      after == IF s.pos = -1 THEN junk.pos ELSE IF s.pos = Len(s.rtb) THEN 0 ELSE s.pos + 1
      fsn == IF PCR THEN s.Z ELSE (s.Nfsn + 1) % Mod
      n == [s EXCEPT !.pos = after, !.Nfsn = fsn, !.Z = IF PCR THEN (@ + 1) % Mod ELSE @,
                     !.retrans_cycle = IF fsn = s.Lfsn \/ after = 0 THEN 0 ELSE @]
  IN  IF p = NoPdu THEN [st |-> s, su |-> NoSu]
      ELSE [st |-> n, su |-> sl_daedt_msu(n, p)]

SendNew(s) ==
  LET fsn == (s.Lfsn + 1) % Mod
      rtb == Append(s.rtb, Head(s.tb))
      full == Len(rtb) >= N1
      n == [s EXCEPT
              !.tb = Tail(@), !.rtb = rtb,
              !.Cm = (@ - 1) % CtrMod, !.Ct = (@ + 1) % CtrMod,
              !.Lfsn = fsn, !.Nfsn = fsn, !.Tfsn = fsn,
              !.tm = @ \cup (IF s.rtb = <<>> THEN {"t7"} ELSE {}),
              !.rtb_full = IF full \/ (~PCR /\ fsn = (s.Ffsn - 2) % Mod) THEN 1 ELSE @,
              !.forced_retransmission = IF PCR /\ full THEN 1 ELSE @]
  IN  [st |-> n, su |-> sl_daedt_msu(n, Head(s.tb))]

sl_txc_transmission_request(s, junk) ==
  LET f == IF PCR THEN Forcing(s) ELSE s
  IN  IF s.txc # "IN_SERVICE" THEN [st |-> s, su |-> NoSu]
      ELSE IF s.lssu_available = 1 THEN SendLssu(s)
      ELSE IF s.msu_inhibited = 1 THEN SendFisu(s)
      ELSE IF Retransmitting(f) THEN SendOld(f, junk)
      ELSE IF f.tb = <<>> \/ (~PCR /\ f.rtb_full = 1) THEN SendFisu(f)
      ELSE SendNew(f)

\* sl_txc_start: everything but retrans_cycle and the buffers themselves.
sl_txc_start(s) ==
  [s EXCEPT !.forced_retransmission = 0, !.sib_received = 0, !.Ct = 0, !.rtb_full = 0,
            !.clear_rtb = 0, !.msu_inhibited = 0, !.ib_mask = 1,
            !.sio = IF ANSI THEN "SIOS" ELSE @,
            !.lssu_available = IF ANSI THEN 1 ELSE IF s.txc = "IDLE" THEN 0 ELSE @,
            !.Lfsn = Mod - 1, !.Nfsn = Mod - 1, !.tXfsn = 0, !.Nfib = 1, !.Nbib = 1,
            !.Ffsn = 0, !.Cm = 0, !.Z = 0, !.pos = 0, !.txc = "IN_SERVICE"]

\* A PDU of level 3: refused (-ENOBUFS) when the transmission buffer holds
\* too much, otherwise queued.
sl_txc_message_for_transmission(s, p) ==
  sl_check_congestion([s EXCEPT !.tb = Append(@, p), !.Cm = (@ + 1) % CtrMod])

PduRefused(s) == Len(s.tb) > TbMax

sl_lsc_pdu(s, p) ==
  IF PduRefused(s) THEN s ELSE sl_txc_message_for_transmission(s, p)

=============================================================================
