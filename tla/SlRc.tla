-------------------------------- MODULE SlRc --------------------------------
(***************************************************************************)
(* Reception control of sl_tpi.c: what a received signal unit does, the    *)
(* error rate monitors, the receive congestion function, the wakeups and   *)
(* the timer expiries.                                                     *)
(***************************************************************************)
EXTENDS SlLsc

\* A received signal unit: sequence numbers and indicator bits, then the
\* status field of an LSSU (length 1 or 2) or the PDU of an MSU.
Fisu == [type : {"FISU"}, fsn : Sn, fib : Flag, bsn : Sn, bib : Flag]
Lssu == [type : {"LSSU"}, fsn : Sn, fib : Flag, bsn : Sn, bib : Flag, sio : Sio]
Msu  == [type : {"MSU"}, fsn : Sn, fib : Flag, bsn : Sn, bib : Flag, pdu : Pdu]

\* Mutant of sl_rb_congestion_function: a discard that nobody remembers.
sl_rb_congestion_function_Lost(s, next, own) ==
  CASE s.l3_congestion_detect = 1 -> s
    [] s.l3_congestion_detect = 0 /\ s.l2_congestion_detect = 1 ->
         IF s.Cr <= RbAbate /\ next
         THEN [sl_rc_no_congestion(s) EXCEPT !.l2_congestion_detect = 0] ELSE s
    [] OTHER ->
         IF s.Cr >= RbDiscard \/ ~own THEN sl_rc_congestion_discard(s)
         ELSE IF s.Cr >= RbAccept \/ ~next
         THEN [sl_rc_congestion_accept(s) EXCEPT !.l2_congestion_detect = 1]
         ELSE s

(***************************************************************************)
(* sl_rb_congestion_function: next and own tell whether the module above   *)
(* (canputnext) and the own read queue (canput) are free.                  *)
(***************************************************************************)
sl_rb_congestion_function(s, next, own) ==
  CASE s.l3_congestion_detect = 1 -> s
    [] s.l3_congestion_detect = 0 /\ s.l2_congestion_detect = 1 ->
         IF s.Cr <= RbAbate /\ next
         THEN [sl_rc_no_congestion(s) EXCEPT !.l2_congestion_detect = 0] ELSE s
    [] OTHER ->
         IF s.Cr >= RbDiscard \/ ~own
         THEN [sl_rc_congestion_discard(s) EXCEPT !.l2_congestion_detect = 1]
         ELSE IF s.Cr >= RbAccept \/ ~next
         THEN [sl_rc_congestion_accept(s) EXCEPT !.l2_congestion_detect = 1]
         ELSE s

(***************************************************************************)
(* sl_rc_signal_unit.                                                      *)
(***************************************************************************)
LssuReceived(s, sio) ==
  CASE sio = "SIO"  -> sl_lsc_sio(sl_iac_sio(s))
    [] sio = "SIN"  -> sl_lsc_sin(sl_iac_sin(s))
    [] sio = "SIE"  -> sl_lsc_sie(sl_iac_sie(s))
    [] sio = "SIOS" -> sl_lsc_sios(sl_iac_sios(s))
    [] sio = "SIPO" -> sl_lsc_sipo(s)
    [] sio = "SIB"  -> sl_lsc_sib(s)

\* Two abnormal BSNs of three units in a row fail the link.
AbnormalBsnr(s) ==
  IF s.abnormal_bsnr = 1 THEN [sl_lsc_link_failure(s) EXCEPT !.rc = "IDLE"]
  ELSE [s EXCEPT !.abnormal_bsnr = 1, !.unb = 0]

\* The acknowledgement that comes with any FISU or MSU.
AckReceived(s, su) ==
  [sl_txc_bsnr_and_bibr(s, su.bsn, su.bib) EXCEPT !.rFfsn = (su.bsn + 1) % Mod]

\* An MSU in sequence goes to the receive buffer and, unless level 3 is
\* congested, is acknowledged.
InSequence(s, su) ==
  LET a == [s EXCEPT !.Xfsn = (@ + 1) % Mod, !.rtr = IF PCR THEN @ ELSE 0,
                     !.rb = Append(@, su.pdu), !.Cr = (@ + 1) % CtrMod]
  IN  IF a.congestion_accept = 1 THEN sl_cc_busy(a) ELSE sl_txc_fsnx_value(a)

\* Mutant of OutOfSequence: the gap is noted but not reported.
OutOfSequenceSilent(s, su) ==
  IF su.fsn = (s.Xfsn - 1) % Mod THEN s
  ELSE IF s.congestion_accept = 1 THEN sl_cc_busy([s EXCEPT !.rtr = 1])
  ELSE [s EXCEPT !.rtr = 1]

\* Basic procedure: not the next one.  Ask for it, or wait with that.
OutOfSequence(s, su) ==
  IF su.fsn = (s.Xfsn - 1) % Mod THEN s
  ELSE IF s.congestion_accept = 1 THEN sl_cc_busy([s EXCEPT !.rtr = 1])
  ELSE [sl_txc_nack_to_be_sent(s) EXCEPT !.rtr = 1, !.Xfib = Toggled(s, @)]

\* A FISU or MSU whose BSN and FIB are as expected.
SuAccepted(s, su, next, own) ==
  LET a == AckReceived(sl_lsc_fisu_msu_received(s), su)
      c == sl_rb_congestion_function(a, next, own)
  IN  IF a.msu_fisu_accepted = 0 THEN a
      ELSE IF c.congestion_discard = 1
      THEN sl_cc_busy([c EXCEPT !.rtr = IF PCR THEN @ ELSE 1])
      ELSE IF su.type = "MSU" /\ su.fsn = c.Xfsn THEN InSequence(c, su)
      ELSE IF PCR THEN c ELSE OutOfSequence(c, su)

\* Basic procedure: the FIB tells whether this is the retransmission asked for.
FibChecked(s, su, next, own) ==
  IF su.fib = s.Xfib
  THEN IF s.abnormal_fibr = 1 /\ s.unf # 1 THEN [s EXCEPT !.unf = 1]
       ELSE SuAccepted([s EXCEPT !.abnormal_fibr = 0], su, next, own)
  ELSE IF s.abnormal_fibr = 1 THEN sl_lsc_link_failure(s)
  ELSE IF s.rtr = 1 THEN AckReceived(s, su)
  ELSE [s EXCEPT !.abnormal_fibr = 1, !.unf = 0]

sl_rc_signal_unit(s0, su, next, own) ==
  LET s == [s0 EXCEPT !.rRbsn = su.bsn]
  IN  IF s0.rc # "IN_SERVICE" THEN s0
      ELSE IF su.type = "LSSU" THEN LssuReceived(s, su.sio)
      ELSE IF SN_OUTSIDE((s.rFfsn - 1) % Mod, su.bsn, s.Tfsn) THEN AbnormalBsnr(s)
      ELSE IF s.abnormal_bsnr = 1 /\ s.unb # 1 THEN [s EXCEPT !.unb = 1]
      ELSE LET a == [s EXCEPT !.abnormal_bsnr = 0]
           IN  IF PCR THEN SuAccepted(a, su, next, own) ELSE FibChecked(a, su, next, own)

(***************************************************************************)
(* Error rate monitors: a correct unit, a unit in error.                   *)
(***************************************************************************)
sl_aerm_su_in_error(s) ==
  IF s.aerm # "MONITORING" THEN s
  ELSE IF s.Ca + 1 = s.Ti
  THEN [sl_iac_abort_proving([s EXCEPT !.aborted_proving = 1]) EXCEPT !.aerm = "IDLE"]
  ELSE [s EXCEPT !.Ca = @ + 1]

sl_aerm_correct_su(s) ==
  IF s.aerm = "IDLE" /\ s.aborted_proving = 1
  THEN [sl_iac_correct_su(s) EXCEPT !.aborted_proving = 0] ELSE s

\* Mutant of Leaked: the count of errors is not stopped at zero.
LeakedBelowZero(s) ==
  IF s.Ns + 1 >= D THEN [s EXCEPT !.Ns = 0, !.Cs = @ - 1] ELSE [s EXCEPT !.Ns = @ + 1]

\* The leak of the bucket: one error forgotten in D units.
Leaked(s) ==
  IF s.Ns + 1 >= D THEN [s EXCEPT !.Ns = 0, !.Cs = IF @ > 0 THEN @ - 1 ELSE @]
  ELSE [s EXCEPT !.Ns = @ + 1]

\* Mutant of sl_suerm_su_in_error: the monitor stops without failing the link.
sl_suerm_su_in_error_Quiet(s) ==
  IF s.suerm # "IN_SERVICE" THEN s
  ELSE IF s.Cs + 1 >= T THEN [s EXCEPT !.Cs = @ + 1, !.Ca = @ - 1, !.suerm = "IDLE"]
  ELSE Leaked([s EXCEPT !.Cs = @ + 1])

sl_suerm_su_in_error(s) ==
  IF s.suerm # "IN_SERVICE" THEN s
  ELSE IF s.Cs + 1 >= T
  THEN [sl_lsc_link_failure([s EXCEPT !.Cs = @ + 1]) EXCEPT !.Ca = @ - 1, !.suerm = "IDLE"]
  ELSE Leaked([s EXCEPT !.Cs = @ + 1])

sl_suerm_correct_su(s) == IF s.suerm = "IN_SERVICE" THEN Leaked(s) ELSE s

sl_eim_su_in_error(s) ==
  [s EXCEPT !.interval_error = IF s.eim = "MONITORING" THEN 1 ELSE @]
sl_eim_correct_su(s) ==
  [s EXCEPT !.su_received = IF s.eim = "MONITORING" THEN 1 ELSE @]

sl_daedr_correct_su(s) == sl_aerm_correct_su(sl_suerm_correct_su(sl_eim_correct_su(s)))

sl_daedr_su_in_error(s) ==
  IF s.lsc = "POWER_OFF" THEN s
  ELSE sl_aerm_su_in_error(sl_suerm_su_in_error(sl_eim_su_in_error(s)))

sl_daedr_received_bits(s, su, next, own) ==
  IF s.lsc = "POWER_OFF" THEN s
  ELSE sl_daedr_correct_su(sl_rc_signal_unit(s, su, next, own))

(***************************************************************************)
(* sl_rx_wakeup when canputnext() holds for k messages: they go up.        *)
(***************************************************************************)
DeliverableRb(s, k) ==
  IF \/ s.lsc = "IN_SERVICE"
     \/ s.lsc = "PROCESSOR_OUTAGE" /\ s.local_processor_outage = 0
  THEN SubSeq(s.rb, 1, k) ELSE <<>>

sl_rx_wakeup(s, k) ==
  LET n == Len(DeliverableRb(s, k))
  IN  IF s.rb # <<>> /\ s.lsc \in {"INITIAL_ALIGNMENT", "ALIGNED_READY", "ALIGNED_NOT_READY"}
      THEN [s EXCEPT !.rb = <<>>]
      ELSE [s EXCEPT !.rb = Dropped(@, n), !.Cr = (@ - n) % CtrMod]

(***************************************************************************)
(* Timer expiries.  T1, T6 and T7 are not guarded by a state.              *)
(***************************************************************************)
sl_t1_expiry(s) ==
  LET a == sl_txc_send_sios(sl_suerm_stop(sl_rc_stop(sl_out_of_service_ind(s))))
      b == IF s.lsc = "ALIGNED_NOT_READY"
           THEN [sl_poc_stop(a) EXCEPT !.local_processor_outage = 0] ELSE a
  IN  [b EXCEPT !.emergency = 0, !.lsc = "OUT_OF_SERVICE"]

AlignmentTimeout(s) ==
  [sl_lsc_alignment_not_possible(s) EXCEPT !.emergency = 0, !.iac = "IDLE"]

sl_t2_expiry(s) == IF s.iac = "NOT_ALIGNED" THEN AlignmentTimeout(s) ELSE s
sl_t3_expiry(s) == IF s.iac = "ALIGNED" THEN AlignmentTimeout(s) ELSE s

sl_t4_expiry(s) ==
  IF s.iac # "PROVING" THEN s
  ELSE IF s.further_proving = 1 THEN Prove(s)
  ELSE [sl_aerm_stop(sl_lsc_alignment_complete(s)) EXCEPT !.emergency = 0, !.iac = "IDLE"]

\* Mutant of sl_t5_expiry: the busy indication is sent once more and never again.
sl_t5_expiry_Once(s) == IF s.cc = "BUSY" THEN sl_txc_send_sib(s) ELSE s

sl_t5_expiry(s) ==
  IF s.cc = "BUSY" THEN sl_timer_start(sl_txc_send_sib(s), "t5") ELSE s

sl_t6_expiry(s) == sl_timer_stop([sl_lsc_link_failure(s) EXCEPT !.sib_received = 0], "t7")

sl_t7_expiry(s) ==
  LET a == sl_timer_stop(sl_lsc_link_failure(s), "t6")
  IN  IF PVAR = "ITUT_96" THEN [a EXCEPT !.sib_received = 0] ELSE a

\* Mutant of sl_t8_expiry: T8 is not restarted.
sl_t8_expiry_Once(s0) ==
  LET a == [s0 EXCEPT !.su_received = 0, !.Ce = @ + Ue, !.interval_error = 0]
  IN  IF s0.eim # "MONITORING" THEN s0
      ELSE IF s0.su_received = 1 /\ s0.interval_error = 0
      THEN [s0 EXCEPT !.su_received = 0, !.Ce = IF @ < De THEN 0 ELSE @ - De]
      ELSE IF a.Ce > Te THEN [sl_lsc_link_failure(a) EXCEPT !.eim = "IDLE"] ELSE a

\* A good interval leaks De; one without units or with errors adds Ue.
sl_t8_expiry(s0) ==
  LET s == sl_timer_start(s0, "t8")
      a == [s EXCEPT !.su_received = 0, !.Ce = @ + Ue, !.interval_error = 0]
  IN  IF s0.eim # "MONITORING" THEN s0
      ELSE IF s.su_received = 1 /\ s.interval_error = 0
      THEN [s EXCEPT !.su_received = 0, !.Ce = IF @ < De THEN 0 ELSE @ - De]
      ELSE IF a.Ce > Te THEN [sl_lsc_link_failure(a) EXCEPT !.eim = "IDLE"] ELSE a

sl_r_pcrse(s, t) ==
  CASE t = "t1" -> sl_t1_expiry(s)
    [] t = "t2" -> sl_t2_expiry(s)
    [] t = "t3" -> sl_t3_expiry(s)
    [] t = "t4" -> sl_t4_expiry(s)
    [] t = "t5" -> sl_t5_expiry(s)
    [] t = "t6" -> sl_t6_expiry(s)
    [] t = "t7" -> sl_t7_expiry(s)
    [] t = "t8" -> sl_t8_expiry(s)

(***************************************************************************)
(* How a terminal comes into service with a peer that does the same: power *)
(* on, start, SIO, SIN, T4, and a FISU that acknowledges nothing.          *)
(***************************************************************************)
InService ==
  LET Got(s, su) == sl_daedr_received_bits(s, su, TRUE, TRUE)
      lssu(i) == [type |-> "LSSU", fsn |-> Mod - 1, fib |-> 1, bsn |-> Mod - 1, bib |-> 1,
                  sio |-> i]
      started == sl_lsc_start(sl_lsc_power_on(sl_alloc_priv))
      proving == Got(Got(started, lssu("SIO")), lssu("SIN"))
  IN  Got(sl_t4_expiry(sl_timer_stop(proving, "t4")),
          [type |-> "FISU", fsn |-> Mod - 1, fib |-> 1, bsn |-> Mod - 1, bib |-> 1])
=============================================================================
