------------------------------ MODULE SlBase ------------------------------
(***************************************************************************)
(* The state of one signalling link terminal of the sl_tpi module          *)
(* (src/src/modules/sl_tpi.c): MTP level 2 over a transport provider.      *)
(*                                                                         *)
(* The C code keeps everything in one private structure (sl_t) and each    *)
(* level-2 primitive is a function that edits it.  Here the structure is a *)
(* flat record and each primitive an operator from record to record that   *)
(* has the name of the C function.                                         *)
(*                                                                         *)
(* Flags and indicator bits are 0 or 1.  A buffer is a sequence of PDUs.   *)
(* Octet counts are message counts: every PDU has the same length.         *)
(***************************************************************************)
EXTENDS Integers, Sequences

CONSTANTS
  Pdu,          \* the PDUs that level 3 may send
  NoPdu,        \* no PDU: a null message pointer
  PVAR,         \* protocol variant: option.pvar
  PCR,          \* preventive cyclic retransmission: option.popt & SS7_POPT_PCR
  HSL,          \* high speed link: option.popt & SS7_POPT_HSL
  MPLEV,        \* several congestion levels: option.popt & SS7_POPT_MPLEV
  Mod,          \* sequence numbers: sn_mask + 1 once the transmitter started
  BsntMod,      \* the mask 0x7F of sl_rc_retrieve_bsnt, plus 1
  CtrMod,       \* counters Cm, Ct and Cr are unsigned: 2 to the power of their width
  N1,           \* size of the retransmission buffer
  M,            \* proving attempts
  Tin, Tie,     \* alignment error rate thresholds, normal and emergency
  T, D,         \* signal unit error rate: threshold and leak rate
  Te, De, Ue,   \* errored intervals: threshold, decrement, increment
  RbAbate, RbAccept, RbDiscard,   \* receive congestion thresholds
  TbAbate, TbOnset, TbDiscd,      \* transmit congestion thresholds, 1..3 -> Nat
  TbMax,        \* the 1024 octets of sl_lsc_pdu
  WqMax         \* bound on what waits on the write queue (q_count)

ASSUME OptionAssumption ==
  /\ PVAR \in {"ITUT_88", "ITUT_93", "ITUT_96", "ANSI_92"}
  /\ PCR \in BOOLEAN /\ HSL \in BOOLEAN /\ MPLEV \in BOOLEAN
  /\ NoPdu \notin Pdu

ASSUME NumberAssumption ==
  /\ Mod \in Nat /\ Mod > 1
  /\ BsntMod \in Nat /\ BsntMod > 1
  /\ CtrMod \in Nat /\ CtrMod > 1
  /\ N1 \in Nat /\ M \in Nat /\ Tin \in Nat /\ Tie \in Nat
  /\ T \in Nat /\ D \in Nat /\ Te \in Nat /\ De \in Nat /\ Ue \in Nat
  /\ RbAbate \in Nat /\ RbAccept \in Nat /\ RbDiscard \in Nat
  /\ TbMax \in Nat /\ WqMax \in Nat

ASSUME ThresholdAssumption ==
  /\ TbAbate \in [1..3 -> Nat]
  /\ TbOnset \in [1..3 -> Nat]
  /\ TbDiscd \in [1..3 -> Nat]

Sn    == 0 .. Mod - 1
Ctr   == 0 .. CtrMod - 1
Flag  == {0, 1}
Timer == {"t1", "t2", "t3", "t4", "t5", "t6", "t7", "t8"}
Sio   == {"SIO", "SIN", "SIE", "SIOS", "SIPO", "SIB"}

ITUT9x == PVAR \in {"ITUT_93", "ITUT_96"}
ANSI   == PVAR = "ANSI_92"

(***************************************************************************)
(* The states.  SL_STATE_IDLE and SL_STATE_NORMAL are one value in the     *)
(* code, so an idle congestion control is a normal one.                    *)
(*   tm             the timers that run                                    *)
(*   pos  (z_ptr)   position in rtb of the next message to retransmit,     *)
(*                  0 is NULL, -1 a pointer to a message no longer in rtb  *)
(*   wqc            wq->q_count                                            *)
(*   l3             what level 3 was told: a ghost variable                *)
(***************************************************************************)
LscState == {"POWER_OFF", "OUT_OF_SERVICE", "INITIAL_ALIGNMENT", "ALIGNED_READY",
             "ALIGNED_NOT_READY", "IN_SERVICE", "PROCESSOR_OUTAGE"}
IacState == {"IDLE", "NOT_ALIGNED", "ALIGNED", "PROVING"}
PocState == {"IDLE", "LOCAL", "REMOTE", "BOTH"}
L3State  == {"stopped", "starting", "in_service"}

Fields ==
  {"lsc", "iac", "poc", "cc", "txc", "rc", "aerm", "suerm", "eim", "tm", "emergency",
   "local_processor_outage", "remote_processor_outage", "processor_outage",
   "l3_indication_received", "further_proving", "Cp", "t4v", "aborted_proving", "Ca",
   "Ti", "Cs", "Ns", "Ce", "interval_error", "su_received", "l2_congestion_detect",
   "l3_congestion_detect", "congestion_discard", "congestion_accept",
   "lssu_available", "sio", "msu_inhibited", "rtb_full", "forced_retransmission",
   "retrans_cycle", "sib_received", "clear_rtb", "ib_mask", "Nfsn", "Nfib", "Nbib",
   "Lfsn", "Ffsn", "tXfsn", "tRbsn", "Z", "pos", "Cm", "Ct", "cong_status",
   "disc_status", "tb", "rtb", "wqc", "Xfsn", "Xfib", "rFfsn", "Tfsn", "rRbsn",
   "rtr", "msu_fisu_accepted", "abnormal_bsnr", "unb", "abnormal_fibr", "unf", "Cr",
   "rb", "l3"}

SlState(s) ==
  /\ DOMAIN s = Fields
  /\ s.lsc \in LscState
  /\ s.iac \in IacState
  /\ s.poc \in PocState
  /\ s.cc \in {"IDLE", "BUSY"}
  /\ s.txc \in {"IDLE", "IN_SERVICE"} /\ s.rc \in {"IDLE", "IN_SERVICE"}
  /\ s.suerm \in {"IDLE", "IN_SERVICE"}
  /\ s.aerm \in {"IDLE", "MONITORING"} /\ s.eim \in {"IDLE", "MONITORING"}
  /\ s.tm \in SUBSET Timer
  /\ s.emergency \in Flag /\ s.local_processor_outage \in Flag
  /\ s.remote_processor_outage \in Flag /\ s.processor_outage \in Flag
  /\ s.l3_indication_received \in Flag /\ s.further_proving \in Flag
  /\ s.aborted_proving \in Flag /\ s.interval_error \in Flag /\ s.su_received \in Flag
  /\ s.l2_congestion_detect \in Flag /\ s.l3_congestion_detect \in Flag
  /\ s.congestion_discard \in Flag /\ s.congestion_accept \in Flag
  /\ s.lssu_available \in Flag /\ s.msu_inhibited \in Flag /\ s.rtb_full \in Flag
  /\ s.forced_retransmission \in Flag /\ s.retrans_cycle \in Flag
  /\ s.sib_received \in Flag /\ s.clear_rtb \in Flag /\ s.ib_mask \in Flag
  /\ s.Nfib \in Flag /\ s.Nbib \in Flag /\ s.Xfib \in Flag /\ s.rtr \in Flag
  /\ s.msu_fisu_accepted \in Flag /\ s.abnormal_bsnr \in Flag /\ s.unb \in Flag
  /\ s.abnormal_fibr \in Flag /\ s.unf \in Flag
  /\ s.Cp \in Nat /\ s.Ti \in Nat /\ s.Cs \in Nat /\ s.Ns \in Nat /\ s.Ce \in Nat
  /\ s.wqc \in Nat
  /\ s.t4v \in {"n", "e"}
  /\ s.Ca \in Int /\ s.pos \in Int
  /\ s.sio \in Sio
  /\ s.Nfsn \in Sn /\ s.Lfsn \in Sn /\ s.Ffsn \in Sn /\ s.tXfsn \in Sn /\ s.tRbsn \in Sn
  /\ s.Z \in Sn /\ s.Xfsn \in Sn /\ s.rFfsn \in Sn /\ s.Tfsn \in Sn /\ s.rRbsn \in Sn
  /\ s.Cm \in Ctr /\ s.Ct \in Ctr /\ s.Cr \in Ctr
  /\ s.cong_status \in 0..3 /\ s.disc_status \in 0..3
  /\ s.tb \in Seq(Pdu) /\ s.rtb \in Seq(Pdu) /\ s.rb \in Seq(Pdu)
  /\ s.l3 \in L3State

\* sl_alloc_priv: bzero and the configuration defaults.
sl_alloc_priv ==
  [ lsc |-> "POWER_OFF", iac |-> "IDLE", poc |-> "IDLE", cc |-> "IDLE",
    txc |-> "IDLE", rc |-> "IDLE", aerm |-> "IDLE", suerm |-> "IDLE",
    eim |-> "IDLE", tm |-> {},
    emergency |-> 0, local_processor_outage |-> 0, remote_processor_outage |-> 0,
    processor_outage |-> 0, l3_indication_received |-> 0,
    further_proving |-> 0, Cp |-> 0, t4v |-> "n",
    aborted_proving |-> 0, Ca |-> 0, Ti |-> 0, Cs |-> 0, Ns |-> 0,
    Ce |-> 0, interval_error |-> 0, su_received |-> 0,
    l2_congestion_detect |-> 0, l3_congestion_detect |-> 0,
    congestion_discard |-> 0, congestion_accept |-> 0,
    lssu_available |-> 0, sio |-> "SIO", msu_inhibited |-> 0, rtb_full |-> 0,
    forced_retransmission |-> 0, retrans_cycle |-> 0, sib_received |-> 0,
    clear_rtb |-> 0, ib_mask |-> 0,
    Nfsn |-> 0, Nfib |-> 0, Nbib |-> 0, Lfsn |-> 0, Ffsn |-> 0, tXfsn |-> 0,
    tRbsn |-> 0, Z |-> 0, pos |-> 0, Cm |-> 0, Ct |-> 0,
    cong_status |-> 0, disc_status |-> 0, tb |-> <<>>, rtb |-> <<>>, wqc |-> 0,
    Xfsn |-> 0, Xfib |-> 0, rFfsn |-> 0, Tfsn |-> 0, rRbsn |-> 0, rtr |-> 0,
    msu_fisu_accepted |-> 0, abnormal_bsnr |-> 0, unb |-> 0,
    abnormal_fibr |-> 0, unf |-> 0, Cr |-> 0, rb |-> <<>>,
    l3 |-> "stopped" ]

\* Mutant of SN_OUTSIDE: the upper end does not belong to the interval.
SN_OUTSIDE_Open(lower, middle, upper) ==
  IF lower <= upper THEN middle < lower \/ middle >= upper
                    ELSE middle < lower /\ middle >= upper

\* SN_OUTSIDE: the middle value is not in the cyclic interval lower..upper.
SN_OUTSIDE(lower, middle, upper) ==
  IF lower <= upper THEN middle < lower \/ middle > upper
                    ELSE middle < lower /\ middle > upper

\* sl_timer_stop cancels the timeout and clears its identifier.
sl_timer_stop(s, t) == [s EXCEPT !.tm = @ \ {t}]

\* sl_timer_start stops the timer and schedules it anew.
sl_timer_start(s, t) == [s EXCEPT !.tm = @ \cup {t}]

\* The indications that say whether the link serves level 3.
sl_in_service_ind(s) == [s EXCEPT !.l3 = "in_service"]

sl_out_of_service_ind(s) ==
  [s EXCEPT !.l3 = "stopped"]
=============================================================================
