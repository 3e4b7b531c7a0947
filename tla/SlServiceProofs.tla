-------------------------- MODULE SlServiceProofs --------------------------
(***************************************************************************)
(* More about the terminal of SlTerminal, for every value of the           *)
(* constants: a link in service sends, receives and supervises what it     *)
(* sent; the peer is told of a local processor outage; acknowledgements    *)
(* are held back, and units discarded, only by a congestion that somebody  *)
(* will end.                                                               *)
(*                                                                         *)
(* The inductive invariant adds Serving to the one of SlTerminalProofs.    *)
(* It says which state the other control functions of the link are in when *)
(* link state control is in a given state, and holds between the handlers. *)
(***************************************************************************)
EXTENDS SlTerminalProofs

Down == {"POWER_OFF", "OUT_OF_SERVICE"}

\* The receiver runs exactly while the link is started, the transmitter at
\* least as long, and alignment only before the link is aligned.
Running(x) ==
  /\ x.rc = "IDLE" <=> x.lsc \in Down
  /\ x.lsc \notin Down => x.txc = "IN_SERVICE"
  /\ x.iac # "IDLE" => x.lsc \in {"OUT_OF_SERVICE", "INITIAL_ALIGNMENT"}

\* A link in service sends messages, and T7 waits for what they acknowledge.
Traffic(x, P) ==
  /\ x.lsc = "IN_SERVICE" =>
       /\ x.msu_inhibited = 0
       /\ x.lssu_available = 1 => x.sio = "SIB"
       /\ x.rtb # <<>> => "t7" \in x.tm \cup P
  /\ x.lsc \in {"IN_SERVICE", "ALIGNED_READY"} => x.local_processor_outage = 0

\* A local outage is told, and an ITU-T terminal keeps the remote one in poc.
Outage(x) ==
  /\ x.lsc = "ALIGNED_NOT_READY" \/ (x.lsc = "PROCESSOR_OUTAGE" /\ x.local_processor_outage = 1) =>
       x.sio \in {"SIPO", "SIB"} /\ (x.lssu_available = 0 => x.sio = "SIB")
  /\ ITUT9x => x.remote_processor_outage = 0

\* What congestion holds back, and who ends it.
Congestion(x) ==
  x.rc = "IN_SERVICE" =>
    /\ x.tXfsn # x.Xfsn => x.congestion_accept = 1
    /\ x.congestion_discard = 1 \/ x.congestion_accept = 1 =>
         x.l2_congestion_detect = 1 \/ x.l3_congestion_detect = 1

Serving(x, P) == Running(x) /\ Traffic(x, P) /\ Outage(x) /\ Congestion(x)

\* A function from x to y that keeps both invariants.
Carries(x, y, P) == Core(x, P) /\ Serving(x, P) => Serving(y, P)
Serves(x, y, P) == Keeps(x, y, P) /\ Carries(x, y, P)

\* A function that calls another one keeps what both keep.
LEMMA ServesChain ==
  ASSUME NEW x, NEW y, NEW z, NEW P, Serves(x, y, P), Serves(y, z, P)
  PROVE  Serves(x, z, P)
  BY DEF Serves, Carries, Keeps

\* A function that returns early keeps everything.
LEMMA ServesEarly == ASSUME NEW x, NEW P PROVE Serves(x, x, P)
  BY Early DEF Serves, Carries

------------------------------------------------------------------------------
\* The functions that keep the invariant at any point of a handler.
USE DEF SlState, Fields, LscState, IacState, PocState, L3State, Flag, Timer, Sio,
        Running, Traffic, Outage, Congestion, Down

\* Transmission control: what is asked of the peer and acknowledged.
LEMMA SmallTxc ==
  ASSUME NEW x, NEW P
  PROVE  /\ Serves(x, sl_txc_fsnx_value(x), P)
         /\ Serves(x, sl_txc_nack_to_be_sent(x), P)
         /\ Serves(x, SibOver(x), P)
         /\ Serves(x, sl_txc_sib_received(x), P)
         /\ Serves(x, sl_check_congestion(x), P)
<1>1. Carries(x, sl_txc_fsnx_value(x), P)
  BY SMT DEF Carries, Core, Serving, sl_txc_fsnx_value
<1>2. Carries(x, sl_txc_nack_to_be_sent(x), P)
  BY SMT DEF Carries, Core, Serving, sl_txc_nack_to_be_sent
<1>3. Carries(x, SibOver(x), P)
  BY SMT DEF Carries, Core, Serving, SibOver
<1>4. Carries(x, sl_txc_sib_received(x), P)
  BY SMT DEF Carries, Core, Serving, sl_txc_sib_received
<1>5. Carries(x, sl_check_congestion(x), P)
  BY SMT DEF Carries, Core, Serving, sl_check_congestion
<1> QED
  BY <1>1, <1>2, <1>3, <1>4, <1>5,
     FsnxValue, NackToBeSent, SibOverKeeps, SibReceived, CheckCongestion DEF Serves

\* Congestion control and the error monitors.
LEMMA SmallRc ==
  ASSUME NEW x, NEW P
  PROVE  /\ Serves(x, sl_cc_normal(x), P)
         /\ Serves(x, sl_cc_busy(x), P)
         /\ Serves(x, sl_rc_reject_msu_fisu(x), P)
         /\ Serves(x, sl_rc_accept_msu_fisu(x), P)
         /\ Serves(x, sl_aerm_stop(x), P)
         /\ Serves(x, sl_aerm_set_ti_to_tie(x), P)
         /\ Serves(x, Prove(x), P)
         /\ Serves(x, sl_eim_su_in_error(x), P)
         /\ Serves(x, sl_eim_correct_su(x), P)
         /\ Serves(x, Leaked(x), P)
         /\ Serves(x, sl_lsc_emergency_ceases(x), P)
<1>1. Carries(x, sl_cc_normal(x), P)
  BY SMT DEF Carries, Core, Serving, sl_cc_normal
<1>2. Carries(x, sl_cc_busy(x), P)
  BY SMT DEF Carries, Core, Serving, sl_cc_busy, sl_timer_start, sl_txc_send_sib
<1>3. Carries(x, sl_rc_reject_msu_fisu(x), P)
  BY SMT DEF Carries, Core, Serving, sl_rc_reject_msu_fisu
<1>4. Carries(x, sl_rc_accept_msu_fisu(x), P)
  BY SMT DEF Carries, Core, Serving, sl_rc_accept_msu_fisu
<1>5. Carries(x, sl_aerm_stop(x), P)
  BY SMT DEF Carries, Core, Serving, sl_aerm_stop
<1>6. Carries(x, sl_aerm_set_ti_to_tie(x), P)
  BY SMT DEF Carries, Core, Serving, sl_aerm_set_ti_to_tie
<1>7. Carries(x, Prove(x), P)
  BY SMT DEF Carries, Core, Serving, Prove, sl_aerm_start
<1>8. Carries(x, sl_eim_su_in_error(x), P)
  BY SMT DEF Carries, Core, Serving, sl_eim_su_in_error
<1>9. Carries(x, sl_eim_correct_su(x), P)
  BY SMT DEF Carries, Core, Serving, sl_eim_correct_su
<1>10. Carries(x, Leaked(x), P)
  BY SMT DEF Carries, Core, Serving, Leaked
<1>11. Carries(x, sl_lsc_emergency_ceases(x), P)
  BY SMT DEF Carries, Core, Serving, sl_lsc_emergency_ceases
<1> QED
  BY <1>1, <1>2, <1>3, <1>4, <1>5, <1>6, <1>7, <1>8, <1>9, <1>10, <1>11,
     CcNormal, CcBusy, RcReject, RcAccept, AermStop, SetTie, ProveKeeps,
     EimInError, EimCorrect,
     LeakedKeeps, EmergencyCeasesKeeps DEF Serves

------------------------------------------------------------------------------
\* The ways out of service.

\* Whatever came before, a link that was taken out of service is consistent.
LEMMA OutServes == ASSUME NEW u, NEW P, DOMAIN u = Fields PROVE Serving(OutOfService(u), P)
<1> DEFINE r == sl_rc_stop(sl_suerm_stop(u))
<1>1. DOMAIN r = Fields /\ r.rc = "IDLE"
  BY SMT DEF sl_rc_stop, sl_cc_normal, sl_suerm_stop
<1> HIDE DEF r
<1>2. Serving([sl_poc_stop(sl_txc_send_sios(r)) EXCEPT
                 !.emergency = 0, !.local_processor_outage = 0, !.remote_processor_outage = 0,
                 !.lsc = "OUT_OF_SERVICE"], P)
  BY <1>1, SMT DEF Serving, sl_poc_stop, sl_txc_send_sios
<1> QED
  BY <1>2 DEF OutOfService, r

\* Link failure, and the status units that end a link.
LEMMA LeavesCarry ==
  ASSUME NEW x, NEW P
  PROVE  /\ Serves(x, sl_lsc_link_failure(x), P)
         /\ Serves(x, sl_lsc_stop(x), P)
         /\ Serves(x, sl_lsc_sio(x), P)
         /\ Serves(x, sl_lsc_sios(x), P)
         /\ Serves(x, SinOrSie(x), P)
<1> USE DEF OutOfService, sl_poc_stop, sl_txc_send_sios, sl_rc_stop, sl_cc_normal,
            sl_suerm_stop, sl_timer_stop, sl_iac_stop, sl_aerm_stop, sl_out_of_service_ind
<1> HIDE DEF OutOfService
<1>1. Carries(x, sl_lsc_link_failure(x), P)
  <2> DEFINE u == sl_timer_stop(sl_iac_stop(sl_out_of_service_ind(x)), "t1")
  <2>1. Core(x, P) => DOMAIN u = Fields
    BY SMT DEF Core
  <2> HIDE DEF u
  <2> QED
    BY <2>1, OutServes DEF Carries, sl_lsc_link_failure, u
<1>2. Carries(x, sl_lsc_stop(x), P)
  <2> DEFINE u == sl_timer_stop(sl_iac_stop(x), "t1")
             o == OutOfService(u)
  <2>1. Core(x, P) => DOMAIN u = Fields
    BY SMT DEF Core
  <2> HIDE DEF u
  <2>2. Core(x, P) => Serving(o, P) /\ DOMAIN o = Fields
    BY <2>1, OutServes DEF OutOfService
  <2> HIDE DEF o
  <2>3. Core(x, P) => Serving([o EXCEPT !.l3 = "stopped"], P)
    BY <2>2, SMT DEF Serving
  <2> QED
    BY <2>3 DEF Carries, sl_lsc_stop, u, o
<1> USE DEF OutOfService
<1>3. Carries(x, sl_lsc_sio(x), P)
  BY SMT DEF Carries, Core, Serving, sl_lsc_sio
<1>4. Carries(x, sl_lsc_sios(x), P)
  BY SMT DEF Carries, Core, Serving, sl_lsc_sios
<1>5. Carries(x, SinOrSie(x), P)
  BY SMT DEF Carries, Core, Serving, SinOrSie
<1> HIDE DEF OutOfService, sl_rc_stop
<1> QED
  BY <1>1, <1>2, <1>3, <1>4, <1>5, LinkFailure, LscStop, LscSio, LscSios, SinOrSieKeeps DEF Serves

\* Initial alignment: nothing it does matters to a link that is not yet aligned.
LEMMA IacCarries ==
  ASSUME NEW x, NEW P
  PROVE  /\ Serves(x, sl_iac_sio(x), P)
         /\ Serves(x, sl_iac_sin(x), P)
         /\ Serves(x, sl_iac_sie(x), P)
         /\ Serves(x, sl_iac_sios(x), P)
         /\ Serves(x, sl_iac_abort_proving(x), P)
         /\ Serves(x, sl_iac_correct_su(x), P)
         /\ Serves(x, sl_lsc_emergency(x), P)
<1> USE DEF ToAligned, Prove, sl_aerm_start, sl_aerm_stop, sl_aerm_set_ti_to_tie,
            sl_txc_send_sie, sl_txc_send_sin, sl_txc_send_sios, sl_timer_stop,
            sl_lsc_alignment_not_possible, sl_rc_stop, sl_cc_normal, sl_out_of_service_ind
<1>1. Carries(x, sl_iac_sio(x), P)
  BY SMT DEF Carries, Core, Serving, sl_iac_sio
<1>2. Carries(x, sl_iac_sin(x), P)
  BY SMT DEF Carries, Core, Serving, sl_iac_sin
<1>3. Carries(x, sl_iac_sie(x), P)
  BY SMT DEF Carries, Core, Serving, sl_iac_sie
<1>4. Carries(x, sl_iac_sios(x), P)
  BY SMT DEF Carries, Core, Serving, sl_iac_sios
<1>5. Carries(x, sl_iac_abort_proving(x), P)
  BY SMT DEF Carries, Core, Serving, sl_iac_abort_proving
<1>6. Carries(x, sl_iac_correct_su(x), P)
  BY SMT DEF Carries, Core, Serving, sl_iac_correct_su
<1>7. Carries(x, sl_lsc_emergency(x), P)
  BY SMT DEF Carries, Core, Serving, sl_lsc_emergency, sl_iac_emergency
<1> QED
  BY <1>1, <1>2, <1>3, <1>4, <1>5, <1>6, <1>7,
     IacSio, IacSin, IacSie, IacSios, IacAbort, IacCorrect, LscEmergency DEF Serves

\* Power on and start.
LEMMA StartCarries ==
  ASSUME NEW x, NEW P
  PROVE  Serves(x, sl_lsc_power_on(x), P) /\ Serves(x, sl_lsc_start(x), P)
<1>1. Carries(x, sl_lsc_power_on(x), P)
  BY SMT DEF Carries, Core, Serving, sl_lsc_power_on, sl_txc_start, sl_txc_send_sios,
             sl_aerm_set_ti_to_tin
<1>2. Carries(x, sl_lsc_start(x), P)
  <2> SUFFICES ASSUME Core(x, P), Serving(x, P), x.lsc = "OUT_OF_SERVICE"
               PROVE  Serving(sl_lsc_start(x), P)
    BY DEF Carries, sl_lsc_start
  <2> DEFINE Fresh(u) == /\ u.rc = "IN_SERVICE" /\ u.Xfsn = 0
                         /\ u.congestion_discard = 0 /\ u.congestion_accept = 0
                         /\ u.remote_processor_outage = x.remote_processor_outage
             Clean(u) == Fresh(u) /\ u.txc = "IN_SERVICE" /\ u.tXfsn = 0
  <2> DEFINE r == sl_rc_start(x)
  <2>1. Core(r, P) /\ Fresh(r)
    <3>1. Core(r, P)
      BY RcStart DEF Keeps
    <3>2. Fresh(r)
      BY SMT DEF Core, Serving, sl_rc_start
    <3> QED
      BY <3>1, <3>2
  <2> HIDE DEF r
  <2> DEFINE a == sl_txc_start(r)
  <2>2. Core(a, P) /\ Clean(a)
    <3>1. Core(a, P)
      BY <2>1, TxcStart DEF Keeps
    <3>2. Clean(a)
      BY SMT, <2>1 DEF Core, sl_txc_start
    <3> QED
      BY <3>1, <3>2
  <2> HIDE DEF a
  <2> DEFINE b == IF a.emergency = 1 THEN sl_iac_emergency(a) ELSE a
  <2>3. Core(b, P) /\ Clean(b)
    <3>1. Core(b, P)
      BY <2>2, IacEmergency DEF Keeps
    <3>2. Clean(b)
      BY SMT, <2>2 DEF Core, sl_iac_emergency, sl_txc_send_sie, sl_aerm_set_ti_to_tie,
                       sl_aerm_start, sl_aerm_stop, Prove
    <3> QED
      BY <3>1, <3>2
  <2> HIDE DEF b
  <2> DEFINE y == [sl_iac_start(b) EXCEPT !.lsc = "INITIAL_ALIGNMENT", !.l3 = "starting"]
  <2>4. Clean(y) /\ y.lsc = "INITIAL_ALIGNMENT"
    BY SMT, <2>3 DEF Core, sl_iac_start, sl_timer_start, sl_txc_send_sio
  <2> HIDE DEF y
  <2>5. Serving(y, P)
    BY SMT, <2>4 DEF Serving
  <2> QED
    BY <2>5 DEF sl_lsc_start, y, b, a, r
<1> QED
  BY <1>1, <1>2, LscPowerOn, LscStart DEF Serves

------------------------------------------------------------------------------
\* Processor outage: how the link comes into service and leaves it.

\* The reactions to what level 3 and the peer say of their processors.
LEMMA OutageCarries ==
  ASSUME NEW x, NEW P
  PROVE  /\ Serves(x, sl_lsc_local_processor_outage(x), P)
         /\ Serves(x, sl_lsc_local_processor_recovered(x), P)
         /\ Serves(x, sl_lsc_fisu_msu_received(x), P)
         /\ Serves(x, sl_lsc_sib(x), P)
         /\ Serves(x, sl_lsc_sipo(x), P)
<1> USE DEF sl_txc_send_sipo, sl_txc_send_fisu, sl_txc_send_msu, sl_txc_fsnx_value,
            sl_rc_reject_msu_fisu, sl_rc_accept_msu_fisu, sl_rc_align_fsnx, sl_cc_normal,
            sl_poc_local_processor_outage, sl_poc_remote_processor_outage,
            sl_lsc_no_processor_outage, sl_timer_stop, sl_in_service_ind, ITUT9x, ANSI
<1>1. Carries(x, sl_lsc_local_processor_outage(x), P)
  BY SMT DEF Carries, Core, Serving, sl_lsc_local_processor_outage
<1>2. Carries(x, sl_lsc_local_processor_recovered(x), P)
  <2>1. CASE x.lsc = "PROCESSOR_OUTAGE" /\ ITUT9x
    <3> SUFFICES ASSUME Core(x, P), Serving(x, P)
                 PROVE  Serving(sl_lsc_local_processor_recovered(x), P)
      BY DEF Carries
    <3> DEFINE Alive(u) ==
          /\ u.rc = "IN_SERVICE" /\ u.txc = "IN_SERVICE" /\ u.iac = "IDLE"
          /\ u.remote_processor_outage = 0
        Released(u) == /\ u.tXfsn = u.Xfsn
                       /\ u.congestion_discard = 0 /\ u.congestion_accept = 0
    <3> DEFINE r == sl_poc_local_processor_recovered(x)
    <3>1. Core(r, P) /\ Alive(r)
      <4>1. Core(r, P)
        BY PocRecovered DEF Keeps
      <4>2. Alive(r)
        BY SMT, <2>1 DEF Core, Serving, sl_poc_local_processor_recovered
      <4> QED
        BY <4>1, <4>2
    <3> HIDE DEF r
    <3> DEFINE f == sl_rc_retrieve_fsnx(r)
    <3>2. Core(f, P) /\ Alive(f) /\ Released(f)
      <4>1. Core(f, P)
        BY <3>1, RetrieveFsnx DEF Keeps
      <4>2. Alive(f) /\ Released(f)
        BY SMT, <3>1 DEF Core, sl_rc_retrieve_fsnx
      <4> QED
        BY <4>1, <4>2
    <3> HIDE DEF f
    <3> DEFINE a == [sl_rc_accept_msu_fisu([sl_txc_send_fisu(f) EXCEPT !.lsc = "IN_SERVICE"])
                       EXCEPT !.local_processor_outage = 0]
    <3>3. DOMAIN a = Fields /\ Alive(a) /\ Released(a) /\ a.local_processor_outage = 0
      BY SMT, <3>2 DEF Core
    <3> HIDE DEF a
    <3> DEFINE y == [sl_txc_send_msu(a) EXCEPT !.lsc = "IN_SERVICE"]
    <3>4. Serving(y, P)
      BY SMT, <3>3 DEF Serving
    <3> HIDE DEF y
    <3>5. sl_lsc_local_processor_recovered(x) = y
      <4> HIDE DEF sl_rc_accept_msu_fisu, sl_txc_send_fisu, sl_txc_send_msu
      <4>1. a.remote_processor_outage # 1
        BY <3>3
      <4> QED
        BY <2>1, <4>1 DEF sl_lsc_local_processor_recovered, y, a, f, r
    <3> QED
      BY <3>4, <3>5
  <2>2. CASE ~(x.lsc = "PROCESSOR_OUTAGE" /\ ITUT9x)
    <3> SUFFICES ASSUME Core(x, P), Serving(x, P)
                 PROVE  Serving(sl_lsc_local_processor_recovered(x), P)
      BY DEF Carries
    <3>1. CASE x.lsc \in {"OUT_OF_SERVICE", "INITIAL_ALIGNMENT"}
      <4>1. Serving([x EXCEPT !.local_processor_outage = 0], P)
        BY <3>1, SMT DEF Core, Serving
      <4> QED
        BY <3>1, <4>1 DEF sl_lsc_local_processor_recovered
    <3>2. CASE x.lsc = "ALIGNED_NOT_READY"
      <4> DEFINE r == sl_poc_local_processor_recovered(x)
      <4>1. DOMAIN r = Fields /\ Serving(r, P) /\ r.lsc = x.lsc
        BY <3>2, SMT DEF Core, Serving, sl_poc_local_processor_recovered
      <4>2. DOMAIN x = Fields
        BY DEF Core
      <4> HIDE DEF r
      <4> DEFINE w == IF ANSI THEN x ELSE r
                 b == sl_txc_send_fisu(w)
                 a == IF PVAR = "ITUT_96" THEN sl_rc_accept_msu_fisu(b) ELSE b
      <4>3. DOMAIN w = Fields /\ Serving(w, P) /\ w.lsc = "ALIGNED_NOT_READY"
        BY <3>2, <4>1, <4>2
      <4> HIDE DEF w
      <4>4. DOMAIN a = Fields /\ Running(a) /\ Congestion(a) /\ a.lsc = "ALIGNED_NOT_READY"
            /\ (ITUT9x => a.remote_processor_outage = 0)
        BY <4>3, SMT DEF Serving
      <4> HIDE DEF a
      <4>5. Serving([a EXCEPT !.local_processor_outage = 0, !.lsc = "ALIGNED_READY"], P)
        BY <4>4, SMT DEF Serving
      <4> HIDE DEF sl_txc_send_fisu, sl_rc_accept_msu_fisu, Serving
      <4> QED
        BY <3>2, <4>5 DEF sl_lsc_local_processor_recovered, a, b, w, r
    <3>3. CASE x.lsc = "PROCESSOR_OUTAGE" /\ ~ITUT9x
      <4> DEFINE a == [sl_rc_accept_msu_fisu(x) EXCEPT !.local_processor_outage = 0]
      <4>1. DOMAIN a = Fields /\ Serving(a, P) /\ a.lsc = "PROCESSOR_OUTAGE"
        BY <3>3, SMT DEF Core, Serving
      <4> HIDE DEF a
      <4>2. a.local_processor_outage = 0
        BY SMT DEF Core, a
      <4>3. Serving(sl_txc_send_fisu(a), P)
        BY <3>3, <4>1, <4>2, SMT DEF Serving
      <4>4. Serving([sl_txc_send_msu(a) EXCEPT !.lsc = "IN_SERVICE"], P)
        BY <3>3, <4>1, <4>2, SMT DEF Serving
      <4> HIDE DEF sl_txc_send_fisu, sl_rc_accept_msu_fisu, sl_txc_send_msu, Serving
      <4>5. sl_lsc_local_processor_recovered(x) \in
                  {x, sl_txc_send_fisu(a), [sl_txc_send_msu(a) EXCEPT !.lsc = "IN_SERVICE"]}
        <5> HIDE DEF ITUT9x, ANSI
        <5> QED
          BY <3>3 DEF sl_lsc_local_processor_recovered, a
      <4> QED
        BY <4>3, <4>4, <4>5
    <3>4. CASE /\ x.lsc \notin {"OUT_OF_SERVICE", "INITIAL_ALIGNMENT"}
               /\ x.lsc \notin {"ALIGNED_NOT_READY", "PROCESSOR_OUTAGE"}
      BY <3>4 DEF sl_lsc_local_processor_recovered
    <3> QED
      BY <2>2, <3>1, <3>2, <3>3, <3>4
  <2> QED
    BY <2>1, <2>2
<1>3. Carries(x, sl_lsc_fisu_msu_received(x), P)
  BY SMT DEF Carries, Core, Serving, sl_lsc_fisu_msu_received,
             sl_poc_remote_processor_recovered
<1>4. Carries(x, sl_lsc_sib(x), P)
  BY SMT DEF Carries, Core, Serving, sl_lsc_sib, sl_txc_sib_received
<1>5. Carries(x, sl_lsc_sipo(x), P)
  <2> SUFFICES ASSUME Core(x, P), Serving(x, P) PROVE Serving(sl_lsc_sipo(x), P)
    BY DEF Carries
  <2> DEFINE out(u) == IF ANSI THEN [u EXCEPT !.remote_processor_outage = 1]
                               ELSE sl_poc_remote_processor_outage(u)
             Up(u) == /\ DOMAIN u = Fields /\ u.rc = "IN_SERVICE" /\ u.txc = "IN_SERVICE"
                      /\ u.iac = "IDLE" /\ Congestion(u)
                      /\ (ITUT9x => u.remote_processor_outage = 0)
                      /\ (u.local_processor_outage = 1 =>
                           u.sio \in {"SIPO", "SIB"} /\ (u.lssu_available = 0 => u.sio = "SIB"))
  <2>1. x.lsc \in {"ALIGNED_READY", "ALIGNED_NOT_READY", "IN_SERVICE", "PROCESSOR_OUTAGE"} => Up(x)
    BY SMT DEF Core, Serving
  <2>2. ASSUME NEW u, Up(u) PROVE Up(out(u))
    BY <2>2, SMT
  <2>3. ASSUME NEW u, Up(u) PROVE Serving([u EXCEPT !.lsc = "PROCESSOR_OUTAGE"], P)
    BY <2>3, SMT DEF Serving
  <2> HIDE DEF out
  <2>4. Up(x) => Up(sl_timer_stop(x, "t1"))
    BY SMT
  <2>5. Up(x) /\ x.lsc = "IN_SERVICE" => Up(sl_txc_send_fisu(x))
    BY SMT DEF Serving
  <2>6. ASSUME NEW u, Up(u)
        PROVE  Up([u EXCEPT !.processor_outage = 1]) /\ Up(sl_cc_normal(sl_rc_align_fsnx(u)))
    BY <2>6, SMT
  <2>7. CASE x.lsc \in {"ALIGNED_READY", "ALIGNED_NOT_READY"} /\ (ITUT9x \/ ANSI)
    <3> DEFINE u == out(sl_timer_stop(x, "t1"))
    <3>1. Up(u)
      BY <2>1, <2>2, <2>4, <2>7
    <3>2. sl_lsc_sipo(x) = [u EXCEPT !.lsc = "PROCESSOR_OUTAGE"]
      <4> HIDE DEF sl_timer_stop, ITUT9x, ANSI, sl_poc_remote_processor_outage
      <4> QED
        BY <2>7 DEF sl_lsc_sipo, out
    <3> QED
      BY <2>3, <3>1, <3>2
  <2>8. CASE x.lsc = "IN_SERVICE" /\ (ITUT9x \/ ANSI)
    <3> DEFINE u == out(sl_txc_send_fisu(x))
               v == [u EXCEPT !.processor_outage = 1]
               w == sl_cc_normal(sl_rc_align_fsnx(u))
    <3>0. Up(u)
      <4>1. Up(sl_txc_send_fisu(x))
        BY <2>1, <2>5, <2>8
      <4> HIDE DEF sl_txc_send_fisu, Up
      <4> QED
        BY <2>2, <4>1
    <3>1. Up(v) /\ Up(w)
      <4> HIDE DEF u, Up, sl_cc_normal, sl_rc_align_fsnx
      <4> QED
        BY <2>6, <3>0
    <3>2. sl_lsc_sipo(x) \in {[v EXCEPT !.lsc = "PROCESSOR_OUTAGE"],
                             [w EXCEPT !.lsc = "PROCESSOR_OUTAGE"]}
      <4> HIDE DEF sl_timer_stop, ITUT9x, ANSI, sl_poc_remote_processor_outage,
                   sl_txc_send_fisu, sl_cc_normal, sl_rc_align_fsnx
      <4> QED
        BY <2>8 DEF sl_lsc_sipo, out
    <3> HIDE DEF v, w, Up, Serving
    <3> QED
      BY <2>3, <3>1, <3>2
  <2>9. CASE x.lsc = "PROCESSOR_OUTAGE"
    <3>1. Serving([x EXCEPT !.remote_processor_outage = 1], P) \/ ITUT9x
      BY <2>9, SMT DEF Core, Serving
    <3>2. ITUT9x => Serving(sl_poc_remote_processor_outage(x), P)
      BY <2>9, SMT DEF Core, Serving
    <3>3. sl_lsc_sipo(x) = IF ITUT9x THEN sl_poc_remote_processor_outage(x)
                           ELSE [x EXCEPT !.remote_processor_outage = 1]
      <4>1. ITUT9x => ~ANSI
        BY DEF ITUT9x, ANSI
      <4> HIDE DEF sl_timer_stop, ITUT9x, ANSI, sl_poc_remote_processor_outage
      <4> QED
        BY <2>9, <4>1 DEF sl_lsc_sipo
    <3> QED
      BY <3>1, <3>2, <3>3
  <2> QED
    <3> HIDE DEF sl_timer_stop, ITUT9x, ANSI, sl_poc_remote_processor_outage
    <3>1. \/ x.lsc \in {"ALIGNED_READY", "ALIGNED_NOT_READY", "IN_SERVICE"} /\ (ITUT9x \/ ANSI)
          \/ x.lsc = "PROCESSOR_OUTAGE"
          \/ sl_lsc_sipo(x) = x
      BY DEF sl_lsc_sipo
    <3> QED
      BY <2>7, <2>8, <2>9, <3>1
<1> QED
  BY <1>1, <1>2, <1>3, <1>4, <1>5,
     LocalOutage, LocalRecovered, FisuMsuReceived, LscSib, LscSipo DEF Serves

------------------------------------------------------------------------------
\* Buffers and congestion.

\* Acknowledgements: what is left in the retransmission buffer keeps T7.
LEMMA AckCarries ==
  ASSUME NEW x, NEW P, NEW bsn \in Sn, NEW bib \in Flag
  PROVE  Serves(x, sl_txc_bsnr_and_bibr(x, bsn, bib), P)
<1> DEFINE s0 == [x EXCEPT !.tRbsn = bsn]
<1>1. Carries(x, s0, P)
  BY SMT DEF Carries, Core, Serving
<1>1a. Keeps(x, s0, P)
  BY SMT DEF Keeps, Core, Link, IacSupervised, CcSupervised
<1> HIDE DEF s0
<1>2. ASSUME NEW y PROVE Carries(y, Acknowledged(y, bsn), P)
  <2> SUFFICES ASSUME Core(y, P), Serving(y, P) PROVE Serving(Acknowledged(y, bsn), P)
    BY DEF Carries
  <2> DEFINE o == SibOver(y)
             next == (bsn + 1) % Mod
             k == (bsn + 1 - y.Ffsn) % Mod
             q == Dropped(o.rtb, k)
             ct == (o.Ct - k) % CtrMod
  <2>1. DOMAIN o = Fields /\ Serving(o, P)
    BY SMT DEF Core, Serving, SibOver
  <2> HIDE DEF o, next, k, q, ct
  <2> DEFINE c == sl_check_congestion([o EXCEPT !.rtb = q, !.Ct = ct, !.Ffsn = next])
             rewind == SN_OUTSIDE(next, y.Z, y.Lfsn) \/ q = <<>>
             z == IF rewind THEN next ELSE c.Z
             p == IF rewind THEN (IF q = <<>> THEN 0 ELSE 1) ELSE PosAfter(c.pos, k)
             full == IF ~PCR \/ Len(q) < N1 THEN 0 ELSE c.rtb_full
  <2> HIDE DEF z, p, full
  <2> DEFINE d == [c EXCEPT !.tm = IF q = <<>> THEN @ \ {"t7"} ELSE @ \cup {"t7"},
                            !.rtb_full = full, !.Z = z, !.pos = p]
  <2>2. Serving(d, P)
    BY SMT, <2>1 DEF Serving, sl_check_congestion
  <2>3. [o EXCEPT !.rtb = q, !.Ct = ct, !.Ffsn = next].rtb = q
    BY SMT, <2>1
  <2>4. Acknowledged(y, bsn) = d
    BY <2>3 DEF Acknowledged, p, z, full, ct, q, o, next, k
  <2> QED
    BY <2>2, <2>4
<1>3. ASSUME NEW y PROVE Carries(y, Nacked(y, bib), P)
  BY SMT DEF Carries, Core, Serving, Nacked, SibOver
<1>4. ASSUME NEW y PROVE Carries(y, RtbClearedBy(y, bsn, bib), P)
  <2> SUFFICES ASSUME Core(y, P), Serving(y, P) PROVE Serving(RtbClearedBy(y, bsn, bib), P)
    BY DEF Carries
  <2> DEFINE next == (bsn + 1) % Mod
             c == sl_check_congestion([y EXCEPT !.rtb = <<>>, !.Ct = 0])
             a == [c EXCEPT !.Ffsn = next, !.Lfsn = bsn, !.Nfsn = bsn, !.Nfib = bib,
                            !.Z = next, !.pos = 0]
             b == sl_lsc_rtb_cleared(a)
  <2>1. DOMAIN c = Fields /\ Serving(c, P) /\ c.local_processor_outage \in Flag
    BY SMT DEF Core, Serving, sl_check_congestion
  <2> HIDE DEF c, next
  <2>2. DOMAIN a = Fields /\ Serving(a, P) /\ a.local_processor_outage \in Flag
    BY <2>1, SMT DEF Serving
  <2> HIDE DEF a
  <2>3. DOMAIN b = Fields /\ Serving(b, P)
    BY <2>2, SMT DEF Serving, sl_lsc_rtb_cleared, sl_txc_send_msu
  <2> HIDE DEF b
  <2>4. Serving([b EXCEPT !.clear_rtb = 0, !.rtb_full = 0], P)
    BY <2>3, SMT DEF Serving
  <2> QED
    BY <2>4 DEF RtbClearedBy, next, c, a, b
<1> DEFINE a == IF s0.Ffsn # (bsn + 1) % Mod THEN Acknowledged(s0, bsn) ELSE s0
<1>5. Serves(s0, a, P)
  BY <1>2, AcknowledgedKeeps, ServesEarly DEF Serves
<1>6. Serves(x, a, P)
  BY <1>1, <1>1a, <1>5, ServesChain DEF Serves
<1> HIDE DEF a
<1>7. Serves(x, Nacked(a, bib), P)
  BY <1>3, <1>6, NackedKeeps, ServesChain DEF Serves
<1>8. Serves(x, RtbClearedBy(s0, bsn, bib), P)
  BY <1>1, <1>1a, <1>4, RtbClearedByKeeps, ServesChain DEF Serves
<1> QED
  BY <1>6, <1>7, <1>8 DEF sl_txc_bsnr_and_bibr, s0, a

\* Level 3 clears the buffers.
LEMMA BufferCarries ==
  ASSUME NEW x, NEW P
  PROVE  Serves(x, sl_lsc_clear_rtb(x), P) /\ Serves(x, sl_lsc_clear_buffers(x), P)
<1> USE DEF sl_txc_send_fisu, sl_txc_send_msu, sl_rc_accept_msu_fisu, sl_rc_clear_rb,
            sl_txc_clear_rtb, sl_txc_clear_tb, sl_txc_flush_buffers, sl_check_congestion
<1>1. Carries(x, sl_lsc_clear_rtb(x), P)
  <2> SUFFICES ASSUME Core(x, P), Serving(x, P), x.lsc = "PROCESSOR_OUTAGE"
               PROVE  Serving(sl_lsc_clear_rtb(x), P)
    BY DEF Carries, sl_lsc_clear_rtb
  <2> DEFINE u == [x EXCEPT !.local_processor_outage = 0]
             v == sl_txc_send_fisu(u)
  <2>1. DOMAIN u = Fields /\ Serving(u, P) /\ u.lsc = x.lsc /\ u.local_processor_outage = 0
    BY SMT DEF Core, Serving
  <2> HIDE DEF u
  <2>2. DOMAIN v = Fields /\ Serving(v, P) /\ v.lsc = x.lsc
    BY <2>1, SMT DEF Serving
  <2> HIDE DEF v
  <2>3. Serving(sl_txc_clear_rtb(v), P)
    BY <2>2, SMT DEF Serving
  <2> HIDE DEF Serving, sl_txc_clear_rtb
  <2> QED
    BY <2>3 DEF sl_lsc_clear_rtb, u, v
<1>2. Carries(x, sl_lsc_clear_buffers(x), P)
  <2>1. CASE ANSI /\ x.lsc = "PROCESSOR_OUTAGE"
    <3> DEFINE Quieted(u) == DOMAIN u = Fields /\ u.lsc = x.lsc /\ u.local_processor_outage = 0
    <3> DEFINE a == sl_rc_accept_msu_fisu(sl_rc_clear_rb([x EXCEPT !.local_processor_outage = 0]))
    <3>1. Core(x, P) /\ Serving(x, P) => Quieted(a) /\ Serving(a, P)
      BY SMT DEF Core, Serving
    <3> HIDE DEF a
    <3> DEFINE b == sl_txc_send_fisu(a)
    <3>2. Quieted(a) /\ Serving(a, P) => Quieted(b) /\ Serving(b, P)
      BY SMT, <2>1 DEF Serving
    <3> HIDE DEF b
    <3> DEFINE c == sl_txc_clear_tb(b)
    <3>3. Quieted(b) /\ Serving(b, P) => Quieted(c) /\ Serving(c, P)
      BY SMT, <2>1 DEF Serving
    <3> HIDE DEF c
    <3>4. Quieted(c) /\ Serving(c, P) => Serving(sl_txc_clear_rtb(c), P)
      BY SMT, <2>1 DEF Serving
    <3>5. sl_lsc_clear_buffers(x) = sl_txc_clear_rtb(c)
      <4> HIDE DEF sl_txc_send_fisu, sl_txc_send_msu, sl_rc_accept_msu_fisu, sl_rc_clear_rb,
                   sl_txc_clear_rtb, sl_txc_clear_tb, sl_txc_flush_buffers
      <4> QED
        BY <2>1, SMT DEF sl_lsc_clear_buffers, a, b, c, ANSI, ITUT9x
    <3> QED
      BY <3>1, <3>2, <3>3, <3>4, <3>5 DEF Carries
  <2>2. CASE ANSI /\ x.lsc # "PROCESSOR_OUTAGE"
    <3> HIDE DEF sl_txc_flush_buffers, sl_txc_clear_rtb, sl_txc_clear_tb
    <3> QED
      BY SMT, <2>2 DEF Carries, Core, Serving, sl_lsc_clear_buffers, ITUT9x, ANSI
  <2>3. CASE ~ANSI
    <3> DEFINE a == [x EXCEPT !.rtb = <<>>, !.rtb_full = 0, !.Ct = 0, !.tb = <<>>, !.Cm = 0,
                              !.wqc = 0]
    <3>1. Core(x, P) /\ Serving(x, P) =>
            DOMAIN a = Fields /\ Serving(a, P) /\ a.lsc = x.lsc /\ a.rtb = <<>>
      BY SMT DEF Core, Serving
    <3> HIDE DEF a
    <3> DEFINE n == (x.tRbsn + 1) % Mod
               r == x.rRbsn
    <3> HIDE DEF n, r
    <3> DEFINE f == [a EXCEPT !.pos = 0, !.Z = n, !.Ffsn = n, !.Lfsn = r, !.Tfsn = r,
                              !.tm = @ \ {"t7"}, !.l3_indication_received = 1]
    <3>2. Core(x, P) /\ Serving(x, P) =>
            DOMAIN f = Fields /\ Serving(f, P) /\ f.lsc = x.lsc /\ f.rtb = <<>>
      BY SMT, <3>1 DEF Serving
    <3>3. [sl_txc_flush_buffers(x) EXCEPT !.l3_indication_received = 1] = f
      BY SMT DEF a, n, r
    <3> HIDE DEF f
    <3> DEFINE y == [sl_rc_accept_msu_fisu(sl_txc_send_msu(f)) EXCEPT
                       !.l3_indication_received = 0, !.local_processor_outage = 0,
                       !.lsc = "IN_SERVICE"]
    <3>4. Core(x, P) /\ Serving(x, P) /\ x.lsc = "PROCESSOR_OUTAGE" => Serving(y, P)
      BY SMT, <3>2 DEF Serving
    <3> HIDE DEF y
    <3>5. sl_lsc_clear_buffers(x) = x
          \/ (x.lsc = "PROCESSOR_OUTAGE" /\ sl_lsc_clear_buffers(x) \in {f, y})
      <4> HIDE DEF sl_txc_send_fisu, sl_txc_send_msu, sl_rc_accept_msu_fisu, sl_rc_clear_rb,
                   sl_txc_clear_rtb, sl_txc_clear_tb, sl_txc_flush_buffers
      <4> QED
        BY <2>3, <3>3 DEF sl_lsc_clear_buffers, y
    <3> QED
      BY <3>2, <3>4, <3>5 DEF Carries
  <2> QED
    BY <2>1, <2>2, <2>3
<1> QED
  BY <1>1, <1>2, LscClearRtb, LscClearBuffers DEF Serves

\* Level 3 takes the messages back.
LEMMA RetrievalCarries ==
  ASSUME NEW x, NEW P, NEW fsnc \in Sn
  PROVE  Serves(x, sl_lsc_retrieval_request_and_fsnc(x, fsnc), P)
<1>1. Carries(x, sl_lsc_retrieval_request_and_fsnc(x, fsnc), P)
  BY SMT DEF Carries, Core, Serving, sl_lsc_retrieval_request_and_fsnc,
             sl_txc_retrieval_request_and_fsnc
<1> QED
  BY <1>1, LscRetrieval DEF Serves

\* Level 3 sends a message.
LEMMA PduCarries ==
  ASSUME NEW x, NEW P, NEW u \in Pdu PROVE Serves(x, sl_lsc_pdu(x, u), P)
<1>1. Carries(x, sl_lsc_pdu(x, u), P)
  BY SMT DEF Carries, Core, Serving, sl_lsc_pdu, sl_txc_message_for_transmission,
             sl_check_congestion
<1> QED
  BY <1>1, LscPdu DEF Serves

\* Congestion: who sets the policy remembers it, and its end releases what
\* was held back.
LEMMA CongestionCarries ==
  ASSUME NEW x, NEW P, NEW next, NEW own
  PROVE  /\ Serves(x, sl_lsc_congestion_discard(x), P)
         /\ Serves(x, sl_lsc_congestion_accept(x), P)
         /\ Serves(x, sl_lsc_no_congestion(x), P)
         /\ Serves(x, sl_rb_congestion_function(x, next, own), P)
<1> USE DEF sl_rc_congestion_discard, sl_rc_congestion_accept, sl_rc_no_congestion,
            sl_cc_busy, sl_cc_normal, sl_timer_start, sl_txc_send_sib, sl_txc_fsnx_value,
            sl_txc_nack_to_be_sent
<1>1. Carries(x, sl_lsc_congestion_discard(x), P)
  BY SMT DEF Carries, Core, Serving, sl_lsc_congestion_discard
<1>2. Carries(x, sl_lsc_congestion_accept(x), P)
  BY SMT DEF Carries, Core, Serving, sl_lsc_congestion_accept
<1>3. Carries(x, sl_lsc_no_congestion(x), P)
  BY SMT DEF Carries, Core, Serving, sl_lsc_no_congestion
<1>4. Carries(x, sl_rb_congestion_function(x, next, own), P)
  BY SMT DEF Carries, Core, Serving, sl_rb_congestion_function
<1> QED
  BY <1>1, <1>2, <1>3, <1>4, LscCongestion, RbCongestion DEF Serves

------------------------------------------------------------------------------
\* The transmitter: what it sends is supervised from the first message on.
LEMMA TransmitCarries ==
  ASSUME NEW x, NEW P, NEW junk, junk.pos \in {-1, 0}
  PROVE  Serves(x, sl_txc_transmission_request(x, junk).st, P)
<1>1. ASSUME NEW y PROVE Carries(y, SendLssu(y).st, P)
  <2> DEFINE n == [y EXCEPT !.lssu_available = IF y.sio = "SIB" THEN 0 ELSE @, !.Nfsn = y.Lfsn]
  <2>1. Carries(y, n, P)
    BY SMT DEF Carries, Core, Serving
  <2>2. SendLssu(y).st = n
    BY DEF SendLssu
  <2> QED
    BY <2>1, <2>2
<1>2. ASSUME NEW y PROVE Carries(y, SendFisu(y).st, P)
  <2> DEFINE n == [y EXCEPT !.Nfsn = y.Lfsn]
  <2>1. Carries(y, n, P)
    BY SMT DEF Carries, Core, Serving
  <2>2. SendFisu(y).st = n
    BY DEF SendFisu
  <2> QED
    BY <2>1, <2>2
<1>3. ASSUME NEW y PROVE Carries(y, SendOld(y, junk).st, P)
  <2> DEFINE w == IF PCR /\ y.pos = 0
                  THEN [y EXCEPT !.pos = IF y.rtb = <<>> THEN 0 ELSE 1, !.Z = y.Ffsn] ELSE y
             after == IF w.pos = -1 THEN junk.pos ELSE IF w.pos = Len(w.rtb) THEN 0 ELSE w.pos + 1
             fsn == IF PCR THEN w.Z ELSE (w.Nfsn + 1) % Mod
             z == IF PCR THEN (w.Z + 1) % Mod ELSE w.Z
             cycle == IF fsn = w.Lfsn \/ after = 0 THEN 0 ELSE w.retrans_cycle
             n == [w EXCEPT !.pos = after, !.Nfsn = fsn, !.Z = z, !.retrans_cycle = cycle]
  <2>1. Core(y, P) /\ Serving(y, P) => DOMAIN w = Fields /\ Serving(w, P)
    BY SMT DEF Core, Serving
  <2> HIDE DEF w, after, fsn, z, cycle
  <2>2. DOMAIN w = Fields /\ Serving(w, P) => Serving(n, P)
    BY SMT DEF Serving
  <2>3. SendOld(y, junk).st \in {w, n}
    BY SMT DEF SendOld, w, after, fsn, z, cycle
  <2> HIDE DEF n, Serving
  <2> QED
    BY <2>1, <2>2, <2>3 DEF Carries
<1>4. ASSUME NEW y PROVE Carries(y, SendNew(y).st, P)
  <2> DEFINE fsn == (y.Lfsn + 1) % Mod
             q == Append(y.rtb, Head(y.tb))
             t == Tail(y.tb)
             cm == (y.Cm - 1) % CtrMod
             ct == (y.Ct + 1) % CtrMod
             full == Len(q) >= N1
             rf == IF full \/ (~PCR /\ fsn = (y.Ffsn - 2) % Mod) THEN 1 ELSE y.rtb_full
             fr == IF PCR /\ full THEN 1 ELSE y.forced_retransmission
  <2> HIDE DEF fsn, q, t, cm, ct, rf, fr
  <2> DEFINE n == [y EXCEPT !.tb = t, !.rtb = q, !.Cm = cm, !.Ct = ct,
                            !.Lfsn = fsn, !.Nfsn = fsn, !.Tfsn = fsn,
                            !.tm = @ \cup (IF y.rtb = <<>> THEN {"t7"} ELSE {}),
                            !.rtb_full = rf, !.forced_retransmission = fr]
  <2>1. Carries(y, n, P)
    BY SMT DEF Carries, Core, Serving
  <2>2. SendNew(y).st = n
    BY SMT DEF SendNew, rf, fr, ct, cm, t, q, fsn
  <2> QED
    BY <2>1, <2>2
<1> DEFINE f == IF PCR THEN Forcing(x) ELSE x
<1>5. Serves(x, f, P)
  <2>1. Carries(x, Forcing(x), P)
    BY SMT DEF Carries, Core, Serving, Forcing
  <2> QED
    BY <2>1, ForcingKeeps, ServesEarly DEF Serves
<1> HIDE DEF f
<1>6. Serves(x, SendOld(f, junk).st, P) /\ Serves(x, SendFisu(f).st, P)
  BY <1>2, <1>3, <1>5, SendOldKeeps, SendFillIn, ServesChain DEF Serves
<1>7. f.tb # <<>> => Serves(x, SendNew(f).st, P)
  BY <1>4, <1>5, SendNewKeeps, ServesChain DEF Serves
<1>8. Serves(x, SendLssu(x).st, P) /\ Serves(x, SendFisu(x).st, P) /\ Serves(x, x, P)
  BY <1>1, <1>2, SendLssuKeeps, SendFillIn, ServesEarly DEF Serves
<1> QED
  BY <1>6, <1>7, <1>8 DEF sl_txc_transmission_request, f

------------------------------------------------------------------------------
\* The receiver.

\* A status unit.
LEMMA LssuCarries ==
  ASSUME NEW x, NEW P, NEW i \in Sio PROVE Serves(x, LssuReceived(x, i), P)
<1>1. CASE i = "SIO"
  BY <1>1, IacCarries, LeavesCarry, ServesChain DEF LssuReceived
<1>2. CASE i = "SIN"
  BY <1>2, IacCarries, LeavesCarry, ServesChain DEF LssuReceived, sl_lsc_sin
<1>3. CASE i = "SIE"
  BY <1>3, IacCarries, LeavesCarry, ServesChain DEF LssuReceived, sl_lsc_sie
<1>4. CASE i = "SIOS"
  BY <1>4, IacCarries, LeavesCarry, ServesChain DEF LssuReceived
<1>5. CASE i = "SIPO"
  BY <1>5, OutageCarries DEF LssuReceived
<1>6. CASE i = "SIB"
  BY <1>6, OutageCarries DEF LssuReceived
<1> QED
  BY <1>1, <1>2, <1>3, <1>4, <1>5, <1>6

\* A unit with an abnormal BSN: the receiver is idle once the link is down.
LEMMA AbnormalBsnrCarries == ASSUME NEW x, NEW P PROVE Serves(x, AbnormalBsnr(x), P)
<1> DEFINE a == sl_lsc_link_failure(x)
<1>1. Serves(x, a, P) /\ (Core(x, P) => a.lsc \in Down)
  BY LeavesCarry, LinkFailure
<1>2. Core(x, P) => Core(a, P)
  BY LinkFailure DEF Keeps
<1> HIDE DEF a
<1>3. Core(a, P) /\ Serving(a, P) /\ a.lsc \in Down => Serving([a EXCEPT !.rc = "IDLE"], P)
  BY SMT DEF Core, Serving
<1>4. Carries(x, [x EXCEPT !.abnormal_bsnr = 1, !.unb = 0], P)
  BY SMT DEF Carries, Core, Serving
<1>5. Carries(x, [a EXCEPT !.rc = "IDLE"], P)
  <2> HIDE DEF Down
  <2> QED
    BY <1>1, <1>2, <1>3 DEF Serves, Carries
<1>6. AbnormalBsnr(x) \in {[a EXCEPT !.rc = "IDLE"], [x EXCEPT !.abnormal_bsnr = 1, !.unb = 0]}
  BY DEF AbnormalBsnr, a
<1> QED
  BY <1>4, <1>5, <1>6, AbnormalBsnrKeeps DEF Serves

\* An MSU in sequence is acknowledged, or waits for the end of congestion.
LEMMA SequenceCarries ==
  ASSUME NEW x, NEW P, NEW su
  PROVE  Carries(x, InSequence(x, su), P) /\ Carries(x, OutOfSequence(x, su), P)
<1> USE DEF sl_cc_busy, sl_timer_start, sl_txc_send_sib, sl_txc_fsnx_value,
            sl_txc_nack_to_be_sent
<1>1. Carries(x, InSequence(x, su), P)
  BY SMT DEF Carries, Core, Serving, InSequence
<1>2. Carries(x, OutOfSequence(x, su), P)
  BY SMT DEF Carries, Core, Serving, OutOfSequence
<1> QED
  BY <1>1, <1>2

\* The acknowledgement that comes with a unit.
LEMMA AckReceivedCarries ==
  ASSUME NEW x, NEW P, NEW su \in Su PROVE Serves(x, AckReceived(x, su), P)
<1> DEFINE a == sl_txc_bsnr_and_bibr(x, su.bsn, su.bib)
           n == (su.bsn + 1) % Mod
<1>1. Serves(x, a, P)
  BY SuFields, AckCarries
<1> HIDE DEF a, n
<1>2. Carries(a, [a EXCEPT !.rFfsn = n], P)
  BY SMT DEF Carries, Core, Serving
<1>3. Keeps(x, AckReceived(x, su), P)
  BY AckReceivedKeeps
<1>4. AckReceived(x, su) = [a EXCEPT !.rFfsn = n]
  BY DEF AckReceived, a, n
<1> QED
  BY <1>1, <1>2, <1>3, <1>4 DEF Serves, Carries, Keeps

\* A FISU or MSU whose BSN and FIB are as expected.
LEMMA SuAcceptedCarries ==
  ASSUME NEW x, NEW P, NEW su \in Su, NEW next, NEW own
  PROVE  Serves(x, SuAccepted(x, su, next, own), P)
<1> DEFINE a == AckReceived(sl_lsc_fisu_msu_received(x), su)
<1>1. Serves(x, a, P)
  BY OutageCarries, AckReceivedCarries, ServesChain
<1> HIDE DEF a
<1> DEFINE c == sl_rb_congestion_function(a, next, own)
<1>2. Serves(x, c, P)
  BY <1>1, CongestionCarries, ServesChain
<1> HIDE DEF c
<1> DEFINE b == [c EXCEPT !.rtr = IF PCR THEN @ ELSE 1]
<1>3. Serves(c, b, P)
  <2>1. Carries(c, b, P)
    BY SMT DEF Carries, Core, Serving
  <2>2. Keeps(c, b, P)
    BY SMT DEF Keeps, Core, Link, IacSupervised, CcSupervised
  <2> QED
    BY <2>1, <2>2 DEF Serves
<1> HIDE DEF b
<1>4. Serves(x, sl_cc_busy(b), P)
  BY <1>2, <1>3, SmallRc, ServesChain
<1>5. su.type = "MSU" => Serves(x, InSequence(c, su), P)
  BY <1>2, InSequenceKeeps, SequenceCarries, ServesChain DEF Serves
<1>6. Serves(x, OutOfSequence(c, su), P)
  BY <1>2, OutOfSequenceKeeps, SequenceCarries, ServesChain DEF Serves
<1>7. \/ su.type = "MSU" /\ SuAccepted(x, su, next, own) = InSequence(c, su)
      \/ SuAccepted(x, su, next, own) \in {a, sl_cc_busy(b), c, OutOfSequence(c, su)}
  BY DEF SuAccepted, a, b, c
<1> QED
  BY <1>1, <1>2, <1>4, <1>5, <1>6, <1>7

\* The basic procedure's check of the FIB.
LEMMA FibCheckedCarries ==
  ASSUME NEW x, NEW P, NEW su \in Su, NEW next, NEW own
  PROVE  Serves(x, FibChecked(x, su, next, own), P)
<1> DEFINE a == [x EXCEPT !.abnormal_fibr = 0]
           b == [x EXCEPT !.unf = 1]
           c == [x EXCEPT !.abnormal_fibr = 1, !.unf = 0]
<1>1. Carries(x, a, P) /\ Carries(x, b, P) /\ Carries(x, c, P)
  BY SMT DEF Carries, Core, Serving
<1>2. Keeps(x, a, P) /\ Keeps(x, b, P) /\ Keeps(x, c, P)
  BY SMT DEF Keeps, Core, Link, IacSupervised, CcSupervised
<1> HIDE DEF a, b, c
<1>3. Serves(x, SuAccepted(a, su, next, own), P)
  BY <1>1, <1>2, SuAcceptedCarries, ServesChain DEF Serves
<1>4. FibChecked(x, su, next, own) \in
        {b, SuAccepted(a, su, next, own), sl_lsc_link_failure(x), AckReceived(x, su), c}
  BY DEF FibChecked, a, b, c
<1>5. Serves(x, b, P) /\ Serves(x, c, P)
  BY <1>1, <1>2 DEF Serves
<1> QED
  BY <1>3, <1>4, <1>5, LeavesCarry, AckReceivedCarries

\* Any received unit.
LEMMA SignalUnitCarries ==
  ASSUME NEW x, NEW P, NEW su \in Su, NEW next, NEW own
  PROVE  Serves(x, sl_rc_signal_unit(x, su, next, own), P)
<1> DEFINE b == su.bsn
<1>0. b \in Sn
  BY SuFields
<1> HIDE DEF b
<1> DEFINE r == [x EXCEPT !.rRbsn = b]
<1>1. Serves(x, r, P)
  <2>1. Carries(x, r, P)
    BY SMT DEF Carries, Core, Serving
  <2>2. Keeps(x, r, P)
    BY <1>0, SMT DEF Keeps, Core, Link, IacSupervised, CcSupervised
  <2> QED
    BY <2>1, <2>2 DEF Serves
<1> HIDE DEF r
<1> DEFINE a == [r EXCEPT !.abnormal_bsnr = 0]
           u == [r EXCEPT !.unb = 1]
<1>2. Carries(r, a, P) /\ Carries(r, u, P)
  BY SMT DEF Carries, Core, Serving
<1>3. Keeps(r, a, P) /\ Keeps(r, u, P)
  BY SMT DEF Keeps, Core, Link, IacSupervised, CcSupervised
<1> HIDE DEF a, u
<1>4. Serves(x, a, P) /\ Serves(x, u, P)
  BY <1>1, <1>2, <1>3, ServesChain DEF Serves
<1>5. Serves(x, SuAccepted(a, su, next, own), P) /\ Serves(x, FibChecked(a, su, next, own), P)
  BY <1>4, SuAcceptedCarries, FibCheckedCarries, ServesChain
<1>6. Serves(x, AbnormalBsnr(r), P)
  BY <1>1, AbnormalBsnrCarries, ServesChain
<1>7. su.type = "LSSU" => Serves(x, LssuReceived(r, su.sio), P)
  BY <1>1, SuFields, LssuCarries, ServesChain
<1>8. \/ su.type = "LSSU" /\ sl_rc_signal_unit(x, su, next, own) = LssuReceived(r, su.sio)
      \/ sl_rc_signal_unit(x, su, next, own) \in
           {x, AbnormalBsnr(r), u, SuAccepted(a, su, next, own), FibChecked(a, su, next, own)}
  BY DEF sl_rc_signal_unit, a, u, r, b
<1> QED
  BY <1>4, <1>5, <1>6, <1>7, <1>8, ServesEarly

------------------------------------------------------------------------------
\* Error monitors and wakeups.

\* A unit in error: the signal unit error rate monitor may fail the link.
LEMMA InErrorParts ==
  ASSUME NEW y, NEW P
  PROVE  Serves(y, sl_suerm_su_in_error(y), P) /\ Serves(y, sl_aerm_su_in_error(y), P)
<1>1. Carries(y, sl_suerm_su_in_error(y), P)
  <2> DEFINE a == [y EXCEPT !.Cs = @ + 1]
  <2>1. Carries(y, a, P)
    BY SMT DEF Carries, Core, Serving
  <2>2. Keeps(y, a, P)
    BY SMT DEF Keeps, Core, Link, IacSupervised, CcSupervised
  <2> HIDE DEF a
  <2> DEFINE b == sl_lsc_link_failure(a)
  <2>3. Serves(y, Leaked(a), P) /\ Serves(y, b, P)
    BY <2>1, <2>2, SmallRc, LeavesCarry, ServesChain DEF Serves
  <2> HIDE DEF b
  <2> DEFINE c == [b EXCEPT !.Ca = @ - 1, !.suerm = "IDLE"]
  <2>4. Carries(b, c, P)
    BY SMT DEF Carries, Core, Serving
  <2> HIDE DEF c
  <2>5. Carries(y, c, P) /\ Carries(y, Leaked(a), P)
    BY <2>3, <2>4 DEF Serves, Carries, Keeps
  <2>6. sl_suerm_su_in_error(y) \in {y, c, Leaked(a)}
    BY DEF sl_suerm_su_in_error, a, b, c
  <2> QED
    BY <2>5, <2>6 DEF Carries
<1>2. Carries(y, sl_aerm_su_in_error(y), P)
  <2> DEFINE a == [y EXCEPT !.aborted_proving = 1]
             d == [y EXCEPT !.Ca = @ + 1]
  <2>1. Carries(y, a, P) /\ Carries(y, d, P)
    BY SMT DEF Carries, Core, Serving
  <2>2. Keeps(y, a, P)
    BY SMT DEF Keeps, Core, Link, IacSupervised, CcSupervised
  <2> HIDE DEF a, d
  <2> DEFINE b == sl_iac_abort_proving(a)
  <2>3. Serves(y, b, P)
    BY <2>1, <2>2, IacCarries, ServesChain DEF Serves
  <2> HIDE DEF b
  <2> DEFINE c == [b EXCEPT !.aerm = "IDLE"]
  <2>4. Carries(b, c, P)
    BY SMT DEF Carries, Core, Serving
  <2> HIDE DEF c
  <2>5. Carries(y, c, P)
    BY <2>3, <2>4 DEF Serves, Carries, Keeps
  <2>6. sl_aerm_su_in_error(y) \in {y, c, d}
    BY DEF sl_aerm_su_in_error, a, b, c, d
  <2> QED
    BY <2>1, <2>5, <2>6 DEF Carries
<1> QED
  BY <1>1, <1>2, SuermInError, AermInError DEF Serves

\* All the monitors.
LEMMA InErrorCarries == ASSUME NEW x, NEW P PROVE Serves(x, sl_daedr_su_in_error(x), P)
<1>1. ASSUME NEW y
      PROVE Serves(y, sl_suerm_su_in_error(y), P) /\ Serves(y, sl_aerm_su_in_error(y), P)
  BY InErrorParts
<1> QED
  BY <1>1, SmallRc, ServesChain, ServesEarly DEF sl_daedr_su_in_error

\* A correct unit.
LEMMA ReceivedCarries ==
  ASSUME NEW x, NEW P, NEW su \in Su, NEW next, NEW own
  PROVE  Serves(x, sl_daedr_received_bits(x, su, next, own), P)
<1>1. ASSUME NEW y PROVE Serves(y, sl_suerm_correct_su(y), P)
  BY SmallRc, ServesEarly DEF sl_suerm_correct_su
<1>2. ASSUME NEW y PROVE Serves(y, sl_aerm_correct_su(y), P)
  <2> DEFINE a == sl_iac_correct_su(y)
  <2>1. Serves(y, a, P)
    BY IacCarries
  <2> HIDE DEF a
  <2>2. Carries(a, [a EXCEPT !.aborted_proving = 0], P)
    BY SMT DEF Carries, Core, Serving
  <2>3. Carries(y, sl_aerm_correct_su(y), P)
    BY <2>1, <2>2 DEF sl_aerm_correct_su, a, Serves, Carries, Keeps
  <2> QED
    BY <2>3, AermCorrect DEF Serves
<1>3. ASSUME NEW y PROVE Serves(y, sl_daedr_correct_su(y), P)
  BY <1>1, <1>2, SmallRc, ServesChain DEF sl_daedr_correct_su
<1> QED
  BY <1>3, SignalUnitCarries, ServesChain, ServesEarly DEF sl_daedr_received_bits

\* Delivery to level 3.
LEMMA DeliveryCarries ==
  ASSUME NEW x, NEW P, NEW k \in 1..Len(x.rb) PROVE Serves(x, sl_rx_wakeup(x, k), P)
<1>1. Carries(x, sl_rx_wakeup(x, k), P)
  <2> DEFINE q == Dropped(x.rb, Len(DeliverableRb(x, k)))
             c == (x.Cr - Len(DeliverableRb(x, k))) % CtrMod
  <2> HIDE DEF q, c
  <2>1. Carries(x, [x EXCEPT !.rb = <<>>], P) /\ Carries(x, [x EXCEPT !.rb = q, !.Cr = c], P)
    BY SMT DEF Carries, Core, Serving
  <2>2. sl_rx_wakeup(x, k) \in {[x EXCEPT !.rb = <<>>], [x EXCEPT !.rb = q, !.Cr = c]}
    BY SMT DEF sl_rx_wakeup, q, c
  <2> QED
    BY <2>1, <2>2
<1> QED
  BY <1>1, RxWakeupKeeps DEF Serves

------------------------------------------------------------------------------
\* Timer expiries.  Serving speaks of T7 alone.
LEMMA OnlyT7 ==
  ASSUME NEW x, NEW P, NEW t, Serving(x, P \cup {t}),
         t # "t7" \/ x.lsc # "IN_SERVICE"
  PROVE  Serving(x, P)
  BY DEF Serving

\* T1 takes the link out of service, T2 and T3 give up alignment.
LEMMA TimeoutCarries ==
  ASSUME NEW x, NEW P
  PROVE  /\ Carries(x, sl_t1_expiry(x), P)
         /\ Carries(x, sl_t2_expiry(x), P)
         /\ Carries(x, sl_t3_expiry(x), P)
<1> USE DEF sl_out_of_service_ind, sl_rc_stop, sl_cc_normal, sl_suerm_stop,
            sl_txc_send_sios, sl_poc_stop, AlignmentTimeout, sl_lsc_alignment_not_possible
<1>1. Carries(x, sl_t1_expiry(x), P)
  BY SMT DEF Carries, Core, Serving, sl_t1_expiry
<1>2. Carries(x, sl_t2_expiry(x), P)
  BY SMT DEF Carries, Core, Serving, sl_t2_expiry
<1>3. Carries(x, sl_t3_expiry(x), P)
  BY SMT DEF Carries, Core, Serving, sl_t3_expiry
<1> QED
  BY <1>1, <1>2, <1>3

\* T4 completes alignment: an outage of the time before is told.
LEMMA ProvenCarries == ASSUME NEW x, NEW P PROVE Carries(x, sl_t4_expiry(x), P)
<1> SUFFICES ASSUME Core(x, P), Serving(x, P), x.iac = "PROVING"
             PROVE  Serving(sl_t4_expiry(x), P)
  BY DEF Carries, sl_t4_expiry
<1>1. Serving(Prove(x), P)
  BY SMT DEF Core, Serving, Prove, sl_aerm_start
<1> DEFINE w == sl_timer_start(sl_suerm_start(x), "t1")
<1>2. /\ DOMAIN w = Fields /\ Serving(w, P) /\ w.lsc = x.lsc
      /\ w.local_processor_outage \in Flag
  BY SMT DEF Core, Serving, sl_timer_start, sl_suerm_start, sl_eim_start
<1> HIDE DEF w
<1> DEFINE p == sl_txc_send_sipo(IF ANSI THEN w ELSE sl_poc_local_processor_outage(w))
           a == [(IF PVAR # "ITUT_93" THEN sl_rc_reject_msu_fisu(p) ELSE p) EXCEPT
                   !.lsc = "ALIGNED_NOT_READY"]
           b == [sl_rc_accept_msu_fisu(sl_txc_send_msu(w)) EXCEPT !.lsc = "ALIGNED_READY"]
           c == sl_lsc_alignment_complete(x)
           Done(u) == [sl_aerm_stop(u) EXCEPT !.emergency = 0, !.iac = "IDLE"]
           Prepared(u) == /\ DOMAIN u = Fields /\ Traffic(u, P) /\ Outage(u) /\ Congestion(u)
                          /\ (u.rc = "IDLE" <=> u.lsc \in Down)
                          /\ (u.lsc \notin Down => u.txc = "IN_SERVICE")
<1>3. x.lsc = "INITIAL_ALIGNMENT" => Prepared(a)
  BY <1>2, SMT DEF Serving, sl_txc_send_sipo, sl_poc_local_processor_outage, sl_rc_reject_msu_fisu
<1>4. x.lsc = "INITIAL_ALIGNMENT" /\ w.local_processor_outage # 1 => Prepared(b)
  BY <1>2, SMT DEF Serving, sl_txc_send_msu, sl_rc_accept_msu_fisu
<1>5. Prepared(x)
  BY DEF Core, Serving
<1>6. Prepared(c)
  <2> HIDE DEF Prepared
  <2> QED
    BY <1>3, <1>4, <1>5 DEF sl_lsc_alignment_complete, w
<1> HIDE DEF c
<1>7. Serving(Done(c), P)
  BY <1>6, SMT DEF Serving, sl_aerm_stop
<1> QED
  BY <1>1, <1>7 DEF sl_t4_expiry, c

\* T5, T6, T7 and T8: busy again, or the link fails.
LEMMA FailCarries ==
  ASSUME NEW x, NEW P
  PROVE  /\ Carries(x, sl_t5_expiry(x), P)
         /\ Carries(x, sl_t6_expiry(x), P)
         /\ Carries(x, sl_t7_expiry(x), P)
         /\ Carries(x, sl_t8_expiry(x), P)
         /\ Core(x, P) => sl_t7_expiry(x).lsc \in Down
<1>1. Carries(x, sl_t5_expiry(x), P)
  BY SMT DEF Carries, Core, Serving, sl_t5_expiry, sl_timer_start, sl_txc_send_sib
<1> DEFINE a == sl_lsc_link_failure(x)
<1>2. Carries(x, a, P) /\ (Core(x, P) => Core(a, P) /\ a.lsc \in Down)
  <2>1. Carries(x, a, P)
    BY LeavesCarry DEF Serves
  <2>2. Core(x, P) => Core(a, P) /\ a.lsc \in Down
    BY LinkFailure DEF Keeps
  <2> QED
    BY <2>1, <2>2
<1> HIDE DEF a
<1>3. Carries(x, sl_t6_expiry(x), P)
  <2> DEFINE y == sl_timer_stop([a EXCEPT !.sib_received = 0], "t7")
  <2>1. Core(a, P) /\ a.lsc \in Down /\ Serving(a, P) => Serving(y, P)
    BY SMT DEF Core, Serving, sl_timer_stop
  <2> HIDE DEF y
  <2>2. sl_t6_expiry(x) = y
    BY DEF sl_t6_expiry, y, a
  <2> HIDE DEF Down
  <2> QED
    BY <1>2, <2>1, <2>2 DEF Carries
<1>4. Carries(x, sl_t7_expiry(x), P) /\ (Core(x, P) => sl_t7_expiry(x).lsc \in Down)
  <2> DEFINE b == sl_timer_stop(a, "t6")
             y == IF PVAR = "ITUT_96" THEN [b EXCEPT !.sib_received = 0] ELSE b
  <2>1. Core(a, P) /\ a.lsc \in Down => (Serving(a, P) => Serving(y, P)) /\ y.lsc \in Down
    BY SMT DEF Core, Serving, sl_timer_stop
  <2> HIDE DEF y
  <2>2. sl_t7_expiry(x) = y
    BY DEF sl_t7_expiry, y, b, a
  <2> HIDE DEF Down
  <2> QED
    BY <1>2, <2>1, <2>2 DEF Carries
<1>5. Carries(x, sl_t8_expiry(x), P)
  <2> DEFINE r == sl_timer_start(x, "t8")
             more == r.Ce + Ue
             less == IF r.Ce < De THEN 0 ELSE r.Ce - De
  <2>1. Serves(x, r, P)
    <3>1. Carries(x, r, P)
      BY SMT DEF Carries, Core, Serving, sl_timer_start
    <3>2. Keeps(x, r, P)
      BY SMT DEF Keeps, Core, Link, IacSupervised, CcSupervised, sl_timer_start
    <3> QED
      BY <3>1, <3>2 DEF Serves
  <2> HIDE DEF r
  <2>2. Core(x, P) => more \in Nat /\ less \in Nat
    <3>1. Core(r, P) => r.Ce \in Nat
      BY DEF Core
    <3>2. Core(x, P) => Core(r, P)
      BY <2>1 DEF Serves, Keeps
    <3> QED
      BY <3>1, <3>2, NumberAssumption
  <2> HIDE DEF more, less
  <2> DEFINE c == [r EXCEPT !.su_received = 0, !.Ce = more, !.interval_error = 0]
             g == [r EXCEPT !.su_received = 0, !.Ce = less]
  <2>3. Carries(r, c, P) /\ Carries(r, g, P)
    BY SMT DEF Carries, Core, Serving
  <2>4. more \in Nat => Keeps(r, c, P)
    BY SMT DEF Keeps, Core, Link, IacSupervised, CcSupervised
  <2> HIDE DEF c, g
  <2> DEFINE b == sl_lsc_link_failure(c)
  <2>5. Serves(c, b, P)
    BY LeavesCarry
  <2> HIDE DEF b
  <2> DEFINE e == [b EXCEPT !.eim = "IDLE"]
  <2>6. Carries(b, e, P)
    BY SMT DEF Carries, Core, Serving
  <2> HIDE DEF e
  <2>7. sl_t8_expiry(x) \in {x, g, e, c}
    BY DEF sl_t8_expiry, g, c, b, e, r, more, less
  <2>8. Carries(x, g, P) /\ Carries(x, c, P) /\ Carries(x, e, P)
    <3> HIDE DEF SlState
    <3> QED
      BY <2>1, <2>2, <2>3, <2>4, <2>5, <2>6 DEF Serves, Carries, Keeps
  <2> QED
    BY <2>7, <2>8 DEF Carries
<1> QED
  BY <1>1, <1>3, <1>4, <1>5

\* The handler of any expiry: from the invariant with t among the expiries
\* to the invariant without it.
LEMMA ExpiryServing ==
  ASSUME NEW x, NEW P, NEW t \in Timer, Core(x, P \cup {t}), Serving(x, P \cup {t})
  PROVE  Serving(sl_r_pcrse(x, t), P)
<1> DEFINE y == sl_r_pcrse(x, t)
           Q == P \cup {t}
<1>1. Carries(x, y, Q) /\ (t = "t7" => y.lsc \in Down)
  <2>1. ASSUME t = "t7" PROVE Carries(x, y, Q) /\ y.lsc \in Down
    BY <2>1, FailCarries DEF sl_r_pcrse
  <2>2. CASE t \in {"t1", "t2", "t3"}
    BY <2>2, TimeoutCarries DEF sl_r_pcrse
  <2>3. CASE t = "t4"
    BY <2>3, ProvenCarries DEF sl_r_pcrse
  <2>4. CASE t \in {"t5", "t6", "t8"}
    BY <2>4, FailCarries DEF sl_r_pcrse
  <2> QED
    BY <2>1, <2>2, <2>3, <2>4
<1> HIDE DEF y
<1>2. Serving(y, Q)
  BY <1>1 DEF Carries
<1>3. Serving(y, P)
  BY <1>1, <1>2, OnlyT7
<1> QED
  BY <1>3 DEF y

------------------------------------------------------------------------------
\* What is told of an outage stays told.  Kept is no invariant: a peer's SIPO
\* takes a link that sends FISU into PROCESSOR_OUTAGE.  Every other function of
\* a handler keeps it, and that one does in an outage.
Kept(x) == Blocked(x) => Told(x)
Holds(x, y, P) == Core(x, P) /\ Serving(x, P) /\ Kept(x) => Kept(y)

USE DEF Kept, Blocked, Told

\* A function that calls another one holds what both hold.
LEMMA HoldsChain ==
  ASSUME NEW x, NEW y, NEW z, NEW P, Serves(x, y, P), Holds(x, y, P), Holds(y, z, P)
  PROVE  Holds(x, z, P)
<1> HIDE DEF Kept, SlState, Running, Traffic, Outage, Congestion
<1> QED
  BY DEF Holds, Serves, Keeps, Carries

\* A function that leaves link state control and the status alone, or the outage.
LEMMA HoldsQuiet ==
  ASSUME NEW x, NEW y, NEW P,
         Core(x, P) /\ Serving(x, P) =>
           \/ y.lsc = x.lsc /\ y.sio = x.sio /\ y.lssu_available = x.lssu_available
           \/ y.lsc \notin {"ALIGNED_NOT_READY", "PROCESSOR_OUTAGE"}
  PROVE  Holds(x, y, P)
<1> HIDE DEF SlState, Running, Traffic, Outage, Congestion
<1> QED
  BY DEF Holds

\* Alignment, before which and during which there is no outage, and its end.
LEMMA IacHolds ==
  ASSUME NEW x, NEW P
  PROVE  /\ Holds(x, sl_iac_sio(x), P) /\ Holds(x, sl_iac_sin(x), P)
         /\ Holds(x, sl_iac_sie(x), P) /\ Holds(x, sl_iac_sios(x), P)
         /\ Holds(x, sl_iac_abort_proving(x), P) /\ Holds(x, sl_iac_correct_su(x), P)
         /\ Holds(x, sl_lsc_emergency(x), P)
<1> USE DEF ToAligned, Prove, sl_aerm_start, sl_aerm_stop, sl_aerm_set_ti_to_tie,
            sl_timer_stop, sl_txc_send_sie, sl_txc_send_sin, sl_lsc_alignment_not_possible,
            sl_txc_send_sios, sl_rc_stop, sl_cc_normal, sl_out_of_service_ind
<1>1. Holds(x, sl_iac_sio(x), P)
  BY SMT DEF Holds, Core, Serving, sl_iac_sio
<1>2. Holds(x, sl_iac_sin(x), P)
  BY SMT DEF Holds, Core, Serving, sl_iac_sin
<1>3. Holds(x, sl_iac_sie(x), P)
  BY SMT DEF Holds, Core, Serving, sl_iac_sie
<1>4. Holds(x, sl_iac_sios(x), P)
  BY SMT DEF Holds, Core, Serving, sl_iac_sios
<1>5. Holds(x, sl_iac_abort_proving(x), P)
  BY SMT DEF Holds, Core, Serving, sl_iac_abort_proving
<1>6. Holds(x, sl_iac_correct_su(x), P)
  BY SMT DEF Holds, Core, Serving, sl_iac_correct_su
<1>7. Holds(x, sl_lsc_emergency(x), P)
  BY SMT DEF Holds, Core, Serving, sl_lsc_emergency, sl_iac_emergency
<1> QED
  BY <1>1, <1>2, <1>3, <1>4, <1>5, <1>6, <1>7

\* The ways out of service end the outage.
LEMMA LeavesHold ==
  ASSUME NEW x, NEW P
  PROVE  /\ Holds(x, sl_lsc_link_failure(x), P) /\ Holds(x, sl_lsc_stop(x), P)
         /\ Holds(x, sl_lsc_sio(x), P) /\ Holds(x, sl_lsc_sios(x), P)
         /\ Holds(x, SinOrSie(x), P)
<1>0. ASSUME NEW u, DOMAIN u = Fields PROVE OutOfService(u).lsc = "OUT_OF_SERVICE"
  BY <1>0, SMT DEF OutOfService, sl_poc_stop, sl_txc_send_sios, sl_rc_stop, sl_cc_normal,
                   sl_suerm_stop
<1>1. Holds(x, sl_lsc_link_failure(x), P)
  <2> DEFINE u == sl_timer_stop(sl_iac_stop(sl_out_of_service_ind(x)), "t1")
  <2>1. Core(x, P) => DOMAIN u = Fields
    BY SMT DEF Core, sl_timer_stop, sl_iac_stop, sl_out_of_service_ind, sl_aerm_stop
  <2> HIDE DEF u
  <2> QED
    BY <1>0, <2>1, HoldsQuiet DEF sl_lsc_link_failure, u
<1>2. Holds(x, sl_lsc_stop(x), P)
  <2> DEFINE u == sl_timer_stop(sl_iac_stop(x), "t1")
             o == OutOfService(u)
  <2>1. Core(x, P) => DOMAIN u = Fields
    BY SMT DEF Core, sl_timer_stop, sl_iac_stop, sl_aerm_stop
  <2> HIDE DEF u
  <2>2. Core(x, P) => o.lsc = "OUT_OF_SERVICE"
    BY <1>0, <2>1
  <2> HIDE DEF o
  <2>3. o.lsc = "OUT_OF_SERVICE" =>
          [o EXCEPT !.l3 = "stopped"].lsc \notin {"ALIGNED_NOT_READY", "PROCESSOR_OUTAGE"}
    OBVIOUS
  <2> QED
    BY <2>2, <2>3, HoldsQuiet DEF sl_lsc_stop, u, o
<1> USE DEF OutOfService, sl_poc_stop, sl_txc_send_sios, sl_rc_stop, sl_cc_normal,
            sl_suerm_stop, sl_out_of_service_ind, sl_timer_stop
<1>3. Holds(x, sl_lsc_sio(x), P)
  BY SMT DEF Holds, Core, sl_lsc_sio
<1>4. Holds(x, sl_lsc_sios(x), P)
  BY SMT DEF Holds, Core, sl_lsc_sios
<1>5. Holds(x, SinOrSie(x), P)
  BY SMT DEF Holds, Core, SinOrSie
<1> QED
  BY <1>1, <1>2, <1>3, <1>4, <1>5

\* Congestion control may put SIB in the place of SIPO.
LEMMA CongestionHolds ==
  ASSUME NEW x, NEW P, NEW next, NEW own
  PROVE  /\ Holds(x, sl_cc_busy(x), P)
         /\ Holds(x, sl_lsc_congestion_discard(x), P)
         /\ Holds(x, sl_lsc_congestion_accept(x), P)
         /\ Holds(x, sl_lsc_no_congestion(x), P)
         /\ Holds(x, sl_rb_congestion_function(x, next, own), P)
<1> USE DEF sl_cc_busy, sl_cc_normal, sl_timer_start, sl_txc_send_sib, sl_txc_fsnx_value,
            sl_txc_nack_to_be_sent, sl_rc_congestion_discard, sl_rc_congestion_accept,
            sl_rc_no_congestion
<1>1. Holds(x, sl_cc_busy(x), P)
  BY SMT DEF Holds, Core
<1>2. Holds(x, sl_lsc_congestion_discard(x), P)
  BY SMT DEF Holds, Core, sl_lsc_congestion_discard
<1>3. Holds(x, sl_lsc_congestion_accept(x), P)
  BY SMT DEF Holds, Core, sl_lsc_congestion_accept
<1>4. Holds(x, sl_lsc_no_congestion(x), P)
  BY SMT DEF Holds, Core, sl_lsc_no_congestion
<1>5. Holds(x, sl_rb_congestion_function(x, next, own), P)
  BY SMT DEF Holds, Core, sl_rb_congestion_function
<1> QED
  BY <1>1, <1>2, <1>3, <1>4, <1>5

\* The processors' outages: a FISU or MSU ends an outage or leaves SIPO alone,
\* and so does the peer's SIPO where the outage lasts already.
LEMMA OutageHolds ==
  ASSUME NEW x, NEW P
  PROVE  /\ Holds(x, sl_lsc_local_processor_outage(x), P)
         /\ Holds(x, sl_lsc_fisu_msu_received(x), P)
         /\ Holds(x, sl_lsc_sib(x), P)
         /\ Blocked(x) => Holds(x, sl_lsc_sipo(x), P)
<1> USE DEF sl_txc_send_sipo, sl_txc_send_msu, sl_txc_fsnx_value, sl_timer_stop,
            sl_rc_reject_msu_fisu, sl_rc_accept_msu_fisu, sl_rc_align_fsnx, sl_cc_normal,
            sl_poc_local_processor_outage, sl_poc_remote_processor_outage,
            sl_lsc_no_processor_outage, sl_in_service_ind, ITUT9x, ANSI
<1>1. Holds(x, sl_lsc_local_processor_outage(x), P)
  BY SMT DEF Holds, Core, sl_lsc_local_processor_outage
<1>2. Holds(x, sl_lsc_fisu_msu_received(x), P)
  BY SMT DEF Holds, Core, sl_lsc_fisu_msu_received, sl_poc_remote_processor_recovered
<1>3. Holds(x, sl_lsc_sib(x), P)
  BY SMT DEF Holds, Core, sl_lsc_sib, sl_txc_sib_received
<1>4. Blocked(x) => Holds(x, sl_lsc_sipo(x), P)
  BY SMT DEF Holds, Core, sl_lsc_sipo
<1> QED
  BY <1>1, <1>2, <1>3, <1>4

\* Acknowledgements: the one that follows a clearing of the buffer may end the outage.
LEMMA AckHolds ==
  ASSUME NEW x, NEW P, NEW su \in Su PROVE Holds(x, AckReceived(x, su), P)
<1> DEFINE bsn == su.bsn
           bib == su.bib
           s0 == [x EXCEPT !.tRbsn = bsn]
           AsIs(u, v) == /\ DOMAIN v = Fields /\ v.lsc = u.lsc /\ v.sio = u.sio
                         /\ v.lssu_available = u.lssu_available
           Over(u, v) == DOMAIN u = Fields =>
                           AsIs(u, v) \/ (DOMAIN v = Fields /\ v.lsc = "IN_SERVICE")
<1>1. Over(x, s0)
  BY SMT
<1>2. ASSUME NEW y PROVE Over(y, SibOver(y)) /\ (DOMAIN y = Fields => AsIs(y, SibOver(y)))
  BY SMT DEF SibOver
<1>3. ASSUME NEW y PROVE DOMAIN y = Fields => AsIs(y, sl_check_congestion(y))
  BY SMT DEF sl_check_congestion
<1>4. ASSUME NEW y PROVE Over(y, Acknowledged(y, bsn))
  <2> DEFINE o == SibOver(y)
             next == (bsn + 1) % Mod
             k == (bsn + 1 - y.Ffsn) % Mod
             q == Dropped(o.rtb, k)
             ct == (o.Ct - k) % CtrMod
  <2> HIDE DEF next, k, q, ct
  <2> DEFINE e == [o EXCEPT !.rtb = q, !.Ct = ct, !.Ffsn = next]
             c == sl_check_congestion(e)
             rewind == SN_OUTSIDE(next, y.Z, y.Lfsn) \/ e.rtb = <<>>
             tm == IF e.rtb = <<>> THEN c.tm \ {"t7"} ELSE c.tm \cup {"t7"}
             z == IF rewind THEN next ELSE c.Z
             p == IF rewind THEN (IF e.rtb = <<>> THEN 0 ELSE 1) ELSE PosAfter(c.pos, k)
             full == IF ~PCR \/ Len(e.rtb) < N1 THEN 0 ELSE c.rtb_full
  <2>1. Acknowledged(y, bsn) = [c EXCEPT !.tm = tm, !.rtb_full = full, !.Z = z, !.pos = p]
    BY DEF Acknowledged, next, k, q, ct
  <2> HIDE DEF tm, z, p, full, o
  <2>2. DOMAIN o = Fields => AsIs(o, e)
    BY SMT
  <2> HIDE DEF e
  <2>3. DOMAIN e = Fields => AsIs(e, c)
    BY <1>3
  <2> HIDE DEF c
  <2>4. DOMAIN c = Fields => AsIs(c, Acknowledged(y, bsn))
    BY <2>1, SMT
  <2>5. DOMAIN y = Fields => AsIs(y, o)
    BY <1>2 DEF o
  <2> HIDE DEF Fields
  <2> QED
    BY <2>2, <2>3, <2>4, <2>5
<1>5. ASSUME NEW y PROVE Over(y, Nacked(y, bib))
  BY SMT DEF Nacked, SibOver
<1>6. ASSUME NEW y PROVE Over(y, RtbClearedBy(y, bsn, bib))
  <2> DEFINE next == (bsn + 1) % Mod
             c == sl_check_congestion([y EXCEPT !.rtb = <<>>, !.Ct = 0])
             a == [c EXCEPT !.Ffsn = next, !.Lfsn = bsn, !.Nfsn = bsn, !.Nfib = bib,
                            !.Z = next, !.pos = 0]
             b == sl_lsc_rtb_cleared(a)
  <2>1. DOMAIN y = Fields => AsIs(y, c)
    BY SMT DEF sl_check_congestion
  <2> HIDE DEF c, next
  <2>2. DOMAIN c = Fields => AsIs(c, a)
    BY SMT
  <2> HIDE DEF a
  <2>3. Over(a, b)
    BY SMT DEF sl_lsc_rtb_cleared, sl_txc_send_msu
  <2> HIDE DEF b
  <2>4. DOMAIN b = Fields => AsIs(b, [b EXCEPT !.clear_rtb = 0, !.rtb_full = 0])
    BY SMT
  <2>5. RtbClearedBy(y, bsn, bib) = [b EXCEPT !.clear_rtb = 0, !.rtb_full = 0]
    BY DEF RtbClearedBy, next, c, a, b
  <2> HIDE DEF Fields
  <2> QED
    BY <2>1, <2>2, <2>3, <2>4, <2>5
<1> DEFINE a == IF s0.Ffsn # (bsn + 1) % Mod THEN Acknowledged(s0, bsn) ELSE s0
           w == sl_txc_bsnr_and_bibr(x, bsn, bib)
<1>7. w \in {a, Nacked(a, bib), RtbClearedBy(s0, bsn, bib)} /\ a \in {s0, Acknowledged(s0, bsn)}
  BY DEF sl_txc_bsnr_and_bibr
<1> HIDE DEF s0, a, w, bsn, bib
<1>8. Over(x, w)
  <2> HIDE DEF Fields
  <2>1. Over(x, a)
    BY <1>1, <1>4, <1>7
  <2>2. Over(x, Nacked(a, bib)) /\ Over(x, RtbClearedBy(s0, bsn, bib))
    BY <1>1, <1>5, <1>6, <2>1
  <2> QED
    BY <1>7, <2>1, <2>2
<1>9. AckReceived(x, su) = [w EXCEPT !.rFfsn = (bsn + 1) % Mod]
  BY DEF AckReceived, w, bsn, bib
<1> DEFINE n == (bsn + 1) % Mod
<1> HIDE DEF n
<1>10. DOMAIN w = Fields => AsIs(w, [w EXCEPT !.rFfsn = n])
  BY SMT
<1>11. Core(x, P) => DOMAIN x = Fields
  BY DEF Core
<1> HIDE DEF Fields
<1> QED
  BY <1>8, <1>9, <1>10, <1>11, HoldsQuiet DEF n

\* Functions that leave link state control and the status alone.
LEMMA SmallHolds ==
  ASSUME NEW x, NEW P, NEW su
  PROVE  /\ Holds(x, sl_eim_su_in_error(x), P) /\ Holds(x, sl_eim_correct_su(x), P)
         /\ Holds(x, Leaked(x), P)
         /\ Holds(x, InSequence(x, su), P) /\ Holds(x, OutOfSequence(x, su), P)
<1> USE DEF sl_cc_busy, sl_timer_start, sl_txc_send_sib, sl_txc_fsnx_value,
            sl_txc_nack_to_be_sent
<1>1. Holds(x, sl_eim_su_in_error(x), P) /\ Holds(x, sl_eim_correct_su(x), P)
  BY SMT DEF Holds, Core, sl_eim_su_in_error, sl_eim_correct_su
<1>2. Holds(x, Leaked(x), P)
  BY SMT DEF Holds, Core, Leaked
<1>3. Holds(x, InSequence(x, su), P)
  BY SMT DEF Holds, Core, InSequence
<1>4. Holds(x, OutOfSequence(x, su), P)
  BY SMT DEF Holds, Core, OutOfSequence
<1> QED
  BY <1>1, <1>2, <1>3, <1>4

\* Both: the invariant and what is told.
Guards(x, y, P) == Serves(x, y, P) /\ Holds(x, y, P)

\* Guards chains like its parts, and a function that returns early guards all.
LEMMA GuardsChain ==
  ASSUME NEW x, NEW y, NEW z, NEW P, Guards(x, y, P), Guards(y, z, P)
  PROVE  Guards(x, z, P)
  BY ServesChain, HoldsChain DEF Guards

LEMMA GuardsEarly == ASSUME NEW x, NEW P PROVE Guards(x, x, P)
<1>1. Holds(x, x, P)
  BY HoldsQuiet
<1> QED
  BY <1>1, ServesEarly DEF Guards

\* A FISU or MSU whose BSN and FIB are as expected.
LEMMA SuAcceptedGuards ==
  ASSUME NEW x, NEW P, NEW su \in Su, NEW next, NEW own
  PROVE  Guards(x, SuAccepted(x, su, next, own), P)
<1> DEFINE a == AckReceived(sl_lsc_fisu_msu_received(x), su)
<1>1. Guards(x, a, P)
  BY OutageCarries, OutageHolds, AckReceivedCarries, AckHolds, GuardsChain DEF Guards
<1> HIDE DEF a
<1> DEFINE c == sl_rb_congestion_function(a, next, own)
<1>2. Guards(x, c, P)
  BY <1>1, CongestionCarries, CongestionHolds, GuardsChain DEF Guards
<1> HIDE DEF c
<1> DEFINE b == [c EXCEPT !.rtr = IF PCR THEN @ ELSE 1]
<1>3. Guards(c, b, P)
  <2>1. Carries(c, b, P)
    BY SMT DEF Carries, Core, Serving
  <2>2. Keeps(c, b, P)
    BY SMT DEF Keeps, Core, Link, IacSupervised, CcSupervised
  <2>3. Holds(c, b, P)
    BY SMT DEF Holds, Core
  <2> QED
    BY <2>1, <2>2, <2>3 DEF Guards, Serves
<1> HIDE DEF b
<1>4. Guards(x, sl_cc_busy(b), P)
  BY <1>2, <1>3, SmallRc, CongestionHolds, GuardsChain DEF Guards
<1>5. su.type = "MSU" => Holds(x, InSequence(c, su), P)
  BY <1>2, SmallHolds, HoldsChain DEF Guards
<1>6. Holds(x, OutOfSequence(c, su), P)
  BY <1>2, SmallHolds, HoldsChain DEF Guards
<1>7. \/ su.type = "MSU" /\ SuAccepted(x, su, next, own) = InSequence(c, su)
      \/ SuAccepted(x, su, next, own) \in {a, sl_cc_busy(b), c, OutOfSequence(c, su)}
  BY DEF SuAccepted, a, b, c
<1> QED
  BY <1>1, <1>2, <1>4, <1>5, <1>6, <1>7, SuAcceptedCarries DEF Guards

\* The basic procedure's check of the FIB.
LEMMA FibCheckedHolds ==
  ASSUME NEW x, NEW P, NEW su \in Su, NEW next, NEW own
  PROVE  Holds(x, FibChecked(x, su, next, own), P)
<1> DEFINE a == [x EXCEPT !.abnormal_fibr = 0]
           b == [x EXCEPT !.unf = 1]
           c == [x EXCEPT !.abnormal_fibr = 1, !.unf = 0]
<1>1. Carries(x, a, P) /\ Holds(x, a, P)
  BY SMT DEF Carries, Holds, Core, Serving
<1>2. Keeps(x, a, P)
  BY SMT DEF Keeps, Core, Link, IacSupervised, CcSupervised
<1>3. Holds(x, b, P) /\ Holds(x, c, P)
  BY SMT DEF Holds, Core
<1> HIDE DEF a, b, c
<1>4. Holds(x, SuAccepted(a, su, next, own), P)
  BY <1>1, <1>2, SuAcceptedGuards, HoldsChain DEF Guards, Serves
<1>5. FibChecked(x, su, next, own) \in
        {b, SuAccepted(a, su, next, own), sl_lsc_link_failure(x), AckReceived(x, su), c}
  BY DEF FibChecked, a, b, c
<1> QED
  BY <1>3, <1>4, <1>5, LeavesHold, AckHolds

\* A status unit, in an outage.
LEMMA LssuHolds ==
  ASSUME NEW x, NEW P, NEW i \in Sio, Blocked(x) PROVE Holds(x, LssuReceived(x, i), P)
<1>1. CASE i = "SIO"
  BY <1>1, IacCarries, IacHolds, LeavesHold, HoldsChain DEF LssuReceived
<1>2. CASE i = "SIN"
  BY <1>2, IacCarries, IacHolds, LeavesHold, HoldsChain DEF LssuReceived, sl_lsc_sin
<1>3. CASE i = "SIE"
  BY <1>3, IacCarries, IacHolds, LeavesHold, HoldsChain DEF LssuReceived, sl_lsc_sie
<1>4. CASE i = "SIOS"
  BY <1>4, IacCarries, IacHolds, LeavesHold, HoldsChain DEF LssuReceived
<1>5. CASE i = "SIPO"
  BY <1>5, OutageHolds DEF LssuReceived
<1>6. CASE i = "SIB"
  BY <1>6, OutageHolds DEF LssuReceived
<1> QED
  BY <1>1, <1>2, <1>3, <1>4, <1>5, <1>6

\* Any received unit, in an outage.
LEMMA SignalUnitHolds ==
  ASSUME NEW x, NEW P, NEW su \in Su, NEW next, NEW own, Blocked(x)
  PROVE  Holds(x, sl_rc_signal_unit(x, su, next, own), P)
<1> DEFINE b == su.bsn
           y == sl_rc_signal_unit(x, su, next, own)
<1>0. b \in Sn
  BY SuFields
<1> HIDE DEF b, y
<1> SUFFICES ASSUME DOMAIN x = Fields PROVE Holds(x, y, P)
  BY DEF Holds, Core, y
<1> DEFINE r == [x EXCEPT !.rRbsn = b]
<1>1. Guards(x, r, P) /\ Blocked(r)
  <2>1. Carries(x, r, P) /\ Holds(x, r, P)
    BY SMT DEF Carries, Holds, Core, Serving
  <2>2. Keeps(x, r, P)
    BY <1>0, SMT DEF Keeps, Core, Link, IacSupervised, CcSupervised
  <2>3. Blocked(r)
    BY SMT
  <2> QED
    BY <2>1, <2>2, <2>3 DEF Guards, Serves
<1> HIDE DEF r
<1> DEFINE a == [r EXCEPT !.abnormal_bsnr = 0]
           u == [r EXCEPT !.unb = 1]
           f == sl_lsc_link_failure(r)
<1>2. Carries(r, a, P) /\ Holds(r, a, P)
  BY SMT DEF Carries, Holds, Core, Serving
<1>3. Keeps(r, a, P)
  BY SMT DEF Keeps, Core, Link, IacSupervised, CcSupervised
<1>4. Holds(r, u, P)
  BY SMT DEF Holds, Core
<1>5. Holds(r, AbnormalBsnr(r), P)
  <2>1. Core(r, P) => Core(f, P) /\ f.lsc \in Down
    BY LinkFailure DEF Keeps
  <2> HIDE DEF f
  <2>2. Core(f, P) /\ f.lsc \in Down => [f EXCEPT !.rc = "IDLE"].lsc \in Down
    BY SMT DEF Core
  <2>3. Holds(r, [f EXCEPT !.rc = "IDLE"], P)
    BY <2>1, <2>2, HoldsQuiet
  <2>4. Holds(r, [r EXCEPT !.abnormal_bsnr = 1, !.unb = 0], P)
    BY SMT DEF Holds, Core
  <2> QED
    BY <2>3, <2>4 DEF AbnormalBsnr, f
<1> HIDE DEF a, u, f
<1>6. Holds(r, SuAccepted(a, su, next, own), P) /\ Holds(r, FibChecked(a, su, next, own), P)
  BY <1>2, <1>3, SuAcceptedGuards, FibCheckedHolds, HoldsChain DEF Guards, Serves
<1>7. su.type = "LSSU" => Holds(r, LssuReceived(r, su.sio), P)
  BY <1>1, SuFields, LssuHolds
<1>8. \/ y = x
      \/ su.type = "LSSU" /\ y = LssuReceived(r, su.sio)
      \/ y \in {AbnormalBsnr(r), u, SuAccepted(a, su, next, own), FibChecked(a, su, next, own)}
  BY DEF sl_rc_signal_unit, a, u, r, b, y
<1>9. y = x \/ Holds(r, y, P)
  BY <1>4, <1>5, <1>6, <1>7, <1>8
<1> QED
  BY <1>1, <1>9, GuardsEarly, HoldsChain DEF Guards

\* A unit in error.
LEMMA InErrorHolds == ASSUME NEW x, NEW P PROVE Holds(x, sl_daedr_su_in_error(x), P)
<1>1. ASSUME NEW y PROVE Guards(y, sl_suerm_su_in_error(y), P)
  <2> DEFINE a == [y EXCEPT !.Cs = @ + 1]
  <2>1. Carries(y, a, P) /\ Holds(y, a, P)
    BY SMT DEF Carries, Holds, Core, Serving
  <2>2. Keeps(y, a, P)
    BY SMT DEF Keeps, Core, Link, IacSupervised, CcSupervised
  <2> HIDE DEF a
  <2> DEFINE b == sl_lsc_link_failure(a)
  <2>3. Guards(y, Leaked(a), P) /\ Guards(y, b, P)
    BY <2>1, <2>2, SmallRc, SmallHolds, LeavesCarry, LeavesHold, GuardsChain DEF Guards, Serves
  <2> HIDE DEF b
  <2> DEFINE c == [b EXCEPT !.Ca = @ - 1, !.suerm = "IDLE"]
  <2>4. Holds(b, c, P)
    BY SMT DEF Holds, Core
  <2> HIDE DEF c
  <2>5. Holds(y, c, P) /\ Holds(y, Leaked(a), P) /\ Holds(y, y, P)
    BY <2>3, <2>4, GuardsEarly, HoldsChain DEF Guards
  <2>6. sl_suerm_su_in_error(y) \in {y, c, Leaked(a)}
    BY DEF sl_suerm_su_in_error, a, b, c
  <2>7. Serves(y, sl_suerm_su_in_error(y), P)
    BY InErrorParts
  <2> QED
    BY <2>5, <2>6, <2>7 DEF Guards
<1>2. ASSUME NEW y PROVE Holds(y, sl_aerm_su_in_error(y), P)
  <2> DEFINE a == [y EXCEPT !.aborted_proving = 1]
             d == [y EXCEPT !.Ca = @ + 1]
  <2>1. Carries(y, a, P) /\ Holds(y, a, P) /\ Holds(y, d, P)
    BY SMT DEF Carries, Holds, Core, Serving
  <2>2. Keeps(y, a, P)
    BY SMT DEF Keeps, Core, Link, IacSupervised, CcSupervised
  <2> HIDE DEF a, d
  <2> DEFINE b == sl_iac_abort_proving(a)
  <2>3. Guards(y, b, P)
    BY <2>1, <2>2, IacCarries, IacHolds, GuardsChain DEF Guards, Serves
  <2> HIDE DEF b
  <2> DEFINE c == [b EXCEPT !.aerm = "IDLE"]
  <2>4. Holds(b, c, P)
    BY SMT DEF Holds, Core
  <2> HIDE DEF c
  <2>5. sl_aerm_su_in_error(y) \in {y, c, d}
    BY DEF sl_aerm_su_in_error, a, b, c, d
  <2> QED
    BY <2>1, <2>3, <2>4, <2>5, GuardsEarly, HoldsChain DEF Guards
<1> QED
  BY <1>1, <1>2, SmallRc, SmallHolds, GuardsChain, GuardsEarly, HoldsChain
     DEF Guards, sl_daedr_su_in_error

\* A correct unit, in an outage.
LEMMA ReceivedHolds ==
  ASSUME NEW x, NEW P, NEW su \in Su, NEW next, NEW own, Blocked(x)
  PROVE  Holds(x, sl_daedr_received_bits(x, su, next, own), P)
<1>1. ASSUME NEW y PROVE Guards(y, sl_suerm_correct_su(y), P)
  BY SmallRc, SmallHolds, GuardsEarly DEF sl_suerm_correct_su, Guards
<1>2. ASSUME NEW y PROVE Holds(y, sl_aerm_correct_su(y), P)
  <2> DEFINE a == sl_iac_correct_su(y)
  <2>1. Guards(y, a, P)
    BY IacCarries, IacHolds DEF Guards
  <2> HIDE DEF a
  <2>2. Holds(a, [a EXCEPT !.aborted_proving = 0], P)
    BY SMT DEF Holds, Core
  <2>3. Holds(y, [a EXCEPT !.aborted_proving = 0], P) /\ Holds(y, y, P)
    BY <2>1, <2>2, GuardsEarly, HoldsChain DEF Guards
  <2> QED
    BY <2>3 DEF sl_aerm_correct_su, a
<1>3. ASSUME NEW y PROVE Holds(y, sl_daedr_correct_su(y), P)
  <2>1. Guards(y, sl_suerm_correct_su(sl_eim_correct_su(y)), P)
    BY <1>1, SmallRc, SmallHolds, GuardsChain DEF Guards
  <2> QED
    BY <1>2, <2>1, HoldsChain DEF sl_daedr_correct_su, Guards
<1>4. Guards(x, sl_rc_signal_unit(x, su, next, own), P)
  BY SignalUnitCarries, SignalUnitHolds DEF Guards
<1>5. Holds(x, sl_daedr_correct_su(sl_rc_signal_unit(x, su, next, own)), P) /\ Holds(x, x, P)
  BY <1>3, <1>4, GuardsEarly, HoldsChain DEF Guards
<1> QED
  BY <1>5 DEF sl_daedr_received_bits

\* The transmitter withdraws SIB, and nothing else, once it is sent.
LEMMA TransmitHolds ==
  ASSUME NEW x, NEW P, NEW junk
  PROVE  Holds(x, sl_txc_transmission_request(x, junk).st, P)
<1> DEFINE AsWas(y, z) == DOMAIN y = Fields =>
             z.lsc = y.lsc /\ z.sio = y.sio /\ z.lssu_available = y.lssu_available
<1>1. Holds(x, SendLssu(x).st, P)
  <2> DEFINE n == [x EXCEPT !.lssu_available = IF x.sio = "SIB" THEN 0 ELSE @, !.Nfsn = x.Lfsn]
  <2>1. Holds(x, n, P)
    BY SMT DEF Holds, Core
  <2> QED
    BY <2>1 DEF SendLssu
<1>2. ASSUME NEW y PROVE AsWas(y, SendFisu(y).st)
  <2> DEFINE n == [y EXCEPT !.Nfsn = y.Lfsn]
  <2>1. AsWas(y, n)
    BY SMT
  <2> QED
    BY <2>1 DEF SendFisu
<1>3. ASSUME NEW y PROVE AsWas(y, SendOld(y, junk).st)
  <2> DEFINE w == IF PCR /\ y.pos = 0
                  THEN [y EXCEPT !.pos = IF y.rtb = <<>> THEN 0 ELSE 1, !.Z = y.Ffsn] ELSE y
             after == IF w.pos = -1 THEN junk.pos ELSE IF w.pos = Len(w.rtb) THEN 0 ELSE w.pos + 1
             fsn == IF PCR THEN w.Z ELSE (w.Nfsn + 1) % Mod
             z == IF PCR THEN (w.Z + 1) % Mod ELSE w.Z
             cycle == IF fsn = w.Lfsn \/ after = 0 THEN 0 ELSE w.retrans_cycle
             n == [w EXCEPT !.pos = after, !.Nfsn = fsn, !.Z = z, !.retrans_cycle = cycle]
  <2>1. AsWas(y, w) /\ (DOMAIN y = Fields => DOMAIN w = Fields)
    BY SMT
  <2> HIDE DEF w, after, fsn, z, cycle
  <2>2. AsWas(w, n)
    BY SMT
  <2>3. SendOld(y, junk).st \in {w, n}
    BY SMT DEF SendOld, w, after, fsn, z, cycle
  <2> HIDE DEF n, Fields
  <2> QED
    BY <2>1, <2>2, <2>3
<1>4. ASSUME NEW y PROVE AsWas(y, SendNew(y).st)
  <2> DEFINE fsn == (y.Lfsn + 1) % Mod
             q == Append(y.rtb, Head(y.tb))
             t == Tail(y.tb)
             cm == (y.Cm - 1) % CtrMod
             ct == (y.Ct + 1) % CtrMod
             full == Len(q) >= N1
             tm == y.tm \cup (IF y.rtb = <<>> THEN {"t7"} ELSE {})
             rf == IF full \/ (~PCR /\ fsn = (y.Ffsn - 2) % Mod) THEN 1 ELSE y.rtb_full
             fr == IF PCR /\ full THEN 1 ELSE y.forced_retransmission
  <2> HIDE DEF fsn, q, t, cm, ct, tm, rf, fr
  <2> DEFINE n == [y EXCEPT !.tb = t, !.rtb = q, !.Cm = cm, !.Ct = ct,
                            !.Lfsn = fsn, !.Nfsn = fsn, !.Tfsn = fsn, !.tm = tm,
                            !.rtb_full = rf, !.forced_retransmission = fr]
  <2>1. AsWas(y, n)
    BY SMT
  <2>2. SendNew(y).st = n
    BY SMT DEF SendNew, rf, fr, ct, cm, t, q, fsn, tm
  <2> QED
    BY <2>1, <2>2
<1> DEFINE f == IF PCR THEN Forcing(x) ELSE x
           y == sl_txc_transmission_request(x, junk).st
<1>5. AsWas(x, f) /\ (DOMAIN x = Fields => DOMAIN f = Fields)
  BY SMT DEF Forcing
<1>6. y \in {x, SendLssu(x).st, SendFisu(x).st, SendOld(f, junk).st, SendFisu(f).st, SendNew(f).st}
  BY DEF sl_txc_transmission_request
<1> HIDE DEF f, y
<1>7. y = SendLssu(x).st \/ AsWas(x, y)
  <2> HIDE DEF Fields
  <2> QED
    BY <1>2, <1>3, <1>4, <1>5, <1>6
<1>8. Core(x, P) => DOMAIN x = Fields
  BY DEF Core
<1>9. AsWas(x, y) => Holds(x, y, P)
  BY <1>8, HoldsQuiet
<1> QED
  BY <1>1, <1>7, <1>9 DEF y

\* Delivery to level 3.
LEMMA DeliveryHolds == ASSUME NEW x, NEW P, NEW k PROVE Holds(x, sl_rx_wakeup(x, k), P)
<1> DEFINE q == Dropped(x.rb, Len(DeliverableRb(x, k)))
           c == (x.Cr - Len(DeliverableRb(x, k))) % CtrMod
<1> HIDE DEF q, c
<1>1. Holds(x, [x EXCEPT !.rb = <<>>], P) /\ Holds(x, [x EXCEPT !.rb = q, !.Cr = c], P)
  BY SMT DEF Holds, Core
<1>2. sl_rx_wakeup(x, k) \in {[x EXCEPT !.rb = <<>>], [x EXCEPT !.rb = q, !.Cr = c]}
  BY SMT DEF sl_rx_wakeup, q, c
<1> QED
  BY <1>1, <1>2

\* Timers: T5 sends SIB, T4 completes alignment, the others take the link out
\* of service or leave it alone.
LEMMA ExpiryHolds ==
  ASSUME NEW x, NEW P, NEW t \in Timer PROVE Holds(x, sl_r_pcrse(x, t), P)
<1> DEFINE a == sl_lsc_link_failure(x)
<1>0. Core(x, P) => DOMAIN a = Fields /\ a.lsc \in Down
  <2>1. Core(x, P) => Core(a, P) /\ a.lsc \in Down
    BY LinkFailure DEF Keeps
  <2> HIDE DEF a
  <2> QED
    BY <2>1 DEF Core
<1>1. Holds(x, sl_t1_expiry(x), P)
  BY SMT DEF Holds, Core, sl_t1_expiry, sl_out_of_service_ind, sl_rc_stop, sl_cc_normal,
             sl_suerm_stop, sl_txc_send_sios, sl_poc_stop
<1>2. Holds(x, sl_t2_expiry(x), P) /\ Holds(x, sl_t3_expiry(x), P)
  BY SMT DEF Holds, Core, sl_t2_expiry, sl_t3_expiry, AlignmentTimeout,
             sl_lsc_alignment_not_possible, sl_out_of_service_ind, sl_rc_stop, sl_cc_normal,
             sl_txc_send_sios
<1>4. Holds(x, sl_t4_expiry(x), P)
  BY SMT DEF Holds, Core, sl_t4_expiry, Prove, sl_aerm_start, sl_aerm_stop,
             sl_lsc_alignment_complete, sl_timer_start, sl_suerm_start, sl_eim_start,
             sl_txc_send_sipo, sl_poc_local_processor_outage, sl_rc_reject_msu_fisu,
             sl_txc_send_msu, sl_rc_accept_msu_fisu
<1>5. Holds(x, sl_t5_expiry(x), P)
  BY SMT DEF Holds, Core, sl_t5_expiry, sl_timer_start, sl_txc_send_sib
<1> HIDE DEF a
<1>6. Holds(x, sl_t6_expiry(x), P)
  <2>1. Core(x, P) => sl_timer_stop([a EXCEPT !.sib_received = 0], "t7").lsc \in Down
    BY <1>0, SMT DEF sl_timer_stop
  <2> QED
    BY <2>1, HoldsQuiet DEF sl_t6_expiry, a
<1>7. Holds(x, sl_t7_expiry(x), P)
  <2> DEFINE b == sl_timer_stop(a, "t6")
             y == IF PVAR = "ITUT_96" THEN [b EXCEPT !.sib_received = 0] ELSE b
  <2>1. Core(x, P) => y.lsc \in Down
    BY <1>0, SMT DEF sl_timer_stop
  <2> QED
    BY <2>1, HoldsQuiet DEF sl_t7_expiry, a
<1>8. Holds(x, sl_t8_expiry(x), P)
  <2> DEFINE r == sl_timer_start(x, "t8")
             more == r.Ce + Ue
             less == IF r.Ce < De THEN 0 ELSE r.Ce - De
             c == [r EXCEPT !.su_received = 0, !.Ce = more, !.interval_error = 0]
             g == [r EXCEPT !.su_received = 0, !.Ce = less]
             b == sl_lsc_link_failure(c)
             e == [b EXCEPT !.eim = "IDLE"]
  <2>1. sl_t8_expiry(x) \in {x, g, e, c}
    BY DEF sl_t8_expiry
  <2>2. Holds(x, x, P)
    BY HoldsQuiet
  <2> HIDE DEF more, less
  <2>3. Holds(x, g, P) /\ Holds(x, c, P)
    BY SMT DEF Holds, Core, sl_timer_start
  <2>4. Core(x, P) => Core(c, P)
    <3>1. Core(x, P) => more \in Nat
      <4>1. Core(x, P) => r.Ce \in Nat
        BY SMT DEF Core, sl_timer_start
      <4> QED
        BY <4>1, NumberAssumption DEF more
    <3>2. more \in Nat => Keeps(x, c, P)
      BY SMT DEF Keeps, Core, Link, IacSupervised, CcSupervised, sl_timer_start
    <3> QED
      BY <3>1, <3>2 DEF Keeps
  <2> HIDE DEF c, g, r
  <2>5. Core(c, P) => Core(b, P) /\ b.lsc \in Down
    BY LinkFailure DEF Keeps
  <2> HIDE DEF b
  <2>6. Core(b, P) => e.lsc = b.lsc
    BY SMT DEF Core
  <2>7. Core(x, P) => e.lsc \in Down
    BY <2>4, <2>5, <2>6
  <2> HIDE DEF e
  <2>8. Holds(x, e, P)
    BY <2>7, HoldsQuiet
  <2> QED
    BY <2>1, <2>2, <2>3, <2>8
<1> QED
  BY <1>1, <1>2, <1>4, <1>5, <1>6, <1>7, <1>8 DEF sl_r_pcrse

\* The requests of level 3 that do not withdraw SIPO.
LEMMA RequestHolds ==
  ASSUME NEW x, NEW P, NEW w, NEW u
  PROVE  /\ Holds(x, sl_lsc_power_on(x), P) /\ Holds(x, sl_lsc_start(x), P)
         /\ Holds(x, sl_lsc_emergency_ceases(x), P)
         /\ Holds(x, sl_lsc_retrieval_request_and_fsnc(x, u), P)
         /\ Holds(x, sl_lsc_pdu(x, u), P)
         /\ Holds(x, [x EXCEPT !.wqc = w], P)
<1>1. Holds(x, sl_lsc_power_on(x), P)
  BY SMT DEF Holds, Core, sl_lsc_power_on, sl_aerm_set_ti_to_tin, sl_txc_send_sios, sl_txc_start
<1>2. Holds(x, sl_lsc_start(x), P)
  <2> DEFINE r == sl_rc_start(x)
             a == sl_txc_start(r)
             b == IF a.emergency = 1 THEN sl_iac_emergency(a) ELSE a
             y == [sl_iac_start(b) EXCEPT !.lsc = "INITIAL_ALIGNMENT", !.l3 = "starting"]
  <2>1. Core(x, P) => Core(r, P)
    BY RcStart DEF Keeps
  <2> HIDE DEF r
  <2>2. Core(r, P) => Core(a, P)
    BY TxcStart DEF Keeps
  <2> HIDE DEF a
  <2>3. Core(a, P) => Core(b, P)
    BY IacEmergency DEF Keeps
  <2> HIDE DEF b
  <2>4. Core(b, P) => y.lsc = "INITIAL_ALIGNMENT"
    BY SMT DEF Core, sl_iac_start, sl_timer_start, sl_txc_send_sio
  <2>5. sl_lsc_start(x) \in {x, y}
    BY DEF sl_lsc_start, b, a, r
  <2> HIDE DEF y
  <2>6. Core(x, P) => y.lsc = "INITIAL_ALIGNMENT"
    BY <2>1, <2>2, <2>3, <2>4
  <2> QED
    BY <2>5, <2>6, HoldsQuiet
<1>3. Holds(x, sl_lsc_emergency_ceases(x), P)
  BY SMT DEF Holds, Core, sl_lsc_emergency_ceases
<1>4. Holds(x, sl_lsc_retrieval_request_and_fsnc(x, u), P)
  BY SMT DEF Holds, Core, sl_lsc_retrieval_request_and_fsnc, sl_txc_retrieval_request_and_fsnc,
             Dangling
<1>5. Holds(x, sl_lsc_pdu(x, u), P)
  BY SMT DEF Holds, Core, sl_lsc_pdu, sl_txc_message_for_transmission, sl_check_congestion
<1>6. Holds(x, [x EXCEPT !.wqc = w], P)
  BY SMT DEF Holds, Core
<1> QED
  BY <1>1, <1>2, <1>3, <1>4, <1>5, <1>6

------------------------------------------------------------------------------
\* The terminal.
HIDE DEF SlState, Fields, LscState, IacState, PocState, L3State, Flag, Timer, Sio,
         Running, Traffic, Outage, Congestion, Down, Kept, Blocked, Told

\* The inductive invariant: that of SlTerminalProofs, and Serving.
SInv == IInv /\ Serving(s, Pending)

\* A new terminal is out of service.
LEMMA InitSInv == Init => SInv
<1>1. Init => s = sl_alloc_priv
  BY DEF Init
<1>2. Serving(sl_alloc_priv, Pending)
  BY DEF Serving, Running, Traffic, Outage, Congestion, Down, sl_alloc_priv
<1> QED
  BY <1>1, <1>2, InitIInv DEF SInv

\* A handler that keeps both invariants and does not touch the read queue.
LEMMA ServingStep ==
  ASSUME SInv, UNCHANGED pend, Serves(s, s', Pending) PROVE SInv'
<1>1. Pending' = Pending
  BY DEF Pending
<1>2. IInv'
  BY HandlerStep DEF SInv, Serves
<1>3. Core(s, Pending) /\ Serving(s, Pending)
  BY DEF SInv, IInv, Whole
<1> QED
  BY <1>1, <1>2, <1>3 DEF SInv, Serves, Carries

\* The requests of level 3, one case for each.
LEMMA RequestServing == ASSUME SInv, L3Request PROVE SInv'
<1>1. CASE PowerOn
  BY <1>1, ServingStep, StartCarries DEF PowerOn, Request
<1>2. CASE Start
  BY <1>2, ServingStep, StartCarries DEF Start, Request
<1>3. CASE Stop
  BY <1>3, ServingStep, LeavesCarry DEF Stop, Request
<1>4. CASE Emergency
  BY <1>4, ServingStep, IacCarries DEF Emergency, Request
<1>5. CASE EmergencyCeases
  BY <1>5, ServingStep, SmallRc DEF EmergencyCeases, Request
<1>6. CASE LocalProcessorOutage
  BY <1>6, ServingStep, OutageCarries DEF LocalProcessorOutage, Request
<1>7. CASE Resume
  BY <1>7, ServingStep, OutageCarries DEF Resume, Request
<1>8. CASE ClearBuffers
  BY <1>8, ServingStep, BufferCarries DEF ClearBuffers, Request
<1>9. CASE ClearRtb
  BY <1>9, ServingStep, BufferCarries DEF ClearRtb, Request
<1>10. CASE Retrieval
  BY <1>10, ServingStep, RetrievalCarries DEF Retrieval, Request
<1>11. CASE CongestionDiscard
  BY <1>11, ServingStep, CongestionCarries DEF CongestionDiscard, Request
<1>12. CASE CongestionAccept
  BY <1>12, ServingStep, CongestionCarries DEF CongestionAccept, Request
<1>13. CASE NoCongestion
  BY <1>13, ServingStep, CongestionCarries DEF NoCongestion, Request
<1>14. CASE PduReq
  BY <1>14, ServingStep, PduCarries DEF PduReq, Request
<1>15. CASE WriteQueue
  <2> PICK w \in 0..WqMax : s' = [s EXCEPT !.wqc = w] /\ UNCHANGED pend
    BY <1>15 DEF WriteQueue
  <2>1. w \in Nat
    BY NumberAssumption
  <2>2. Keeps(s, [s EXCEPT !.wqc = w], Pending)
    BY <2>1, SMT DEF Keeps, Core, Link, SlState, Fields, IacSupervised, CcSupervised
  <2>3. Carries(s, [s EXCEPT !.wqc = w], Pending)
    BY SMT DEF Carries, Core, SlState, Fields,
               Serving, Running, Traffic, Outage, Congestion, Down
  <2> QED
    BY <2>2, <2>3, ServingStep DEF Serves
<1> QED
  BY <1>1, <1>2, <1>3, <1>4, <1>5, <1>6, <1>7, <1>8, <1>9, <1>10, <1>11, <1>12, <1>13,
     <1>14, <1>15 DEF L3Request

\* A timeout: T7 is among the expiries when it no longer runs.
LEMMA StoppedServing ==
  ASSUME NEW x, NEW P, NEW t \in Timer, Core(x, P), Serving(x, P)
  PROVE  Serving(sl_timer_stop(x, t), P \cup {t})
  BY SMT DEF Core, SlState, Fields, Serving, Running, Traffic, Outage, Congestion, Down,
             sl_timer_stop

\* An expiry that is handled at once or queued.
LEMMA ExpiryStepServing ==
  ASSUME SInv, NEW t \in Timer, ExpireNow(t) \/ ExpireQueued(t) PROVE SInv'
<1>0. Whole(s, Pending) /\ Serving(s, Pending) /\ pend \in Seq(Timer)
  BY DEF SInv, IInv
<1>1. IInv'
  BY ExpiryStep DEF SInv
<1>2. Whole(sl_timer_stop(s, t), Pending \cup {t}) /\ Serving(sl_timer_stop(s, t), Pending \cup {t})
  BY <1>0, Stopped, StoppedServing DEF Whole
<1>3. CASE ExpireNow(t)
  <2>1. pend' = pend /\ s' = sl_r_pcrse(sl_timer_stop(s, t), t)
    BY <1>3 DEF ExpireNow
  <2>2. Serving(s', Pending)
    BY <1>2, <2>1, ExpiryServing DEF Whole
  <2>3. Pending' = Pending
    BY <2>1 DEF Pending
  <2> QED
    BY <1>1, <2>2, <2>3 DEF SInv
<1>4. CASE ExpireQueued(t)
  <2>1. pend' = Append(pend, t) /\ s' = sl_timer_stop(s, t)
    BY <1>4 DEF ExpireQueued
  <2>2. Pending' = Pending \cup {t}
    BY <1>0, <2>1, PendingAppend
  <2> QED
    BY <1>1, <1>2, <2>1, <2>2 DEF SInv
<1> QED
  BY <1>3, <1>4

\* The handling of the oldest queued expiry.
LEMMA HandleServing == ASSUME SInv, HandleExpiry PROVE SInv'
<1>0. Whole(s, Pending) /\ Serving(s, Pending) /\ pend \in Seq(Timer) /\ pend # <<>>
  BY DEF SInv, IInv, HandleExpiry
<1>1. s' = sl_r_pcrse(s, Head(pend)) /\ pend' = Tail(pend)
  BY DEF HandleExpiry
<1>2. Head(pend) \in Timer
  BY <1>0
<1>3. Pending = Pending' \cup {Head(pend)}
  BY <1>0, <1>1, PendingTail
<1>4. Serving(s', Pending')
  BY <1>0, <1>1, <1>2, <1>3, ExpiryServing DEF Whole
<1> QED
  BY <1>4, HandleStep DEF SInv

\* Every step of the terminal keeps the invariant.
LEMMA NextSInv == ASSUME SInv, [Next]_vars PROVE SInv'
<1>1. CASE L3Request
  BY <1>1, RequestServing
<1>2. ASSUME NEW su \in PeerSus, NEW flow \in FlowStates, Receive(su, flow) PROVE SInv'
  <2>1. su \in Su
    BY EnvironmentAssumption DEF Su
  <2> QED
    BY <1>2, <2>1, ServingStep, ReceivedCarries DEF Receive
<1>3. CASE SuInError
  BY <1>3, ServingStep, InErrorCarries DEF SuInError
<1>4. ASSUME NEW t \in Timer, ExpireNow(t) \/ ExpireQueued(t) PROVE SInv'
  BY <1>4, ExpiryStepServing
<1>5. CASE HandleExpiry
  BY <1>5, HandleServing
<1>6. ASSUME NEW junk \in (IF s.pos = -1 THEN Junk ELSE {NoJunk}), TxWakeup(junk) PROVE SInv'
  <2>1. junk.pos \in {-1, 0}
    BY DEF Junk, NoJunk
  <2>2. Serves(s, sl_txc_transmission_request(s, junk).st, Pending)
    BY <2>1, TransmitCarries
  <2> QED
    BY <1>6, <2>2, ServingStep DEF TxWakeup
<1>7. ASSUME NEW k \in 1..Len(s.rb), RxWakeup(k) PROVE SInv'
  BY <1>7, ServingStep, DeliveryCarries DEF RxWakeup
<1>8. CASE UNCHANGED vars
  BY <1>8, ServingStep, ServesEarly DEF vars
<1> QED
  BY <1>1, <1>2, <1>3, <1>4, <1>5, <1>6, <1>7, <1>8 DEF Next

\* The inductive invariant holds in every reachable state.
THEOREM ServingInvariance == Spec => []SInv
  BY InitSInv, NextSInv, PTL DEF Spec

\* Unacknowledged messages of a link in service are supervised by T7, on every
\* way into service and whatever is acknowledged, retransmitted or cleared.
THEOREM AcksAreSupervised == Spec => []AcksSupervised
<1>1. SInv => AcksSupervised
  BY ArmedPending DEF SInv, Serving, Traffic, AcksSupervised
<1> QED
  BY <1>1, ServingInvariance, PTL

\* A link in service sends and receives messages; SIB is the only status it
\* may have to send.
THEOREM InServiceLinkSends == Spec => []InServiceSends
<1>1. SInv => InServiceSends
  <2> SUFFICES ASSUME SInv, s.lsc = "IN_SERVICE" PROVE InServiceSends
    BY DEF InServiceSends
  <2>1. Running(s) /\ Traffic(s, Pending) /\ s.rc \in {"IDLE", "IN_SERVICE"}
    BY DEF SInv, IInv, Whole, Core, SlState, Serving
  <2> QED
    BY <2>1 DEF Running, Traffic, Down, InServiceSends
<1> QED
  BY <1>1, ServingInvariance, PTL

\* A link that is aligned and not ready, and an ANSI link in processor outage whose
\* flag says that the outage is a local one, send SIPO, or SIB in its place.
THEOREM LocalOutageIsTold == Spec => []LocalOutageTold
<1>1. SInv => LocalOutageTold
  BY DEF SInv, Serving, Outage, LocalOutageTold, Told
<1> QED
  BY <1>1, ServingInvariance, PTL

\* A step that handles something in an outage that is told.
LEMMA HoldsStep ==
  ASSUME SInv, Blocked(s), Told(s), Holds(s, s', Pending), Blocked(s') PROVE Told(s')
  BY DEF SInv, IInv, Whole, Holds, Kept

\* A timeout that is still to be handled changes no more than the set of timers.
LEMMA StoppedTold ==
  ASSUME NEW x, NEW P, NEW t, Core(x, P), Blocked(x), Told(x)
  PROVE  Blocked(sl_timer_stop(x, t)) /\ Told(sl_timer_stop(x, t))
  BY SMT DEF Core, SlState, Fields, Blocked, Told, sl_timer_stop

\* Only level 3 withdraws SIPO from an outage that goes on, in every variant: no
\* unit of the peer, no expiry, no congestion and no transmission does.
THEOREM LocalOutageIsKept == Spec => LocalOutageKept
<1> DEFINE Withdrawn == Resume \/ ClearBuffers \/ ClearRtb
<1>1. ASSUME SInv, [Next]_vars, Blocked(s), Told(s), Blocked(s'), ~Withdrawn
      PROVE  Told(s')
  <2>0. /\ Whole(s, Pending) /\ Core(s, Pending) /\ Serving(s, Pending)
        /\ pend \in Seq(Timer)
    BY <1>1 DEF SInv, IInv, Whole
  <2>1. ASSUME Holds(s, s', Pending) PROVE Told(s')
    BY <1>1, <2>1, HoldsStep
  <2>2. CASE L3Request
    <3>1. CASE PowerOn \/ Start \/ EmergencyCeases
      BY <2>1, <3>1, RequestHolds DEF PowerOn, Start, EmergencyCeases, Request
    <3>4. CASE Retrieval
      <4>1. PICK fsnc \in Sn : s' = sl_lsc_retrieval_request_and_fsnc(s, fsnc)
        BY <3>4 DEF Retrieval, Request
      <4> QED
        BY <2>1, <4>1, RequestHolds
    <3>5. CASE PduReq
      <4>1. PICK p \in Pdu : s' = sl_lsc_pdu(s, p)
        BY <3>5 DEF PduReq, Request
      <4> QED
        BY <2>1, <4>1, RequestHolds
    <3>6. CASE WriteQueue
      <4>1. PICK w \in 0..WqMax : s' = [s EXCEPT !.wqc = w]
        BY <3>6 DEF WriteQueue
      <4> QED
        BY <2>1, <4>1, RequestHolds
    <3>2. CASE Stop \/ Emergency \/ LocalProcessorOutage
      BY <2>1, <3>2, LeavesHold, IacHolds, OutageHolds
         DEF Stop, Emergency, LocalProcessorOutage, Request
    <3>3. CASE CongestionDiscard \/ CongestionAccept \/ NoCongestion
      BY <2>1, <3>3, CongestionHolds
         DEF CongestionDiscard, CongestionAccept, NoCongestion, Request
    <3> QED
      BY <1>1, <2>2, <3>1, <3>2, <3>3, <3>4, <3>5, <3>6 DEF L3Request
  <2>3. ASSUME NEW su \in PeerSus, NEW flow \in FlowStates, Receive(su, flow) PROVE Told(s')
    <3>1. su \in Su
      BY EnvironmentAssumption DEF Su
    <3> QED
      BY <1>1, <2>1, <2>3, <3>1, ReceivedHolds DEF Receive
  <2>4. CASE SuInError
    BY <2>1, <2>4, InErrorHolds DEF SuInError
  <2>5. ASSUME NEW t \in Timer, ExpireNow(t) \/ ExpireQueued(t) PROVE Told(s')
    <3> DEFINE u == sl_timer_stop(s, t)
    <3>1. Blocked(u) /\ Told(u)
      BY <1>1, <2>0, StoppedTold
    <3>2. Core(u, Pending \cup {t}) /\ Serving(u, Pending \cup {t})
      BY <2>0, Stopped, StoppedServing DEF Whole
    <3> HIDE DEF u
    <3>3. Holds(u, sl_r_pcrse(u, t), Pending \cup {t})
      BY ExpiryHolds
    <3>4. Kept(sl_r_pcrse(u, t))
      BY <3>1, <3>2, <3>3 DEF Holds, Kept
    <3> QED
      BY <1>1, <2>5, <3>1, <3>4 DEF ExpireNow, ExpireQueued, u, Kept
  <2>6. CASE HandleExpiry
    <3>1. pend # <<>> /\ s' = sl_r_pcrse(s, Head(pend))
      BY <2>6 DEF HandleExpiry
    <3>2. Head(pend) \in Timer
      BY <2>0, <3>1
    <3> QED
      BY <2>1, <3>1, <3>2, ExpiryHolds
  <2>7. ASSUME NEW junk, TxWakeup(junk) PROVE Told(s')
    BY <2>1, <2>7, TransmitHolds DEF TxWakeup
  <2>8. ASSUME NEW k, RxWakeup(k) PROVE Told(s')
    BY <2>1, <2>8, DeliveryHolds DEF RxWakeup
  <2>9. CASE UNCHANGED vars
    BY <1>1, <2>9 DEF vars
  <2> QED
    BY <1>1, <2>2, <2>3, <2>4, <2>5, <2>6, <2>7, <2>8, <2>9 DEF Next
<1>2. SInv /\ [Next]_vars =>
        [Blocked(s) /\ Told(s) /\ Blocked(s)' =>
           Told(s)' \/ Resume \/ ClearBuffers \/ ClearRtb]_vars
  BY <1>1
<1> QED
  BY <1>2, ServingInvariance, PTL DEF Spec, LocalOutageKept

\* Acknowledgements are held back only while the receiver is congested.
THEOREM AcksAreReleased == Spec => []AcksReleased
<1>1. SInv => AcksReleased
  BY DEF SInv, Serving, Congestion, AcksReleased
<1> QED
  BY <1>1, ServingInvariance, PTL

\* A receiver that discards or holds back knows who will end it.
THEOREM CongestionIsCaused == Spec => []CongestionCaused
<1>1. SInv => CongestionCaused
  BY DEF SInv, Serving, Congestion, CongestionCaused
<1> QED
  BY <1>1, ServingInvariance, PTL
=============================================================================
