------------------------------- MODULE SlLsc -------------------------------
(***************************************************************************)
(* Link state control (LSC), initial alignment control (IAC), processor    *)
(* outage control (POC) and congestion control (CC) of sl_tpi.c, and the   *)
(* parts of reception control (RC) and of the error monitors (AERM, SUERM, *)
(* EIM) that they start and stop.                                          *)
(***************************************************************************)
EXTENDS SlTxc

------------------------------------------------------------------------------
\* Congestion and reception control.

sl_cc_normal(s) == [s EXCEPT !.tm = @ \ {"t5"}, !.cc = "IDLE"]
sl_rc_stop(s) == [sl_cc_normal(s) EXCEPT !.rc = "IDLE"]

sl_cc_busy(s) ==
  IF s.cc = "IDLE" THEN [sl_timer_start(sl_txc_send_sib(s), "t5") EXCEPT !.cc = "BUSY"] ELSE s

sl_rc_start(s) ==
  IF s.rc # "IDLE" THEN s
  ELSE [s EXCEPT !.Xfsn = 0, !.Xfib = s.ib_mask, !.rFfsn = 0,
                 !.Tfsn = IF s.ib_mask = 1 THEN Mod - 1 ELSE 0,
                 !.rtr = 0, !.msu_fisu_accepted = IF ANSI THEN 1 ELSE 0,
                 !.abnormal_bsnr = 0, !.abnormal_fibr = 0,
                 !.congestion_discard = 0, !.congestion_accept = 0, !.rc = "IN_SERVICE"]

sl_rc_reject_msu_fisu(s) == [s EXCEPT !.msu_fisu_accepted = 0]
sl_rc_accept_msu_fisu(s) == [s EXCEPT !.msu_fisu_accepted = 1]

sl_rc_retrieve_fsnx(s) ==
  [sl_cc_normal(sl_txc_fsnx_value(s)) EXCEPT
     !.congestion_discard = 0, !.congestion_accept = 0, !.rtr = 0]

sl_rc_align_fsnx(s) == sl_txc_fsnx_value(s)

sl_rc_clear_rb(s) == [s EXCEPT !.rb = <<>>, !.Cr = 0]

\* Mutant of sl_rc_retrieve_bsnt: the number expected, not the last received.
sl_rc_retrieve_bsnt_Next(s) == s.Xfsn

\* The BSNT told to level 3, masked with 0x7F whatever the sequence number mask.
sl_rc_retrieve_bsnt(s) == (s.Xfsn - 1) % BsntMod

sl_rc_congestion_discard(s) ==
  IF s.lsc = "POWER_OFF" THEN s ELSE sl_cc_busy([s EXCEPT !.congestion_discard = 1])

sl_rc_congestion_accept(s) ==
  IF s.lsc = "POWER_OFF" THEN s ELSE sl_cc_busy([s EXCEPT !.congestion_accept = 1])

\* Mutant of sl_rc_no_congestion: the withheld acknowledgements stay withheld.
sl_rc_no_congestion_Unacked(s) ==
  LET a == [sl_cc_normal(s) EXCEPT !.congestion_discard = 0, !.congestion_accept = 0]
  IN  IF s.lsc = "POWER_OFF" THEN s
      ELSE IF s.rtr = 1 THEN [sl_txc_nack_to_be_sent(a) EXCEPT !.Xfib = Toggled(a, @)]
      ELSE a

sl_rc_no_congestion(s) ==
  LET a == [sl_txc_fsnx_value(sl_cc_normal(s)) EXCEPT
              !.congestion_discard = 0, !.congestion_accept = 0]
  IN  IF s.lsc = "POWER_OFF" THEN s
      ELSE IF s.rtr = 1 THEN [sl_txc_nack_to_be_sent(a) EXCEPT !.Xfib = Toggled(a, @)]
      ELSE a

sl_lsc_congestion_discard(s) ==
  [sl_rc_congestion_discard(s) EXCEPT !.l3_congestion_detect = 1]
sl_lsc_congestion_accept(s) ==
  [sl_rc_congestion_accept(s) EXCEPT !.l3_congestion_detect = 1]
sl_lsc_no_congestion(s) ==
  [sl_rc_no_congestion(s) EXCEPT !.l3_congestion_detect = 0]

------------------------------------------------------------------------------
\* Error rate monitors.

sl_aerm_stop(s) == [s EXCEPT !.aerm = "IDLE", !.Ti = Tin]
sl_aerm_set_ti_to_tie(s) == [s EXCEPT !.Ti = IF s.aerm = "IDLE" THEN Tie ELSE @]
sl_aerm_set_ti_to_tin(s) == [s EXCEPT !.Ti = IF s.aerm = "IDLE" THEN Tin ELSE @]
sl_aerm_start(s) == [s EXCEPT !.Ca = 0, !.aborted_proving = 0, !.aerm = "MONITORING"]

sl_eim_start(s) ==
  [s EXCEPT !.Ce = 0, !.interval_error = 0, !.su_received = 0,
            !.tm = @ \cup {"t8"}, !.eim = "MONITORING"]

sl_suerm_start(s) ==
  IF HSL THEN sl_eim_start(s) ELSE [s EXCEPT !.Cs = 0, !.Ns = 0, !.suerm = "IN_SERVICE"]

\* sl_suerm_stop also stops the errored interval monitor (sl_eim_stop).
sl_suerm_stop(s) == [s EXCEPT !.eim = "IDLE", !.tm = @ \ {"t8"}, !.suerm = "IDLE"]

------------------------------------------------------------------------------
\* Leaving service.

sl_iac_stop(s) ==
  IF s.iac = "IDLE" THEN s
  ELSE [sl_aerm_stop(s) EXCEPT !.tm = @ \ {"t2", "t3", "t4"}, !.emergency = 0, !.iac = "IDLE"]

sl_poc_stop(s) == [s EXCEPT !.poc = "IDLE"]

\* The end of every way out of service: monitors, reception and processor
\* outage control stopped, SIOS sent, flags reset.
OutOfService(s) ==
  [sl_poc_stop(sl_txc_send_sios(sl_rc_stop(sl_suerm_stop(s)))) EXCEPT
     !.emergency = 0, !.local_processor_outage = 0, !.remote_processor_outage = 0,
     !.lsc = "OUT_OF_SERVICE"]

sl_lsc_link_failure(s) ==
  IF s.lsc \in {"POWER_OFF", "OUT_OF_SERVICE"} THEN s
  ELSE OutOfService(sl_timer_stop(sl_iac_stop(sl_out_of_service_ind(s)), "t1"))

sl_lsc_stop(s) ==
  IF s.lsc = "OUT_OF_SERVICE" THEN s
  ELSE [OutOfService(sl_timer_stop(sl_iac_stop(s), "t1")) EXCEPT !.l3 = "stopped"]

sl_lsc_sio(s) ==
  IF s.lsc \in {"OUT_OF_SERVICE", "INITIAL_ALIGNMENT"} THEN s
  ELSE OutOfService(sl_out_of_service_ind(sl_timer_stop(s, "t1")))

\* Mutant of sl_lsc_sios: level 3 is not told that the link left service.
sl_lsc_sios_Untold(s) ==
  CASE s.lsc \in {"ALIGNED_READY", "ALIGNED_NOT_READY"} ->
         OutOfService(sl_out_of_service_ind(sl_timer_stop(s, "t1")))
    [] s.lsc \in {"IN_SERVICE", "PROCESSOR_OUTAGE"} -> OutOfService(s)
    [] OTHER -> s

sl_lsc_sios(s) ==
  CASE s.lsc \in {"ALIGNED_READY", "ALIGNED_NOT_READY"} ->
         OutOfService(sl_out_of_service_ind(sl_timer_stop(s, "t1")))
    [] s.lsc \in {"IN_SERVICE", "PROCESSOR_OUTAGE"} ->
         OutOfService(sl_out_of_service_ind(s))
    [] OTHER -> s

\* SIN and SIE: from IN_SERVICE the processor outage state is left alone.
SinOrSie(s) ==
  CASE s.lsc = "IN_SERVICE" ->
         [sl_txc_send_sios(sl_rc_stop(sl_suerm_stop(sl_out_of_service_ind(s)))) EXCEPT
            !.emergency = 0, !.lsc = "OUT_OF_SERVICE"]
    [] s.lsc = "PROCESSOR_OUTAGE" ->
         [sl_poc_stop(sl_txc_send_sios(sl_rc_stop(sl_suerm_stop(sl_out_of_service_ind(s)))))
            EXCEPT !.emergency = 0, !.local_processor_outage = 0,
                   !.remote_processor_outage = 0, !.lsc = "OUT_OF_SERVICE"]
    [] OTHER -> s

sl_lsc_sin(s) == SinOrSie(s)
sl_lsc_sie(s) == SinOrSie(s)

sl_lsc_alignment_not_possible(s) ==
  [sl_txc_send_sios(sl_rc_stop(sl_out_of_service_ind(s))) EXCEPT
     !.local_processor_outage = 0, !.emergency = 0, !.lsc = "OUT_OF_SERVICE"]

------------------------------------------------------------------------------
\* Initial alignment control.

ToAligned(s, t4v, sie) ==
  [(IF sie THEN sl_txc_send_sie(s) ELSE sl_txc_send_sin(s)) EXCEPT
     !.t4v = t4v, !.tm = (@ \ {"t2"}) \cup {"t3"}, !.iac = "ALIGNED"]

\* Start, or start again, a proving period.
Prove(s) == [sl_aerm_start(s) EXCEPT !.tm = @ \cup {"t4"}, !.further_proving = 0]

\* Mutant of sl_iac_sio: back from proving to aligned without T3.
sl_iac_sio_NoT3(s) ==
  CASE s.iac = "NOT_ALIGNED" ->
         ToAligned(s, IF s.emergency = 1 THEN "e" ELSE "n", s.emergency = 1)
    [] s.iac = "PROVING" -> [sl_aerm_stop(s) EXCEPT !.tm = @ \ {"t4"}, !.iac = "ALIGNED"]
    [] OTHER -> s

sl_iac_sio(s) ==
  CASE s.iac = "NOT_ALIGNED" ->
         ToAligned(s, IF s.emergency = 1 THEN "e" ELSE "n", s.emergency = 1)
    [] s.iac = "PROVING" ->
         [sl_aerm_stop(s) EXCEPT !.tm = (@ \ {"t4"}) \cup {"t3"}, !.iac = "ALIGNED"]
    [] OTHER -> s

sl_iac_sin(s) ==
  CASE s.iac = "NOT_ALIGNED" ->
         ToAligned(s, IF s.emergency = 1 THEN "e" ELSE "n", s.emergency = 1)
    [] s.iac = "ALIGNED" ->
         LET a == IF s.t4v = "e" THEN sl_aerm_set_ti_to_tie(s) ELSE s
         IN  [Prove(sl_timer_stop(a, "t3")) EXCEPT !.Cp = 0, !.iac = "PROVING"]
    [] OTHER -> s

sl_iac_sie(s) ==
  CASE s.iac = "NOT_ALIGNED" -> ToAligned(s, "e", s.emergency = 1)
    [] s.iac = "ALIGNED" ->
         [Prove(sl_aerm_set_ti_to_tie(sl_timer_stop(s, "t3"))) EXCEPT
            !.t4v = "e", !.Cp = 0, !.iac = "PROVING"]
    [] s.iac = "PROVING" /\ s.t4v # "e" ->
         [Prove(sl_aerm_set_ti_to_tie(sl_aerm_stop(s))) EXCEPT !.t4v = "e"]
    [] OTHER -> s

sl_iac_sios(s) ==
  IF s.iac \in {"ALIGNED", "PROVING"}
  THEN [sl_aerm_stop(sl_lsc_alignment_not_possible(s)) EXCEPT
          !.tm = @ \ {"t3", "t4"}, !.emergency = 0, !.iac = "IDLE"]
  ELSE s

sl_iac_correct_su(s) ==
  IF s.lsc # "POWER_OFF" /\ s.iac = "PROVING" /\ s.further_proving = 1 THEN Prove(s) ELSE s

sl_iac_abort_proving(s) ==
  IF s.lsc = "POWER_OFF" \/ s.iac # "PROVING" THEN s
  ELSE IF s.Cp + 1 = M
  THEN [sl_aerm_stop(sl_timer_stop(sl_lsc_alignment_not_possible(s), "t4")) EXCEPT
          !.Cp = M, !.emergency = 0, !.iac = "IDLE"]
  ELSE [s EXCEPT !.Cp = @ + 1, !.further_proving = 1]

sl_iac_emergency(s) ==
  CASE s.iac = "PROVING" ->
         [Prove(sl_aerm_set_ti_to_tie(sl_aerm_stop(sl_txc_send_sie(s)))) EXCEPT !.t4v = "e"]
    [] s.iac = "ALIGNED" -> [sl_txc_send_sie(s) EXCEPT !.t4v = "e"]
    [] OTHER -> [s EXCEPT !.emergency = 1]

\* Mutant of sl_iac_start: alignment begins without T2.
sl_iac_start_NoT2(s) ==
  IF s.iac = "IDLE" THEN [sl_txc_send_sio(s) EXCEPT !.iac = "NOT_ALIGNED"] ELSE s

sl_iac_start(s) ==
  IF s.iac = "IDLE"
  THEN [sl_timer_start(sl_txc_send_sio(s), "t2") EXCEPT !.iac = "NOT_ALIGNED"] ELSE s

sl_lsc_emergency(s) == sl_iac_emergency([s EXCEPT !.emergency = 1])
sl_lsc_emergency_ceases(s) == [s EXCEPT !.emergency = 0]

------------------------------------------------------------------------------
\* Starting.

sl_lsc_power_on(s) ==
  IF s.lsc # "POWER_OFF" THEN s
  ELSE [sl_aerm_set_ti_to_tin(sl_txc_send_sios(sl_txc_start(s))) EXCEPT
          !.local_processor_outage = 0, !.emergency = 0, !.lsc = "OUT_OF_SERVICE"]

sl_lsc_start(s) ==
  LET a == sl_txc_start(sl_rc_start(s))
      b == IF a.emergency = 1 THEN sl_iac_emergency(a) ELSE a
  IN  IF s.lsc # "OUT_OF_SERVICE" THEN s
      ELSE [sl_iac_start(b) EXCEPT !.lsc = "INITIAL_ALIGNMENT", !.l3 = "starting"]

------------------------------------------------------------------------------
\* Processor outage.

sl_poc_local_processor_outage(s) ==
  [s EXCEPT !.poc = CASE @ = "IDLE" -> "LOCAL" [] @ = "REMOTE" -> "BOTH" [] OTHER -> @]
sl_poc_remote_processor_outage(s) ==
  [s EXCEPT !.poc = CASE @ = "IDLE" -> "REMOTE" [] @ = "LOCAL" -> "BOTH" [] OTHER -> @]

sl_lsc_no_processor_outage(s) ==
  IF s.lsc # "PROCESSOR_OUTAGE" THEN s
  ELSE IF s.l3_indication_received = 0 THEN [s EXCEPT !.processor_outage = 0]
  ELSE [sl_rc_accept_msu_fisu(sl_txc_send_msu(s)) EXCEPT
          !.processor_outage = 0, !.l3_indication_received = 0,
          !.local_processor_outage = 0, !.lsc = "IN_SERVICE"]

sl_poc_remote_processor_recovered(s) ==
  CASE s.poc = "REMOTE" -> [sl_lsc_no_processor_outage(s) EXCEPT !.poc = "IDLE"]
    [] s.poc = "BOTH"   -> [s EXCEPT !.poc = "LOCAL"]
    [] OTHER -> s

sl_poc_local_processor_recovered(s) ==
  CASE s.poc = "LOCAL" -> [sl_lsc_no_processor_outage(s) EXCEPT !.poc = "IDLE"]
    [] s.poc = "BOTH"  -> [s EXCEPT !.poc = "REMOTE"]
    [] OTHER -> s

\* In service or aligned, level 3 is cut off: send SIPO.
sl_lsc_local_processor_outage(s) ==
  LET out == IF ANSI THEN [s EXCEPT !.local_processor_outage = 1]
                     ELSE sl_poc_local_processor_outage(s)
  IN  CASE s.lsc \in {"OUT_OF_SERVICE", "INITIAL_ALIGNMENT"} ->
             [s EXCEPT !.local_processor_outage = 1]
        [] s.lsc = "ALIGNED_READY" ->
             LET a == sl_txc_send_sipo(out)
             IN  [(IF PVAR # "ITUT_93" THEN sl_rc_reject_msu_fisu(a) ELSE a) EXCEPT
                    !.lsc = "ALIGNED_NOT_READY"]
        [] s.lsc = "IN_SERVICE" ->
             LET a == sl_rc_reject_msu_fisu(sl_txc_send_sipo(out))
             IN  IF ANSI
                 THEN [sl_cc_normal(sl_rc_align_fsnx(a)) EXCEPT !.lsc = "PROCESSOR_OUTAGE"]
                 ELSE [a EXCEPT !.processor_outage = 1, !.lsc = "PROCESSOR_OUTAGE"]
        [] s.lsc = "PROCESSOR_OUTAGE" -> sl_txc_send_sipo(out)
        [] OTHER -> s

\* sl_lsc_resume.  In PROCESSOR_OUTAGE the ITU-T case falls through into
\* the ANSI one, and other variants do nothing.
sl_lsc_local_processor_recovered(s) ==
  LET itut == [sl_txc_send_fisu(sl_rc_retrieve_fsnx(sl_poc_local_processor_recovered(s)))
                 EXCEPT !.lsc = "IN_SERVICE"]
      a == [sl_rc_accept_msu_fisu(IF ITUT9x THEN itut ELSE s) EXCEPT
              !.local_processor_outage = 0]
  IN  CASE s.lsc \in {"OUT_OF_SERVICE", "INITIAL_ALIGNMENT"} ->
             [s EXCEPT !.local_processor_outage = 0]
        [] s.lsc = "ALIGNED_NOT_READY" ->
             LET b == sl_txc_send_fisu(IF ANSI THEN s ELSE sl_poc_local_processor_recovered(s))
             IN  [(IF PVAR = "ITUT_96" THEN sl_rc_accept_msu_fisu(b) ELSE b) EXCEPT
                    !.local_processor_outage = 0, !.lsc = "ALIGNED_READY"]
        [] s.lsc = "PROCESSOR_OUTAGE" /\ (ITUT9x \/ ANSI) ->
             IF a.remote_processor_outage = 1 THEN sl_txc_send_fisu(a)
             ELSE [sl_txc_send_msu(a) EXCEPT !.lsc = "IN_SERVICE"]
        [] OTHER -> s

\* Mutant of sl_lsc_alignment_complete: T1 only on the way to ALIGNED_READY.
sl_lsc_alignment_complete_NoT1(s0) ==
  LET s == sl_suerm_start(s0)
      a == sl_txc_send_sipo(IF ANSI THEN s ELSE sl_poc_local_processor_outage(s))
  IN  IF s0.lsc # "INITIAL_ALIGNMENT" THEN s0
      ELSE IF s.local_processor_outage = 1
      THEN [(IF PVAR # "ITUT_93" THEN sl_rc_reject_msu_fisu(a) ELSE a) EXCEPT
              !.lsc = "ALIGNED_NOT_READY"]
      ELSE [sl_rc_accept_msu_fisu(sl_txc_send_msu(sl_timer_start(s, "t1"))) EXCEPT
              !.lsc = "ALIGNED_READY"]

sl_lsc_alignment_complete(s0) ==
  LET s == sl_timer_start(sl_suerm_start(s0), "t1")
      a == sl_txc_send_sipo(IF ANSI THEN s ELSE sl_poc_local_processor_outage(s))
  IN  IF s0.lsc # "INITIAL_ALIGNMENT" THEN s0
      ELSE IF s.local_processor_outage = 1
      THEN [(IF PVAR # "ITUT_93" THEN sl_rc_reject_msu_fisu(a) ELSE a) EXCEPT
              !.lsc = "ALIGNED_NOT_READY"]
      ELSE [sl_rc_accept_msu_fisu(sl_txc_send_msu(s)) EXCEPT !.lsc = "ALIGNED_READY"]

\* A FISU or MSU of a peer that is in service.
sl_lsc_fisu_msu_received(s) ==
  CASE s.lsc = "ALIGNED_READY" ->
         LET a == sl_txc_send_msu(sl_timer_stop(sl_in_service_ind(s), "t1"))
         IN  [(IF PVAR = "ITUT_93" THEN sl_rc_accept_msu_fisu(a) ELSE a) EXCEPT
                !.lsc = "IN_SERVICE"]
    [] s.lsc = "ALIGNED_NOT_READY" ->
         [sl_timer_stop(sl_in_service_ind(s), "t1") EXCEPT !.lsc = "PROCESSOR_OUTAGE"]
    [] s.lsc = "PROCESSOR_OUTAGE" ->
         IF ITUT9x THEN sl_poc_remote_processor_recovered(s)
                   ELSE [s EXCEPT !.remote_processor_outage = 0]
    [] OTHER -> s

sl_lsc_sib(s) ==
  IF s.lsc \in {"IN_SERVICE", "PROCESSOR_OUTAGE"} THEN sl_txc_sib_received(s) ELSE s

\* Mutant of sl_lsc_sipo: FISU are sent also where the link is out already.
sl_lsc_sipo_Fisu(s) ==
  LET out(u) == IF ANSI THEN [u EXCEPT !.remote_processor_outage = 1]
                        ELSE sl_poc_remote_processor_outage(u)
  IN  CASE s.lsc \in {"ALIGNED_READY", "ALIGNED_NOT_READY"} /\ (ITUT9x \/ ANSI) ->
             [out(sl_timer_stop(s, "t1")) EXCEPT !.lsc = "PROCESSOR_OUTAGE"]
        [] s.lsc \in {"IN_SERVICE", "PROCESSOR_OUTAGE"} /\ ITUT9x ->
             [out(sl_txc_send_fisu(s)) EXCEPT !.processor_outage = 1, !.lsc = "PROCESSOR_OUTAGE"]
        [] s.lsc \in {"IN_SERVICE", "PROCESSOR_OUTAGE"} /\ ANSI ->
             [sl_cc_normal(sl_rc_align_fsnx(out(sl_txc_send_fisu(s)))) EXCEPT
                !.lsc = "PROCESSOR_OUTAGE"]
        [] OTHER -> s

\* The peer's processor is out.  ITUT_88 has no case for it but in PROCESSOR_OUTAGE.
sl_lsc_sipo(s) ==
  LET out(u) == IF ANSI THEN [u EXCEPT !.remote_processor_outage = 1]
                        ELSE sl_poc_remote_processor_outage(u)
  IN  CASE s.lsc \in {"ALIGNED_READY", "ALIGNED_NOT_READY"} /\ (ITUT9x \/ ANSI) ->
             [out(sl_timer_stop(s, "t1")) EXCEPT !.lsc = "PROCESSOR_OUTAGE"]
        [] s.lsc = "IN_SERVICE" /\ ITUT9x ->
             [out(sl_txc_send_fisu(s)) EXCEPT !.processor_outage = 1, !.lsc = "PROCESSOR_OUTAGE"]
        [] s.lsc = "IN_SERVICE" /\ ANSI ->
             [sl_cc_normal(sl_rc_align_fsnx(out(sl_txc_send_fisu(s)))) EXCEPT
                !.lsc = "PROCESSOR_OUTAGE"]
        [] s.lsc = "PROCESSOR_OUTAGE" ->
             IF ITUT9x THEN out(s) ELSE [s EXCEPT !.remote_processor_outage = 1]
        [] OTHER -> s

\* SL_CLEAR_RTB_REQ
sl_lsc_clear_rtb(s) ==
  IF s.lsc # "PROCESSOR_OUTAGE" THEN s
  ELSE sl_txc_clear_rtb(sl_txc_send_fisu([s EXCEPT !.local_processor_outage = 0]))

\* SL_CLEAR_BUFFERS_REQ, the ITU-T flush buffers.
sl_lsc_clear_buffers(s) ==
  LET f == [sl_txc_flush_buffers(s) EXCEPT !.l3_indication_received = 1]
      c == sl_rc_accept_msu_fisu(sl_rc_clear_rb([s EXCEPT !.local_processor_outage = 0]))
  IN  CASE ANSI /\ s.lsc \in {"OUT_OF_SERVICE", "INITIAL_ALIGNMENT"} ->
             [s EXCEPT !.local_processor_outage = 0]
        [] ANSI /\ s.lsc = "ALIGNED_NOT_READY" ->
             [sl_txc_send_fisu(s) EXCEPT !.local_processor_outage = 0, !.lsc = "ALIGNED_READY"]
        [] ANSI /\ s.lsc = "PROCESSOR_OUTAGE" ->
             sl_txc_clear_rtb(sl_txc_clear_tb(sl_txc_send_fisu(c)))
        [] ITUT9x /\ s.lsc = "PROCESSOR_OUTAGE" ->
             IF f.processor_outage = 1 THEN f
             ELSE [sl_rc_accept_msu_fisu(sl_txc_send_msu(f)) EXCEPT
                     !.l3_indication_received = 0, !.local_processor_outage = 0,
                     !.lsc = "IN_SERVICE"]
        [] OTHER -> s

\* SL_RETRIEVAL_REQUEST_AND_FSNC_REQ
sl_lsc_retrieval_request_and_fsnc(s, fsnc) ==
  IF s.lsc \in {"OUT_OF_SERVICE", "PROCESSOR_OUTAGE"}
  THEN sl_txc_retrieval_request_and_fsnc(s, fsnc) ELSE s

=============================================================================
