------------------------- MODULE SlTerminalProofs -------------------------
(***************************************************************************)
(* Proofs about the terminal of SlTerminal, for every value of the         *)
(* constants: any protocol variant, any thresholds, any behaviour of       *)
(* level 3, of the peer and of flow control.                               *)
(*                                                                         *)
(* The inductive invariant is Whole(s, Pending): the private structure is  *)
(* well typed and every state that waits for a timer has its timer         *)
(* running, or its expiry among those queued on the read queue.            *)
(* SlFunctionProofs shows that each handler keeps it.                      *)
(***************************************************************************)
EXTENDS SlTerminal, SlFunctionProofs

\* The expiries that wait on the read queue.
Pending == {pend[i] : i \in 1..Len(pend)}

IInv == Whole(s, Pending) /\ pend \in Seq(Timer)

\* A new private structure is sound: nothing runs and nothing waits.
LEMMA InitIInv == Init => IInv
<1> SUFFICES ASSUME Init PROVE IInv
  OBVIOUS
<1>1. s = sl_alloc_priv /\ pend = <<>> /\ Pending = {}
  BY DEF Init, Pending
<1>2. SlState(sl_alloc_priv)
  BY AllocatedTyped
<1>3. Whole(sl_alloc_priv, {})
  BY <1>2 DEF Whole, Core, Link, IacSupervised, CcSupervised, sl_alloc_priv
<1> QED
  BY <1>1, <1>3 DEF IInv

\* A handler that keeps the invariant and does not touch the read queue.
LEMMA HandlerStep ==
  ASSUME IInv, UNCHANGED pend, Keeps(s, s', Pending) PROVE IInv'
<1>1. Pending' = Pending
  BY DEF Pending
<1>2. Whole(s', Pending)
  BY KeepsWhole DEF IInv
<1> QED
  BY <1>1, <1>2 DEF IInv

\* The requests of level 3, one case for each.
LEMMA RequestStep == ASSUME IInv, L3Request PROVE IInv'
<1>1. CASE PowerOn
  BY <1>1, HandlerStep, LscPowerOn DEF PowerOn, Request
<1>2. CASE Start
  BY <1>2, HandlerStep, LscStart DEF Start, Request
<1>3. CASE Stop
  BY <1>3, HandlerStep, LscStop DEF Stop, Request
<1>4. CASE Emergency
  BY <1>4, HandlerStep, LscEmergency DEF Emergency, Request
<1>5. CASE EmergencyCeases
  BY <1>5, HandlerStep, EmergencyCeasesKeeps DEF EmergencyCeases, Request
<1>6. CASE LocalProcessorOutage
  BY <1>6, HandlerStep, LocalOutage DEF LocalProcessorOutage, Request
<1>7. CASE Resume
  BY <1>7, HandlerStep, LocalRecovered DEF Resume, Request
<1>8. CASE ClearBuffers
  BY <1>8, HandlerStep, LscClearBuffers DEF ClearBuffers, Request
<1>9. CASE ClearRtb
  BY <1>9, HandlerStep, LscClearRtb DEF ClearRtb, Request
<1>10. CASE Retrieval
  BY <1>10, HandlerStep, LscRetrieval DEF Retrieval, Request
<1>11. CASE CongestionDiscard
  BY <1>11, HandlerStep, LscCongestion DEF CongestionDiscard, Request
<1>12. CASE CongestionAccept
  BY <1>12, HandlerStep, LscCongestion DEF CongestionAccept, Request
<1>13. CASE NoCongestion
  BY <1>13, HandlerStep, LscCongestion DEF NoCongestion, Request
<1>14. CASE PduReq
  BY <1>14, HandlerStep, LscPdu DEF PduReq, Request
<1>15. CASE WriteQueue
  <2> PICK w \in 0..WqMax : s' = [s EXCEPT !.wqc = w] /\ UNCHANGED pend
    BY <1>15 DEF WriteQueue
  <2>1. w \in Nat
    BY NumberAssumption
  <2>2. Keeps(s, [s EXCEPT !.wqc = w], Pending)
    BY <2>1, SMT DEF Keeps, Core, Link, SlState, Fields, IacSupervised, CcSupervised
  <2> QED
    BY <2>2, HandlerStep
<1> QED
  BY <1>1, <1>2, <1>3, <1>4, <1>5, <1>6, <1>7, <1>8, <1>9, <1>10, <1>11, <1>12, <1>13,
     <1>14, <1>15 DEF L3Request

\* A timeout: the timer stops, and its expiry is handled or queued.
LEMMA Stopped ==
  ASSUME NEW x, NEW P, NEW t \in Timer, Whole(x, P) PROVE Whole(sl_timer_stop(x, t), P \cup {t})
  BY SMT DEF Whole, Core, Link, SlState, Fields, Timer, IacSupervised, CcSupervised, sl_timer_stop

\* A queued expiry is one more that is pending.
LEMMA PendingAppend ==
  ASSUME pend \in Seq(Timer), NEW t \in Timer, pend' = Append(pend, t)
  PROVE  Pending' = Pending \cup {t}
<1>1. Pending' = {Append(pend, t)[i] : i \in 1..Len(Append(pend, t))}
  BY DEF Pending
<1>2. Len(Append(pend, t)) = Len(pend) + 1
  OBVIOUS
<1> QED
  BY <1>1, <1>2 DEF Pending

\* The expiry at the head is pending, and so are those that stay.
LEMMA PendingTail ==
  ASSUME pend \in Seq(Timer), pend # <<>>, pend' = Tail(pend)
  PROVE  Pending = Pending' \cup {Head(pend)}
<1> DEFINE N == Len(pend)
           Later == {pend[i + 1] : i \in 1..(N - 1)}
<1>1. Pending' = Later
  BY DEF Pending
<1>2. Head(pend) = pend[1] /\ N \in Nat /\ N >= 1
  OBVIOUS
<1>3. ASSUME NEW i \in 1..N, i # 1 PROVE pend[i] \in Later
  <2>1. i - 1 \in 1..(N - 1) /\ (i - 1) + 1 = i
    BY <1>2, <1>3
  <2> QED
    BY <2>1
<1>4. ASSUME NEW i \in 1..N PROVE pend[i] \in Later \cup {Head(pend)}
  BY <1>2, <1>3
<1>5. ASSUME NEW i \in 1..(N - 1) PROVE i + 1 \in 1..N
  BY <1>2
<1>6. Later \subseteq {pend[i] : i \in 1..N}
  BY <1>5
<1>7. 1 \in 1..N
  BY <1>2
<1>8. {pend[i] : i \in 1..N} = Later \cup {Head(pend)}
  BY <1>2, <1>4, <1>6, <1>7
<1> QED
  BY <1>1, <1>8 DEF Pending

\* An expiry that is handled at once or queued.
LEMMA ExpiryStep ==
  ASSUME IInv, NEW t \in Timer, ExpireNow(t) \/ ExpireQueued(t) PROVE IInv'
<1>0. Whole(s, Pending) /\ pend \in Seq(Timer)
  BY DEF IInv
<1>1. CASE ExpireNow(t)
  <2>1. pend = <<>> /\ pend' = pend /\ s' = sl_r_pcrse(sl_timer_stop(s, t), t)
    BY <1>1 DEF ExpireNow
  <2>2. Whole(s', Pending)
    BY <1>0, <2>1, Stopped, Expiry
  <2>3. Pending' = Pending
    BY <2>1 DEF Pending
  <2> QED
    BY <1>0, <2>1, <2>2, <2>3 DEF IInv
<1>2. CASE ExpireQueued(t)
  <2>1. pend' = Append(pend, t) /\ s' = sl_timer_stop(s, t)
    BY <1>2 DEF ExpireQueued
  <2>2. Pending' = Pending \cup {t}
    BY <1>0, <2>1, PendingAppend
  <2>3. Whole(s', Pending')
    BY <1>0, <2>1, <2>2, Stopped
  <2> QED
    BY <1>0, <2>1, <2>3 DEF IInv
<1> QED
  BY <1>1, <1>2

\* The handling of the oldest queued expiry.
LEMMA HandleStep == ASSUME IInv, HandleExpiry PROVE IInv'
<1>0. Whole(s, Pending) /\ pend \in Seq(Timer) /\ pend # <<>>
  BY DEF IInv, HandleExpiry
<1>1. s' = sl_r_pcrse(s, Head(pend)) /\ pend' = Tail(pend)
  BY DEF HandleExpiry
<1>2. Head(pend) \in Timer /\ Tail(pend) \in Seq(Timer)
  BY <1>0
<1>3. Pending = Pending' \cup {Head(pend)}
  BY <1>0, <1>1, PendingTail
<1>4. Whole(s', Pending')
  BY <1>0, <1>1, <1>2, <1>3, Expiry
<1> QED
  BY <1>1, <1>2, <1>4 DEF IInv

\* Every step of the terminal keeps the invariant.
LEMMA NextIInv == ASSUME IInv, [Next]_vars PROVE IInv'
<1>1. CASE L3Request
  BY <1>1, RequestStep
<1>2. ASSUME NEW su \in PeerSus, NEW flow \in FlowStates, Receive(su, flow) PROVE IInv'
  <2>1. su \in Su
    BY EnvironmentAssumption DEF Su
  <2> QED
    BY <1>2, <2>1, HandlerStep, ReceivedBits DEF Receive
<1>3. CASE SuInError
  BY <1>3, HandlerStep, SuInErrorKeeps DEF SuInError
<1>4. ASSUME NEW t \in Timer, ExpireNow(t) \/ ExpireQueued(t) PROVE IInv'
  BY <1>4, ExpiryStep
<1>5. CASE HandleExpiry
  BY <1>5, HandleStep
<1>6. ASSUME NEW junk \in (IF s.pos = -1 THEN Junk ELSE {NoJunk}), TxWakeup(junk) PROVE IInv'
  <2>1. junk.pos \in {-1, 0}
    BY DEF Junk, NoJunk
  <2>2. Keeps(s, sl_txc_transmission_request(s, junk).st, Pending)
    BY <2>1, TransmissionRequest
  <2> QED
    BY <1>6, <2>2, HandlerStep DEF TxWakeup
<1>7. ASSUME NEW k \in 1..Len(s.rb), RxWakeup(k) PROVE IInv'
  BY <1>7, HandlerStep, RxWakeupKeeps DEF RxWakeup
<1>8. CASE UNCHANGED vars
  BY <1>8, HandlerStep, Early DEF vars
<1> QED
  BY <1>1, <1>2, <1>3, <1>4, <1>5, <1>6, <1>7, <1>8 DEF Next

\* The inductive invariant holds in every reachable state.
THEOREM Invariance == Spec => []IInv
  BY InitIInv, NextIInv, PTL DEF Spec

\* A timer that is armed is one that runs or that is pending.
LEMMA ArmedPending == ASSUME NEW t PROVE Armed(t) <=> t \in s.tm \cup Pending
  BY DEF Armed, Pending

\* The private structure stays well typed, whatever level 3, the peer and
\* flow control do (sl_tpi.c as a whole).
THEOREM TypeCorrect == Spec => []TypeOK
<1>1. IInv => TypeOK
  BY DEF IInv, Whole, Core, TypeOK
<1> QED
  BY <1>1, Invariance, PTL

\* Initial alignment never waits without its timer: T2, T3 or T4 runs or its
\* expiry is queued, in every interleaving of requests, units and expiries.
THEOREM AlignmentIsSupervised == Spec => []AlignmentSupervised
<1>1. IInv => AlignmentSupervised
  BY ArmedPending DEF IInv, Whole, Core, Link, IacSupervised, AlignmentSupervised
<1> QED
  BY <1>1, Invariance, PTL

\* A link that waits for its peer after alignment is supervised by T1.
THEOREM ReadyIsSupervised == Spec => []ReadySupervised
<1>1. IInv => ReadySupervised
  BY ArmedPending DEF IInv, Whole, Link, ReadySupervised
<1> QED
  BY <1>1, Invariance, PTL

\* A busy receiver goes on sending SIB: T5 runs or its expiry is queued.
THEOREM CongestionIsSupervised == Spec => []CongestionSupervised
<1>1. IInv => CongestionSupervised
  BY ArmedPending DEF IInv, Whole, Core, CcSupervised, CongestionSupervised
<1> QED
  BY <1>1, Invariance, PTL

\* The error rate of an aligned link is monitored, on a high speed link with T8.
THEOREM ErrorsAreMonitored == Spec => []ErrorsMonitored
<1>1. IInv => ErrorsMonitored
  BY ArmedPending DEF IInv, Whole, Link, ErrorsMonitored
<1> QED
  BY <1>1, Invariance, PTL

\* Level 3 never takes a failed link for one in service.
THEOREM ServiceIsTold == Spec => []ServiceTold
<1>1. IInv => ServiceTold
  BY DEF IInv, Whole, Link, ServiceTold
<1> QED
  BY <1>1, Invariance, PTL
=============================================================================
