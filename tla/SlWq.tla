-------------------------------- MODULE SlWq --------------------------------
(***************************************************************************)
(* The write queue of an sl_tpi module between level 3 and the state       *)
(* machines: sl_wput, sl_wsrv (sl_putq and sl_srvq) and the queue          *)
(* functions of STREAMS.  A PDU that the transmission buffer has no room   *)
(* for goes back to the head of the queue, where it stops everything       *)
(* behind it until somebody enables the queue.                             *)
(*                                                                         *)
(* The put and service procedures of both sides exclude each other         *)
(* (sl_trylockq): one that finds the lock taken leaves its message on the  *)
(* queue, which sl_unlockq enables.  So nothing else is handled between    *)
(* two messages of one run of sl_wsrv.  They end with sl_tx_wakeup, which  *)
(* sends as many units as pacing and flow control allow, perhaps none, and *)
(* which the T9 tick also calls: a step for each unit.                     *)
(*                                                                         *)
(* The link is in service at the beginning.  The peer acknowledges, and    *)
(* may send status units; an expiry is handled at once.                    *)
(***************************************************************************)
EXTENDS SlRc

CONSTANTS
  Requests,     \* the requests that level 3 makes
  Priority,     \* those that it sends as M_PCPROTO
  PeerSios,     \* the status units that arrive
  Expiring      \* the timers that may expire

ASSUME WqAssumption ==
  /\ Requests \subseteq {"PDU", "START", "STOP", "LOCAL_PROCESSOR_OUTAGE", "RESUME",
                         "CLEAR_BUFFERS", "RETRIEVAL"}
  /\ Priority \subseteq Requests \ {"PDU"}
  /\ PeerSios \subseteq Sio /\ Expiring \subseteq Timer

VARIABLES
  s,            \* the private structure
  wq,           \* the messages on the write queue
  wantr,        \* QWANTR of the write queue
  enab,         \* QENAB of the write queue
  serving       \* sl_wsrv runs

vars == <<s, wq, wantr, enab, serving>>

Init == s = InService /\ wq = <<>> /\ wantr = TRUE /\ enab = FALSE /\ serving = FALSE

-----------------------------------------------------------------------------
(* sl_w_prim *)

Handled(x, r) ==
  CASE r = "PDU"           -> {sl_lsc_pdu(x, p) : p \in Pdu}
    [] r = "START"         -> {sl_lsc_start(x)}
    [] r = "STOP"          -> {sl_lsc_stop(x)}
    [] r = "LOCAL_PROCESSOR_OUTAGE" -> {sl_lsc_local_processor_outage(x)}
    [] r = "RESUME"        -> {sl_lsc_local_processor_recovered(x)}
    [] r = "CLEAR_BUFFERS" -> {sl_lsc_clear_buffers(x)}
    [] r = "RETRIEVAL"     -> {sl_lsc_retrieval_request_and_fsnc(x, (x.Ffsn - 1 + k) % Mod) :
                               k \in 0 .. Len(x.rtb)}

\* Mutant: the queue is enabled when the counter passes zero.
Enables_Late(x, y) ==
  \E i \in 1 .. Len(x.tb) - Len(y.tb) : (x.Cm - i) % CtrMod = CtrMod - 1

\* Whether moving messages out of tb enables the queue: only as Cm becomes zero
\* (sl_txc_transmission_request, sl_txc_retrieval_request_and_fsnc).
Enables(x, y) == \E i \in 1 .. Len(x.tb) - Len(y.tb) : (x.Cm - i) % CtrMod = 0

\* Mutant: what clearing the buffers flushes stays on the queue.
Handle_Kept(r, behind) ==
  \E y \in Handled([s EXCEPT !.wqc = Len(behind)], r) :
    /\ s' = y
    /\ wq' = behind
    /\ enab' = (enab \/ (r = "RETRIEVAL" /\ Enables(s, y)))

\* The handler of r, with the messages behind it still on the queue: clearing
\* buffers flushes them.
Handle(r, behind) ==
  \E y \in Handled([s EXCEPT !.wqc = Len(behind)], r) :
    /\ s' = y
    /\ wq' = IF y.wqc = 0 THEN <<>> ELSE behind
    /\ enab' = (enab \/ (r = "RETRIEVAL" /\ Enables(s, y)))

-----------------------------------------------------------------------------
(* Level 3 *)

Queued == {wq[i] : i \in 1 .. Len(wq)}

\* Where putq puts r, behind k messages: a priority message behind the others of
\* its kind (__putq_pri), another one at the end (__putq_norm).
Place(q, r, k) ==
  IF r \in Priority
  THEN /\ \A i \in 1..k : q[i] \in Priority
       /\ k < Len(q) => q[k + 1] \notin Priority
  ELSE k = Len(q)

Inserted(q, r, k) == SubSeq(q, 1, k) \o <<r>> \o SubSeq(q, k + 1, Len(q))

\* Mutant: a priority message enables the queue as any other does.
putq_Alike(r) ==
  /\ \E k \in 0 .. Len(wq) : Place(wq, r, k) /\ wq' = Inserted(wq, r, k)
  /\ enab' = (enab \/ (wq = <<>> /\ wantr))

\* putq enables the queue for every priority message, and for another one if it
\* stands first and getq found nothing before.
putq(r) ==
  /\ \E k \in 0 .. Len(wq) : Place(wq, r, k) /\ wq' = Inserted(wq, r, k)
  /\ enab' = (enab \/ r \in Priority \/ (wq = <<>> /\ wantr))

\* sl_wput: a priority message is handled at once if the queue is empty and
\* sl_wsrv does not have the lock.  Of each request other than PDUs, level 3
\* has at most one on the queue, and it retrieves after it stopped the link.
sl_wput(r) ==
  /\ Len(wq) < WqMax
  /\ r = "PDU" \/ r \notin Queued
  /\ r = "RETRIEVAL" => s.lsc = "OUT_OF_SERVICE"
  /\ IF r \in Priority /\ wq = <<>> /\ ~serving
     THEN Handle(r, <<>>)
     ELSE putq(r) /\ s' = [s EXCEPT !.wqc = Len(wq) + 1]
  /\ UNCHANGED <<wantr, serving>>

-----------------------------------------------------------------------------
(* sl_wsrv, one message in a step *)

Srvp ==
  /\ enab /\ ~serving
  /\ enab' = FALSE /\ serving' = TRUE
  /\ UNCHANGED <<s, wq, wantr>>

\* getq finds nothing.
Drained ==
  /\ serving /\ wq = <<>>
  /\ wantr' = TRUE /\ serving' = FALSE
  /\ UNCHANGED <<s, wq, enab>>

\* -ENOBUFS: putbq, and sl_wsrv returns.
Refused ==
  /\ serving /\ wq # <<>> /\ Head(wq) = "PDU" /\ PduRefused(s)
  /\ wantr' = FALSE /\ serving' = FALSE
  /\ UNCHANGED <<s, wq, enab>>

Served ==
  /\ serving /\ wq # <<>> /\ ~(Head(wq) = "PDU" /\ PduRefused(s))
  /\ Handle(Head(wq), Tail(wq))
  /\ wantr' = FALSE
  /\ UNCHANGED serving

-----------------------------------------------------------------------------
(* The link *)

\* sl_tx_wakeup sends a unit.
Transmit ==
  /\ ~serving /\ s.txc = "IN_SERVICE"
  /\ \E junk \in (IF s.pos = -1 THEN Junk ELSE {NoJunk}) :
       LET y == sl_txc_transmission_request(s, junk).st
       IN  s' = y /\ enab' = (enab \/ Enables(s, y))
  /\ UNCHANGED <<wq, wantr, serving>>

\* The peer acknowledges k messages, in a unit that is in order.
Acked(k) ==
  sl_daedr_received_bits(s,
    [type |-> "FISU", fsn |-> (s.Xfsn - 1) % Mod, fib |-> s.Xfib,
     bsn |-> (s.Ffsn - 1 + k) % Mod, bib |-> s.Nfib], TRUE, TRUE)

Acknowledge(k) ==
  /\ ~serving /\ s.rc = "IN_SERVICE"
  /\ s' = Acked(k)
  /\ UNCHANGED <<wq, wantr, enab, serving>>

PeerStatus(i) ==
  /\ ~serving /\ s.rc = "IN_SERVICE"
  /\ s' = sl_daedr_received_bits(s,
            [type |-> "LSSU", fsn |-> (s.Xfsn - 1) % Mod, fib |-> s.Xfib,
             bsn |-> (s.Ffsn - 1) % Mod, bib |-> s.Nfib, sio |-> i], TRUE, TRUE)
  /\ UNCHANGED <<wq, wantr, enab, serving>>

Expire(t) ==
  /\ ~serving /\ t \in s.tm
  /\ s' = sl_r_pcrse(sl_timer_stop(s, t), t)
  /\ UNCHANGED <<wq, wantr, enab, serving>>

-----------------------------------------------------------------------------

sl_wsrv == Srvp \/ Drained \/ Refused \/ Served

Next ==
  \/ \E r \in Requests : sl_wput(r)
  \/ sl_wsrv
  \/ Transmit
  \/ \E k \in 0 .. Len(s.rtb) : Acknowledge(k)
  \/ \E i \in PeerSios : PeerStatus(i)
  \/ \E t \in Expiring : Expire(t)

Spec == Init /\ [][Next]_vars

(***************************************************************************)
(* The scheduler runs what is enabled, the T9 tick sends, and the peer     *)
(* acknowledges all that was sent, between runs of sl_wsrv too (its lock   *)
(* only delays them).  The latter two are strong fairness with the         *)
(* conditions that enable the steps written out: TLC evaluates ENABLED of  *)
(* these actions far too slowly.                                           *)
(***************************************************************************)
CanTransmit == ~serving /\ sl_txc_transmission_request(s, NoJunk).st # s
CanAcknowledge ==
  ~serving /\ s.rtb # <<>> /\ s.rc = "IN_SERVICE" /\ Acked(Len(s.rtb)) # s

Fairness ==
  /\ WF_vars(sl_wsrv)
  /\ <>[]~CanTransmit \/ []<><<Transmit>>_vars
  /\ <>[]~CanAcknowledge \/ []<><<Acknowledge(Len(s.rtb))>>_vars

FairSpec == Spec /\ Fairness

-----------------------------------------------------------------------------
(* Properties *)

\* The private structure stays well typed and its count is that of the queue
\* (putq, getq, putbq, flushq), on which the priority messages stand first.
TypeOK ==
  /\ SlState(s) /\ s.wqc = Len(wq)
  /\ wq \in Seq(Requests)
  /\ \A i, j \in 1 .. Len(wq) : i < j /\ wq[j] \in Priority => wq[i] \in Priority
  /\ wantr \in BOOLEAN /\ enab \in BOOLEAN /\ serving \in BOOLEAN

\* A write queue that nobody is about to serve waits behind a PDU for room in
\* the transmission buffer, and the last message to leave that buffer enables
\* it: Cm, which sl_txc_transmission_request tests, counts the buffer.
StallEnds ==
  wq # <<>> /\ ~enab /\ ~serving =>
    Head(wq) = "PDU" /\ s.tb # <<>> /\ s.Cm = Len(s.tb)

\* Level 3 is heard: a request that it sends as M_PCPROTO (mtp.c: START, STOP
\* and LOCAL_PROCESSOR_OUTAGE) is handled, or flushed, whatever waits on the
\* queue and whatever state the link is in.
RequestHandled == \A r \in Priority : r \in Queued ~> r \notin Queued

\* A link in service takes PDUs: the write queue does not stand still.
Taken == Len(wq') < Len(wq)
PdusTaken == []<>(wq = <<>> \/ s.lsc # "IN_SERVICE") \/ []<><<Taken>>_vars

(***************************************************************************)
(* A retrieval is answered, whichever message type it has, as sli.texi     *)
(* says.  Violated when it is an M_PROTO, as mtp.c sends it, and waits     *)
(* behind a PDU that was refused before the link went out of service: what *)
(* would empty the transmission buffer, and so enable the queue, is the    *)
(* retrieval itself.                                                       *)
(***************************************************************************)
RetrievalAnswered == "RETRIEVAL" \in Queued ~> "RETRIEVAL" \notin Queued
=============================================================================
