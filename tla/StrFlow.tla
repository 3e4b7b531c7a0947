------------------------------ MODULE StrFlow ------------------------------
(***************************************************************************)
(* Flow control between the users of two streams that the loop-around      *)
(* driver connects, in one direction: processes write at stream head A,    *)
(* the driver passes or queues their messages (loop.c), the queue          *)
(* functions set and clear the flow control flags (strutil.c), the         *)
(* scheduler's threads run service procedures (strsched.c), and processes  *)
(* read at stream head B (sth.c).                                          *)
(*                                                                         *)
(*   hwq   write queue of stream head A, strwsrv                           *)
(*   wq    the driver's write queue of A, loop_wsrv                        *)
(*   lrq   the driver's read queue of B, loop_rsrv                         *)
(*   rq    read queue of stream head B, strrsrv                            *)
(*                                                                         *)
(* Messages are data of band 0 and of one size, and only their number      *)
(* matters.  A step is what the code does while it holds a lock, or one    *)
(* atomic bit operation; pc says what an agent does next, and whether it   *)
(* has a message in hand.                                                  *)
(***************************************************************************)
EXTENDS Integers, FiniteSets

CONSTANTS
  Writers,   \* processes that write and flush at A
  Readers,   \* processes that read at B
  Threads,   \* scheduler threads, one for each processor
  WHiwat, WLowat,   \* water marks of wq
  RHiwat, RLowat    \* water marks of rq

ASSUME AgentAssumption ==
  /\ Writers \cap Readers = {} /\ Writers \cap Threads = {} /\ Readers \cap Threads = {}
ASSUME FiniteAssumption == IsFiniteSet(Writers) /\ IsFiniteSet(Threads)
ASSUME MarkAssumption ==
  WHiwat \in Nat /\ WLowat \in Nat /\ RHiwat \in Nat /\ RLowat \in Nat

\* Only the bound on the messages under way needs this; the marks of loop_minfo
\* and of the stream head (STRLOW, STRHIGH) satisfy it.
ASSUME MarkOrder == WLowat <= WHiwat /\ RLowat <= RHiwat

VARIABLES
  count,    \* the number of messages on wq and on rq
  full,     \* the queues with QFULL
  wantw,    \* the queues with QWANTW: somebody was refused
  wantr,    \* the queues with QWANTR: getq found nothing
  enab,     \* the queues with QENAB, which are on a scheduler's list
  wsleep,   \* WSLEEP of A
  rsleep,   \* RSLEEP of B
  pc,
  woken     \* the waiting processes that were woken

vars == <<count, full, wantw, wantr, enab, wsleep, rsleep, pc, woken>>

flow == <<count, full, wantw, wantr>>
sleeps == <<wsleep, rsleep, woken>>

Data == {"wq", "rq"}
Queues == Data \cup {"hwq", "lrq"}
Agents == Writers \cup Readers \cup Threads
Hiwat(q) == IF q = "wq" THEN WHiwat ELSE RHiwat
Lowat(q) == IF q = "wq" THEN WLowat ELSE RLowat

Passing == {"can", "next", "enable_rq"}
Writing == {"idle", "wait", "test", "sleep", "first", "putq", "enable_wq",
            "fback", "fnext", "frback"} \cup Passing
Reading == {"idle", "wait", "test", "sleep"}
Serving == {"idle", "getq", "back", "putbq", "enable_wq", "rsrv",
            "strwsrv", "wakew", "strrsrv", "waker"} \cup Passing

TypeOK ==
  /\ count \in [Data -> Nat]
  /\ full \subseteq Data /\ wantw \subseteq Data /\ wantr \subseteq Data
  /\ enab \subseteq Queues
  /\ wsleep \in BOOLEAN /\ rsleep \in BOOLEAN
  /\ pc \in [Agents -> Writing \cup Serving]
  /\ \A w \in Writers : pc[w] \in Writing
  /\ \A r \in Readers : pc[r] \in Reading
  /\ \A t \in Threads : pc[t] \in Serving
  /\ woken \subseteq Writers \cup Readers

Init ==
  /\ count = [q \in Data |-> 0]
  /\ full = {} /\ wantw = {} /\ wantr = Data /\ enab = {}
  /\ wsleep = FALSE /\ rsleep = FALSE
  /\ pc = [a \in Agents |-> "idle"]
  /\ woken = {}

-----------------------------------------------------------------------------
(* The queue functions *)

\* Mutant: the refused one leaves nothing.
bcanput_Silent(q) == UNCHANGED <<count, full, wantw, wantr>>

\* __bcanput: the refused one leaves QWANTW.
bcanput(q) ==
  /\ wantw' = IF q \in full THEN wantw \cup {q} ELSE wantw
  /\ UNCHANGED <<count, full, wantr>>

CanPut(q) == q \notin full

\* Mutant: QFULL is set one message late.
Put_Late(q) ==
  /\ count' = [count EXCEPT ![q] = @ + 1]
  /\ full' = IF count[q] > Hiwat(q) THEN full \cup {q} ELSE full
  /\ UNCHANGED <<wantw, wantr>>

\* __putq_norm and __putbq_norm: one more message.
Put(q) ==
  /\ count' = [count EXCEPT ![q] = @ + 1]
  /\ full' = IF count[q] + 1 > Hiwat(q) THEN full \cup {q} ELSE full
  /\ UNCHANGED <<wantw, wantr>>

\* Whether putq enables the queue.
Enables(q) == count[q] = 0 /\ q \in wantr

\* Mutant: an empty queue is not below a low water mark of zero.
Relieved_Low(q, n) == n < Lowat(q)

\* What __getq, __rmvq_norm and __flushq do about QFULL and QWANTW when they
\* leave n messages, and whether they ask for back-enabling.
Relieved(q, n) == n = 0 \/ n < Lowat(q)
Backenables(q, n) == Relieved(q, n) /\ q \in full /\ q \in wantw
Remove(q, n) ==
  /\ count' = [count EXCEPT ![q] = n]
  /\ full' = IF Relieved(q, n) THEN full \ {q} ELSE full
  /\ wantw' = IF Backenables(q, n) THEN wantw \ {q} ELSE wantw

Goto(a, l) == pc' = [pc EXCEPT ![a] = l]

\* qenable and qbackenable: QENAB, and the scheduler's list if it was clear.
qenable(q) == enab' = enab \cup {q}

-----------------------------------------------------------------------------
(* Writers: strputpmsg_common, __strwaitband and loop_wput *)

\* The first test of flow control; a writer that may not wait fails with EAGAIN.
Write(w) ==
  /\ pc[w] = "idle"
  /\ bcanput("wq")
  /\ IF CanPut("wq") THEN Goto(w, "first") ELSE Goto(w, "wait") \/ Goto(w, "idle")
  /\ UNCHANGED <<enab, sleeps>>

\* prepare_to_wait and WSLEEP, before ...
WaitBand(w) ==
  /\ pc[w] = "wait"
  /\ wsleep' = TRUE
  /\ Goto(w, "test")
  /\ UNCHANGED <<flow, enab, rsleep, woken>>

\* finish_wait: the process leaves the wait queue.
finish_wait(p) == woken' = woken \ {p} /\ UNCHANGED <<wsleep, rsleep>>

\* ... the test, and schedule.
TestBand(w) ==
  /\ pc[w] = "test"
  /\ bcanput("wq")
  /\ IF CanPut("wq") THEN Goto(w, "first") /\ finish_wait(w)
                     ELSE Goto(w, "sleep") /\ UNCHANGED sleeps
  /\ UNCHANGED enab

\* schedule returns to a process that was woken, which is off the wait queue
\* until it waits again; a signal ends the call.
Resume(p) ==
  /\ pc[p] = "sleep" /\ p \in woken
  /\ Goto(p, "wait") /\ finish_wait(p)
  /\ UNCHANGED <<flow, enab>>

Interrupt(p) ==
  /\ pc[p] = "sleep"
  /\ Goto(p, "idle") /\ finish_wait(p)
  /\ UNCHANGED <<flow, enab>>

\* loop_wput looks at q_first without the queue's lock.
Wput(w) ==
  /\ pc[w] = "first"
  /\ Goto(w, IF count["wq"] = 0 THEN "can" ELSE "putq")
  /\ UNCHANGED <<flow, enab, sleeps>>

\* loop_wput's putq.
WputQueue(w) ==
  /\ pc[w] = "putq"
  /\ Put("wq")
  /\ Goto(w, IF Enables("wq") THEN "enable_wq" ELSE "idle")
  /\ UNCHANGED <<enab, sleeps>>

-----------------------------------------------------------------------------
(* loop_wput and loop_wsrv: bcanputnext and putnext to stream head B *)

Refused(a) == IF a \in Threads THEN "putbq" ELSE "putq"
Passed(a) == IF a \in Threads THEN "getq" ELSE "idle"

CanPutNext(a) ==
  /\ pc[a] = "can"
  /\ bcanput("rq")
  /\ Goto(a, IF CanPut("rq") THEN "next" ELSE Refused(a))
  /\ UNCHANGED <<enab, sleeps>>

\* putnext: str_m_data puts the message on rq.
PutNext(a) ==
  /\ pc[a] = "next"
  /\ Put("rq")
  /\ Goto(a, IF Enables("rq") THEN "enable_rq" ELSE Passed(a))
  /\ UNCHANGED <<enab, sleeps>>

\* putq and putbq call qenable when they have released the queue.
Enable(a) ==
  /\ \/ pc[a] = "enable_rq" /\ qenable("rq") /\ Goto(a, Passed(a))
     \/ pc[a] = "enable_wq" /\ qenable("wq") /\ Goto(a, "idle")
  /\ UNCHANGED <<flow, sleeps>>

-----------------------------------------------------------------------------
(* Service procedures *)

\* queuerun and srvp_fast: QENAB is cleared before the procedure runs.
Srvp(t, q) ==
  /\ pc[t] = "idle" /\ q \in enab
  /\ enab' = enab \ {q}
  /\ Goto(t, CASE q = "hwq" -> "strwsrv" [] q = "wq" -> "getq"
               [] q = "lrq" -> "rsrv" [] q = "rq" -> "strrsrv")
  /\ UNCHANGED <<flow, sleeps>>

\* Mutant: an empty queue is not noticed.
Getq_Unchecked(t) ==
  /\ pc[t] = "getq"
  /\ Remove("wq", count["wq"] - 1)
  /\ wantr' = wantr \ {"wq"}
  /\ Goto(t, IF Backenables("wq", count["wq"] - 1) THEN "back" ELSE "can")
  /\ UNCHANGED <<enab, sleeps>>

\* loop_wsrv: getq.
Getq(t) ==
  /\ pc[t] = "getq"
  /\ IF count["wq"] = 0
     THEN /\ wantr' = wantr \cup {"wq"}
          /\ Goto(t, "idle")
          /\ UNCHANGED <<count, full, wantw>>
     ELSE /\ Remove("wq", count["wq"] - 1)
          /\ wantr' = wantr \ {"wq"}
          /\ Goto(t, IF Backenables("wq", count["wq"] - 1) THEN "back" ELSE "can")
  /\ UNCHANGED <<enab, sleeps>>

\* getq: qbackenable, when it has released the queue.
Backenable(t) ==
  /\ pc[t] = "back"
  /\ qenable("hwq") /\ Goto(t, "can")
  /\ UNCHANGED <<flow, sleeps>>

\* loop_wsrv: putbq.
Putbq(t) ==
  /\ pc[t] = "putbq"
  /\ Put("wq")
  /\ Goto(t, IF "wq" \in wantr THEN "enable_wq" ELSE "idle")
  /\ UNCHANGED <<enab, sleeps>>

\* loop_rsrv enables the write queue of the other stream.
Rsrv(t) ==
  /\ pc[t] = "rsrv"
  /\ qenable("wq") /\ Goto(t, "idle")
  /\ UNCHANGED <<flow, sleeps>>

\* Mutant: the flag is cleared and nobody is woken.
strwsrv_Silent(t) ==
  /\ pc[t] = "strwsrv"
  /\ wsleep' = FALSE
  /\ Goto(t, "idle")
  /\ UNCHANGED <<flow, enab, rsleep, woken>>

\* strwsrv and strrsrv: strwakewrite and strwakeread test and clear the flag ...
strwsrv(t) ==
  /\ pc[t] = "strwsrv"
  /\ wsleep' = FALSE
  /\ Goto(t, IF wsleep THEN "wakew" ELSE "idle")
  /\ UNCHANGED <<flow, enab, rsleep, woken>>

strrsrv(t) ==
  /\ pc[t] = "strrsrv"
  /\ rsleep' = FALSE
  /\ Goto(t, IF rsleep THEN "waker" ELSE "idle")
  /\ UNCHANGED <<flow, enab, wsleep, woken>>

\* ... and then wake all that wait.
Waiting(P) == {p \in P : pc[p] \in {"test", "sleep"}}

Wake(t) ==
  /\ \/ pc[t] = "wakew" /\ woken' = woken \cup Waiting(Writers)
     \/ pc[t] = "waker" /\ woken' = woken \cup Waiting(Readers)
  /\ Goto(t, "idle")
  /\ UNCHANGED <<flow, enab, wsleep, rsleep>>

-----------------------------------------------------------------------------
(* Readers: strwaitgetq and __strwaitgetq *)

\* Mutant: the reader that finds nothing leaves no QWANTR.
strgetq_Silent ==
  IF count["rq"] = 0
  THEN UNCHANGED <<flow, enab>>
  ELSE /\ Remove("rq", count["rq"] - 1)
       /\ wantr' = wantr \ {"rq"}
       /\ enab' = IF Backenables("rq", count["rq"] - 1) THEN enab \cup {"lrq"} ELSE enab

\* strgetq, which freezes the stream for all that it does, qbackenable included.
strgetq ==
  IF count["rq"] = 0
  THEN /\ wantr' = wantr \cup {"rq"}
       /\ UNCHANGED <<count, full, wantw, enab>>
  ELSE /\ Remove("rq", count["rq"] - 1)
       /\ wantr' = wantr \ {"rq"}
       /\ enab' = IF Backenables("rq", count["rq"] - 1) THEN enab \cup {"lrq"} ELSE enab

\* The first try; a reader that may not wait fails with EAGAIN.
Read(r) ==
  /\ pc[r] = "idle"
  /\ strgetq
  /\ Goto(r, "idle") \/ (count["rq"] = 0 /\ Goto(r, "wait"))
  /\ UNCHANGED sleeps

\* prepare_to_wait and RSLEEP, before ...
WaitRead(r) ==
  /\ pc[r] = "wait"
  /\ rsleep' = TRUE
  /\ Goto(r, "test")
  /\ UNCHANGED <<flow, enab, wsleep, woken>>

\* ... strgetq, and schedule.
TestRead(r) ==
  /\ pc[r] = "test"
  /\ strgetq
  /\ IF count["rq"] = 0 THEN Goto(r, "sleep") /\ UNCHANGED sleeps
                        ELSE Goto(r, "idle") /\ finish_wait(r)

-----------------------------------------------------------------------------
(* I_FLUSH at stream head A: M_FLUSH goes through loop_wput to str_m_flush *)

\* Mutant: what was flushed does not back-enable.
flushq_Silent(a, q, back, on) ==
  /\ IF count[q] = 0 THEN UNCHANGED <<count, full, wantw>> ELSE Remove(q, 0)
  /\ Goto(a, on)
  /\ UNCHANGED <<wantr, enab, sleeps>>

\* flushq does nothing to an empty queue.
flushq(a, q, back, on) ==
  /\ IF count[q] = 0
     THEN UNCHANGED <<count, full, wantw>> /\ Goto(a, on)
     ELSE Remove(q, 0) /\ Goto(a, IF Backenables(q, 0) THEN back ELSE on)
  /\ UNCHANGED <<wantr, enab, sleeps>>

FlushWrite(w) == pc[w] = "idle" /\ flushq(w, "wq", "fback", "fnext")
FlushRead(w) == pc[w] = "fnext" /\ flushq(w, "rq", "frback", "idle")

\* flushq: qbackenable, when it has released the queue.
FlushBack(w) ==
  /\ \/ pc[w] = "fback" /\ qenable("hwq") /\ Goto(w, "fnext")
     \/ pc[w] = "frback" /\ qenable("lrq") /\ Goto(w, "idle")
  /\ UNCHANGED <<flow, sleeps>>

-----------------------------------------------------------------------------

WriterStep(w) ==
  \/ WaitBand(w) \/ TestBand(w) \/ Resume(w) \/ Wput(w) \/ WputQueue(w)
  \/ CanPutNext(w) \/ PutNext(w) \/ Enable(w)
  \/ FlushRead(w) \/ FlushBack(w)

ServiceStep(t) ==
  \/ Getq(t) \/ Backenable(t) \/ CanPutNext(t) \/ PutNext(t) \/ Enable(t) \/ Putbq(t)
  \/ Rsrv(t) \/ strwsrv(t) \/ strrsrv(t) \/ Wake(t)

ReaderStep(r) == Read(r) \/ WaitRead(r) \/ TestRead(r) \/ Resume(r)

Next ==
  \/ \E w \in Writers : Write(w) \/ WriterStep(w) \/ Interrupt(w) \/ FlushWrite(w)
  \/ \E t \in Threads : ServiceStep(t) \/ \E q \in Queues : Srvp(t, q)
  \/ \E r \in Readers : ReaderStep(r) \/ Interrupt(r)

Spec == Init /\ [][Next]_vars

\* A call that was started goes on, and readers read on; a scheduler's list is
\* first in, first out, so a queue on it is served.  Nothing makes a process
\* write or flush, and nothing interrupts a call.
Fairness ==
  /\ \A w \in Writers : WF_vars(WriterStep(w))
  /\ \A t \in Threads : WF_vars(ServiceStep(t))
  /\ \A r \in Readers : WF_vars(ReaderStep(r))
  /\ \A q \in Queues : SF_vars(\E t \in Threads : Srvp(t, q))

FairSpec == Spec /\ Fairness

-----------------------------------------------------------------------------
(* Properties *)

At(P, ls) == \E p \in P : pc[p] \in ls
Asleep(p) == pc[p] = "sleep" /\ p \notin woken

\* A reader sleeps only as long as rq is empty and the next message will enable
\* it, unless a wake-up is on its way: no order of putq, strrsrv and the readers
\* that share RSLEEP and QWANTR loses it.
ReaderWoken ==
  (\E r \in Readers : Asleep(r)) =>
    \/ At(Threads, {"waker"})
    \/ /\ rsleep
       /\ \/ count["rq"] = 0 /\ "rq" \in wantr
          \/ "rq" \in enab
          \/ At(Threads, {"strrsrv"}) \/ At(Agents, {"enable_rq"})

\* A writer sleeps only as long as wq is full and knows of it, unless a
\* wake-up is on its way.
WriterWoken ==
  (\E w \in Writers : Asleep(w)) =>
    \/ At(Threads, {"wakew"})
    \/ /\ wsleep
       /\ \/ "wq" \in full \cap wantw
          \/ "hwq" \in enab
          \/ At(Threads, {"strwsrv", "back"}) \/ At(Writers, {"fback"})

\* Messages on wq are not forgotten: loop_wsrv runs or is about to, or rq is
\* full and its readers will back-enable the driver.
QueueServed ==
  count["wq"] > 0 =>
    \/ "rq" \in full \cap wantw
    \/ enab \cap {"wq", "lrq"} # {}
    \/ At(Threads, {"getq", "back", "can", "next", "enable_rq", "rsrv"})
    \/ At(Agents, {"enable_wq"})
    \/ At(Writers, {"frback"})

\* The messages under way: on a queue or in hand.
Movers == Writers \cup Threads
MoversAt(ls) == {a \in Movers : pc[a] \in ls}
Holding == {"first", "back", "can", "next", "putq", "putbq"}
Transit == count["wq"] + count["rq"] + Cardinality(MoversAt(Holding))

\* One direction of the connected streams is a channel that loses messages only
\* when it is flushed.  Between the test of flow control and the put that it
\* allowed, other writers and threads may pass the same test: each of them adds
\* a message to either queue, and no more.
Capacity == WHiwat + RHiwat + 2 * Cardinality(Movers)

Flushing == At(Writers, {"fback", "fnext", "frback"})

Channel == INSTANCE StrChannel WITH transit <- Transit, flushing <- Flushing

ImplementsChannel == Channel!Spec

\* Flow control never stops the stream: as long as messages are under way,
\* messages are read or flushed.
Consumes == (\E r \in Readers : strgetq /\ count["rq"] > 0) \/ \E w \in Writers : FlushRead(w)

MessagesMove == []<>(Transit = 0) \/ []<><<Consumes>>_vars

\* A writer put to sleep by flow control comes to its write: it wakes, perhaps to
\* sleep again, and in the end the test of flow control lets it put its message
\* ("first"), unless a signal ends the wait ("idle").  Several writers may starve
\* one another, as the first of those woken takes the room: this is about one.
WriterResumes ==
  \A w \in Writers : pc[w] = "sleep" ~> pc[w] \in {"first", "idle"}
=============================================================================
