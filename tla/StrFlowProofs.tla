--------------------------- MODULE StrFlowProofs ---------------------------
(***************************************************************************)
(* Proofs about StrFlow, for any number of writers, readers and scheduler  *)
(* threads and any water marks: no order of their steps loses a wake-up.   *)
(***************************************************************************)
EXTENDS StrFlow, TLAPS

\* A process between prepare_to_wait and its test: who cleared the flag that
\* it set will wake it.
Watched(P, flag, wake) ==
  (\E p \in P : pc[p] = "test" /\ p \notin woken) => flag \/ At(Threads, {wake})

\* What makes loop_wsrv run, or run again.
Served ==
  \/ "rq" \in full \cap wantw
  \/ enab \cap {"wq", "lrq"} # {}
  \/ At(Threads, {"getq", "back", "can", "next", "enable_rq", "rsrv"})
  \/ At(Agents, {"enable_wq"})
  \/ At(Writers, {"frback"})

\* A message that is about to be put on wq will be noticed as well: if nothing
\* makes loop_wsrv run, then putq and putbq will.
PutServed == At(Agents, {"putq", "putbq"}) => Served \/ "wq" \in wantr

RInv == ReaderWoken /\ Watched(Readers, rsleep, "waker")
WInv == WriterWoken /\ Watched(Writers, wsleep, "wakew")
QInv == QueueServed /\ PutServed

IInv == TypeOK /\ RInv /\ WInv /\ QInv

-----------------------------------------------------------------------------
USE DEF Passing, Data, Queues, Agents

\* What __getq, __rmvq_norm and __flushq leave is well typed.
LEMMA RemoveTyped ==
  ASSUME TypeOK, NEW q \in Data, NEW n \in Nat, Remove(q, n)
  PROVE  count' \in [Data -> Nat] /\ full' \subseteq Data /\ wantw' \subseteq Data
  BY DEF TypeOK, Remove

\* Where an agent goes next is one of its own labels.
Placed(p) ==
  /\ p \in [Agents -> Writing \cup Serving]
  /\ \A w \in Writers : p[w] \in Writing
  /\ \A r \in Readers : p[r] \in Reading
  /\ \A t \in Threads : p[t] \in Serving

LEMMA GotoTyped ==
  ASSUME TypeOK, NEW a \in Agents, NEW l, Goto(a, l),
         a \in Writers => l \in Writing, a \in Readers => l \in Reading,
         a \in Threads => l \in Serving
  PROVE  Placed(pc')
<1>1. l \in Writing \cup Serving
  BY DEF Writing, Reading, Serving
<1> QED
  BY <1>1 DEF TypeOK, Goto, Placed

\* The first test of flow control sets QWANTW and changes nothing else.
LEMMA WriteKeeps ==
  ASSUME IInv, NEW w \in Writers, Write(w)
  PROVE  IInv'
<1> USE AgentAssumption DEF IInv, TypeOK, flow, sleeps, Goto, At, Asleep
<1>1. TypeOK'
  BY MarkAssumption DEF Write, bcanput, CanPut, Writing, Reading, Serving
<1>2. RInv'
  BY DEF Write, bcanput, CanPut, RInv, ReaderWoken, Watched
<1>3. WInv'
  BY DEF Write, bcanput, CanPut, WInv, WriterWoken, Watched
<1>4. QInv'
  BY DEF Write, bcanput, CanPut, QInv, QueueServed, PutServed, Served
<1> QED BY <1>1, <1>2, <1>3, <1>4 DEF IInv

\* WSLEEP is set before the test: the writer is watched from here on.
LEMMA WaitBandKeeps ==
  ASSUME IInv, NEW w \in Writers, WaitBand(w)
  PROVE  IInv'
<1> USE AgentAssumption DEF IInv, TypeOK, flow, sleeps, Goto, At, Asleep
<1>1. TypeOK'
  BY MarkAssumption DEF WaitBand, Writing, Reading, Serving
<1>2. RInv'
  BY DEF WaitBand, RInv, ReaderWoken, Watched
<1>3. WInv'
  BY DEF WaitBand, WInv, WriterWoken, Watched
<1>4. QInv'
  BY DEF WaitBand, QInv, QueueServed, PutServed, Served
<1> QED BY <1>1, <1>2, <1>3, <1>4 DEF IInv

\* A refused writer leaves QWANTW on a full queue, so it may sleep.
LEMMA TestBandKeeps ==
  ASSUME IInv, NEW w \in Writers, TestBand(w)
  PROVE  IInv'
<1> USE AgentAssumption DEF IInv, TypeOK, flow, sleeps, Goto, At, Asleep
<1>1. TypeOK'
  BY MarkAssumption DEF TestBand, bcanput, CanPut, finish_wait, Writing, Reading, Serving
<1>2. RInv'
  BY DEF TestBand, bcanput, CanPut, finish_wait, RInv, ReaderWoken, Watched
<1>3. WInv'
  BY DEF TestBand, bcanput, CanPut, finish_wait, WInv, WriterWoken, Watched
<1>4. QInv'
  BY DEF TestBand, bcanput, CanPut, finish_wait, QInv, QueueServed, PutServed, Served
<1> QED BY <1>1, <1>2, <1>3, <1>4 DEF IInv

\* A woken process is off the wait queue, and waits for nothing.
LEMMA ResumeKeeps ==
  ASSUME IInv, NEW p \in Writers \cup Readers, Resume(p)
  PROVE  IInv'
<1> USE AgentAssumption DEF IInv, TypeOK, flow, sleeps, Goto, At, Asleep
<1>1. TypeOK'
  BY MarkAssumption DEF Resume, finish_wait, Writing, Reading, Serving
<1>2. RInv'
  BY DEF Resume, finish_wait, RInv, ReaderWoken, Watched
<1>3. WInv'
  BY DEF Resume, finish_wait, WInv, WriterWoken, Watched
<1>4. QInv'
  BY DEF Resume, finish_wait, QInv, QueueServed, PutServed, Served
<1> QED BY <1>1, <1>2, <1>3, <1>4 DEF IInv

\* A process that gives up waits for nothing.
LEMMA InterruptKeeps ==
  ASSUME IInv, NEW p \in Writers \cup Readers, Interrupt(p)
  PROVE  IInv'
<1> USE AgentAssumption DEF IInv, TypeOK, flow, sleeps, Goto, At, Asleep
<1>1. TypeOK'
  BY MarkAssumption DEF Interrupt, finish_wait, Writing, Reading, Serving
<1>2. RInv'
  BY DEF Interrupt, finish_wait, RInv, ReaderWoken, Watched
<1>3. WInv'
  BY DEF Interrupt, finish_wait, WInv, WriterWoken, Watched
<1>4. QInv'
  BY DEF Interrupt, finish_wait, QInv, QueueServed, PutServed, Served
<1> QED BY <1>1, <1>2, <1>3, <1>4 DEF IInv

\* A stale look at q_first: PutServed holds because QWANTR, or a run of loop_wsrv, outlives it.
LEMMA WputKeeps ==
  ASSUME IInv, NEW w \in Writers, Wput(w)
  PROVE  IInv'
<1> USE AgentAssumption DEF IInv, TypeOK, flow, sleeps, Goto, At, Asleep
<1>1. TypeOK'
  BY MarkAssumption DEF Wput, Writing, Reading, Serving
<1>2. RInv'
  BY DEF Wput, RInv, ReaderWoken, Watched
<1>3. WInv'
  BY DEF Wput, WInv, WriterWoken, Watched
<1>4. QInv'
  BY DEF Wput, QInv, QueueServed, PutServed, Served
<1> QED BY <1>1, <1>2, <1>3, <1>4 DEF IInv

\* putq onto an empty queue enables it, or finds loop_wsrv at work.
LEMMA WputQueueKeeps ==
  ASSUME IInv, NEW w \in Writers, WputQueue(w)
  PROVE  IInv'
<1> USE AgentAssumption DEF IInv, TypeOK, flow, sleeps, Goto, At, Asleep
<1>1. TypeOK'
  BY MarkAssumption DEF WputQueue, Put, Enables, Hiwat, Writing, Reading, Serving
<1>2. RInv'
  BY DEF WputQueue, Put, Enables, Hiwat, RInv, ReaderWoken, Watched
<1>3. WInv'
  BY DEF WputQueue, Put, Enables, Hiwat, WInv, WriterWoken, Watched
<1>4. QInv'
  BY DEF WputQueue, Put, Enables, Hiwat, QInv, QueueServed, PutServed, Served
<1> QED BY <1>1, <1>2, <1>3, <1>4 DEF IInv

\* A refused thread leaves QWANTW on rq, which is what serves wq from then on.
LEMMA CanPutNextKeeps ==
  ASSUME IInv, NEW a \in Writers \cup Threads, CanPutNext(a)
  PROVE  IInv'
<1> USE AgentAssumption DEF IInv, TypeOK, flow, sleeps, Goto, At, Asleep
<1>1. TypeOK'
  BY MarkAssumption DEF CanPutNext, bcanput, CanPut, Refused, Writing, Reading, Serving
<1>2. RInv'
  BY DEF CanPutNext, bcanput, CanPut, Refused, RInv, ReaderWoken, Watched
<1>3. WInv'
  BY DEF CanPutNext, bcanput, CanPut, Refused, WInv, WriterWoken, Watched
<1>4. QInv'
  BY DEF CanPutNext, bcanput, CanPut, Refused, QInv, QueueServed, PutServed, Served
<1> QED BY <1>1, <1>2, <1>3, <1>4 DEF IInv

\* The first message on rq takes the duty to enable it.
LEMMA PutNextKeeps ==
  ASSUME IInv, NEW a \in Writers \cup Threads, PutNext(a)
  PROVE  IInv'
<1> USE AgentAssumption DEF IInv, TypeOK, flow, sleeps, Goto, At, Asleep
<1>1. TypeOK'
  BY MarkAssumption DEF PutNext, Put, Enables, Passed, Hiwat, Writing, Reading, Serving
<1>2. RInv'
  BY DEF PutNext, Put, Enables, Passed, Hiwat, RInv, ReaderWoken, Watched
<1>3. WInv'
  BY DEF PutNext, Put, Enables, Passed, Hiwat, WInv, WriterWoken, Watched
<1>4. QInv'
  BY DEF PutNext, Put, Enables, Passed, Hiwat, QInv, QueueServed, PutServed, Served
<1> QED BY <1>1, <1>2, <1>3, <1>4 DEF IInv

\* qenable, after the queue is released: the duty becomes QENAB.
LEMMA EnableKeeps ==
  ASSUME IInv, NEW a \in Writers \cup Threads, Enable(a)
  PROVE  IInv'
<1> USE AgentAssumption DEF IInv, TypeOK, flow, sleeps, Goto, At, Asleep
<1>1. TypeOK'
  <2>1. CASE pc[a] = "enable_rq" /\ qenable("rq") /\ Goto(a, Passed(a))
    <3>1. Placed(pc')
      BY <2>1, GotoTyped DEF Passed, Writing, Serving
    <3> QED BY <2>1, <3>1 DEF Enable, qenable, Placed
  <2>2. CASE pc[a] = "enable_wq" /\ qenable("wq") /\ Goto(a, "idle")
    <3>1. Placed(pc')
      BY <2>2, GotoTyped DEF Writing, Serving
    <3> QED BY <2>2, <3>1 DEF Enable, qenable, Placed
  <2> QED BY <2>1, <2>2 DEF Enable
<1>2. RInv'
  BY DEF Enable, qenable, Passed, RInv, ReaderWoken, Watched
<1>3. WInv'
  BY DEF Enable, qenable, Passed, WInv, WriterWoken, Watched
<1>4. QInv'
  BY DEF Enable, qenable, Passed, QInv, QueueServed, PutServed, Served
<1> QED BY <1>1, <1>2, <1>3, <1>4 DEF IInv

\* getq that empties wq, or relieves it, owes the writers a back-enable.
LEMMA GetqKeeps ==
  ASSUME IInv, NEW t \in Threads, Getq(t)
  PROVE  IInv'
<1> USE AgentAssumption DEF IInv, TypeOK, flow, sleeps, Goto, At, Asleep
<1>1. TypeOK'
  <2>1. CASE count["wq"] = 0
    <3>1. Placed(pc')
      BY <2>1, GotoTyped DEF Getq, Serving
    <3> QED BY <2>1, <3>1 DEF Getq, Placed
  <2>2. CASE count["wq"] # 0
    <3>1. Remove("wq", count["wq"] - 1) /\ count["wq"] - 1 \in Nat
      BY <2>2 DEF Getq
    <3>2. count' \in [Data -> Nat] /\ full' \subseteq Data /\ wantw' \subseteq Data
      BY <3>1, RemoveTyped
    <3>3. Placed(pc')
      <4> DEFINE l == IF Backenables("wq", count["wq"] - 1) THEN "back" ELSE "can"
      <4>1. Goto(t, l) /\ l \in Serving
        BY <2>2 DEF Getq, Serving
      <4> HIDE DEF l
      <4> QED BY <4>1, GotoTyped
    <3> QED BY <2>2, <3>2, <3>3 DEF Getq, Placed
  <2> QED BY <2>1, <2>2
<1>2. RInv'
  BY DEF Getq, Remove, Backenables, Relieved, Lowat, RInv, ReaderWoken, Watched
<1>3. WInv'
  BY DEF Getq, Remove, Backenables, Relieved, Lowat, WInv, WriterWoken, Watched
<1>4. QInv'
  BY DEF Getq, Remove, Backenables, Relieved, Lowat, QInv, QueueServed, PutServed, Served
<1> QED BY <1>1, <1>2, <1>3, <1>4 DEF IInv

\* The writers' wake-up becomes QENAB of hwq.
LEMMA BackenableKeeps ==
  ASSUME IInv, NEW t \in Threads, Backenable(t)
  PROVE  IInv'
<1> USE AgentAssumption DEF IInv, TypeOK, flow, sleeps, Goto, At, Asleep
<1>1. TypeOK'
  BY MarkAssumption DEF Backenable, qenable, Writing, Reading, Serving
<1>2. RInv'
  BY DEF Backenable, qenable, RInv, ReaderWoken, Watched
<1>3. WInv'
  BY DEF Backenable, qenable, WInv, WriterWoken, Watched
<1>4. QInv'
  BY DEF Backenable, qenable, QInv, QueueServed, PutServed, Served
<1> QED BY <1>1, <1>2, <1>3, <1>4 DEF IInv

\* The message goes back: rq is full and wanted, or wq gets enabled.
LEMMA PutbqKeeps ==
  ASSUME IInv, NEW t \in Threads, Putbq(t)
  PROVE  IInv'
<1> USE AgentAssumption DEF IInv, TypeOK, flow, sleeps, Goto, At, Asleep
<1>1. TypeOK'
  BY MarkAssumption DEF Putbq, Put, Hiwat, Writing, Reading, Serving
<1>2. RInv'
  BY DEF Putbq, Put, Hiwat, RInv, ReaderWoken, Watched
<1>3. WInv'
  BY DEF Putbq, Put, Hiwat, WInv, WriterWoken, Watched
<1>4. QInv'
  BY DEF Putbq, Put, Hiwat, QInv, QueueServed, PutServed, Served
<1> QED BY <1>1, <1>2, <1>3, <1>4 DEF IInv

\* The back-enable of rq arrives at wq.
LEMMA RsrvKeeps ==
  ASSUME IInv, NEW t \in Threads, Rsrv(t)
  PROVE  IInv'
<1> USE AgentAssumption DEF IInv, TypeOK, flow, sleeps, Goto, At, Asleep
<1>1. TypeOK'
  BY MarkAssumption DEF Rsrv, qenable, Writing, Reading, Serving
<1>2. RInv'
  BY DEF Rsrv, qenable, RInv, ReaderWoken, Watched
<1>3. WInv'
  BY DEF Rsrv, qenable, WInv, WriterWoken, Watched
<1>4. QInv'
  BY DEF Rsrv, qenable, QInv, QueueServed, PutServed, Served
<1> QED BY <1>1, <1>2, <1>3, <1>4 DEF IInv

\* Who clears WSLEEP is bound to wake.
LEMMA strwsrvKeeps ==
  ASSUME IInv, NEW t \in Threads, strwsrv(t)
  PROVE  IInv'
<1> USE AgentAssumption DEF IInv, TypeOK, flow, sleeps, Goto, At, Asleep
<1>1. TypeOK'
  BY MarkAssumption DEF strwsrv, Writing, Reading, Serving
<1>2. RInv'
  BY DEF strwsrv, RInv, ReaderWoken, Watched
<1>3. WInv'
  BY DEF strwsrv, WInv, WriterWoken, Watched
<1>4. QInv'
  BY DEF strwsrv, QInv, QueueServed, PutServed, Served
<1> QED BY <1>1, <1>2, <1>3, <1>4 DEF IInv

\* Who clears RSLEEP is bound to wake.
LEMMA strrsrvKeeps ==
  ASSUME IInv, NEW t \in Threads, strrsrv(t)
  PROVE  IInv'
<1> USE AgentAssumption DEF IInv, TypeOK, flow, sleeps, Goto, At, Asleep
<1>1. TypeOK'
  BY MarkAssumption DEF strrsrv, Writing, Reading, Serving
<1>2. RInv'
  BY DEF strrsrv, RInv, ReaderWoken, Watched
<1>3. WInv'
  BY DEF strrsrv, WInv, WriterWoken, Watched
<1>4. QInv'
  BY DEF strrsrv, QInv, QueueServed, PutServed, Served
<1> QED BY <1>1, <1>2, <1>3, <1>4 DEF IInv

\* All that wait are woken, those before their test included.
LEMMA WakeKeeps ==
  ASSUME IInv, NEW t \in Threads, Wake(t)
  PROVE  IInv'
<1> USE AgentAssumption DEF IInv, TypeOK, flow, sleeps, Goto, At, Asleep
<1>1. TypeOK'
  BY MarkAssumption DEF Wake, Waiting, Writing, Reading, Serving
<1>2. RInv'
  BY DEF Wake, Waiting, RInv, ReaderWoken, Watched
<1>3. WInv'
  BY DEF Wake, Waiting, WInv, WriterWoken, Watched
<1>4. QInv'
  BY DEF Wake, Waiting, QInv, QueueServed, PutServed, Served
<1> QED BY <1>1, <1>2, <1>3, <1>4 DEF IInv

\* A reader that finds nothing leaves QWANTR; one that relieves rq enables lrq.
LEMMA ReadKeeps ==
  ASSUME IInv, NEW r \in Readers, Read(r)
  PROVE  IInv'
<1> USE AgentAssumption DEF IInv, TypeOK, flow, sleeps, Goto, At, Asleep
<1>1. TypeOK'
  <2>1. CASE count["rq"] = 0
    <3>1. Placed(pc')
      <4>1. CASE Goto(r, "idle")
        BY <4>1, GotoTyped DEF Reading
      <4>2. CASE Goto(r, "wait")
        BY <4>2, GotoTyped DEF Reading
      <4> QED BY <4>1, <4>2 DEF Read
    <3> QED BY <2>1, <3>1 DEF Read, strgetq, Placed
  <2>2. CASE count["rq"] # 0
    <3>1. Remove("rq", count["rq"] - 1) /\ count["rq"] - 1 \in Nat
      BY <2>2 DEF Read, strgetq
    <3>2. count' \in [Data -> Nat] /\ full' \subseteq Data /\ wantw' \subseteq Data
      BY <3>1, RemoveTyped
    <3>3. pc' = [pc EXCEPT ![r] = "idle"]
      BY <2>2 DEF Read
    <3>4. wantr' \subseteq Data /\ enab' \subseteq Queues
      BY <2>2 DEF Read, strgetq
    <3> QED BY <3>2, <3>3, <3>4 DEF Read, Writing, Reading, Serving
  <2> QED BY <2>1, <2>2
<1>2. RInv'
  BY DEF Read, strgetq, Remove, Backenables, Relieved, Lowat, RInv, ReaderWoken, Watched
<1>3. WInv'
  BY DEF Read, strgetq, Remove, Backenables, Relieved, Lowat, WInv, WriterWoken, Watched
<1>4. QInv'
  BY DEF Read, strgetq, Remove, Backenables, Relieved, Lowat, QInv, QueueServed, PutServed, Served
<1> QED BY <1>1, <1>2, <1>3, <1>4 DEF IInv

\* RSLEEP is set before the test.
LEMMA WaitReadKeeps ==
  ASSUME IInv, NEW r \in Readers, WaitRead(r)
  PROVE  IInv'
<1> USE AgentAssumption DEF IInv, TypeOK, flow, sleeps, Goto, At, Asleep
<1>1. TypeOK'
  BY MarkAssumption DEF WaitRead, Writing, Reading, Serving
<1>2. RInv'
  BY DEF WaitRead, RInv, ReaderWoken, Watched
<1>3. WInv'
  BY DEF WaitRead, WInv, WriterWoken, Watched
<1>4. QInv'
  BY DEF WaitRead, QInv, QueueServed, PutServed, Served
<1> QED BY <1>1, <1>2, <1>3, <1>4 DEF IInv

\* The test under the freeze leaves QWANTR, so the reader may sleep.
LEMMA TestReadKeeps ==
  ASSUME IInv, NEW r \in Readers, TestRead(r)
  PROVE  IInv'
<1> USE AgentAssumption DEF IInv, TypeOK, flow, sleeps, Goto, At, Asleep
<1>1. TypeOK'
  <2>1. CASE count["rq"] = 0
    <3>1. Placed(pc')
      BY <2>1, GotoTyped DEF TestRead, Reading
    <3> QED BY <2>1, <3>1 DEF TestRead, strgetq, finish_wait, Placed
  <2>2. CASE count["rq"] # 0
    <3>1. Remove("rq", count["rq"] - 1) /\ count["rq"] - 1 \in Nat
      BY <2>2 DEF TestRead, strgetq, finish_wait
    <3>2. count' \in [Data -> Nat] /\ full' \subseteq Data /\ wantw' \subseteq Data
      BY <3>1, RemoveTyped
    <3>3. Placed(pc')
      BY <2>2, GotoTyped DEF TestRead, Reading
    <3> QED BY <2>2, <3>2, <3>3 DEF TestRead, strgetq, finish_wait, Placed
  <2> QED BY <2>1, <2>2
<1>2. RInv'
  BY DEF TestRead, strgetq, Remove, Backenables, Relieved, Lowat, finish_wait, RInv, ReaderWoken, Watched
<1>3. WInv'
  BY DEF TestRead, strgetq, Remove, Backenables, Relieved, Lowat, finish_wait, WInv, WriterWoken, Watched
<1>4. QInv'
  BY DEF TestRead, strgetq, Remove, Backenables, Relieved, Lowat, finish_wait, QInv, QueueServed, PutServed, Served
<1> QED BY <1>1, <1>2, <1>3, <1>4 DEF IInv

\* A flush of wq owes the writers a back-enable.
LEMMA FlushWriteKeeps ==
  ASSUME IInv, NEW w \in Writers, FlushWrite(w)
  PROVE  IInv'
<1> USE AgentAssumption DEF IInv, TypeOK, flow, sleeps, Goto, At, Asleep
<1>1. TypeOK'
  <2>1. CASE count["wq"] = 0
    <3>1. Placed(pc')
      BY <2>1, GotoTyped DEF FlushWrite, flushq, Writing
    <3> QED BY <2>1, <3>1 DEF FlushWrite, flushq, Placed
  <2>2. CASE count["wq"] # 0
    <3>1. Remove("wq", 0) /\ 0 \in Nat
      BY <2>2 DEF FlushWrite, flushq
    <3>2. count' \in [Data -> Nat] /\ full' \subseteq Data /\ wantw' \subseteq Data
      BY <3>1, RemoveTyped
    <3> QED BY <2>2, <3>2 DEF FlushWrite, flushq, Writing, Reading, Serving
  <2> QED BY <2>1, <2>2
<1>2. RInv'
  BY DEF FlushWrite, flushq, Remove, Backenables, Relieved, RInv, ReaderWoken, Watched
<1>3. WInv'
  BY DEF FlushWrite, flushq, Remove, Backenables, Relieved, WInv, WriterWoken, Watched
<1>4. QInv'
  BY DEF FlushWrite, flushq, Remove, Backenables, Relieved, QInv, QueueServed, PutServed, Served
<1> QED BY <1>1, <1>2, <1>3, <1>4 DEF IInv

\* A flush of rq owes the driver a back-enable.
LEMMA FlushReadKeeps ==
  ASSUME IInv, NEW w \in Writers, FlushRead(w)
  PROVE  IInv'
<1> USE AgentAssumption DEF IInv, TypeOK, flow, sleeps, Goto, At, Asleep
<1>1. TypeOK'
  <2>1. CASE count["rq"] = 0
    <3>1. Placed(pc')
      BY <2>1, GotoTyped DEF FlushRead, flushq, Writing
    <3> QED BY <2>1, <3>1 DEF FlushRead, flushq, Placed
  <2>2. CASE count["rq"] # 0
    <3>1. Remove("rq", 0) /\ 0 \in Nat
      BY <2>2 DEF FlushRead, flushq
    <3>2. count' \in [Data -> Nat] /\ full' \subseteq Data /\ wantw' \subseteq Data
      BY <3>1, RemoveTyped
    <3> QED BY <2>2, <3>2 DEF FlushRead, flushq, Writing, Reading, Serving
  <2> QED BY <2>1, <2>2
<1>2. RInv'
  BY DEF FlushRead, flushq, Remove, Backenables, Relieved, RInv, ReaderWoken, Watched
<1>3. WInv'
  BY DEF FlushRead, flushq, Remove, Backenables, Relieved, WInv, WriterWoken, Watched
<1>4. QInv'
  BY DEF FlushRead, flushq, Remove, Backenables, Relieved, QInv, QueueServed, PutServed, Served
<1> QED BY <1>1, <1>2, <1>3, <1>4 DEF IInv

\* The back-enables of a flush.
LEMMA FlushBackKeeps ==
  ASSUME IInv, NEW w \in Writers, FlushBack(w)
  PROVE  IInv'
<1> USE AgentAssumption DEF IInv, TypeOK, flow, sleeps, Goto, At, Asleep
<1>1. TypeOK'
  BY MarkAssumption DEF FlushBack, qenable, Writing, Reading, Serving
<1>2. RInv'
  BY DEF FlushBack, qenable, RInv, ReaderWoken, Watched
<1>3. WInv'
  BY DEF FlushBack, qenable, WInv, WriterWoken, Watched
<1>4. QInv'
  BY DEF FlushBack, qenable, QInv, QueueServed, PutServed, Served
<1> QED BY <1>1, <1>2, <1>3, <1>4 DEF IInv

\* QENAB is cleared and the procedure starts, which is the same promise.
LEMMA SrvpKeeps ==
  ASSUME IInv, NEW t \in Threads, NEW q \in Queues, Srvp(t, q)
  PROVE  IInv'
<1> USE AgentAssumption DEF IInv, TypeOK, flow, sleeps, Goto, At, Asleep
<1>1. TypeOK'
  BY MarkAssumption DEF Srvp, Writing, Reading, Serving
<1>2. RInv'
  BY DEF Srvp, RInv, ReaderWoken, Watched
<1>3. WInv'
  BY DEF Srvp, WInv, WriterWoken, Watched
<1>4. QInv'
  BY DEF Srvp, QInv, QueueServed, PutServed, Served
<1> QED BY <1>1, <1>2, <1>3, <1>4 DEF IInv

-----------------------------------------------------------------------------

\* A step of an agent keeps the invariant.
LEMMA WriterKeeps ==
  ASSUME IInv, NEW w \in Writers, Write(w) \/ WriterStep(w) \/ Interrupt(w) \/ FlushWrite(w)
  PROVE  IInv'
  BY WriteKeeps, WaitBandKeeps, TestBandKeeps, ResumeKeeps, WputKeeps, WputQueueKeeps,
     CanPutNextKeeps, PutNextKeeps, EnableKeeps, FlushReadKeeps, FlushBackKeeps,
     InterruptKeeps, FlushWriteKeeps
     DEF WriterStep

\* The steps of scheduler threads keep the invariant.
LEMMA ThreadKeeps ==
  ASSUME IInv, NEW t \in Threads, ServiceStep(t) \/ \E q \in Queues : Srvp(t, q)
  PROVE  IInv'
  BY SrvpKeeps, GetqKeeps, BackenableKeeps, CanPutNextKeeps, PutNextKeeps, EnableKeeps,
     PutbqKeeps, RsrvKeeps, strwsrvKeeps, strrsrvKeeps, WakeKeeps
     DEF ServiceStep

\* The steps of readers keep the invariant.
LEMMA ReaderKeeps ==
  ASSUME IInv, NEW r \in Readers, ReaderStep(r) \/ Interrupt(r)
  PROVE  IInv'
  BY ReadKeeps, WaitReadKeeps, TestReadKeeps, ResumeKeeps, InterruptKeeps DEF ReaderStep

\* The invariant holds at the start: nobody has done anything.
LEMMA InitInvariant == Init => IInv
<1> SUFFICES ASSUME Init PROVE IInv
  OBVIOUS
<1>1. TypeOK
  BY DEF Init, TypeOK, Writing, Reading, Serving
<1>2. (\A a \in Agents : pc[a] = "idle") /\ count["wq"] = 0
  BY DEF Init
<1> QED BY <1>1, <1>2 DEF IInv, RInv, ReaderWoken, WInv, WriterWoken, QInv, QueueServed,
                          PutServed, Watched, At, Asleep

\* Every step keeps the invariant.
LEMMA StepInvariant == IInv /\ [Next]_vars => IInv'
<1> SUFFICES ASSUME IInv, [Next]_vars PROVE IInv'
  OBVIOUS
<1>1. CASE Next
  BY <1>1, WriterKeeps, ThreadKeeps, ReaderKeeps DEF Next
<1>2. CASE UNCHANGED vars
  BY <1>2 DEF vars, IInv, TypeOK, RInv, ReaderWoken, WInv, WriterWoken, QInv, QueueServed,
              PutServed, Served, Watched, At, Asleep
<1> QED BY <1>1, <1>2

\* The invariant of flow control holds at any time.
THEOREM Invariance == Spec => []IInv
  BY InitInvariant, StepInvariant, PTL DEF Spec

\* The state is well typed; in particular getq never takes from an empty queue.
THEOREM TypeCorrect == Spec => []TypeOK
  BY Invariance, PTL DEF IInv

\* No reader of stream head B sleeps beside a message that nobody will tell it of.
THEOREM ReadersAreWoken == Spec => []ReaderWoken
<1>1. IInv => ReaderWoken BY DEF IInv, RInv
<1> QED BY <1>1, Invariance, PTL

\* No writer of stream head A sleeps beside a queue that has room for it.
THEOREM WritersAreWoken == Spec => []WriterWoken
<1>1. IInv => WriterWoken BY DEF IInv, WInv
<1> QED BY <1>1, Invariance, PTL

\* No message stays on the driver's write queue without something that will serve it.
THEOREM QueueIsServed == Spec => []QueueServed
<1>1. IInv => QueueServed BY DEF IInv, QInv
<1> QED BY <1>1, Invariance, PTL

=============================================================================
