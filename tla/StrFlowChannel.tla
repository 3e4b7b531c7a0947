--------------------------- MODULE StrFlowChannel ---------------------------
(***************************************************************************)
(* Proof that StrFlow implements StrChannel, for any number of writers,    *)
(* readers and threads and any water marks: messages are lost in a flush   *)
(* only, and at most Capacity of them are under way.                       *)
(***************************************************************************)
EXTENDS StrFlowProofs, FiniteSetTheorems

\* QFULL is set above the high water mark, and those that passed the test of
\* flow control before it was set add one message each.
Marked ==
  /\ \A q \in Data : q \notin full => count[q] <= Hiwat(q)
  /\ count["rq"] + Cardinality(MoversAt({"next"})) <= RHiwat + Cardinality(Movers)

CInv == IInv /\ Marked

-----------------------------------------------------------------------------
\* Counting the agents

\* There are finitely many writers and threads, so those at some labels can be counted.
LEMMA MoversFinite ==
  /\ IsFiniteSet(Movers) /\ Cardinality(Movers) \in Nat
  /\ \A ls : /\ IsFiniteSet(MoversAt(ls)) /\ Cardinality(MoversAt(ls)) \in Nat
             /\ Cardinality(MoversAt(ls)) <= Cardinality(Movers)
<1>1. IsFiniteSet(Movers)
  BY FiniteAssumption, FS_Union DEF Movers
<1>2. ASSUME NEW ls PROVE MoversAt(ls) \subseteq Movers
  BY DEF MoversAt
<1> QED BY <1>1, <1>2, FS_Subset, FS_CardinalityType

\* One agent goes from one label to another.
LEMMA MoversStep ==
  ASSUME TypeOK, NEW a \in Agents, NEW l, pc' = [pc EXCEPT ![a] = l], NEW ls
  PROVE  /\ a \in Movers /\ pc[a] \notin ls /\ l \in ls =>
              Cardinality(MoversAt(ls)') = Cardinality(MoversAt(ls)) + 1
         /\ a \in Movers /\ pc[a] \in ls /\ l \notin ls =>
              Cardinality(MoversAt(ls)') = Cardinality(MoversAt(ls)) - 1
         /\ a \notin Movers \/ (pc[a] \in ls <=> l \in ls) => MoversAt(ls)' = MoversAt(ls)
<1>1. IsFiniteSet(MoversAt(ls)) /\ Movers \subseteq Agents /\ pc \in [Agents -> Writing \cup Serving]
  BY MoversFinite DEF Movers, TypeOK, Agents
<1>2. CASE a \in Movers /\ pc[a] \notin ls /\ l \in ls
  <2>1. MoversAt(ls)' = MoversAt(ls) \cup {a} /\ a \notin MoversAt(ls)
    BY <1>1, <1>2 DEF MoversAt
  <2> QED BY <1>1, <1>2, <2>1, FS_AddElement
<1>3. CASE a \in Movers /\ pc[a] \in ls /\ l \notin ls
  <2>1. MoversAt(ls)' = MoversAt(ls) \ {a} /\ a \in MoversAt(ls)
    BY <1>1, <1>3 DEF MoversAt
  <2> QED BY <1>1, <1>3, <2>1, FS_RemoveElement
<1>4. CASE a \notin Movers \/ (pc[a] \in ls <=> l \in ls)
  BY <1>1, <1>4 DEF MoversAt
<1> QED BY <1>2, <1>3, <1>4

\* An agent that takes one step, and where it goes.
Moves(a) == a \in Agents /\ pc' = [pc EXCEPT ![a] = pc'[a]]
FlushLabels == {"fback", "fnext", "frback"}

\* A step outside a flush neither begins nor ends one.
LEMMA FlushingStep ==
  ASSUME TypeOK, NEW a, Moves(a), pc[a] \notin FlushLabels, pc'[a] \notin FlushLabels
  PROVE  Flushing' = Flushing
  BY DEF TypeOK, Moves, FlushLabels, Flushing, At, Agents

\* A step that moves no message.
LEMMA QuietStep ==
  ASSUME CInv, NEW a, Moves(a), UNCHANGED <<count, full>>,
         a \in Movers => /\ pc[a] \in Holding <=> pc'[a] \in Holding
                         /\ pc[a] # "next" /\ pc'[a] # "next",
         pc[a] \notin FlushLabels /\ pc'[a] \notin FlushLabels
  PROVE  Marked' /\ UNCHANGED <<Transit, Flushing>>
<1>1. MoversAt(Holding)' = MoversAt(Holding) /\ MoversAt({"next"})' = MoversAt({"next"})
  BY MoversStep DEF CInv, IInv, Moves
<1>2. Flushing' = Flushing
  BY FlushingStep DEF CInv, IInv
<1> QED BY <1>1, <1>2 DEF CInv, Marked, Transit

-----------------------------------------------------------------------------
\* The steps that move a message

\* The numbers of messages are natural numbers.
LEMMA CountTyped ==
  ASSUME TypeOK
  PROVE  count["wq"] \in Nat /\ count["rq"] \in Nat
  BY DEF TypeOK, Data

\* A writer passes the test of flow control: wq is not full, and each of the
\* others has at most one message in hand and has passed at most one to rq.
LEMMA SendStep ==
  ASSUME CInv, NEW w \in Writers, "wq" \notin full, UNCHANGED <<count, full>>,
         pc[w] \notin Holding \cup FlushLabels, pc' = [pc EXCEPT ![w] = "first"]
  PROVE  Marked' /\ Channel!Send
<1> DEFINE H == Cardinality(MoversAt(Holding))
           N == Cardinality(MoversAt({"next"}))
           M == Cardinality(Movers)
<1>1. w \in Movers /\ w \in Agents /\ pc'[w] = "first" /\ TypeOK
  BY DEF CInv, IInv, TypeOK, Movers, Agents
<1>2. Cardinality(MoversAt(Holding)') = H + 1
  BY <1>1, MoversStep DEF Holding
<1>3. MoversAt({"next"})' = MoversAt({"next"})
  BY <1>1, MoversStep DEF Holding
<1>4. Flushing' = Flushing
  BY <1>1, FlushingStep DEF Moves, FlushLabels
<1>5. H + 1 <= M
  <2>1. Cardinality(MoversAt(Holding)') <= M
    <3>1. IsFiniteSet(Movers) /\ MoversAt(Holding)' \subseteq Movers
      BY MoversFinite DEF MoversAt
    <3> QED BY <3>1, FS_Subset
  <2> QED BY <1>2, <2>1
<1>6. count["wq"] \in Nat /\ count["rq"] \in Nat /\ H \in Nat /\ N \in Nat /\ M \in Nat
  BY <1>1, CountTyped, MoversFinite
<1>7. count["wq"] <= WHiwat /\ count["rq"] + N <= RHiwat + M
  BY DEF CInv, Marked, Data, Hiwat
<1>8. Transit < Capacity
  <2> HIDE DEF H, N, M
  <2>1. Transit = count["wq"] + count["rq"] + H /\ Capacity = WHiwat + RHiwat + 2 * M
    BY DEF Transit, Capacity, H, M
  <2> QED BY <1>5, <1>6, <1>7, <2>1, MarkAssumption
<1>9. Transit' = Transit + 1
  BY <1>2, <1>6 DEF Transit
<1> QED BY <1>3, <1>4, <1>8, <1>9 DEF CInv, Marked, Channel!Send

\* putq and putbq: from the hand of an agent to a queue.
LEMMA PutStep ==
  ASSUME CInv, NEW a \in Movers, NEW q \in Data, Moves(a), Put(q),
         pc[a] \in Holding, pc'[a] \notin Holding \cup FlushLabels,
         q = "rq" <=> pc[a] = "next"
  PROVE  Marked' /\ UNCHANGED <<Transit, Flushing>>
<1>1. TypeOK /\ a \in Agents /\ pc' = [pc EXCEPT ![a] = pc'[a]]
  BY DEF CInv, IInv, Moves
<1>2. Cardinality(MoversAt(Holding)') = Cardinality(MoversAt(Holding)) - 1
  BY <1>1, MoversStep
<1>3. IF q = "rq" THEN Cardinality(MoversAt({"next"})') = Cardinality(MoversAt({"next"})) - 1
                  ELSE MoversAt({"next"})' = MoversAt({"next"})
  BY <1>1, MoversStep DEF Holding
<1>4. Flushing' = Flushing
  BY <1>1, FlushingStep DEF Holding, FlushLabels
<1>5. /\ count["wq"] \in Nat /\ count["rq"] \in Nat
      /\ Cardinality(MoversAt(Holding)) \in Nat /\ Cardinality(MoversAt({"next"})) \in Nat
      /\ Cardinality(Movers) \in Nat
  BY <1>1, CountTyped, MoversFinite
<1>6. count' = [count EXCEPT ![q] = count[q] + 1] /\ count \in [Data -> Nat]
  BY <1>1 DEF Put, TypeOK
<1>7. Transit' = Transit
  BY <1>2, <1>5, <1>6 DEF Transit, Data
<1>8. count'["rq"] + Cardinality(MoversAt({"next"})') <= RHiwat + Cardinality(Movers)
  BY <1>3, <1>5, <1>6, MarkAssumption DEF CInv, Marked, Data
<1>9. \A k \in Data : k \notin full' => count'[k] <= Hiwat(k)
  BY <1>5, <1>6, MarkAssumption DEF CInv, Marked, Put, Hiwat
<1> QED BY <1>4, <1>7, <1>8, <1>9 DEF Marked

\* __getq and __rmvq_norm keep the marks of a queue that they leave n messages.
LEMMA RemoveMarked ==
  ASSUME CInv, NEW q \in Data, NEW n \in Nat, n <= count[q], Remove(q, n),
         Cardinality(MoversAt({"next"})') = Cardinality(MoversAt({"next"}))
  PROVE  Marked'
<1>1. count \in [Data -> Nat] /\ count' = [count EXCEPT ![q] = n]
      /\ Cardinality(MoversAt({"next"})) \in Nat /\ Cardinality(Movers) \in Nat
  BY MoversFinite DEF CInv, IInv, TypeOK, Remove
<1>2. count'["rq"] <= count["rq"] /\ count["rq"] \in Nat /\ count'["rq"] \in Nat
  BY <1>1 DEF Data
<1>3. count'["rq"] + Cardinality(MoversAt({"next"})') <= RHiwat + Cardinality(Movers)
  BY <1>1, <1>2, MarkAssumption DEF CInv, Marked
<1>4. ASSUME NEW k \in Data, k \notin full' PROVE count'[k] <= Hiwat(k)
  <2>1. CASE k # q
    BY <1>1, <1>4, <2>1 DEF CInv, Marked, Remove
  <2>2. CASE k = q /\ q \notin full
    BY <1>1, <2>2, MarkAssumption DEF CInv, Marked, Hiwat
  <2>3. CASE k = q /\ q \in full
    BY <1>1, <1>4, <2>3, MarkAssumption, MarkOrder DEF Remove, Relieved, Hiwat, Lowat, Data
  <2> QED BY <2>1, <2>2, <2>3
<1> QED BY <1>3, <1>4 DEF Marked

\* getq: from wq to the hand of a thread.
LEMMA TakeStep ==
  ASSUME CInv, NEW t \in Threads, Getq(t), count["wq"] # 0
  PROVE  Marked' /\ UNCHANGED <<Transit, Flushing>>
<1>1. /\ TypeOK /\ t \in Movers /\ t \in Agents /\ Moves(t)
      /\ pc[t] = "getq" /\ pc'[t] \in {"back", "can"}
  BY DEF CInv, IInv, TypeOK, Movers, Agents, Moves, Getq, Goto
<1>2. pc' = [pc EXCEPT ![t] = pc'[t]]
  BY <1>1 DEF Moves
<1>3. Cardinality(MoversAt(Holding)') = Cardinality(MoversAt(Holding)) + 1
  BY <1>1, <1>2, MoversStep DEF Holding
<1>4. MoversAt({"next"})' = MoversAt({"next"})
  BY <1>1, <1>2, MoversStep
<1>5. Flushing' = Flushing
  BY <1>1, FlushingStep DEF FlushLabels
<1>6. /\ count["wq"] \in Nat /\ count["rq"] \in Nat
      /\ Cardinality(MoversAt(Holding)) \in Nat
  BY <1>1, CountTyped, MoversFinite
<1>7. Remove("wq", count["wq"] - 1) /\ count["wq"] - 1 \in Nat
  BY <1>6 DEF Getq
<1>8. Marked'
  BY <1>4, <1>6, <1>7, RemoveMarked DEF Data
<1>9. count' = [count EXCEPT !["wq"] = count["wq"] - 1] /\ count \in [Data -> Nat]
  BY <1>1, <1>7 DEF Remove, TypeOK
<1>10. Transit' = Transit
  BY <1>3, <1>6, <1>9 DEF Transit, Data
<1> QED BY <1>5, <1>8, <1>10

\* bcanputnext allows a message to be passed to rq.
LEMMA PassStep ==
  ASSUME CInv, NEW a \in Movers, Moves(a), UNCHANGED <<count, full>>,
         "rq" \notin full, pc[a] = "can", pc'[a] = "next"
  PROVE  Marked' /\ UNCHANGED <<Transit, Flushing>>
<1>1. TypeOK /\ a \in Agents /\ pc' = [pc EXCEPT ![a] = pc'[a]]
  BY DEF CInv, IInv, Moves
<1>2. MoversAt(Holding)' = MoversAt(Holding)
  BY <1>1, MoversStep DEF Holding
<1>3. Flushing' = Flushing
  BY <1>1, FlushingStep DEF FlushLabels
<1>4. Cardinality(MoversAt({"next"})') <= Cardinality(Movers)
  <2>1. IsFiniteSet(Movers) /\ MoversAt({"next"})' \subseteq Movers
    BY MoversFinite DEF MoversAt
  <2> QED BY <2>1, FS_Subset
<1>5. Cardinality(MoversAt({"next"})') \in Nat
  <2>1. Cardinality(MoversAt({"next"})') = Cardinality(MoversAt({"next"})) + 1
    BY <1>1, MoversStep
  <2> QED BY <2>1, MoversFinite
<1>6. count["rq"] <= RHiwat /\ count["rq"] \in Nat /\ Cardinality(Movers) \in Nat
  BY <1>1, CountTyped, MoversFinite DEF CInv, Marked, Data, Hiwat
<1> QED BY <1>2, <1>3, <1>4, <1>5, <1>6, MarkAssumption DEF CInv, Marked, Transit

\* strgetq: from rq to a reader.
LEMMA ReceiveStep ==
  ASSUME CInv, NEW r \in Readers, strgetq, count["rq"] # 0, Moves(r),
         pc[r] \notin FlushLabels, pc'[r] \notin FlushLabels
  PROVE  Marked' /\ Channel!Receive
<1>1. TypeOK /\ r \notin Movers /\ r \in Agents /\ pc' = [pc EXCEPT ![r] = pc'[r]]
  BY AgentAssumption DEF CInv, IInv, Moves, Movers
<1>2. MoversAt(Holding)' = MoversAt(Holding) /\ MoversAt({"next"})' = MoversAt({"next"})
  BY <1>1, MoversStep
<1>3. Flushing' = Flushing
  BY <1>1, FlushingStep
<1>4. /\ count["wq"] \in Nat /\ count["rq"] \in Nat
      /\ Cardinality(MoversAt(Holding)) \in Nat
  BY <1>1, CountTyped, MoversFinite
<1>5. Remove("rq", count["rq"] - 1) /\ count["rq"] - 1 \in Nat
  BY <1>4 DEF strgetq
<1>6. Marked'
  BY <1>2, <1>4, <1>5, RemoveMarked DEF Data
<1>7. count' = [count EXCEPT !["rq"] = count["rq"] - 1] /\ count \in [Data -> Nat]
  BY <1>1, <1>5 DEF Remove, TypeOK
<1>8. Transit' = Transit - 1 /\ Transit > 0
  BY <1>2, <1>4, <1>7 DEF Transit, Data
<1> QED BY <1>3, <1>6, <1>8 DEF Channel!Receive

\* flushq: from a queue to nowhere, while a flush is under way.
LEMMA FlushStep ==
  ASSUME CInv, NEW w \in Writers, NEW q \in Data, NEW back, NEW on,
         flushq(w, q, back, on), pc[w] \notin Holding, {back, on} \cap Holding = {},
         Flushing \/ Flushing'
  PROVE  Marked' /\ Channel!Flush
<1>1. /\ TypeOK /\ w \in Movers /\ w \in Agents
      /\ pc' = [pc EXCEPT ![w] = pc'[w]] /\ pc'[w] \in {back, on}
  BY DEF CInv, IInv, TypeOK, Movers, Agents, flushq, Goto
<1>2. MoversAt(Holding)' = MoversAt(Holding) /\ MoversAt({"next"})' = MoversAt({"next"})
  BY <1>1, MoversStep DEF Holding
<1>3. /\ count["wq"] \in Nat /\ count["rq"] \in Nat /\ count \in [Data -> Nat]
      /\ Cardinality(MoversAt(Holding)) \in Nat
  BY <1>1, CountTyped, MoversFinite DEF TypeOK
<1>4. Flushing' \in BOOLEAN
  BY DEF Flushing, At
<1>5. CASE count[q] = 0
  <2>1. UNCHANGED <<count, full>>
    BY <1>5 DEF flushq
  <2>2. Transit' = Transit /\ Transit \in Nat
    BY <1>2, <1>3, <2>1 DEF Transit
  <2> QED BY <1>2, <1>4, <2>1, <2>2 DEF CInv, Marked, Channel!Flush
<1>6. CASE count[q] # 0
  <2>1. Remove(q, 0)
    BY <1>6 DEF flushq
  <2>2. Marked'
    BY <1>2, <1>3, <2>1, RemoveMarked
  <2>3. count' = [count EXCEPT ![q] = 0]
    BY <2>1 DEF Remove
  <2>4. Transit' \in 0 .. Transit
    BY <1>2, <1>3, <2>3 DEF Transit, Data
  <2> QED BY <1>4, <2>2, <2>4 DEF Channel!Flush
<1> QED BY <1>5, <1>6

-----------------------------------------------------------------------------
\* The actions

Simulates == Marked' /\ (UNCHANGED <<Transit, Flushing>> \/ Channel!Next)

\* Where the agents may be.
LEMMA Whereabouts ==
  ASSUME CInv
  PROVE  /\ Agents = Writers \cup Readers \cup Threads /\ Movers = Writers \cup Threads
         /\ pc \in [Agents -> Writing \cup Serving]
         /\ \A t \in Threads : t \notin Writers
         /\ \A r \in Readers : r \notin Movers /\ pc[r] \notin FlushLabels
  BY AgentAssumption DEF CInv, IInv, TypeOK, Agents, Movers, Reading, FlushLabels

\* __strwaitband: a writer gets onto the wait queue.
LEMMA WaitBandSimulates ==
  ASSUME CInv, NEW w \in Writers, WaitBand(w)
  PROVE  Simulates
<1> USE Whereabouts DEF Moves, Goto, Holding, FlushLabels, flow, sleeps
<1>1. /\ Moves(w) /\ UNCHANGED <<count, full>>
      /\ pc[w] \notin Holding \/ pc'[w] \in Holding
      /\ pc'[w] \notin Holding \/ pc[w] \in Holding
      /\ pc[w] \notin FlushLabels \cup {"next"} /\ pc'[w] \notin FlushLabels \cup {"next"}
  BY DEF WaitBand
<1> QED BY <1>1, QuietStep DEF Simulates
\* schedule returns.
LEMMA ResumeSimulates ==
  ASSUME CInv, NEW p \in Writers \cup Readers, Resume(p)
  PROVE  Simulates
<1> USE Whereabouts DEF Moves, Goto, Holding, FlushLabels, flow, sleeps
<1>1. /\ Moves(p) /\ UNCHANGED <<count, full>>
      /\ pc[p] \notin Holding \/ pc'[p] \in Holding
      /\ pc'[p] \notin Holding \/ pc[p] \in Holding
      /\ pc[p] \notin FlushLabels \cup {"next"} /\ pc'[p] \notin FlushLabels \cup {"next"}
  BY DEF Resume
<1> QED BY <1>1, QuietStep DEF Simulates
\* A signal ends a call.
LEMMA InterruptSimulates ==
  ASSUME CInv, NEW p \in Writers \cup Readers, Interrupt(p)
  PROVE  Simulates
<1> USE Whereabouts DEF Moves, Goto, Holding, FlushLabels, flow, sleeps
<1>1. /\ Moves(p) /\ UNCHANGED <<count, full>>
      /\ pc[p] \notin Holding \/ pc'[p] \in Holding
      /\ pc'[p] \notin Holding \/ pc[p] \in Holding
      /\ pc[p] \notin FlushLabels \cup {"next"} /\ pc'[p] \notin FlushLabels \cup {"next"}
  BY DEF Interrupt
<1> QED BY <1>1, QuietStep DEF Simulates
\* loop_wput looks at the queue.
LEMMA WputSimulates ==
  ASSUME CInv, NEW w \in Writers, Wput(w)
  PROVE  Simulates
<1> USE Whereabouts DEF Moves, Goto, Holding, FlushLabels, flow, sleeps
<1>1. /\ Moves(w) /\ UNCHANGED <<count, full>>
      /\ pc[w] \notin Holding \/ pc'[w] \in Holding
      /\ pc'[w] \notin Holding \/ pc[w] \in Holding
      /\ pc[w] \notin FlushLabels \cup {"next"} /\ pc'[w] \notin FlushLabels \cup {"next"}
  BY DEF Wput
<1> QED BY <1>1, QuietStep DEF Simulates
\* putq and putbq enable the queue.
LEMMA EnableSimulates ==
  ASSUME CInv, NEW a \in Movers, Enable(a)
  PROVE  Simulates
<1> USE Whereabouts DEF Moves, Goto, Holding, FlushLabels, flow, sleeps
<1>1. /\ Moves(a) /\ UNCHANGED <<count, full>>
      /\ pc[a] \notin Holding \/ pc'[a] \in Holding
      /\ pc'[a] \notin Holding \/ pc[a] \in Holding
      /\ pc[a] \notin FlushLabels \cup {"next"} /\ pc'[a] \notin FlushLabels \cup {"next"}
  BY DEF Enable, Passed
<1> QED BY <1>1, QuietStep DEF Simulates
\* getq back-enables the stream head.
LEMMA BackenableSimulates ==
  ASSUME CInv, NEW t \in Threads, Backenable(t)
  PROVE  Simulates
<1> USE Whereabouts DEF Moves, Goto, Holding, FlushLabels, flow, sleeps
<1>1. /\ Moves(t) /\ UNCHANGED <<count, full>>
      /\ pc[t] \notin Holding \/ pc'[t] \in Holding
      /\ pc'[t] \notin Holding \/ pc[t] \in Holding
      /\ pc[t] \notin FlushLabels \cup {"next"} /\ pc'[t] \notin FlushLabels \cup {"next"}
  BY DEF Backenable
<1> QED BY <1>1, QuietStep DEF Simulates
\* loop_rsrv.
LEMMA RsrvSimulates ==
  ASSUME CInv, NEW t \in Threads, Rsrv(t)
  PROVE  Simulates
<1> USE Whereabouts DEF Moves, Goto, Holding, FlushLabels, flow, sleeps
<1>1. /\ Moves(t) /\ UNCHANGED <<count, full>>
      /\ pc[t] \notin Holding \/ pc'[t] \in Holding
      /\ pc'[t] \notin Holding \/ pc[t] \in Holding
      /\ pc[t] \notin FlushLabels \cup {"next"} /\ pc'[t] \notin FlushLabels \cup {"next"}
  BY DEF Rsrv
<1> QED BY <1>1, QuietStep DEF Simulates
\* strwsrv clears WSLEEP.
LEMMA strwsrvSimulates ==
  ASSUME CInv, NEW t \in Threads, strwsrv(t)
  PROVE  Simulates
<1> USE Whereabouts DEF Moves, Goto, Holding, FlushLabels, flow, sleeps
<1>1. /\ Moves(t) /\ UNCHANGED <<count, full>>
      /\ pc[t] \notin Holding \/ pc'[t] \in Holding
      /\ pc'[t] \notin Holding \/ pc[t] \in Holding
      /\ pc[t] \notin FlushLabels \cup {"next"} /\ pc'[t] \notin FlushLabels \cup {"next"}
  BY DEF strwsrv
<1> QED BY <1>1, QuietStep DEF Simulates
\* strrsrv clears RSLEEP.
LEMMA strrsrvSimulates ==
  ASSUME CInv, NEW t \in Threads, strrsrv(t)
  PROVE  Simulates
<1> USE Whereabouts DEF Moves, Goto, Holding, FlushLabels, flow, sleeps
<1>1. /\ Moves(t) /\ UNCHANGED <<count, full>>
      /\ pc[t] \notin Holding \/ pc'[t] \in Holding
      /\ pc'[t] \notin Holding \/ pc[t] \in Holding
      /\ pc[t] \notin FlushLabels \cup {"next"} /\ pc'[t] \notin FlushLabels \cup {"next"}
  BY DEF strrsrv
<1> QED BY <1>1, QuietStep DEF Simulates
\* strwakewrite and strwakeread wake.
LEMMA WakeSimulates ==
  ASSUME CInv, NEW t \in Threads, Wake(t)
  PROVE  Simulates
<1> USE Whereabouts DEF Moves, Goto, Holding, FlushLabels, flow, sleeps
<1>1. /\ Moves(t) /\ UNCHANGED <<count, full>>
      /\ pc[t] \notin Holding \/ pc'[t] \in Holding
      /\ pc'[t] \notin Holding \/ pc[t] \in Holding
      /\ pc[t] \notin FlushLabels \cup {"next"} /\ pc'[t] \notin FlushLabels \cup {"next"}
  BY DEF Wake
<1> QED BY <1>1, QuietStep DEF Simulates
\* __strwaitgetq: a reader gets onto the wait queue.
LEMMA WaitReadSimulates ==
  ASSUME CInv, NEW r \in Readers, WaitRead(r)
  PROVE  Simulates
<1> USE Whereabouts DEF Moves, Goto, Holding, FlushLabels, flow, sleeps
<1>1. /\ Moves(r) /\ UNCHANGED <<count, full>>
      /\ pc[r] \notin Holding \/ pc'[r] \in Holding
      /\ pc'[r] \notin Holding \/ pc[r] \in Holding
      /\ pc[r] \notin FlushLabels \cup {"next"} /\ pc'[r] \notin FlushLabels \cup {"next"}
  BY DEF WaitRead
<1> QED BY <1>1, QuietStep DEF Simulates
\* srvp_fast starts a service procedure.
LEMMA SrvpSimulates ==
  ASSUME CInv, NEW t \in Threads, NEW q \in Queues, Srvp(t, q)
  PROVE  Simulates
<1> USE Whereabouts DEF Moves, Goto, Holding, FlushLabels, flow, sleeps
<1>1. /\ Moves(t) /\ UNCHANGED <<count, full>>
      /\ pc[t] = "idle" /\ pc'[t] \in {"strwsrv", "getq", "rsrv", "strrsrv"}
  BY DEF Srvp, Queues, Data
<1> QED BY <1>1, QuietStep DEF Simulates
\* strputpmsg_common: the first test of flow control.
LEMMA WriteSimulates ==
  ASSUME CInv, NEW w \in Writers, Write(w)
  PROVE  Simulates
<1> USE Whereabouts DEF Moves, Goto, Holding, FlushLabels, flow, sleeps
<1>1. Moves(w) /\ UNCHANGED <<count, full>> /\ pc[w] = "idle"
  BY DEF Write, bcanput
<1>2. CASE CanPut("wq")
  <2>1. pc' = [pc EXCEPT ![w] = "first"] /\ "wq" \notin full
    BY <1>2 DEF Write, CanPut
  <2> QED BY <1>1, <2>1, SendStep DEF Simulates, Channel!Next
<1>3. CASE ~CanPut("wq")
  <2>1. pc'[w] \in {"idle", "wait", "sleep"}
    BY <1>3 DEF Write
  <2> QED BY <1>1, <2>1, QuietStep DEF Simulates
<1> QED BY <1>2, <1>3
\* __strwaitband: the test of flow control.
LEMMA TestBandSimulates ==
  ASSUME CInv, NEW w \in Writers, TestBand(w)
  PROVE  Simulates
<1> USE Whereabouts DEF Moves, Goto, Holding, FlushLabels, flow, sleeps
<1>1. Moves(w) /\ UNCHANGED <<count, full>> /\ pc[w] = "test"
  BY DEF TestBand, bcanput
<1>2. CASE CanPut("wq")
  <2>1. pc' = [pc EXCEPT ![w] = "first"] /\ "wq" \notin full
    BY <1>2 DEF TestBand, CanPut
  <2> QED BY <1>1, <2>1, SendStep DEF Simulates, Channel!Next
<1>3. CASE ~CanPut("wq")
  <2>1. pc'[w] \in {"idle", "wait", "sleep"}
    BY <1>3 DEF TestBand
  <2> QED BY <1>1, <2>1, QuietStep DEF Simulates
<1> QED BY <1>2, <1>3
\* bcanputnext.
LEMMA CanPutNextSimulates ==
  ASSUME CInv, NEW a \in Movers, CanPutNext(a)
  PROVE  Simulates
<1> USE Whereabouts DEF Moves, Goto, Holding, FlushLabels, flow, sleeps
<1>1. Moves(a) /\ UNCHANGED <<count, full>> /\ pc[a] = "can"
  BY DEF CanPutNext, bcanput
<1>2. CASE CanPut("rq")
  <2>1. pc'[a] = "next" /\ "rq" \notin full
    BY <1>2 DEF CanPutNext, CanPut
  <2> QED BY <1>1, <2>1, PassStep DEF Simulates
<1>3. CASE ~CanPut("rq")
  <2>1. pc'[a] \in {"putq", "putbq"}
    BY <1>3 DEF CanPutNext, Refused
  <2> QED BY <1>1, <2>1, QuietStep DEF Simulates
<1> QED BY <1>2, <1>3
\* loop_wput queues the message.
LEMMA WputQueueSimulates ==
  ASSUME CInv, NEW w \in Writers, WputQueue(w)
  PROVE  Simulates
<1> USE Whereabouts DEF Moves, Goto, Holding, FlushLabels, flow, sleeps
<1>1. Moves(w) /\ Put("wq") /\ pc[w] = "putq" /\ pc'[w] \in {"enable_wq", "idle"}
  BY DEF WputQueue
<1> QED BY <1>1, PutStep DEF Simulates, Data
\* loop_wsrv puts the message back.
LEMMA PutbqSimulates ==
  ASSUME CInv, NEW t \in Threads, Putbq(t)
  PROVE  Simulates
<1> USE Whereabouts DEF Moves, Goto, Holding, FlushLabels, flow, sleeps
<1>1. Moves(t) /\ Put("wq") /\ pc[t] = "putbq" /\ pc'[t] \in {"enable_wq", "idle"}
  BY DEF Putbq
<1> QED BY <1>1, PutStep DEF Simulates, Data
\* putnext.
LEMMA PutNextSimulates ==
  ASSUME CInv, NEW a \in Movers, PutNext(a)
  PROVE  Simulates
<1> USE Whereabouts DEF Moves, Goto, Holding, FlushLabels, flow, sleeps
<1>1. Moves(a) /\ Put("rq") /\ pc[a] = "next" /\ pc'[a] \in {"enable_rq", "getq", "idle"}
  BY DEF PutNext, Passed
<1> QED BY <1>1, PutStep DEF Simulates, Data
\* loop_wsrv: getq.
LEMMA GetqSimulates ==
  ASSUME CInv, NEW t \in Threads, Getq(t)
  PROVE  Simulates
<1> USE Whereabouts DEF Moves, Goto, Holding, FlushLabels, flow, sleeps
<1>1. CASE count["wq"] = 0
  <2>1. Moves(t) /\ UNCHANGED <<count, full>> /\ pc[t] = "getq" /\ pc'[t] = "idle"
    BY <1>1 DEF Getq
  <2> QED BY <2>1, QuietStep DEF Simulates
<1>2. CASE count["wq"] # 0
  BY <1>2, TakeStep DEF Simulates
<1> QED BY <1>1, <1>2
\* A reader's first try.
LEMMA ReadSimulates ==
  ASSUME CInv, NEW r \in Readers, Read(r)
  PROVE  Simulates
<1> USE Whereabouts DEF Moves, Goto, Holding, FlushLabels, flow, sleeps
<1>1. strgetq /\ Moves(r) /\ pc'[r] \in {"idle", "wait", "sleep"}
  BY DEF Read
<1>2. CASE count["rq"] = 0
  <2>1. UNCHANGED <<count, full>>
    BY <1>1, <1>2 DEF strgetq
  <2> QED BY <1>1, <2>1, QuietStep DEF Simulates
<1>3. CASE count["rq"] # 0
  BY <1>1, <1>3, ReceiveStep DEF Simulates, Channel!Next
<1> QED BY <1>2, <1>3
\* A reader's next try.
LEMMA TestReadSimulates ==
  ASSUME CInv, NEW r \in Readers, TestRead(r)
  PROVE  Simulates
<1> USE Whereabouts DEF Moves, Goto, Holding, FlushLabels, flow, sleeps
<1>1. strgetq /\ Moves(r) /\ pc'[r] \in {"idle", "wait", "sleep"}
  BY DEF TestRead
<1>2. CASE count["rq"] = 0
  <2>1. UNCHANGED <<count, full>>
    BY <1>1, <1>2 DEF strgetq
  <2> QED BY <1>1, <2>1, QuietStep DEF Simulates
<1>3. CASE count["rq"] # 0
  BY <1>1, <1>3, ReceiveStep DEF Simulates, Channel!Next
<1> QED BY <1>2, <1>3
\* loop_wput: M_FLUSH flushes wq.
LEMMA FlushWriteSimulates ==
  ASSUME CInv, NEW w \in Writers, FlushWrite(w)
  PROVE  Simulates
<1> USE Whereabouts DEF Moves, Goto, Holding, FlushLabels, flow, sleeps
<1>1. flushq(w, "wq", "fback", "fnext") /\ pc[w] = "idle"
  BY DEF FlushWrite
<1>2. pc'[w] \in {"fback", "fnext"}
  BY <1>1 DEF flushq
<1>3. Flushing'
  BY <1>2 DEF Flushing, At
<1> QED BY <1>1, <1>3, FlushStep DEF Simulates, Channel!Next, Data
\* str_m_flush flushes rq.
LEMMA FlushReadSimulates ==
  ASSUME CInv, NEW w \in Writers, FlushRead(w)
  PROVE  Simulates
<1> USE Whereabouts DEF Moves, Goto, Holding, FlushLabels, flow, sleeps
<1>1. flushq(w, "rq", "frback", "idle") /\ pc[w] = "fnext"
  BY DEF FlushRead
<1>2. Flushing
  BY <1>1 DEF Flushing, At
<1> QED BY <1>1, <1>2, FlushStep DEF Simulates, Channel!Next, Data
\* flushq back-enables.
LEMMA FlushBackSimulates ==
  ASSUME CInv, NEW w \in Writers, FlushBack(w)
  PROVE  Simulates
<1> USE Whereabouts DEF Moves, Goto, Holding, FlushLabels, flow, sleeps
<1>1. /\ TypeOK /\ Moves(w) /\ w \in Movers /\ UNCHANGED <<count, full>>
      /\ pc[w] \in {"fback", "frback"} /\ pc'[w] \in {"fnext", "idle"}
  BY DEF FlushBack, CInv, IInv
<1>2. MoversAt(Holding)' = MoversAt(Holding) /\ MoversAt({"next"})' = MoversAt({"next"})
  BY <1>1, MoversStep
<1>3. Flushing /\ Flushing' \in BOOLEAN
  BY <1>1 DEF Flushing, At
<1>4. Transit' = Transit /\ Transit \in Nat
  BY <1>1, <1>2, CountTyped, MoversFinite DEF Transit
<1>5. Marked'
  BY <1>1, <1>2 DEF CInv, Marked
<1>6. Channel!Flush
  BY <1>3, <1>4 DEF Channel!Flush
<1> QED BY <1>5, <1>6 DEF Simulates, Channel!Next
-----------------------------------------------------------------------------

\* A step of an agent is a step of the channel, or none.
LEMMA NextSimulates == CInv /\ Next => Simulates
<1> SUFFICES ASSUME CInv, Next PROVE Simulates
  OBVIOUS
<1>1. ASSUME NEW w \in Writers, Write(w) \/ WriterStep(w) \/ Interrupt(w) \/ FlushWrite(w)
      PROVE  Simulates
  <2>1. w \in Movers BY DEF Movers
  <2> QED BY <1>1, <2>1, WriteSimulates, WaitBandSimulates, TestBandSimulates, ResumeSimulates,
             WputSimulates, WputQueueSimulates, CanPutNextSimulates, PutNextSimulates,
             EnableSimulates, FlushReadSimulates, FlushBackSimulates, InterruptSimulates,
             FlushWriteSimulates
          DEF WriterStep
<1>2. ASSUME NEW t \in Threads, ServiceStep(t) \/ \E q \in Queues : Srvp(t, q)
      PROVE  Simulates
  <2>1. t \in Movers BY DEF Movers
  <2> QED BY <1>2, <2>1, SrvpSimulates, GetqSimulates, BackenableSimulates, CanPutNextSimulates,
             PutNextSimulates, EnableSimulates, PutbqSimulates, RsrvSimulates, strwsrvSimulates,
             strrsrvSimulates, WakeSimulates
          DEF ServiceStep
<1>3. ASSUME NEW r \in Readers, ReaderStep(r) \/ Interrupt(r)
      PROVE  Simulates
  BY <1>3, ReadSimulates, WaitReadSimulates, TestReadSimulates, ResumeSimulates,
     InterruptSimulates DEF ReaderStep
<1> QED BY <1>1, <1>2, <1>3 DEF Next

\* At the start nobody has a message.
LEMMA InitSimulates == Init => CInv /\ Channel!Init
<1> SUFFICES ASSUME Init PROVE CInv /\ Channel!Init
  OBVIOUS
<1>1. IInv
  BY InitInvariant
<1>2. \A a \in Agents : pc[a] = "idle"
  BY DEF Init
<1>3. MoversAt(Holding) = {} /\ MoversAt({"next"}) = {} /\ Flushing = FALSE
  BY <1>2 DEF MoversAt, Movers, Agents, Holding, Flushing, At
<1>4. Cardinality({}) = 0 /\ Cardinality(Movers) \in Nat
  BY FS_EmptySet, MoversFinite
<1>5. count["wq"] = 0 /\ count["rq"] = 0
  BY DEF Init, Data
<1>6. Marked
  BY <1>3, <1>4, <1>5, MarkAssumption DEF Marked, Data, Hiwat
<1>7. Transit = 0
  BY <1>3, <1>4, <1>5 DEF Transit
<1> QED BY <1>1, <1>3, <1>6, <1>7 DEF CInv, Channel!Init

\* One direction of the connected streams implements the channel: messages are
\* lost in a flush only, and flow control, which is tested by everybody before
\* anybody puts, still bounds the messages under way.
THEOREM FlowImplementsChannel == Spec => ImplementsChannel
<1>1. Init => CInv /\ Channel!Init
  BY InitSimulates
<1>2. CInv /\ [Next]_vars => CInv'
  <2> SUFFICES ASSUME CInv, [Next]_vars PROVE CInv'
    OBVIOUS
  <2>1. IInv'
    BY StepInvariant DEF CInv
  <2>2. CASE Next
    BY <2>1, <2>2, NextSimulates DEF CInv, Simulates
  <2>3. CASE UNCHANGED vars
    BY <2>1, <2>3 DEF CInv, Marked, MoversAt, vars
  <2> QED BY <2>2, <2>3
<1>3. CInv /\ [Next]_vars => [Channel!Next]_(Channel!vars)
  <2> SUFFICES ASSUME CInv, [Next]_vars PROVE [Channel!Next]_(Channel!vars)
    OBVIOUS
  <2>1. CASE Next
    BY <2>1, NextSimulates DEF Simulates, Channel!vars
  <2>2. CASE UNCHANGED vars
    BY <2>2 DEF vars, Transit, Flushing, MoversAt, At, Channel!vars
  <2> QED BY <2>1, <2>2
<1> QED BY <1>1, <1>2, <1>3, PTL DEF Spec, ImplementsChannel, Channel!Spec

=============================================================================
