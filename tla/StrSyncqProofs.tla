--------------------------- MODULE StrSyncqProofs ---------------------------
(***************************************************************************)
(* Proofs about the barrier of StrSyncq, for any number of threads and any *)
(* work: exclusive access is exclusive, deferred work is never forgotten,  *)
(* work is listed once, and messages run in the order in which they were   *)
(* put.  Safe(s, I) relates a barrier s to the procedures I inside it;     *)
(* each function on the barrier has a lemma that says it keeps that        *)
(* relation.  LInv says what is on the lists, and defer_syncq and runsyncq *)
(* have lemmas that say what they do to them.                              *)
(***************************************************************************)
EXTENDS StrSyncq, TLAPS, FiniteSetTheorems, SequenceTheorems

\* The barrier is with the scheduler or handed to the waiters.
Idle(s) == s.link \/ s.owner = NULL

Safe(s, I) ==
  /\ IsFiniteSet(I)
  /\ s.count >= -1
  /\ s.count >= 0 => Cardinality(I) = s.count /\ (\A p \in I : ~p.excl) /\ ~s.link
  /\ s.count = -1 => \/ I = {} /\ Idle(s)
                     \/ \E p : I = {p} /\ p.excl /\ s.owner = p.t /\ ~s.link
  /\ s.count = -1 /\ s.owner = NULL => ~s.link
  /\ s.count = 0 => ~Backlog(s)

\* What is taken off the lists is being run.
BatchRuns == batch # <<>> => \E p \in inside : p.run

\* A barrier that was handed to the waiters has a waiter that will pick it up.
HandedOver == sq.count = -1 /\ sq.owner = NULL => \E t \in sq.waitq : opener[t] = "check"

\* An open procedure that runs is inside, with exclusive access.
OpenersInside ==
  \A t \in Tasks : opener[t] = "in" => \E p \in inside : p.t = t /\ p.w = OPEN /\ p.excl

\* What is inside is what its kind makes it.
Kinds == \A p \in inside : p.run => p.excl /\ p.w # OPEN

IInv == TypeOK /\ Safe(sq, inside) /\ BatchRuns /\ HandedOver /\ OpenersInside /\ Kinds

-----------------------------------------------------------------------------
\* The functions on a barrier.

\* A barrier with nobody inside has count 0, or is idle.
LEMMA EmptyBarrier ==
  ASSUME NEW s, Barrier(s), NEW I, Safe(s, I), s.count = 0
  PROVE  I = {}
  BY FS_EmptySet DEF Safe, Barrier

\* enter_syncq_exclus: from an empty barrier.
LEMMA ExclusSafe ==
  ASSUME NEW s, Barrier(s), NEW I, Safe(s, I), NEW t \in Threads, NEW p,
         p.excl, p.t = t,
         I = {}, ~s.link
  PROVE  Barrier(EnterExclus(s, t)) /\ Safe(EnterExclus(s, t), I \cup {p})
<1> DEFINE e == EnterExclus(s, t)
<1>1. Barrier(e) /\ e.count = -1 /\ e.owner = t /\ e.link = s.link
  BY DEF EnterExclus, Barrier
<1>2. I \cup {p} = {p} /\ IsFiniteSet({p})
  BY FS_Singleton
<1> QED BY <1>1, <1>2, ThreadAssumption DEF Safe, Idle

\* enter_syncq_shared: beside others that have shared access.
LEMMA SharedSafe ==
  ASSUME NEW s, Barrier(s), NEW I, Safe(s, I), NEW p, p \notin I, ~p.excl, s.count >= 0
  PROVE  Barrier(EnterShared(s)) /\ Safe(EnterShared(s), I \cup {p})
<1> DEFINE e == EnterShared(s)
<1>1. Barrier(e) /\ e.count = s.count + 1 /\ e.link = s.link
  BY DEF EnterShared, Barrier
<1>2. IsFiniteSet(I \cup {p}) /\ Cardinality(I \cup {p}) = Cardinality(I) + 1
  BY FS_AddElement DEF Safe
<1>3. s.count \in Int BY DEF Barrier
<1> QED BY <1>1, <1>2, <1>3 DEF Safe

\* Work that cannot enter is deferred on a barrier that is not free.
LEMMA DeferSafe ==
  ASSUME NEW s, Barrier(s), NEW I, Safe(s, I), NEW w \in Works, s.count # 0
  PROVE  Barrier(defer_syncq(s, w)) /\ Safe(defer_syncq(s, w), I)
<1> DEFINE e == defer_syncq(s, w)
<1>1. ListOf(w) \in Lists BY DEF ListOf, Lists
<1>2. Barrier(e) /\ e.count = s.count /\ e.owner = s.owner /\ e.link = s.link
  BY <1>1 DEF defer_syncq, Barrier
<1> QED BY <1>2 DEF Safe, Idle

\* leave_syncq by a procedure p that is inside.
LEMMA LeaveSafe ==
  ASSUME NEW s, Barrier(s), NEW I, Safe(s, I), NEW p \in I, p.t \in Threads
  PROVE  /\ Barrier(leave_syncq(s, p.t))
         /\ Safe(leave_syncq(s, p.t), I \ {p})
         /\ ~(leave_syncq(s, p.t).count = -1 /\ leave_syncq(s, p.t).owner = NULL)
<1> DEFINE t == p.t
           e == leave_syncq(s, t)
<1>0. IsFiniteSet(I \ {p}) /\ Cardinality(I \ {p}) = Cardinality(I) - 1
  BY FS_RemoveElement DEF Safe
<1>1. CASE s.count >= 0 /\ s.count - 1 > 0
  <2>1. e = [s EXCEPT !.count = s.count - 1]
    BY <1>1 DEF leave_syncq, Barrier
  <2>2. Barrier(e) /\ e.count = s.count - 1 /\ e.link = s.link
    BY <2>1, <1>1 DEF Barrier
  <2> QED BY <1>0, <1>1, <2>2 DEF Safe, Barrier
<1>2. CASE ~(s.count >= 0 /\ s.count - 1 > 0)
  <2>1. (s.count = -1 /\ s.owner = t) \/ s.count = 1
    <3>1. s.count # 0 BY EmptyBarrier
    <3>2. s.count = -1 => s.owner = t BY DEF Safe, Barrier
    <3> QED BY <1>2, <3>1, <3>2 DEF Safe, Barrier
  <2>2. I \ {p} = {}
    <3>1. CASE s.count = -1 BY <3>1 DEF Safe
    <3>2. CASE s.count = 1
      <4>1. Cardinality(I \ {p}) = 0 BY <3>2, <1>0 DEF Safe
      <4> QED BY <4>1, <1>0, FS_EmptySet
    <3> QED BY <2>1, <3>1, <3>2
  <2>3. CASE Backlog(s)
    <3>0. e = [[[(IF s.count >= 0 THEN [s EXCEPT !.count = s.count - 1] ELSE s)
                    EXCEPT !.owner = t] EXCEPT !.count = -1] EXCEPT !.link = TRUE]
      BY <2>1, <2>3 DEF leave_syncq, sqsched, Barrier
    <3>1. Barrier(e) /\ e.count = -1 /\ e.owner = t /\ e.link = TRUE
      BY <2>1, <3>0 DEF Barrier
    <3> QED BY <2>2, <3>1, <1>0, ThreadAssumption DEF Safe, Idle
  <2>4. CASE ~Backlog(s)
    <3>1. Barrier(e) /\ e.count = 0 /\ e.owner = NULL /\ e.link = s.link /\ e.list = s.list
      BY <2>1, <2>4 DEF leave_syncq, Barrier
    <3>2. ~s.link BY <2>1 DEF Safe
    <3>3. ~Backlog(e) BY <2>4, <3>1 DEF Backlog
    <3>4. Cardinality(I \ {p}) = 0 /\ IsFiniteSet(I \ {p}) BY <2>2, FS_EmptySet
    <3>5. \A r \in I \ {p} : ~r.excl BY <2>2
    <3>6. e.link = FALSE BY <3>1, <3>2 DEF Barrier
    <3> QED BY <3>1, <3>3, <3>4, <3>5, <3>6 DEF Safe, Idle
  <2> QED BY <2>3, <2>4
<1> QED BY <1>1, <1>2

-----------------------------------------------------------------------------
\* The steps.

\* How deep a procedure is in its thread's calls is a number.
LEMMA DepthNat == ASSUME IsFiniteSet(inside), NEW t PROVE Depth(t) \in Nat
<1>1. {p \in inside : p.t = t} \in SUBSET inside
  OBVIOUS
<1>2. IsFiniteSet({p \in inside : p.t = t})
  BY <1>1, FS_Subset
<1> QED BY <1>2, FS_CardinalityType DEF Depth

\* Entering, or deferring, keeps the invariant whatever the caller does with QENAB.
LEMMA EnterOrDeferStep ==
  ASSUME IInv, NEW t \in Threads, NEW w \in Works, ~Running(w) \/ w \in Queues,
         NEW excl \in BOOLEAN, w \in Queues => excl, EnterOrDefer(t, w, excl),
         UNCHANGED <<shared, batch, phase, opener>>,
         enab' \subseteq Queues, runq' \subseteq Queues
  PROVE  IInv'
<1> DEFINE p == [t |-> t, w |-> w, excl |-> excl, run |-> FALSE, depth |-> Depth(t)]
<1>0. Barrier(sq) /\ Safe(sq, inside) /\ TypeOK BY DEF IInv, TypeOK
<1>1. p \in Procedure /\ p.excl = excl /\ p.t = t /\ p.w = w /\ p.run = FALSE
  BY <1>0, DepthNat DEF Safe, Procedure
<1>2. CASE IF excl THEN MayEnterExclus(sq) ELSE MayEnterShared(sq)
  <2>1. inside' = inside \cup {p} /\ before' = before
    BY <1>2 DEF EnterOrDefer
  <2>2. Barrier(sq') /\ Safe(sq', inside') /\ sq'.waitq = sq.waitq
        /\ ~(sq'.count = -1 /\ sq'.owner = NULL)
    <3>1. CASE excl
      <4>1. sq' = EnterExclus(sq, t) /\ sq.count = 0
        BY <3>1, <1>2 DEF EnterOrDefer, MayEnterExclus
      <4>2. inside = {} /\ ~sq.link
        BY <4>1, <1>0, EmptyBarrier DEF Safe
      <4>3. Barrier(EnterExclus(sq, t)) /\ Safe(EnterExclus(sq, t), inside \cup {p})
        BY <4>2, <1>0, <1>1, <3>1, ExclusSafe
      <4>4. sq'.waitq = sq.waitq /\ sq'.owner = t
        BY <4>1, <1>0 DEF EnterExclus, Barrier
      <4> QED BY <4>1, <4>3, <4>4, <2>1, ThreadAssumption
    <3>2. CASE ~excl
      <4>1. sq' = EnterShared(sq) /\ sq.count >= 0
        BY <3>2, <1>2 DEF EnterOrDefer, MayEnterShared
      <4>2. p \notin inside
        BY <1>1, <3>2 DEF Running
      <4>3. Barrier(EnterShared(sq)) /\ Safe(EnterShared(sq), inside \cup {p})
        BY <4>1, <4>2, <1>0, <1>1, <3>2, SharedSafe
      <4>4. sq'.waitq = sq.waitq /\ sq'.count = sq.count + 1 /\ sq.count \in Int
        BY <4>1, <1>0 DEF EnterShared, Barrier
      <4> QED BY <4>1, <4>3, <4>4, <2>1
    <3> QED BY <3>1, <3>2
  <2>3. TypeOK'
    BY <1>0, <1>1, <2>1, <2>2 DEF TypeOK
  <2>4. BatchRuns' /\ OpenersInside' /\ Kinds'
    BY <2>1, <1>1 DEF IInv, BatchRuns, OpenersInside, Kinds
  <2>5. HandedOver'
    BY <2>2 DEF HandedOver
  <2> QED BY <2>2, <2>3, <2>4, <2>5 DEF IInv
<1>3. CASE ~IF excl THEN MayEnterExclus(sq) ELSE MayEnterShared(sq)
  <2>1. inside' = inside /\ sq' = defer_syncq(sq, w)
    BY <1>3 DEF EnterOrDefer
  <2>2. sq.count # 0
    BY <1>3, <1>0 DEF MayEnterExclus, MayEnterShared, Barrier
  <2>3. Barrier(sq') /\ Safe(sq', inside')
    BY <2>1, <2>2, <1>0, DeferSafe
  <2>4. sq'.waitq = sq.waitq /\ sq'.count = sq.count /\ sq'.owner = sq.owner
    BY <2>1, <1>0 DEF defer_syncq, Barrier
  <2>5. before' \in [Messages -> SUBSET Messages]
    <3>1. before' = [v \in Messages |-> IF v = w THEN {u \in Messages : Deferred(u)} ELSE before[v]]
      BY <1>3 DEF EnterOrDefer
    <3> QED BY <3>1, <1>0 DEF TypeOK
  <2>6. TypeOK'
    BY <1>0, <2>1, <2>3, <2>5 DEF TypeOK
  <2>7. BatchRuns' /\ OpenersInside' /\ Kinds' /\ HandedOver'
    BY <2>1, <2>4 DEF IInv, BatchRuns, OpenersInside, Kinds, HandedOver
  <2> QED BY <2>3, <2>6, <2>7 DEF IInv
<1> QED BY <1>2, <1>3

\* A procedure p leaves; whoever stays keeps its state.
LEMMA LeaveStep ==
  ASSUME IInv, NEW p \in inside, ~p.run \/ batch = <<>>,
         inside' = inside \ {p}, sq' = leave_syncq(sq, p.t),
         UNCHANGED <<shared, batch, phase, enab, runq, before>>,
         opener' \in [Tasks -> {"none", "enqueue", "check", "asleep", "in", "qwait"}],
         \A t \in Tasks : opener'[t] = "in" => opener[t] = "in" /\ ~(p.w = OPEN /\ p.t = t)
  PROVE  IInv'
<1>0. Barrier(sq) /\ Safe(sq, inside) /\ TypeOK /\ p \in Procedure /\ p.t \in Threads
  BY DEF IInv, TypeOK, Procedure
<1>1. Barrier(sq') /\ Safe(sq', inside') /\ ~(sq'.count = -1 /\ sq'.owner = NULL)
  BY <1>0, LeaveSafe
<1>2. TypeOK'
  BY <1>0, <1>1 DEF TypeOK
<1>3. BatchRuns'
  BY DEF IInv, BatchRuns
<1>4. OpenersInside' /\ Kinds'
  BY DEF IInv, OpenersInside, Kinds
<1>5. HandedOver'
  BY <1>1 DEF HandedOver
<1> QED BY <1>1, <1>2, <1>3, <1>4, <1>5 DEF IInv

\* Return keeps the invariant.
LEMMA ReturnStep == ASSUME IInv, NEW p \in inside, Return(p) PROVE IInv'
<1>1. opener' \in [Tasks -> {"none", "enqueue", "check", "asleep", "in", "qwait"}]
  BY DEF Return, IInv, TypeOK
<1> QED BY <1>1, LeaveStep DEF Return

\* LeaveOpen keeps the invariant.
LEMMA LeaveOpenStep ==
  ASSUME IInv, NEW t \in Tasks, NEW to \in {"none", "qwait"}, LeaveOpen(t, to)
  PROVE  IInv'
<1>1. PICK p \in inside : p.t = t /\ p.w = OPEN /\ p.excl
  BY DEF LeaveOpen, IInv, OpenersInside
<1>2. inside = {p}
  BY <1>1 DEF IInv, Safe, TypeOK, Barrier
<1>3. inside' = inside \ {p} /\ sq' = leave_syncq(sq, p.t)
  BY <1>1, <1>2 DEF LeaveOpen
<1>4. opener' \in [Tasks -> {"none", "enqueue", "check", "asleep", "in", "qwait"}]
  BY DEF LeaveOpen, IInv, TypeOK
<1>5. \A u \in Tasks : opener'[u] = "in" => opener[u] = "in" /\ ~(p.w = OPEN /\ p.t = u)
  BY <1>1 DEF LeaveOpen, IInv, TypeOK
<1>6. ~p.run \/ batch = <<>>
  BY <1>1 DEF IInv, Kinds
<1> QED BY <1>1, <1>3, <1>4, <1>5, <1>6, LeaveStep DEF LeaveOpen

\* A task enters for its open procedure an empty barrier.
LEMMA OpenEnters ==
  ASSUME IInv, NEW t \in Tasks, NEW s, Barrier(s), Safe(s, inside), inside = {}, ~s.link,
         sq' = EnterExclus(s, t),
         inside' = inside \cup {[t |-> t, w |-> OPEN, excl |-> TRUE, run |-> FALSE, depth |-> 1]},
         opener' = [opener EXCEPT ![t] = "in"],
         UNCHANGED <<shared, batch, phase, enab, runq, before>>
  PROVE  IInv'
<1> DEFINE p == [t |-> t, w |-> OPEN, excl |-> TRUE, run |-> FALSE, depth |-> 1]
<1>0. t \in Threads BY ThreadAssumption
<1>1. p \in Procedure /\ p.excl = TRUE /\ p.t = t /\ p.w = OPEN /\ p.run = FALSE
  BY <1>0 DEF Procedure
<1>2. Barrier(sq') /\ Safe(sq', inside')
  BY <1>0, <1>1, ExclusSafe
<1>3. sq'.owner = t BY DEF EnterExclus, Barrier
<1>4. TypeOK' BY <1>1, <1>2 DEF IInv, TypeOK
<1>5. BatchRuns' BY DEF IInv, BatchRuns
<1>6. OpenersInside' BY <1>1 DEF IInv, OpenersInside, TypeOK
<1>7. Kinds' BY <1>1 DEF IInv, Kinds
<1>8. HandedOver' BY <1>0, <1>3, ThreadAssumption DEF HandedOver
<1> QED BY <1>2, <1>4, <1>5, <1>6, <1>7, <1>8 DEF IInv

\* Open keeps the invariant.
LEMMA OpenStep == ASSUME IInv, NEW t \in Tasks, Open(t) PROVE IInv'
<1>1. CASE MayEnterExclus(sq)
  <2>1. inside = {} /\ ~sq.link /\ Barrier(sq) /\ Safe(sq, inside)
    BY <1>1, EmptyBarrier DEF MayEnterExclus, IInv, TypeOK, Safe
  <2> QED BY <1>1, <2>1, OpenEnters DEF Open
<1>2. CASE ~MayEnterExclus(sq)
  <2>1. UNCHANGED <<shared, sq, inside, batch, phase, enab, runq, before>>
        /\ opener' = [opener EXCEPT ![t] = "enqueue"] /\ opener[t] # "check"
    BY <1>2 DEF Open
  <2>2. TypeOK' BY <2>1 DEF IInv, TypeOK
  <2>3. BatchRuns' /\ Kinds' BY <2>1 DEF IInv, BatchRuns, Kinds
  <2>4. OpenersInside' BY <2>1 DEF IInv, OpenersInside, TypeOK
  <2>5. HandedOver'
    BY <2>1 DEF IInv, HandedOver, TypeOK, Barrier
  <2> QED BY <2>1, <2>2, <2>3, <2>4, <2>5 DEF IInv
<1> QED BY <1>1, <1>2

\* Enqueue keeps the invariant.
LEMMA EnqueueStep == ASSUME IInv, NEW t \in Tasks, Enqueue(t) PROVE IInv'
<1>1. Barrier(sq') /\ sq'.count = sq.count /\ sq'.owner = sq.owner /\ sq'.link = sq.link
      /\ sq'.list = sq.list /\ sq'.waitq = sq.waitq \cup {t}
  BY DEF Enqueue, IInv, TypeOK, Barrier
<1>2. Safe(sq', inside')
  BY <1>1 DEF Enqueue, IInv, Safe, Backlog, Idle
<1>3. TypeOK' BY <1>1 DEF Enqueue, IInv, TypeOK
<1>4. BatchRuns' /\ Kinds' BY DEF Enqueue, IInv, BatchRuns, Kinds
<1>5. OpenersInside' BY DEF Enqueue, IInv, OpenersInside, TypeOK
<1>6. HandedOver' BY <1>1 DEF Enqueue, IInv, HandedOver, TypeOK, Barrier
<1> QED BY <1>2, <1>3, <1>4, <1>5, <1>6 DEF IInv

\* Check keeps the invariant: what it picks up is empty, and a waiter that goes
\* back to sleep was not needed to pick it up.
LEMMA CheckStep == ASSUME IInv, NEW t \in Tasks, Check(t) PROVE IInv'
<1>1. CASE MayPickUp(sq)
  <2>1. inside = {} /\ ~sq.link
    <3>1. CASE sq.count = 0 BY <3>1, EmptyBarrier DEF IInv, TypeOK, Safe
    <3>2. CASE sq.count = -1 /\ sq.owner = NULL
      <4>1. \A p \in inside : p.t \in Threads BY DEF IInv, TypeOK, Procedure
      <4> QED BY <3>2, <4>1, ThreadAssumption DEF IInv, Safe
    <3> QED BY <1>1, <3>1, <3>2 DEF MayPickUp
  <2> DEFINE s == [sq EXCEPT !.waitq = @ \ {t}]
  <2>2. Barrier(s) /\ s.count = sq.count /\ s.owner = sq.owner /\ s.link = sq.link
        /\ s.list = sq.list
    BY DEF IInv, TypeOK, Barrier
  <2>3. Safe(s, inside)
    BY <2>2 DEF IInv, Safe, Backlog, Idle
  <2>4. sq' = EnterExclus(s, t)
    BY <1>1 DEF Check, EnterExclus, IInv, TypeOK, Barrier
  <2> QED BY <1>1, <2>1, <2>2, <2>3, <2>4, OpenEnters DEF Check
<1>2. CASE ~MayPickUp(sq)
  <2>1. UNCHANGED <<shared, sq, inside, batch, phase, enab, runq, before>>
        /\ opener' = [opener EXCEPT ![t] = "asleep"]
    BY <1>2 DEF Check
  <2>2. TypeOK' BY <2>1 DEF IInv, TypeOK
  <2>3. BatchRuns' /\ Kinds' BY <2>1 DEF IInv, BatchRuns, Kinds
  <2>4. OpenersInside' BY <2>1 DEF IInv, OpenersInside, TypeOK
  <2>5. HandedOver' BY <1>2, <2>1 DEF HandedOver, MayPickUp
  <2> QED BY <2>1, <2>2, <2>3, <2>4, <2>5 DEF IInv
<1> QED BY <1>1, <1>2

\* The list that runsyncq takes next is one with work on it.
LEMMA NextListHasWork ==
  ASSUME NEW s, Backlog(s), NEW l \in Lists
  PROVE  NextList(s, l) \in Lists /\ s.list[NextList(s, l)] # <<>>
<1> DEFINE first(i) == s.list[From(l)[i]] # <<>> /\ \A j \in 1 .. i - 1 : s.list[From(l)[j]] = <<>>
<1>1. \A i \in 1 .. 3 : From(l)[i] \in Lists
  BY DEF From, Lists
<1>2. \A k \in Lists : \E i \in 1 .. 3 : From(l)[i] = k
  <2>1. From(l)[1] = "m" \/ From(l)[2] = "m" \/ From(l)[3] = "m" BY DEF From, Lists
  <2>2. From(l)[1] = "q" \/ From(l)[2] = "q" \/ From(l)[3] = "q" BY DEF From, Lists
  <2>3. From(l)[1] = "e" \/ From(l)[2] = "e" \/ From(l)[3] = "e" BY DEF From, Lists
  <2> QED BY <2>1, <2>2, <2>3 DEF Lists
<1>3. \E i \in 1 .. 3 : s.list[From(l)[i]] # <<>>
  BY <1>2 DEF Backlog
<1>4. \E i \in 1 .. 3 : first(i)
  <2>1. CASE s.list[From(l)[1]] # <<>>
    <3>1. first(1) BY <2>1
    <3> QED BY <3>1
  <2>2. CASE s.list[From(l)[1]] = <<>> /\ s.list[From(l)[2]] # <<>>
    <3>1. \A j \in 1 .. 2 - 1 : j = 1 OBVIOUS
    <3>2. first(2) BY <2>2, <3>1
    <3> QED BY <3>2
  <2>3. CASE s.list[From(l)[1]] = <<>> /\ s.list[From(l)[2]] = <<>>
    <3>1. \A j \in 1 .. 3 - 1 : j = 1 \/ j = 2 OBVIOUS
    <3>2. s.list[From(l)[3]] # <<>>
      <4>1. \A i \in 1 .. 3 : i = 1 \/ i = 2 \/ i = 3 OBVIOUS
      <4> QED BY <1>3, <2>3, <4>1
    <3>3. first(3) BY <2>3, <3>1, <3>2
    <3> QED BY <3>3
  <2> QED BY <2>1, <2>2, <2>3
<1> DEFINE k == CHOOSE i \in 1 .. 3 : first(i)
<1>5. k \in 1 .. 3 /\ first(k) BY <1>4
<1>6. NextList(s, l) = From(l)[k] BY DEF NextList
<1> HIDE DEF k
<1> QED BY <1>1, <1>5, <1>6

\* RunItem: the scheduler's thread is alone inside.
LEMMA RunItemSafe ==
  ASSUME IInv, NEW t \in Threads, NEW w \in Works, NEW s, Barrier(s),
         s.count = -1, s.owner = t, ~s.link, {p \in inside : ~p.run} = {},
         RunItem(t, w)
  PROVE  /\ Safe(s, inside') /\ inside' \subseteq Procedure /\ Kinds'
         /\ \E p \in inside' : p.run
         /\ enab' \subseteq Queues /\ before' \in [Messages -> SUBSET Messages]
<1> DEFINE p == [t |-> t, w |-> w, excl |-> TRUE, run |-> TRUE, depth |-> 1]
<1>1. inside' = {p} BY DEF RunItem
<1>2. p \in Procedure /\ p.excl = TRUE /\ p.run = TRUE /\ p.t = t /\ p.w = w
  BY DEF Procedure
<1>3. IsFiniteSet({p}) BY FS_Singleton
<1>4. Safe(s, inside')
  <2>1. inside' = {p} /\ p.excl /\ s.owner = p.t /\ ~s.link BY <1>1, <1>2
  <2>2. s.owner # NULL BY ThreadAssumption
  <2> HIDE DEF p
  <2> QED BY <1>1, <1>3, <2>1, <2>2 DEF Safe
<1>5. Kinds' BY <1>1, <1>2, WorkAssumption DEF Kinds
<1>6. enab' \subseteq Queues BY DEF RunItem, Served, IInv, TypeOK
<1>7. before' \in [Messages -> SUBSET Messages]
  BY DEF RunItem, IInv, TypeOK
<1> QED BY <1>1, <1>2, <1>4, <1>5, <1>6, <1>7

\* RunNext: runsyncq holds the barrier s.
LEMMA RunNextStep ==
  ASSUME IInv, NEW t \in Threads, NEW s, Barrier(s),
         s.count = -1, s.owner = t, ~s.link, {p \in inside : ~p.run} = {},
         \A u \in Tasks : opener[u] # "in",
         RunNext(t, s), UNCHANGED <<shared, runq>>
  PROVE  IInv'
<1>0. TypeOK BY DEF IInv
<1>1. CASE batch # <<>> /\ RunItem(t, Head(batch)) /\ batch' = Tail(batch) /\ sq' = s
           /\ UNCHANGED <<phase, opener>>
  <2>1. Head(batch) \in Works /\ Tail(batch) \in Seq(Works)
    BY <1>0, <1>1, HeadTailProperties DEF TypeOK
  <2>2. /\ Safe(s, inside') /\ inside' \subseteq Procedure /\ Kinds'
        /\ \E p \in inside' : p.run
        /\ enab' \subseteq Queues /\ before' \in [Messages -> SUBSET Messages]
    BY <1>1, <2>1, RunItemSafe
  <2>3. TypeOK' BY <1>0, <1>1, <2>1, <2>2 DEF TypeOK
  <2>4. OpenersInside' BY <1>1 DEF OpenersInside
  <2>5. HandedOver' BY <1>1, ThreadAssumption DEF HandedOver
  <2> QED BY <1>1, <2>2, <2>3, <2>4, <2>5 DEF IInv, BatchRuns
<1>2. CASE /\ batch = <<>> /\ Backlog(s)
           /\ LET l == NextList(s, phase) IN
              /\ RunItem(t, Head(s.list[l]))
              /\ batch' = Tail(s.list[l]) /\ phase' = l
              /\ sq' = [s EXCEPT !.list[l] = <<>>]
           /\ UNCHANGED opener
  <2> DEFINE l == NextList(s, phase)
  <2>0. l \in Lists /\ s.list[l] # <<>>
    BY <1>0, <1>2, NextListHasWork DEF TypeOK
  <2> HIDE DEF l
  <2>1. RunItem(t, Head(s.list[l])) /\ batch' = Tail(s.list[l]) /\ phase' = l
        /\ sq' = [s EXCEPT !.list[l] = <<>>]
    BY <1>2 DEF l
  <2>2. s.list[l] \in Seq(Works) BY <2>0 DEF Barrier
  <2>3. Head(s.list[l]) \in Works /\ Tail(s.list[l]) \in Seq(Works)
    BY <2>0, <2>2, HeadTailProperties
  <2>4. <<>> \in Seq(Works) BY EmptySeq
  <2>5. Barrier(sq') /\ sq'.count = -1 /\ sq'.owner = t /\ sq'.link = s.link
    BY <2>0, <2>1, <2>4 DEF Barrier
  <2>6. /\ Safe(s, inside') /\ inside' \subseteq Procedure /\ Kinds'
        /\ \E p \in inside' : p.run
        /\ enab' \subseteq Queues /\ before' \in [Messages -> SUBSET Messages]
    BY <2>1, <2>3, RunItemSafe
  <2>7. Safe(sq', inside') BY <2>5, <2>6 DEF Safe, Idle
  <2>8. TypeOK' BY <1>0, <1>2, <2>0, <2>1, <2>3, <2>5, <2>6 DEF TypeOK
  <2>9. OpenersInside' BY <1>2 DEF OpenersInside
  <2>10. HandedOver' BY <2>5, ThreadAssumption DEF HandedOver
  <2> QED BY <2>6, <2>7, <2>8, <2>9, <2>10 DEF IInv, BatchRuns
<1>3. CASE /\ batch = <<>> /\ ~Backlog(s)
           /\ inside' = {p \in inside : ~p.run}
           /\ sq' = [s EXCEPT !.owner = NULL, !.count = IF s.waitq # {} THEN -1 ELSE 0]
           /\ opener' = [u \in Tasks |-> IF u \in s.waitq THEN "check" ELSE opener[u]]
           /\ phase' = "m" /\ UNCHANGED <<batch, enab, before>>
  <2>1. inside' = {} /\ IsFiniteSet({}) /\ Cardinality({}) = 0
    BY <1>3, FS_EmptySet
  <2>2. Barrier(sq') /\ sq'.owner = NULL /\ sq'.count = (IF s.waitq # {} THEN -1 ELSE 0)
        /\ sq'.link = s.link /\ sq'.list = s.list /\ sq'.waitq = s.waitq
    BY <1>3 DEF Barrier
  <2>3. ~Backlog(sq') BY <1>3, <2>2 DEF Backlog
  <2>4. Safe(sq', inside') BY <2>1, <2>2, <2>3 DEF Safe, Idle
  <2>5. TypeOK' BY <1>0, <1>3, <2>1, <2>2 DEF TypeOK, Lists
  <2>6. BatchRuns' /\ Kinds' BY <1>3, <2>1 DEF BatchRuns, Kinds
  <2>7. OpenersInside' BY <1>3 DEF OpenersInside
  <2>8. HandedOver'
    <3>1. s.waitq \subseteq Tasks BY DEF Barrier
    <3> QED BY <1>3, <2>2, <3>1 DEF HandedOver
  <2> QED BY <2>4, <2>5, <2>6, <2>7, <2>8 DEF IInv
<1> QED BY <1>1, <1>2, <1>3 DEF RunNext

\* RunSyncq keeps the invariant.
LEMMA RunSyncqStep == ASSUME IInv, NEW t \in Threads, RunSyncq(t) PROVE IInv'
<1> DEFINE s == [EnterExclus(sq, t) EXCEPT !.link = FALSE]
<1>1. Barrier(s) /\ s.count = -1 /\ s.owner = t /\ s.link = FALSE
  BY DEF EnterExclus, IInv, TypeOK, Barrier
<1>2. inside = {}
  BY DEF RunSyncq, IInv, Safe, TypeOK, Barrier
<1>3. \A u \in Tasks : opener[u] # "in"
  BY <1>2 DEF IInv, OpenersInside
<1> HIDE DEF s
<1>4. RunNext(t, s) /\ UNCHANGED <<shared, runq>>
  BY DEF RunSyncq, s
<1>5. {p \in inside : ~p.run} = {} BY <1>2
<1> QED BY <1>1, <1>3, <1>4, <1>5, RunNextStep

\* ItemReturn keeps the invariant.
LEMMA ItemReturnStep == ASSUME IInv, NEW t \in Threads, ItemReturn(t) PROVE IInv'
<1>1. PICK p \in inside : p.t = t /\ p.run /\ p.excl /\ p.w # OPEN
  BY DEF ItemReturn, IInv, Kinds
<1>2. Barrier(sq) /\ inside = {p} /\ sq.owner = t /\ sq.count = -1 /\ ~sq.link
  BY <1>1 DEF IInv, Safe, TypeOK, Barrier
<1>3. \A u \in Tasks : opener[u] # "in"
  BY <1>1, <1>2 DEF IInv, OpenersInside
<1>4. {r \in inside : ~r.run} = {} BY <1>1, <1>2
<1> QED BY <1>2, <1>3, <1>4, RunNextStep DEF ItemReturn

\* Qenable keeps the invariant.
LEMMA QenableStep == ASSUME IInv, NEW q \in Queues, Qenable(q) PROVE IInv'
<1>1. TypeOK' BY DEF Qenable, IInv, TypeOK
<1>2. Safe(sq, inside)' BY DEF Qenable, IInv, Safe, Backlog, Idle
<1> QED
  BY <1>1, <1>2 DEF Qenable, IInv, BatchRuns, HandedOver, OpenersInside, Kinds

\* Put, Writer, Event and Service keep the invariant.
LEMMA RequestStep ==
  ASSUME IInv, NEW t \in Threads,
         \/ \E w \in Puts : Put(t, w)
         \/ \E w \in Writers : Writer(t, w)
         \/ \E w \in Events : Event(t, w)
         \/ \E q \in Queues : Service(t, q)
  PROVE  IInv'
<1>0. TypeOK BY DEF IInv
<1>1. ASSUME NEW w \in Puts, Put(t, w) PROVE IInv'
  <2>1. w \in Works /\ w \notin Queues BY WorkAssumption DEF Works, Messages
  <2>2. (~shared) \in BOOLEAN /\ enab' \subseteq Queues /\ runq' \subseteq Queues
    BY <1>0, <1>1 DEF Put, TypeOK
  <2> QED BY <1>1, <2>1, <2>2, EnterOrDeferStep DEF Put, Free
<1>2. ASSUME NEW w \in Writers, Writer(t, w) PROVE IInv'
  <2>1. w \in Works /\ w \notin Queues BY WorkAssumption DEF Works, Messages
  <2>2. enab' \subseteq Queues /\ runq' \subseteq Queues
    BY <1>0, <1>2 DEF Writer, TypeOK
  <2> QED BY <1>2, <2>1, <2>2, EnterOrDeferStep DEF Writer, Free
<1>3. ASSUME NEW w \in Events, Event(t, w) PROVE IInv'
  <2>1. w \in Works /\ w \notin Queues BY WorkAssumption DEF Works
  <2>2. enab' \subseteq Queues /\ runq' \subseteq Queues
    BY <1>0, <1>3 DEF Event, TypeOK
  <2> QED BY <1>3, <2>1, <2>2, EnterOrDeferStep DEF Event, Free
<1>4. ASSUME NEW q \in Queues, Service(t, q) PROVE IInv'
  <2>1. q \in Works BY DEF Works
  <2>2. enab' \subseteq Queues /\ runq' \subseteq Queues
    BY <1>0, <1>4 DEF Service, Served, TypeOK
  <2> QED BY <1>4, <2>1, <2>2, EnterOrDeferStep DEF Service
<1> QED BY <1>1, <1>2, <1>3, <1>4

\* A step that changes nothing keeps the invariant.
LEMMA Stutter == ASSUME IInv, UNCHANGED vars PROVE IInv'
<1>1. TypeOK' BY DEF vars, IInv, TypeOK
<1>2. Safe(sq, inside)' BY DEF vars, IInv, Safe, Backlog, Idle
<1> QED
  BY <1>1, <1>2 DEF vars, IInv, BatchRuns, HandedOver, OpenersInside, Kinds

-----------------------------------------------------------------------------
\* The theorems.

\* The invariant of the barrier holds at any time: sq_count counts the
\* procedures inside, or is -1 for exactly one with exclusive access, for the
\* scheduler or for the waiters.
THEOREM Invariance == Spec => []IInv
<1>1. Init => IInv
  <2> SUFFICES ASSUME Init PROVE IInv OBVIOUS
  <2>0. sq = [count |-> 0, owner |-> NULL, list |-> [l \in Lists |-> <<>>],
              waitq |-> {}, link |-> FALSE]
    BY DEF Init
  <2>1. <<>> \in Seq(Works) BY EmptySeq
  <2>2. Barrier(sq) /\ sq.count = 0 /\ sq.link = FALSE /\ sq.list = [l \in Lists |-> <<>>]
    BY <2>0, <2>1 DEF Barrier
  <2>3. ~Backlog(sq) BY <2>2 DEF Backlog
  <2>4. inside = {} /\ IsFiniteSet({}) /\ Cardinality({}) = 0 BY FS_EmptySet DEF Init
  <2>5. Safe(sq, inside) BY <2>2, <2>3, <2>4 DEF Safe
  <2>6. TypeOK BY <2>1, <2>2, ShareAssumption DEF Init, TypeOK, Lists
  <2>7. BatchRuns /\ OpenersInside /\ Kinds BY DEF Init, BatchRuns, OpenersInside, Kinds
  <2>8. HandedOver BY <2>2 DEF HandedOver
  <2> QED BY <2>5, <2>6, <2>7, <2>8 DEF IInv
<1>2. IInv /\ [Next]_vars => IInv'
  <2> SUFFICES ASSUME IInv, [Next]_vars PROVE IInv' OBVIOUS
  <2>1. CASE UNCHANGED vars BY <2>1, Stutter
  <2>2. ASSUME NEW t \in Threads, RunSyncq(t) PROVE IInv' BY <2>2, RunSyncqStep
  <2>3. ASSUME NEW t \in Threads, ItemReturn(t) PROVE IInv' BY <2>3, ItemReturnStep
  <2>4. ASSUME NEW q \in Queues, Qenable(q) PROVE IInv' BY <2>4, QenableStep
  <2>5. ASSUME NEW p \in inside, Return(p) PROVE IInv' BY <2>5, ReturnStep
  <2>6. ASSUME NEW t \in Tasks, Open(t) PROVE IInv' BY <2>6, OpenStep
  <2>7. ASSUME NEW t \in Tasks, Enqueue(t) PROVE IInv' BY <2>7, EnqueueStep
  <2>8. ASSUME NEW t \in Tasks, Check(t) PROVE IInv' BY <2>8, CheckStep
  <2>9. ASSUME NEW t \in Tasks, Opened(t) \/ Qwait(t) PROVE IInv'
    BY <2>9, LeaveOpenStep DEF Opened, Qwait
  <2>10. ASSUME NEW t \in Threads,
                \/ \E w \in Puts : Put(t, w)
                \/ \E w \in Writers : Writer(t, w)
                \/ \E w \in Events : Event(t, w)
                \/ \E q \in Queues : Service(t, q)
         PROVE  IInv'
    BY <2>10, RequestStep
  <2> QED BY <2>1, <2>2, <2>3, <2>4, <2>5, <2>6, <2>7, <2>8, <2>9, <2>10 DEF Next
<1> QED BY <1>1, <1>2, PTL DEF Spec

\* The state is well typed: sq_count, the lists and the wait queue.
THEOREM TypeCorrect == Spec => []TypeOK
<1>1. IInv => TypeOK BY DEF IInv
<1> QED BY <1>1, Invariance, PTL

\* Exclusive access is exclusive, for any number of threads and any work.
THEOREM AccessIsExclusive == Spec => []Exclusion
<1>1. IInv => Exclusion
  <2> SUFFICES ASSUME IInv PROVE Exclusion OBVIOUS
  <2>0. Barrier(sq) /\ Safe(sq, inside) BY DEF IInv, TypeOK
  <2>1. ASSUME NEW p \in inside, NEW r \in inside, p # r PROVE ~p.excl /\ ~r.excl
    BY <2>0, <2>1 DEF Safe, Barrier
  <2>2. ASSUME sq.link \/ (sq.count = -1 /\ sq.owner = NULL) PROVE inside = {}
    <3>1. \A p \in inside : p.t \in Threads BY DEF IInv, TypeOK, Procedure
    <3> QED BY <2>0, <2>2, <3>1, ThreadAssumption DEF Safe, Barrier
  <2> QED BY <2>1, <2>2 DEF Exclusion
<1> QED BY <1>1, Invariance, PTL

\* Deferred work always has somebody who will find it.
THEOREM BacklogIsServed == Spec => []BacklogServed
<1>1. IInv => BacklogServed
  <2> SUFFICES ASSUME IInv PROVE BacklogServed OBVIOUS
  <2>0. Barrier(sq) /\ Safe(sq, inside) BY DEF IInv, TypeOK
  <2>1. CASE batch # <<>> BY <2>1 DEF IInv, BatchRuns, BacklogServed
  <2>2. CASE Backlog(sq) /\ inside = {} /\ ~sq.link
    <3>1. sq.count = -1 /\ sq.owner = NULL
      <4>1. Cardinality({}) = 0 BY FS_EmptySet
      <4> QED BY <2>0, <2>2, <4>1 DEF Safe, Barrier, Idle
    <3> QED BY <3>1 DEF IInv, HandedOver, BacklogServed, MayPickUp
  <2> QED BY <2>1, <2>2 DEF BacklogServed
<1> QED BY <1>1, Invariance, PTL

-----------------------------------------------------------------------------
(***************************************************************************)
(* What is on the lists.  b is the batch, L the barrier's lists, E and R   *)
(* the queues with QENAB and on the scheduler's list, B the history.       *)
(***************************************************************************)
\* A list holds the work of its kind.
Sorted(L) == \A l \in Lists : \A i \in DOMAIN L[l] : ListOf(L[l][i]) = l

Single(b, L) ==
  /\ Distinct(b)
  /\ \A l \in Lists : Distinct(L[l])
  /\ \A l \in Lists : \A i \in DOMAIN b, j \in DOMAIN L[l] : b[i] # L[l][j]

\* Deferred, of a batch and lists.
Waits(w, b, L) == In(w, L[ListOf(w)]) \/ In(w, b)

\* QENAB is set on every queue that is listed anywhere.
Flagged(b, L, E, R) ==
  \A q \in Queues : /\ q \in R => q \in E /\ ~Waits(q, b, L)
                    /\ Waits(q, b, L) => q \in E

\* The messages before which a message was put are still ahead of it.
Ordered(b, L, B) ==
  /\ \A i \in DOMAIN b : b[i] \in Messages => \A v \in B[b[i]] : \E j \in 1 .. i - 1 : b[j] = v
  /\ \A i \in DOMAIN L["m"] :
       \A v \in B[L["m"][i]] : In(v, b) \/ \E j \in 1 .. i - 1 : L["m"][j] = v

LInv == /\ Sorted(sq.list) /\ Single(batch, sq.list)
        /\ Flagged(batch, sq.list, enab, runq) /\ Ordered(batch, sq.list, before)

\* The list of a work, and whose work a list holds.
LEMMA Kind ==
  ASSUME NEW w \in Works
  PROVE  ListOf(w) \in Lists /\ (ListOf(w) = "m" <=> w \in Messages)
  BY WorkAssumption DEF ListOf, Lists, Works

\* What Append does to a sequence.
LEMMA Appended ==
  ASSUME NEW S, NEW q \in Seq(S), NEW w \in S
  PROVE  /\ DOMAIN q = 1 .. Len(q) /\ Len(q) \in Nat
         /\ DOMAIN Append(q, w) = 1 .. Len(q) + 1
         /\ Append(q, w)[Len(q) + 1] = w
         /\ \A i \in 1 .. Len(q) : Append(q, w)[i] = q[i]
  OBVIOUS

\* What Tail does to a sequence.
LEMMA Shortened ==
  ASSUME NEW S, NEW q \in Seq(S), q # <<>>
  PROVE  /\ DOMAIN q = 1 .. Len(q) /\ Len(q) \in Nat /\ Len(q) >= 1
         /\ Head(q) = q[1] /\ Head(q) \in S
         /\ Tail(q) \in Seq(S) /\ DOMAIN Tail(q) = 1 .. Len(q) - 1
         /\ \A i \in 1 .. Len(q) - 1 : Tail(q)[i] = q[i + 1]
  OBVIOUS

\* defer_syncq: work that does not wait yet goes to the end of its list.
LEMMA Deferring ==
  ASSUME NEW b \in Seq(Works), NEW L \in [Lists -> Seq(Works)], NEW w \in Works,
         Sorted(L), Single(b, L), ~Waits(w, b, L), NEW M,
         M = [L EXCEPT ![ListOf(w)] = Append(@, w)]
  PROVE  Sorted(M) /\ Single(b, M)
<1> DEFINE k == ListOf(w)
           n == Len(L[k])
<1>1. k \in Lists BY Kind
<1>2. L[k] \in Seq(Works) BY <1>1
<1>3. /\ DOMAIN L[k] = 1 .. n /\ n \in Nat
      /\ M[k] = Append(L[k], w) /\ DOMAIN M[k] = 1 .. n + 1 /\ M[k][n + 1] = w
      /\ \A i \in 1 .. n : M[k][i] = L[k][i]
  BY <1>1, <1>2, Appended
<1>4. \A l \in Lists : l # k => M[l] = L[l]
  BY <1>1
<1>5. \A i \in 1 .. n : L[k][i] # w
  BY <1>3 DEF Waits, In
<1>6. \A i \in DOMAIN b : b[i] # w
  BY DEF Waits, In
<1>7. DOMAIN M[k] = (1 .. n) \cup {n + 1}
  BY <1>3
<1> HIDE DEF k, n
<1>8. Sorted(M)
  <2>1. ASSUME NEW i \in DOMAIN M[k] PROVE ListOf(M[k][i]) = k
    BY <1>1, <1>3, <1>7 DEF Sorted, k
  <2> QED BY <1>4, <2>1 DEF Sorted
<1>9. Distinct(M[k])
  <2>1. ASSUME NEW i \in DOMAIN M[k], NEW j \in DOMAIN M[k], M[k][i] = M[k][j] PROVE i = j
    BY <1>1, <1>3, <1>5, <1>7, <2>1 DEF Single, Distinct
  <2> QED BY <2>1 DEF Distinct
<1>10. ASSUME NEW i \in DOMAIN b, NEW j \in DOMAIN M[k] PROVE b[i] # M[k][j]
  BY <1>1, <1>3, <1>6, <1>7 DEF Single
<1>11. Single(b, M)
  BY <1>4, <1>9, <1>10 DEF Single
<1> QED BY <1>8, <1>11

\* A queue comes to the barrier's list from the scheduler's, with QENAB set.
LEMMA FlaggedDeferring ==
  ASSUME NEW b, NEW L \in [Lists -> Seq(Works)], NEW w \in Works, NEW M,
         M = [L EXCEPT ![ListOf(w)] = Append(@, w)], NEW E, NEW R, Flagged(b, L, E, R),
         w \in Queues => w \in R
  PROVE  Flagged(b, M, E, R \ {w})
<1> SUFFICES ASSUME NEW q \in Queues
             PROVE  /\ q \in R \ {w} => q \in E /\ ~Waits(q, b, M)
                    /\ Waits(q, b, M) => q \in E
  BY DEF Flagged
<1> DEFINE k == ListOf(w)
           n == Len(L[k])
<1>1. q \in Works /\ k \in Lists /\ ListOf(q) \in Lists BY Kind DEF Works
<1>2. L[k] \in Seq(Works) BY <1>1
<1>3. /\ DOMAIN L[k] = 1 .. n /\ n \in Nat
      /\ DOMAIN M[k] = 1 .. n + 1 /\ M[k][n + 1] = w
      /\ \A i \in 1 .. n : M[k][i] = L[k][i]
  BY <1>1, <1>2, Appended
<1>4. \A l \in Lists : l # k => M[l] = L[l] BY <1>1
<1> HIDE DEF n
<1>5. In(q, M[k]) <=> In(q, L[k]) \/ q = w
  <2>1. DOMAIN M[k] = (1 .. n) \cup {n + 1} BY <1>3
  <2> QED BY <1>3, <2>1 DEF In
<1>6. CASE ListOf(q) = k
  <2>1. Waits(q, b, M) <=> Waits(q, b, L) \/ q = w BY <1>5, <1>6 DEF Waits
  <2> QED BY <2>1 DEF Flagged
<1>7. CASE ListOf(q) # k
  <2>1. M[ListOf(q)] = L[ListOf(q)] /\ q # w BY <1>1, <1>4, <1>7
  <2>2. Waits(q, b, M) <=> Waits(q, b, L) BY <2>1 DEF Waits
  <2> QED BY <2>1, <2>2 DEF Flagged
<1> QED BY <1>6, <1>7

\* runsyncq: the first of the batch.
LEMMA BatchTaken ==
  ASSUME NEW b \in Seq(Works), NEW L \in [Lists -> Seq(Works)], b # <<>>,
         Sorted(L), Single(b, L)
  PROVE  /\ Single(Tail(b), L)
         /\ \A v \in Works : Waits(v, Tail(b), L) <=> Waits(v, b, L) /\ v # Head(b)
<1> DEFINE n == Len(b)
           c == Tail(b)
<1>1. /\ DOMAIN b = 1 .. n /\ n \in Nat /\ n >= 1
      /\ Head(b) = b[1] /\ Head(b) \in Works
      /\ DOMAIN c = 1 .. n - 1 /\ \A i \in 1 .. n - 1 : c[i] = b[i + 1]
  BY Shortened
<1> HIDE DEF n, c
<1>2. \A i \in DOMAIN c : i \in 1 .. n /\ i + 1 \in 1 .. n /\ i + 1 # 1 /\ c[i] = b[i + 1]
  BY <1>1
<1>3. \A i \in DOMAIN b : i # 1 => \E j \in DOMAIN c : c[j] = b[i]
  <2> SUFFICES ASSUME NEW i \in DOMAIN b, i # 1 PROVE \E j \in DOMAIN c : c[j] = b[i]
    OBVIOUS
  <2>1. i - 1 \in DOMAIN c /\ (i - 1) + 1 = i BY <1>1
  <2> QED BY <1>2, <2>1
<1>4. Distinct(c)
  <2>1. ASSUME NEW i \in DOMAIN c, NEW j \in DOMAIN c, c[i] = c[j] PROVE i = j
    <3>1. i + 1 = j + 1 BY <1>1, <1>2, <2>1 DEF Single, Distinct
    <3> QED BY <1>1, <3>1
  <2> QED BY <2>1 DEF Distinct
<1>5. Single(c, L)
  BY <1>1, <1>2, <1>4 DEF Single
<1>6. ASSUME NEW v \in Works PROVE Waits(v, c, L) <=> Waits(v, b, L) /\ v # Head(b)
  <2>1. ListOf(v) \in Lists BY Kind
  <2>2. In(v, L[ListOf(v)]) => v # Head(b)
    BY <1>1, <2>1 DEF In, Single
  <2>3. In(v, c) => In(v, b) BY <1>1, <1>2 DEF In
  <2>4. In(v, c) => v # Head(b) BY <1>1, <1>2 DEF In, Single, Distinct
  <2>5. In(v, b) /\ v # Head(b) => In(v, c) BY <1>1, <1>3 DEF In
  <2> QED BY <2>2, <2>3, <2>4, <2>5 DEF Waits
<1> QED BY <1>5, <1>6 DEF c

\* runsyncq: a list as a whole, and the first of it.
LEMMA ListTaken ==
  ASSUME NEW L \in [Lists -> Seq(Works)], NEW l \in Lists, L[l] # <<>>,
         Sorted(L), Single(<<>>, L), NEW M, M = [L EXCEPT ![l] = <<>>]
  PROVE  /\ Sorted(M) /\ Single(Tail(L[l]), M)
         /\ \A v \in Works : Waits(v, Tail(L[l]), M) <=> Waits(v, <<>>, L) /\ v # Head(L[l])
<1> DEFINE q == L[l]
           c == Tail(L[l])
           n == Len(q)
<1>0. q \in Seq(Works) /\ q # <<>> OBVIOUS
<1>1. /\ DOMAIN q = 1 .. n /\ n \in Nat /\ n >= 1
      /\ Head(q) = q[1] /\ Head(q) \in Works
      /\ DOMAIN c = 1 .. n - 1 /\ \A i \in 1 .. n - 1 : c[i] = q[i + 1]
  BY <1>0, Shortened
<1>a. M[l] = <<>> /\ DOMAIN M[l] = {} /\ (\A k \in Lists : k # l => M[k] = L[k])
  OBVIOUS
<1>b. \A i \in DOMAIN q : ListOf(q[i]) = l
  BY DEF Sorted
<1>c. Distinct(q) /\ \A k \in Lists : Distinct(L[k])
  BY DEF Single
<1> HIDE DEF q, n, c
<1>2. \A i \in DOMAIN c : i + 1 \in DOMAIN q /\ i + 1 # 1 /\ c[i] = q[i + 1]
  BY <1>1
<1>3. \A i \in DOMAIN q : i # 1 => \E j \in DOMAIN c : c[j] = q[i]
  <2> SUFFICES ASSUME NEW i \in DOMAIN q, i # 1 PROVE \E j \in DOMAIN c : c[j] = q[i]
    OBVIOUS
  <2>1. i - 1 \in DOMAIN c /\ (i - 1) + 1 = i BY <1>1
  <2> QED BY <1>2, <2>1
<1>4. Distinct(c)
  <2>1. ASSUME NEW i \in DOMAIN c, NEW j \in DOMAIN c, c[i] = c[j] PROVE i = j
    <3>1. i + 1 = j + 1 BY <1>2, <1>c, <2>1 DEF Distinct
    <3> QED BY <1>1, <3>1
  <2> QED BY <2>1 DEF Distinct
<1>5. Sorted(M) BY <1>a DEF Sorted
<1>6. Single(c, M)
  <2>1. \A k \in Lists : Distinct(M[k]) BY <1>a, <1>c DEF Distinct
  <2>2. ASSUME NEW k \in Lists, NEW i \in DOMAIN c, NEW j \in DOMAIN M[k] PROVE c[i] # M[k][j]
    <3>1. k # l BY <1>a
    <3>2. ListOf(M[k][j]) = k BY <1>5 DEF Sorted
    <3>3. ListOf(c[i]) = l BY <1>2, <1>b
    <3> QED BY <3>1, <3>2, <3>3
  <2> QED BY <1>4, <2>1, <2>2 DEF Single
<1>7. ASSUME NEW v \in Works PROVE Waits(v, c, M) <=> Waits(v, <<>>, L) /\ v # Head(q)
  <2>1. ListOf(v) \in Lists BY Kind
  <2>2. In(v, c) => In(v, q) /\ v # Head(q) /\ ListOf(v) = l
    BY <1>1, <1>2, <1>b, <1>c DEF In, Distinct
  <2>3. In(v, q) /\ v # Head(q) => In(v, c) BY <1>1, <1>3 DEF In
  <2>4. ~In(v, <<>>) BY DEF In
  <2>5. ListOf(Head(q)) = l BY <1>1, <1>b
  <2>6. CASE ListOf(v) = l
    <3>1. ~In(v, M[ListOf(v)]) BY <1>a, <2>6 DEF In
    <3> QED BY <2>2, <2>3, <2>4, <2>6, <3>1 DEF Waits, q
  <2>7. CASE ListOf(v) # l
    <3>1. M[ListOf(v)] = L[ListOf(v)] BY <1>a, <2>1, <2>7
    <3> QED BY <2>2, <2>4, <2>5, <2>7, <3>1 DEF Waits
  <2> QED BY <2>6, <2>7
<1> QED BY <1>5, <1>6, <1>7 DEF c, q

\* The messages that wait are ahead of one that is deferred.
LEMMA OrderedDeferring ==
  ASSUME NEW b \in Seq(Works), NEW L \in [Lists -> Seq(Works)], NEW w \in Works,
         Sorted(L), ~Waits(w, b, L), NEW M, M = [L EXCEPT ![ListOf(w)] = Append(@, w)],
         NEW B, Ordered(b, L, B), NEW C,
         C = [v \in Messages |-> IF v = w THEN {u \in Messages : Waits(u, b, L)} ELSE B[v]]
  PROVE  Ordered(b, M, C)
<1>0. "m" \in Lists BY DEF Lists
<1>1. ASSUME NEW i \in DOMAIN b, b[i] \in Messages, NEW v \in C[b[i]]
      PROVE  \E j \in 1 .. i - 1 : b[j] = v
  <2>1. b[i] # w BY DEF Waits, In
  <2> QED BY <1>1, <2>1 DEF Ordered
<1>2. \A i \in DOMAIN L["m"] : L["m"][i] \in Messages
  <2> SUFFICES ASSUME NEW i \in DOMAIN L["m"] PROVE L["m"][i] \in Messages OBVIOUS
  <2>1. L["m"] \in Seq(Works) BY <1>0
  <2>2. L["m"][i] \in Works BY <2>1
  <2>3. ListOf(L["m"][i]) = "m" BY <1>0 DEF Sorted
  <2> QED BY <2>2, <2>3, Kind
<1>3. ASSUME NEW i \in DOMAIN M["m"], NEW v \in C[M["m"][i]]
      PROVE  In(v, b) \/ \E j \in 1 .. i - 1 : M["m"][j] = v
  <2>1. CASE w \in Messages
    <3> DEFINE q == L["m"]
               n == Len(q)
    <3>1. ListOf(w) = "m" BY <2>1, Kind
    <3>2. q \in Seq(Works) BY <1>0
    <3>3. /\ DOMAIN q = 1 .. n /\ n \in Nat /\ DOMAIN M["m"] = 1 .. n + 1
          /\ M["m"][n + 1] = w /\ \A j \in 1 .. n : M["m"][j] = q[j]
      BY <1>0, <3>1, <3>2, Appended
    <3>4. CASE i = n + 1
      <4>1. v \in Messages /\ Waits(v, b, L) BY <2>1, <3>3, <3>4, <1>3
      <4>2. v \in Works /\ ListOf(v) = "m" BY <4>1, Kind DEF Works
      <4>3. In(v, b) \/ \E j \in 1 .. n : q[j] = v BY <3>3, <4>1, <4>2 DEF Waits, In
      <4>4. i - 1 = n BY <3>3, <3>4
      <4> QED BY <3>3, <4>3, <4>4
    <3>5. CASE i # n + 1
      <4>1. i \in 1 .. n /\ M["m"][i] = q[i] /\ q[i] \in Messages BY <1>2, <3>3, <3>5
      <4>2. q[i] # w BY <3>1, <3>3, <4>1 DEF Waits, In
      <4>3. v \in B[q[i]] BY <1>3, <4>1, <4>2
      <4>4. In(v, b) \/ \E j \in 1 .. i - 1 : q[j] = v BY <3>3, <4>1, <4>3 DEF Ordered
      <4>5. \A j \in 1 .. i - 1 : j \in 1 .. n BY <3>3, <4>1
      <4> QED BY <3>3, <4>4, <4>5
    <3> QED BY <3>4, <3>5
  <2>2. CASE w \notin Messages
    <3>1. M["m"] = L["m"] BY <1>0, <2>2, Kind
    <3>2. v \in B[L["m"][i]] BY <1>2, <1>3, <2>2, <3>1
    <3>3. i \in DOMAIN L["m"] BY <3>1
    <3>4. In(v, b) \/ \E j \in 1 .. i - 1 : L["m"][j] = v BY <3>2, <3>3 DEF Ordered
    <3> QED BY <3>1, <3>4
  <2> QED BY <2>1, <2>2
<1> QED BY <1>1, <1>3 DEF Ordered

\* What is run is not ahead of anything any more: from the batch ...
LEMMA OrderedBatch ==
  ASSUME NEW b \in Seq(Works), NEW L \in [Lists -> Seq(Works)], b # <<>>, Sorted(L),
         NEW B, Ordered(b, L, B), NEW C, C = [v \in Messages |-> B[v] \ {Head(b)}]
  PROVE  Ordered(Tail(b), L, C)
<1> DEFINE n == Len(b)
           c == Tail(b)
<1>1. /\ DOMAIN b = 1 .. n /\ n \in Nat /\ n >= 1 /\ Head(b) = b[1]
      /\ DOMAIN c = 1 .. n - 1 /\ \A i \in 1 .. n - 1 : c[i] = b[i + 1]
  BY Shortened
<1> HIDE DEF n, c
<1>2. ASSUME NEW m \in Nat, m <= n, NEW v, v # b[1], \E j \in 1 .. m : b[j] = v
      PROVE  \E j \in 1 .. m - 1 : j \in DOMAIN c /\ c[j] = v
  <2>1. PICK j \in 1 .. m : b[j] = v BY <1>2
  <2>2. j # 1 BY <1>2, <2>1
  <2>3. j - 1 \in 1 .. m - 1 /\ j - 1 \in DOMAIN c /\ (j - 1) + 1 = j
    BY <1>1, <1>2, <2>1, <2>2
  <2>4. c[j - 1] = v BY <1>1, <2>1, <2>3
  <2> QED BY <2>3, <2>4
<1>3. ASSUME NEW i \in DOMAIN c, c[i] \in Messages, NEW v \in C[c[i]]
      PROVE  \E j \in 1 .. i - 1 : c[j] = v
  <2>1. i + 1 \in DOMAIN b /\ c[i] = b[i + 1] /\ i \in Nat /\ i <= n /\ (i + 1) - 1 = i
    BY <1>1
  <2>2. v \in B[b[i + 1]] /\ v # b[1] BY <1>1, <1>3, <2>1
  <2>3. \E j \in 1 .. i : b[j] = v BY <1>3, <2>1, <2>2 DEF Ordered
  <2> QED BY <1>2, <2>1, <2>2, <2>3
<1>4. ASSUME NEW i \in DOMAIN L["m"], NEW v \in C[L["m"][i]]
      PROVE  In(v, c) \/ \E j \in 1 .. i - 1 : L["m"][j] = v
  <2>0. "m" \in Lists BY DEF Lists
  <2>1. L["m"] \in Seq(Works) BY <2>0
  <2>2. L["m"][i] \in Works BY <2>1
  <2>7. ListOf(L["m"][i]) = "m" BY <2>0 DEF Sorted
  <2>3. L["m"][i] \in Messages BY <2>2, <2>7, Kind
  <2>4. v \in B[L["m"][i]] /\ v # b[1] BY <1>1, <1>4, <2>3
  <2>5. In(v, b) \/ \E j \in 1 .. i - 1 : L["m"][j] = v BY <2>4 DEF Ordered
  <2>6. ASSUME In(v, b) PROVE In(v, c)
    <3>1. \E j \in 1 .. n : b[j] = v BY <1>1, <2>6 DEF In
    <3>2. n <= n BY <1>1
    <3> QED BY <1>1, <1>2, <2>4, <3>1, <3>2 DEF In
  <2> QED BY <2>5, <2>6
<1> QED BY <1>3, <1>4 DEF Ordered, c

\* ... and from a list.
LEMMA OrderedList ==
  ASSUME NEW L \in [Lists -> Seq(Works)], NEW l \in Lists, L[l] # <<>>, Sorted(L),
         NEW M, M = [L EXCEPT ![l] = <<>>],
         NEW B, Ordered(<<>>, L, B), NEW C, C = [v \in Messages |-> B[v] \ {Head(L[l])}]
  PROVE  Ordered(Tail(L[l]), M, C)
<1>0. "m" \in Lists /\ (\A v : ~In(v, <<>>)) BY DEF Lists, In
<1> DEFINE q == L[l]
           n == Len(q)
           c == Tail(L[l])
<1>1. /\ q \in Seq(Works) /\ DOMAIN q = 1 .. n /\ n \in Nat /\ n >= 1 /\ Head(q) = q[1]
      /\ DOMAIN c = 1 .. n - 1 /\ \A i \in 1 .. n - 1 : c[i] = q[i + 1]
  <2>1. q \in Seq(Works) OBVIOUS
  <2> QED BY <2>1, Shortened
<1>5. C = [v \in Messages |-> B[v] \ {q[1]}] BY <1>1
<1>6. Sorted(L) /\ q = L[l] OBVIOUS
<1> HIDE DEF q, n, c
<1>2. \A i \in DOMAIN q : q[i] \in Works /\ ListOf(q[i]) = l
  <2>1. \A i \in DOMAIN q : q[i] \in Works BY <1>1
  <2>2. \A i \in DOMAIN q : ListOf(q[i]) = l BY <1>6 DEF Sorted
  <2> QED BY <2>1, <2>2
<1>3. CASE l = "m"
  <2>1. ASSUME NEW i \in DOMAIN c, c[i] \in Messages, NEW v \in C[c[i]]
        PROVE  \E j \in 1 .. i - 1 : c[j] = v
    <3>1. i + 1 \in DOMAIN q /\ c[i] = q[i + 1] /\ i \in Nat /\ (i + 1) - 1 = i BY <1>1
    <3>2. v \in B[q[i + 1]] /\ v # q[1] BY <1>5, <2>1, <3>1
    <3>3. \E j \in 1 .. i : q[j] = v BY <1>0, <1>3, <1>6, <3>1, <3>2 DEF Ordered
    <3>4. PICK j \in 1 .. i : q[j] = v BY <3>3
    <3>5. j # 1 BY <3>2, <3>4
    <3>6. j - 1 \in 1 .. i - 1 /\ j - 1 \in 1 .. n - 1 /\ (j - 1) + 1 = j
      BY <1>1, <3>1, <3>4, <3>5
    <3>7. c[j - 1] = v BY <1>1, <3>4, <3>6
    <3> QED BY <3>6, <3>7
  <2>2. DOMAIN M["m"] = {} BY <1>0, <1>3
  <2> QED BY <2>1, <2>2 DEF Ordered, c
<1>4. CASE l # "m"
  <2>1. ASSUME NEW i \in DOMAIN c PROVE c[i] \notin Messages
    <3>1. i + 1 \in DOMAIN q /\ c[i] = q[i + 1] BY <1>1
    <3> QED BY <1>2, <1>4, <3>1, Kind
  <2>2. M["m"] = L["m"] BY <1>0, <1>4
  <2>3. ASSUME NEW i \in DOMAIN L["m"], NEW v \in C[L["m"][i]]
        PROVE  \E j \in 1 .. i - 1 : L["m"][j] = v
    <3>1. L["m"] \in Seq(Works) BY <1>0
    <3>2. L["m"][i] \in Works BY <3>1
    <3>5. ListOf(L["m"][i]) = "m" BY <1>0 DEF Sorted
    <3>3. L["m"][i] \in Messages BY <3>2, <3>5, Kind
    <3>4. v \in B[L["m"][i]] BY <1>5, <2>3, <3>3
    <3> QED BY <1>0, <3>4 DEF Ordered
  <2>4. ASSUME NEW i \in DOMAIN M["m"], NEW v \in C[M["m"][i]]
        PROVE  \E j \in 1 .. i - 1 : M["m"][j] = v
    <3>1. i \in DOMAIN L["m"] /\ v \in C[L["m"][i]] BY <2>2
    <3>2. \E j \in 1 .. i - 1 : L["m"][j] = v BY <2>3, <3>1
    <3> QED BY <2>2, <3>2
  <2> QED BY <2>1, <2>4 DEF Ordered, c
<1> QED BY <1>3, <1>4

\* A step that leaves the lists, QENAB and the history alone.
LEMMA ListsUntouched ==
  ASSUME LInv, sq'.list = sq.list, UNCHANGED <<batch, enab, runq, before>>
  PROVE  LInv'
  BY DEF LInv, Sorted, Single, Flagged, Waits, Ordered

\* Deferred is Waits of the barrier's lists.
LEMMA DeferredWaits ==
  \A w : Deferred(w) <=> Waits(w, batch, sq.list)
  BY DEF Deferred, Waits

\* Work that is not deferred enters or goes to the end of its list; a queue comes
\* from the scheduler's list, and keeps QENAB unless it enters.
LEMMA EnterOrDeferLists ==
  ASSUME IInv, LInv, NEW t \in Threads, NEW w \in Works, ~Deferred(w),
         NEW excl \in BOOLEAN, EnterOrDefer(t, w, excl), batch' = batch,
         w \notin Queues => UNCHANGED <<enab, runq>>,
         w \in Queues => /\ excl /\ w \in runq /\ runq' = runq \ {w}
                         /\ enab' = IF MayEnterExclus(sq) THEN Served(w) ELSE enab
  PROVE  LInv'
<1> DEFINE b == batch
           L == sq.list
<1>0. /\ b \in Seq(Works) /\ L \in [Lists -> Seq(Works)] /\ Barrier(sq)
      /\ enab \subseteq Queues /\ before \in [Messages -> SUBSET Messages]
  BY DEF IInv, TypeOK, Barrier
<1>1. ~Waits(w, b, L) BY DeferredWaits
<1>2. Sorted(L) /\ Single(b, L) /\ Flagged(b, L, enab, runq) /\ Ordered(b, L, before)
  BY DEF LInv
<1>3. CASE IF excl THEN MayEnterExclus(sq) ELSE MayEnterShared(sq)
  <2>1. sq'.list = sq.list /\ before' = before
    BY <1>0, <1>3 DEF EnterOrDefer, EnterExclus, EnterShared, Barrier
  <2>2. Flagged(b, L, enab', runq')
    <3>1. CASE w \notin Queues BY <1>2, <3>1
    <3>2. CASE w \in Queues
      <4>1. runq' = runq \ {w} /\ enab' = enab \ {w} BY <1>3, <3>2 DEF Served
      <4> QED BY <1>1, <1>2, <4>1 DEF Flagged
    <3> QED BY <3>1, <3>2
  <2> HIDE DEF b, L
  <2>3. Sorted(L) /\ Single(b, L) /\ Flagged(b, L, enab', runq') /\ Ordered(b, L, before')
    BY <1>2, <2>1, <2>2
  <2>4. L = sq'.list /\ b = batch' BY <2>1 DEF b, L
  <2> QED BY <2>3, <2>4 DEF LInv
<1>4. CASE ~IF excl THEN MayEnterExclus(sq) ELSE MayEnterShared(sq)
  <2> DEFINE M == [L EXCEPT ![ListOf(w)] = Append(@, w)]
             C == [v \in Messages |-> IF v = w THEN {u \in Messages : Waits(u, b, L)}
                                                ELSE before[v]]
  <2>1. sq'.list = M /\ before' = C
    <3>1. sq'.list = M
      BY <1>0, <1>4 DEF EnterOrDefer, defer_syncq, Barrier
    <3>2. before' = [v \in Messages |-> IF v = w THEN {u \in Messages : Deferred(u)}
                                                 ELSE before[v]]
      BY <1>4 DEF EnterOrDefer
    <3> QED BY <3>1, <3>2, DeferredWaits
  <2> HIDE DEF b, L
  <2>2. Sorted(M) /\ Single(b, M)
    BY <1>0, <1>1, <1>2, Deferring
  <2>3. Ordered(b, M, C)
    BY <1>0, <1>1, <1>2, OrderedDeferring
  <2>4. Flagged(b, M, enab', runq')
    <3>1. enab' = enab /\ runq' = runq \ {w} /\ (w \in Queues => w \in runq)
      BY <1>4 DEF IInv, TypeOK
    <3> QED BY <1>0, <1>2, <3>1, FlaggedDeferring
  <2> HIDE DEF M, C
  <2>5. M = sq'.list /\ C = before' /\ b = batch' BY <2>1 DEF b
  <2>6. Sorted(M) /\ Single(b, M) /\ Flagged(b, M, enab', runq') /\ Ordered(b, M, C)
    BY <2>2, <2>3, <2>4
  <2> QED BY <2>5, <2>6 DEF LInv
<1> QED BY <1>3, <1>4

\* runsyncq runs what it took off: QENAB goes with it.
LEMMA RunItemFlagged ==
  ASSUME NEW t, NEW w \in Works, RunItem(t, w), NEW b, NEW L, NEW c, NEW M,
         Flagged(b, L, enab, runq), Waits(w, b, L), runq' = runq,
         \A v \in Works : Waits(v, c, M) <=> Waits(v, b, L) /\ v # w
  PROVE  Flagged(c, M, enab', runq')
<1>0. \A q \in Queues : q \in Works BY DEF Works
<1>1. CASE w \in Queues
  <2>1. enab' = enab \ {w} /\ w \notin runq BY <1>1 DEF RunItem, Served, Flagged
  <2> QED BY <1>0, <2>1 DEF Flagged
<1>2. CASE w \notin Queues
  <2>1. enab' = enab BY <1>2 DEF RunItem
  <2> QED BY <1>0, <1>2, <2>1 DEF Flagged
<1> QED BY <1>1, <1>2

\* RunNext, from the batch, from the next list, or at the end.
LEMMA RunNextLists ==
  ASSUME IInv, LInv, NEW t \in Threads, NEW s, Barrier(s), s.list = sq.list,
         RunNext(t, s), UNCHANGED <<shared, runq>>
  PROVE  LInv'
<1> DEFINE b == batch
           L == sq.list
<1>0. /\ b \in Seq(Works) /\ L \in [Lists -> Seq(Works)] /\ phase \in Lists
      /\ before \in [Messages -> SUBSET Messages]
  BY DEF IInv, TypeOK, Barrier
<1>1. Sorted(L) /\ Single(b, L) /\ Flagged(b, L, enab, runq) /\ Ordered(b, L, before)
  BY DEF LInv
<1>2. CASE batch # <<>> /\ RunItem(t, Head(batch)) /\ batch' = Tail(batch) /\ sq' = s
  <2> DEFINE w == Head(b)
             c == Tail(b)
             C == [v \in Messages |-> before[v] \ {w}]
  <2>0. before' = C /\ batch' = c /\ sq'.list = L /\ RunItem(t, w) BY <1>2 DEF RunItem
  <2>1. b # <<>> BY <1>2
  <2>2. w \in Works /\ Waits(w, b, L)
    <3>1. DOMAIN b = 1 .. Len(b) /\ Len(b) \in Nat /\ Len(b) >= 1 /\ w = b[1] /\ w \in Works
      BY <1>0, <2>1, Shortened
    <3>2. 1 \in DOMAIN b BY <3>1
    <3> QED BY <3>1, <3>2 DEF Waits, In
  <2> HIDE DEF b, L
  <2>3. /\ Single(c, L)
        /\ \A v \in Works : Waits(v, c, L) <=> Waits(v, b, L) /\ v # w
    BY <1>0, <1>1, <2>1, BatchTaken
  <2>4. Ordered(c, L, C) BY <1>0, <1>1, <2>1, OrderedBatch
  <2> HIDE DEF w, c, C
  <2>5. Flagged(c, L, enab', runq')
    BY <1>1, <2>0, <2>2, <2>3, RunItemFlagged
  <2>6. Sorted(L) /\ Single(c, L) /\ Flagged(c, L, enab', runq') /\ Ordered(c, L, C)
    BY <1>1, <2>3, <2>4, <2>5
  <2> QED BY <2>0, <2>6 DEF LInv
<1>3. CASE /\ batch = <<>> /\ Backlog(s)
           /\ LET l == NextList(s, phase) IN
              /\ RunItem(t, Head(s.list[l]))
              /\ batch' = Tail(s.list[l]) /\ phase' = l
              /\ sq' = [s EXCEPT !.list[l] = <<>>]
  <2> DEFINE l == NextList(s, phase)
             w == Head(L[l])
             c == Tail(L[l])
             M == [L EXCEPT ![l] = <<>>]
             C == [v \in Messages |-> before[v] \ {w}]
  <2>0. before' = C /\ batch' = c /\ RunItem(t, w) BY <1>3 DEF RunItem
  <2>1. sq'.list = M BY <1>3 DEF Barrier
  <2>2. l \in Lists /\ L[l] # <<>> BY <1>0, <1>3, NextListHasWork
  <2>3. b = <<>> BY <1>3
  <2> HIDE DEF b, L, l
  <2>4. w \in Works /\ Waits(w, <<>>, L)
    <3>0. L[l] \in Seq(Works) BY <1>0, <2>2
    <3>1. /\ DOMAIN L[l] = 1 .. Len(L[l]) /\ Len(L[l]) \in Nat /\ Len(L[l]) >= 1
          /\ w = L[l][1] /\ w \in Works
      BY <2>2, <3>0, Shortened
    <3>2. 1 \in DOMAIN L[l] BY <3>1
    <3>3. ListOf(w) = l BY <1>1, <2>2, <3>1, <3>2 DEF Sorted
    <3> QED BY <3>1, <3>2, <3>3 DEF Waits, In
  <2>5. /\ Sorted(M) /\ Single(c, M)
        /\ \A v \in Works : Waits(v, c, M) <=> Waits(v, <<>>, L) /\ v # w
    BY <1>0, <1>1, <2>2, <2>3, ListTaken
  <2>6. Ordered(c, M, C) BY <1>0, <1>1, <2>2, <2>3, OrderedList
  <2> HIDE DEF w, c, C, M
  <2>7. Flagged(c, M, enab', runq')
    BY <1>1, <2>0, <2>3, <2>4, <2>5, RunItemFlagged
  <2>8. Sorted(M) /\ Single(c, M) /\ Flagged(c, M, enab', runq') /\ Ordered(c, M, C)
    BY <2>5, <2>6, <2>7
  <2> QED BY <2>0, <2>1, <2>8 DEF LInv
<1>4. CASE /\ batch = <<>> /\ ~Backlog(s)
           /\ sq' = [s EXCEPT !.owner = NULL, !.count = IF s.waitq # {} THEN -1 ELSE 0]
           /\ phase' = "m" /\ UNCHANGED <<batch, enab, before>>
  <2>1. sq'.list = sq.list BY <1>4 DEF Barrier
  <2> QED BY <1>4, <2>1, ListsUntouched
<1> QED BY <1>2, <1>3, <1>4 DEF RunNext

\* What a step may never do: let a message run before one that it waits for.
NoOvertaking ==
  ~shared =>
    \A w \in Messages : Running(w)' /\ ~Running(w) =>
      IF Deferred(w) THEN before[w] = {} ELSE \A v \in Messages : ~Deferred(v)

\* A step by which no message starts to run.
LEMMA NoneStarts ==
  ASSUME \A p \in inside' : p \in inside \/ p.w \notin Messages
  PROVE  NoOvertaking
  BY DEF NoOvertaking, Running

\* Whoever enters with exclusive access finds nothing deferred.
LEMMA EnterOrDeferOrder ==
  ASSUME IInv, NEW t \in Threads, NEW w \in Works, NEW excl \in BOOLEAN,
         EnterOrDefer(t, w, excl), ~shared => excl \/ w \notin Messages
  PROVE  NoOvertaking
<1> SUFFICES ASSUME ~shared, NEW v \in Messages, Running(v)', ~Running(v)
             PROVE  \A u \in Messages : ~Deferred(u)
  BY DEF NoOvertaking
<1>1. inside' # inside BY DEF Running
<1>2. /\ IF excl THEN MayEnterExclus(sq) ELSE MayEnterShared(sq)
      /\ inside' = inside \cup {[t |-> t, w |-> w, excl |-> excl, run |-> FALSE,
                                 depth |-> Depth(t)]}
  BY <1>1 DEF EnterOrDefer
<1>3. v = w BY <1>2 DEF Running
<1>4. sq.count = 0 BY <1>2, <1>3 DEF MayEnterExclus
<1>5. ~Backlog(sq) BY <1>4 DEF IInv, Safe
<1>6. batch = <<>>
  <2>1. inside = {} BY <1>4, EmptyBarrier DEF IInv, TypeOK
  <2> QED BY <2>1 DEF IInv, BatchRuns
<1>7. ASSUME NEW u \in Messages PROVE ~Deferred(u)
  <2>1. ListOf(u) \in Lists BY Kind DEF Works
  <2>2. sq.list[ListOf(u)] = <<>> BY <1>5, <2>1 DEF Backlog
  <2> QED BY <1>6, <2>2 DEF Deferred, In
<1> QED BY <1>7

\* runsyncq runs the first of the batch or of a list, and no message was put before it.
LEMMA RunNextOrder ==
  ASSUME IInv, LInv, NEW t \in Threads, NEW s, Barrier(s), s.list = sq.list, RunNext(t, s)
  PROVE  NoOvertaking
<1> SUFFICES ASSUME NEW v \in Messages, Running(v)', ~Running(v)
             PROVE  Deferred(v) /\ before[v] = {}
  BY DEF NoOvertaking
<1>0. /\ batch \in Seq(Works) /\ sq.list \in [Lists -> Seq(Works)] /\ phase \in Lists
  BY DEF IInv, TypeOK, Barrier
<1>1. Sorted(sq.list) /\ Ordered(batch, sq.list, before)
  BY DEF LInv
<1>2. ASSUME NEW w, RunItem(t, w) PROVE v = w
  BY <1>2 DEF RunItem, Running
<1>3. CASE batch # <<>> /\ RunItem(t, Head(batch))
  <2>1. v = Head(batch) BY <1>2, <1>3
  <2>2. DOMAIN batch = 1 .. Len(batch) /\ Len(batch) \in Nat /\ Len(batch) >= 1
        /\ v = batch[1]
    BY <1>0, <1>3, <2>1, Shortened
  <2>3. 1 \in DOMAIN batch BY <2>2
  <2>4. \A u \in before[v] : \E j \in 1 .. 1 - 1 : batch[j] = u
    BY <1>1, <2>2, <2>3 DEF Ordered
  <2>5. before[v] = {} BY <2>4
  <2> QED BY <2>2, <2>3, <2>5 DEF Deferred, In
<1>4. CASE batch = <<>> /\ Backlog(s) /\ RunItem(t, Head(s.list[NextList(s, phase)]))
  <2> DEFINE l == NextList(s, phase)
             q == sq.list[l]
  <2>1. l \in Lists /\ q # <<>> BY <1>0, <1>4, NextListHasWork
  <2>2. v = Head(q) BY <1>2, <1>4
  <2> HIDE DEF l
  <2>3. q \in Seq(Works) BY <1>0, <2>1
  <2>4. DOMAIN q = 1 .. Len(q) /\ Len(q) \in Nat /\ Len(q) >= 1 /\ v = q[1] /\ v \in Works
    BY <2>1, <2>2, <2>3, Shortened
  <2>5. 1 \in DOMAIN q BY <2>4
  <2>6. ListOf(v) = l BY <1>1, <2>1, <2>4, <2>5 DEF Sorted
  <2>7. l = "m" BY <2>4, <2>6, Kind
  <2>8. \A u : ~In(u, batch) BY <1>4 DEF In
  <2>9. \A u \in before[v] : \E j \in 1 .. 1 - 1 : q[j] = u
    BY <1>1, <2>4, <2>5, <2>7, <2>8 DEF Ordered
  <2>10. before[v] = {} BY <2>9
  <2> QED BY <2>4, <2>5, <2>6, <2>10 DEF Deferred, In
<1>5. CASE inside' = {p \in inside : ~p.run}
  BY <1>5 DEF Running
<1> QED BY <1>3, <1>4, <1>5 DEF RunNext

-----------------------------------------------------------------------------
\* Each action.

\* Put, Writer, Event and Service.
LEMMA RequestLists ==
  ASSUME IInv, LInv, NEW t \in Threads,
         \/ \E w \in Puts : Put(t, w)
         \/ \E w \in Writers : Writer(t, w)
         \/ \E w \in Events : Event(t, w)
         \/ \E q \in Queues : Service(t, q)
  PROVE  LInv' /\ NoOvertaking
<1>0. TypeOK BY DEF IInv
<1>1. ASSUME NEW w \in Puts, Put(t, w) PROVE LInv' /\ NoOvertaking
  <2>1. w \in Works /\ w \notin Queues BY WorkAssumption DEF Works, Messages
  <2>2. (~shared) \in BOOLEAN BY <1>0 DEF TypeOK
  <2>3. ~Deferred(w) /\ EnterOrDefer(t, w, ~shared) /\ UNCHANGED <<batch, enab, runq>>
    BY <1>1 DEF Put, Free
  <2> QED BY <2>1, <2>2, <2>3, EnterOrDeferLists, EnterOrDeferOrder
<1>2. ASSUME NEW w \in Writers, Writer(t, w) PROVE LInv' /\ NoOvertaking
  <2>1. w \in Works /\ w \notin Queues BY WorkAssumption DEF Works, Messages
  <2>2. ~Deferred(w) /\ EnterOrDefer(t, w, TRUE) /\ UNCHANGED <<batch, enab, runq>>
    BY <1>2 DEF Writer, Free
  <2> QED BY <2>1, <2>2, EnterOrDeferLists, EnterOrDeferOrder
<1>3. ASSUME NEW w \in Events, Event(t, w) PROVE LInv' /\ NoOvertaking
  <2>1. w \in Works /\ w \notin Queues BY WorkAssumption DEF Works
  <2>2. ~Deferred(w) /\ EnterOrDefer(t, w, TRUE) /\ UNCHANGED <<batch, enab, runq>>
    BY <1>3 DEF Event, Free
  <2> QED BY <2>1, <2>2, EnterOrDeferLists, EnterOrDeferOrder
<1>4. ASSUME NEW q \in Queues, Service(t, q) PROVE LInv' /\ NoOvertaking
  <2>1. q \in Works BY DEF Works
  <2>2. /\ q \in runq /\ EnterOrDefer(t, q, TRUE) /\ batch' = batch /\ runq' = runq \ {q}
        /\ enab' = IF MayEnterExclus(sq) THEN Served(q) ELSE enab
    BY <1>4 DEF Service
  <2>3. ~Deferred(q) BY <2>2, DeferredWaits DEF LInv, Flagged
  <2> QED BY <2>1, <2>2, <2>3, EnterOrDeferLists, EnterOrDeferOrder
<1> QED BY <1>1, <1>2, <1>3, <1>4

\* RunSyncq and ItemReturn.
LEMMA RunLists ==
  ASSUME IInv, LInv, NEW t \in Threads, RunSyncq(t) \/ ItemReturn(t)
  PROVE  LInv' /\ NoOvertaking
<1>0. Barrier(sq) BY DEF IInv, TypeOK
<1>1. CASE RunSyncq(t)
  <2> DEFINE s == [EnterExclus(sq, t) EXCEPT !.link = FALSE]
  <2>1. Barrier(s) /\ s.list = sq.list BY <1>0 DEF EnterExclus, Barrier
  <2>2. RunNext(t, s) /\ UNCHANGED <<shared, runq>> BY <1>1 DEF RunSyncq
  <2> HIDE DEF s
  <2> QED BY <2>1, <2>2, RunNextLists, RunNextOrder
<1>2. CASE ItemReturn(t)
  BY <1>0, <1>2, RunNextLists, RunNextOrder DEF ItemReturn
<1> QED BY <1>1, <1>2

\* qenable lists a queue only if QENAB was clear, and then nothing holds it.
LEMMA QenableLists ==
  ASSUME LInv, NEW q \in Queues, Qenable(q)
  PROVE  LInv' /\ NoOvertaking
<1>1. UNCHANGED <<sq, inside, batch, before>> BY DEF Qenable
<1>2. Flagged(batch, sq.list, enab', runq')
  BY DEF Qenable, LInv, Flagged
<1>3. Sorted(sq.list) /\ Single(batch, sq.list) /\ Ordered(batch, sq.list, before)
  BY DEF LInv
<1>4. LInv' BY <1>1, <1>2, <1>3 DEF LInv
<1> QED BY <1>1, <1>4, NoneStarts

\* leave_syncq leaves the lists alone.
LEMMA LeaveLists ==
  ASSUME NEW s, Barrier(s), NEW t
  PROVE  leave_syncq(s, t).list = s.list
  BY DEF leave_syncq, sqsched, Barrier

\* What leaves, and the open and close procedures.
LEMMA OtherLists ==
  ASSUME IInv, LInv,
         \/ \E p \in inside : Return(p)
         \/ \E t \in Tasks : Open(t) \/ Enqueue(t) \/ Check(t) \/ Opened(t) \/ Qwait(t)
         \/ UNCHANGED vars
  PROVE  LInv' /\ NoOvertaking
<1>0. Barrier(sq) BY DEF IInv, TypeOK
<1>1. UNCHANGED <<batch, enab, runq, before>>
  BY DEF Return, Open, Enqueue, Check, Opened, Qwait, LeaveOpen, vars
<1>2. sq'.list = sq.list
  <2>1. ASSUME NEW p \in inside, Return(p) PROVE sq'.list = sq.list
    BY <1>0, <2>1, LeaveLists DEF Return
  <2>2. ASSUME NEW t \in Tasks, Opened(t) \/ Qwait(t) PROVE sq'.list = sq.list
    BY <1>0, <2>2, LeaveLists DEF Opened, Qwait, LeaveOpen
  <2>3. ASSUME NEW t \in Tasks, Open(t) PROVE sq'.list = sq.list
    BY <1>0, <2>3 DEF Open, EnterExclus, Barrier
  <2>4. ASSUME NEW t \in Tasks, Enqueue(t) PROVE sq'.list = sq.list
    BY <1>0, <2>4 DEF Enqueue, Barrier
  <2>5. ASSUME NEW t \in Tasks, Check(t) PROVE sq'.list = sq.list
    BY <1>0, <2>5 DEF Check, EnterExclus, Barrier
  <2>6. ASSUME UNCHANGED vars PROVE sq'.list = sq.list BY <2>6 DEF vars
  <2> QED BY <2>1, <2>2, <2>3, <2>4, <2>5, <2>6
<1>3. \A p \in inside' : p \in inside \/ p.w = OPEN
  BY DEF Return, Open, Enqueue, Check, Opened, Qwait, LeaveOpen, vars
<1>4. OPEN \notin Messages BY WorkAssumption DEF Works
<1>5. LInv' BY <1>1, <1>2, ListsUntouched
<1>6. NoOvertaking BY <1>3, <1>4, NoneStarts
<1> QED BY <1>5, <1>6

\* Every step.
LEMMA ListsStep ==
  ASSUME IInv, LInv, [Next]_vars
  PROVE  LInv' /\ NoOvertaking
<1>1. ASSUME NEW t \in Threads,
             \/ \E w \in Puts : Put(t, w)
             \/ \E w \in Writers : Writer(t, w)
             \/ \E w \in Events : Event(t, w)
             \/ \E q \in Queues : Service(t, q)
      PROVE  LInv' /\ NoOvertaking
  BY <1>1, RequestLists
<1>2. ASSUME NEW t \in Threads, RunSyncq(t) \/ ItemReturn(t) PROVE LInv' /\ NoOvertaking
  BY <1>2, RunLists
<1>3. ASSUME NEW q \in Queues, Qenable(q) PROVE LInv' /\ NoOvertaking
  BY <1>3, QenableLists
<1>4. ASSUME \/ \E p \in inside : Return(p)
             \/ \E t \in Tasks : Open(t) \/ Enqueue(t) \/ Check(t) \/ Opened(t) \/ Qwait(t)
             \/ UNCHANGED vars
      PROVE  LInv' /\ NoOvertaking
  BY <1>4, OtherLists
<1> QED BY <1>1, <1>2, <1>3, <1>4 DEF Next

-----------------------------------------------------------------------------
\* The lists are sorted by kind, nothing is on two of them, QENAB covers every
\* queue that is listed, and what a message waits for is ahead of it.
THEOREM ListsInvariance == Spec => []LInv
<1>1. Init => LInv
  <2> SUFFICES ASSUME Init PROVE LInv OBVIOUS
  <2>1. /\ batch = <<>> /\ DOMAIN batch = {} /\ enab = {} /\ runq = {}
        /\ \A l \in Lists : sq.list[l] = <<>> /\ DOMAIN sq.list[l] = {}
    BY DEF Init
  <2>2. "m" \in Lists BY DEF Lists
  <2>3. \A q \in Queues : ListOf(q) \in Lists BY Kind DEF Works
  <2>4. Sorted(sq.list) BY <2>1 DEF Sorted
  <2>5. Single(batch, sq.list) BY <2>1 DEF Single, Distinct
  <2>6. Flagged(batch, sq.list, enab, runq) BY <2>1, <2>3 DEF Flagged, Waits, In
  <2>7. Ordered(batch, sq.list, before) BY <2>1, <2>2 DEF Ordered
  <2> QED BY <2>4, <2>5, <2>6, <2>7 DEF LInv
<1>2. IInv /\ LInv /\ [Next]_vars => LInv' BY ListsStep
<1> QED BY <1>1, <1>2, Invariance, PTL DEF Spec

\* q_link and b_next are used by one list at a time: no work is twice on the
\* barrier's lists and in runsyncq's batch, and a queue that waits there is not on
\* the scheduler's list.
THEOREM WorkIsListedOnce == Spec => []ListedOnce
<1>1. IInv /\ LInv => ListedOnce
  <2> SUFFICES ASSUME IInv, LInv PROVE ListedOnce OBVIOUS
  <2>1. ASSUME NEW l \in Lists PROVE Distinct(batch \o sq.list[l])
    <3> DEFINE b == batch
               q == sq.list[l]
               m == Len(b)
               n == Len(q)
    <3>1. b \in Seq(Works) /\ q \in Seq(Works) BY DEF IInv, TypeOK, Barrier
    <3>2. Distinct(b) /\ Distinct(q) /\ \A i \in DOMAIN b, j \in DOMAIN q : b[i] # q[j]
      BY DEF LInv, Single
    <3> HIDE DEF b, q
    <3>3. /\ m \in Nat /\ n \in Nat /\ DOMAIN b = 1 .. m /\ DOMAIN q = 1 .. n
          /\ DOMAIN (b \o q) = 1 .. m + n
          /\ \A i \in 1 .. m + n : (b \o q)[i] = IF i <= m THEN b[i] ELSE q[i - m]
      BY <3>1
    <3> DEFINE c == b \o q
    <3> HIDE DEF c, m, n
    <3>4. \A i \in DOMAIN c : (i \in DOMAIN b /\ c[i] = b[i]) \/ (i - m \in DOMAIN q /\ c[i] = q[i - m])
      BY <3>3 DEF c
    <3>5. ASSUME NEW i \in DOMAIN c, NEW j \in DOMAIN c, c[i] = c[j] PROVE i = j
      <4>1. i \in Int /\ j \in Int BY <3>3 DEF c
      <4>2. CASE i \in DOMAIN b /\ c[i] = b[i] BY <3>2, <3>4, <3>5, <4>2 DEF Distinct
      <4>3. CASE i - m \in DOMAIN q /\ c[i] = q[i - m]
        <5>1. j - m \in DOMAIN q /\ c[j] = q[j - m] BY <3>2, <3>4, <3>5, <4>3
        <5>2. i - m = j - m BY <3>2, <3>5, <4>3, <5>1 DEF Distinct
        <5> QED BY <3>3, <4>1, <5>2
      <4> QED BY <3>4, <4>2, <4>3
    <3> QED BY <3>5 DEF Distinct, c, b, q
  <2>2. ASSUME NEW q \in runq PROVE ~Deferred(q)
    BY DeferredWaits DEF IInv, TypeOK, LInv, Flagged
  <2> QED BY <2>1, <2>2 DEF ListedOnce
<1> QED BY <1>1, Invariance, ListsInvariance, PTL

\* Unless put procedures are shared no message overtakes another, for any number of
\* threads and messages: one that enters at once leaves none behind, and one that
\* runsyncq starts waits for none that was put before it.
THEOREM MessagesInOrder == Spec => InOrder
<1>1. IInv /\ LInv /\ [Next]_vars => NoOvertaking BY ListsStep
<1>2. IInv /\ LInv /\ [Next]_vars =>
        [~shared =>
           \A w \in Messages : Running(w)' /\ ~Running(w) =>
             IF Deferred(w) THEN before[w] = {} ELSE \A v \in Messages : ~Deferred(v)]_vars
  BY <1>1 DEF NoOvertaking
<1> QED BY <1>2, Invariance, ListsInvariance, PTL DEF Spec, InOrder

=============================================================================
