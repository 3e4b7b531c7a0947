------------------------------ MODULE StrSyncq ------------------------------
(***************************************************************************)
(* An inner perimeter of the STREAMS executive (strsched.c): the barrier   *)
(* struct syncq, and the threads that pass it.  Put procedures, writers,   *)
(* service procedures and event callbacks enter it or leave their work on  *)
(* it; the open and close procedures sleep until they can enter; and the   *)
(* scheduler runs the work that was left.                                  *)
(*                                                                         *)
(* The barrier is a record and each C function an operator of the same     *)
(* name on it.  What the code does while it holds sq_lock is one step.     *)
(***************************************************************************)
EXTENDS Integers, Sequences, FiniteSets

CONSTANTS
  Threads,   \* tasks and scheduler threads, what current may be
  Tasks,     \* the threads that open and close streams
  Puts,      \* messages for put procedures (qputp_sync, qstrfunc_sync)
  Writers,   \* messages for writers (qstrwrit_sync)
  Queues,    \* queues with a service procedure, all of this perimeter
  Events,    \* timeouts and buffer callbacks
  Shares,    \* the settings of SQ_SHARED to consider
  NULL       \* no thread

Messages == Puts \cup Writers
Works == Messages \cup Queues \cup Events

\* What an open or close procedure is in place of a work.
OPEN == "open"

ASSUME ThreadAssumption == Tasks \subseteq Threads /\ NULL \notin Threads
ASSUME WorkAssumption ==
  /\ Puts \cap Writers = {} /\ Messages \cap Queues = {} /\ Messages \cap Events = {}
  /\ Queues \cap Events = {}
  /\ OPEN \notin Works
ASSUME ShareAssumption == Shares \subseteq BOOLEAN

VARIABLES
  shared,   \* SQ_SHARED of sq_flag, which registration sets
  sq,       \* the barrier
  inside,   \* the procedures that run inside the barrier
  batch,    \* runsyncq: the work it took off a list and has not run
  phase,    \* runsyncq: the list it took it from
  opener,   \* where a task is in enter_syncq_exclus_blocking
  enab,     \* the queues with QENAB set
  runq,     \* the queues on a scheduler's list
  before    \* history: the messages that waited when a message was deferred, and still do

vars == <<shared, sq, inside, batch, phase, opener, enab, runq, before>>

Lists == {"m", "q", "e"}

Barrier(s) ==
  /\ DOMAIN s = {"count", "owner", "list", "waitq", "link"}
  /\ s.count \in Int /\ s.count >= -1
  /\ s.owner \in Threads \cup {NULL}
  /\ s.list \in [Lists -> Seq(Works)]
  /\ s.waitq \in SUBSET Tasks
  /\ s.link \in BOOLEAN

\* A procedure inside: its thread, the work, whether it has exclusive access,
\* whether runsyncq runs it, and how deep in its thread's calls it is.
Procedure ==
  [t : Threads, w : Works \cup {OPEN}, excl : BOOLEAN, run : BOOLEAN, depth : Nat]

TypeOK ==
  /\ shared \in BOOLEAN
  /\ Barrier(sq)
  /\ inside \subseteq Procedure
  /\ batch \in Seq(Works) /\ phase \in Lists
  /\ opener \in [Tasks -> {"none", "enqueue", "check", "asleep", "in", "qwait"}]
  /\ enab \subseteq Queues /\ runq \subseteq Queues
  /\ before \in [Messages -> SUBSET Messages]

ListOf(w) == IF w \in Events THEN "e" ELSE IF w \in Messages THEN "m" ELSE "q"

Distinct(s) == \A i, j \in DOMAIN s : s[i] = s[j] => i = j
In(w, s) == \E i \in DOMAIN s : s[i] = w
Deferred(w) == In(w, sq.list[ListOf(w)]) \/ In(w, batch)
Running(w) == \E p \in inside : p.w = w

Backlog(s) == \E l \in Lists : s.list[l] # <<>>

-----------------------------------------------------------------------------
(* The barrier *)

\* Mutant: work goes to the front of its list.
defer_syncq_First(s, w) == [s EXCEPT !.list[ListOf(w)] = <<w>> \o @]

defer_syncq(s, w) == [s EXCEPT !.list[ListOf(w)] = Append(@, w)]

sqsched(s) == [s EXCEPT !.link = TRUE]

\* Mutant: the last one out does not look at the backlog.
leave_syncq_Unscheduled(s, t) ==
  LET left == IF s.count >= 0 THEN [s EXCEPT !.count = @ - 1] ELSE s IN
  IF (s.count < 0 /\ s.owner = t) \/ (s.count >= 0 /\ left.count <= 0)
  THEN [left EXCEPT !.owner = NULL, !.count = 0]
  ELSE left

\* The last one out leaves a barrier with a backlog locked, for the scheduler.
leave_syncq(s, t) ==
  LET left == IF s.count >= 0 THEN [s EXCEPT !.count = @ - 1] ELSE s IN
  IF (s.count < 0 /\ s.owner = t) \/ (s.count >= 0 /\ left.count <= 0)
  THEN IF Backlog(s) THEN sqsched([left EXCEPT !.owner = t, !.count = -1])
                     ELSE [left EXCEPT !.owner = NULL, !.count = 0]
  ELSE left

\* Exclusive access is granted on an empty barrier only.
MayEnterExclus(s) == s.count = 0

\* Mutant: exclusive access is not looked at.
MayEnterShared_Always(s) == TRUE

\* Shared access is granted whenever nobody has exclusive access.
MayEnterShared(s) == s.count >= 0

\* A waiter may also pick up the barrier that runsyncq left locked for the waiters.
MayPickUp(s) == s.count = 0 \/ (s.count = -1 /\ s.owner = NULL)

\* Mutant: exclusive access is counted down, not set.
EnterExclus_Counted(s, t) == [s EXCEPT !.count = @ - 1, !.owner = t]

EnterExclus(s, t) == [s EXCEPT !.count = -1, !.owner = t]
EnterShared(s) == [s EXCEPT !.count = @ + 1]

Depth(t) == 1 + Cardinality({p \in inside : p.t = t})

-----------------------------------------------------------------------------
(* Entering *)

Init ==
  /\ shared \in Shares
  /\ sq = [count |-> 0, owner |-> NULL, list |-> [l \in Lists |-> <<>>],
           waitq |-> {}, link |-> FALSE]
  /\ inside = {} /\ batch = <<>> /\ phase = "m"
  /\ opener = [t \in Tasks |-> "none"]
  /\ enab = {} /\ runq = {} /\ before = [w \in Messages |-> {}]

\* A thread that sleeps, or is about to, calls nothing.
Awake(t) == t \in Tasks => opener[t] \in {"none", "in"}

Free(w) == ~Deferred(w) /\ ~Running(w)

\* enter_syncq_shared and enter_syncq_exclus: in, or on the list.
EnterOrDefer(t, w, excl) ==
  IF IF excl THEN MayEnterExclus(sq) ELSE MayEnterShared(sq)
  THEN /\ sq' = IF excl THEN EnterExclus(sq, t) ELSE EnterShared(sq)
       /\ inside' = inside \cup {[t |-> t, w |-> w, excl |-> excl, run |-> FALSE,
                                  depth |-> Depth(t)]}
       /\ before' = before
  ELSE /\ sq' = defer_syncq(sq, w)
       /\ inside' = inside
       /\ before' = [v \in Messages |-> IF v = w THEN {u \in Messages : Deferred(u)} ELSE before[v]]

\* qputp_sync and qstrfunc_sync: enter_inner_syncq_asputp.
Put(t, w) ==
  /\ Awake(t) /\ Free(w)
  /\ EnterOrDefer(t, w, ~shared)
  /\ UNCHANGED <<shared, batch, phase, opener, enab, runq>>

\* qstrwrit_sync with PERIM_INNER.
Writer(t, w) ==
  /\ Awake(t) /\ Free(w)
  /\ EnterOrDefer(t, w, TRUE)
  /\ UNCHANGED <<shared, batch, phase, opener, enab, runq>>

\* do_timeout_event and do_bufcall_event.
Event(t, w) ==
  /\ Awake(t) /\ Free(w)
  /\ EnterOrDefer(t, w, TRUE)
  /\ UNCHANGED <<shared, batch, phase, opener, enab, runq>>

\* qenable: QENAB is set and the queue is listed, unless QENAB was set.
Qenable(q) ==
  /\ q \notin enab
  /\ enab' = enab \cup {q} /\ runq' = runq \cup {q}
  /\ UNCHANGED <<shared, sq, inside, batch, phase, opener, before>>

\* srvp: the service procedure runs if QENAB is still set, and clears it first.
Served(q) == enab \ {q}

\* Mutant: QENAB is cleared though the service procedure is only deferred.
Service_Cleared(t, q) ==
  /\ Awake(t) /\ q \in runq
  /\ runq' = runq \ {q}
  /\ EnterOrDefer(t, q, TRUE)
  /\ enab' = Served(q)
  /\ UNCHANGED <<shared, batch, phase, opener>>

\* queuerun takes a queue off its list; qsrvp_sync enters, or leaves the queue,
\* with QENAB set, on the barrier's list.
Service(t, q) ==
  /\ Awake(t) /\ q \in runq
  /\ runq' = runq \ {q}
  /\ EnterOrDefer(t, q, TRUE)
  /\ enab' = IF MayEnterExclus(sq) THEN Served(q) ELSE enab
  /\ UNCHANGED <<shared, batch, phase, opener>>

\* The procedure returns and its thread leaves the barrier.
Return(p) ==
  /\ p \in inside /\ ~p.run /\ p.w # OPEN
  /\ \A r \in inside : r.t = p.t => r.depth <= p.depth
  /\ inside' = inside \ {p}
  /\ sq' = leave_syncq(sq, p.t)
  /\ UNCHANGED <<shared, batch, phase, opener, enab, runq, before>>

-----------------------------------------------------------------------------
(* The backlog: runsyncq *)

\* The lists in the order in which runsyncq looks at them from phase l on.
From(l) == CASE l = "m" -> <<"m", "q", "e">>
             [] l = "q" -> <<"q", "e", "m">>
             [] l = "e" -> <<"e", "m", "q">>

\* The first list with work on it.
NextList(s, l) ==
  LET first(i) == s.list[From(l)[i]] # <<>> /\ \A j \in 1 .. i - 1 : s.list[From(l)[j]] = <<>>
  IN From(l)[CHOOSE i \in 1 .. 3 : first(i)]

\* runsyncq runs work w next: sq_doput_synced, sq_dosrv_synced, sq_doevent_synced.
RunItem(t, w) ==
  /\ inside' = {p \in inside : ~p.run} \cup
                 {[t |-> t, w |-> w, excl |-> TRUE, run |-> TRUE, depth |-> 1]}
  /\ enab' = IF w \in Queues THEN Served(w) ELSE enab
  /\ before' = [v \in Messages |-> before[v] \ {w}]

\* The rest of what was taken, the next list as a whole, or the end: the
\* barrier is free, or locked without owner if there are waiters, who all wake.
RunNext(t, s) ==
  \/ /\ batch # <<>>
     /\ RunItem(t, Head(batch))
     /\ batch' = Tail(batch) /\ sq' = s
     /\ UNCHANGED <<phase, opener>>
  \/ /\ batch = <<>> /\ Backlog(s)
     /\ LET l == NextList(s, phase) IN
        /\ RunItem(t, Head(s.list[l]))
        /\ batch' = Tail(s.list[l]) /\ phase' = l
        /\ sq' = [s EXCEPT !.list[l] = <<>>]
     /\ UNCHANGED opener
  \/ /\ batch = <<>> /\ ~Backlog(s)
     /\ inside' = {p \in inside : ~p.run}
     /\ sq' = [s EXCEPT !.owner = NULL, !.count = IF s.waitq # {} THEN -1 ELSE 0]
     /\ opener' = [u \in Tasks |-> IF u \in s.waitq THEN "check" ELSE opener[u]]
     /\ phase' = "m" /\ UNCHANGED <<batch, enab, before>>

\* backlog and the start of runsyncq.
RunSyncq(t) ==
  /\ Awake(t) /\ sq.link
  /\ RunNext(t, [EnterExclus(sq, t) EXCEPT !.link = FALSE])
  /\ UNCHANGED <<shared, runq>>

\* An item returns and runsyncq takes sq_lock again.
ItemReturn(t) ==
  /\ \E p \in inside : p.t = t /\ p.run
  /\ RunNext(t, sq)
  /\ UNCHANGED <<shared, runq>>

-----------------------------------------------------------------------------
(* Open and close procedures *)

\* qopen, qclose and the end of streams_schedule: enter_syncq_exclus_blocking
\* tries once without a wait queue.
Open(t) ==
  /\ opener[t] \in {"none", "qwait"}
  /\ \A p \in inside : p.t # t
  /\ IF MayEnterExclus(sq)
     THEN /\ sq' = EnterExclus(sq, t)
          /\ inside' = inside \cup {[t |-> t, w |-> OPEN, excl |-> TRUE, run |-> FALSE,
                                     depth |-> 1]}
          /\ opener' = [opener EXCEPT ![t] = "in"]
     ELSE /\ opener' = [opener EXCEPT ![t] = "enqueue"]
          /\ UNCHANGED <<sq, inside>>
  /\ UNCHANGED <<shared, batch, phase, enab, runq, before>>

\* enter_syncq_exclus_blocking_slow: first the wait queue, without sq_lock ...
Enqueue(t) ==
  /\ opener[t] = "enqueue"
  /\ sq' = [sq EXCEPT !.waitq = @ \cup {t}]
  /\ opener' = [opener EXCEPT ![t] = "check"]
  /\ UNCHANGED <<shared, inside, batch, phase, enab, runq, before>>

\* ... then the test, and sleep.  Nobody looks at the wait queue while the
\* barrier has an owner, so the task leaves it in the same step.
Check(t) ==
  /\ opener[t] = "check"
  /\ IF MayPickUp(sq)
     THEN /\ sq' = [EnterExclus(sq, t) EXCEPT !.waitq = @ \ {t}]
          /\ inside' = inside \cup {[t |-> t, w |-> OPEN, excl |-> TRUE, run |-> FALSE,
                                     depth |-> 1]}
          /\ opener' = [opener EXCEPT ![t] = "in"]
     ELSE /\ opener' = [opener EXCEPT ![t] = "asleep"]
          /\ UNCHANGED <<sq, inside>>
  /\ UNCHANGED <<shared, batch, phase, enab, runq, before>>

\* The open procedure returns, or sleeps in qwait (streams_schedule).
LeaveOpen(t, to) ==
  /\ opener[t] = "in"
  /\ inside' = {p \in inside : p.t # t}
  /\ sq' = leave_syncq(sq, t)
  /\ opener' = [opener EXCEPT ![t] = to]
  /\ UNCHANGED <<shared, batch, phase, enab, runq, before>>

Opened(t) == LeaveOpen(t, "none")
Qwait(t) == LeaveOpen(t, "qwait")

Next ==
  \/ \E t \in Threads :
       \/ \E w \in Puts : Put(t, w)
       \/ \E w \in Writers : Writer(t, w)
       \/ \E w \in Events : Event(t, w)
       \/ \E q \in Queues : Service(t, q)
       \/ RunSyncq(t)
       \/ ItemReturn(t)
  \/ \E q \in Queues : Qenable(q)
  \/ \E p \in inside : Return(p)
  \/ \E t \in Tasks : Open(t) \/ Enqueue(t) \/ Check(t) \/ Opened(t) \/ Qwait(t)

Spec == Init /\ [][Next]_vars

\* The scheduler runs (RunSyncq), procedures return, and a task that may run
\* runs.  Nothing makes a task open, or come back from qwait.
Fairness ==
  /\ WF_vars(\E t \in Threads : RunSyncq(t))
  /\ WF_vars(\E t \in Threads : ItemReturn(t))
  /\ WF_vars(\E p \in inside : Return(p))
  /\ \A t \in Tasks : WF_vars(Enqueue(t)) /\ WF_vars(Check(t)) /\ WF_vars(Opened(t))

FairSpec == Spec /\ Fairness

-----------------------------------------------------------------------------
(* Properties *)

\* Exclusive access is exclusive: enter_syncq_exclus, runsyncq and the blocking
\* entry never let a procedure in beside another, and while the barrier waits
\* for the scheduler, or for a waiter it was handed to, nobody is in it.
Exclusion ==
  /\ \A p, r \in inside : p # r => ~p.excl /\ ~r.excl
  /\ sq.link \/ (sq.count = -1 /\ sq.owner = NULL) => inside = {}

\* Work that was deferred is never forgotten: as long as there is some, somebody
\* is inside who will find it when leaving, or the barrier is on the
\* scheduler's list, or a waiter that is awake will enter and find it.
BacklogServed ==
  Backlog(sq) \/ batch # <<>> =>
    \/ inside # {}
    \/ sq.link
    \/ MayPickUp(sq) /\ \E t \in sq.waitq : opener[t] = "check"

\* q_link and b_next link a queue or a message into one list at a time: the
\* scheduler's list, a list of the barrier and runsyncq's batch exclude each
\* other, and nothing is listed twice.  QENAB, which stays set until the service
\* procedure starts, is what keeps a deferred queue off the scheduler's list.
ListedOnce ==
  /\ \A l \in Lists : Distinct(batch \o sq.list[l])
  /\ \A q \in runq : ~Deferred(q)

\* Unless put procedures are shared, messages are run in the order in which
\* they were put: deferral, batches and direct entry never let one overtake.
InOrder ==
  [][~shared =>
       \A w \in Messages : Running(w)' /\ ~Running(w) =>
         IF Deferred(w) THEN before[w] = {} ELSE \A v \in Messages : ~Deferred(v)]_vars

\* Deferred work is run in the end.  runsyncq stays with a list as long as there
\* is something on it, so the work of a list is run if the others do not fill for
\* ever; shared put procedures that overlap for ever also keep it from running.
DeferredRuns ==
  \A l \in Lists :
    <>[](\A k \in Lists \ {l} : sq.list[k] = <<>>) =>
      \A w \in Works : ~shared /\ ListOf(w) = l /\ Deferred(w) ~> Running(w)
=============================================================================
