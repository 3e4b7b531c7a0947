# OpenSS7 signalling link and STREAMS executive: a TLA+ verification project

The modules here model two cores of OpenSS7. The first is MTP level 2 as
`src/src/modules/sl_tpi.c` implements it: a STREAMS module that runs an SS7
signalling link over a transport provider. The second is what every module of
the system runs on: the synchronization and the flow control of the STREAMS
executive (`src/src/kernel/strsched.c`, `strutil.c`) and of the stream head
(`src/src/modules/sth.c`). TLC checks the models on small instances, and TLAPS
proves the safety properties that matter most for every value of the constants.
Line numbers below are those of `src/src/modules/sl_tpi.c` unless another
file is named.

## 1. Inventory

OpenSS7 is a STREAMS executive for Linux with SS7, SIGTRAN and X/Open networking
stacks on top of it. The parts that hold its own logic:

| part | where | state | interacts with |
|---|---|---|---|
| STREAMS executive | `src/src/kernel/str*.c` | queues, message blocks, the scheduler's lists | everything, by put and service procedures, `canput`, `qenable`, `timeout` |
| stream head | `src/src/modules/sth.c` | open streams, read buffers, waiting processes | system calls above, the topmost module below |
| loop-around driver | `src/src/drivers/loop.c` | pairs of connected streams | the two stream heads, by put and service procedures |
| signalling link over TPI | `src/src/modules/sl_tpi.c` | `sl_t`: nine state machines, three buffers, sequence numbers, nine timers | level 3 by SL primitives, transport provider by TPI primitives |
| signalling link, data terminal, data link | `sl.c`, `sdt.c`, `sdl.c`, `sdt_tpi.c` | the same machines, split over modules | SDTI and SDLI primitives |
| M2PA | `m2pa_sl.c` | the same link state control over SCTP, with 24 bit numbers | SL primitives, SCTP by NPI or TPI |
| link cards | `src/src/drivers/sl_x400p.c` | level 2 and soft HDLC | interrupts |
| MTP level 3, SCCP, TCAP, ISUP | `src/src/drivers/{mtp,sccp,tcap,isup}.c` | routes, links, connections, transactions, circuits | each other, by their interfaces |
| user adaptation | `m2ua_as.c`, `m3ua_as.c`, `ua.c` | servers and their associations | SCTP, MTP |
| SCTP, INET | `src/src/drivers/{sctp2,inet}.c` | associations, sockets | IP |

The terminal of `sl_tpi.c` was chosen first: every SS7 user depends on it, its
control is all in one file, and its correctness is a matter of sequences of
primitives, timeouts and units that tests reach one at a time. Its parts, all
in one private structure:

| machine | functions | state | properties that make it correct |
|---|---|---|---|
| LSC, link state control | `sl_lsc_*` | `lsc_state`, outage and emergency flags | no state is a trap; level 3 knows whether the link serves it |
| IAC, initial alignment | `sl_iac_*` | `iac_state`, `Cp`, `further_proving`, T2, T3, T4 | each waiting state has its timer running |
| POC, processor outage | `sl_poc_*` | `poc_state` | in service means sending; an outage is told to the peer |
| TXC, transmission | `sl_txc_*` | `tb`, `rtb`, F/L/N sequence numbers, `Z`, `z_ptr`, T6, T7 | messages go out in order under their own numbers; what is not acknowledged can be retrieved |
| RC, reception | `sl_rc_*` | `rb`, X/F/T/R numbers, abnormality flags | in order, no loss, no duplicate; losses never look like failures |
| CC, congestion | `sl_cc_*`, `sl_rb_congestion_function` | `cc_state`, four congestion flags, T5 | busy is repeated; what is withheld is released |
| AERM, SUERM, EIM | `sl_aerm_*`, `sl_suerm_*`, `sl_eim_*` | error counts, T8 | an aligned link is monitored |
| wakeups | `sl_tx_wakeup`, `sl_rx_wakeup` | pacing, flow control | |
| management, ioctls, transport connection | `lmi_*`, `t_*`, `sl_ioc*` | interface state | |

The executive was chosen second: its correctness is a matter of interleavings
of processors, and a fault in it is a fault of every module. Its parts:

| part | functions | state | properties that make it correct |
|---|---|---|---|
| perimeters | `enter_syncq_*`, `leave_syncq`, `runsyncq`, `enter_syncq_exclus_blocking` | `sq_count`, `sq_owner`, three lists of deferred work, the waiting openers | exclusive is exclusive; deferred work is found, in order, once |
| queues | `putq`, `putbq`, `getq`, `flushq`, `bcanput` | counts, QFULL, QWANTW, QWANTR | who was refused, or found nothing, is called again |
| scheduler | `qenable`, `qbackenable`, `queuerun`, `backlog` | QENAB, lists of queues and barriers | what is enabled runs |
| stream head | `strputpmsg_common`, `__strwaitband`, `__strwaitgetq`, `strwsrv`, `strrsrv` | WSLEEP, RSLEEP, wait queues | no wake-up is lost |
| write queue of `sl_tpi.c` | `sl_putq`, `sl_srvq` | messages of level 3 that wait | a message that was refused is tried again; requests are heard |

What is hard to test in all of it, each at its line, is listed under `hazards` in
`PROJECT.json`: expiries that wait on the read queue while level 3 changes the
state they were started in; handlers that repeat the same list of stops and
indications; acknowledgements that arrive during a retransmission; level 2
and level 3 both asserting and ending congestion; four variants of the standard
in one switch; restarts that keep buffers; a barrier that is left while somebody
defers to it; a queue that is tested, filled, emptied and flushed by several
processors between the test and the sleep of a process.

## 2. Modules

| module | models | rests on |
|---|---|---|
| `SlBase` | the private structure, its type, its initial value, timers, `SN_OUTSIDE` | |
| `SlTxc` | TXC, transmit congestion, `sl_lsc_pdu` | `SlBase` |
| `SlLsc` | LSC, IAC, POC, CC, the starts and stops of RC and of the monitors | `SlTxc` |
| `SlRc` | received units, monitors, receive congestion, wakeups, expiries | `SlLsc` |
| `SlTerminal` | one terminal with any level 3 and any peer: the state machine | `SlRc` |
| `SlPair` | two terminals in service and a network that loses units | `SlRc` |
| `SlService` | what a link promises to level 3: in order, once, in the end | |
| `SlWq` | the write queue of a terminal: `sl_putq`, `sl_srvq`, stalls and enables | `SlRc` |
| `SlFunctionProofs` | one lemma for each function of `sl_tpi.c`, and how a terminal comes into service | `SlRc` |
| `SlTerminalProofs`, `SlServiceProofs` | the proofs about `SlTerminal` | `SlTerminal`, `SlFunctionProofs` |
| `SlPairProofs` | the proofs about `SlPair`, and that it keeps the promise of `SlService` | `SlPair`, `SlFunctionProofs` |
| `SlWqProofs` | the proofs about `SlWq` | `SlWq`, `SlFunctionProofs` |
| `MCSlTerminal`, `MCSlPair`, `MCSlWq` | small instances: requests, units, thresholds | |
| `StrSyncq` | an inner perimeter: its barrier, its deferred work, the openers | |
| `StrSyncqProofs` | the proofs about `StrSyncq` | `StrSyncq` |
| `StrFlow` | flow control and sleeping between the users of two connected streams | `StrChannel` |
| `StrChannel` | what one direction of them promises: a bounded channel | |
| `StrFlowProofs`, `StrFlowChannel` | the proofs about `StrFlow`, and that it implements `StrChannel` | `StrFlow` |

**State.** The C code keeps all in one structure that nested functions edit.
The model keeps it as one record `s`, and each C function is an operator of the
same name from record to record, so that a handler in the model makes the calls
of the handler in the code, in their order. Flags and indicator bits are 0 or
1, `tm` is the set of timers that run, `pos` is `z_ptr` as a position in the
retransmission buffer (0 for NULL, -1 for a pointer to a message that has been
freed: what is read through it is any value). The ghost field `l3` records what
level 3 was told. Sequence numbers are modulo `Mod`, except
that the BSNT is modulo `BsntMod` (the code masks it with 0x7F, 3142, whatever `sn_mask`
is), the unsigned counters modulo `CtrMod`. Octet counts are message counts: PDUs have
one length, so `N2` and the octet thresholds are thresholds of messages.

**Steps.** On a uniprocessor kernel STREAMS runs one procedure of the module
at a time, and a procedure handles a message to its end. Each message is
one step of `SlTerminal`: the fourteen requests of `sl_w_proto`, a unit
(`t_unitdata_ind`), a unit in error (`t_uderror_ind`), a timer. A timer is two
steps when it must be: its callback clears the timer identifier and puts an
`M_PCRSE` message to the read side; `sl_putq` handles it at once if the read
queue is empty (`ExpireNow`) and queues it otherwise (`ExpireQueued`, then
`HandleExpiry`). Requests of level 3 use the write queue and may come in
between, which is what makes expiries stale. The wakeups at the end of each
procedure send and deliver as far as pacing (T9) and flow control allow; since
they may do nothing, and since the T9 tick and back-enables call them too, they
are steps of their own (`TxWakeup`, `RxWakeup`). `WriteQueue` changes what waits
on the write queue, which the transmit congestion test reads.

`SlPair` puts two terminals at the ends of a network that keeps the order of
units and may lose them. It starts from the state that power on, start, SIO,
SIN, T4 and a FISU lead to, computed with the operators of the model. Level 3
of A sends the PDUs 1, 2, ...; B's receive buffer is delivered to its level 3.

**The write queue.** `SlWq` has the record of a terminal and, in front of it, the
queue through which level 3 reaches it. `sl_wput` is `sl_putq`: an M_PCPROTO is
handled at once if the queue is empty and its lock free, and all else is put on the
queue. `Srvp`, `Served`, `Refused` and `Drained` are `sl_srvq`, a step for each
message. What makes the queue hard is when it is enabled: by `putq`, for a
priority message always, for another one only if the queue is empty and `getq` found
it empty before (QWANTR); and by the state machines, in the one moment that `Cm`
becomes zero. Where `putq` puts a message is what its walk over the list finds (`Place`, `Inserted`). Which requests are M_PCPROTO is a constant: MTP level 3
(`mtp.c`) sends START, STOP and LOCAL_PROCESSOR_OUTAGE so, and PDUs,
RETRIEVAL, RESUME and CLEAR_BUFFERS as M_PROTO.

**Perimeters.** `StrSyncq` is one inner barrier. What the code does under `sq_lock` is
one step. `sq` is the `struct syncq` (`count`, `owner`, the three lists, the wait
queue, and whether it is on a scheduler's list), `inside` the procedures that run
within it, with their thread and nesting, `batch` what `runsyncq` has taken off a
list and not yet run. Put procedures (`Put`), writers, events and service
procedures enter or are deferred (`EnterOrDefer`); `Return` is `leave_syncq`;
`RunSyncq` and `ItemReturn` are `backlog` and `runsyncq`; `Open`, `Enqueue` and
`Check` are the blocking entry of the open and close procedures, `Qwait`
the leave and return of `streams_schedule`. The two settings of SQ_SHARED
are both in the model. `before` is a history variable for `InOrder`.

**Flow control.** `StrFlow` follows one direction from the processes that write at
stream head A through the loop-around driver to those that read at stream head
B. The queue functions change `count`, `full`, `wantw` and `wantr`
under the queue's lock in one step; `qenable` and `qbackenable` come after the lock
is released and are steps of their own, as are setting WSLEEP or RSLEEP,
testing, sleeping, clearing the flag and waking. `pc` says where each writer,
reader and scheduler thread is and whether it has a message in hand. A call that
may not wait fails, a signal ends a sleep, and I_FLUSH empties both queues.
Nothing keeps two threads from running the same service procedure.

**Refinement.** `SlService` is the abstract link: level 3 gives PDUs, the other
level 3 takes them in the same order, and everything given is taken in the end.
`SlPair!ImplementsService` is that specification with `given` and `taken` mapped
to `sent` and `up`. `StrChannel` is the abstract channel: a number of messages under
way that is bounded by `Capacity` and lowered by reading, or by a flush while one is
under way. `StrFlow!ImplementsChannel` maps that number to what is on the two queues and
in the hands of writers and threads; the capacity is the two high water marks and, for
each of the two tests of flow control, one message for everybody who may have passed it.

**Not in the model.** T9 pacing; allocation failures; sharing of data blocks by
`dupmsg`; signal unit compression (`sl_daedt_transmission_request`), which
repeats a unit and has no effect on the machines; statistics; the header
encodings (extended sequence numbers are the parameter `Mod`, with `BsntMod` smaller than it); the nested spin
lock of a multiprocessor build (2270). Of the executive: outer perimeters and the deferral
at hard interrupt; bands, priority messages, the identity of messages in
`StrFlow`; held messages, read modes, errors, hangups, signals and poll of the
stream head; the scheduler's lists are sets, so that any thread may
take any queue, which is more than the lists of one processor allow. The other
components are listed with reasons in `PROJECT.json`: what is still
outside is mostly protocol stacks of their own (level 3 and its users, SIGTRAN,
SCTP), the same level 2 again in other modules, and code without control to
model (management information, tables, conversions, hardware registers).

## 3. Runs

Passing runs:

| run | instance | distinct states | shows |
|---|---|---|---|
| `alignment_ansi` | ANSI, all requests about the link state, every status unit, units in error, two queued expiries, a write queue with or without PDUs, fair timers | 59,332 | `TypeOK`, `AlignmentSupervised`, `ReadySupervised`, `ErrorsMonitored`, `ServiceTold`, `StartAnswered` |
| `outage_ansi` | ANSI, outages, traffic, retrieval, clearing of buffers, SIPO, SIB | 353,762 | `AcksSupervised`, `InServiceSends`, `LocalOutageTold` |
| `outage_itut` | ITU-T 1996, high speed link: outages, traffic, clearing of buffers, units in error, T8 and the interval monitor | 3,406,844 | `ErrorsMonitored`, `AcksSupervised` |
| `congestion` | ITU-T 1996, incoming messages, any answers of flow control, level 3's own policy, local outages, clearing of buffers, the peer's SIPO | 1,433,482 | `CongestionSupervised`, `AcksReleased`, `CongestionCaused`, `LocalOutageKept` |
| `pair_congestion` | two terminals, basic method, receiver congested, T7 expiring, one loss | 429,004 | `TypeOK`, `ChangeoverComplete` |
| `pair_service` | two terminals, basic method, three messages, fairness | 54,480 | `NeverFails`, `ImplementsService` |
| `pair_pcr` | preventive cyclic retransmission, a window of three, four messages, two losses, three levels of congestion, fairness | 306,416 | `ChangeoverComplete`, `NeverFails`, `CongestionTold`, `ImplementsService` |
| `write_queue` | the write queue of a link that was in service, full after two PDUs; STOP, outage, RESUME, clearing, retrieval, SIB, T7 | 513,064 | `TypeOK`, `StallEnds`, `RequestHandled`, `PdusTaken` |
| `syncq` | a barrier, two tasks and a scheduler thread, two puts, a writer, a queue, an event, shared and exclusive | 57,628 | `TypeOK`, `Exclusion`, `BacklogServed`, `ListedOnce`, `InOrder`, `DeferredRuns` |
| `flow` | connected streams, one writer, one reader, one scheduler thread, marks of zero | 307,087 | `TypeOK`, `ReaderWoken`, `WriterWoken`, `QueueServed`, `ImplementsChannel`, `MessagesMove`, `WriterResumes` |

Each property has in `PROJECT.json` a mutant of the code, such as a missing
timer start or an off-by-one in the window test, under which the same run fails.

**Bounds.** The terminal runs have two sequence numbers and one PDU, since the
properties are about states and timers;
`M = 2` proving attempts and thresholds of one or two errors make every branch
of IAC, AERM and SUERM happen. `MaxPend = 2` queued expiries in `alignment_ansi`: one
stale and one fresh expiry at once, also of the same timer; the other runs queue
one, and the proofs need no bound. `WqMax`, what waits on the write queue, is one in
`alignment_ansi` and zero in the other terminal runs. `MaxRtb`, `MaxRb`, `MaxCa` cap the
buffers and the alignment error count, which the code does not bound. The pair
runs have eight sequence numbers and a window `N1` of two or three, so that a
window never covers the whole range, as in the code (127 of 128); two units under way (one in `pair_congestion`)
in one direction are enough for an acknowledgement to cross a retransmission,
and one or two losses for a gap, a lost negative acknowledgement and a lost
retransmission. The onsets of congestion are at two, three and four messages, so that in `pair_pcr` all
three levels are reached one by one and one acknowledgement ends several of them. In `write_queue` the transmission buffer refuses the third PDU (the code:
`q_count > 1024`) and the queue holds two messages, a stalled PDU
and what waits behind it or passes it. A START is not among its requests: see
the restart below. In `syncq` each list can hold work, two messages can be
deferred in either order, and both tasks can wait while the third thread is
inside; put procedures nest. In `flow` one message fills a queue, so that every flag
is set and cleared all the time; several writers, readers or
threads are left to the proofs, which need no bound. Deadlock is checked
in every run: even when level 3 has sent all its messages, the terminals go on
sending fill-in units, and processes may always write and read.

**The basic method is checked with two unacknowledged messages.** With three
it loses messages: see `v_retransmission` below. `pair_service` and
`pair_congestion` therefore show what holds up to that limit, and `pair_pcr`,
which does not have the fault, runs with three.

**Fairness.** `SlTerminal!Fairness`: a timer that runs expires (STREAMS
timeouts are called) and what is on the read queue is handled (the scheduler
runs enabled service procedures). Nothing is assumed of level 3 or the peer.
`StartAnswered` depends on the peer in one way: a peer that keeps returning to
SIO during proving restarts T3 and T4 for ever, so the property is of
behaviours in which it does not. `SlPair!Fairness`: each terminal
transmits on every T9 tick, what arrives is read, and level 3 of B takes what it
is given. It is weak fairness of these actions with the enabling conditions
written out, which TLC evaluates much faster than `ENABLED`. No fairness is
needed of the network since losses are bounded by `MaxLoss`.

`SlWq!Fairness`: an enabled service procedure runs to its end; the T9 tick
sends again and again, and the peer acknowledges again and again, as long as there
is something to send or to acknowledge. The latter two are strong: a procedure that finds the
lock taken by `sl_wsrv` leaves its message on its queue, which `sl_unlockq` enables, so it
is delayed and not lost. `StrSyncq!Fairness`: barriers on the scheduler's list are
run, procedures return, and a task that may run runs; nobody has to open,
and `Qenable` and `Service` need no fairness. `DeferredRuns` says what the code can
promise: `runsyncq` stays with one list while it fills, so the work of a list runs if
the others do not fill for ever, and shared put procedures that overlap for ever
hold the barrier. `StrFlow!Fairness`: a call that was started goes on, a service procedure
goes on, readers go on reading, and an enabled queue is served. The last
is strong because the scheduler's list is first in, first out: a thread that is free again
and again does not pass over the same queue for ever. Nothing makes a process write or
flush, and a sleep need not be interrupted. `WriterResumes` promises that a sleeping writer gets past
flow control and writes, or is interrupted. It is of one writer: of several woken
together, the first may fill the queue again and the others sleep on.

## 4. Disagreements found

Each of these runs checks one statement of the documentation and finds it
violated; the counterexample is a few steps of the code's own handlers.

* `v_retransmission`. An acknowledgement that arrives within a
  retransmission cycle resets `z_ptr` to the head of the retransmission buffer
  (2690) and leaves `N.fsn`. With three messages unacknowledged, of which
  two were sent again, a message is sent a third time under the number of the
  next one; the peer accepts it as that one, its acknowledgement frees a
  message that never arrived, and retrieval cannot recover it.
* `v_retrieval`. A PDU that is refused with -ENOBUFS (4643) goes back to the head of the
  write queue. If level 3 now stops the link and asks for retrieval, the
  STOP, an M_PCPROTO, passes that PDU and the retrieval, which `mtp.c:3340` sends
  as M_PROTO, stands behind it. The queue is enabled only when the
  transmission buffer becomes empty (3017, 2816); out of service nothing is
  sent, and what would empty the buffer is the retrieval. `sli.texi:5017` allows both
  message types and `sli.texi:5058` promises an answer.

Others met while modelling, not the subject of a run:

* `sl_rc_retrieve_bsnt` masks the BSNT with 0x7F (3142); a link with extended sequence
  numbers (`SS7_POPT_XSN`, 4379) counts modulo 2^15, and every other number is computed with
  `sn_mask`. The other end, given the truncated number as FSNC, purges (2807) messages
  that were never received. With `Mod = 8` and `BsntMod = 4` the instance of `pair_pcr`
  violates `RetrievalRecoversAll` at the first message: the receiver, which expects number 0,
  reports 3 in place of 7. `sli.texi:1178` calls the BSNT "the last transmitted backward sequence number".
* `sl_t1_expiry` (5056) has no guard. If T1's message is queued when
  level 3 stops the link, it is handled after the STOP and
  sends SL_OUT_OF_SERVICE_IND from OUT_OF_SERVICE, which `sli.texi:3956`
  excludes.
* In `sl_lsc_local_processor_recovered` (4204) the ITU-T variants
  fall through into the ANSI case, which tests a flag that ITU-T does not keep:
  RESUME brings the link into service while the peer's processor outage is still
  asserted. `sli.texi:5916` says that it does not.
* A PDU that stalls before a restart is never tried again: `sl_txc_start` zeroes `Cm` and
  keeps the transmission buffer, so that `Cm` wraps below zero and is not zero when the
  buffer is empty. With START among its requests the `write_queue` instance violates
  `PdusTaken`. The comments at 8573 ask that whoever refuses a message sees to
  its retry.
* RESUME is sent as M_PROTO (`mtp.c:3369`). In a local processor outage nothing
  is sent, so behind a refused PDU it waits for ever, as the retrieval does.
* An open or close procedure that sleeps at a barrier is woken by `runsyncq` only.
  `leave_syncq` (`strsched.c:2964`) frees a barrier without a backlog and wakes nobody,
  so that the opener sleeps on at a free barrier until somebody is deferred there;
  `src/doc/man/man9/mp-streams.9.man:392`: "Other threads will wait until a thread
  currently within the perimeter exits."
* `strsched.c:2734` says that service procedures need not be re-entrant. Without a
  perimeter QENAB, which is cleared before the procedure runs, does not keep
  a second thread from running it at the same time.
* With an outer and an inner barrier, `enter_inner_syncq_asputp` (`strsched.c:3087`)
  enters the outer one shared and its callers leave the inner one only.
* The receive buffer survives a STOP and START; `sl_rx_wakeup` (4945) says that
  there should be no receive buffers in the alignment states, and
  when it purges them it leaves `Cr`, on which receive congestion depends.
* `sl_txc_start` (4363) zeroes `Cm` and `Ct`, which `sli_ioctl.h:211` calls the
  numbers of messages in the buffers, and keeps the buffers.
* `sl_check_congestion` (4503) applies a discard threshold only in the step that
  passes the onset below it; the comment at 4499 promises all thresholds.
* Under an accept policy `sl_rc_signal_unit` (3977) withholds acknowledgements;
  `sli.texi:1119` says that messages are acknowledged.

## 5. Proofs

### The functions

A handler of `sl_tpi.c` is a chain of calls. `SlFunctionProofs` has, for every value of the
constants that satisfies the assumptions of `SlBase` (`OptionAssumption`,
`NumberAssumption`, `ThresholdAssumption`), what each function preserves, as relations
between the record `x` before a call and `y` after it that compose:

* `Keeps(x, y, P)`: the call preserves `Core`, and `Link` if it held (below);
* `Leaves(x, y)`: it changes neither the buffers nor the numbers that describe them
  (`Same`), nor the congestion status. All but transmission control and the reception of
  messages do.

### The terminal

`SlTerminalProofs` and `SlServiceProofs` prove, under the assumptions of `SlTerminal` too
(`EnvironmentAssumption`):

| theorem | states |
|---|---|
| `Invariance` | `Spec => []IInv`, the inductive invariant |
| `TypeCorrect` | `Spec => []TypeOK` |
| `AlignmentIsSupervised` | `Spec => []AlignmentSupervised` |
| `ReadyIsSupervised` | `Spec => []ReadySupervised` |
| `CongestionIsSupervised` | `Spec => []CongestionSupervised` |
| `ErrorsAreMonitored` | `Spec => []ErrorsMonitored` |
| `ServiceIsTold` | `Spec => []ServiceTold` |
| `AcksAreSupervised` | `Spec => []AcksSupervised` |
| `InServiceLinkSends` | `Spec => []InServiceSends` |
| `LocalOutageIsTold` | `Spec => []LocalOutageTold` |
| `LocalOutageIsKept` | `Spec => LocalOutageKept` |
| `AcksAreReleased` | `Spec => []AcksReleased` |
| `CongestionIsCaused` | `Spec => []CongestionCaused` |

No bound of the model enters: the theorems hold for any number of
queued expiries, any buffers, any sequence number modulus, any peer.

**The invariant.** None of the supervision properties is inductive alone. That
initial alignment is supervised needs that IAC is not idle in it; that a failed
link is told needs the link state at each call; and all of them need types. The
invariant is `Whole(s, Pending)`, where `Pending` is the set of queued expiries:

* `Core`: the structure is well typed, each waiting state of IAC has its timer
  running or pending, and a busy CC has T5;
* `Link`: IAC is not idle in initial alignment, T1 is armed on an aligned link, level
  3 believes in service only what is, and the error monitor runs.

**The argument.** While a handler takes a link out
of service the state in between violates `Link`. `Core` holds at every
point. One lemma for each C function establishes `Keeps`, `Chain`
composes calls, and the functions that leave service establish `Link`
directly from `Core`. An expiry starts in a state that is whole only with its
own timer counted as pending, so the expiry lemmas go from `P \cup {t}` to `P`:
each one restarts its timer or leaves the state that needed it. Stale expiries
are covered by the same lemmas, because they assume nothing of the state. The
last lemmas take the actions of `Next` one by one.

**The service invariant.** What a link in service does to its traffic depends on where the
*other* machines are when LSC is in a given state, so `SlServiceProofs` adds `Serving`:
the receiver runs exactly while the link is started (`Running`); a link in service is not
inhibited, sends no status unit but SIB and has T7 on what is not acknowledged
(`Traffic`); an outage is told and an ITU-T terminal keeps the remote one in POC
(`Outage`, without which RESUME could leave the link in service and silent); what is
withheld or discarded is so by a congestion that level 2 or level 3 still asserts, so that
its end releases it (`Congestion`). The proof of `LocalOutageTold` showed that the
property must allow SIB: a congested terminal in an outage sends SIB in place of SIPO
(`sl_txc_send_sib`), and once it was sent the status unit is not available any more.
`InServiceSends` is about the flags that let a link in service send: with `retrans_cycle` set and
`z_ptr` NULL, which a restart can leave behind (item 4 of the plan), a link satisfies it
and sends no messages.

**Local outages.** Only ANSI has one flag for them. The ITU-T variants set
`local_processor_outage` out of service and during alignment (4259 to 4261) and keep the outages of
an aligned link in `poc_state`, which is no witness that SIPO is being sent: CLEAR_BUFFERS (4145 to
4154) and CLEAR_RTB send FISU while the outage goes on. What is
true of every variant is stated in two parts. `LocalOutageTold`, an invariant: SIPO or SIB is sent in
ALIGNED_NOT_READY, and in ANSI's PROCESSOR_OUTAGE while the flag is set. `LocalOutageKept`, an action
property: of a blocked link that tells of its outage, only RESUME, CLEAR_BUFFERS and CLEAR_RTB withdraw that
while it stays blocked. The second does not follow from an invariant: its proof
chains a relation between the structure before and after (`Holds`) through every function that a
handler calls, as the first proof chains `Keeps`.

### The pair

`SlPairProofs` proves about two terminals and a network that loses units:

| theorem | states |
|---|---|
| `PairTypeCorrect` | `Spec => []TypeOK` |
| `ChangeoverIsComplete` | `PcrLink /\ BsntMod = Mod => (Spec => []ChangeoverComplete)` |
| `LinkServes` | `PcrLink => (Spec => ServiceSafe)`: the initial states and the steps of `SlService` |
| `LossNeverFails` | `PcrLink /\ Patient => (Spec => []NeverFails)` |
| `CongestionIsTold` | `Graded => (Spec => []CongestionTold)` |

`PcrLink` is preventive cyclic retransmission with a window of at least one message and
smaller than the cycle of sequence numbers (127 of 128 in the code). It is needed: the
basic method loses messages with three unacknowledged (`v_retransmission`), and a window
of the whole cycle cannot tell a repetition from a new message. `BsntMod = Mod` is
numbering by seven bits, which the mask of the BSNT holds; without it see the mask of the BSNT in section 4. `Patient` says that T1,
T6, T7 and T8, whose expiry is meant to fail a link, do not expire. `Graded`: each onset of
congestion lies above the one before it and not below its own abatement, as the defaults of
the code do (8757 to 8765); `CongestionIsTold` holds of both methods and also after a failure. There is no bound on messages, losses,
units under way or congestion: each is a constant of any size.

**Types** (`TInv`). A unit that is sent again is read through `z_ptr`, so that units are well
formed only because `z_ptr` is NULL, dangling, or within the retransmission buffer. The same
invariant (`Buffered`) says that the congestion status is the level of what the buffers hold.
`sl_check_congestion` falls by any number of levels, but rises past a second onset only if the discard
threshold between them is passed too. That suffices because the buffers grow by one message
between two of its calls (`LevelFollows`) and the functions of a link in traffic that add or free
messages call it. In octets the onsets must lie a message apart, as the defaults do.
Retrieval empties the buffers and does not call it (2820), so that the level is stale from a
retrieval to the next message; it is not among the steps of the pair.

**The invariant** (`PInv`) numbers the messages without end and says that there are numbers
`f <= l <= sent` (known to have arrived, sent), `n` and `t` (arrived at B, acknowledged by
B) such that

* `Tx`: `rtb` holds the messages from `f` to `l` and `tb` those from `l` to `sent`; F.fsn and
  L.fsn are `f` and `l - 1` modulo the cycle; `Z` and `z_ptr` agree; `l - f` is at most `N1`, and at
  `N1` retransmission is forced, which keeps new messages out of a full window;
* `Rx`: X.fsn is `n`, and B has delivered or holds exactly the first `n`;
* `Forward`: an MSU under way to B is one of the `l` sent and carries its number, and
  neither B nor a unit ahead of it is a window or more further, so that B accepts no
  repetition as a new message; this is where `N1 < Mod` enters;
* `Back`: the units to A acknowledge ever more, between `f` and `t`.

`CInv` adds for `LossNeverFails` that both terminals are in service and the only status unit
under way is SIB; that no BSN is abnormal follows from `Forward` and `Back`.

### The write queue

`SlWqProofs` proves, under `WqAssumption` too:

| theorem | states |
|---|---|
| `WriteQueueTyped` | `Spec => []TypeOK` |
| `StallsEnd` | `Unrestarted /\ CounterHolds => (Spec => []StallEnds)` |

`Unrestarted`: level 3 does not start the link again. A restart zeroes `Cm` and keeps the
buffer, after which the property is false (section 4). `CounterHolds`: `Cm` is wide enough for the bound
of the buffer and one message more, as 32 bits are for 1024 octets. Each function is shown to leave the transmission buffer, `Cm` and the count of
the queue alone (`Spares`), or what it does to them. The invariant `SInv` adds to types and
order (`QInv`) that `Cm` counts the buffer, that an empty queue that is not served has QWANTR,
so that the next message enables it, and that a queue that nobody will serve waits behind a
PDU with something in the transmission buffer.

### Perimeters

`StrSyncqProofs` proves, for any threads, tasks, messages, queues and events, also
infinitely many, and either setting of SQ_SHARED (`ThreadAssumption`, `WorkAssumption`,
`ShareAssumption`):

| theorem | states |
|---|---|
| `Invariance` | `Spec => []IInv` |
| `TypeCorrect` | `Spec => []TypeOK` |
| `AccessIsExclusive` | `Spec => []Exclusion` |
| `BacklogIsServed` | `Spec => []BacklogServed` |
| `WorkIsListedOnce` | `Spec => []ListedOnce` |
| `MessagesInOrder` | `Spec => InOrder`, an action property |

The invariant relates the barrier to the procedures inside, which the code keeps no
list of. `Safe(sq, inside)`: if `sq_count` is not negative it is the number of those
inside, who all share, and at zero there is no backlog; if it is -1 there is one
procedure inside, exclusive and of the thread `sq_owner`, or none, and then the barrier is
on a scheduler's list or has no owner and was handed to the waiters. `BatchRuns`: what `runsyncq` has taken off a list belongs to a procedure of it
that runs. `HandedOver`: a barrier that has no owner has a waiter that is awake.
`OpenersInside` and `Kinds` say what the procedures inside can be. There is one
lemma for each function on the barrier and one for each action.

A second invariant, `LInv`, is about what is on the lists: each list holds the work of its kind
(`Sorted`), none twice and none that is in the batch as well (`Single`); a queue that is listed
anywhere has QENAB, and one on the scheduler's list does not wait at the barrier, which is why
QENAB keeps a queue from a second list (`Flagged`); and the messages that were put before a
message are still ahead of it, in the batch or on the list (`Ordered`). From it and `IInv`
each step is shown to overtake nobody.

### Flow control

`StrFlowProofs` proves, for any writers, readers and threads and any water marks, in order
or not (`AgentAssumption`, `MarkAssumption`):

| theorem | states |
|---|---|
| `Invariance` | `Spec => []IInv` |
| `TypeCorrect` | `Spec => []TypeOK` |
| `ReadersAreWoken` | `Spec => []ReaderWoken` |
| `WritersAreWoken` | `Spec => []WriterWoken` |
| `QueueIsServed` | `Spec => []QueueServed` |

The properties speak of processes that sleep and of messages that wait; the invariant
adds the moments just before. `Watched`: a process between setting its flag and its test
has the flag set, or whoever cleared it will wake it. `PutServed`: a
message that is about to be put on the driver's queue will be noticed, because something
makes `loop_wsrv` run or QWANTR is set, so that the put itself enables the queue.

`StrFlowChannel` proves `FlowImplementsChannel`: `Spec => ImplementsChannel`, for finite sets
of writers and threads and low water marks that are not above the high ones (`FiniteAssumption`,
`MarkOrder`). The invariant `Marked` counts who has passed the test of flow control: a queue
without QFULL is at most at its high water mark, and rq exceeds it by no more than the agents
that have passed. Every step of `StrFlow` is then shown to send, to receive, to flush or
to leave the number of messages alone.

**Only model-checked.** Every safety property of the passing runs is stated by a theorem. Liveness
(`StartAnswered`, `DeferredRuns`, `MessagesMove`, `WriterResumes`, `RequestHandled`,
`PdusTaken`) and the part of `ImplementsService` that is under fairness, that what is given is
taken, stay with TLC: temporal reasoning with fairness is out of the prover's reach. So does
the basic method: `ChangeoverComplete`, `NeverFails` and `ImplementsService` are proved with
preventive cyclic retransmission, and checked for the basic method up to the two messages with which it
works (`pair_congestion`, `pair_service`).

## 6. Plan

In this order:

1. done: `SlBase`, `SlTxc`, `SlLsc`, `SlRc`, `SlTerminal`; `SlPair` and
   `SlService` with the refinement; the inductive invariant and its theorems.
2. done: `SlWq`; `StrSyncq` and its proofs; `StrFlow`, `StrChannel` and their proofs.
3. done: theorems for the other invariants of the terminal, the pair with preventive cyclic
   retransmission, the write queue, `ListedOnce` and `InOrder` of the barrier. Left: the pair
   with the basic method and a window of two, with the indicator bits in the invariant.
4. Restarts: a pair that also stops and starts, with the buffers that a restart
   keeps and the retransmission cycle that it does not reset.
5. Outer perimeters, and the bands of a queue with their own water marks.
6. `SlLmi`: attach, enable, disable and the transport connection below.
7. M2PA (`m2pa_sl.c`): link state control over SCTP, against `SlService` again.
