------------------------------ MODULE Timeout ------------------------------
(***************************************************************************)
(* kernel/timeout.c: the list of pending timeouts kept as deltas, the tick *)
(* count, and sys_clock_announce(), which expires timeouts with the lock   *)
(* released around every callback.  The system timer driver is external:   *)
(* it counts ticks, interrupts no later than it was last asked to by       *)
(* sys_clock_set_timeout(), and hands the ticks it has counted to          *)
(* sys_clock_announce() on some CPU.                                       *)
(*                                                                         *)
(* Every section that holds timeout_lock is one step.  The steps between   *)
(* which the lock is free are those around a callback, so what other CPUs, *)
(* nested interrupts and the callback itself do there is interleaved.      *)
(* The z_time_slice() call that ends an announcement touches scheduler     *)
(* state only and is modelled with the scheduler.                          *)
(***************************************************************************)
EXTENDS Integers, Sequences, FiniteSets, Functions, SequencesExt

CONSTANTS Timeouts,  \* the struct _timeout objects
          CPUs,      \* the CPUs whose timer interrupt may announce
          Builds,    \* the CPUs of a build and the timeouts it uses
          NULL,
          Delays,    \* relative delays passed to z_add_timeout()
          Deadlines, \* absolute ones (K_TIMEOUT_ABS_TICKS)
          MaxReal    \* bound: the hardware counts this many ticks

ASSUME TimeoutAssumption ==
    /\ \A b \in Builds : b.cpus \subseteq CPUs /\ b.timeouts \subseteq Timeouts
    /\ NULL \notin Timeouts
    /\ Delays \subseteq Nat /\ Deadlines \subseteq Nat /\ MaxReal \in Nat

VARIABLES build,
          timeout_list,        \* the linked timeouts, soonest first
          dticks,              \* ticks after the timeout before it in the list
          curr_tick,
          announce_remaining,
          firing,              \* per CPU, the timeout whose callback runs
          firing_dt,           \* per CPU, dt of sys_clock_announce()
          real,                \* driver: ticks the hardware has counted
          announced,           \* driver: ticks handed to sys_clock_announce()
          programmed,          \* driver: tick it will interrupt at, at the latest
          due                  \* ghost: the tick each linked timeout was asked for

vars == <<build, timeout_list, dticks, curr_tick, announce_remaining,
          firing, firing_dt, real, announced, programmed, due>>

SMP == Cardinality(build.cpus) > 1

-----------------------------------------------------------------------------
Linked(t) == Contains(timeout_list, t)

\* Ticks from curr_tick to the i-th timeout of list l under deltas d.
Prefix(l, d, i) == SumFunctionOnSet([j \in 1..Len(l) |-> d[l[j]]], 1..i)

sys_clock_elapsed == real - announced

elapsed == IF announce_remaining = 0 THEN sys_clock_elapsed ELSE 0

\* next_timeout(), for list l, deltas d and a driver that has counted e ticks
\* since its last announcement; an idle list asks for the longest wait.
next_timeout(l, d, e) ==
    IF l = <<>> THEN MaxReal ELSE Max({0, d[Head(l)] - e})

timeout_rem(t) ==
    Prefix(timeout_list, dticks, CHOOSE i \in DOMAIN timeout_list : timeout_list[i] = t)

z_timeout_expires(t) == curr_tick + (IF Linked(t) THEN timeout_rem(t) ELSE 0)

\* The linked timeouts that expire later than D ticks after curr_tick.
InsertPoint(D) ==
    {i \in DOMAIN timeout_list : Prefix(timeout_list, dticks, i) > D}

\* The walk of z_add_timeout() stops at the first timeout that is later.
Insert(t, D) ==
    IF InsertPoint(D) = {}
    THEN /\ timeout_list' = Append(timeout_list, t)
         /\ dticks' = [dticks EXCEPT ![t] =
                          D - Prefix(timeout_list, dticks, Len(timeout_list))]
    ELSE LET i == Min(InsertPoint(D)) IN
         /\ timeout_list' = InsertAt(timeout_list, i, t)
         /\ dticks' = [dticks EXCEPT
                ![t] = D - Prefix(timeout_list, dticks, i - 1),
                ![timeout_list[i]] = Prefix(timeout_list, dticks, i) - D]

\* Mutant: a new first timeout does not reprogram the driver.
z_add_timeoutNoProgram(t, D) ==
    /\ ~Linked(t)
    /\ Insert(t, D)
    /\ due' = [due EXCEPT ![t] = curr_tick + D]
    /\ UNCHANGED <<curr_tick, announce_remaining, firing, firing_dt, real,
                   announced, programmed>>

\* The driver is reprogrammed only for a new first timeout, and not while an
\* announcement is being processed.
z_add_timeout(t, D) ==
    /\ ~Linked(t)
    /\ Insert(t, D)
    /\ due' = [due EXCEPT ![t] = curr_tick + D]
    /\ programmed' = IF Head(timeout_list') = t /\ announce_remaining = 0
                     THEN real + next_timeout(timeout_list', dticks', elapsed)
                     ELSE programmed
    /\ UNCHANGED <<curr_tick, announce_remaining, firing, firing_dt, real, announced>>

AddRelative(t) == \E d \in Delays : z_add_timeout(t, d + 1 + elapsed)

\* Mutant: an absolute deadline in the past is not moved to the next tick.
AddAbsoluteNow(t) == \E a \in Deadlines : z_add_timeout(t, Max({0, a - curr_tick}))

AddAbsolute(t) == \E a \in Deadlines : z_add_timeout(t, Max({1, a - curr_tick}))

\* Mutant: the successor does not get the delta of the removed timeout.
RemoveDeltaLost(d, l, t) == d

\* remove_timeout() gives the delta of t to its successor.  The delta of an
\* unlinked timeout is never read; it is kept at 0 here.
RemoveDelta(d, l, t) ==
    LET i == CHOOSE j \in DOMAIN l : l[j] = t IN
    IF i < Len(l) THEN [d EXCEPT ![l[i + 1]] = @ + d[t]] ELSE d

z_abort_timeout(t) ==
    /\ Linked(t)
    /\ dticks' = [RemoveDelta(dticks, timeout_list, t) EXCEPT ![t] = 0]
    /\ timeout_list' = Remove(timeout_list, t)
    /\ due' = [due EXCEPT ![t] = 0]
    /\ UNCHANGED <<curr_tick, announce_remaining, firing, firing_dt, real,
                   announced, programmed>>

\* The head of the announce loop on CPU c with rem ticks left to process:
\* expire the first timeout and release the lock around its callback, or give
\* the rest of the ticks to curr_tick, reprogram the driver and leave.
AnnounceLoop(c, rem) ==
    LET t == Head(timeout_list) IN
    IF timeout_list # <<>> /\ dticks[t] <= rem
    THEN /\ curr_tick' = curr_tick + dticks[t]
         /\ firing' = [firing EXCEPT ![c] = t]
         /\ firing_dt' = [firing_dt EXCEPT ![c] = dticks[t]]
         /\ dticks' = [dticks EXCEPT ![t] = 0]
         /\ timeout_list' = Tail(timeout_list)
         /\ announce_remaining' = rem
         /\ due' = [due EXCEPT ![t] = 0]
         /\ UNCHANGED programmed
    ELSE /\ curr_tick' = curr_tick + rem
         /\ dticks' = IF timeout_list = <<>> THEN dticks
                      ELSE [dticks EXCEPT ![t] = @ - rem]
         /\ announce_remaining' = 0
         /\ firing' = [firing EXCEPT ![c] = NULL]
         /\ firing_dt' = [firing_dt EXCEPT ![c] = 0]
         /\ programmed' = real + next_timeout(timeout_list, dticks', real - announced')
         /\ UNCHANGED <<timeout_list, due>>

\* Mutant: a CPU that finds another one in the loop drops its ticks.
sys_clock_announceDrop(c) ==
    /\ firing[c] = NULL
    /\ announced' = real
    /\ IF SMP /\ announce_remaining # 0
       THEN UNCHANGED <<timeout_list, dticks, curr_tick, announce_remaining,
                        firing, firing_dt, programmed, due>>
       ELSE AnnounceLoop(c, sys_clock_elapsed)
    /\ UNCHANGED real

\* The timer interrupt on CPU c.  It is masked while c is announcing; on SMP a
\* CPU that finds another one in the loop only leaves its ticks behind.
sys_clock_announce(c) ==
    /\ firing[c] = NULL
    /\ announced' = real
    /\ IF SMP /\ announce_remaining # 0
       THEN /\ announce_remaining' = announce_remaining + sys_clock_elapsed
            /\ UNCHANGED <<timeout_list, dticks, curr_tick, firing, firing_dt,
                           programmed, due>>
       ELSE AnnounceLoop(c, sys_clock_elapsed)
    /\ UNCHANGED real

\* t->fn(t) returns: take the lock again and go round the loop.
CallbackReturns(c) ==
    /\ firing[c] # NULL
    /\ announced' = announced
    /\ AnnounceLoop(c, announce_remaining - firing_dt[c])
    /\ UNCHANGED real

Tick ==
    /\ real < MaxReal
    /\ real' = real + 1
    /\ UNCHANGED <<timeout_list, dticks, curr_tick, announce_remaining, firing,
                   firing_dt, announced, programmed, due>>

Init ==
    /\ build \in Builds
    /\ timeout_list = <<>>
    /\ dticks = [t \in Timeouts |-> 0]
    /\ curr_tick = 0
    /\ announce_remaining = 0
    /\ firing = [c \in CPUs |-> NULL]
    /\ firing_dt = [c \in CPUs |-> 0]
    /\ real = 0 /\ announced = 0
    /\ programmed = MaxReal
    /\ due = [t \in Timeouts |-> 0]

Next ==
    /\ \/ \E t \in build.timeouts :
             AddRelative(t) \/ AddAbsolute(t) \/ z_abort_timeout(t)
       \/ \E c \in build.cpus : sys_clock_announce(c) \/ CallbackReturns(c)
       \/ Tick
    /\ UNCHANGED build

Spec == Init /\ [][Next]_vars

\* The interrupt the driver was asked for.  It may also interrupt earlier
\* (another CPU's timer, a tickful build); nothing obliges it to.
DriverInterrupt ==
    /\ real >= programmed
    /\ \E c \in build.cpus : sys_clock_announce(c)
    /\ UNCHANGED build

\* Time goes on, a callback is a function that returns, and the driver keeps
\* its promise to interrupt in time.
Fairness ==
    /\ WF_vars(Tick /\ UNCHANGED build)
    /\ \A c \in CPUs : WF_vars(CallbackReturns(c) /\ UNCHANGED build)
    /\ WF_vars(DriverInterrupt)

FairSpec == Spec /\ Fairness
-----------------------------------------------------------------------------
\* Whatever is added, aborted or expired around it, the deltas before a linked
\* timeout always sum to the tick its z_add_timeout() call asked for.
DeadlineKept == \A t \in Timeouts : Linked(t) => z_timeout_expires(t) = due[t]

\* No announced tick is lost or counted twice, whichever CPUs announce while
\* callbacks run: curr_tick accounts for each once the loop is left.
NoTickLost ==
    /\ curr_tick + announce_remaining - SumFunction(firing_dt) = announced
    /\ (\A c \in CPUs : firing[c] = NULL) => announce_remaining = 0

\* A timeout that is due before the modelled time ends is expired or aborted.
EventuallyExpires ==
    \A t \in Timeouts : (Linked(t) /\ due[t] <= MaxReal) ~> ~Linked(t)

\* The delta list implements a set of deadlines under a clock that passes none;
\* on one CPU that clock never steps back.
Deadlines_ == INSTANCE TimeoutAbs WITH
    deadline <- [t \in Timeouts |-> IF Linked(t) THEN z_timeout_expires(t) ELSE NULL],
    now <- curr_tick,
    steady <- ~SMP
RefinesDeadlines == Deadlines_!AbsSpec
=============================================================================
