------------------------------ MODULE Executor ------------------------------
(***************************************************************************)
(* The worker executor of crates/wasm-runtime/src/worker/executor.rs: one  *)
(* root future polled on its owner thread, woken from other threads,       *)
(* parked on the caller's executor only while it is idle, and interrupted  *)
(* while its CPU child runs guest code synchronously.                      *)
(*                                                                         *)
(* The root future is a join of children polled in a fixed order: devices  *)
(* (futures that wait for an event another thread produces) and the CPU    *)
(* child, which is machine::Runner::run_cpu.  All the shared flags are     *)
(* SeqCst atomics, so one action is one atomic access and steps of the     *)
(* threads interleave.                                                     *)
(***************************************************************************)
EXTENDS Naturals, Sequences

CONSTANTS
  Order,       \* the root future's children, in the order a poll visits them
  Cpu,         \* the child that runs guest code
  Stop,        \* the stop future, which run_until polls before the root
  YieldWakes   \* how often a child's wake may reach the root in one yield_now

Children == {Order[i] : i \in 1..Len(Order)}
Devices == Children \ {Cpu}
Sources == Children \cup {Stop}

ASSUME OrderAssumption ==
  /\ Order \in Seq(Children)
  /\ \A i, j \in 1..Len(Order) : Order[i] = Order[j] => i = j
  /\ Cpu \in Children
  /\ Stop \notin Children

ASSUME YieldWakesAssumption == YieldWakes \in Nat \ {0}

VARIABLES
  runnable,    \* ExecutorWake.runnable
  notified,    \* ExecutorWake.notified
  parked,      \* ExecutorWake.parked holds the outer task's waker
  interrupt,   \* the connection's signal, read at guest checkpoints
  yielding,    \* the owner's thread-local YIELDING names this executor
  pc,          \* the next step of run_until
  at,          \* the position in Order of the child being polled
  ready,       \* the root future's poll returned Ready
  extra,       \* root wakes left in the current yield_now
  cpu,         \* "new", "yielded" (wants a poll) or "waiting" (for a wake)
  outer,       \* the outer task has been woken and will be polled
  work,        \* sources whose event has happened and is not consumed
  registered,  \* sources that hold a clone of the executor's waker
  seen,        \* sources polled at least once in this run
  wake         \* per source, the next step of its producer's wake_by_ref

flags == <<runnable, notified, parked, interrupt>>
owner == <<yielding, pc, at, ready, extra, cpu, seen>>
vars == <<runnable, notified, parked, interrupt, yielding, pc, at, ready,
          extra, cpu, outer, work, registered, seen, wake>>

OwnerSteps == {"returned", "reset", "forget", "stop", "poll", "guest", "yield",
               "ack", "check", "finish", "idle", "register", "recheck",
               "asleep", "unpark"}
WakeSteps == {"none", "enter", "signal", "runnable", "park"}

(* Executor::new.  Any source may already have its event.                  *)
Init ==
  /\ runnable = FALSE /\ notified = FALSE /\ parked = FALSE /\ interrupt = FALSE
  /\ yielding = FALSE /\ pc = "returned" /\ at = 1 /\ ready = FALSE
  /\ extra = 0 /\ cpu = "new" /\ outer = FALSE
  /\ work = {} /\ registered = {} /\ seen = {}
  /\ wake = [s \in Sources |-> "none"]

-----------------------------------------------------------------------------
(* ExecutorWake::wake_by_ref.  wake[s] is the position of the thread that  *)
(* calls it for source s; the CPU's wake runs on the owner thread.         *)

(* Mutant: a yield is an ordinary wake.                                    *)
NeverSuppressed(s) == FALSE

(* The check of the thread-local YIELDING: the first root wake of a        *)
(* yield_now requests no interrupt.                                        *)
Suppressed(s) == s = Cpu /\ yielding

WakeEnter(s) ==
  /\ wake[s] = "enter"
  /\ IF Suppressed(s)
     THEN /\ yielding' = FALSE
          /\ wake' = [wake EXCEPT ![s] = "runnable"]
          /\ UNCHANGED notified
     ELSE /\ notified' = TRUE
          /\ wake' = [wake EXCEPT ![s] = "signal"]
          /\ UNCHANGED yielding
  /\ UNCHANGED <<runnable, parked, interrupt, pc, at, ready, extra, cpu, outer,
                 work, registered, seen>>

WakeSignal(s) ==
  /\ wake[s] = "signal"
  /\ interrupt' = TRUE
  /\ wake' = [wake EXCEPT ![s] = "runnable"]
  /\ UNCHANGED <<runnable, notified, parked, owner, outer, work, registered>>

WakeRunnable(s) ==
  /\ wake[s] = "runnable"
  /\ runnable' = TRUE
  /\ wake' = [wake EXCEPT ![s] = "park"]
  /\ UNCHANGED <<notified, parked, interrupt, owner, outer, work, registered>>

(* AtomicWaker::wake: take the registered waker, if any, and wake it.      *)
WakeParked(s) ==
  /\ wake[s] = "park"
  /\ outer' = (outer \/ parked)
  /\ parked' = FALSE
  /\ wake' = [wake EXCEPT ![s] = "none"]
  /\ UNCHANGED <<runnable, notified, interrupt, owner, work, registered>>

WakeStep(s) == WakeEnter(s) \/ WakeSignal(s) \/ WakeRunnable(s) \/ WakeParked(s)

(* An event of s: the producer stores it, takes the waker the source's     *)
(* poll registered, if there is one, and goes on to wake it.               *)
Announce(s) ==
  /\ registered' = registered \ {s}
  /\ wake' = IF s \in registered THEN [wake EXCEPT ![s] = "enter"] ELSE wake

Fire(s) ==
  /\ s # Cpu /\ s \notin work /\ wake[s] = "none"
  /\ work' = work \cup {s}
  /\ Announce(s)
  /\ UNCHANGED <<flags, owner, outer>>

-----------------------------------------------------------------------------
(* run_until.  The owner's own wakes are calls, so it takes its next step  *)
(* only when none is in progress.                                          *)

OwnerAt(p) == pc = p /\ wake[Cpu] = "none"

(* A call of run_until with a new root and a new stop future.              *)
Start ==
  /\ OwnerAt("returned")
  /\ pc' = "reset" /\ cpu' = "new" /\ seen' = {} /\ work' = work \ {Stop}
  /\ UNCHANGED <<flags, yielding, at, ready, extra, outer, registered, wake>>

ResetRunnable ==
  /\ OwnerAt("reset")
  /\ runnable' = FALSE /\ pc' = "forget"
  /\ UNCHANGED <<notified, parked, interrupt, yielding, at, ready, extra, cpu,
                 outer, work, registered, seen, wake>>

ResetNotified ==
  /\ OwnerAt("forget")
  /\ notified' = FALSE /\ pc' = "stop"
  /\ UNCHANGED <<runnable, parked, interrupt, yielding, at, ready, extra, cpu,
                 outer, work, registered, seen, wake>>

(* Mutant: stop is only tested, so its producer has nobody to wake.        *)
PollStopUnregistered ==
  /\ OwnerAt("stop")
  /\ seen' = seen \cup {Stop}
  /\ at' = 1
  /\ pc' = IF Stop \in work THEN "returned" ELSE "poll"
  /\ UNCHANGED <<flags, yielding, ready, extra, cpu, outer, work, registered,
                 wake>>

(* A poll of the stop future either sees its event or registers a waker.   *)
PollStop ==
  /\ OwnerAt("stop")
  /\ seen' = seen \cup {Stop}
  /\ at' = 1
  /\ IF Stop \in work
     THEN pc' = "returned" /\ UNCHANGED registered
     ELSE pc' = "poll" /\ registered' = registered \cup {Stop}
  /\ UNCHANGED <<flags, yielding, ready, extra, cpu, outer, work, wake>>

(* The root's poll goes on to its next child, or returns Pending.          *)
NextChild ==
  /\ at' = at + 1
  /\ pc' = IF at = Len(Order) THEN "ack" ELSE "poll"

(* A device's poll consumes its event, which may raise an interrupt        *)
(* request for the CPU and so wake the CPU's own waker, and waits again.   *)
PollDevice(d) ==
  /\ OwnerAt("poll") /\ Order[at] = d /\ d # Cpu
  /\ seen' = seen \cup {d}
  /\ \/ /\ work' = work \ {d}
        /\ registered' = registered \cup {d}
        /\ UNCHANGED wake
     \/ /\ d \in work
        /\ work' = (work \ {d}) \cup {Cpu}
        /\ registered' = (registered \cup {d}) \ {Cpu}
        /\ wake' = IF Cpu \in registered THEN [wake EXCEPT ![Cpu] = "enter"]
                   ELSE wake
  /\ NextChild
  /\ UNCHANGED <<flags, yielding, ready, extra, cpu, outer>>

(* yield_now enters its scope and wakes the current task, whose root       *)
(* receives the wake once or, through combinators, several times.          *)
EnterYield ==
  /\ pc' = "yield" /\ yielding' = TRUE
  /\ extra' \in 0..(YieldWakes - 1)
  /\ wake' = [wake EXCEPT ![Cpu] = "enter"]

(* Mutant: run_cpu enters the guest without its first yield.               *)
PollNewCpuNoYield ==
  /\ OwnerAt("poll") /\ Order[at] = Cpu /\ cpu = "new"
  /\ pc' = "guest" /\ cpu' = "yielded"
  /\ seen' = seen \cup {Cpu}
  /\ registered' = registered \cup {Cpu}
  /\ UNCHANGED <<flags, yielding, at, ready, extra, outer, work, wake>>

(* run_cpu's first poll yields, before any guest code runs.                *)
PollNewCpu ==
  /\ OwnerAt("poll") /\ Order[at] = Cpu /\ cpu = "new"
  /\ EnterYield
  /\ seen' = seen \cup {Cpu}
  /\ UNCHANGED <<flags, at, ready, cpu, outer, work, registered>>

(* A waiting CPU that has no event registers again and stays pending.      *)
PollWaitingCpu ==
  /\ OwnerAt("poll") /\ Order[at] = Cpu /\ cpu = "waiting" /\ Cpu \notin work
  /\ registered' = registered \cup {Cpu}
  /\ NextChild
  /\ UNCHANGED <<flags, yielding, ready, extra, cpu, outer, work, seen, wake>>

(* Otherwise it takes its event, leaves its waker and runs guest code.     *)
EnterGuest ==
  /\ OwnerAt("poll") /\ Order[at] = Cpu
  /\ cpu = "yielded" \/ (cpu = "waiting" /\ Cpu \in work)
  /\ work' = work \ {Cpu}
  /\ registered' = registered \cup {Cpu}
  /\ pc' = "guest"
  /\ UNCHANGED <<flags, yielding, at, ready, extra, cpu, outer, seen, wake>>

(* A guest checkpoint sees the signal: run_cpu yields.                     *)
GuestCheckpoint ==
  /\ OwnerAt("guest") /\ interrupt
  /\ EnterYield
  /\ UNCHANGED <<flags, at, ready, cpu, outer, work, registered, seen>>

(* A guest port write makes a device raise an interrupt request.           *)
GuestRaise ==
  /\ OwnerAt("guest") /\ Cpu \notin work
  /\ work' = work \cup {Cpu}
  /\ Announce(Cpu)
  /\ UNCHANGED <<flags, owner, outer>>

(* The guest halts or calls a service that is pending.                     *)
GuestWait ==
  /\ OwnerAt("guest") /\ Cpu \notin work
  /\ cpu' = "waiting"
  /\ NextChild
  /\ UNCHANGED <<flags, yielding, ready, extra, outer, work, registered, seen,
                 wake>>

(* The guest exits: the root future is ready.                              *)
GuestExit ==
  /\ OwnerAt("guest")
  /\ ready' = TRUE /\ pc' = "ack"
  /\ UNCHANGED <<flags, yielding, at, extra, cpu, outer, work, registered,
                 seen, wake>>

(* Mutant: a yield's wakes are not counted down to their end.              *)
YieldAgainUncounted ==
  /\ OwnerAt("yield")
  /\ extra' = extra - 1
  /\ wake' = [wake EXCEPT ![Cpu] = "enter"]
  /\ UNCHANGED <<flags, yielding, pc, at, ready, cpu, outer, work, registered,
                 seen>>

(* The waker of a combinator reaches the root once more.                   *)
YieldAgain ==
  /\ OwnerAt("yield") /\ extra > 0
  /\ extra' = extra - 1
  /\ wake' = [wake EXCEPT ![Cpu] = "enter"]
  /\ UNCHANGED <<flags, yielding, pc, at, ready, cpu, outer, work, registered,
                 seen>>

(* YieldScope is dropped and the CPU's poll returns Pending.               *)
LeaveYield ==
  /\ OwnerAt("yield") /\ extra = 0
  /\ yielding' = FALSE /\ cpu' = "yielded"
  /\ NextChild
  /\ UNCHANGED <<flags, ready, extra, outer, work, registered, seen, wake>>

Acknowledge ==
  /\ OwnerAt("ack")
  /\ interrupt' = FALSE /\ pc' = "check"
  /\ UNCHANGED <<runnable, notified, parked, yielding, at, ready, extra, cpu,
                 outer, work, registered, seen, wake>>

(* Mutant: acknowledge() erases the wakes of the poll.                     *)
CheckNothing ==
  /\ OwnerAt("check")
  /\ pc' = "finish"
  /\ UNCHANGED <<flags, yielding, at, ready, extra, cpu, outer, work,
                 registered, seen, wake>>

(* A wake during the poll requests its interrupt again.                    *)
CheckNotified ==
  /\ OwnerAt("check")
  /\ interrupt' = (interrupt \/ notified) /\ pc' = "finish"
  /\ UNCHANGED <<runnable, notified, parked, yielding, at, ready, extra, cpu,
                 outer, work, registered, seen, wake>>

(* Return the root's value, poll again, or go idle.                        *)
FinishPoll ==
  /\ OwnerAt("finish")
  /\ pc' = IF ready THEN "returned" ELSE IF runnable THEN "reset" ELSE "idle"
  /\ ready' = FALSE
  /\ UNCHANGED <<flags, yielding, at, extra, cpu, outer, work, registered,
                 seen, wake>>

(* The poll function of the park: check, register, check again.            *)
CheckIdle ==
  /\ OwnerAt("idle")
  /\ pc' = IF runnable THEN "unpark" ELSE "register"
  /\ UNCHANGED <<flags, yielding, at, ready, extra, cpu, outer, work,
                 registered, seen, wake>>

RegisterParked ==
  /\ OwnerAt("register")
  /\ parked' = TRUE /\ pc' = "recheck"
  /\ UNCHANGED <<runnable, notified, interrupt, yielding, at, ready, extra, cpu,
                 outer, work, registered, seen, wake>>

(* Mutant: no second check of runnable after the registration.             *)
SleepUnchecked ==
  /\ OwnerAt("recheck")
  /\ pc' = "asleep"
  /\ UNCHANGED <<flags, yielding, at, ready, extra, cpu, outer, work,
                 registered, seen, wake>>

RecheckIdle ==
  /\ OwnerAt("recheck")
  /\ pc' = IF runnable THEN "unpark" ELSE "asleep"
  /\ UNCHANGED <<flags, yielding, at, ready, extra, cpu, outer, work,
                 registered, seen, wake>>

(* The outer executor polls the task it was asked to wake (an earlier,     *)
(* unneeded wake of the same task counts: it is a spurious poll).          *)
PollOuter ==
  /\ OwnerAt("asleep") /\ outer
  /\ outer' = FALSE /\ pc' = "idle"
  /\ UNCHANGED <<flags, yielding, at, ready, extra, cpu, work, registered,
                 seen, wake>>

(* ParkRegistration::drop, on resumption.                                  *)
DropRegistration ==
  /\ OwnerAt("unpark")
  /\ parked' = FALSE /\ pc' = "reset"
  /\ UNCHANGED <<runnable, notified, interrupt, yielding, at, ready, extra, cpu,
                 outer, work, registered, seen, wake>>

(* Mutant: a cancellation leaves the outer task's waker behind.            *)
CancelParked ==
  /\ OwnerAt("asleep")
  /\ pc' = "returned"
  /\ UNCHANGED <<flags, yielding, at, ready, extra, cpu, outer, work,
                 registered, seen, wake>>

(* The caller drops the suspended run_until: ParkRegistration::drop runs   *)
(* and the root future is dropped; its wakers may escape and live on.      *)
Cancel ==
  /\ OwnerAt("asleep")
  /\ parked' = FALSE /\ pc' = "returned"
  /\ UNCHANGED <<runnable, notified, interrupt, yielding, at, ready, extra, cpu,
                 outer, work, registered, seen, wake>>

-----------------------------------------------------------------------------
(* The steps the owner thread takes by itself.  The guest's own choices,   *)
(* a new run and a cancellation are not among them.                        *)
OwnerStep ==
  \/ ResetRunnable \/ ResetNotified \/ PollStop
  \/ \E d \in Devices : PollDevice(d)
  \/ PollNewCpu \/ PollWaitingCpu \/ EnterGuest
  \/ GuestCheckpoint \/ YieldAgain \/ LeaveYield
  \/ Acknowledge \/ CheckNotified \/ FinishPoll
  \/ CheckIdle \/ RegisterParked \/ RecheckIdle \/ PollOuter
  \/ DropRegistration

GuestStep == GuestRaise \/ GuestWait \/ GuestExit

Next ==
  \/ OwnerStep \/ GuestStep \/ Start \/ Cancel
  \/ \E s \in Sources : WakeStep(s) \/ Fire(s)

(* The owner thread runs its executor and a wake that began returns.       *)
Fairness ==
  /\ WF_vars(OwnerStep)
  /\ \A s \in Sources : WF_vars(WakeStep(s))

Spec == Init /\ [][Next]_vars
FairSpec == Spec /\ Fairness
-----------------------------------------------------------------------------
(* Type invariant. *)
TypeOK ==
  /\ runnable \in BOOLEAN /\ notified \in BOOLEAN
  /\ parked \in BOOLEAN /\ interrupt \in BOOLEAN
  /\ yielding \in BOOLEAN /\ pc \in OwnerSteps
  /\ at \in 1..(Len(Order) + 1)
  /\ ready \in BOOLEAN /\ extra \in 0..(YieldWakes - 1)
  /\ cpu \in {"new", "yielded", "waiting"} /\ outer \in BOOLEAN
  /\ work \subseteq Sources /\ registered \subseteq Sources
  /\ seen \subseteq Sources /\ wake \in [Sources -> WakeSteps]

(* While run_until is suspended and nobody has asked the outer executor to *)
(* poll it again, every event not yet consumed still has its wake under    *)
(* way and the CPU has not asked for another poll: the check of runnable,  *)
(* the registration and the second check leave no window.                  *)
NoLostWakeup ==
  pc = "asleep" /\ ~outer =>
    /\ \A s \in work : wake[s] # "none"
    /\ cpu = "waiting"

(* While guest code runs and its checkpoints see no signal, every event    *)
(* the root or the stop future has not consumed belongs to a producer that *)
(* is about to raise the signal: neither acknowledge() nor the reset of    *)
(* notified can erase a request that nobody has answered.                  *)
GuestWillCheck ==
  pc = "guest" /\ ~interrupt => \A s \in work : wake[s] \in {"enter", "signal"}

(* The outer task's waker is held only while the run is idle: after a      *)
(* resumption, a return or a cancellation an escaped executor waker keeps  *)
(* no outer task alive ("Register only while idle").                       *)
ParkedOnlyIdle ==
  parked => pc \in {"idle", "register", "recheck", "asleep", "unpark"}

(* An event of a device is consumed unless the run ends first, however     *)
(* long the guest would go on running.                                     *)
WorkIsPolled ==
  \A d \in Devices :
    (d \in work /\ pc # "returned") ~> (d \notin work \/ pc = "returned")

(* A resolved stop future ends the run, whatever the guest does.           *)
StopEndsRun == (Stop \in work /\ pc # "returned") ~> (pc = "returned")

(* Busy execution is not interrupted by its own yields: once no event      *)
(* happens any more, and no combinator repeats the wake of a yield (any    *)
(* such repetition "remains an interrupt request"), either the run ends or *)
(* goes idle, or the guest runs on with no signal raised.                  *)
Quiet == work = {} /\ extra = 0 /\ \A s \in Sources \ {Cpu} : wake[s] = "none"
QuietGuestRuns ==
  <>[]Quiet => <>[](pc = "guest" => ~interrupt)
=============================================================================
