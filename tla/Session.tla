------------------------------ MODULE Session ------------------------------
(***************************************************************************)
(* One execution session: the host's ExecutionWorker::run_until with its   *)
(* stop future and timer driver (machine/src/runner/worker.rs), the Runner *)
(* on the owner thread with its main activity and device activities        *)
(* (machine/src/runner.rs), and the timer service both sides share         *)
(* (machine/src/clock.rs, clock/driver.rs).                                *)
(*                                                                         *)
(* The executor that polls the activities is Executor's; here it appears   *)
(* as the order it gives them: devices before the main activity, the stop  *)
(* future before both.                                                     *)
(***************************************************************************)
EXTENDS Naturals

CONSTANTS
  Devices,   \* devices the session connects
  Waits,     \* wait_until calls that can be pending at once
  MaxTime,   \* bound on the clock
  Slack,     \* how early a host timer may ring by the session's clock
  None

VARIABLES
  now,
  host,       \* run_until: "running", "stopping", "stopped" (returned None), "completed"
  stop,       \* the caller's stop future has resolved
  stopSignal, \* the worker's stop channel has been sent to
  session,    \* "running" or "finished": everything the session owned is dropped
  driver,     \* the timer driver exists
  activity,   \* device -> "none", "queued", "started", "completed"
  main,       \* the main activity: None, or the device it connects
  timer,      \* wait -> "idle", "sent", "armed", "rung", "completed", "dropped"
  deadline    \* wait -> its deadline

sessionVars == <<now, host, stop, stopSignal, session, driver, activity, main, timer, deadline>>

Pending == {w \in Waits : timer[w] \in {"sent", "armed", "rung"}}

SessionInit ==
  /\ now = 0
  /\ host = "running" /\ stop = FALSE /\ stopSignal = FALSE
  /\ session = "running" /\ driver = TRUE
  /\ activity = [d \in Devices |-> "none"] /\ main = None
  /\ timer = [w \in Waits |-> "idle"] /\ deadline = [w \in Waits |-> 0]

-----------------------------------------------------------------------------
(* The owner thread.  Queued activities are polled before the main one.    *)
Queued == {d \in Devices : activity[d] = "queued"}
MainRuns == session = "running" /\ Queued = {}

Connect(d) ==
  /\ MainRuns /\ main = None /\ activity[d] = "none"
  /\ activity' = [activity EXCEPT ![d] = "queued"]
  /\ main' = d
  /\ UNCHANGED <<now, host, stop, stopSignal, session, driver, timer, deadline>>

(* The first poll of an activity; it may already complete.                 *)
FirstPoll(d) ==
  /\ session = "running" /\ activity[d] = "queued"
  /\ \E state \in {"started", "completed"} : activity' = [activity EXCEPT ![d] = state]
  /\ UNCHANGED <<now, host, stop, stopSignal, session, driver, main, timer, deadline>>

(* connect returns.                                                        *)
Connected ==
  /\ MainRuns /\ main # None
  /\ main' = None
  /\ UNCHANGED <<now, host, stop, stopSignal, session, driver, activity, timer, deadline>>

(* A main activity may also drop the wait for a connection it has queued.  *)
AbandonConnect ==
  /\ session = "running" /\ main # None
  /\ main' = None
  /\ UNCHANGED <<now, host, stop, stopSignal, session, driver, activity, timer, deadline>>

(* TimerHandle::wait_until, by the main activity or a device.              *)
WaitUntil(w, time) ==
  /\ session = "running" /\ timer[w] = "idle"
  /\ timer' = [timer EXCEPT ![w] = "sent"]
  /\ deadline' = [deadline EXCEPT ![w] = time]
  /\ UNCHANGED <<now, host, stop, stopSignal, session, driver, activity, main>>

Completed(w) ==
  /\ session = "running" /\ timer[w] = "completed"
  /\ timer' = [timer EXCEPT ![w] = "idle"]
  /\ UNCHANGED <<now, host, stop, stopSignal, session, driver, activity, main, deadline>>

DropWait(w) ==
  /\ session = "running" /\ w \in Pending
  /\ timer' = [timer EXCEPT ![w] = "dropped"]
  /\ UNCHANGED <<now, host, stop, stopSignal, session, driver, activity, main, deadline>>

(* Mutant: the waits of a finished session are not dropped.                *)
FinishKeepingWaits ==
  /\ session = "running" /\ (stopSignal \/ (Queued = {} /\ main = None))
  /\ session' = "finished"
  /\ activity' = [d \in Devices |-> "completed"] /\ main' = None
  /\ UNCHANGED <<now, host, stop, stopSignal, driver, timer, deadline>>

(* Mutant: the stop future is not polled while a connection is awaited.    *)
FinishWhenIdle ==
  /\ session = "running" /\ Queued = {} /\ main = None
  /\ session' = "finished"
  /\ activity' = [d \in Devices |-> "completed"] /\ main' = None
  /\ timer' = [w \in Waits |-> IF w \in Pending THEN "dropped" ELSE timer[w]]
  /\ UNCHANGED <<now, host, stop, stopSignal, driver, deadline>>

(* The session ends, by its main activity or by the stop signal, and drops *)
(* its activities and every wait they hold on its owner.                   *)
Finish ==
  /\ session = "running"
  /\ stopSignal \/ (Queued = {} /\ main = None)
  /\ session' = "finished"
  /\ activity' = [d \in Devices |-> "completed"] /\ main' = None
  /\ timer' = [w \in Waits |-> IF w \in Pending THEN "dropped" ELSE timer[w]]
  /\ UNCHANGED <<now, host, stop, stopSignal, driver, deadline>>

-----------------------------------------------------------------------------
(* The timer driver: every request is served concurrently.  A cancelled    *)
(* one is let go; a timer that rings early is armed again.                 *)
TakeRequest(w) ==
  /\ driver /\ timer[w] = "sent"
  /\ timer' = [timer EXCEPT ![w] = IF deadline[w] <= now THEN "completed" ELSE "armed"]
  /\ UNCHANGED <<now, host, stop, stopSignal, session, driver, activity, main, deadline>>

Ring(w) ==
  /\ driver /\ timer[w] = "armed" /\ now + Slack >= deadline[w]
  /\ timer' = [timer EXCEPT ![w] = "rung"]
  /\ UNCHANGED <<now, host, stop, stopSignal, session, driver, activity, main, deadline>>

(* Mutant: the timer's ring is taken for the deadline.                     *)
TrustRing(w) ==
  /\ driver /\ timer[w] = "rung"
  /\ timer' = [timer EXCEPT ![w] = "completed"]
  /\ UNCHANGED <<now, host, stop, stopSignal, session, driver, activity, main, deadline>>

CheckDeadline(w) ==
  /\ driver /\ timer[w] = "rung"
  /\ timer' = [timer EXCEPT ![w] = IF deadline[w] <= now THEN "completed" ELSE "armed"]
  /\ UNCHANGED <<now, host, stop, stopSignal, session, driver, activity, main, deadline>>

(* The driver notices that the waiter is gone.                             *)
Cancelled(w) ==
  /\ driver /\ timer[w] = "dropped"
  /\ timer' = [timer EXCEPT ![w] = "idle"]
  /\ UNCHANGED <<now, host, stop, stopSignal, session, driver, activity, main, deadline>>

Tick ==
  /\ now < MaxTime
  /\ now' = now + 1
  /\ UNCHANGED <<host, stop, stopSignal, session, driver, activity, main, timer, deadline>>

-----------------------------------------------------------------------------
(* run_until, polled by the host.                                          *)
StopResolves ==
  /\ ~stop
  /\ stop' = TRUE
  /\ UNCHANGED <<now, host, stopSignal, session, driver, activity, main, timer, deadline>>

(* The stop future is polled before the worker's task: it wins a tie.      *)
HostStops ==
  /\ host = "running" /\ stop
  /\ host' = "stopping"
  /\ stopSignal' = TRUE
  /\ UNCHANGED <<now, stop, session, driver, activity, main, timer, deadline>>

(* Mutant: a stopped worker is not joined.                                 *)
ReturnAtOnce ==
  /\ \/ host = "stopping" /\ host' = "stopped"
     \/ host = "running" /\ ~stop /\ session = "finished" /\ host' = "completed"
  /\ driver' = FALSE
  /\ UNCHANGED <<now, stop, stopSignal, session, activity, main, timer, deadline>>

(* The worker's task has ended; run_until returns and drops the driver.    *)
HostReturns ==
  /\ session = "finished"
  /\ \/ host = "stopping" /\ host' = "stopped"
     \/ host = "running" /\ ~stop /\ host' = "completed"
  /\ driver' = FALSE
  /\ UNCHANGED <<now, stop, stopSignal, session, activity, main, timer, deadline>>

Done == host \in {"stopped", "completed"} /\ UNCHANGED sessionVars

Driver(w) == TakeRequest(w) \/ CheckDeadline(w)

SessionNext ==
  \/ \E d \in Devices : Connect(d) \/ FirstPoll(d)
  \/ Connected \/ AbandonConnect
  \/ \E w \in Waits : (\E time \in 0..MaxTime : WaitUntil(w, time)) \/ Completed(w) \/ DropWait(w)
  \/ Finish
  \/ \E w \in Waits : TakeRequest(w) \/ Ring(w) \/ CheckDeadline(w) \/ Cancelled(w)
  \/ Tick
  \/ StopResolves \/ HostStops \/ HostReturns
  \/ Done

(* The host loop and the timer driver run on a responsive thread; a stop   *)
(* signal ends the session because it interrupts guest execution.          *)
SessionFairness ==
  /\ WF_sessionVars(Tick) /\ WF_sessionVars(HostStops) /\ WF_sessionVars(HostReturns)
  /\ WF_sessionVars(stopSignal /\ Finish)
  /\ \A d \in Devices : WF_sessionVars(FirstPoll(d))
  /\ \A w \in Waits : WF_sessionVars(Driver(w)) /\ SF_sessionVars(Ring(w))

SessionSpec == SessionInit /\ [][SessionNext]_sessionVars
FairSessionSpec == SessionSpec /\ SessionFairness

-----------------------------------------------------------------------------
(* The panics of wait_until cannot happen: while the session runs, its     *)
(* timer driver has not been dropped, however stop, completion and waits   *)
(* race.                                                                   *)
TimersOutliveTheSession == session = "running" => driver

(* A wait completes no earlier than its deadline, though host timers may   *)
(* ring early by the session's clock.                                      *)
NeverEarly == \A w \in Waits : timer[w] = "completed" => deadline[w] <= now

WaitsAreServed == TimersOutliveTheSession /\ NeverEarly

(* Every wait ends: it completes, or its owner drops it.                   *)
WaitsEnd == \A w \in Waits : w \in Pending ~> w \notin Pending

(* A stop ends run_until, also with waits pending and devices connecting.  *)
StopEnds == stop ~> host \in {"stopped", "completed"}

=============================================================================
