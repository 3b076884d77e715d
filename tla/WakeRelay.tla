------------------------------ MODULE WakeRelay -----------------------------
(***************************************************************************)
(* The browser's wake connection (crates/wasm-runtime/src/worker/wake.rs,  *)
(* wake/web.rs, wake/web/relay.rs): how a waker called on any thread       *)
(* raises the signal that interrupts busy execution.  A thread bound to    *)
(* the connection raises the signal itself; an unbound one leaves a        *)
(* request that a task on the host thread, the relay, answers.             *)
(*                                                                         *)
(* The flags are SeqCst atomics: one action is one atomic access.  The     *)
(* relay runs on the host thread, so its polls do not overlap the host's   *)
(* own calls.  AtomicWaker is the external cell waiter.                    *)
(***************************************************************************)
EXTENDS Naturals

CONSTANTS
  Host,       \* the thread that opens the connection
  Worker,     \* the thread its endpoint is sent to
  Peers,      \* other threads that hold wakers
  MaxGuards   \* bound on the peer bindings one thread retains

Ends == {Host, Worker}
Threads == Ends \cup Peers

ASSUME ThreadsAssumption == Host # Worker /\ Ends \cap Peers = {}
ASSUME GuardsAssumption == MaxGuards \in Nat \ {0}

VARIABLES
  active,     \* the connection's shared flag
  requested,  \* Relay.requested
  waiter,     \* Relay.waiter holds the relay task's waker
  scheduled,  \* the host's task queue will poll the relay
  relay,      \* the next step of the relay's poll
  signal,     \* the WakeTarget's retained signal
  guards,     \* per thread, live bindings: its TARGETS entry is alive if any
  call,       \* per thread, the next step of Request::wake_by_ref
  end,        \* per end, its Lifetime: unbound or open, the steps of its drop
  unanswered  \* history: threads that called since the signal last rose

flags == <<active, requested, signal>>
vars == <<active, requested, waiter, scheduled, relay, signal, guards, call,
          end, unanswered>>

RelaySteps == {"parked", "load", "exchange", "target", "raise", "ready", "done"}
CallSteps == {"idle", "target", "raise", "load", "swap", "wake"}
EndSteps == {"unbound", "open", "waking", "unbinding", "closed"}

(* wake_connection: the host is bound, the relay is spawned. *)
Init ==
  /\ active = TRUE /\ requested = FALSE /\ signal = FALSE
  /\ waiter = FALSE /\ scheduled = TRUE /\ relay = "parked"
  /\ guards = [t \in Threads |-> IF t = Host THEN 1 ELSE 0]
  /\ call = [t \in Threads |-> "idle"]
  /\ end = [e \in Ends |-> IF e = Host THEN "open" ELSE "unbound"]
  /\ unanswered = {}

(* The thread runs none of the calls below: a thread does one at a time,   *)
(* and the relay's polls are calls of the host's.                          *)
Free(t) ==
  /\ call[t] = "idle"
  /\ t = Host => relay \in {"parked", "done"}
  /\ t \in Ends => end[t] \in {"unbound", "open", "closed"}

(* AtomicWaker::wake takes the registered waker and calls it. *)
WakeWaiter == waiter' = FALSE /\ scheduled' = (scheduled \/ waiter)

RaiseSignal == signal' = TRUE /\ unanswered' = {}

-----------------------------------------------------------------------------
(* A waker is called. *)

(* Request::wake_by_ref looks the connection up in the thread's table. *)
Call(t) ==
  /\ Free(t)
  /\ call' = [call EXCEPT ![t] = IF guards[t] > 0 THEN "target" ELSE "load"]
  /\ unanswered' = unanswered \cup {t}
  /\ UNCHANGED <<flags, waiter, scheduled, relay, guards, end>>

(* LocalTarget.wake checks that the connection is active ... *)
CheckTarget(t) ==
  /\ call[t] = "target"
  /\ call' = [call EXCEPT ![t] = IF active THEN "raise" ELSE "idle"]
  /\ UNCHANGED <<flags, waiter, scheduled, relay, guards, end, unanswered>>

(* ... and raises the signal. *)
Raise(t) ==
  /\ call[t] = "raise"
  /\ call' = [call EXCEPT ![t] = "idle"]
  /\ RaiseSignal
  /\ UNCHANGED <<active, requested, waiter, scheduled, relay, guards, end>>

(* Relay::request: the active flag, ... *)
LoadActive(t) ==
  /\ call[t] = "load"
  /\ call' = [call EXCEPT ![t] = IF active THEN "swap" ELSE "idle"]
  /\ UNCHANGED <<flags, waiter, scheduled, relay, guards, end, unanswered>>

(* Mutant: the previous value is tested the wrong way round. *)
SwapInverted(t) ==
  /\ call[t] = "swap"
  /\ requested' = TRUE
  /\ call' = [call EXCEPT ![t] = IF requested THEN "wake" ELSE "idle"]
  /\ UNCHANGED <<active, signal, waiter, scheduled, relay, guards, end, unanswered>>

(* ... then requested: only the call that sets it wakes the relay, ... *)
Swap(t) ==
  /\ call[t] = "swap"
  /\ requested' = TRUE
  /\ call' = [call EXCEPT ![t] = IF requested THEN "idle" ELSE "wake"]
  /\ UNCHANGED <<active, signal, waiter, scheduled, relay, guards, end, unanswered>>

(* ... if it is parked on waiter. *)
WakeTask(t) ==
  /\ call[t] = "wake"
  /\ WakeWaiter
  /\ call' = [call EXCEPT ![t] = "idle"]
  /\ UNCHANGED <<flags, relay, guards, end, unanswered>>

-----------------------------------------------------------------------------
(* The relay task. *)

(* Mutant: a poll does not renew its registration. *)
RelayPollUnregistered ==
  /\ relay = "parked" /\ scheduled /\ Free(Host)
  /\ scheduled' = FALSE /\ relay' = "load"
  /\ UNCHANGED <<flags, waiter, guards, call, end, unanswered>>

(* A poll registers its waker first, ... *)
RelayPoll ==
  /\ relay = "parked" /\ scheduled /\ Free(Host)
  /\ scheduled' = FALSE /\ waiter' = TRUE /\ relay' = "load"
  /\ UNCHANGED <<flags, guards, call, end, unanswered>>

(* ... ends when the connection has been closed, ... *)
RelayLoad ==
  /\ relay = "load"
  /\ relay' = IF active THEN "exchange" ELSE "ready"
  /\ UNCHANGED <<flags, waiter, scheduled, guards, call, end, unanswered>>

(* ... takes the request, if any, ... *)
RelayExchange ==
  /\ relay = "exchange"
  /\ requested' = FALSE
  /\ relay' = IF requested THEN "target" ELSE "parked"
  /\ UNCHANGED <<active, signal, waiter, scheduled, guards, call, end, unanswered>>

(* ... and wakes the host's target if it is still there and active. *)
RelayTarget ==
  /\ relay = "target"
  /\ relay' = IF guards[Host] > 0 /\ active THEN "raise" ELSE "parked"
  /\ UNCHANGED <<flags, waiter, scheduled, guards, call, end, unanswered>>

RelayRaise ==
  /\ relay = "raise" /\ relay' = "parked"
  /\ RaiseSignal
  /\ UNCHANGED <<active, requested, waiter, scheduled, guards, call, end>>

(* Mutant: the finished task leaves its waker in the cell. *)
RelayReadyKept ==
  /\ relay = "ready" /\ relay' = "done"
  /\ UNCHANGED <<flags, waiter, scheduled, guards, call, end, unanswered>>

(* The finished task drops its Registration, which empties the cell. *)
RelayReady ==
  /\ relay = "ready" /\ relay' = "done"
  /\ waiter' = FALSE
  /\ UNCHANGED <<flags, scheduled, guards, call, end, unanswered>>

-----------------------------------------------------------------------------
(* The ends and the peers. *)

(* WakeEndpoint::bind on the worker's thread. *)
Bind ==
  /\ Free(Worker) /\ end[Worker] = "unbound"
  /\ end' = [end EXCEPT ![Worker] = "open"]
  /\ guards' = [guards EXCEPT ![Worker] = @ + 1]
  /\ UNCHANGED <<flags, waiter, scheduled, relay, call, unanswered>>

(* WakeConnection::acknowledge clears the signal. *)
Acknowledge ==
  /\ Free(Worker) /\ end[Worker] = "open"
  /\ signal' = FALSE
  /\ UNCHANGED <<active, requested, waiter, scheduled, relay, guards, call, end, unanswered>>

(* WakePeer::bind: a further binding shares the thread's local target. *)
BindPeer(p) ==
  /\ Free(p) /\ guards[p] < MaxGuards
  /\ guards' = [guards EXCEPT ![p] = @ + 1]
  /\ UNCHANGED <<flags, waiter, scheduled, relay, call, end, unanswered>>

(* Dropping the last guard drops the local target and its table entry. *)
UnbindPeer(p) ==
  /\ Free(p) /\ guards[p] > 0
  /\ guards' = [guards EXCEPT ![p] = @ - 1]
  /\ UNCHANGED <<flags, waiter, scheduled, relay, call, end, unanswered>>

(* An end is dropped: its Lifetime deactivates the connection, ... *)
Close(e) ==
  /\ Free(e) /\ end[e] \in {"unbound", "open"}
  /\ active' = FALSE
  /\ end' = [end EXCEPT ![e] = "waking"]
  /\ UNCHANGED <<requested, signal, waiter, scheduled, relay, guards, call, unanswered>>

(* Mutant: closing does not wake the relay. *)
CloseWakeSilent(e) ==
  /\ end[e] = "waking"
  /\ end' = [end EXCEPT ![e] = IF guards[e] > 0 THEN "unbinding" ELSE "closed"]
  /\ UNCHANGED <<flags, waiter, scheduled, relay, guards, call, unanswered>>

(* Mutant: an endpoint that never bound is unbound as well. *)
CloseWakeUnbound(e) ==
  /\ end[e] = "waking"
  /\ WakeWaiter
  /\ end' = [end EXCEPT ![e] = "unbinding"]
  /\ UNCHANGED <<flags, relay, guards, call, unanswered>>

(* ... wakes the relay through on_close, ... *)
CloseWake(e) ==
  /\ end[e] = "waking"
  /\ WakeWaiter
  /\ end' = [end EXCEPT ![e] = IF guards[e] > 0 THEN "unbinding" ELSE "closed"]
  /\ UNCHANGED <<flags, relay, guards, call, unanswered>>

(* ... and the end's binding, a field declared later, goes last. *)
CloseUnbind(e) ==
  /\ end[e] = "unbinding"
  /\ guards' = [guards EXCEPT ![e] = @ - 1]
  /\ end' = [end EXCEPT ![e] = "closed"]
  /\ UNCHANGED <<flags, waiter, scheduled, relay, call, unanswered>>

-----------------------------------------------------------------------------
CallStep(t) ==
  CheckTarget(t) \/ Raise(t) \/ LoadActive(t) \/ Swap(t) \/ WakeTask(t)

RelayStep ==
  RelayPoll \/ RelayLoad \/ RelayExchange \/ RelayTarget \/ RelayRaise \/ RelayReady

CloseStep(e) == CloseWake(e) \/ CloseUnbind(e)

Next ==
  \/ \E t \in Threads : Call(t) \/ CallStep(t)
  \/ RelayStep
  \/ Bind \/ Acknowledge
  \/ \E p \in Peers : BindPeer(p) \/ UnbindPeer(p)
  \/ \E e \in Ends : Close(e) \/ CloseStep(e)

Spec == Init /\ [][Next]_vars

(* Calls return, drops finish, and the host, however many wakers it calls, *)
(* goes back to its event loop and polls the tasks queued there (hence SF: *)
(* a poll waits for the host's own call).  Nobody has to call, bind,       *)
(* acknowledge or close.                                                   *)
Fairness ==
  /\ \A t \in Threads : WF_vars(CallStep(t))
  /\ SF_vars(RelayStep)
  /\ \A e \in Ends : WF_vars(CloseStep(e))

FairSpec == Spec /\ Fairness

-----------------------------------------------------------------------------
(* Type invariant. *)
TypeOK ==
  /\ active \in BOOLEAN /\ requested \in BOOLEAN /\ signal \in BOOLEAN
  /\ waiter \in BOOLEAN /\ scheduled \in BOOLEAN
  /\ relay \in RelaySteps
  /\ guards \in [Threads -> Nat]
  /\ call \in [Threads -> CallSteps]
  /\ end \in [Ends -> EndSteps]
  /\ unanswered \in SUBSET Threads

(* A request is never left behind: while one is pending the parked relay   *)
(* is in the task queue, or the caller that must wake it still runs.       *)
NoStrandedRequest ==
  requested /\ relay = "parked" /\ ~scheduled => \E t \in Threads : call[t] = "wake"

(* The relay never sleeps through the close: it is queued once the         *)
(* connection is inactive, or the end that closed it is about to wake it.  *)
NoStrandedRelay ==
  ~active /\ relay = "parked" /\ ~scheduled => \E e \in Ends : end[e] = "waking"

(* A waker called on an open connection raises the signal, whichever       *)
(* thread calls it and whether or not it is bound, unless an end closes.   *)
CallsAreAnswered ==
  \A t \in Threads : t \in unanswered /\ active ~> t \notin unanswered \/ ~active

(* A closed connection's relay task ends and releases the waker that ties  *)
(* the task, the relay and its cell together.                              *)
RelayIsReleased == ~active ~> [](relay = "done" /\ ~waiter)
=============================================================================
