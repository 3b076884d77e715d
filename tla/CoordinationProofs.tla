-------------------------- MODULE CoordinationProofs ------------------------
(***************************************************************************)
(* Proofs about the coordination of a run: the browser's wake connection,  *)
(* for any set of peers, the execution session, for any devices and waits, *)
(* and the module cache, for any requests.                                 *)
(***************************************************************************)
EXTENDS WakeRelay, Session, ModuleCache, TLAPS

-----------------------------------------------------------------------------
(* The wake connection: the inductive invariant. *)

(* A live relay task is reachable: its waker is in the cell or it is in    *)
(* the task queue.                                                         *)
Registered == relay # "done" => waiter \/ scheduled

(* NoStrandedRequest, from the exchange on. *)
RequestIsSeen ==
  requested /\ ~scheduled /\ relay \in {"parked", "target", "raise"}
    => \E t \in Threads : call[t] = "wake"

(* NoStrandedRelay, from the load of active on. *)
CloseIsSeen ==
  ~active /\ ~scheduled /\ relay \in {"parked", "exchange", "target", "raise"}
    => \E e \in Ends : end[e] = "waking"

UnbindingIsBound == \A e \in Ends : end[e] = "unbinding" => guards[e] > 0

IInv == TypeOK /\ Registered /\ RequestIsSeen /\ CloseIsSeen /\ UnbindingIsBound

-----------------------------------------------------------------------------
(* The initial state, wake_connection's, satisfies the invariant. *)
LEMMA InitIInv == Init => IInv
  <1>1. SUFFICES ASSUME Init PROVE IInv
    OBVIOUS
  <1>2. /\ guards \in [Threads -> Nat]
        /\ call \in [Threads -> CallSteps]
        /\ end \in [Ends -> EndSteps]
    BY <1>1 DEF Init, CallSteps, EndSteps
  <1>3. TypeOK
    BY <1>1, <1>2 DEF Init, TypeOK, RelaySteps
  <1>4. Registered /\ RequestIsSeen /\ CloseIsSeen
    BY <1>1, Zenon DEF Init, Registered, RequestIsSeen, CloseIsSeen
  <1>5. UnbindingIsBound
    BY <1>1 DEF Init, UnbindingIsBound
  <1> QED
    BY <1>3, <1>4, <1>5 DEF IInv

(* Every step of every thread keeps the types of the connection's state. *)
LEMMA TypeStep == IInv /\ [Next]_vars => TypeOK'
  <1>1. SUFFICES ASSUME IInv, [Next]_vars PROVE TypeOK'
    OBVIOUS
  <1>2. TypeOK /\ UnbindingIsBound
    BY <1>1 DEF IInv
  <1>3. ASSUME NEW t \in Threads, Call(t) \/ CallStep(t) PROVE TypeOK'
    BY <1>2, <1>3 DEF TypeOK, Call, CallStep, CheckTarget, Raise, LoadActive,
       Swap, WakeTask, WakeWaiter, RaiseSignal, CallSteps, flags
  <1>4. CASE RelayStep
    BY <1>2, <1>4 DEF TypeOK, RelayStep, RelayPoll, RelayLoad, RelayExchange,
       RelayTarget, RelayRaise, RelayReady, RaiseSignal, RelaySteps, flags
  <1>5. CASE Bind
    BY <1>2, <1>5 DEF TypeOK, Bind, EndSteps, Ends, Threads, flags
  <1>6. CASE Acknowledge
    BY <1>2, <1>6 DEF TypeOK, Acknowledge
  <1>7. ASSUME NEW p \in Peers, BindPeer(p) \/ UnbindPeer(p) PROVE TypeOK'
    <2>1. p \in Threads
      BY DEF Threads
    <2>2. guards' \in [Threads -> Nat]
      BY <1>2, <1>7, <2>1 DEF TypeOK, BindPeer, UnbindPeer
    <2> QED
      BY <1>2, <1>7, <2>2 DEF TypeOK, BindPeer, UnbindPeer, flags
  <1>8. ASSUME NEW e \in Ends, Close(e) \/ CloseStep(e) PROVE TypeOK'
    <2>1. e \in Threads
      BY DEF Threads
    <2>2. CASE Close(e)
      BY <1>2, <2>2 DEF TypeOK, Close, EndSteps
    <2>3. CASE CloseWake(e)
      BY <1>2, <2>3 DEF TypeOK, CloseWake, WakeWaiter, EndSteps, flags
    <2>4. CASE CloseUnbind(e)
      <3>1. guards' \in [Threads -> Nat]
        BY <1>2, <2>1, <2>4 DEF TypeOK, CloseUnbind, UnbindingIsBound
      <3>2. end' \in [Ends -> EndSteps]
        BY <1>2, <2>4 DEF TypeOK, CloseUnbind, EndSteps
      <3> QED
        BY <1>2, <2>4, <3>1, <3>2 DEF TypeOK, CloseUnbind, flags
    <2> QED
      BY <1>8, <2>2, <2>3, <2>4 DEF CloseStep
  <1>9. CASE UNCHANGED vars
    BY <1>2, <1>9 DEF TypeOK, vars
  <1> QED
    BY <1>1, <1>3, <1>4, <1>5, <1>6, <1>7, <1>8, <1>9 DEF Next

(* Taking the waker out of the cell queues the task it belongs to. *)
LEMMA WakeQueues == ASSUME IInv, WakeWaiter, relay' = relay, relay # "done"
                    PROVE  scheduled'
  BY Zenon DEF IInv, Registered, WakeWaiter

(* A live relay task stays reachable. *)
LEMMA RegisteredStep == IInv /\ [Next]_vars => Registered'
  <1>1. SUFFICES ASSUME IInv, [Next]_vars PROVE Registered'
    OBVIOUS
  <1>2. CASE relay' = relay /\ WakeWaiter
    BY <1>1, <1>2, WakeQueues DEF Registered
  <1>3. CASE relay' = relay /\ UNCHANGED <<waiter, scheduled>>
    BY <1>1, <1>3 DEF IInv, Registered
  <1>4. CASE RelayPoll
    BY <1>4 DEF RelayPoll, Registered
  <1>5. CASE RelayReady
    BY <1>5 DEF RelayReady, Registered
  <1>6. CASE RelayLoad \/ RelayExchange \/ RelayTarget \/ RelayRaise
    BY <1>1, <1>6 DEF IInv, Registered, RelayLoad, RelayExchange, RelayTarget,
       RelayRaise
  <1> QED
    BY <1>1, <1>2, <1>3, <1>4, <1>5, <1>6 DEF Next, CallStep, RelayStep, CloseStep,
       Call, CheckTarget, Raise, LoadActive, Swap, WakeTask, Bind, Acknowledge,
       BindPeer, UnbindPeer, Close, CloseWake, CloseUnbind, vars

(* A pending request keeps its promise of a wake-up. *)
LEMMA RequestStep == IInv /\ [Next]_vars => RequestIsSeen'
  <1>1. SUFFICES ASSUME IInv, [Next]_vars,
                        requested', ~scheduled', relay' \in {"parked", "target", "raise"}
                 PROVE  \E t \in Threads : call'[t] = "wake"
    BY DEF RequestIsSeen
  <1>2. TypeOK /\ RequestIsSeen
    BY <1>1 DEF IInv
  <1>3. CASE UNCHANGED <<requested, scheduled, relay, call>>
    BY <1>1, <1>2, <1>3 DEF RequestIsSeen
  <1>4. ASSUME WakeWaiter, relay' = relay PROVE FALSE
    BY <1>1, <1>4, WakeQueues
  <1>5. ASSUME NEW t \in Threads, Swap(t) PROVE \E u \in Threads : call'[u] = "wake"
    <2>1. CASE ~requested
      BY <1>2, <1>5, <2>1 DEF Swap, TypeOK
    <2>2. CASE requested
      <3>1. PICK u \in Threads : call[u] = "wake"
        BY <1>1, <1>2, <1>5, <2>2 DEF RequestIsSeen, Swap
      <3>2. call'[u] = "wake"
        BY <1>2, <1>5, <3>1 DEF Swap, TypeOK
      <3> QED
        BY <3>2
    <2> QED
      BY <2>1, <2>2
  <1>6. ASSUME NEW t \in Threads, call[t] # "wake",
               UNCHANGED <<requested, scheduled, relay>>,
               \E s \in CallSteps : call' = [call EXCEPT ![t] = s]
        PROVE  \E u \in Threads : call'[u] = "wake"
    <2>1. PICK u \in Threads : call[u] = "wake"
      BY <1>1, <1>2, <1>6 DEF RequestIsSeen
    <2>2. call'[u] = "wake"
      BY <1>2, <1>6, <2>1 DEF TypeOK
    <2> QED
      BY <2>2
  <1>7. ASSUME NEW t \in Threads, Call(t) \/ CallStep(t)
        PROVE  \E u \in Threads : call'[u] = "wake"
    <2>1. CASE Call(t)
      BY <1>6, <2>1, Zenon DEF Call, Free, flags, CallSteps
    <2>2. CASE CheckTarget(t)
      BY <1>6, <2>2 DEF CheckTarget, flags, CallSteps
    <2>3. CASE Raise(t)
      BY <1>6, <2>3 DEF Raise, CallSteps
    <2>4. CASE LoadActive(t)
      BY <1>6, <2>4 DEF LoadActive, flags, CallSteps
    <2>5. CASE WakeTask(t)
      BY <1>4, <2>5 DEF WakeTask
    <2> QED
      BY <1>5, <1>7, <2>1, <2>2, <2>3, <2>4, <2>5 DEF CallStep
  <1>8. CASE RelayStep
    BY <1>1, <1>2, <1>8 DEF RelayStep, RelayPoll, RelayLoad, RelayExchange,
       RelayTarget, RelayRaise, RelayReady, RequestIsSeen, flags
  <1> QED
    BY <1>1, <1>3, <1>4, <1>7, <1>8 DEF Next, CloseStep, Bind, Acknowledge, BindPeer,
       UnbindPeer, Close, CloseWake, CloseUnbind, vars, flags

(* A close keeps its promise of a wake-up. *)
LEMMA CloseSeenStep == IInv /\ [Next]_vars => CloseIsSeen'
  <1>1. SUFFICES ASSUME IInv, [Next]_vars, ~active', ~scheduled',
                        relay' \in {"parked", "exchange", "target", "raise"}
                 PROVE  \E e \in Ends : end'[e] = "waking"
    BY DEF CloseIsSeen
  <1>2. TypeOK /\ CloseIsSeen
    BY <1>1 DEF IInv
  <1>3. CASE UNCHANGED <<active, scheduled, relay, end>>
    BY <1>1, <1>2, <1>3 DEF CloseIsSeen
  <1>4. ASSUME WakeWaiter, relay' = relay PROVE FALSE
    BY <1>1, <1>4, WakeQueues
  <1>5. CASE RelayStep
    BY <1>1, <1>2, <1>5 DEF RelayStep, RelayPoll, RelayLoad, RelayExchange,
       RelayTarget, RelayRaise, RelayReady, CloseIsSeen, flags
  <1>6. ASSUME NEW e \in Ends, Close(e) PROVE end'[e] = "waking"
    BY <1>2, <1>6 DEF Close, TypeOK
  <1>7. ASSUME NEW e \in Ends, end[e] # "waking",
               UNCHANGED <<active, scheduled, relay>>,
               \E s \in EndSteps : end' = [end EXCEPT ![e] = s]
        PROVE  \E f \in Ends : end'[f] = "waking"
    <2>1. PICK f \in Ends : end[f] = "waking"
      BY <1>1, <1>2, <1>7 DEF CloseIsSeen
    <2>2. end'[f] = "waking"
      BY <1>2, <1>7, <2>1 DEF TypeOK
    <2> QED
      BY <2>2
  <1>8. CASE Bind
    BY <1>7, <1>8 DEF Bind, Ends, EndSteps, flags
  <1>9. ASSUME NEW e \in Ends, CloseUnbind(e) PROVE \E f \in Ends : end'[f] = "waking"
    BY <1>7, <1>9 DEF CloseUnbind, EndSteps, flags
  <1> QED
    BY <1>1, <1>3, <1>4, <1>5, <1>6, <1>8, <1>9 DEF Next, CallStep, CloseStep, Call,
       CheckTarget, Raise, LoadActive, Swap, WakeTask, Acknowledge, BindPeer,
       UnbindPeer, CloseWake, vars, flags

(* An end that is dropping its binding still has one. *)
LEMMA UnbindingStep == IInv /\ [Next]_vars => UnbindingIsBound'
  <1>1. SUFFICES ASSUME IInv, [Next]_vars PROVE UnbindingIsBound'
    OBVIOUS
  <1>2. TypeOK /\ UnbindingIsBound
    BY <1>1 DEF IInv
  <1>3. CASE UNCHANGED <<guards, end>>
    BY <1>2, <1>3 DEF UnbindingIsBound
  <1>4. CASE Bind
    BY <1>2, <1>4 DEF Bind, TypeOK, UnbindingIsBound, Ends, Threads
  <1>5. ASSUME NEW p \in Peers, BindPeer(p) \/ UnbindPeer(p) PROVE UnbindingIsBound'
    BY <1>2, <1>5, ThreadsAssumption DEF BindPeer, UnbindPeer, TypeOK,
       UnbindingIsBound, Threads
  <1>6. ASSUME NEW e \in Ends, Close(e) \/ CloseStep(e) PROVE UnbindingIsBound'
    BY <1>2, <1>6 DEF Close, CloseStep, CloseWake, CloseUnbind, TypeOK,
       UnbindingIsBound, Threads
  <1> QED
    BY <1>1, <1>3, <1>4, <1>5, <1>6 DEF Next, CallStep, RelayStep, Call, CheckTarget,
       Raise, LoadActive, Swap, WakeTask, Acknowledge, RelayPoll, RelayLoad,
       RelayExchange, RelayTarget, RelayRaise, RelayReady, vars

(* The invariant holds throughout. *)
LEMMA Invariance == Spec => []IInv
  <1>1. IInv /\ [Next]_vars => IInv'
    BY TypeStep, RegisteredStep, RequestStep, CloseSeenStep, UnbindingStep DEF IInv
  <1> QED
    BY InitIInv, <1>1, PTL DEF Spec

-----------------------------------------------------------------------------
(* Every variable of the connection keeps its type; in particular no       *)
(* thread drops a binding it does not have.                                *)
THEOREM TypeCorrect == Spec => []TypeOK
  <1>1. IInv => TypeOK
    BY DEF IInv
  <1> QED
    BY Invariance, <1>1, PTL

(* No request is left with a parked relay that nobody will wake, for any   *)
(* number of threads that call, bind and unbind.                           *)
THEOREM RequestsAreSeen == Spec => []NoStrandedRequest
  <1>1. IInv => NoStrandedRequest
    BY DEF IInv, RequestIsSeen, NoStrandedRequest
  <1> QED
    BY Invariance, <1>1, PTL

(* No close of either end is missed by a parked relay. *)
THEOREM ClosesAreSeen == Spec => []NoStrandedRelay
  <1>1. IInv => NoStrandedRelay
    BY DEF IInv, CloseIsSeen, NoStrandedRelay
  <1> QED
    BY Invariance, <1>1, PTL

-----------------------------------------------------------------------------
(***************************************************************************)
(* The session.  The driver is dropped with run_until's return, which the  *)
(* end of the session precedes; what is left is that the end is final.     *)
(***************************************************************************)
SessionTypeOK ==
  /\ now \in Nat
  /\ host \in {"running", "stopping", "stopped", "completed"}
  /\ stop \in BOOLEAN /\ stopSignal \in BOOLEAN /\ driver \in BOOLEAN
  /\ session \in {"running", "finished"}
  /\ activity \in [Devices -> {"none", "queued", "started", "completed"}]
  /\ main \in Devices \cup {None}
  /\ timer \in [Waits -> {"idle", "sent", "armed", "rung", "completed", "dropped"}]
  /\ deadline \in [Waits -> Nat]

(* Run_until returned, and dropped the driver, after the session had ended.*)
Joined == ~driver => session = "finished"

(* A session that ended left no wait for the driver to serve.              *)
NothingPending == session = "finished" => Pending = {}

SessionInv == SessionTypeOK /\ Joined /\ NothingPending /\ NeverEarly

(* The session keeps its types and these three facts.                      *)
THEOREM SessionInvariance == SessionSpec => []SessionInv
<1>1. SessionInit => SessionInv
  <2> SUFFICES ASSUME SessionInit PROVE SessionInv
    OBVIOUS
  <2>1. stop \in BOOLEAN /\ stopSignal \in BOOLEAN /\ driver \in BOOLEAN
    BY Zenon DEF SessionInit
  <2>2. Joined /\ NothingPending
    BY DEF SessionInit, Joined, NothingPending
  <2>3. SessionTypeOK /\ NeverEarly
    BY <2>1 DEF SessionInit, SessionTypeOK, NeverEarly
  <2> QED BY <2>2, <2>3 DEF SessionInv
<1>2. SessionInv /\ [SessionNext]_sessionVars => SessionInv'
  <2> SUFFICES ASSUME SessionInv, [SessionNext]_sessionVars PROVE SessionInv'
    OBVIOUS
  <2> USE DEF SessionInv, SessionTypeOK, Joined, NothingPending, NeverEarly, Pending
  <2>1. ASSUME NEW d \in Devices, Connect(d) PROVE SessionInv'
    BY <2>1 DEF Connect
  <2>2. ASSUME NEW d \in Devices, FirstPoll(d) PROVE SessionInv'
    BY <2>2 DEF FirstPoll
  <2>3. CASE Connected \/ AbandonConnect
    BY <2>3 DEF Connected, AbandonConnect
  <2>4. ASSUME NEW w \in Waits, NEW time \in 0..MaxTime, WaitUntil(w, time) PROVE SessionInv'
    BY <2>4 DEF WaitUntil
  <2>5. ASSUME NEW w \in Waits, Completed(w) PROVE SessionInv'
    BY <2>5 DEF Completed
  <2>6. ASSUME NEW w \in Waits, DropWait(w) PROVE SessionInv'
    BY <2>6 DEF DropWait
  <2>7. CASE Finish
    BY <2>7 DEF Finish
  <2>8. ASSUME NEW w \in Waits, TakeRequest(w) PROVE SessionInv'
    BY <2>8 DEF TakeRequest
  <2>9. ASSUME NEW w \in Waits, Ring(w) PROVE SessionInv'
    BY <2>9 DEF Ring
  <2>10. ASSUME NEW w \in Waits, CheckDeadline(w) PROVE SessionInv'
    BY <2>10 DEF CheckDeadline
  <2>11. ASSUME NEW w \in Waits, Cancelled(w) PROVE SessionInv'
    BY <2>11 DEF Cancelled
  <2>12. CASE Tick
    BY <2>12 DEF Tick
  <2>13. CASE StopResolves \/ HostStops
    BY <2>13 DEF StopResolves, HostStops
  <2>14. CASE HostReturns
    BY <2>14 DEF HostReturns
  <2>15. CASE UNCHANGED sessionVars
    BY <2>15 DEF sessionVars
  <2> QED
    BY <2>1, <2>2, <2>3, <2>4, <2>5, <2>6, <2>7, <2>8, <2>9, <2>10, <2>11, <2>12, <2>13, <2>14,
       <2>15 DEF SessionNext, Done
<1> QED BY <1>1, <1>2, PTL DEF SessionSpec

(* However stop, completion and waits race, for any number of waits and    *)
(* devices and however early host timers ring, a running session has its   *)
(* timer driver and no wait completes before its deadline (worker.rs:55,   *)
(* clock/driver.rs:35).                                                    *)
THEOREM SessionIsServed == SessionSpec => []WaitsAreServed
<1>1. SessionInv => WaitsAreServed
  BY DEF SessionInv, SessionTypeOK, Joined, NeverEarly, WaitsAreServed, TimersOutliveTheSession
<1> QED BY <1>1, SessionInvariance, PTL

-----------------------------------------------------------------------------
(***************************************************************************)
(* The cache.  A module in a slot stays, because a request compiles only   *)
(* while it alone holds the lock of a slot that was empty when it looked.  *)
(***************************************************************************)
CacheTypeOK ==
  /\ pc \in [Requests -> {"new", "index", "slot", "compiling", "ok", "failed", "dropped"}]
  /\ index \subseteq Requests /\ slots \subseteq Assets
  /\ locked \in [Assets -> SUBSET Requests]
  /\ module \in [Assets -> Requests \cup {NoModule}]
  /\ got \in [Requests -> Requests \cup {NoModule}]
  /\ restarts \in Nat

(* Who compiles holds the lock alone, and the slot is empty.               *)
CompilesAlone ==
  \A r \in Requests : pc[r] = "compiling" =>
    locked[Asset(r)] = {r} /\ module[Asset(r)] = NoModule

(* Who succeeded has the module in the slot.                               *)
GotTheSlot ==
  \A r \in Requests : pc[r] = "ok" => module[Asset(r)] # NoModule /\ got[r] = module[Asset(r)]

CacheInv == CacheTypeOK /\ CompilesAlone /\ GotTheSlot

(* The cache keeps its types and the two facts above, for any requests.    *)
THEOREM CacheInvariance == CacheSpec => []CacheInv
<1> USE DEF CacheInv, CacheTypeOK, CompilesAlone, GotTheSlot
<1>0. \A r \in Requests : Asset(r) \in Assets
  BY DEF Assets
<1>1. CacheInit => CacheInv
  BY <1>0 DEF CacheInit
<1>2. CacheInv /\ [CacheNext]_cacheVars => CacheInv'
  <2> SUFFICES ASSUME CacheInv, [CacheNext]_cacheVars PROVE CacheInv'
    OBVIOUS
  <2>1. ASSUME NEW r \in Requests, LockIndex(r) PROVE CacheInv'
    BY <1>0, <2>1 DEF LockIndex
  <2>2. ASSUME NEW r \in Requests, FindSlot(r) PROVE CacheInv'
    BY <1>0, <2>2 DEF FindSlot
  <2>3. ASSUME NEW r \in Requests, LockSlot(r) PROVE CacheInv'
    <3>1. CASE module[Asset(r)] # NoModule
      BY <1>0, <2>3, <3>1 DEF LockSlot
    <3>2. CASE module[Asset(r)] = NoModule
      <4>1. CacheTypeOK'
        BY <1>0, <2>3, <3>2 DEF LockSlot
      <4>2. CompilesAlone' /\ GotTheSlot'
        BY <1>0, <2>3, <3>2 DEF LockSlot
      <4> QED BY <4>1, <4>2
    <3> QED BY <3>1, <3>2
  <2>4. ASSUME NEW r \in Requests, CompileSucceeds(r) PROVE CacheInv'
    BY CacheAssumption, <1>0, <2>4 DEF CompileSucceeds
  <2>5. ASSUME NEW r \in Requests, CompileFails(r) \/ Drop(r) PROVE CacheInv'
    BY <1>0, <2>5 DEF CompileFails, Drop, Leave
  <2>6. ASSUME NEW r \in Requests, Retry(r) PROVE CacheInv'
    BY <1>0, <2>6 DEF Retry
  <2>7. CASE UNCHANGED cacheVars
    BY <2>7 DEF cacheVars
  <2> QED BY <2>1, <2>2, <2>3, <2>4, <2>5, <2>6, <2>7 DEF CacheNext, Advance, Ended
<1> QED BY <1>1, <1>2, PTL DEF CacheSpec

(* Whatever requests race, fail, are dropped and tried again, for any      *)
(* number of them, those that succeed for one asset share its module       *)
(* (module_cache.rs:61).                                                   *)
THEOREM ModulesAreShared == CacheSpec => []OneModulePerAsset
<1>1. CacheInv => OneModulePerAsset
  BY DEF CacheInv, GotTheSlot, OneModulePerAsset
<1> QED BY <1>1, CacheInvariance, PTL
=============================================================================
