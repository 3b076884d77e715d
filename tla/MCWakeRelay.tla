---------------------------- MODULE MCWakeRelay -----------------------------
(***************************************************************************)
(* The coordination of a run, one mechanism to a behaviour: the browser's  *)
(* wake relay, an execution session with its timers, and the module cache. *)
(* scene says which one a behaviour is about; the others have ended.       *)
(***************************************************************************)
EXTENDS WakeRelay, Session, ModuleCache

(* Three requests race for one asset, another wants a second one.          *)
Asset4(r) == IF r < 4 THEN "interpreter" ELSE "dispatcher"

VARIABLE scene

(* A connection whose ends were dropped and whose relay task has ended.    *)
RelayRests ==
  /\ active = FALSE /\ requested = FALSE /\ signal = FALSE
  /\ waiter = FALSE /\ scheduled = FALSE /\ relay = "done"
  /\ guards = [t \in Threads |-> 0] /\ call = [t \in Threads |-> "idle"]
  /\ end = [e \in Ends |-> "closed"] /\ unanswered = {}

(* A session that completed by itself.                                     *)
SessionRests ==
  /\ now = MaxTime /\ host = "completed" /\ stop = FALSE /\ stopSignal = FALSE
  /\ session = "finished" /\ driver = FALSE
  /\ activity = [d \in Devices |-> "completed"] /\ main = None
  /\ timer = [w \in Waits |-> "idle"] /\ deadline = [w \in Waits |-> 0]

(* A cache whose requests were all dropped.                                *)
CacheRests ==
  /\ pc = [r \in Requests |-> "dropped"] /\ index = {}
  /\ locked = [a \in Assets |-> {}] /\ slots = {}
  /\ module = [a \in Assets |-> NoModule] /\ got = [r \in Requests |-> NoModule]
  /\ restarts = 0

MCInit ==
  /\ scene \in {"relay", "session", "cache"}
  /\ IF scene = "relay" THEN Init ELSE RelayRests
  /\ IF scene = "session" THEN SessionInit ELSE SessionRests
  /\ IF scene = "cache" THEN CacheInit ELSE CacheRests

MCNext ==
  /\ \/ scene = "relay" /\ Next /\ UNCHANGED <<sessionVars, cacheVars>>
     \/ scene = "session" /\ SessionNext /\ UNCHANGED <<vars, cacheVars>>
     \/ scene = "cache" /\ CacheNext /\ UNCHANGED <<vars, sessionVars>>
  /\ UNCHANGED scene

MCSpec ==
  /\ MCInit /\ [][MCNext]_<<scene, vars, sessionVars, cacheVars>>
  /\ Fairness /\ SessionFairness /\ CacheFairness

(* Nobody waits for good: a waker called on an open connection raises the  *)
(* signal unless an end closes, a closed connection's relay task ends and  *)
(* releases its waker; every timer wait ends, and a stop ends run_until    *)
(* whatever is pending; no request for a module waits behind one that      *)
(* failed or was dropped.                                                  *)
CoordinationProgresses ==
  /\ CallsAreAnswered /\ RelayIsReleased
  /\ WaitsEnd /\ StopEnds
  /\ RequestsEnd
=============================================================================
