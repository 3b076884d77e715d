---------------------------- MODULE ModuleCache ----------------------------
(***************************************************************************)
(* ModuleCache::get_or_compile (wasm-runtime/src/module_cache.rs): asset   *)
(* slots created under one lock, and compilation under the slot's own      *)
(* lock.  A request may fail or be dropped at any of its awaits; dropping  *)
(* it releases the lock it holds.  A free lock goes to any waiter.         *)
(***************************************************************************)
EXTENDS Naturals

CONSTANTS
  Requests,
  Asset(_),     \* the asset a request wants
  MaxRestarts,  \* bound on requests that start over after an end
  NoModule

ASSUME CacheAssumption == NoModule \notin Requests

Assets == {Asset(r) : r \in Requests}

VARIABLES
  pc,        \* request -> "new", "index", "slot", "compiling", "ok", "failed", "dropped"
  index,     \* the holder of the map's lock, or none: a set of at most one request
  locked,    \* asset -> the holder of its slot's lock
  slots,     \* assets that have a slot
  module,    \* asset -> the module in its slot, by the request that compiled it
  got,       \* request -> the module it returned
  restarts

cacheVars == <<pc, index, locked, slots, module, got, restarts>>

CacheInit ==
  /\ pc = [r \in Requests |-> "new"]
  /\ index = {} /\ locked = [a \in Assets |-> {}]
  /\ slots = {} /\ module = [a \in Assets |-> NoModule]
  /\ got = [r \in Requests |-> NoModule]
  /\ restarts = 0

LockIndex(r) ==
  /\ pc[r] = "new" /\ index = {}
  /\ index' = {r}
  /\ pc' = [pc EXCEPT ![r] = "index"]
  /\ UNCHANGED <<locked, slots, module, got, restarts>>

(* The entry is found or created and the map's lock released.              *)
FindSlot(r) ==
  /\ pc[r] = "index"
  /\ slots' = slots \cup {Asset(r)}
  /\ index' = {}
  /\ pc' = [pc EXCEPT ![r] = "slot"]
  /\ UNCHANGED <<locked, module, got, restarts>>

(* Mutant: the slot is looked at before its lock is taken.                 *)
LockSlotUnchecked(r) ==
  /\ pc[r] = "slot" /\ locked[Asset(r)] = {}
  /\ pc' = [pc EXCEPT ![r] = "compiling"] /\ locked' = [locked EXCEPT ![Asset(r)] = {r}]
  /\ UNCHANGED <<index, slots, module, got, restarts>>

LockSlot(r) ==
  /\ pc[r] = "slot" /\ locked[Asset(r)] = {}
  /\ IF module[Asset(r)] # NoModule
     THEN /\ pc' = [pc EXCEPT ![r] = "ok"]
          /\ got' = [got EXCEPT ![r] = module[Asset(r)]]
          /\ locked' = locked
     ELSE /\ pc' = [pc EXCEPT ![r] = "compiling"]
          /\ locked' = [locked EXCEPT ![Asset(r)] = {r}]
          /\ got' = got
  /\ UNCHANGED <<index, slots, module, restarts>>

CompileSucceeds(r) ==
  /\ pc[r] = "compiling"
  /\ module' = [module EXCEPT ![Asset(r)] = r]
  /\ got' = [got EXCEPT ![r] = r]
  /\ locked' = [locked EXCEPT ![Asset(r)] = {}]
  /\ pc' = [pc EXCEPT ![r] = "ok"]
  /\ UNCHANGED <<index, slots, restarts>>

(* Mutant: a dropped request leaves its locks taken.                       *)
LeaveLocked(r, how) ==
  /\ pc' = [pc EXCEPT ![r] = how]
  /\ UNCHANGED <<index, locked, slots, module, got, restarts>>

(* The lock guard is dropped on the way out of a failed or dropped request.*)
Leave(r, how) ==
  /\ pc' = [pc EXCEPT ![r] = how]
  /\ index' = index \ {r}
  /\ locked' = [a \in Assets |-> locked[a] \ {r}]
  /\ UNCHANGED <<slots, module, got, restarts>>

CompileFails(r) == pc[r] = "compiling" /\ Leave(r, "failed")
Drop(r) == pc[r] \in {"new", "index", "slot", "compiling"} /\ Leave(r, "dropped")

(* A request that got nothing is made again.                               *)
Retry(r) ==
  /\ pc[r] \in {"failed", "dropped"} /\ restarts < MaxRestarts
  /\ pc' = [pc EXCEPT ![r] = "new"]
  /\ restarts' = restarts + 1
  /\ UNCHANGED <<index, locked, slots, module, got>>

Advance(r) == LockIndex(r) \/ FindSlot(r) \/ LockSlot(r) \/ CompileSucceeds(r) \/ CompileFails(r)
Over == \A r \in Requests : pc[r] \in {"ok", "failed", "dropped"}
Ended == Over /\ UNCHANGED cacheVars

CacheNext == (\E r \in Requests : Advance(r) \/ Drop(r) \/ Retry(r)) \/ Ended

(* Every request is polled when its lock or its compiler wakes it.         *)
CacheFairness == \A r \in Requests : WF_cacheVars(Advance(r))

CacheSpec == CacheInit /\ [][CacheNext]_cacheVars
FairCacheSpec == CacheSpec /\ CacheFairness

-----------------------------------------------------------------------------
(* One compilation of an asset succeeds, whichever requests raced, failed  *)
(* or were dropped before it: all that succeed share one module.           *)
OneModulePerAsset ==
  \A r, s \in Requests : pc[r] = "ok" /\ pc[s] = "ok" /\ Asset(r) = Asset(s) => got[r] = got[s]

(* No request waits for good behind one that failed or was dropped.        *)
RequestsEnd == \A r \in Requests : pc[r] = "slot" ~> pc[r] # "slot"

=============================================================================
