------------------------------ MODULE MCCpuRun ------------------------------
(***************************************************************************)
(* The CPU's driver, one mechanism to a behaviour: calls and interrupts,   *)
(* and the hooks that guest addresses dispatch to.  scene says which.      *)
(***************************************************************************)
EXTENDS CpuRun, TLC

CONSTANTS h1, h2, b1, Interpreter, None

\* Invocations are interchangeable.
CallSymmetry == Permutations(Calls)

\* Addresses that collide in the rows.
Addresses == 1..3
Hash(address) == IF address = 3 THEN 0 ELSE 3

VARIABLES
    scene,
    ids, handlers, addresses, nextSlot, capacity, functions, rows, installed

hookVars == <<ids, handlers, addresses, nextSlot, capacity, functions, rows, installed>>

Hooks == INSTANCE HookDispatch WITH
    Handlers <- {h1, h2}, Blocks <- {b1}, MinCapacity <- 3

MCInit == scene \in {"calls", "hooks"} /\ Init /\ Hooks!Init

MCNext ==
    /\ \/ scene = "calls" /\ Next /\ UNCHANGED hookVars
       \/ scene = "hooks" /\ Hooks!Next /\ UNCHANGED vars
    /\ UNCHANGED scene

MCSpec == MCInit /\ [][MCNext]_<<scene, vars, hookVars>>

\* Each address runs what was last installed there, batches as a whole, and
\* a handler that is still held is the behaviour of an address (HookDispatch).
HooksAreWhole == Hooks!InstallsAtomically /\ Hooks!CapturesAreReleased
=============================================================================
