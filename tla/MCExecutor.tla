----------------------------- MODULE MCExecutor -----------------------------
(***************************************************************************)
(* Two loops that wait for other threads, one to a behaviour: the worker's *)
(* executor and the graphics host that shows the captures of the VGA.      *)
(* scene says which one runs; the other has ended.                         *)
(***************************************************************************)
EXTENDS Executor

CONSTANT Device

(* "CPU-first composition": the device is polled last.                     *)
CpuFirst == <<Cpu, Device>>

VARIABLES
  scene,
  live, heap, dirty, regs, latched, due, frame, sync, closed,
  waiter, observed, taking, gpu, image, host, window, used

captureVars == <<live, heap, dirty, regs, latched, due, frame, sync, closed,
                 waiter, observed, taking, gpu, image, host, window, used>>

Capture == INSTANCE VgaCapture WITH
  VgaBlocks <- {"v"}, MoreBlocks <- {}, Pages <- {}, Values <- {0}, Kinds <- {"vga"},
  Addresses <- {0}, MaxChanges <- 1, MaxRetraces <- 2, MaxEvents <- 1

(* A display whose device was lost twice, of a VGA that was dropped.       *)
CaptureRests ==
  /\ live = [b \in Capture!Blocks |-> 0] /\ heap = [a \in {0} |-> Capture!Zero] /\ dirty = {}
  /\ regs = [kind |-> "vga", start |-> 0, dac |-> 0] /\ latched = 0 /\ due = FALSE
  /\ frame = Capture!Nothing /\ sync = [at |-> "idle", display |-> Capture!Nothing, loaded |-> Capture!Nothing]
  /\ closed = TRUE /\ waiter = [at |-> "idle", woken |-> FALSE, closed |-> FALSE] /\ observed = 0
  /\ taking = [at |-> "idle", loaded |-> Capture!Nothing] /\ gpu = Capture!Nothing /\ image = Capture!Nothing
  /\ host = [at |-> "failed", request |-> "none", recovery |-> FALSE]
  /\ window = Capture!NoWindow
  /\ used = [changes |-> 2, retraces |-> 2]

MCInit ==
  /\ scene \in {"executor", "display"}
  /\ Init  \* at rest until run_until is called
  /\ IF scene = "display" THEN Capture!CaptureInit ELSE CaptureRests

(* The display may rest for good, once its budget is spent.                *)
MCNext ==
  /\ \/ scene = "executor" /\ Next /\ UNCHANGED captureVars
     \/ scene = "display" /\ (Capture!CaptureNext \/ UNCHANGED captureVars) /\ UNCHANGED vars
  /\ UNCHANGED scene

MCSpec ==
  MCInit /\ [][MCNext]_<<scene, vars, captureVars>> /\ Fairness /\ Capture!CaptureFairness

(* Polls happen: an event of a device is consumed and a resolved stop      *)
(* future ends the run, however long the guest would go on running, and a  *)
(* quiet guest runs on without interruption by its own yields.             *)
ExecutorProgresses == WorkIsPolled /\ StopEndsRun /\ QuietGuestRuns

(* A visible window shows every capture or a later one, unless the host    *)
(* gave up; one skipped while it was hidden is shown when it is visible    *)
(* again.                                                                  *)
CapturesAreShown == Capture!CapturesAreShown
=============================================================================
