------------------------------- MODULE CpuRun -------------------------------
(***************************************************************************)
(* The CPU driver: Cpu::run alternates guest dispatch with polling retained *)
(* Rust host calls (crates/machine/src/runtime/execution.rs and its          *)
(* submodules interrupts and suspended, with call.rs, step.rs and the        *)
(* interrupt stub of real_mode_interrupt.rs).                                *)
(*                                                                         *)
(* A guest interrupt vector may lead to guest code or to a host stub of      *)
(* three bytes: Entry starts an asynchronous Rust handler, Resume asks the   *)
(* driver to continue the most recently parked one, and Iret returns.  While *)
(* a handler is pending, a device IRQ or an interrupt the handler itself     *)
(* calls enters the guest on top of it: the CPU pushes the live position and *)
(* the driver parks the handler.  The driver never records which position    *)
(* belongs to which call: it resumes the top of its stack whenever the guest *)
(* reaches any Resume byte.  The model tags each Resume position with the    *)
(* call that established it, and each frame with whether it was entered for  *)
(* an interrupt call (tags the code does not have), so that the agreement    *)
(* between the guest's stack and the driver's can be stated.                 *)
(*                                                                         *)
(* Guest data, registers other than IF and CS:IP, and vector numbers are     *)
(* abstracted.  The guest is stack-disciplined: it may execute anything but  *)
(* it returns through the frames it pushed.  One step is one handler poll,   *)
(* one guest instruction, one delivery attempt or one release; a poll of run *)
(* is the sequence of them from Idle back to Idle, on one thread.            *)
(***************************************************************************)
EXTENDS Naturals, FiniteSets, SequencesExt

CONSTANTS Calls,      \* identities of handler invocations
          NoCall,     \* no handler
          MaxFrames   \* bound on nested interrupt frames on the guest stack

ASSUME CallsAssumption == NoCall \notin Calls /\ IsFiniteSet(Calls)
ASSUME FramesAssumption == MaxFrames \in Nat \ {0}

VARIABLES
    pending,    \* Cpu::pending, the active host call
    suspended,  \* Cpu::suspended, the parked calls, innermost last
    request,    \* Cpu::interrupt_calls, who asked for an interrupt
    exit,       \* Cpu::exit, the requested exit
    chan,       \* per call, its receiver of the interrupt's completion
    ip,         \* the guest's live position
    frames,     \* the interrupt frames on the guest stack
    interrupts, \* the guest's live IF
    pc,         \* where the driver is
    result      \* what the last poll of run returned

guest == <<ip, frames, interrupts>>
vars == <<pending, suspended, request, exit, chan, guest, pc, result>>

NoExit == "NoExit"
ExitRequests == {"Return", "UnhandledException"}
Positions == [at : {"Code", "Entry", "Iret"}, call : {NoCall}]
             \cup [at : {"Resume"}, call : Calls \cup {NoCall}]
At(kind) == [at |-> kind, call |-> NoCall]
ResumeOf(c) == [at |-> "Resume", call |-> c]

Init ==
    /\ pending = NoCall
    /\ suspended = <<>>
    /\ request = NoCall
    /\ exit = NoExit
    /\ chan = [c \in Calls |-> "Idle"]
    /\ ip = At("Code")
    /\ frames = <<>>
    /\ interrupts \in BOOLEAN
    /\ pc = "Idle"
    /\ result = "Pending"

-----------------------------------------------------------------------------
(* The guest.                                                              *)

\* Interrupt entry: push FLAGS and CS:IP, clear IF and continue at the
\* vector's target, guest code or a host stub.  called tells the entries for
\* a handler's interrupt call from the others.
EnterVector(called) ==
    /\ Len(frames) < MaxFrames
    /\ frames' = Append(frames, [ip |-> ip, interrupts |-> interrupts, called |-> called])
    /\ interrupts' = FALSE
    /\ ip' \in {At("Code"), At("Entry")}

\* IRET.
Iret ==
    /\ ip.at \in {"Code", "Iret"}
    /\ frames # <<>>
    /\ frames' = Front(frames)
    /\ ip' = Last(frames).ip
    /\ interrupts' = Last(frames).interrupts

\* An instruction of ordinary guest code other than INT, IRET or STI.
Ordinary ==
    /\ ip.at = "Code"
    /\ interrupts' \in BOOLEAN
    /\ UNCHANGED <<ip, frames>>

\* A device callback or another holder of the exit handle may request an exit.
MayRequestExit == exit' \in {exit} \cup ExitRequests

\* Poll::Ready(e) for an exit that releases nothing.
Ends(e) ==
    /\ pc' = "Idle"
    /\ result' = e

-----------------------------------------------------------------------------
(* Requests of the handlers.                                               *)

\* Mutant: a cancelled request is not filtered out.
InvocationUnfiltered == request

\* The request left in interrupt_calls, if its caller still waits for it.
Invocation ==
    IF request # NoCall /\ chan[request] = "Waiting" THEN request ELSE NoCall

\* InterruptCalls::call by handler c: its request replaces a cancelled one.
call(c) ==
    /\ request' = c
    /\ chan' = [chan EXCEPT ![c] = "Waiting"]

\* One poll of the pending handler.  It may drop the interrupt call it was
\* waiting for (selecting another future), call another one, wait for a host
\* event with IF either way, complete, and request an exit meanwhile.
HandlerPoll ==
    /\ pc = "Polling"
    /\ MayRequestExit
    /\ \/ /\ chan[pending] = "Waiting"
          /\ request = pending
          /\ UNCHANGED <<pending, request, chan, ip, interrupts>>
       \/ /\ interrupts' \in BOOLEAN
          /\ \/ /\ pending' = NoCall
                /\ ip' = At("Iret")
             \/ UNCHANGED <<pending, ip>>
          /\ chan' = [chan EXCEPT ![pending] = "Idle"]
          /\ request' \in {request, pending}
       \/ /\ call(pending)
          /\ interrupts' \in BOOLEAN
          /\ UNCHANGED <<pending, ip>>
    /\ pc' = "Deliver"
    /\ UNCHANGED <<suspended, frames, result>>

-----------------------------------------------------------------------------
(* The driver.                                                             *)

\* The waiter is polled: an exit requested earlier ends the run, otherwise
\* active work is polled once.
PollStart ==
    /\ pc = "Idle"
    /\ IF exit # NoExit
       THEN /\ pc' = "Return"
            /\ result' = exit
       ELSE /\ pc' = IF pending # NoCall THEN "Polling" ELSE "Deliver"
            /\ UNCHANGED result
    /\ UNCHANGED <<pending, suspended, request, exit, chan, guest>>

\* Mutant: delivery returns the exit without looking whether there is one.
DeliverExitUnasked ==
    /\ pc = "Deliver"
    /\ pc' = "Return"
    /\ result' = exit
    /\ UNCHANGED <<pending, suspended, request, exit, chan, guest>>

\* try_deliver_interrupt with an exit requested.
DeliverExit ==
    /\ pc = "Deliver"
    /\ exit # NoExit
    /\ pc' = "Return"
    /\ result' = exit
    /\ UNCHANGED <<pending, suspended, request, exit, chan, guest>>

\* No interrupt call and no IRQ: wait if a handler is pending, else run the
\* guest.  Devices are asked only while the guest accepts IRQs.
DeliverNothing ==
    /\ pc = "Deliver"
    /\ exit = NoExit
    /\ Invocation = NoCall
    /\ request' = NoCall
    /\ IF interrupts THEN MayRequestExit ELSE UNCHANGED exit
    /\ CASE exit' # NoExit -> pc' = "Return" /\ result' = exit'
         [] exit' = NoExit /\ pending # NoCall -> Ends("Pending")
         [] OTHER -> pc' = "Guest" /\ UNCHANGED result
    /\ UNCHANGED <<pending, suspended, chan, guest>>

\* Mutant: an exit requested while entering is noticed only after parking and
\* running the interrupt handler.
DeliverEntersUnchecked ==
    /\ pc = "Deliver"
    /\ Invocation # NoCall \/ interrupts
    /\ request' = NoCall
    /\ EnterVector(Invocation # NoCall)
    /\ MayRequestExit
    /\ pc' = "Guest"
    /\ pending' = NoCall
    /\ suspended' = IF pending = NoCall THEN suspended
                    ELSE Append(suspended, [call |-> pending,
                                            returned |-> Invocation # NoCall])
    /\ UNCHANGED <<chan, result>>

\* An interrupt call, or an IRQ if IF allows, enters the guest and parks the
\* pending handler.  The sender of the call's completion is parked with it.
DeliverEnters ==
    /\ pc = "Deliver"
    /\ exit = NoExit
    /\ Invocation # NoCall \/ interrupts
    /\ request' = NoCall
    /\ EnterVector(Invocation # NoCall)
    /\ MayRequestExit
    /\ IF exit' # NoExit
       THEN /\ pc' = "Return"
            /\ result' = exit'
            /\ UNCHANGED <<pending, suspended>>
       ELSE /\ pc' = "Guest"
            /\ pending' = NoCall
            /\ suspended' = IF pending = NoCall THEN suspended
                            ELSE Append(suspended, [call |-> pending,
                                          returned |-> Invocation # NoCall])
            /\ UNCHANGED result
    /\ UNCHANGED chan

\* Mutant: the interrupt call whose entry faulted is forgotten.
DeliverFaultsForgets ==
    /\ pc = "Deliver"
    /\ exit = NoExit
    /\ Invocation # NoCall \/ interrupts
    /\ MayRequestExit
    /\ request' = NoCall
    /\ IF exit' # NoExit
       THEN pc' = "Return" /\ result' = exit'
       ELSE Ends("Fault")
    /\ UNCHANGED <<pending, suspended, chan, guest>>

\* Interrupt entry faults: the CPU is untouched and an interrupt call is put
\* back for the next run, unless an exit was requested meanwhile.
DeliverFaults ==
    /\ pc = "Deliver"
    /\ exit = NoExit
    /\ Invocation # NoCall \/ interrupts
    /\ MayRequestExit
    /\ IF exit' # NoExit
       THEN /\ request' = NoCall
            /\ pc' = "Return"
            /\ result' = exit'
       ELSE /\ request' = Invocation
            /\ Ends("Fault")
    /\ UNCHANGED <<pending, suspended, chan, guest>>

\* Guest dispatch: instructions run until one produces an exit.  Restoring a
\* set IF does (InterruptsEnabled); so does a fault delivered to its vector
\* (InterruptEntered).  Both return to interrupt delivery.
GuestExecutes ==
    /\ pc = "Guest"
    /\ MayRequestExit
    /\ \/ /\ Iret \/ Ordinary
          /\ pc' = IF ~interrupts /\ interrupts' THEN "Deliver" ELSE "Guest"
       \/ /\ ip.at = "Code"
          /\ EnterVector(FALSE)
          /\ pc' \in {"Guest", "Deliver"}
    /\ UNCHANGED <<pending, suspended, request, chan, result>>

\* STI or a load of SS (InterruptInhibited): the successor is protected.
GuestInhibits ==
    /\ pc \in {"Guest", "Inhibited"}
    /\ ip.at = "Code"
    /\ pc = "Inhibited" => exit = NoExit
    /\ MayRequestExit
    /\ interrupts' \in {interrupts, TRUE}
    /\ pc' = "Inhibited"
    /\ UNCHANGED <<pending, suspended, request, chan, ip, frames, result>>

\* The protected successor is stepped through the interpreter before any IRQ
\* is polled; an exit requested by the inhibiting instruction skips it.
GuestStepsSuccessor ==
    /\ pc = "Inhibited"
    /\ IF exit # NoExit
       THEN UNCHANGED <<exit, guest>>
       ELSE /\ MayRequestExit
            /\ Iret \/ Ordinary \/ (ip.at = "Code" /\ EnterVector(FALSE))
    /\ pc' = "Deliver"
    /\ UNCHANGED <<pending, suspended, request, chan, result>>

\* A checkpoint or an undelivered fault ends the run and retains every call.
\* An exit requested during the dispatch takes its place.
GuestStops ==
    /\ pc \in {"Guest", "Inhibited"}
    /\ IF exit # NoExit
       THEN pc' = "Deliver" /\ UNCHANGED result
       ELSE Ends("Interrupted") \/ (ip.at \in {"Code", "Iret"} /\ Ends("Fault"))
    /\ UNCHANGED <<pending, suspended, request, exit, chan, guest>>

\* The identities a new invocation may take: not held by a live call and not
\* tagging a position.
FreshCalls ==
    Calls \ ({ip.call} \cup {frames[i].ip.call : i \in DOMAIN frames}
             \cup {suspended[i].call : i \in DOMAIN suspended})

\* Dispatch reaches a stub's entry (HostExit::Call): the adapter advances IP
\* to the resume position and polls the new handler.
ServiceEntry ==
    /\ pc = "Guest"
    /\ ip.at = "Entry"
    /\ IF exit # NoExit
       THEN pc' = "Deliver" /\ UNCHANGED <<pending, ip>>
       ELSE \E c \in FreshCalls :
                /\ pending' = c
                /\ ip' = ResumeOf(c)
                /\ pc' = "Polling"
    /\ UNCHANGED <<suspended, request, exit, chan, frames, interrupts, result>>

\* Mutant: the oldest parked call is resumed.
resume_call_oldest ==
    LET top == Head(suspended)
    IN  /\ pending' = top.call
        /\ suspended' = Tail(suspended)
        /\ chan' = IF top.returned THEN [chan EXCEPT ![top.call] = "Returned"]
                   ELSE chan
        /\ pc' = "Polling"

\* Mutant: the interrupt call is not told that its interrupt returned.
resume_call_silent ==
    /\ pending' = Last(suspended).call
    /\ suspended' = Front(suspended)
    /\ pc' = "Polling"
    /\ UNCHANGED chan

\* resume_call: the innermost parked call is polled again after its
\* interrupt call, if it made one, is told that the interrupt returned.
resume_call ==
    LET top == Last(suspended)
    IN  /\ pending' = top.call
        /\ suspended' = Front(suspended)
        /\ chan' = IF top.returned THEN [chan EXCEPT ![top.call] = "Returned"]
                   ELSE chan
        /\ pc' = "Polling"

\* Dispatch reaches a resume byte (HostExit::Resume).  With nothing parked the
\* exit goes to the embedding.
ResumeEntry ==
    /\ pc = "Guest"
    /\ ip.at = "Resume"
    /\ CASE exit # NoExit ->
                pc' = "Deliver" /\ UNCHANGED <<pending, suspended, chan, result>>
         [] exit = NoExit /\ suspended = <<>> ->
                Ends("Resume") /\ UNCHANGED <<pending, suspended, chan>>
         [] OTHER -> resume_call /\ UNCHANGED result
    /\ UNCHANGED <<request, exit, guest>>

\* Dropping a call drops its receiver; its captures may request an exit.
DropCall(c) ==
    /\ chan' = [chan EXCEPT ![c] = "Idle"]
    /\ MayRequestExit

\* A run that ends with a requested exit drops the pending call, then the
\* parked ones innermost first.
Release ==
    /\ pc = "Return"
    /\ IF pending # NoCall
       THEN /\ DropCall(pending)
            /\ pending' = NoCall
            /\ UNCHANGED suspended
       ELSE /\ suspended # <<>>
            /\ DropCall(Last(suspended).call)
            /\ suspended' = Front(suspended)
            /\ UNCHANGED pending
    /\ UNCHANGED <<request, guest, pc, result>>

\* Mutant: the exit is consumed before the calls are released.
ReturnExitKeeping ==
    /\ pc = "Return"
    /\ pending = NoCall
    /\ suspended = <<>>
    /\ pc' = "Idle"
    /\ UNCHANGED <<pending, suspended, request, exit, chan, guest, result>>

\* ... and consumes the exit, with any request made while releasing.
ReturnExit ==
    /\ pc = "Return"
    /\ pending = NoCall
    /\ suspended = <<>>
    /\ exit' = NoExit
    /\ pc' = "Idle"
    /\ UNCHANGED <<pending, suspended, request, chan, guest, result>>

-----------------------------------------------------------------------------
(* The embedding, between polls.  Dropping the waiter changes nothing.      *)

\* A holder of the exit handle requests an exit.
RequestExit ==
    /\ pc = "Idle"
    /\ exit' \in ExitRequests
    /\ UNCHANGED <<pending, suspended, request, chan, guest, pc, result>>

\* abandon_suspended_calls drops the parked calls and nothing else.
abandon_suspended_calls ==
    /\ pc = "Idle"
    /\ suspended' = <<>>
    /\ chan' = [c \in Calls |-> IF \E i \in DOMAIN suspended : suspended[i].call = c
                                THEN "Idle" ELSE chan[c]]
    /\ IF suspended = <<>> THEN UNCHANGED exit ELSE MayRequestExit
    /\ UNCHANGED <<pending, request, guest, pc, result>>

\* Cpu::step executes one instruction through the interpreter, which sees the
\* NOP bytes of a stub and none of its hooks.  It is refused with calls held.
step ==
    /\ pc = "Idle"
    /\ pending = NoCall
    /\ suspended = <<>>
    /\ MayRequestExit
    /\ \/ Iret
       \/ Ordinary
       \/ ip.at = "Code" /\ EnterVector(FALSE)
       \/ ip.at = "Entry" /\ ip' = ResumeOf(NoCall) /\ UNCHANGED <<frames, interrupts>>
       \/ ip.at = "Resume" /\ ip' = At("Iret") /\ UNCHANGED <<frames, interrupts>>
    /\ UNCHANGED <<pending, suspended, request, chan, pc, result>>

run ==
    \/ PollStart
    \/ HandlerPoll
    \/ DeliverExit
    \/ DeliverNothing
    \/ DeliverEnters
    \/ DeliverFaults
    \/ GuestExecutes
    \/ GuestInhibits
    \/ GuestStepsSuccessor
    \/ GuestStops
    \/ ServiceEntry
    \/ ResumeEntry
    \/ Release
    \/ ReturnExit

Next ==
    \/ run
    \/ RequestExit
    \/ abandon_suspended_calls
    \/ step

Spec == Init /\ [][Next]_vars

-----------------------------------------------------------------------------
(* Properties.                                                             *)

\* Every variable has its type.
TypeOK ==
    /\ pending \in Calls \cup {NoCall}
    /\ suspended \in Seq([call : Calls, returned : BOOLEAN])
    /\ request \in Calls \cup {NoCall}
    /\ exit \in {NoExit} \cup ExitRequests
    /\ chan \in [Calls -> {"Idle", "Waiting", "Returned"}]
    /\ ip \in Positions
    /\ frames \in Seq([ip : Positions, interrupts : BOOLEAN, called : BOOLEAN])
    /\ Len(frames) <= MaxFrames
    /\ interrupts \in BOOLEAN
    /\ pc \in {"Idle", "Polling", "Deliver", "Guest", "Inhibited", "Return"}
    /\ result \in {"Pending", "Interrupted", "Fault", "Resume"} \cup ExitRequests

\* The positions the guest will return through, outermost first, and the live
\* one of a guest with no pending call.
Stacked == [i \in DOMAIN frames |-> frames[i].ip]
Ahead == IF pending = NoCall THEN Append(Stacked, ip) ELSE Stacked

\* Each parked call has its own resume position, in the order of parking, and
\* any other resume position lies outside all of these.
AreInnermostResumes(parked, positions) ==
    \E place \in [DOMAIN parked -> DOMAIN positions] :
        /\ \A i, j \in DOMAIN parked : i < j => place[i] < place[j]
        /\ \A i \in DOMAIN parked : positions[place[i]] = ResumeOf(parked[i].call)
        /\ \A d \in DOMAIN positions : positions[d].at = "Resume" =>
               \/ \E i \in DOMAIN parked : place[i] = d
               \/ \A i \in DOMAIN parked : d < place[i]

\* The driver's stack agrees with the guest's: the parked calls are exactly
\* the innermost resume positions the guest will return through, in order, so
\* popping the top of `suspended` at any resume byte polls the call that
\* established that byte.  Positions further out belong to calls released by
\* an earlier exit, and reach the embedding as HostExit::Resume.
ParkedCallsMatchFrames ==
    pc # "Return" => AreInnermostResumes(suspended, Ahead)

\* A handler that awaits an interrupt call is never polled after its sender
\* was dropped (which would panic with "interrupt caller retained until
\* return"): when it is polled, either its request still waits to enter or
\* the interrupt has returned, through the frame it entered with.
CallersAreAnswered ==
    pc = "Polling" =>
        CASE chan[pending] = "Waiting" -> request = pending
          [] chan[pending] = "Returned" -> ip = ResumeOf(pending)
          [] OTHER -> TRUE

\* An interrupt call enters only for the handler that waits for it.  A request
\* outlives its caller when the handler selects another future, completes, or
\* is released by an exit, and stays in interrupt_calls for a later poll or a
\* later run; whenever that is, it neither enters the guest nor leaves a sender
\* behind.  So the sender parked with a call is that of a receiver still
\* waiting, a parked call that waits has one, and a frame entered for a call
\* returns to a resume byte, which is no handler's that does not wait.
CalledFramesHaveCallers ==
    /\ \A i \in DOMAIN suspended :
           suspended[i].returned <=> chan[suspended[i].call] = "Waiting"
    /\ \A d \in DOMAIN frames : frames[d].called =>
           /\ frames[d].ip.at = "Resume"
           /\ \A i \in DOMAIN suspended :
                  frames[d].ip = ResumeOf(suspended[i].call) => suspended[i].returned

\* Once delivery can see a requested exit nothing more runs: neither the guest
\* nor a handler makes a step, and the run returns that exit.
ExitStopsExecution ==
    [][exit # NoExit /\ pc \in {"Deliver", "Return"} =>
           /\ UNCHANGED guest
           /\ pc' \in {"Return", "Idle"}
           /\ pc' = "Idle" => result' \in ExitRequests]_vars

\* A run that returns a requested exit retains no call, no waiting caller and
\* no exit that would end the next run, even if releasing a call asked again.
ReturnRetainsNothing ==
    [][pc = "Return" /\ pc' = "Idle" =>
           /\ pending' = NoCall
           /\ suspended' = <<>>
           /\ exit' = NoExit
           /\ \A c \in Calls : chan'[c] = "Idle"]_vars

\* Checkpoints, undelivered faults and a host wait keep every call: a run
\* that returns them leaves each retained caller's request able to enter.
StopsRetainCalls ==
    [][pc \notin {"Idle", "Return"} /\ pc' = "Idle" =>
           /\ pending' = pending
           /\ suspended' = suspended
           /\ \A c \in Calls : chan[c] = "Waiting" =>
                  \/ request' = c
                  \/ \E i \in DOMAIN suspended : suspended[i] = [call |-> c, returned |-> TRUE]]_vars

\* However a run ends: at once when an exit was requested, keeping nothing;
\* otherwise with every call it holds.
EndsAreClean == ExitStopsExecution /\ ReturnRetainsNothing /\ StopsRetainCalls
=============================================================================
