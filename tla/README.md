# TLA+ models of Relocade

Relocade runs x86 programs by compiling guest code to WebAssembly. A *machine*
executes one guest CPU next to the devices of a PC (interrupt controller, timer,
keyboard, display, speaker) and the host services of a BIOS and a DOS written in
Rust. Everything that touches the guest runs on one thread, the *execution
owner*, as asynchronous Rust tasks; other threads only wake it.

This directory holds specifications of the parts in which that arrangement, or
the translation itself, can go wrong, the TLC configurations that check them on
small instances, and proofs that TLAPS checks for every instance.
`PROJECT.json` is the index: the components, the runs, the definition-to-line
map, a mutant for each property, the hazards and the theorems. In the map the entry
of an operator takes in the lines of the small helpers only it uses.

Paths below are relative to `crates/`.

## Running

    tlc -workers 2 -config MCExecutor.cfg MCExecutor      one run of PROJECT.json
    tlapm ExecutorProofs.tla                              the proofs of a module

Definitions introduced by a comment "Mutant:" are plausible bugs. Replacing the
definition that follows by its mutant makes TLC find a property violated;
nothing else uses them.

## Inventory

| Component | State | Operations | Interacts with | What makes it correct |
|---|---|---|---|---|
| Worker executor (`wasm-runtime/src/worker/executor.rs`) | four atomics, a parked outer waker, the root future | `run_until`, `yield_now`, wakes from any thread | wake connection, CPU driver (checkpoints), the outer executor | no wake is lost, no request is erased, stop always ends the run, its own yields do not interrupt the guest |
| Wake connection (`worker/wake*`) | shared signal, request flag, relay task, per-thread targets | bind, wake, acknowledge, close | executor, host event loop | every call raises the signal, closing releases the relay |
| Runner, worker, timer service (`machine/src/runner*`, `clock*`) | device activities, stop channel, timer requests | `run_until`, `connect`, `wait_until`, cancel | executor, devices, DOS | one run at a time, devices end with the session, a kept wait completes in time |
| Module cache (`wasm-runtime/src/module_cache.rs`) | one locked slot for each asset | `get_or_compile` | code loading | one compilation at a time for an asset, retry after failure or cancellation |
| CPU driver (`machine/src/runtime/execution*`) | pending call, parked calls, interrupt request, exit request | `run`, `step`, `abandon_suspended_calls`, exit requests | guest code, host handlers, PIC, executor | the parked calls follow the guest's stack, callers are answered once, exits release everything |
| Hooks and dispatch (`machine/src/runtime/dispatch*`) | slots, addresses, service ids, handlers | `install`, `install_module` | CPU driver | a failed batch leaves the old one in force |
| Physical map and device bus (`x86/src/memory/physical*`, `machine/src/memory*`, `io.rs`) | map, A20, device table | guest transfers, host views | devices, guest | guest and host route every byte alike |
| PIC (`pic/src`) | 8259A registers, one waker | commands, lines, `poll_interrupt` | every device, CPU driver | a waiting CPU is told, edges are kept, priorities nest |
| PIT and PC speaker (`pit/src`, `pc-speaker/src`) | counters, deadline, line, sample fraction | registers, `sync_to_clock`, activity, playback | PIC, clock | closed-form arithmetic is counting; IRQ0 is OUT0 whatever the scheduling; no change of the sound is lost |
| AT keyboard, 8042 (`at-keyboard/src`) | registers, scan queue, held keys, exchange | ports, two firmware tasks | PIC, frontend | scan sequences are whole, exchanges survive replacement, traffic drains |
| BIOS keyboard (`bios/src/keyboard*`) | ring in guest memory, one waker | IRQ1, INT 16h, waiting reads | 8042, CPU driver | the ring is a queue, readers are woken, both decoders agree |
| BIOS video, VGA (`bios/src/video*`, `screen*`, `vga/src`) | BIOS data area, registers, planes | services, ports, memory | guest, renderer | saved state restores, output shows what was asked |
| VGA capture and renderer (`vga/src/capture.rs`, `renderer*`) | copy-on-write blocks, dirty pages, shared capture | publish, take, upload | graphics host | the GPU's image is the capture shown |
| DOS memory (`dos/src/memory.rs`) | chain of MCBs in guest memory | allocate, free, resize, reset | programs, process start and exit | live blocks stay put, nothing leaks, damage is detected |
| DOS requests (`dos/src/services`, `state/indos.rs`) | InDOS, waiting calls | INT 21h calls, callbacks, termination | CPU driver, console | the count is balanced, a break is answered |
| DOS files; VFS (`dos/src/files*`, `vfs/src`) | handles, records, tree, searches | INT 21h services, mounts | programs, host | handles and searches survive changes of the tree, failed calls change nothing |
| x86 translation (`x86/src`) | retained fields, lazy flags, x87 bank, access proofs | decoding, instructions, faults, publication | generated code | what is kept lazily is what the architecture has; faulted instructions restart |
| Compiler (`compiler/src`) | value table, path facts | construction, folding, reduction | x86 translation | a folded or reduced function computes the same |
| Frontend, app, bindings, tools | host platform | windows, audio, GPU | keyboard, VGA, speaker | |

The behaviours that are hard here:

* **Threads against one owner.** Wakers run anywhere. The executor's flags are
  set and reset in separate atomic steps; the display and the owner swap one
  pointer.
* **A guest that does not return.** Compiled guest code runs synchronously and
  sees the rest of the system only at checkpoints, through one shared byte.
* **Two stacks.** A host handler that waits is parked while the guest runs
  interrupt handlers, which call further host handlers. The guest's return
  addresses live in guest memory, the parked futures in a Rust vector.
* **State read before a wait.** The timer computes a deadline, then waits while
  the guest reprograms the counter; playback copies counters on its own schedule;
  a BIOS read waits while a nested one takes its waker.
* **Guest-owned data.** DOS keeps its allocation chain and its searches where a
  program can overwrite them; the BIOS keeps its ring and its cursors there.
* **Instructions that stop half-way.** A fault in the middle of a string, stack
  or far-control instruction must leave a state it can restart from.
* **Values kept lazily.** Flags, x87 registers and overlapping state fields are
  written back at exits only; the compiler assumes and forgets what is in the
  upper bits of a carrier.

## Modules

One module is one component, with its constants, state, one action for each
operation, and its properties.

**Coordination**

* `Executor`: one root future polled on the owner's thread and woken from other
  threads. One action is one access to a `SeqCst` atomic, so the steps of
  `run_until` (`ResetRunnable` ... `DropRegistration`) interleave with the four
  steps of every wake. The children are polled in `Order`: devices, which wait
  for another thread's event, and the CPU child, `Runner::run_cpu`, which yields
  once before its first guest entry and then runs guest code until it finds the
  signal raised. `YieldWakes` bounds how often a child's wake reaches the root
  within one `yield_now`. The native wake connection (one store) is part of
  `WakeSignal`.
* `WakeRelay`: the browser's wake connection. Bound threads raise the signal
  themselves, others leave a request and wake a relay task on the host's thread.
  `unanswered` is a history variable for the liveness property.
* `Session`: `ExecutionWorker::run_until` with the stop future and the timer
  driver, the runner's activities, and the waits they share.
* `ModuleCache`: requests with the map's lock and the slot's lock, failing or
  dropped at any await.

**CPU driver**

* `CpuRun`: `Cpu::run`. Its variables are the fields of `Cpu` (`pending`,
  `suspended`, `request` for `interrupt_calls`, `exit`), the receivers of
  interrupt calls (`chan`) and the part of the guest the driver depends on: the
  live position `ip`, the interrupt `frames` on the guest's stack and IF. `pc`
  says where the poll of `run` is: `PollStart` is the entry of its closure,
  `HandlerPoll` a poll of an arbitrary handler, `Deliver...` the outcomes of
  `try_deliver_interrupt`, `Guest...` the guest an instruction at a time,
  `ServiceEntry` and `ResumeEntry` the two host exits, `Release` and
  `ReturnExit` the clean-up. A poll of `run` is synchronous, so the embedding
  acts at `Idle` only. The guest is *stack-disciplined*: it executes anything but
  returns through the frames it pushed; the code asks the embedding to call
  `abandon_suspended_calls` for others. Resume positions carry a tag the code does
  not have; no guard of the driver reads it.
* `HookDispatch`: batches of hooks, service ids, the function table and the rows
  the generated dispatcher searches, with failures at each stage.

**Devices**

* `Pic`: one action for each operation. A byte is the set of its one bits and a
  command the record of its decoded fields. `waker`, `waiting` and `woken` are
  the contract of `poll_interrupt`.
* `Pit`: the counters with the closed forms of `advance`, `next_transition` and
  `next_rising_edge`, and a reference definition not taken from the code, a
  counter clocked once; the device, whose activity waits for a deadline while
  the guest reprograms; and the speaker's playback. A byte is a digit in base
  `Base`.
* `Keyboard8042`: the controller's and the keyboard's firmware tasks, ports, host
  events and the typematic clock.
* `BiosKeyboard`: the ring, IRQ1 with its Ctrl-Break callback, INT 16h and
  nested waiting reads. `KeyQueue` is the bounded queue it implements
  (`QueueIsKept`). The two decoders, of scan codes and of host events, meet in
  `MCKeyboard`.
* `VgaDevice` (registers, DAC, write logic, apertures, and the firmware's
  accesses), `VideoState` (mode sets, palette, save and restore, VBE),
  `GraphicsScreen`, `TextScreen`, and `VgaCapture` (copy-on-write memory, shared
  capture, partial uploads, and the redraws between the graphics host and the
  application's window). `window` holds what the platform shows, the reports winit
  has not delivered, what the application believes (`drawable`), and the hand-over
  of a redraw: `notified` is the flag that coalesces, `asked` the redraw on its way
  through winit, `sending` the main thread between the reset of that flag and
  `force_send`. `Skip`, `Retry`, `DrawNothing` and `TakeLoad` are the outcomes of
  `render::draw`.
* `PhysicalBus`: where generated code and host views send each byte.

**DOS**

* `DosMemory`: one cell for each paragraph. The operations parse the chain out of
  the cells, as the code does. `Store` is the program writing into its own blocks,
  `StoreAnywhere` a stray write.
* `DosRequests`: INT 21h calls that wait for the console, their break and idle
  callbacks, nesting and termination.
* `DosFiles`: handles, shared records, sharing modes, the tree, mounts, searches.

**Translation**

* `Decoders`: the snapshot decoder and the runtime decoder over one catalog.
* `LazyFlags` (integer instructions and what a block retains of flags), `LazyX87`
  (the x87 bank) and `StateFields` (CPU fields that overlap in memory).
* `GuestSpans`, `SpanAccesses`, `StringRepeats`, `StackRestarts`: protected-mode
  accesses, the proofs a path reuses, and the instructions that restart.
* `ExpressionFolding` and `ValueBuilding` (values, bounds, folds, lowering) and
  `ReducedFlow` (path facts and reduction). Their functions call each other
  recursively, so only TLC uses them.

The MC modules put components that answer related questions into one run
(`MCDos` serves two, with a configuration each). The variable `scene` picks, in
the initial state, the one component a behaviour is about; the others rest. A
property of such a run is the conjunction of the component's properties, each of
them about its own scene. A module whose properties are proved is extended, not
instantiated, by its MC module, so that TLC and the prover read one definition;
where several such modules meet (`Session`, `ModuleCache` and `WakeRelay`; `Pic` and
`VgaCapture`; `StateFields` and `LazyFlags`) their specifications have names of their
own (`SessionSpec`, `CacheSpec`, `FieldsSpec`, `CaptureSpec`). `ExecutorProofs`,
`CpuRunProofs`, `BiosKeyboardProofs`, `CoordinationProofs` (`WakeRelay`, `Session`,
`ModuleCache`) and `DeviceProofs` (`Pic`, `VgaCapture`) hold proofs only; the proofs
of `StateFields`, `DosRequests` and `DosFiles` are at the end of the modules.

## Runs

| Run | Scenes and instance | Shows |
|---|---|---|
| `executor` | executor: a device and the CPU, the CPU polled first, `YieldWakes` = 2; display: the graphics host's wait for captures and its window, hidden and shown | `NoLostWakeup`, `GuestWillCheck`; events are consumed, stop ends the run, a quiet guest runs on; a visible window shows every capture or a later one |
| `coordination` | relay: both ends and one peer; session: two devices, two waits; cache: four requests for two assets | no stranded request or relay, waits are served in time by a driver that outlives them, one module for an asset; nobody waits for good |
| `cpu_run` | calls: five invocations, four nested frames; hooks: two hooks and a block | parked calls match the guest's frames, callers are answered, no interrupt is entered for a caller that no longer waits, batches are whole; an exit stops execution, a returned run retains nothing, a stop keeps its calls |
| `devices` | pic: two inputs and every command; timer and speaker: base 2, late wake-ups | no lost interrupt, nesting, closed forms against counting, real edges, ticking |
| `keyboard` | scans and commands on the 8042, the BIOS ring, both decoders side by side | whole sequences and no stuck key, drained traffic, refinement of `KeyQueue`, woken readers, agreement |
| `dos_memory` | memory: five paragraphs, every request size, forged headers inside blocks; stray: arbitrary stray headers; calls: three nested frames | an intact arena, contained damage, an exact InDOS count, an answered ^C |
| `dos_files` | handles on two files, a tree on two drives, two searches of a changing directory | live names, exact searches, contained failures, respected deny modes |
| `x86_state` | integer and decimal instructions, lazy flags, x87 bank, state fields | arithmetic and flags equal independent definitions; what is retained stands for the architectural state |
| `guest_memory` | decoders, spans, strings, stack, bus | both decoders agree; accesses, repeats and restarts are exact; bytes are routed |
| `video` | registers, palette, VBE images, viewport, graphics, text, capture | restores are exact, output is what was asked, uploads show their capture |
| `compiler_folding` | scalar and packed values | every fold computes what the unfolded expression computes |
| `compiler_flow` | nested, switched, looped and packed functions | facts hold on their paths and reduction keeps whole carriers |

Why the bounds are enough to be interesting:

* `executor`: the races are between the owner and one wake, or two wakes of
  different children. The theorems remove the bound on the children. For the
  display one change and two retraces suffice: a capture published while the one
  before it is drawn or skipped. One report of the window's visibility may be
  undelivered at a time (`MaxEvents`), so that the platform and the application
  disagree; hiding, showing, retries and lost devices are not counted.
* `coordination`: one peer suffices for a request to cross the relay's poll; two
  waits and two devices let one end while the other is pending. The theorems hold
  for any number.
* `cpu_run`: the shortest confusion of two parked calls needs two frames with a
  resume position; four leave room for guest handlers between them and for
  positions left behind by an earlier exit. Five identities suffice because each
  live tag needs a frame; they are interchangeable (symmetry, no liveness there).
* `devices`: counts of one to four in base 2 include odd and even periods, the
  illegal count 1 and the full count that zero encodes; being two clocks late at
  divisor two is a whole period. The proofs cover every number of PIC inputs.
* `keyboard`: `ScanLimit` 8 for 16 overflows within two host events; a ring of
  few slots is full and wraps at every place.
* `dos_memory`: five paragraphs hold two blocks with their headers, enough for
  splitting, coalescing on both sides and exact fits.
* `dos_files`: two handles and two files let a duplicated handle outlive a
  deletion; a path one directory too deep is refused (`LongPaths` are the paths
  `change_directory` finds too long); one name that appears or disappears between two steps of a search is
  what an interrupted search can meet.
* `x86_state`: carriers of 16 bits stand for 32 (decimal adjustment keeps its
  widths), an x87 bank of three registers for eight in three steps, a record of
  three bytes with all widths and two run-time spans for the CPU's fields. The
  proof covers records of every size.
* `guest_memory`: pages of 2, 4 or 8 bytes make every boundary reachable. In
  `StackRestarts` a byte is a digit in base 8, a word one byte, a dword two; ENTER
  whose displays overlap is excluded, as the code's comment accepts. In
  `PhysicalBus` A20 is at 16 and transfers have up to three bytes (six from the
  host).
* `video`: four DAC colours, a text memory of 16 cells, two cells cleared, a
  sample of the glyphs and three retraces (the second capture of a page whose
  first was shown, and one more); eleven addresses are more than copies can occupy
  at once; the window stays as it is there (`MaxEvents` 0), since uploads do not
  depend on it; the cursor and font heights are real.
* compiler: a byte has two bits in a carrier of four (lanes: three-bit bytes, two
  or four to a vector), so that garbage, zero and sign bits above a narrow value
  all occur. Constraints, checks, values and proof steps are bounded by 2, 3, 24
  and 8 for 16, 256, 32 and 8.

## Fairness

* `Executor`: the owner's thread and each thread inside a wake keep running
  (`WF` on `OwnerStep` and `WakeStep`). Nothing is assumed of the guest: it may
  run forever, and no event has to happen. Reading the signal at a checkpoint is
  part of `OwnerStep`: generated code tests it at every completed block.
  `QuietGuestRuns` excludes wakes beyond the yield's own, which the code treats
  as requests ("Any additional notification remains an interrupt request").
* `WakeRelay`: calls and drops finish (`WF`). The relay's polls get strong
  fairness: the host's event loop polls queued tasks again and again, but no poll
  is under way while the host itself is inside a call.
* `Session`: time passes, activities get their first poll, the host acts on a stop
  (`WF`); a timer that can ring again and again rings (`SF`).
* `ModuleCache`: a request is polled when its lock or its compiler wakes it (`WF`);
  a free lock goes to any waiter.
* `Pit`: the activity is polled when it is ready and time passes (`WF`).
* `Keyboard8042`: the activity is polled when woken; `TrafficDrains` assumes a
  guest that reads the output register again and again (`SF`).
* `DosRequests`: the innermost waiting call is polled when woken (`WF`).
* `VgaCapture`: the publication, the host's wait, its draws and its recovery go on,
  and the main thread handles the events winit owes it (`WF`). A visible window's
  surface that is asked for a texture again and again has one at last (`SF`): a
  `Retry` asks again, which is all the code can do. Nothing says that a hidden
  window is ever shown or that devices stop being lost.

## Proofs

Theorems hold for every value of the constants that satisfies the named
assumptions, which say only that the constants are well formed (distinct
threads, positive bounds, a polling order without repetitions, natural sizes).
Where the assumption is a definition (`BiosKeyboardAssumption` and others), the
theorem states it as a hypothesis and the MC module assumes it, so that TLC
evaluates it on the instance it checks. Each inductive invariant was checked by
TLC on the run's instance before it was proved.

* **Executor** (`ExecutorProofs`). `NoLostWakeup` is about a sleeping executor,
  but whether it may sleep is decided many steps before. The invariant `IInv`
  adds where the owner is (`Control`), that each child polled in this iteration
  with its event outstanding has its wake under way or recorded (`Registration`,
  `Recorded`), that the CPU's request for another poll is recorded (`Repoll`),
  and what the second check of `runnable` has established (`Sleeping`).
  `GuestWillCheck`, the type invariant and `ParkedOnlyIdle` follow too.
* **WakeRelay** (`CoordinationProofs`). The two safety properties speak of a parked
  relay only. The invariant extends them to every step of its poll: a request or
  close not yet read is always ahead of the read that will find it, because the
  waker is registered first (`Registered`). `UnbindingIsBound` keeps a binding
  from being released twice.
* **CpuRun** (`CpuRunProofs`), for any number of handler invocations and any depth
  of nested interrupts. `ParkedCallsMatchFrames` says that the parked calls are,
  in order, the innermost resume positions among the guest's return addresses and
  the live position, and that any other resume position lies outside all of
  theirs (its call was released by an earlier exit). It is stated with an explicit increasing map from the
  vector of parked calls to the depths of the guest's stack, so that no step needs
  induction over it: `Covered` (a guest frame on top changes nothing), `Parks` (a
  park and its frame extend both stacks) and `Resumes` (the resume byte the guest
  returns to belongs to the last parked call) are the only facts about stacks. The
  inductive invariant adds where a handler may be pending and that its resume
  position is live (`PendingIsLive`), that no call is held twice
  (`CallsAreDistinct`), and that each receiver belongs to a call the driver holds
  (`ReceiversAreHeld`) whose sender is in `interrupt_calls` or parked with it
  (`SendersAreHeld`); without the last two a resumed caller could find its sender
  dropped. `CallersAreAnswered` follows, and with it the code's `expect("interrupt
  caller retained until return")`. The
  action property `EndsAreClean` (an exit once taken executes no more guest code,
  what a run returns retains nothing, and a stop retains the calls) is proved from
  the same invariant.
  `CalledFramesHaveCallers` follows a request beyond its entry. A frame has a history
  field `called`, true when the driver entered it for a handler's request and not
  for an IRQ. The property says that a parked call has a sender exactly when its
  handler still waits, and that a called frame returns to a resume position, whose
  call, if it is still parked, is one that waits. A request outlives a caller that
  selects another future, completes or is released by an exit, and is found by a
  later poll or run; entering for it would leave a frame that answers nobody, or a
  sender nobody hears. Its invariant `CalledInv` adds that a request whose caller
  waits is the pending handler's (`RequestIsPending`) and that no resume position is
  on the stack twice (`TagsAreDistinct`).
* **BiosKeyboard** (`BiosKeyboardProofs`), for every size of the ring. The
  invariant behind `ReadersAreWoken` is that the innermost waiting read has its
  waker stored or was woken (`WakerIsThere`), which is what survives nested reads
  and drops; the ring need not hold valid keystrokes. `QueueIsKept` is the
  refinement of `KeyQueue`: the queue is the words from head to tail, and every
  operation is a step of it or a stutter (`RingImplementsQueue`). Positions wrap at
  most once, so the arithmetic reduces to a subtraction (`Wraps`); what `peek_key`
  skips is the least position holding a keystroke the interface returns, which
  exists by well-foundedness (`Least`, `Skips`); `MoveHead` and `PushAppends` say
  what the two kinds of change do to the queue.
* **Pic** (`DeviceProofs`). Every operation but two goes through `update`, so one
  lemma (`UpdateKeeps`) shows that a waiting CPU holds a waker and sees nothing
  deliverable until it is woken; the poll-mode read is a case of its own. The
  action properties `EdgesAreKept` and `AcknowledgeNests` need the type invariant
  only.
* **StateFields** (in the module). `FieldsAreMemory` says that the fields and the
  backing memory together are the bytes last written. It is inductive only
  together with `NoOverlaps` (two retained definitions share no byte), `Current`
  (a retained value is what was last written to its bytes) and `Backed` (memory is
  current wherever no dirty definition lies). `PlaceBytes`, `StoreBytes` and
  `StoredBytes` are the facts about byte places; `Flushing` says what a partial
  write-back leaves in memory, `SliceOfWritten` what a later read finds, and there
  is one lemma for each action.
* **Session** (`CoordinationProofs`). `WaitsAreServed` joins "the timer driver outlives
  a running session" with "no wait completes before its deadline". The invariant
  says that the host returns only after the session joined (`Joined`) and that a
  finished session leaves nothing pending (`NothingPending`).
* **ModuleCache** (`CoordinationProofs`). `OneModulePerAsset` rests on
  `CompilesAlone`, the request that compiles holds the slot's lock and the slot is
  still empty, and on `GotTheSlot`, what a request returned is what the slot
  holds.
* **VgaCapture** (`DeviceProofs`), for any blocks, pages, values and allocation
  addresses. `ImageShowsTheCapture` compares a drawn image with the memory its
  capture sampled, but the renderer uploads only pages that somebody marked. The
  invariant follows the marks through every hand-over: the live memory differs
  from the last publication on marked pages only (`DirtySinceFrame`), what the
  mailbox and the host's hands hold differs from their baseline on the pages they
  carry and still has its bytes at its addresses although the machine writes on
  (`DirtySinceBaseline`, `FrameIsSound`, `TakenIsSound`: copy on write), a capture
  not yet published is the memory of now (`Sampled`), and the uploaded buffers hold
  the blocks of the capture before, from which the image was drawn (`BufferHolds`,
  `ImageIsDrawn`). Both
  theorems need all of it: a capture dropped, merged or taken in the other order
  changes which baseline the marks are relative to. `CaptureAssumption` says that
  memory starts as zero at an address, that bytes are natural and that a VGA frame
  is one of the kinds. The window's steps and the host's failures change none of
  it (`WindowStep`).
* **DosRequests** (in the module), for any nesting. `InDosIsExact` says that InDOS
  is the number of calls on the stack that are inside DOS. The invariant
  `CallsInv` adds that the stack is a sequence of calls; `AppendCounts`,
  `FrontCounts` and `TopCounts` say what pushing, popping and replacing the top
  call do to the number, so that no step counts over the whole stack. The steps
  that must be exact are the ones that leave DOS without returning: a ^C that
  ends the program, a handler that restarts or abandons the call, and a launch.
* **DosFiles** (in the module), for any names, trees, sharing modes and number of
  handles. `FilesInv` joins `OpenNamesLive` with `SharingHolds`: of two open
  records of one file, if the earlier denies writing then the later cannot write.
  The second is what `conflicts_with` established when the later one was opened;
  it has to be kept by every call that moves, shares or closes handles, since
  `write` does not check again. `DiskIsSound` and `HandlesAreSound` say that
  entries and open records name files that exist. `OpenStep`, `InsertStep` and
  `EntriesStep` reduce the calls to three kinds: records close or move, a record
  is added, names change. From the invariant, `CallsStayContained` shows for every
  step that a length only changes under a right to write and that an error leaves
  disk and handles as they were, also where a call had already chosen a handle or
  a temporary name. `FilesAssumption` says that mounted trees are finite and
  lengths natural.

The run `dos_files` checks the last two theorems in instances of `DosFiles`
(`NamesAreLive`, `CallsAreContained`); the properties they state are the
definitions of the module itself.

Only model-checked:

* liveness (`ExecutorProgresses`, `CapturesAreShown`, `CoordinationProgresses`,
  `TimerKeepsTicking`, `TrafficDrains`, `BreakIsAnswered`): fairness and `ENABLED`
  are outside what the prover supports;
* `TimerIsExact`, `AccessesAreExact`, `OutputIsExact`, `SavedStateIsExact`,
  `IntegersAreExact` and the arithmetic half of `X87IsKept`, which compare a closed
  form or a whole transfer with an iterated definition: they need induction over
  the number of clocks, elements, bytes or steps;
* `ValuesAreExact` and `FlowIsKept`, whose definitions are mutually recursive;
* `DecodersAgree`, which compares two recursive readings of a byte stream, and
  `PathsAgree`, whose invariant relating the two keyboard decoders is not stated;
* the chain of `DosMemory`, which is parsed by recursion out of memory, and so
  `ArenaIsIntact`;
* the other two parts of `NamesAreLive`: `PlacesExist`, because `resolve` folds over
  the parts of a path and the end of a process folds over its records, and
  `SearchIsExact`, which is about what `SelectSeq` keeps of a directory's listing;
* `HooksAreWhole`, where a batch folds over its hooks, and `ScansAreWhole`, where
  a release folds over the held keys;
* `BytesAreRouted`, which compares the bytes of a whole transfer with the routes of
  single ones, and the pending half of `X87IsKept`: first-order, but its invariant
  over the bank and the tags has not been proved.

## Not modelled

* Code generation (placement in locals and emission of Wasm) and the numeric
  results of floating-point and SIMD instructions: relations between unbounded
  programs or numbers.
* Memory orders weaker than `SeqCst`: the code uses none in the parts modelled.
* Panics and unwinding, except where an assertion is a property.
* `CpuRun`: guests that jump away from their frames, register contents, dropping
  the CPU (it releases in the order of `Release` and ends the system).
* `Pit`: channel 1 and multi-byte accesses, which the code ignores; the speaker's
  output queue.
* `DosRequests`: raw console mode, end-of-file marks, the text of an edited line,
  installed drivers. A ^C the host writes while handle 0 names a file is noticed
  at the next wake of the call.
* `DosFiles`: contents are lengths, 8.3 patterns the sets of names they match.
* `Decoders`: rows that differ in the opcode only are grouped; what a form
  executes and whether a CPU offers it are not in this module.
* `ExpressionFolding`, `ReducedFlow`: 16-bit integers (they follow bytes), floats,
  the budget of `compare_choices`, propagation of recorded bounds, the value
  cache and the dominance index. Interning is structural equality and a trap is
  the value `Undefined`.
* `StackRestarts`: LAR, LSL, VERR, VERW, ARPL and the real-mode variants.
* `PhysicalBus`: port dispatch and atomic updates, which route nothing by state.
* Video: the guest-replaceable tables (save pointers, dynamic palette), the
  display combination, `select_scanlines`, information tables and the bell; mode
  11h's forced white. Retraces fall between services. Restores by AH=1Ch are
  claimed when addressing was enabled at save and restore; the sequencer's reset,
  the attribute phase, the DAC component and the latched display start are not in
  the saved block. While a linear or banked VBE mode is active the latches, whose
  scratch byte goes through the bank, are not claimed. Strings do not alias video
  memory. Graphics teletype is graphics output under the cursor rules of
  `TextScreen`.
* `VgaCapture`: closing the window and the application's other phases; sizes other
  than zero or not zero. Suspension, occlusion and an empty window are one flag
  (`drawable`), and `Event::RedrawNeeded` and the `RedrawRequested` it asks winit for
  are one step, since both are dropped by the same test. A window that is shown
  again without any report (none was sent when it was hidden) is assumed to be
  redrawn by the platform: the code does not ask again after a skipped draw.
  Independent readers of a retained capture are left out. What the shaders draw is
  one opaque picture of the uploaded inputs.
* Windowing, audio devices, GPU code, file formats and tables.

Every component left out is listed in `PROJECT.json` with its reason.

## Plan

Components are modelled along the inventory, and what is first-order in their
safety properties is proved. What is left needs induction over data, which the
prover cannot instantiate; the parts worth restating without it come first:
`PlacesExist` with the closing of a process as a set of committed paths, the
pending half of `X87IsKept`, and `InstallsAtomically` with the rows of a batch as a
set.
