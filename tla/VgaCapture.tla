----------------------------- MODULE VgaCapture -----------------------------
(***************************************************************************)
(* How the VGA's picture reaches the GPU: video memory in shared immutable *)
(* blocks with a map of dirty pages (crates/vga/src/memory/storage.rs,     *)
(* memory/pages.rs), captures at retrace (lib.rs, snapshot.rs), the shared *)
(* frame source (capture.rs) and the renderer that uploads only what the   *)
(* dirty pages name (display.rs, renderer.rs, renderer/memory.rs,          *)
(* renderer/state.rs) in the graphics host's loop                          *)
(* (crates/app/src/graphics/host/worker.rs, render.rs).  The host draws    *)
(* only what the main thread requests for its window                       *)
(* (crates/app/src/graphics/host.rs, application/events.rs, window.rs).    *)
(*                                                                         *)
(* The execution worker writes, syncs and publishes; the graphics owner    *)
(* waits, takes and uploads.  They share one lock-free pointer to the      *)
(* latest capture, which both replace.  A block is known by its address    *)
(* alone: a block nobody else holds is changed in place, and the address   *)
(* of a freed block is used again.                                         *)
(***************************************************************************)
EXTENDS Naturals, Sequences, Functions

CONSTANTS
    VgaBlocks,     \* the blocks of the VGA planes
    MoreBlocks,    \* the blocks only a packed mode captures
    Pages,         \* the pages of a block
    Values,        \* the bytes of a page, or of the DAC
    Kinds,         \* of scanout: "vga", "indexed", "direct"
    Addresses,     \* where blocks are allocated
    MaxChanges,    \* guest operations
    MaxRetraces,
    MaxEvents      \* reports of the window's visibility still to handle; 0: never hidden

Blocks == VgaBlocks \cup MoreBlocks

Nothing == [none |-> TRUE]

ASSUME CaptureAssumption ==
    "none" \notin Blocks /\ 0 \in Values /\ Values \subseteq Nat /\ 0 \in Addresses /\ "vga" \in Kinds

VARIABLES
    live,      \* block to the address that holds it
    heap,      \* address to contents
    dirty,     \* Storage.changed: the <<block, page>> written since a publication
    regs,      \* programming: the scanout's kind, its start, the DAC
    latched,   \* the start address selected at the last retrace
    due,       \* whether a retrace was crossed and not serviced
    frame,     \* FrameSource's capture, or Nothing
    sync,      \* the execution worker inside sync_to_clock
    closed,    \* FrameSource.closed
    waiter,    \* VgaDisplay::service and next_capture
    observed,  \* VgaDisplay.observed_sequence, 0 before the first
    taking,    \* VgaDisplay::encode_image inside take_capture
    gpu,       \* the renderer and its device's buffers, or Nothing
    image,     \* VgaDisplay.frame: what was drawn, or Nothing
    host,      \* the graphics host: where it is, the redraw requested, recovery_allowed
    window,    \* the window and the main thread's side of Graphics
    used       \* [changes, retraces] used so far

guest == <<live, heap, dirty, regs, latched>>
display == <<waiter, observed, taking, gpu, image, host, window>>
captureVars == <<live, heap, dirty, regs, latched, due, frame, sync, closed, waiter, observed,
                 taking, gpu, image, host, window, used>>

Zero == [p \in Pages |-> 0]

(* The addresses a capture keeps alive: its memory and its baseline.       *)
Held(capture) ==
    IF capture = Nothing THEN {}
    ELSE Range(capture.memory)
         \cup (IF capture.changes = Nothing THEN {} ELSE Range(capture.changes.baseline))

Elsewhere ==
    Held(frame) \cup Held(sync.display) \cup Held(sync.loaded)
    \cup Held(taking.loaded)
    \cup (IF gpu = Nothing \/ gpu.previous = Nothing THEN {} ELSE Range(gpu.previous))

(* An address nobody holds; the allocator always has one.                  *)
Free == Addresses \ (Range(live) \cup Elsewhere)
Room == Free # {}
Fresh == CHOOSE address \in Addresses : address \in Free

(* Storage::write: a write that changes nothing is dropped, and            *)
(* Arc::make_mut copies the block unless this is its only owner.           *)
Shared(b) == live[b] \in Elsewhere \/ \E c \in Blocks \ {b} : live[c] = live[b]

StorageWrite(b, p, v) ==
    LET at == IF Shared(b) THEN Fresh ELSE live[b]
    IN IF heap[live[b]][p] = v THEN UNCHANGED <<live, heap, dirty>>
       ELSE /\ Room
            /\ heap' = [heap EXCEPT ![at] = [heap[live[b]] EXCEPT ![p] = v]]
            /\ live' = [live EXCEPT ![b] = at]
            /\ dirty' = dirty \cup {<<b, p>>}

(* Storage::clear: every block is the same new zero block, and all dirty.  *)
StorageClear ==
    /\ Room
    /\ heap' = [heap EXCEPT ![Fresh] = Zero]
    /\ live' = [b \in Blocks |-> Fresh]
    /\ dirty' = Blocks \X Pages

(* Scanout::memory_bytes, Storage::snapshot                                *)
Captured == IF regs.kind = "vga" THEN VgaBlocks ELSE Blocks

(* Vga::snapshot.  The packed layouts have their own origin.               *)
Snapshot(start) ==
    [scanout |-> [kind |-> regs.kind, start |-> IF regs.kind = "vga" THEN start ELSE 0],
     dac |-> regs.dac,
     memory |-> [b \in Captured |-> live[b]],
     changes |-> IF frame = Nothing THEN Nothing
                 ELSE [baseline |-> frame.memory, pages |-> dirty]]

(* DisplaySnapshot::same_inputs: block addresses, not their bytes.         *)
SameInputs(a, b) == a.scanout = b.scanout /\ a.dac = b.dac /\ a.memory = b.memory

(* VgaRenderer::new, GpuMemory::new, GpuState::new                         *)
NewRenderer ==
    [previous |-> Nothing, state |-> Nothing, frame |-> Nothing, buffer |-> [b \in Blocks |-> Nothing]]

-----------------------------------------------------------------------------
(* The registers a guest finds.                                            *)
PowerOn == [kind |-> "vga", start |-> 0, dac |-> 0]

CaptureInit ==
    /\ heap = [a \in Addresses |-> Zero]
    /\ live = [b \in Blocks |-> 0]
    /\ dirty = {}
    /\ regs = PowerOn
    /\ latched = 0
    /\ due = FALSE
    /\ frame = Nothing
    /\ sync = [at |-> "idle", display |-> Nothing, loaded |-> Nothing]
    /\ closed = FALSE
    /\ waiter = [at |-> "idle", woken |-> FALSE, closed |-> FALSE]
    /\ observed = 0
    /\ taking = [at |-> "idle", loaded |-> Nothing]
    /\ gpu = NewRenderer
    /\ image = Nothing
    /\ host = [at |-> "running", request |-> "none", recovery |-> TRUE]
    /\ window = [visible |-> TRUE, events |-> <<>>, drawable |-> TRUE,
                 asked |-> TRUE, notified |-> TRUE, sending |-> "none"]
    /\ used = [changes |-> 0, retraces |-> 0]

(* A guest write to video memory or a port, past its own sync_to_clock.    *)
Changing == sync.at = "idle" /\ ~closed /\ used.changes < MaxChanges

Changed == used' = [used EXCEPT !.changes = @ + 1]

WriteMmio(b, p, v) ==
    /\ Changing
    /\ b \in Captured
    /\ StorageWrite(b, p, v)
    /\ Changed
    /\ UNCHANGED <<regs, latched, due, frame, sync, closed, display>>

WriteStart(value) ==
    /\ Changing
    /\ value # regs.start
    /\ regs' = [regs EXCEPT !.start = value]
    /\ Changed
    /\ UNCHANGED <<live, heap, dirty, latched, due, frame, sync, closed, display>>

WriteDac(value) ==
    /\ Changing
    /\ value # regs.dac
    /\ regs' = [regs EXCEPT !.dac = value]
    /\ Changed
    /\ UNCHANGED <<live, heap, dirty, latched, due, frame, sync, closed, display>>

(* The DISPI enable register: a packed mode may clear all video memory.    *)
WriteEnable(kind, clear) ==
    /\ Changing
    /\ kind # regs.kind
    /\ clear => kind # "vga"
    /\ kind # "vga" => regs.kind = "vga"
    /\ regs' = [regs EXCEPT !.kind = kind]
    /\ IF clear THEN StorageClear ELSE UNCHANGED <<live, heap, dirty>>
    /\ Changed
    /\ UNCHANGED <<latched, due, frame, sync, closed, display>>

(* The raster crosses a retrace.                                           *)
CrossRetrace ==
    /\ ~closed
    /\ used.retraces < MaxRetraces
    /\ due' = TRUE
    /\ used' = [used EXCEPT !.retraces = @ + 1]
    /\ UNCHANGED <<guest, frame, sync, closed, display>>

(* sync_to_clock: latch the start, sample, and publish what differs.  The  *)
(* sampled bytes are kept beside the block addresses as history.           *)
SyncToClock ==
    /\ sync.at = "idle" /\ due /\ ~closed
    /\ due' = FALSE
    /\ LET start == IF regs.kind = "vga" THEN regs.start ELSE latched
           sample == Snapshot(start)
       IN /\ latched' = start
          /\ IF frame # Nothing /\ SameInputs(sample, frame)
             THEN UNCHANGED <<dirty, sync>>
             ELSE /\ dirty' = {}
                  /\ sync' = [at |-> "load", loaded |-> Nothing,
                              display |-> [scanout |-> sample.scanout, dac |-> sample.dac,
                                           memory |-> sample.memory, changes |-> sample.changes,
                                           bytes |-> [b \in Captured |-> heap[live[b]]],
                                           sequence |-> used.retraces]]
    /\ UNCHANGED <<live, heap, regs, frame, closed, display, used>>

(* FrameSource::publish: read, merge the pages nobody took, swap or retry. *)
PublishLoad ==
    /\ sync.at = "load"
    /\ sync' = [sync EXCEPT !.at = "swap", !.loaded = frame]
    /\ UNCHANGED <<guest, due, frame, closed, display, used>>

(* Mutant: the pages of a skipped capture are forgotten.                   *)
MergedLast(new, previous) ==
    IF previous = Nothing \/ previous.changes = Nothing THEN new
    ELSE [new EXCEPT !.changes.baseline = previous.changes.baseline]

Merged(new, previous) ==
    IF previous = Nothing \/ previous.changes = Nothing THEN new
    ELSE [new EXCEPT !.changes =
            [baseline |-> previous.changes.baseline,
             pages |-> new.changes.pages \cup previous.changes.pages]]

PublishSwap ==
    /\ sync.at = "swap"
    /\ IF frame = sync.loaded
       THEN /\ frame' = Merged(sync.display, frame)
            /\ sync' = [at |-> "notify", display |-> Nothing, loaded |-> Nothing]
       ELSE sync' = [sync EXCEPT !.at = "load", !.loaded = Nothing] /\ UNCHANGED frame
    /\ UNCHANGED <<guest, due, closed, display, used>>

(* Mutant: a listener counts only from its await.                          *)
ListenedLate == waiter.at = "waiting"

(* A listener counts from the call to listen.                              *)
Listened == waiter.at # "idle"

Notify ==
    /\ sync.at = "notify"
    /\ sync' = [sync EXCEPT !.at = "idle"]
    /\ waiter' = [waiter EXCEPT !.woken = @ \/ Listened]
    /\ UNCHANGED <<guest, due, frame, closed, observed, taking, gpu, image, host, window, used>>

(* Vga is dropped, and its programming with it: FrameSource::close stores, *)
(* then notifies.                                                          *)
Close ==
    /\ sync.at = "idle" /\ ~closed
    /\ closed' = TRUE
    /\ sync' = [sync EXCEPT !.at = "notify"]
    /\ regs' = PowerOn /\ latched' = 0 /\ due' = FALSE
    /\ used' = [changes |-> 0, retraces |-> 0]
    /\ UNCHANGED <<live, heap, dirty, frame, display>>

-----------------------------------------------------------------------------
(* The window on the main thread.  visible is what the platform shows and  *)
(* what a surface can be acquired for, events its reports of that which    *)
(* winit has not delivered yet.  drawable is what the application knows:   *)
(* neither suspended nor occluded, and of some size.  asked: a redraw is   *)
(* on its way through winit, as the host's Event::RedrawNeeded, which asks *)
(* for a RedrawRequested, or as that.                                      *)

(* Graphics::spawn's notify: notifications coalesce until request_redraw.  *)
NotifyRedrawNeeded ==
    window' = IF window.notified THEN window
              ELSE [window EXCEPT !.notified = TRUE, !.asked = TRUE]

(* A failed host closes the application and its window.                    *)
NoWindow == [visible |-> FALSE, events |-> <<>>, drawable |-> FALSE,
             asked |-> FALSE, notified |-> FALSE, sending |-> "none"]

(* The main thread between two calls.                                      *)
MainIdle == host.at # "failed" /\ window.sending = "none"

OtherThanWindow ==
    UNCHANGED <<guest, due, frame, sync, closed, waiter, observed, taking, gpu, image, host, used>>

(* Event::RedrawNeeded or WindowEvent::RedrawRequested: each is dropped    *)
(* unless the window is drawable.  Graphics::request_redraw resets         *)
(* notified, then sends.                                                   *)
RedrawRequested ==
    /\ MainIdle /\ window.asked
    /\ window' = IF window.drawable
                 THEN [window EXCEPT !.asked = FALSE, !.notified = FALSE, !.sending = "size"]
                 ELSE [window EXCEPT !.asked = FALSE]
    /\ OtherThanWindow

(* WindowEvent::Occluded or Resized, suspended or resumed: a zero size     *)
(* goes to the host, or winit is asked for a redraw.                       *)
VisibilityReported ==
    /\ MainIdle /\ window.events # <<>>
    /\ LET drawable == Head(window.events)
           told == [window EXCEPT !.events = Tail(@), !.drawable = drawable]
       IN window' = IF drawable THEN [told EXCEPT !.asked = TRUE]
                    ELSE [told EXCEPT !.notified = FALSE, !.sending = "zero"]
    /\ OtherThanWindow

(* force_send: the new size replaces one not yet received.                 *)
SendRedraw ==
    /\ host.at # "failed"
    /\ \E size \in {"zero", "size"} :
          window.sending = size /\ host' = [host EXCEPT !.request = size]
    /\ window' = [window EXCEPT !.sending = "none"]
    /\ UNCHANGED <<guest, due, frame, sync, closed, waiter, observed, taking, gpu, image, used>>

(* The platform: the window is hidden, which not every platform reports,   *)
(* is shown again, which it reports or, having reported nothing, follows   *)
(* by a redraw, and is redrawn at any time.                                *)
Reported == IF window.events = <<>> THEN window.drawable ELSE window.events[Len(window.events)]

PlatformActs == host.at # "failed" /\ Len(window.events) < MaxEvents

Hide ==
    /\ PlatformActs /\ window.visible
    /\ \E events \in {window.events, Append(window.events, FALSE)} :
          window' = [window EXCEPT !.visible = FALSE, !.events = events]
    /\ OtherThanWindow

Show ==
    /\ PlatformActs /\ ~window.visible
    /\ window' = IF Reported THEN [window EXCEPT !.visible = TRUE, !.asked = TRUE]
                 ELSE [window EXCEPT !.visible = TRUE, !.events = Append(@, TRUE)]
    /\ OtherThanWindow

WindowRedraw ==
    /\ PlatformActs /\ ~window.asked
    /\ window' = [window EXCEPT !.asked = TRUE]
    /\ OtherThanWindow

-----------------------------------------------------------------------------
(* VgaDisplay::service: next_capture listens before it looks.              *)
Listen ==
    /\ host.at = "running" /\ taking.at = "idle"
    /\ waiter.at = "idle" \/ (waiter.at = "waiting" /\ waiter.woken)
    /\ waiter' = [at |-> "listening", woken |-> FALSE, closed |-> closed]
    /\ UNCHANGED <<guest, due, frame, sync, closed, observed, taking, gpu, image, host, window, used>>

Look ==
    /\ waiter.at = "listening"
    /\ IF frame # Nothing /\ frame.sequence > observed
       THEN /\ observed' = frame.sequence
            /\ NotifyRedrawNeeded
            /\ waiter' = [waiter EXCEPT !.at = "idle", !.woken = FALSE]
       ELSE /\ waiter' = [waiter EXCEPT !.at = IF waiter.closed THEN "ended" ELSE "looked"]
            /\ UNCHANGED <<observed, window>>
    /\ UNCHANGED <<guest, due, frame, sync, closed, taking, gpu, image, host, used>>

Await ==
    /\ waiter.at = "looked"
    /\ waiter' = [waiter EXCEPT !.at = "waiting"]
    /\ UNCHANGED <<guest, due, frame, sync, closed, observed, taking, gpu, image, host, window, used>>

(* A redraw cancels the wait.                                              *)
Cancelled == IF waiter.at = "ended" THEN waiter
             ELSE [waiter EXCEPT !.at = "idle", !.woken = FALSE]

Drawing ==
    /\ host.at = "running" /\ host.request # "none"
    /\ waiter.at \notin {"listening", "looked"} /\ taking.at = "idle"

(* render::draw of a zero size, or of a surface the platform occludes:     *)
(* DrawOutcome::Skipped, after which nothing is asked for.                 *)
Skip ==
    /\ Drawing /\ (host.request = "zero" \/ ~window.visible)
    /\ host' = [host EXCEPT !.request = "none"]
    /\ waiter' = Cancelled
    /\ UNCHANGED <<guest, due, frame, sync, closed, observed, taking, gpu, image, window, used>>

(* The surface has no texture yet: DrawOutcome::Retry asks again.          *)
Retry ==
    /\ Drawing /\ host.request = "size"
    /\ host' = [host EXCEPT !.request = "none"]
    /\ waiter' = Cancelled
    /\ NotifyRedrawNeeded
    /\ UNCHANGED <<guest, due, frame, sync, closed, observed, taking, gpu, image, used>>

(* Nothing was captured yet: a black window is presented.                  *)
DrawNothing ==
    /\ Drawing /\ host.request = "size" /\ frame = Nothing
    /\ host' = [host EXCEPT !.request = "none", !.recovery = TRUE]
    /\ waiter' = Cancelled
    /\ UNCHANGED <<guest, due, frame, sync, closed, observed, taking, gpu, image, window, used>>

(* render::draw, VgaDisplay::encode_image: take_capture reads, empties the *)
(* pages, and swaps or retries.                                            *)
TakeLoad ==
    /\ \/ Drawing /\ host.request = "size"
       \/ taking.at = "retry"
    /\ frame # Nothing
    /\ taking' = [at |-> "swap", loaded |-> frame]
    /\ host' = [host EXCEPT !.request = IF taking.at = "idle" THEN "none" ELSE @]
    /\ waiter' = Cancelled
    /\ UNCHANGED <<guest, due, frame, sync, closed, observed, gpu, image, window, used>>

TakeSwap ==
    /\ taking.at = "swap"
    /\ IF frame = taking.loaded
       THEN /\ frame' = [frame EXCEPT !.changes = [baseline |-> frame.memory, pages |-> {}]]
            /\ taking' = [taking EXCEPT !.at = "upload"]
       ELSE taking' = [at |-> "retry", loaded |-> Nothing] /\ UNCHANGED frame
    /\ UNCHANGED <<guest, due, sync, closed, waiter, observed, gpu, image, host, window, used>>

(* write_blocks: a block the buffer already holds is skipped, one whose    *)
(* baseline it holds goes by dirty pages, any other goes in full.          *)
Holds(memory, b, address) ==
    memory # Nothing /\ b \in DOMAIN memory /\ memory[b] = address

Skipped(capture, b) == Holds(gpu.previous, b, capture.memory[b])

ByPages(capture, b) ==
    /\ gpu.previous # Nothing /\ b \in DOMAIN gpu.previous
    /\ capture.changes # Nothing
    /\ Holds(capture.changes.baseline, b, gpu.previous[b])

Uploaded(capture, b) ==
    LET bytes == heap[capture.memory[b]]
    IN CASE Skipped(capture, b) -> gpu.buffer[b]
         [] ~Skipped(capture, b) /\ ByPages(capture, b) ->
              [p \in Pages |-> IF <<b, p>> \in capture.changes.pages THEN bytes[p]
                               ELSE gpu.buffer[b][p]]
         [] OTHER -> bytes

Written(capture, b) ==
    /\ ~Skipped(capture, b)
    /\ ByPages(capture, b) => \E p \in Pages : <<b, p>> \in capture.changes.pages

(* GpuState::upload: settings always, the DAC only where colors are        *)
(* indices.                                                                *)
UploadedState(capture) ==
    [scanout |-> capture.scanout,
     dac |-> IF capture.scanout.kind = "direct"
             THEN IF gpu.state = Nothing THEN Nothing ELSE gpu.state.dac
             ELSE capture.dac]

(* What a decode of the buffers shows.                                     *)
Picture(state, buffer, memory) ==
    [scanout |-> state.scanout,
     dac |-> IF state.scanout.kind = "direct" THEN Nothing ELSE state.dac,
     bytes |-> [b \in DOMAIN memory |-> buffer[b]]]

(* VgaRenderer::upload and encode, and the presentation; a decode is       *)
(* skipped when nothing that is drawn changed.                             *)
Upload ==
    /\ taking.at = "upload"
    /\ LET capture == taking.loaded
           buffer == [b \in Blocks |->
                        IF b \in DOMAIN capture.memory THEN Uploaded(capture, b)
                        ELSE gpu.buffer[b]]
           state == UploadedState(capture)
           changed == \/ gpu.frame = Nothing \/ gpu.frame.scanout # capture.scanout
                      \/ \E b \in DOMAIN capture.memory : Written(capture, b)
                      \/ gpu.state # state
       IN /\ gpu' = [previous |-> capture.memory, state |-> state, buffer |-> buffer,
                     frame |-> [scanout |-> capture.scanout, sequence |-> capture.sequence]]
          /\ observed' = capture.sequence
          /\ image' = IF changed \/ image = Nothing
                      THEN Picture(state, buffer, capture.memory) ELSE image
    /\ taking' = [at |-> "idle", loaded |-> Nothing]
    /\ host' = [host EXCEPT !.recovery = TRUE]
    /\ UNCHANGED <<guest, due, frame, sync, closed, waiter, window, used>>

(* The host stops drawing, and keeps no device.                            *)
Failing ==
    /\ taking.at = "idle" /\ waiter.at \notin {"listening", "looked"}
    /\ gpu' = Nothing
    /\ image' = Nothing
    /\ waiter' = Cancelled
    /\ window' = IF host'.at = "failed" THEN NoWindow ELSE window
    /\ UNCHANGED <<guest, due, frame, sync, closed, observed, taking, used>>

(* The device is lost, or the surface in a draw, which has taken its       *)
(* request; a second time before anything was presented ends the host.     *)
DeviceLost ==
    /\ host.at = "running"
    /\ \E request \in {host.request} \cup (IF host.request = "size" THEN {"none"} ELSE {}) :
          host' = [at |-> IF host.recovery THEN "lost" ELSE "failed", request |-> request,
                   recovery |-> FALSE]
    /\ Failing

(* Failure::Fatal, or no device can be created in place of a lost one.     *)
GiveUp ==
    /\ host.at # "failed"
    /\ host' = [at |-> "failed", request |-> "none", recovery |-> FALSE]
    /\ Failing

AttachDevice ==
    /\ host.at = "lost"
    /\ gpu' = NewRenderer
    /\ host' = [host EXCEPT !.at = "running"]
    /\ NotifyRedrawNeeded
    /\ UNCHANGED <<guest, due, frame, sync, closed, waiter, observed, taking, image, used>>

WorkerActs ==
    \/ SyncToClock \/ PublishLoad \/ PublishSwap \/ Notify

GuestActs ==
    \/ \E b \in Blocks, p \in Pages, v \in Values : WriteMmio(b, p, v)
    \/ \E value \in {0, 1} : WriteStart(value)
    \/ \E value \in Values : WriteDac(value)
    \/ \E kind \in Kinds, clear \in BOOLEAN : WriteEnable(kind, clear)
    \/ CrossRetrace
    \/ Close

DisplayActs ==
    \/ Listen \/ Look \/ Await \/ Skip \/ Retry \/ DrawNothing \/ TakeLoad \/ TakeSwap \/ Upload
    \/ DeviceLost \/ GiveUp \/ AttachDevice

WindowActs ==
    \/ RedrawRequested \/ VisibilityReported \/ SendRedraw
    \/ Hide \/ Show \/ WindowRedraw

CaptureNext == WorkerActs \/ GuestActs \/ DisplayActs \/ WindowActs

(* The three threads run: the host's race is fair to the wait and to a     *)
(* redraw, a swap that lost is repeated, and winit's event loop delivers   *)
(* each event it owes.  A visible window's surface that is asked for a     *)
(* texture again and again has one at last; nothing says that a window is  *)
(* ever shown, or that a device is not lost again.                         *)
CaptureFairness ==
    /\ WF_captureVars(WorkerActs)
    /\ WF_captureVars((Listen \/ Look \/ Await))
    /\ WF_captureVars((Skip \/ Retry \/ DrawNothing \/ TakeLoad))
    /\ SF_captureVars(window.visible /\ (DrawNothing \/ TakeLoad))
    /\ WF_captureVars((TakeSwap \/ Upload))
    /\ WF_captureVars(AttachDevice)
    /\ WF_captureVars((RedrawRequested \/ SendRedraw))
    /\ WF_captureVars(VisibilityReported)

CaptureSpec == CaptureInit /\ [][CaptureNext]_captureVars

FairCaptureSpec == CaptureSpec /\ CaptureFairness

-----------------------------------------------------------------------------
(* Whatever was skipped, copied, changed in place, cleared or lost between *)
(* two redraws, encode_image leaves the image of the bytes that video      *)
(* memory held when the capture it took was sampled: the pages it did not  *)
(* upload and a decode it did not repeat would have changed nothing, and   *)
(* no later write reached a block the capture shares (Storage::write,      *)
(* write_blocks, VgaRenderer::upload).                                     *)
ImageShowsTheCapture ==
    [][taking.at = "upload" /\ taking'.at = "idle" =>
         LET capture == taking.loaded
         IN image' = Picture([scanout |-> capture.scanout, dac |-> capture.dac],
                             capture.bytes, capture.memory)]_captureVars

(* A visible window shows every capture or a later one: whatever           *)
(* notifications, coalesced requests, replaced sizes, retries, skipped     *)
(* draws, cancelled waits and lost devices race, unless the host gave up.  *)
(* While the window is hidden draws are skipped and show nothing, but a    *)
(* capture skipped then is still the latest one when the window is shown   *)
(* again, and must be shown from there on as well                          *)
(* (FrameSource::next_capture, the host's loop, Graphics::request_redraw,  *)
(* Application::window_event).                                             *)
CapturesAreShown ==
    \A s \in 1..MaxRetraces :
        (frame # Nothing /\ frame.sequence = s) ~>
            \/ host.at = "failed" \/ ~window.visible
            \/ gpu # Nothing /\ gpu.frame # Nothing /\ gpu.frame.sequence >= s
=============================================================================
