---------------------------- MODULE BiosKeyboard ----------------------------
(***************************************************************************)
(* The BIOS keyboard of crates/bios/src/keyboard.rs: the ring in the BIOS  *)
(* data area (data.rs), the default IRQ1 handler with its Ctrl-Break       *)
(* callback (irq.rs), INT 16h, and reads that wait inside a service.       *)
(*                                                                         *)
(* Reads run in the CPU's task.  One that waits can be interrupted by      *)
(* guest code that reads too, so waiting reads nest; only the innermost is *)
(* polled, when the task is woken or control returns to it.  All of them   *)
(* share the single waker.                                                 *)
(***************************************************************************)
EXTENDS Naturals, Sequences, SequencesExt

-----------------------------------------------------------------------------
(* How the BIOS turns keys into keystrokes, from crates/bios/src/keyboard: *)
(* the set-1 decoder with its flags in the BIOS data area (scan.rs), the   *)
(* US layout (layout.rs), the two INT 16h encodings (encoding.rs) and the  *)
(* native prompt's own translation of physical events (physical.rs).       *)
(*                                                                         *)
(* The tables keep a row for every way the code treats a key.  Keys have   *)
(* the names of their physical positions, which layout.rs maps one to one. *)

NoStroke == [character |-> 0, scan |-> 0, some |-> FALSE]
Stroke(character, scan) == [character |-> character, scan |-> scan, some |-> TRUE]
ExtendedMarker == \hE0
EnhancedOnlyMarker == \hF0

(* Key::from_scan: set-1 make code and E0 prefix to the key.               *)
ScanKeys ==
  {[key |-> "Digit2", code |-> \h03, extended |-> FALSE], [key |-> "Tab", code |-> \h0F, extended |-> FALSE],
   [key |-> "Enter", code |-> \h1C, extended |-> FALSE], [key |-> "NumpadEnter", code |-> \h1C, extended |-> TRUE],
   [key |-> "ControlLeft", code |-> \h1D, extended |-> FALSE],
   [key |-> "ControlRight", code |-> \h1D, extended |-> TRUE],
   [key |-> "KeyA", code |-> \h1E, extended |-> FALSE], [key |-> "ShiftLeft", code |-> \h2A, extended |-> FALSE],
   [key |-> "Backslash", code |-> \h2B, extended |-> FALSE], [key |-> "Comma", code |-> \h33, extended |-> FALSE],
   [key |-> "NumpadDivide", code |-> \h35, extended |-> TRUE],
   [key |-> "ShiftRight", code |-> \h36, extended |-> FALSE], [key |-> "AltLeft", code |-> \h38, extended |-> FALSE],
   [key |-> "AltRight", code |-> \h38, extended |-> TRUE], [key |-> "Space", code |-> \h39, extended |-> FALSE],
   [key |-> "CapsLock", code |-> \h3A, extended |-> FALSE], [key |-> "F7", code |-> \h41, extended |-> FALSE],
   [key |-> "NumLock", code |-> \h45, extended |-> FALSE], [key |-> "ScrollLock", code |-> \h46, extended |-> FALSE],
   [key |-> "ArrowUp", code |-> \h48, extended |-> TRUE], [key |-> "Numpad5", code |-> \h4C, extended |-> FALSE],
   [key |-> "Insert", code |-> \h52, extended |-> TRUE], [key |-> "Numpad0", code |-> \h52, extended |-> FALSE]}

FromScan(code, extended) == {r \in ScanKeys : r.code = code /\ r.extended = extended}
LayoutKeys == {r.key : r \in ScanKeys}
MakeCode(key) == (CHOOSE r \in ScanKeys : r.key = key).code

-----------------------------------------------------------------------------
(* keystroke.  Columns: unmodified, Shift, Ctrl, Alt.                      *)
FunctionCodes == [F7 |-> <<\h41, \h5A, \h64, \h6E>>]
NavigationCodes ==
  [ArrowUp |-> <<\h48, \h48, \h8D, \h98>>, Numpad5 |-> <<\h4C, \h4C, \h8F, 0>>,
   Insert |-> <<\h52, \h52, \h92, \hA2>>, Numpad0 |-> <<\h52, \h52, \h92, \hA2>>]
KeypadDigits == [Numpad5 |-> 53, Numpad0 |-> 48]
Characters ==
  [Digit2 |-> <<50, 64>>, Tab |-> <<9, 0>>, Enter |-> <<13, 13>>, NumpadEnter |-> <<13, 13>>,
   KeyA |-> <<97, 65>>, Backslash |-> <<92, 124>>, Comma |-> <<44, 60>>,
   NumpadDivide |-> <<47, 47>>, Space |-> <<32, 32>>]
AltCodes == [Digit2 |-> \h79, Tab |-> \hA5, NumpadEnter |-> \hA6, NumpadDivide |-> \hA4]
ControlCodes == [Tab |-> \h94, NumpadDivide |-> \h95]
ControlCharacters == [Enter |-> 10, NumpadEnter |-> 10, Digit2 |-> 0, Space |-> 32]

IsAlphabetic(key) == Characters[key][1] \in 97..122
Uppercase(character) == IF character \in 97..122 THEN character - 32 ELSE character

ShiftPressed(s) == s.leftShift \/ s.rightShift
NumericKeypad(s) == s.numLock # ShiftPressed(s)

FunctionKey(codes, s) ==
  Stroke(0, codes[IF s.alt THEN 4 ELSE IF s.control THEN 3 ELSE IF ShiftPressed(s) THEN 2 ELSE 1])
CharacterKey(key, character) ==
  Stroke(character, IF key \in {"NumpadEnter", "NumpadDivide"} THEN ExtendedMarker ELSE MakeCode(key))

Navigation(key, s) ==
  LET digit == key \in DOMAIN KeypadDigits
      result == FunctionKey(NavigationCodes[key], s)
  IN  CASE s.alt /\ digit -> NoStroke
        [] ~s.alt /\ ~s.control /\ NumericKeypad(s) /\ digit -> CharacterKey(key, KeypadDigits[key])
        [] ~s.alt /\ ~digit -> [result EXCEPT !.character = ExtendedMarker]
        [] OTHER -> IF key = "Numpad5" /\ ~s.control /\ ~s.alt
                    THEN [result EXCEPT !.character = EnhancedOnlyMarker]
                    ELSE result

WithAlt(key) ==
  CASE key = "Space" -> CharacterKey(key, 32)
    [] key \in DOMAIN AltCodes -> Stroke(0, AltCodes[key])
    [] IsAlphabetic(key) -> Stroke(0, MakeCode(key))
    [] OTHER -> Stroke(EnhancedOnlyMarker, MakeCode(key))

WithControl(key) ==
  CASE key \in DOMAIN ControlCodes -> Stroke(0, ControlCodes[key])
    [] key \in DOMAIN ControlCharacters -> CharacterKey(key, ControlCharacters[key])
    [] IsAlphabetic(key) \/ key = "Backslash" ->
         CharacterKey(key, Uppercase(Characters[key][1]) - 64)
    [] OTHER -> NoStroke

Keystroke(key, s) ==
  CASE key \in DOMAIN FunctionCodes -> FunctionKey(FunctionCodes[key], s)
    [] key \in DOMAIN NavigationCodes -> Navigation(key, s)
    [] key \notin DOMAIN Characters -> NoStroke
    [] s.alt -> WithAlt(key)
    [] s.control -> WithControl(key)
    [] OTHER ->
         LET uppercase == ShiftPressed(s) # (s.capsLock /\ IsAlphabetic(key))
         IN  CharacterKey(key, Characters[key][IF uppercase THEN 2 ELSE 1])

-----------------------------------------------------------------------------
(* KeyMode::translate                                                      *)
TranslateEnhanced(k) ==
  IF k.character = EnhancedOnlyMarker /\ k.scan # 0 THEN [k EXCEPT !.character = 0] ELSE k

TranslateLegacy(k) ==
  CASE k.scan = ExtendedMarker -> [k EXCEPT !.scan = IF k.character \in {10, 13} THEN \h1C ELSE \h35]
    [] k.scan # ExtendedMarker /\ (k.scan > \h84 \/ (k.character = EnhancedOnlyMarker /\ k.scan # 0)) ->
         NoStroke
    [] k.scan \in 1..\h84 /\ k.character = ExtendedMarker -> [k EXCEPT !.character = 0]
    [] OTHER -> k

TranslateFor(mode, k) == IF mode = "enhanced" THEN TranslateEnhanced(k) ELSE TranslateLegacy(k)

-----------------------------------------------------------------------------
(* The BIOS data area's flags with the decoder's count: active shifts and  *)
(* toggles, held keys, and the enhanced-keyboard status.                   *)
NoShifts ==
  [leftShift |-> FALSE, rightShift |-> FALSE, control |-> FALSE, alt |-> FALSE,
   scrollLock |-> FALSE, numLock |-> FALSE, capsLock |-> FALSE, insert |-> FALSE]

InitFlags ==
  [shifts |-> NoShifts, held |-> {}, rightControl |-> FALSE, rightAlt |-> FALSE,
   extendedPrefix |-> FALSE, pauseRemaining |-> 0]

(* toggle: a lock changes on its first make only.                          *)
Toggled(state, flags, lock, pressed) == state # (pressed /\ lock \notin flags.held)
SetHeld(flags, lock, pressed) ==
  [flags EXCEPT !.held = IF pressed THEN @ \cup {lock} ELSE @ \ {lock}]

KeyFlags(flags, key, pressed) ==
  LET Held(lock) == SetHeld(flags, lock, pressed)
      Lock(lock) == Toggled(flags.shifts[lock], flags, lock, pressed)
      numeric == key = "Numpad0" /\ NumericKeypad(flags.shifts)
  IN  CASE key = "ShiftLeft" -> [flags EXCEPT !.shifts.leftShift = pressed]
        [] key = "ShiftRight" -> [flags EXCEPT !.shifts.rightShift = pressed]
        [] key = "ControlLeft" ->
             [Held("control") EXCEPT !.shifts.control = pressed \/ flags.rightControl]
        [] key = "ControlRight" ->
             [flags EXCEPT !.rightControl = pressed, !.shifts.control = pressed \/ "control" \in flags.held]
        [] key = "AltLeft" -> [Held("alt") EXCEPT !.shifts.alt = pressed \/ flags.rightAlt]
        [] key = "AltRight" ->
             [flags EXCEPT !.rightAlt = pressed, !.shifts.alt = pressed \/ "alt" \in flags.held]
        [] key = "CapsLock" -> [Held("capsLock") EXCEPT !.shifts.capsLock = Lock("capsLock")]
        [] key = "NumLock" -> [Held("numLock") EXCEPT !.shifts.numLock = Lock("numLock")]
        [] key = "ScrollLock" -> [Held("scrollLock") EXCEPT !.shifts.scrollLock = Lock("scrollLock")]
        [] key \in {"Insert", "Numpad0"} ->
             [Held("insert") EXCEPT !.shifts.insert = IF numeric THEN @ ELSE Lock("insert")]
        [] OTHER -> flags

(* Decoder::scan, except for the ring: the flags, whether it is Ctrl-Break *)
(* and the keystroke to push.                                              *)
Scanned(flags, result, stroke) == [flags |-> flags, result |-> result, stroke |-> stroke]

DecodeByte(flags, byte) ==
  LET extended == flags.extendedPrefix
      clear == [flags EXCEPT !.extendedPrefix = FALSE]
      pressed == byte < 128
      keys == FromScan(byte % 128, extended)
      key == (CHOOSE r \in keys : TRUE).key
      after == KeyFlags(clear, key, pressed)
  IN  CASE flags.pauseRemaining # 0 ->
             Scanned([flags EXCEPT !.pauseRemaining = @ - 1], "none", NoStroke)
        [] flags.pauseRemaining = 0 /\ byte = \hE1 ->
             Scanned([clear EXCEPT !.pauseRemaining = 5], "none", NoStroke)
        [] flags.pauseRemaining = 0 /\ byte = \hE0 ->
             Scanned([flags EXCEPT !.extendedPrefix = TRUE], "none", NoStroke)
        [] OTHER ->
             IF extended /\ byte = \h46 /\ flags.shifts.control /\ ~flags.shifts.alt
             THEN Scanned(clear, "controlBreak", NoStroke)
             ELSE IF keys = {} THEN Scanned(clear, "none", NoStroke)
             ELSE IF pressed THEN Scanned(after, "key", Keystroke(key, after.shifts))
             ELSE Scanned(after, "none", NoStroke)

-----------------------------------------------------------------------------
(* PhysicalKeyboard::translate for a key event: its shifts and held keys,  *)
(* and the enhanced keystroke a press yields.                              *)
InitPhysical == [shifts |-> NoShifts, held |-> {}, stroke |-> NoStroke]

(* Mutant: only the left Ctrl counts.                                      *)
FromHeldLeft(shifts, held) ==
  [shifts EXCEPT !.leftShift = "ShiftLeft" \in held, !.rightShift = "ShiftRight" \in held,
                 !.control = "ControlLeft" \in held,
                 !.alt = {"AltLeft", "AltRight"} \cap held # {}]

FromHeld(shifts, held) ==
  [shifts EXCEPT !.leftShift = "ShiftLeft" \in held, !.rightShift = "ShiftRight" \in held,
                 !.control = {"ControlLeft", "ControlRight"} \cap held # {},
                 !.alt = {"AltLeft", "AltRight"} \cap held # {}]

PhysicalKey(p, key, pressed) ==
  LET fresh == pressed /\ key \notin p.held
      held == IF pressed THEN p.held \cup {key} ELSE p.held \ {key}
      s == p.shifts
      locks == [s EXCEPT
        !.capsLock = @ # (fresh /\ key = "CapsLock"),
        !.numLock = @ # (fresh /\ key = "NumLock"),
        !.scrollLock = @ # (fresh /\ key = "ScrollLock"),
        !.insert = @ # (fresh /\ (key = "Insert" \/ (key = "Numpad0" /\ ~NumericKeypad(s))))]
      shifts == FromHeld(locks, held)
  IN  [shifts |-> shifts, held |-> held,
       stroke |-> IF pressed /\ key \in LayoutKeys THEN TranslateEnhanced(Keystroke(key, shifts))
                  ELSE NoStroke]

PhysicalHeld(p, held) == [shifts |-> FromHeld(p.shifts, held), held |-> held, stroke |-> NoStroke]

PhysicalModifiers(p, active) ==
  LET Pair(g, l, r) == IF g \notin active THEN p.held \ {l, r}
                       ELSE IF {l, r} \cap p.held = {} THEN p.held \cup {l} ELSE p.held
      shift == {"ShiftLeft", "ShiftRight"}
      control == {"ControlLeft", "ControlRight"}
      alt == {"AltLeft", "AltRight"}
  IN  PhysicalHeld(p, (p.held \ (shift \cup control \cup alt))
        \cup (Pair("Shift", "ShiftLeft", "ShiftRight") \cap shift)
        \cup (Pair("Control", "ControlLeft", "ControlRight") \cap control)
        \cup (Pair("Alt", "AltLeft", "AltRight") \cap alt))

-----------------------------------------------------------------------------
CONSTANTS
  Slots,       \* words in the ring, 16 in the BIOS data area
  ScanBytes,   \* bytes the controller delivers
  StoredKeys,  \* keystrokes stored by INT 16h/AH=05h or by the host
  HostShifts,  \* shift states the host sets
  MaxReads     \* bound on nested reads

BiosKeyboardAssumption == Slots \in Nat \ {0} /\ MaxReads \in Nat

Modes == {"legacy", "enhanced"}

VARIABLES
  head, tail,  \* ring positions, in words from its start
  slots,       \* the words
  flags,       \* keyboard flags and decoder state
  breaking,    \* the IRQ1 handler awaits INT 1Bh
  reads,       \* reads in progress, innermost last: [mode, waits]
  waker,       \* a waker is stored
  woken,       \* the task has been woken
  outcome      \* what the last buffer operation returned

ring == <<head, tail, slots>>
vars == <<head, tail, slots, flags, breaking, reads, waker, woken, outcome>>

Advance(position) == (position + 1) % Slots
Empty == head = tail

(* Mutant: fullness is noticed one word late, so the ring looks empty.     *)
FullLate == FALSE

Full == Advance(tail) = head
Count == (tail + Slots - head) % Slots
Queue == [i \in 1..Count |-> slots[(head + i - 1) % Slots]]

Outcome(op, ok, stroke) == [op |-> op, ok |-> ok, stroke |-> stroke]

Init ==
  /\ head = 0 /\ tail = 0
  /\ slots = [i \in 0..(Slots - 1) |-> NoStroke]
  /\ flags = InitFlags
  /\ breaking = FALSE
  /\ reads = <<>> /\ waker = FALSE /\ woken = FALSE
  /\ outcome = Outcome("none", FALSE, <<>>)

(* Mutant: a keystroke is stored and nobody is told.                       *)
PushSilently(k) ==
  /\ IF Full THEN UNCHANGED <<tail, slots>>
     ELSE slots' = [slots EXCEPT ![tail] = k] /\ tail' = Advance(tail)
  /\ UNCHANGED <<head, waker, woken>>
  /\ outcome' = Outcome("put", ~Full, <<k>>)

(* DataArea::push, and the waker taken when it stores.                     *)
Push(k) ==
  /\ IF Full THEN UNCHANGED <<tail, slots, waker, woken>>
     ELSE /\ slots' = [slots EXCEPT ![tail] = k]
          /\ tail' = Advance(tail)
          /\ waker' = FALSE /\ woken' = (woken \/ waker)
  /\ head' = head
  /\ outcome' = Outcome("put", ~Full, <<k>>)

NoPush == UNCHANGED <<ring, waker, woken, outcome>>

StoreKey(k) ==
  /\ Push(k)
  /\ UNCHANGED <<flags, breaking, reads>>

(* Control returns to the innermost read after an interrupt: it is polled. *)
Resumed == reads' = [i \in DOMAIN reads |->
                       IF i = Len(reads) THEN [reads[i] EXCEPT !.waits = FALSE] ELSE reads[i]]

(* The default IRQ1 handler.  Ctrl-Break empties the ring and awaits INT   *)
(* 1Bh; IRQ1 stays in service until the callback returns.                  *)
Interrupt(byte) ==
  LET scan == DecodeByte(flags, byte)
  IN  /\ ~breaking
      /\ flags' = scan.flags
      /\ \/ /\ scan.result = "key" /\ scan.stroke.some
            /\ Push(scan.stroke)
            /\ Resumed /\ UNCHANGED breaking
         \/ /\ scan.result # "controlBreak" /\ ~scan.stroke.some
            /\ NoPush
            /\ Resumed /\ UNCHANGED breaking
         \/ /\ scan.result = "controlBreak"
            /\ tail' = head
            /\ breaking' = TRUE
            /\ outcome' = Outcome("clear", TRUE, <<>>)
            /\ UNCHANGED <<head, slots, reads, waker, woken>>

(* The callback returned: the dummy keystroke goes in by the ordinary way. *)
BreakReturns ==
  /\ breaking
  /\ Push(Stroke(0, 0))
  /\ breaking' = FALSE
  /\ Resumed
  /\ UNCHANGED flags

(* peek_key: entries the interface cannot return are read and dropped.     *)
Expresses(mode, k) == TranslateFor(mode, k).some
Skipped(mode) ==
  IF \E i \in 1..Count : Expresses(mode, Queue[i])
  THEN (CHOOSE i \in 1..Count : /\ Expresses(mode, Queue[i])
                                /\ \A j \in 1..(i - 1) : ~Expresses(mode, Queue[j])) - 1
  ELSE Count
Ahead(n) == (head + n) % Slots
Found(mode) == Skipped(mode) < Count
First(mode) == IF Found(mode) THEN <<slots[Ahead(Skipped(mode))]>> ELSE <<>>

PeekKey(mode) ==
  /\ head' = Ahead(Skipped(mode))
  /\ outcome' = Outcome("look", Found(mode), First(mode))
  /\ UNCHANGED <<tail, slots, flags, breaking, reads, waker, woken>>

(* try_read_key                                                            *)
TryRead(mode) ==
  /\ head' = Ahead(Skipped(mode) + (IF Found(mode) THEN 1 ELSE 0))
  /\ outcome' = Outcome("take", Found(mode), First(mode))
  /\ UNCHANGED <<tail, slots>>

TryReadKey(mode) ==
  /\ TryRead(mode)
  /\ UNCHANGED <<flags, breaking, reads, waker, woken>>

(* read_key: a service call, possibly from an interrupt of a waiting read. *)
StartRead(mode) ==
  /\ Len(reads) < MaxReads
  /\ reads # <<>> => Last(reads).waits
  /\ reads' = Append(reads, [mode |-> mode, waits |-> FALSE])
  /\ UNCHANGED <<ring, flags, breaking, waker, woken, outcome>>

Polled == reads # <<>> /\ (woken \/ ~Last(reads).waits)

(* A poll that finds a key: the waiter is dropped, with the stored waker,  *)
(* and control goes back to the read it interrupted.                       *)
ReadFinishes ==
  /\ Polled /\ Found(Last(reads).mode)
  /\ TryRead(Last(reads).mode)
  /\ reads' = [i \in 1..(Len(reads) - 1) |->
                 IF i = Len(reads) - 1 THEN [reads[i] EXCEPT !.waits = FALSE] ELSE reads[i]]
  /\ waker' = FALSE /\ woken' = FALSE
  /\ UNCHANGED <<flags, breaking>>

(* A poll that does not: wait_for_key stores the task's waker.             *)
ReadWaits ==
  /\ Polled /\ ~Found(Last(reads).mode)
  /\ TryRead(Last(reads).mode)
  /\ reads' = [reads EXCEPT ![Len(reads)].waits = TRUE]
  /\ waker' = TRUE /\ woken' = FALSE
  /\ UNCHANGED <<flags, breaking>>

(* The run ends and drops its reads.                                       *)
DropReads ==
  /\ reads # <<>>
  /\ reads' = <<>> /\ waker' = FALSE /\ woken' = FALSE
  /\ UNCHANGED <<ring, flags, breaking, outcome>>

DiscardQueued ==
  /\ head' = tail
  /\ outcome' = Outcome("clear", TRUE, <<>>)
  /\ UNCHANGED <<tail, slots, flags, breaking, reads, waker, woken>>

(* set_shift_state: the host does not know which Ctrl or Alt is held.      *)
SetShiftState(shifts) ==
  /\ flags' = [flags EXCEPT
       !.shifts = shifts, !.rightControl = FALSE, !.rightAlt = FALSE,
       !.held = (@ \ {"control", "alt"}) \cup {k \in {"control", "alt"} : shifts[k]}]
  /\ UNCHANGED <<ring, breaking, reads, waker, woken, outcome>>

Next ==
  \/ \E b \in ScanBytes : Interrupt(b)
  \/ BreakReturns
  \/ \E k \in StoredKeys : StoreKey(k)
  \/ \E m \in Modes : PeekKey(m) \/ TryReadKey(m) \/ StartRead(m)
  \/ ReadFinishes \/ ReadWaits
  \/ DropReads
  \/ DiscardQueued
  \/ \E s \in HostShifts : SetShiftState(s)

Spec == Init /\ [][Next]_vars

-----------------------------------------------------------------------------
(* The ring implements a bounded queue with one word fewer than its size:  *)
(* every IRQ, service, wait and Ctrl-Break, in any order, acts on it as    *)
(* one queue operation or leaves it alone.                                 *)
Abstract == INSTANCE KeyQueue WITH
  queue <- Queue, outcome <- outcome, Capacity <- Slots - 1
QueueIsKept == Abstract!Spec

(* A read that waits while the ring holds a keystroke is about to be       *)
(* polled: the one shared waker was there to be called, however reads      *)
(* nested and whichever of them was dropped.                               *)
ReadersAreWoken ==
  reads # <<>> /\ Last(reads).waits /\ ~Empty => woken
=============================================================================
