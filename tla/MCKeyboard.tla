----------------------------- MODULE MCKeyboard -----------------------------
(***************************************************************************)
(* The keyboard from the host's events to the guest's keystrokes, one part *)
(* to a behaviour: key events against commands that pause scanning; every  *)
(* command; the BIOS ring and its readers; and two ways from an event to a *)
(* keystroke, side by side.  scene says which; the others rest.            *)
(***************************************************************************)
EXTENDS BiosKeyboard

Pressed(key) == [type |-> "key", key |-> key, pressed |-> TRUE]
Released(key) == [type |-> "key", key |-> key, pressed |-> FALSE]
Modifiers(groups) == [type |-> "modifiers", active |-> groups]
FocusLost == [type |-> "focusLost"]
Closed == [type |-> "closed"]

VARIABLES
  scene,
  ctl, task, line, channel, kbd, events, open, phase, taskWoken, budget, guest,  \* of Keyboard8042
  kb,        \* the AT keyboard of the two paths, which share the BIOS's flags
  typed,     \* keystrokes of the last event, by the guest's path
  physical,  \* the native translator
  fresh,     \* the last event was not a host repeat
  together   \* both Insert keys have been held at once

controllerVars == <<ctl, task, line, channel, kbd, events, open, phase, taskWoken, budget, guest>>
pathVars == <<kb, typed, physical, fresh, together>>

(* Keys, a sequence that fills the buffer and a focus change around the    *)
(* commands that pause scanning (typematic, reset, an invalid one), with   *)
(* translation left on.                                                    *)
Scans == INSTANCE Keyboard8042 WITH
  woken <- taskWoken, ScanLimit <- 8,
  HostEvents <- {Pressed("ShiftLeft"), Released("ShiftLeft"), Pressed("Pause"), FocusLost},
  MaxEvents <- 2, GuestData <- {\hF3, \hFF, \h54}, GuestCommands <- {\h60, \hAE}, MaxWrites <- 2

(* Every command and option, and the events the first scene leaves out.    *)
Commands == INSTANCE Keyboard8042 WITH
  woken <- taskWoken, ScanLimit <- 8,
  HostEvents <- {Pressed("KeyA"), Pressed("PrintScreen"), Modifiers({"Control"}), Closed},
  MaxEvents <- 1,
  GuestData <- {\hED, \hEE, \hF0, \hF2, \hF4, \hF5, \hF6, \hFE, \hFF, \hF7, 0, 1, \h90},
  GuestCommands <- {\h20, \h60, \hD2, \hAA, \hAB, \hAD, \hAE, \hA5}, MaxWrites <- 2

(* A key, Ctrl-Break and the prefix; a keystroke only the enhanced         *)
(* interface can return; a host that holds Control down.                   *)
MCScanBytes == {\hE0, \h46, \h4C}
MCStoredKeys == {[character |-> 120, scan |-> 0, some |-> TRUE]}
MCHostShifts == {[NoShifts EXCEPT !.control = TRUE]}

ASSUME BiosKeyboardAssumption
ASSUME Scans!ScanAssumption /\ Scans!KeyboardAssumption
ASSUME Commands!ScanAssumption /\ Commands!KeyboardAssumption

-----------------------------------------------------------------------------
(* Two ways from a host key event to a keystroke.  One goes through the AT *)
(* keyboard's scan sequences, the controller's set-2 translation and the   *)
(* BIOS's decoder; the other is the native prompt's PhysicalKeyboard,      *)
(* which keeps its own locks and modifiers.  The guest serves every byte   *)
(* before the next event, and events follow before a key repeats.          *)
PathsInit ==
  /\ kb = Scans!InitKeyboard /\ typed = <<>> /\ physical = InitPhysical
  /\ fresh = TRUE /\ together = FALSE

(* The buffer of the code, which is empty before each event.               *)
Roomy == INSTANCE Keyboard8042 WITH
  woken <- taskWoken, ScanLimit <- 16,
  HostEvents <- {}, MaxEvents <- 0, GuestData <- {}, GuestCommands <- {}, MaxWrites <- 0

(* The controller's delivery with translation on: a break prefix is kept   *)
(* back and marks the next byte.                                           *)
Wire(acc, byte) ==
  IF byte = Scans!BreakPrefix THEN [acc EXCEPT !.prefix = TRUE]
  ELSE [prefix |-> FALSE,
        bytes |-> Append(acc.bytes, IF acc.prefix THEN Scans!WithHighBit(Scans!Translate(byte)) ELSE Scans!Translate(byte))]
WireBytes(scans) == FoldLeft(Wire, [prefix |-> FALSE, bytes |-> <<>>], scans).bytes

(* IRQ1 for every byte.                                                    *)
Irq1(acc, byte) ==
  LET scan == DecodeByte(acc.flags, byte)
  IN  [flags |-> scan.flags,
       typed |-> IF scan.stroke.some THEN Append(acc.typed, TranslateEnhanced(scan.stroke))
                 ELSE acc.typed]

(* Input for the native prompt, in the same event.                         *)
NativeInput(p, event) ==
  CASE event.type = "key" -> PhysicalKey(p, event.key, event.pressed)
    [] event.type = "modifiers" -> PhysicalModifiers(p, event.active)
    [] event.type = "focusLost" -> PhysicalHeld(p, {})

HostEvent(event) ==
  LET scanned == Roomy!Event(kb, event)
      decoded == FoldLeft(Irq1, [flags |-> flags, typed |-> <<>>], WireBytes(scanned.scans))
  IN  /\ kb' = [scanned EXCEPT !.scans = <<>>, !.repeat = Scans!NoKey]
      /\ flags' = decoded.flags
      /\ typed' = decoded.typed
      /\ physical' = NativeInput(physical, event)
      /\ fresh' = ~(event.type = "key" /\ event.pressed /\ event.key \in kb.held)
      /\ together' = (together \/ {"Insert", "Numpad0"} \subseteq scanned.held)
      /\ UNCHANGED <<head, tail, slots, breaking, reads, waker, woken, outcome>>

(* Modifiers, a lock, both Insert keys and a letter.                       *)
PathKeys == {"ShiftLeft", "ControlRight", "NumLock", "Insert", "Numpad0", "KeyA"}
PathEvents ==
  {Pressed(k) : k \in PathKeys} \cup {Released(k) : k \in PathKeys}
    \cup {Modifiers(g) : g \in {{}, {"Control", "Shift"}}} \cup {FocusLost}

-----------------------------------------------------------------------------
(* An idle controller whose task has been polled.                          *)
KeyboardRests ==
  /\ ctl = [input |-> Scans!NoInput, output |-> \hFF, full |-> FALSE, scan |-> FALSE,
            commandByte |-> \h45, breakPrefix |-> FALSE]
  /\ task = Scans!Receiving /\ line = FALSE /\ channel = <<>> /\ kbd = Scans!InitKeyboard
  /\ events = <<>> /\ open = TRUE /\ phase = "idle" /\ taskWoken = FALSE
  /\ budget = [events |-> 0, writes |-> 0] /\ guest = [extended |-> FALSE, keys |-> {}]

MCInit ==
  /\ scene \in {"scans", "commands", "bios", "paths"}
  /\ CASE scene = "scans" -> Scans!Init
       [] scene = "commands" -> Commands!Init
       [] OTHER -> KeyboardRests
  /\ Init /\ PathsInit

(* With its budgets spent a keyboard may rest for good.                    *)
MCNext ==
  /\ \/ /\ \/ scene = "scans" /\ Scans!Next
           \/ scene = "commands" /\ Commands!Next
           \/ scene \in {"scans", "commands"} /\ UNCHANGED controllerVars
        /\ UNCHANGED <<vars, pathVars>>
     \/ scene = "bios" /\ Next /\ UNCHANGED <<controllerVars, pathVars>>
     \/ scene = "paths" /\ (\E event \in PathEvents : HostEvent(event)) /\ UNCHANGED controllerVars
  /\ UNCHANGED scene

MCSpec == MCInit /\ [][MCNext]_<<scene, vars, controllerVars, pathVars>> /\ Scans!Fairness

(* While translation stays on, a guest that has read everything holds down *)
(* exactly the keys that are physically down; a scan sequence is never     *)
(* cut, and IRQ1 is the output register's state under the guest's enable   *)
(* bit whenever the guest can look (Keyboard8042).                         *)
ScansAreWhole ==
  /\ scene = "scans" => Scans!NoStuckKeys
  /\ Scans!SequencesAreWhole /\ Scans!IrqFollowsOutput

(* A guest that reads what is ready finds the input register accepting     *)
(* again and everything sent delivered, over and over (Keyboard8042).      *)
TrafficDrains == Scans!TrafficDrains

(* Both paths see the same modifiers, locks and keystrokes, whatever the   *)
(* order of presses, releases, modifier snapshots and lost focus.  Insert  *)
(* and the keypad's 0 share one held bit in the BIOS data area, so the     *)
(* paths may part once both have been down.                                *)
PathsAgree ==
  scene = "paths" /\ ~together =>
    /\ flags.shifts = physical.shifts
    /\ fresh => typed = IF physical.stroke.some THEN <<physical.stroke>> ELSE <<>>
=============================================================================
