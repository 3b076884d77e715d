---------------------------- MODULE Keyboard8042 ----------------------------
(***************************************************************************)
(* The 8042 controller and the keyboard behind it, from                    *)
(* crates/at-keyboard/src: the two firmware tasks that lib.rs joins in one *)
(* device activity, the guest's port accesses, the host's key events and   *)
(* the typematic clock.                                                    *)
(*                                                                         *)
(* Ports and firmware share one owner: the guest acts only between polls   *)
(* of the activity.  A poll runs the controller's task until it waits and  *)
(* then the keyboard's; the activity is polled again only after something  *)
(* it waits for has woken it.  Host events arrive at any time.             *)
(***************************************************************************)
EXTENDS Naturals, Sequences, SequencesExt

-----------------------------------------------------------------------------
(* The keyboard's own state and what changes it, from                      *)
(* crates/at-keyboard/src/keyboard.rs and scancodes.rs: scan sequences,    *)
(* the bounded scan buffer, paused scanning and command exchanges.  Every  *)
(* operator maps a keyboard record to the next one; Keyboard8042 runs them *)
(* from the keyboard's task.                                               *)
(*                                                                         *)
(* Time appears as whether the repeat deadline has passed; LEDs and the    *)
(* typematic rate are stored and never read by anything modelled.          *)

CONSTANT ScanLimit  \* bytes the scan buffer holds, 16 in the code

ScanAssumption == ScanLimit \in Nat

SET_LEDS == \hED
ECHO == \hEE
SCAN_SET == \hF0
IDENTIFY == \hF2
SET_TYPEMATIC == \hF3
ENABLE_SCANNING == \hF4
DEFAULT_DISABLE == \hF5
DEFAULTS == \hF6
ACK == \hFA
RESEND == \hFE
RESET == \hFF
BreakPrefix == \hF0

(* Physical keys with their set-1 and set-2 codes and whether they are     *)
(* extended: the rows of the table that an instance needs.                 *)
KEYS ==
  [KeyA        |-> [set1 |-> \h1E, set2 |-> \h1C, extended |-> FALSE],
   F7          |-> [set1 |-> \h41, set2 |-> \h83, extended |-> FALSE],
   ArrowUp     |-> [set1 |-> \h48, set2 |-> \h75, extended |-> TRUE],
   ShiftLeft   |-> [set1 |-> \h2A, set2 |-> \h12, extended |-> FALSE],
   ShiftRight  |-> [set1 |-> \h36, set2 |-> \h59, extended |-> FALSE],
   ControlLeft |-> [set1 |-> \h1D, set2 |-> \h14, extended |-> FALSE],
   ControlRight|-> [set1 |-> \h1D, set2 |-> \h14, extended |-> TRUE],
   AltLeft     |-> [set1 |-> \h38, set2 |-> \h11, extended |-> FALSE],
   AltRight    |-> [set1 |-> \h38, set2 |-> \h11, extended |-> TRUE],
   SuperLeft   |-> [set1 |-> \h5B, set2 |-> \h1F, extended |-> TRUE],
   SuperRight  |-> [set1 |-> \h5C, set2 |-> \h27, extended |-> TRUE],
   NumLock     |-> [set1 |-> \h45, set2 |-> \h77, extended |-> FALSE],
   ScrollLock  |-> [set1 |-> \h46, set2 |-> \h7E, extended |-> FALSE],
   NumpadMultiply |-> [set1 |-> \h37, set2 |-> \h7C, extended |-> FALSE],
   CapsLock    |-> [set1 |-> \h3A, set2 |-> \h58, extended |-> FALSE],
   Insert      |-> [set1 |-> \h52, set2 |-> \h70, extended |-> TRUE],
   Numpad0     |-> [set1 |-> \h52, set2 |-> \h70, extended |-> FALSE]]

Key == DOMAIN KEYS \cup {"Pause", "PrintScreen"}
NoKey == "none"

WithHighBit(byte) == IF byte < 128 THEN byte + 128 ELSE byte

CodeBytes(code, extended, pressed, set) ==
  (IF extended THEN <<\hE0>> ELSE <<>>)
    \o (IF ~pressed /\ set = 2 THEN <<BreakPrefix>> ELSE <<>>)
    \o <<IF ~pressed /\ set = 1 THEN WithHighBit(code) ELSE code>>

Sequence(key, pressed, set, held) ==
  LET control == {"ControlLeft", "ControlRight"} \cap held # {}
      alt == {"AltLeft", "AltRight"} \cap held # {}
      shift == {"ShiftLeft", "ShiftRight"} \cap held # {}
      Of(set1, set2) == IF set = 1 THEN set1 ELSE set2
      print == CodeBytes(Of(\h37, \h7C), TRUE, pressed, set)
      fakeShift == CodeBytes(Of(\h2A, \h12), TRUE, pressed, set)
  IN  CASE key = "Pause" ->
             IF ~pressed THEN <<>>
             ELSE IF control
             THEN Of(<<\hE0, \h46, \hE0, \hC6>>, <<\hE0, \h7E, \hE0, \hF0, \h7E>>)
             ELSE Of(<<\hE1, \h1D, \h45, \hE1, \h9D, \hC5>>,
                     <<\hE1, \h14, \h77, \hE1, \hF0, \h14, \hF0, \h77>>)
        [] key = "PrintScreen" ->
             IF alt THEN CodeBytes(Of(\h54, \h84), FALSE, pressed, set)
             ELSE IF control \/ shift THEN print
             ELSE IF pressed THEN fakeShift \o print ELSE print \o fakeShift
        [] OTHER ->
             CodeBytes(Of(KEYS[key].set1, KEYS[key].set2), KEYS[key].extended, pressed, set)

Translate(byte) ==
  LET keys == {k \in DOMAIN KEYS : KEYS[k].set2 = byte}
  IN  CASE byte = 0 -> \hFF
        [] byte = 2 -> \h41
        [] byte = \h84 -> \h54
        [] keys # {} -> KEYS[CHOOSE k \in keys : TRUE].set1
        [] OTHER -> byte

-----------------------------------------------------------------------------
(* The keyboard.  "replies" and "after" are where its command exchange     *)
(* stands: bytes still to transmit, then an option byte to wait for, reset *)
(* defaults to apply, or nothing.  "lost" is auxiliary: a key transition   *)
(* was discarded, by an overrun, a command that clears the buffer, or with *)
(* scanning disabled.                                                      *)
InitKeyboard ==
  [lastSent |-> RESEND, held |-> {}, scans |-> <<>>, overflow |-> FALSE,
   isPaused |-> FALSE, before |-> {}, scanning |-> TRUE, set |-> 2,
   repeat |-> NoKey, due |-> FALSE,
   command |-> 0, replies |-> <<>>, after |-> "done", lost |-> FALSE]

(* Mutant: what fits of a sequence is admitted.                            *)
EmitPartial(kb, key, pressed) ==
  LET bytes == kb.scans \o Sequence(key, pressed, kb.set, kb.held)
  IN  IF Len(bytes) <= ScanLimit THEN [kb EXCEPT !.scans = bytes]
      ELSE [kb EXCEPT !.scans = SubSeq(bytes, 1, ScanLimit), !.overflow = TRUE, !.lost = TRUE]

Emit(kb, key, pressed) ==
  LET bytes == Sequence(key, pressed, kb.set, kb.held)
  IN  IF Len(kb.scans) + Len(bytes) <= ScanLimit
      THEN [kb EXCEPT !.scans = @ \o bytes]
      ELSE [kb EXCEPT !.overflow = TRUE, !.lost = TRUE]

(* scan: the most recent key repeats, Pause never does.                    *)
Scan(kb, key, pressed) ==
  LET emitted == Emit(kb, key, pressed)
  IN  IF pressed /\ key # "Pause"
      THEN [emitted EXCEPT !.repeat = key, !.due = FALSE]
      ELSE emitted

KeyChange(kb, key, pressed) ==
  LET moved == [kb EXCEPT !.held = IF pressed THEN @ \cup {key} ELSE @ \ {key}]
      scanned == IF kb.scanning /\ ~kb.isPaused THEN Scan(moved, key, pressed)
                 ELSE [moved EXCEPT !.lost = @ \/ ~kb.isPaused]
  IN  IF key \notin Key \/ moved.held = kb.held THEN kb
      ELSE IF ~pressed /\ scanned.repeat = key THEN [scanned EXCEPT !.repeat = NoKey, !.due = FALSE]
      ELSE scanned

(* Keys in the order BTreeSet yields them, the order of the enum.          *)
KeyOrder == <<"KeyA", "AltLeft", "AltRight", "CapsLock", "ControlLeft", "ControlRight", "SuperLeft",
              "SuperRight", "ShiftLeft", "ShiftRight", "Insert", "ArrowUp", "NumLock", "Numpad0",
              "NumpadMultiply", "PrintScreen", "ScrollLock", "Pause", "F7">>
InOrder(keys) == SelectSeq(KeyOrder, LAMBDA k : k \in keys)

ReleaseAll(kb) == FoldLeft(LAMBDA acc, k : KeyChange(acc, k, FALSE), kb, InOrder(kb.held))

(* A modifier snapshot reconciles the keys of each group with it.          *)
ModifierGroups == <<"Shift", "Control", "Alt", "Super">>
LeftOf == [Shift |-> "ShiftLeft", Control |-> "ControlLeft", Alt |-> "AltLeft", Super |-> "SuperLeft"]
RightOf == [Shift |-> "ShiftRight", Control |-> "ControlRight", Alt |-> "AltRight", Super |-> "SuperRight"]

Reconcile(kb, active) ==
  LET Group(acc, g) ==
        IF g \notin active THEN KeyChange(KeyChange(acc, LeftOf[g], FALSE), RightOf[g], FALSE)
        ELSE IF {LeftOf[g], RightOf[g]} \cap acc.held = {} THEN KeyChange(acc, LeftOf[g], TRUE)
        ELSE acc
  IN  FoldLeft(Group, kb, ModifierGroups)

Event(kb, event) ==
  CASE event.type = "key" -> KeyChange(kb, event.key, event.pressed)
    [] event.type = "modifiers" -> Reconcile(kb, event.active)
    [] event.type \in {"focusLost", "closed"} -> ReleaseAll(kb)

Pause(kb) ==
  [kb EXCEPT !.isPaused = TRUE, !.before = IF kb.isPaused THEN @ ELSE kb.held,
             !.repeat = NoKey, !.due = FALSE]

(* Mutant: scanning resumes without looking at the keys again.             *)
ResumeOnly(kb) == [kb EXCEPT !.isPaused = FALSE, !.before = {}]

(* Scanning resumes with a rescan of the physical keys.                    *)
Resume(kb) ==
  LET ready == [kb EXCEPT !.isPaused = FALSE, !.before = {}]
      released == FoldLeft(LAMBDA acc, k : Scan(acc, k, FALSE), ready,
                           InOrder(kb.before \ kb.held))
      rescanned == FoldLeft(LAMBDA acc, k : Scan(acc, k, TRUE), released,
                            InOrder(kb.held \ kb.before))
  IN  IF ~kb.isPaused THEN kb
      ELSE IF kb.scanning THEN rescanned
      ELSE [ready EXCEPT !.lost = @ \/ kb.before # kb.held]

Repeat(kb, inhibited) ==
  [(IF inhibited THEN kb ELSE Emit(kb, kb.repeat, TRUE)) EXCEPT !.due = FALSE]

ClearScans(kb) ==
  [kb EXCEPT !.scans = <<>>, !.overflow = FALSE, !.repeat = NoKey, !.due = FALSE,
             !.lost = @ \/ kb.scans # <<>>]

Defaults(kb, scanning) == [ClearScans(kb) EXCEPT !.scanning = scanning, !.set = 2]

PeekByte(kb) ==
  CASE kb.scans # <<>> -> <<Head(kb.scans)>>
    [] kb.scans = <<>> /\ kb.overflow -> <<IF kb.set = 1 THEN \hFF ELSE 0>>
    [] OTHER -> <<>>

ConsumeByte(kb) ==
  IF kb.scans = <<>> THEN [kb EXCEPT !.overflow = FALSE] ELSE [kb EXCEPT !.scans = Tail(@)]

Outgoing(kb) ==
  CASE kb.replies # <<>> -> <<Head(kb.replies)>>
    [] kb.replies = <<>> /\ ~kb.isPaused -> PeekByte(kb)
    [] OTHER -> <<>>

-----------------------------------------------------------------------------
(* Command exchanges.                                                      *)
Exchange(kb, command, replies, after) ==
  [kb EXCEPT !.command = command, !.replies = replies, !.after = after]

(* configure, up to its first reply.                                       *)
Configure(kb, command) ==
  LET quiet == IF command = SCAN_SET THEN ClearScans(Pause(kb)) ELSE Pause(kb)
  IN  Exchange(quiet, command, <<ACK>>, "option")

(* configure's loop, for a byte that does not replace the exchange.        *)
ConfigureOption(kb, value) ==
  LET c == kb.command
  IN  CASE value = RESEND -> Exchange(kb, c, <<kb.lastSent>>, "option")
        [] c = SCAN_SET /\ value = 0 -> Exchange(kb, c, <<ACK, kb.set>>, "done")
        [] c = SCAN_SET /\ value \in 1..2 ->
             Exchange([kb EXCEPT !.set = value], c, <<ACK>>, "done")
        [] (c = SET_LEDS /\ value < 8) \/ (c = SET_TYPEMATIC /\ value < 128) ->
             Exchange(kb, c, <<ACK>>, "done")
        [] OTHER -> Exchange(kb, c, <<RESEND>>, "option")

Execute(kb, command) ==
  CASE command \in {SET_LEDS, SCAN_SET, SET_TYPEMATIC} -> Configure(kb, command)
    [] command = ECHO -> Exchange(kb, command, <<ECHO>>, "done")
    [] command = IDENTIFY -> Exchange(Pause(kb), command, <<ACK, \hAB, \h83>>, "done")
    [] command = ENABLE_SCANNING ->
         Exchange([ClearScans(kb) EXCEPT !.scanning = TRUE], command, <<ACK>>, "done")
    [] command \in {DEFAULT_DISABLE, DEFAULTS} ->
         Exchange(Defaults(kb, command # DEFAULT_DISABLE), command, <<ACK>>, "done")
    [] command = RESET -> Exchange(Pause(kb), command, <<ACK>>, "defaults")
    [] command = RESEND -> Exchange(kb, command, <<kb.lastSent>>, "done")
    [] OTHER -> Exchange(kb, command, <<RESEND>>, "done")

(* A byte from the controller: the option an exchange waits for, or a      *)
(* command, which replaces any exchange that has not finished.             *)
Accept(kb, value) ==
  IF kb.replies = <<>> /\ kb.after = "option" /\ (value = RESEND \/ value < SET_LEDS)
  THEN ConfigureOption(kb, value)
  ELSE Execute(Resume(kb), value)

(* transfer's completion: what follows the byte just transmitted.          *)
Sent(kb) ==
  LET byte == Outgoing(kb)[1]
      noted == [kb EXCEPT !.lastSent = IF byte = RESEND THEN @ ELSE byte]
      replied == [noted EXCEPT !.replies = Tail(@)]
  IN  IF kb.replies = <<>> THEN ConsumeByte(noted)
      ELSE IF replied.replies # <<>> \/ kb.after = "option" THEN replied
      ELSE IF kb.after = "defaults" THEN Exchange(Defaults(replied, TRUE), RESET, <<\hAA>>, "done")
      ELSE Resume([replied EXCEPT !.command = 0])

-----------------------------------------------------------------------------
CONSTANTS
  HostEvents,    \* the events the host may send
  MaxEvents,     \* bound on how many it sends
  GuestData,     \* bytes the guest writes to port 60h
  GuestCommands, \* bytes it writes to port 64h
  MaxWrites      \* bound on its writes

KeyboardAssumption ==
  /\ MaxEvents \in Nat /\ MaxWrites \in Nat
  /\ GuestData \subseteq 0..255 /\ GuestCommands \subseteq 0..255

VARIABLES
  ctl,     \* the controller's registers
  task,    \* where its task is, with the byte it holds
  line,    \* the level of the IRQ1 input
  channel, \* commands on their way to the keyboard, bounded(1)
  kbd,     \* the keyboard
  events,  \* host events not yet received
  open,    \* the host still holds its sender
  phase,   \* "idle", or the task being polled
  woken,   \* the activity has been woken since it was last polled
  budget,  \* events and writes left
  guest    \* what the guest has decoded from the bytes it read

vars == <<ctl, task, line, channel, kbd, events, open, phase, woken, budget, guest>>

SystemInitialized == 4
InterfaceDisabled == 16
Bit(byte, mask) == (byte \div mask) % 2 = 1
WithBit(byte, mask) == IF Bit(byte, mask) THEN byte ELSE byte + mask
WithoutBit(byte, mask) == IF Bit(byte, mask) THEN byte - mask ELSE byte

IrqEnabled == Bit(ctl.commandByte, 1)
Disabled == Bit(ctl.commandByte, InterfaceDisabled)
Translating(commandByte) == Bit(commandByte, 64)

NoInput == [kind |-> "none", byte |-> 0]
At(pc, byte) == [pc |-> pc, byte |-> byte]
Receiving == At("receive", 0)

Init ==
  /\ ctl = [input |-> NoInput, output |-> \hFF, full |-> FALSE, scan |-> FALSE,
            commandByte |-> \h45, breakPrefix |-> FALSE]
  /\ task = Receiving
  /\ line = FALSE
  /\ channel = <<>>
  /\ kbd = InitKeyboard
  /\ events = <<>> /\ open = TRUE
  /\ phase = "idle" /\ woken = TRUE
  /\ budget = [events |-> MaxEvents, writes |-> MaxWrites]
  /\ guest = [extended |-> FALSE, keys |-> {}]

(* Mutant: the line follows the output register alone.                     *)
UpdateIrqAlways(registers) == line' = registers.full

(* update_irq, for the registers an action leaves.                         *)
UpdateIrq(registers) == line' = (registers.full /\ Bit(registers.commandByte, 1))

(* changed.notify: wakes the tasks that listen while they wait.            *)
Listening == task.pc # "forward" \/ Outgoing(kbd) # <<>>
Notify == woken' = (woken \/ Listening)

(***************************************************************************)
(* The guest.                                                              *)
(***************************************************************************)

(* Reading port 60h.  The guest decodes translated scan codes; bytes the   *)
(* keyboard or the controller sent as replies are not key transitions.     *)
Decode(byte) ==
  LET down == {k \in DOMAIN KEYS : KEYS[k].extended = guest.extended /\ KEYS[k].set1 = byte}
      up == {k \in DOMAIN KEYS : KEYS[k].extended = guest.extended
                                 /\ WithHighBit(KEYS[k].set1) = byte}
  IN  [extended |-> byte = \hE0, keys |-> (guest.keys \cup down) \ up]

(* Mutant: reading does not notify.                                        *)
ReadDataSilently ==
  /\ phase = "idle"
  /\ ctl' = [ctl EXCEPT !.full = FALSE]
  /\ line' = FALSE
  /\ guest' = IF ctl.full /\ ctl.scan THEN Decode(ctl.output) ELSE guest
  /\ UNCHANGED <<task, channel, kbd, events, open, phase, woken, budget>>

ReadData ==
  /\ phase = "idle"
  /\ ctl' = [ctl EXCEPT !.full = FALSE]
  /\ line' = FALSE
  /\ Notify
  /\ guest' = IF ctl.full /\ ctl.scan THEN Decode(ctl.output) ELSE guest
  /\ UNCHANGED <<task, channel, kbd, events, open, phase, budget>>

(* A write while the input register is full is ignored.                    *)
Write(kind, byte) ==
  /\ phase = "idle" /\ budget.writes > 0
  /\ ctl.input = NoInput
  /\ ctl' = [ctl EXCEPT !.input = [kind |-> kind, byte |-> byte]]
  /\ Notify
  /\ budget' = [budget EXCEPT !.writes = @ - 1]
  /\ UNCHANGED <<task, line, channel, kbd, events, open, phase, guest>>

(***************************************************************************)
(* The host and the clock.                                                 *)
(***************************************************************************)

SendEvent(event) ==
  /\ open /\ budget.events > 0
  /\ events' = Append(events, event)
  /\ open' = (event.type # "closed")
  /\ budget' = [budget EXCEPT !.events = @ - 1]
  /\ woken' = TRUE
  /\ UNCHANGED <<ctl, task, line, channel, kbd, phase, guest>>

RepeatDue ==
  /\ phase = "idle"
  /\ kbd.repeat # NoKey /\ ~kbd.due
  /\ kbd' = [kbd EXCEPT !.due = TRUE]
  /\ woken' = TRUE
  /\ UNCHANGED <<ctl, task, line, channel, events, open, phase, budget, guest>>

(***************************************************************************)
(* The controller's task.                                                  *)
(***************************************************************************)

Poll ==
  /\ phase = "idle" /\ woken
  /\ phase' = "controller" /\ woken' = FALSE
  /\ UNCHANGED <<ctl, task, line, channel, kbd, events, open, budget, guest>>

ControllerTakes ==
  /\ phase = "controller" /\ ctl.input # NoInput
  /\ ctl' = [ctl EXCEPT !.input = NoInput]
  /\ UNCHANGED <<line, channel, kbd, events, open, phase, woken, budget, guest>>

(* receive at the top of run: data goes to the keyboard.                   *)
ControllerReceive ==
  /\ task.pc = "receive"
  /\ ControllerTakes
  /\ task' = At(IF ctl.input.kind = "data" THEN "forward" ELSE "command", ctl.input.byte)

Forward ==
  /\ phase = "controller" /\ task.pc = "forward" /\ Len(channel) < 1
  /\ channel' = Append(channel, task.byte)
  /\ task' = Receiving
  /\ woken' = TRUE
  /\ UNCHANGED <<ctl, line, kbd, events, open, phase, budget, guest>>

(* A controller command is done: update_irq and changed.notify.            *)
FinishCommand(registers) ==
  /\ ctl' = registers
  /\ UpdateIrq(registers)
  /\ task' = Receiving
  /\ woken' = (woken \/ Outgoing(kbd) # <<>>)
  /\ UNCHANGED <<channel, kbd, events, open, phase, budget, guest>>

ContinueCommand(registers, next) ==
  /\ ctl' = registers
  /\ task' = next
  /\ UNCHANGED <<line, channel, kbd, events, open, phase, woken, budget, guest>>

ControllerCommand ==
  /\ phase = "controller" /\ task.pc = "command"
  /\ LET c == task.byte
     IN  \/ c = \h20 /\ ContinueCommand(ctl, At("reply", ctl.commandByte))
         \/ c = \h60 /\ ContinueCommand(ctl, At("option", c))
         \/ c = \hD2 /\ ContinueCommand(ctl, At("option", c))
         \/ c = \hAA /\ ContinueCommand([ctl EXCEPT !.commandByte = WithBit(@, SystemInitialized)],
                                        At("reply", \h55))
         \/ c = \hAB /\ ContinueCommand(ctl, At("reply", 0))
         \/ c = \hAD /\ FinishCommand([ctl EXCEPT !.commandByte = WithBit(@, InterfaceDisabled)])
         \/ c = \hAE /\ FinishCommand([ctl EXCEPT !.commandByte = WithoutBit(@, InterfaceDisabled)])
         \/ c \notin {\h20, \h60, \hD2, \hAA, \hAB, \hAD, \hAE} /\ FinishCommand(ctl)

(* A command replaces the option it waits for.                             *)
ReplaceOption ==
  /\ task.pc = "option" /\ ctl.input.kind = "command"
  /\ ControllerTakes
  /\ task' = At("command", ctl.input.byte)

TakeOption ==
  /\ phase = "controller" /\ task.pc = "option" /\ ctl.input.kind = "data"
  /\ LET value == ctl.input.byte
         taken == [ctl EXCEPT !.input = NoInput]
     IN  IF task.byte = \h60
         THEN FinishCommand([taken EXCEPT
                !.commandByte = value,
                !.breakPrefix = @ /\ Translating(value) = Translating(ctl.commandByte)])
         ELSE ContinueCommand(taken, At("reply", value))

(* send, from the controller: it waits for an empty output register.       *)
ControllerReply ==
  /\ phase = "controller" /\ task.pc = "reply" /\ ~ctl.full
  /\ FinishCommand([ctl EXCEPT !.output = task.byte, !.full = TRUE, !.scan = FALSE])

ControllerWaits ==
  CASE task.pc \in {"receive", "option"} -> ctl.input = NoInput
    [] task.pc = "forward" -> Len(channel) = 1
    [] task.pc = "reply" -> ctl.full
    [] OTHER -> FALSE

ControllerPending ==
  /\ phase = "controller" /\ ControllerWaits
  /\ phase' = "keyboard"
  /\ UNCHANGED <<ctl, task, line, channel, kbd, events, open, woken, budget, guest>>

Controller ==
  \/ ControllerReceive \/ Forward \/ ControllerCommand
  \/ ReplaceOption \/ TakeOption \/ ControllerReply \/ ControllerPending

(***************************************************************************)
(* The keyboard's task: transfer's select_biased over commands, output,    *)
(* events and the repeat timer, in that order.                             *)
(***************************************************************************)

CanSend == Outgoing(kbd) # <<>> /\ ~ctl.full /\ ~Disabled

(* Receiving a command wakes a sender that waits for the channel.          *)
KeyboardCommand ==
  /\ phase = "keyboard" /\ channel # <<>>
  /\ kbd' = Accept(kbd, Head(channel))
  /\ channel' = Tail(channel)
  /\ woken' = (woken \/ task.pc = "forward")
  /\ UNCHANGED <<ctl, task, line, events, open, phase, budget, guest>>

(* send, from the keyboard: a translated break prefix is held back and     *)
(* folded into the code that follows it.                                   *)
Deliver(byte) ==
  LET translated == WithHighBit(Translate(byte))
      registers == [ctl EXCEPT !.full = TRUE, !.scan = kbd.replies = <<>>]
  IN  IF ~Translating(ctl.commandByte) THEN [registers EXCEPT !.output = byte]
      ELSE IF byte = BreakPrefix THEN [ctl EXCEPT !.breakPrefix = TRUE]
      ELSE [registers EXCEPT !.output = IF ctl.breakPrefix THEN translated ELSE Translate(byte),
                             !.breakPrefix = FALSE]

KeyboardSend ==
  /\ phase = "keyboard" /\ channel = <<>> /\ CanSend
  /\ ctl' = Deliver(Outgoing(kbd)[1])
  /\ IF ctl'.full THEN UpdateIrq(ctl') ELSE line' = line
  /\ kbd' = Sent(kbd)
  /\ UNCHANGED <<task, channel, events, open, phase, woken, budget, guest>>

KeyboardEvent ==
  /\ phase = "keyboard" /\ channel = <<>> /\ ~CanSend
  /\ events # <<>>
  /\ kbd' = Event(kbd, Head(events))
  /\ events' = Tail(events)
  /\ UNCHANGED <<ctl, task, line, channel, open, phase, woken, budget, guest>>

KeyboardRepeat ==
  /\ phase = "keyboard" /\ channel = <<>> /\ ~CanSend /\ events = <<>>
  /\ kbd.due
  /\ kbd' = Repeat(kbd, ctl.full \/ Disabled)
  /\ UNCHANGED <<ctl, task, line, channel, events, open, phase, woken, budget, guest>>

KeyboardPending ==
  /\ phase = "keyboard" /\ channel = <<>> /\ ~CanSend /\ events = <<>> /\ ~kbd.due
  /\ phase' = "idle"
  /\ UNCHANGED <<ctl, task, line, channel, kbd, events, open, woken, budget, guest>>

Keyboard ==
  \/ KeyboardCommand \/ KeyboardSend \/ KeyboardEvent \/ KeyboardRepeat \/ KeyboardPending

Firmware == Poll \/ Controller \/ Keyboard

Next ==
  \/ Firmware
  \/ ReadData
  \/ \E b \in GuestData : Write("data", b)
  \/ \E b \in GuestCommands : Write("command", b)
  \/ \E e \in HostEvents : SendEvent(e)
  \/ RepeatDue

(* A woken activity is polled to its next wait.  The guest runs between    *)
(* polls, again and again, and reads port 60h when a byte is ready: strong *)
(* fairness, since each poll suspends it.                                  *)
Fairness == WF_vars(Firmware) /\ SF_vars(ctl.full /\ ReadData)

Spec == Init /\ [][Next]_vars
FairSpec == Spec /\ Fairness

-----------------------------------------------------------------------------
(* Once everything the keyboard sent has been read, the guest holds down   *)
(* exactly the keys that are physically down, whatever commands, replies,  *)
(* paused scans, repeats and focus changes came in between, unless a       *)
(* transition was discarded (an overrun, a command that clears the buffer, *)
(* scanning disabled).                                                     *)
NoStuckKeys ==
  /\ kbd.scans = <<>> /\ ~ctl.full /\ ~kbd.isPaused /\ ~kbd.lost
  => guest.keys = kbd.held \cap DOMAIN KEYS

(* A scan sequence is never cut: the buffer never ends in a prefix, and    *)
(* the translator never holds a break prefix while the guest runs, when a  *)
(* reply or a disabled interface could come before the code it belongs to. *)
SequencesAreWhole ==
  /\ Len(kbd.scans) <= ScanLimit
  /\ kbd.scans # <<>> => Last(kbd.scans) \notin {\hE0, \hE1, BreakPrefix}
  /\ phase = "idle" => ~ctl.breakPrefix

(* IRQ1 follows the output register and the guest's enable bit whenever    *)
(* the guest can look.                                                     *)
IrqFollowsOutput == phase = "idle" => line = (ctl.full /\ IrqEnabled)

(* A guest that reads what is ready finds the input register accepting     *)
(* again, and all replies, scans and host events delivered, over and over, *)
(* unless it keeps the interface disabled.                                 *)
TrafficDrains ==
  /\ []<>(ctl.input = NoInput)
  /\ []<>(\/ Disabled
          \/ /\ channel = <<>> /\ kbd.replies = <<>> /\ events = <<>>
             /\ kbd.scans = <<>> \/ kbd.after = "option"
             /\ kbd.isPaused => kbd.after = "option")
=============================================================================
