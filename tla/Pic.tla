-------------------------------- MODULE Pic ---------------------------------
(***************************************************************************)
(* The master 8259A of crates/pic: its registers, the commands the guest   *)
(* writes to ports 20h and 21h, the lines peripherals drive, and the waker *)
(* through which it tells a CPU that waits in poll_interrupt.              *)
(*                                                                         *)
(* Every operation runs on the execution owner, so one operation is one    *)
(* action.  A byte is the set of its one bits; a command is the record of  *)
(* the fields the code decodes from it.                                    *)
(***************************************************************************)
EXTENDS Integers

CONSTANTS
  IrqCount,   \* number of interrupt inputs (8)
  Icw1s,      \* ICW1 commands: [level, single, icw4 : BOOLEAN]
  Ocw2s,      \* OCW2 commands: [eoi, specific, rotate : BOOLEAN, irq : Irqs]
  Ocw3s,      \* OCW3 commands: [select, inService, change, special, poll : BOOLEAN]
  DataBytes,  \* bytes the guest writes to the data port, as sets of bits
  Bases,      \* vector bases the guest writes with ICW2
  BiosBase    \* the vector base of Pic::default

Irqs == 0..(IrqCount - 1)
AutoEoiBit == 1

ASSUME PicAssumption ==
  /\ IrqCount \in Nat \ {0}
  /\ Icw1s \subseteq [level : BOOLEAN, single : BOOLEAN, icw4 : BOOLEAN]
  /\ Ocw2s \subseteq [eoi : BOOLEAN, specific : BOOLEAN, rotate : BOOLEAN, irq : Irqs]
  /\ Ocw3s \subseteq [select : BOOLEAN, inService : BOOLEAN, change : BOOLEAN,
                      special : BOOLEAN, poll : BOOLEAN]
  /\ DataBytes \subseteq SUBSET Irqs
  /\ BiosBase \in Bases /\ 0 \in Bases

VARIABLES
  pic,      \* the Controller's registers
  waker,    \* Controller.waker is Some
  waiting,  \* the CPU's last poll_interrupt was Pending
  woken     \* that waker has been woken since

vars == <<pic, waker, waiting, woken>>

(* Initialization: the command words the data port still expects, taken in *)
(* this order; none in normal operation (Ready).                           *)
CommandWords == {"VectorBase", "Cascade", "Mode"}

Controllers ==
  [base : Bases, mask : SUBSET Irqs, requests : SUBSET Irqs,
   inService : SUBSET Irqs, levels : SUBSET Irqs, highest : Irqs,
   levelTriggered : BOOLEAN, autoEoi : BOOLEAN, rotateOnAutoEoi : BOOLEAN,
   specialMask : BOOLEAN, readInService : BOOLEAN, pollPending : BOOLEAN,
   initialization : SUBSET CommandWords]

New(base) ==
  [base |-> base, mask |-> Irqs, requests |-> {}, inService |-> {},
   levels |-> {}, highest |-> 0, levelTriggered |-> FALSE, autoEoi |-> FALSE,
   rotateOnAutoEoi |-> FALSE, specialMask |-> FALSE, readInService |-> FALSE,
   pollPending |-> FALSE, initialization |-> {}]

-----------------------------------------------------------------------------
(* Arbitration. *)

(* Rank zero is the highest priority; rotation wraps around the inputs.    *)
Rank(c, i) == (i - c.highest) % IrqCount

BlockingService(c) ==
  IF c.specialMask THEN c.inService \ c.mask ELSE c.inService

(* highest_priority(bits) = Some(i) *)
Highest(c, bits, i) == i \in bits /\ \A j \in bits : Rank(c, i) <= Rank(c, j)

(* Mutant: an interrupt in service blocks nothing. *)
NextIrqUnblocked(c, i) ==
  /\ c.initialization = {}
  /\ Highest(c, c.requests \ c.mask, i)

(* next_irq() = Some(i) *)
NextIrq(c, i) ==
  /\ c.initialization = {}
  /\ Highest(c, c.requests \ c.mask, i)
  /\ \A j \in BlockingService(c) : Rank(c, i) < Rank(c, j)

HasNext(c) == \E i \in Irqs : NextIrq(c, i)

(* Mutant: rotation does not wrap. *)
SetLowestUnwrapped(c, i) == [c EXCEPT !.highest = i + 1]

(* set_lowest_priority *)
SetLowest(c, i) == [c EXCEPT !.highest = (i + 1) % IrqCount]

RefreshLevels(c) ==
  IF c.levelTriggered THEN [c EXCEPT !.requests = c.levels] ELSE c

(* Mutant: acknowledge() forgets that a line is still asserted. *)
AcknowledgedOnce(c, i) ==
  IF c.autoEoi THEN [c EXCEPT !.requests = @ \ {i}]
  ELSE [c EXCEPT !.requests = @ \ {i}, !.inService = @ \cup {i}]

(* acknowledge(), when next_irq() is i. *)
Acknowledged(c, i) ==
  LET taken == [c EXCEPT !.requests = @ \ {i}]
      served == IF ~c.autoEoi THEN [taken EXCEPT !.inService = @ \cup {i}]
                ELSE IF c.rotateOnAutoEoi THEN SetLowest(taken, i)
                ELSE taken
  IN  RefreshLevels(served)

RecordLevel(c, i, high) ==
  RefreshLevels([c EXCEPT !.levels = IF high THEN @ \cup {i} ELSE @ \ {i}])

(* Mutant: lowering a line withdraws its latched edge. *)
SetLevelUnlatched(c, i, high) ==
  RecordLevel([c EXCEPT !.requests = IF high THEN @ \cup {i} ELSE @ \ {i}], i, high)

SetLevel(c, i, high) ==
  LET edge == IF high /\ i \notin c.levels THEN {i} ELSE {}
  IN  RecordLevel([c EXCEPT !.requests = @ \cup edge], i, high)

-----------------------------------------------------------------------------
(* Guest commands. *)

(* ICW1 resets every register but the lines' levels (and the waker). *)
Initialize(c, v) ==
  [New(0) EXCEPT
     !.levels = c.levels, !.mask = {}, !.levelTriggered = v.level,
     !.initialization = {"VectorBase"} \cup (IF v.single THEN {} ELSE {"Cascade"})
                                      \cup (IF v.icw4 THEN {"Mode"} ELSE {})]

(* The interrupt an EOI command ends: the one it names, or the active one  *)
(* of highest priority.                                                    *)
Ends(c, v, i) == IF v.specific THEN i = v.irq ELSE Highest(c, BlockingService(c), i)

(* Mutant: an EOI never rotates. *)
EndWithoutRotation(c, v, i) == [c EXCEPT !.inService = @ \ {i}]

EndOfInterrupt(c, v, i) ==
  LET ended == [c EXCEPT !.inService = @ \ {i}]
  IN  IF v.rotate THEN SetLowest(ended, i) ELSE ended

WriteOcw2(c, v) ==
  IF v.eoi
  THEN IF \E i \in Irqs : Ends(c, v, i)
       THEN EndOfInterrupt(c, v, CHOOSE i \in Irqs : Ends(c, v, i))
       ELSE c
  ELSE IF ~v.specific THEN [c EXCEPT !.rotateOnAutoEoi = v.rotate]
  ELSE IF v.rotate THEN SetLowest(c, v.irq)
  ELSE c

WriteOcw3(c, v) ==
  [c EXCEPT !.readInService = IF v.select THEN v.inService ELSE @,
            !.specialMask = IF v.change THEN v.special ELSE @,
            !.pollPending = v.poll]

(* data(): the mask in normal operation, else the next command word. *)
Data(c, byte, base) ==
  LET words == c.initialization
  IN  RefreshLevels(
        IF words = {} THEN [c EXCEPT !.mask = byte]
        ELSE IF "VectorBase" \in words
        THEN [c EXCEPT !.base = base, !.initialization = words \ {"VectorBase"}]
        ELSE IF "Cascade" \in words
        THEN [c EXCEPT !.initialization = words \ {"Cascade"}]
        ELSE [c EXCEPT !.autoEoi = AutoEoiBit \in byte, !.initialization = {}])

-----------------------------------------------------------------------------
(* Operations. *)

Init ==
  /\ pic = New(BiosBase)
  /\ waker = FALSE /\ waiting = FALSE /\ woken = FALSE

(* Pic::update: after a change, take the waker and wake it if an interrupt *)
(* can be delivered.  States are those the change goes through.            *)
Update(states, last) ==
  LET wakes == waker /\ \E c \in states : HasNext(c)
  IN  /\ pic' = last
      /\ waker' = (waker /\ ~wakes)
      /\ woken' = (woken \/ wakes)
      /\ UNCHANGED waiting

Change(c) == Update({c}, c)

UnmaskIrq(i) == Change([pic EXCEPT !.mask = @ \ {i}])

(* Pic::irq connects a line at its present level. *)
ConnectIrq(i, high) == Change(RecordLevel(pic, i, high))

SetIrqLevel(i, high) == Change(SetLevel(pic, i, high))

(* IrqLine::pulse makes three transitions, each of them an update. *)
Pulse(i) ==
  LET low == SetLevel(pic, i, FALSE)
      up == SetLevel(low, i, TRUE)
      down == SetLevel(up, i, FALSE)
  IN  Update({low, up, down}, down)

WriteIcw1(v) == Change(Initialize(pic, v))
(* Mutant: an EOI changes the registers without a call of update. *)
WriteCommand2Silent(v) ==
  pic' = WriteOcw2(pic, v) /\ UNCHANGED <<waker, waiting, woken>>

WriteCommand2(v) == Change(WriteOcw2(pic, v))
WriteCommand3(v) == Change(WriteOcw3(pic, v))
WriteData(byte, base) == Change(Data(pic, byte, base))

(* A read of the command port: after a poll command it acknowledges, with  *)
(* no call of update; otherwise it only reads a register.                  *)
ReadCommand ==
  LET c == [pic EXCEPT !.pollPending = FALSE]
  IN  /\ pic.pollPending
      /\ \/ \E i \in Irqs : NextIrq(c, i) /\ pic' = Acknowledged(c, i)
         \/ ~HasNext(c) /\ pic' = c
      /\ UNCHANGED <<waker, waiting, woken>>

(* poll_interrupt: leave the CPU's waker, then acknowledge or wait. *)
PollInterrupt ==
  /\ waker' = TRUE /\ woken' = FALSE
  /\ \/ \E i \in Irqs :
          NextIrq(pic, i) /\ pic' = Acknowledged(pic, i) /\ waiting' = FALSE
     \/ ~HasNext(pic) /\ waiting' = TRUE /\ UNCHANGED pic

Next ==
  \/ \E i \in Irqs : UnmaskIrq(i) \/ Pulse(i)
  \/ \E i \in Irqs, high \in BOOLEAN : ConnectIrq(i, high) \/ SetIrqLevel(i, high)
  \/ \E v \in Icw1s : WriteIcw1(v)
  \/ \E v \in Ocw2s : WriteCommand2(v)
  \/ \E v \in Ocw3s : WriteCommand3(v)
  \/ \E byte \in DataBytes, base \in Bases : WriteData(byte, base)
  \/ ReadCommand
  \/ PollInterrupt

Spec == Init /\ [][Next]_vars

-----------------------------------------------------------------------------
(* Type invariant. *)
TypeOK ==
  /\ pic \in Controllers
  /\ waker \in BOOLEAN /\ waiting \in BOOLEAN /\ woken \in BOOLEAN

(* A CPU that waits in poll_interrupt has been woken as soon as an         *)
(* interrupt can be delivered, whichever operation made it deliverable: a  *)
(* line, an unmask, an EOI, a rotation, a change of mode or the end of an  *)
(* initialization sequence.                                                *)
NoLostIrq == waiting /\ HasNext(pic) => woken

(* In level-triggered mode the requests are the lines' levels whenever the *)
(* controller is out of initialization.                                    *)
LevelsAreRequests ==
  pic.levelTriggered /\ pic.initialization = {} => pic.requests = pic.levels

(* Fully nested mode: an interrupt enters service only above everything    *)
(* that blocks it, so a non-specific EOI written before any other command  *)
(* ends just this interrupt ("higher priorities may nest").                *)
AcknowledgeNests ==
  [][\A i \in pic'.inService \ pic.inService :
       /\ i \in pic.requests \ pic.mask
       /\ Ends(pic', [eoi |-> TRUE, specific |-> FALSE, rotate |-> FALSE, irq |-> 0], i)
    ]_vars

(* An edge is latched until it is acknowledged: masking it, ending another *)
(* interrupt, rotating priorities or lowering its line keeps it.  Only a   *)
(* new initialization forgets it.                                          *)
EdgesAreKept ==
  [][\A i \in pic.requests \ pic'.requests :
       \/ pic.levelTriggered
       \/ "VectorBase" \in pic'.initialization
       \/ NextIrq(pic, i)
    ]_vars
=============================================================================
