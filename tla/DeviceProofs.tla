---------------------------- MODULE DeviceProofs ----------------------------
(***************************************************************************)
(* Proofs about two devices: the interrupt controller, for every number of *)
(* inputs and every set of guest commands, and the path from video memory  *)
(* to the display, for any blocks, pages, bytes and addresses.             *)
(***************************************************************************)
EXTENDS Pic, VgaCapture, TLAPS


(* The registers keep their types through every operation on them.         *)
LEMMA Operations ==
  ASSUME NEW c \in Controllers, NEW i \in Irqs
  PROVE  /\ RefreshLevels(c) \in Controllers
         /\ SetLowest(c, i) \in Controllers
         /\ Acknowledged(c, i) \in Controllers
         /\ \A high \in BOOLEAN : RecordLevel(c, i, high) \in Controllers
         /\ \A high \in BOOLEAN : SetLevel(c, i, high) \in Controllers
PROOF
<1> USE PicAssumption DEF Controllers, Irqs
<1>1. ASSUME NEW d \in Controllers  PROVE RefreshLevels(d) \in Controllers
  BY <1>1 DEF RefreshLevels
<1>2. ASSUME NEW d \in Controllers  PROVE SetLowest(d, i) \in Controllers
  <2>1. (i + 1) % IrqCount \in 0..(IrqCount - 1)  OBVIOUS
  <2> QED  BY <1>2, <2>1 DEF SetLowest
<1>3. Acknowledged(c, i) \in Controllers
  <2> DEFINE taken == [c EXCEPT !.requests = @ \ {i}]
  <2>1. taken \in Controllers  OBVIOUS
  <2>2. [taken EXCEPT !.inService = @ \cup {i}] \in Controllers  BY <2>1
  <2>3. SetLowest(taken, i) \in Controllers  BY <2>1, <1>2
  <2> QED  BY <1>1, <2>1, <2>2, <2>3 DEF Acknowledged
<1>4. ASSUME NEW d \in Controllers, NEW high \in BOOLEAN
      PROVE RecordLevel(d, i, high) \in Controllers
  <2>1. [d EXCEPT !.levels = IF high THEN @ \cup {i} ELSE @ \ {i}] \in Controllers
    OBVIOUS
  <2> QED  BY <1>1, <2>1 DEF RecordLevel
<1>5. ASSUME NEW high \in BOOLEAN  PROVE SetLevel(c, i, high) \in Controllers
  <2>1. \A e \in SUBSET Irqs : [c EXCEPT !.requests = @ \cup e] \in Controllers
    OBVIOUS
  <2> QED  BY <1>4, <2>1 DEF SetLevel
<1> QED
  BY <1>1, <1>2, <1>3, <1>4, <1>5
(* A new controller has them.                                              *)
LEMMA NewController == \A base \in Bases : New(base) \in Controllers
PROOF
<1>1. 0 \in Irqs /\ {} \subseteq Irqs /\ Irqs \subseteq Irqs  BY PicAssumption DEF Irqs
<1> QED
  BY <1>1 DEF New, Controllers

(* So they do through every command of the guest.                          *)
LEMMA Commands ==
  ASSUME NEW c \in Controllers
  PROVE  /\ \A v \in Icw1s : Initialize(c, v) \in Controllers
         /\ \A v \in Ocw2s : WriteOcw2(c, v) \in Controllers
         /\ \A v \in Ocw3s : WriteOcw3(c, v) \in Controllers
         /\ \A byte \in DataBytes, base \in Bases : Data(c, byte, base) \in Controllers
         /\ \A i \in Irqs : [c EXCEPT !.mask = @ \ {i}] \in Controllers
PROOF
<1>1. ASSUME NEW v \in Icw1s  PROVE Initialize(c, v) \in Controllers
  <2>1. New(0) \in Controllers  BY PicAssumption, NewController
  <2>2. v.level \in BOOLEAN /\ c.levels \in SUBSET Irqs  BY PicAssumption DEF Controllers
  <2>3. {"VectorBase"} \cup (IF v.single THEN {} ELSE {"Cascade"})
          \cup (IF v.icw4 THEN {"Mode"} ELSE {}) \in SUBSET CommandWords
    BY DEF CommandWords
  <2> QED  BY <2>1, <2>2, <2>3 DEF Initialize, Controllers
<1>2. ASSUME NEW v \in Ocw2s  PROVE WriteOcw2(c, v) \in Controllers
  <2>1. v.rotate \in BOOLEAN /\ v.irq \in Irqs  BY PicAssumption
  <2>2. ASSUME NEW i \in Irqs  PROVE EndOfInterrupt(c, v, i) \in Controllers
    <3>1. [c EXCEPT !.inService = @ \ {i}] \in Controllers  BY DEF Controllers
    <3> QED  BY <3>1, Operations DEF EndOfInterrupt
  <2>3. [c EXCEPT !.rotateOnAutoEoi = v.rotate] \in Controllers
    BY <2>1 DEF Controllers
  <2>4. SetLowest(c, v.irq) \in Controllers  BY <2>1, Operations
  <2> QED  BY <2>2, <2>3, <2>4 DEF WriteOcw2
<1>3. ASSUME NEW v \in Ocw3s  PROVE WriteOcw3(c, v) \in Controllers
  BY PicAssumption DEF WriteOcw3, Controllers
<1>4. ASSUME NEW byte \in DataBytes, NEW base \in Bases
      PROVE Data(c, byte, base) \in Controllers
  <2> DEFINE words == c.initialization
  <2>1. [c EXCEPT !.mask = byte] \in Controllers  BY PicAssumption DEF Controllers
  <2>2. [c EXCEPT !.base = base, !.initialization = words \ {"VectorBase"}] \in Controllers
    BY DEF Controllers
  <2>3. [c EXCEPT !.initialization = words \ {"Cascade"}] \in Controllers
    BY DEF Controllers
  <2>4. [c EXCEPT !.autoEoi = AutoEoiBit \in byte, !.initialization = {}] \in Controllers
    <3>1. ASSUME NEW b \in BOOLEAN
          PROVE  [c EXCEPT !.autoEoi = b, !.initialization = {}] \in Controllers
      BY DEF Controllers
    <3>2. (AutoEoiBit \in byte) \in BOOLEAN  OBVIOUS
    <3> HIDE DEF AutoEoiBit
    <3> QED  BY <3>1, <3>2, Zenon
  <2>5. 0 \in Irqs  BY PicAssumption DEF Irqs
  <2>6. \A d \in Controllers : RefreshLevels(d) \in Controllers  BY <2>5, Operations
  <2> QED  BY <2>1, <2>2, <2>3, <2>4, <2>6 DEF Data
<1>5. ASSUME NEW i \in Irqs  PROVE [c EXCEPT !.mask = @ \ {i}] \in Controllers
  BY DEF Controllers
<1> QED
  BY <1>1, <1>2, <1>3, <1>4, <1>5

(* In level-triggered mode every operation leaves the requests equal to    *)
(* the levels, or was given them so.                                       *)
Mirrors(c) == c.levelTriggered /\ c.initialization = {} => c.requests = c.levels

(* Every operation of the controller leaves or makes it so.                *)
LEMMA OperationsMirror ==
  ASSUME NEW c \in Controllers
  PROVE  /\ Mirrors(RefreshLevels(c))
         /\ \A i \in Irqs : Mirrors(Acknowledged(c, i))
         /\ \A i \in Irqs, high \in BOOLEAN : Mirrors(RecordLevel(c, i, high))
         /\ \A i \in Irqs, high \in BOOLEAN : Mirrors(SetLevel(c, i, high))
         /\ \A v \in Icw1s : Mirrors(Initialize(c, v))
         /\ \A byte \in DataBytes, base \in Bases : Mirrors(Data(c, byte, base))
         /\ Mirrors(c) => \A v \in Ocw2s : Mirrors(WriteOcw2(c, v))
         /\ Mirrors(c) => \A v \in Ocw3s : Mirrors(WriteOcw3(c, v))
         /\ Mirrors(c) => \A i \in Irqs : Mirrors([c EXCEPT !.mask = @ \ {i}])
PROOF
<1>1. ASSUME NEW d \in Controllers  PROVE Mirrors(RefreshLevels(d))
  BY DEF Mirrors, RefreshLevels, Controllers
<1>2. ASSUME NEW i \in Irqs  PROVE Mirrors(Acknowledged(c, i))
  BY DEF Mirrors, Acknowledged, RefreshLevels, SetLowest, Controllers
<1>3. ASSUME NEW d \in Controllers, NEW i \in Irqs, NEW high \in BOOLEAN
      PROVE Mirrors(RecordLevel(d, i, high))
  BY DEF Mirrors, RecordLevel, RefreshLevels, Controllers
<1>4. ASSUME NEW i \in Irqs, NEW high \in BOOLEAN
      PROVE Mirrors(SetLevel(c, i, high))
  <2>1. \A e \in SUBSET Irqs : [c EXCEPT !.requests = @ \cup e] \in Controllers
    BY DEF Controllers
  <2> QED  BY <1>3, <2>1 DEF SetLevel
<1>5. ASSUME NEW v \in Icw1s  PROVE Mirrors(Initialize(c, v))
  BY DEF Mirrors, Initialize, New
<1>6. ASSUME NEW byte \in DataBytes, NEW base \in Bases
      PROVE Mirrors(Data(c, byte, base))
  BY DEF Mirrors, Data, RefreshLevels, Controllers
<1>7. ASSUME Mirrors(c), NEW v \in Ocw2s  PROVE Mirrors(WriteOcw2(c, v))
  BY <1>7 DEF Mirrors, WriteOcw2, EndOfInterrupt, SetLowest, Controllers
<1>8. ASSUME Mirrors(c), NEW v \in Ocw3s  PROVE Mirrors(WriteOcw3(c, v))
  BY <1>8 DEF Mirrors, WriteOcw3, Controllers
<1>9. ASSUME Mirrors(c), NEW i \in Irqs  PROVE Mirrors([c EXCEPT !.mask = @ \ {i}])
  BY <1>9 DEF Mirrors, Controllers
<1> QED
  BY <1>1, <1>2, <1>3, <1>4, <1>5, <1>6, <1>7, <1>8, <1>9

-----------------------------------------------------------------------------
(* A waiting CPU that has not been woken has its waker with the controller. *)
IInv ==
  /\ TypeOK
  /\ Mirrors(pic)
  /\ waiting /\ ~woken => waker /\ ~HasNext(pic)

(* update keeps the invariant whatever well-formed change it is given.     *)
LEMMA UpdateKeeps ==
  ASSUME IInv, NEW c \in Controllers, Mirrors(c), NEW S, c \in S, Update(S, c)
  PROVE  IInv'
PROOF
<1>1. TypeOK'  BY DEF IInv, TypeOK, Update
<1>2. Mirrors(pic)'  BY DEF Update
<1>3. (waiting /\ ~woken => waker /\ ~HasNext(pic))'
  <2> SUFFICES ASSUME waiting, ~woken'  PROVE waker' /\ ~HasNext(pic)'
    BY DEF Update
  <2>1. ~woken /\ ~(waker /\ \E d \in S : HasNext(d)) /\ pic' = c
    BY DEF Update
  <2>2. waker  BY <2>1 DEF IInv
  <2>3. ~HasNext(c)  BY <2>1, <2>2
  <2>4. HasNext(pic)' = HasNext(c)  BY <2>1
  <2> QED  BY <2>1, <2>2, <2>3, <2>4 DEF Update
<1> QED
  BY <1>1, <1>2, <1>3 DEF IInv

(* The strengthened invariant holds in every reachable state.              *)
THEOREM Invariance == Spec => []IInv
PROOF
<1>1. Init => IInv
  <2> SUFFICES ASSUME Init  PROVE IInv
    OBVIOUS
  <2>1. pic \in Controllers  BY PicAssumption, NewController DEF Init
  <2>2. Mirrors(pic)  BY DEF Init, Mirrors, New
  <2> QED  BY <2>1, <2>2 DEF Init, IInv, TypeOK
<1>2. IInv /\ [Next]_vars => IInv'
  <2> SUFFICES ASSUME IInv, [Next]_vars  PROVE IInv'
    OBVIOUS
  <2>0. pic \in Controllers /\ Mirrors(pic)  BY DEF IInv, TypeOK
  <2>1. ASSUME NEW i \in Irqs, UnmaskIrq(i)  PROVE IInv'
    BY <2>0, <2>1, UpdateKeeps, Commands, OperationsMirror DEF UnmaskIrq, Change
  <2>2. ASSUME NEW i \in Irqs, Pulse(i)  PROVE IInv'
    <3> DEFINE low == SetLevel(pic, i, FALSE)
               up == SetLevel(low, i, TRUE)
               down == SetLevel(up, i, FALSE)
    <3>1. low \in Controllers  BY <2>0, Operations
    <3>2. up \in Controllers  BY <3>1, Operations
    <3>3. down \in Controllers /\ Mirrors(down)
      BY <3>2, Operations, OperationsMirror
    <3>4. Update({low, up, down}, down)  BY <2>2 DEF Pulse
    <3> HIDE DEF low, up, down
    <3> QED  BY <3>3, <3>4, UpdateKeeps
  <2>3. ASSUME NEW i \in Irqs, NEW high \in BOOLEAN, ConnectIrq(i, high)  PROVE IInv'
    BY <2>0, <2>3, UpdateKeeps, Operations, OperationsMirror DEF ConnectIrq, Change
  <2>4. ASSUME NEW i \in Irqs, NEW high \in BOOLEAN, SetIrqLevel(i, high)  PROVE IInv'
    BY <2>0, <2>4, UpdateKeeps, Operations, OperationsMirror DEF SetIrqLevel, Change
  <2>5. ASSUME NEW v \in Icw1s, WriteIcw1(v)  PROVE IInv'
    BY <2>0, <2>5, UpdateKeeps, Commands, OperationsMirror DEF WriteIcw1, Change
  <2>6. ASSUME NEW v \in Ocw2s, WriteCommand2(v)  PROVE IInv'
    BY <2>0, <2>6, UpdateKeeps, Commands, OperationsMirror DEF WriteCommand2, Change
  <2>7. ASSUME NEW v \in Ocw3s, WriteCommand3(v)  PROVE IInv'
    BY <2>0, <2>7, UpdateKeeps, Commands, OperationsMirror DEF WriteCommand3, Change
  <2>8. ASSUME NEW byte \in DataBytes, NEW base \in Bases, WriteData(byte, base)
        PROVE IInv'
    BY <2>0, <2>8, UpdateKeeps, Commands, OperationsMirror DEF WriteData, Change
  <2>9. CASE ReadCommand
    <3> DEFINE c == [pic EXCEPT !.pollPending = FALSE]
    <3>1. c \in Controllers /\ Mirrors(c)  BY <2>0 DEF Controllers, Mirrors
    <3>2. \A i \in Irqs : NextIrq(c, i) <=> NextIrq(pic, i)
      BY <2>0 DEF NextIrq, Highest, BlockingService, Rank, Controllers
    <3>3. HasNext(c) <=> HasNext(pic)  BY <3>2 DEF HasNext
    <3>4. ASSUME NEW i \in Irqs, NextIrq(c, i), pic' = Acknowledged(c, i)
          PROVE IInv'
      <4>1. TypeOK'  BY <3>1, <3>4, <2>9, Operations DEF ReadCommand, IInv, TypeOK
      <4>2. Mirrors(pic)'  BY <3>1, <3>4, OperationsMirror
      <4>3. HasNext(pic)  BY <3>2, <3>4 DEF HasNext
      <4> QED  BY <4>1, <4>2, <4>3, <2>9 DEF ReadCommand, IInv
    <3>5. ASSUME ~HasNext(c), pic' = c  PROVE IInv'
      <4>1. HasNext(pic)' = HasNext(c)  BY <3>5
      <4> QED  BY <3>1, <3>5, <4>1, <2>9, <3>3 DEF ReadCommand, IInv, TypeOK
    <3> QED  BY <3>4, <3>5, <2>9 DEF ReadCommand
  <2>10. CASE PollInterrupt
    <3>1. ASSUME NEW i \in Irqs, pic' = Acknowledged(pic, i), waiting' = FALSE
          PROVE IInv'
      BY <2>0, <2>10, <3>1, Operations, OperationsMirror DEF PollInterrupt, IInv, TypeOK
    <3>2. ASSUME ~HasNext(pic), waiting' = TRUE, UNCHANGED pic  PROVE IInv'
      <4>1. HasNext(pic)' = HasNext(pic)  BY <3>2
      <4> QED  BY <2>0, <2>10, <3>2, <4>1 DEF PollInterrupt, IInv, TypeOK
    <3> QED  BY <3>1, <3>2, <2>10 DEF PollInterrupt
  <2>11. CASE UNCHANGED vars
    BY <2>11 DEF vars, IInv, TypeOK, Mirrors, HasNext, NextIrq, Highest,
                 BlockingService, Rank
  <2> QED
    BY <2>1, <2>2, <2>3, <2>4, <2>5, <2>6, <2>7, <2>8, <2>9, <2>10, <2>11 DEF Next
<1> QED
  BY <1>1, <1>2, PTL DEF Spec

(* The registers keep their types, whatever the guest writes.              *)
THEOREM TypeCorrect == Spec => []TypeOK
PROOF
<1>1. IInv => TypeOK  BY DEF IInv
<1> QED  BY <1>1, Invariance, PTL

(* A CPU waiting in poll_interrupt is woken whenever an interrupt becomes  *)
(* deliverable, for every number of inputs and every command: each         *)
(* operation that can make one deliverable goes through update, and the    *)
(* one that does not (a poll-mode read) acknowledges only what had already *)
(* woken it.                                                               *)
THEOREM IrqsAreKept == Spec => []NoLostIrq
PROOF
<1>1. IInv => NoLostIrq  BY DEF IInv, NoLostIrq
<1> QED  BY <1>1, Invariance, PTL

(* In level-triggered mode the requests follow the lines.                  *)
THEOREM LevelsFollowed == Spec => []LevelsAreRequests
PROOF
<1>1. IInv => LevelsAreRequests  BY DEF IInv, Mirrors, LevelsAreRequests
<1> QED  BY <1>1, Invariance, PTL
-----------------------------------------------------------------------------
(* What an operation may do to the latched edges of an edge-triggered      *)
(* controller and to the interrupts in service.                            *)
Keeps(c, d) == ~c.levelTriggered => c.requests \subseteq d.requests

(* Only an acknowledgement, ICW1 and a fall of a level take away.          *)
LEMMA OperationsKeep ==
  ASSUME NEW c \in Controllers
  PROVE  /\ \A i \in Irqs, high \in BOOLEAN :
              LET d == RecordLevel(c, i, high)
              IN  Keeps(c, d) /\ d.inService = c.inService
                  /\ d.levelTriggered = c.levelTriggered
         /\ \A i \in Irqs, high \in BOOLEAN :
              LET d == SetLevel(c, i, high)
              IN  Keeps(c, d) /\ d.inService = c.inService
                  /\ d.levelTriggered = c.levelTriggered
         /\ \A v \in Ocw2s : LET d == WriteOcw2(c, v)
              IN  Keeps(c, d) /\ d.inService \subseteq c.inService
         /\ \A v \in Ocw3s : LET d == WriteOcw3(c, v)
              IN  Keeps(c, d) /\ d.inService = c.inService
         /\ \A byte \in DataBytes, base \in Bases : LET d == Data(c, byte, base)
              IN  Keeps(c, d) /\ d.inService = c.inService
         /\ \A v \in Icw1s : LET d == Initialize(c, v)
              IN  "VectorBase" \in d.initialization /\ d.inService = {}
PROOF
<1>1. ASSUME NEW i \in Irqs, NEW high \in BOOLEAN
      PROVE LET d == RecordLevel(c, i, high)
            IN  Keeps(c, d) /\ d.inService = c.inService
                /\ d.levelTriggered = c.levelTriggered
  BY DEF Keeps, RecordLevel, RefreshLevels, Controllers
<1>2. ASSUME NEW i \in Irqs, NEW high \in BOOLEAN
      PROVE LET d == SetLevel(c, i, high)
            IN  Keeps(c, d) /\ d.inService = c.inService
                /\ d.levelTriggered = c.levelTriggered
  BY DEF Keeps, SetLevel, RecordLevel, RefreshLevels, Controllers
<1>3. ASSUME NEW v \in Ocw2s
      PROVE LET d == WriteOcw2(c, v)
            IN  Keeps(c, d) /\ d.inService \subseteq c.inService
  BY DEF Keeps, WriteOcw2, EndOfInterrupt, SetLowest, Controllers
<1>4. ASSUME NEW v \in Ocw3s
      PROVE LET d == WriteOcw3(c, v) IN Keeps(c, d) /\ d.inService = c.inService
  BY DEF Keeps, WriteOcw3, Controllers
<1>5. ASSUME NEW byte \in DataBytes, NEW base \in Bases
      PROVE LET d == Data(c, byte, base) IN Keeps(c, d) /\ d.inService = c.inService
  BY DEF Keeps, Data, RefreshLevels, Controllers
<1>6. ASSUME NEW v \in Icw1s
      PROVE LET d == Initialize(c, v)
            IN  "VectorBase" \in d.initialization /\ d.inService = {}
  BY DEF Initialize, New
<1> QED
  BY <1>1, <1>2, <1>3, <1>4, <1>5, <1>6

(* acknowledge() takes the one request that next_irq() named, puts it in   *)
(* service above all that blocks it, and touches no other edge.            *)
LEMMA AcknowledgeFacts ==
  ASSUME NEW c \in Controllers, NEW i \in Irqs, NextIrq(c, i)
  PROVE  LET d == Acknowledged(c, i)
             eoi == [eoi |-> TRUE, specific |-> FALSE, rotate |-> FALSE, irq |-> 0]
         IN  /\ ~c.levelTriggered => c.requests \ d.requests \subseteq {i}
             /\ d.inService \ c.inService \subseteq {i}
             /\ i \in c.requests \ c.mask
             /\ d.inService # c.inService => Ends(d, eoi, i)
PROOF
<1> DEFINE d == Acknowledged(c, i)
<1>1. ~c.levelTriggered => c.requests \ d.requests \subseteq {i}
  BY DEF Acknowledged, RefreshLevels, SetLowest, Controllers
<1>2. d.inService \ c.inService \subseteq {i}
  BY DEF Acknowledged, RefreshLevels, SetLowest, Controllers
<1>3. i \in c.requests \ c.mask
  BY DEF NextIrq, Highest
<1>4. ASSUME d.inService # c.inService  PROVE Highest(d, BlockingService(d), i)
  <2>1. /\ d.highest = c.highest /\ d.mask = c.mask /\ d.specialMask = c.specialMask
        /\ d.inService = c.inService \cup {i}
    BY <1>4 DEF Acknowledged, RefreshLevels, SetLowest, Controllers
  <2>2. BlockingService(d) = BlockingService(c) \cup {i}
    BY <2>1, <1>3 DEF BlockingService
  <2>3. \A j \in Irqs : Rank(d, j) = Rank(c, j) /\ Rank(c, j) \in Int
    BY <2>1, PicAssumption DEF Rank, Irqs, Controllers
  <2>4. BlockingService(c) \subseteq Irqs  BY DEF BlockingService, Controllers
  <2>5. \A j \in BlockingService(c) : Rank(c, i) < Rank(c, j)  BY DEF NextIrq
  <2> QED  BY <2>2, <2>3, <2>4, <2>5 DEF Highest
<1> QED
  BY <1>1, <1>2, <1>3, <1>4 DEF Ends

(* A poll-mode read arbitrates as if its poll command had not been given.  *)
LEMMA PollReadFacts ==
  ASSUME NEW c \in Controllers, NEW i \in Irqs
  PROVE  LET d == [c EXCEPT !.pollPending = FALSE]
         IN  /\ d \in Controllers
             /\ NextIrq(d, i) => NextIrq(c, i)
             /\ d.requests = c.requests /\ d.inService = c.inService
             /\ d.mask = c.mask /\ d.levelTriggered = c.levelTriggered
PROOF
  BY DEF NextIrq, Highest, BlockingService, Rank, Controllers

(* What every step does to edges and to service, in one statement.         *)
LEMMA StepFacts ==
  ASSUME TypeOK, [Next]_vars
  PROVE  \/ Keeps(pic, pic') /\ pic'.inService \subseteq pic.inService
         \/ "VectorBase" \in pic'.initialization /\ pic'.inService = {}
         \/ \E i \in Irqs, c \in Controllers :
              /\ NextIrq(pic, i) /\ NextIrq(c, i) /\ pic' = Acknowledged(c, i)
              /\ c.requests = pic.requests /\ c.inService = pic.inService
              /\ c.mask = pic.mask /\ c.levelTriggered = pic.levelTriggered
PROOF
<1>0. pic \in Controllers  BY DEF TypeOK
<1> USE <1>0
<1> DEFINE Quiet == Keeps(pic, pic') /\ pic'.inService \subseteq pic.inService
<1>1. ASSUME NEW i \in Irqs, UnmaskIrq(i)  PROVE Quiet
  BY <1>1 DEF UnmaskIrq, Change, Update, Keeps, Controllers
<1>2. ASSUME NEW i \in Irqs, Pulse(i)  PROVE Quiet
  <2> DEFINE Still(c, d) == /\ d \in Controllers /\ Keeps(c, d)
                            /\ d.inService = c.inService
                            /\ d.levelTriggered = c.levelTriggered
  <2>1. \A c \in Controllers, high \in BOOLEAN : Still(c, SetLevel(c, i, high))
    BY Operations, OperationsKeep
  <2>2. PICK low, up : /\ low = SetLevel(pic, i, FALSE)
                       /\ up = SetLevel(low, i, TRUE)
                       /\ pic' = SetLevel(up, i, FALSE)
    BY <1>2 DEF Pulse, Update
  <2> HIDE DEF Still
  <2>3. Still(pic, low)  BY <2>1, <2>2, Zenon
  <2>4. low \in Controllers  BY <2>3 DEF Still
  <2>5. Still(low, up)  BY <2>1, <2>2, <2>4, Zenon
  <2>6. up \in Controllers  BY <2>5 DEF Still
  <2>7. Still(up, pic')  BY <2>1, <2>2, <2>6, Zenon
  <2> QED  BY <2>3, <2>5, <2>7 DEF Still, Keeps
<1>3. ASSUME NEW i \in Irqs, NEW high \in BOOLEAN, ConnectIrq(i, high)  PROVE Quiet
  BY <1>3, OperationsKeep DEF ConnectIrq, Change, Update
<1>4. ASSUME NEW i \in Irqs, NEW high \in BOOLEAN, SetIrqLevel(i, high)  PROVE Quiet
  BY <1>4, OperationsKeep DEF SetIrqLevel, Change, Update
<1>5. ASSUME NEW v \in Icw1s, WriteIcw1(v)
      PROVE "VectorBase" \in pic'.initialization /\ pic'.inService = {}
  BY <1>5, OperationsKeep DEF WriteIcw1, Change, Update
<1>6. ASSUME NEW v \in Ocw2s, WriteCommand2(v)  PROVE Quiet
  BY <1>6, OperationsKeep DEF WriteCommand2, Change, Update
<1>7. ASSUME NEW v \in Ocw3s, WriteCommand3(v)  PROVE Quiet
  BY <1>7, OperationsKeep DEF WriteCommand3, Change, Update
<1>8. ASSUME NEW byte \in DataBytes, NEW base \in Bases, WriteData(byte, base)
      PROVE Quiet
  BY <1>8, OperationsKeep DEF WriteData, Change, Update
<1>9. CASE ReadCommand
  <2> DEFINE c == [pic EXCEPT !.pollPending = FALSE]
  <2>1. 0 \in Irqs  BY PicAssumption DEF Irqs
  <2>2. /\ c \in Controllers
        /\ \A i \in Irqs : NextIrq(c, i) => NextIrq(pic, i)
        /\ c.requests = pic.requests /\ c.inService = pic.inService
        /\ c.mask = pic.mask /\ c.levelTriggered = pic.levelTriggered
    BY <2>1, PollReadFacts
  <2>3. \/ \E i \in Irqs : NextIrq(c, i) /\ pic' = Acknowledged(c, i)
        \/ pic' = c
    BY <1>9 DEF ReadCommand
  <2> HIDE DEF c
  <2>4. CASE pic' = c  BY <2>2, <2>4 DEF Keeps
  <2> QED  BY <2>2, <2>3, <2>4
<1>10. CASE PollInterrupt
  <2>1. CASE UNCHANGED pic  BY <2>1 DEF Keeps
  <2> QED  BY <1>10, <2>1 DEF PollInterrupt
<1>11. CASE UNCHANGED vars  BY <1>11 DEF vars, Keeps
<1> HIDE DEF Quiet
<1>12. \/ Quiet
       \/ \E v \in Icw1s : WriteIcw1(v)
       \/ ReadCommand \/ PollInterrupt \/ UNCHANGED vars
  BY <1>1, <1>2, <1>3, <1>4, <1>6, <1>7, <1>8 DEF Next
<1> QED
  BY <1>5, <1>9, <1>10, <1>11, <1>12 DEF Quiet

(* An edge stays latched until it is acknowledged, whatever is masked,     *)
(* rotated or ended in the meantime; only ICW1 forgets it.                 *)
THEOREM EdgesLatched == Spec => EdgesAreKept
PROOF
<1> DEFINE A == \A i \in pic.requests \ pic'.requests :
                  \/ pic.levelTriggered
                  \/ "VectorBase" \in pic'.initialization
                  \/ NextIrq(pic, i)
<1>1. TypeOK /\ [Next]_vars => [A]_vars
  <2> SUFFICES ASSUME TypeOK, [Next]_vars  PROVE A
    OBVIOUS
  <2>1. CASE Keeps(pic, pic')  BY <2>1 DEF Keeps
  <2>2. ASSUME NEW i \in Irqs, NEW c \in Controllers, NextIrq(pic, i),
               NextIrq(c, i), pic' = Acknowledged(c, i),
               c.requests = pic.requests, c.levelTriggered = pic.levelTriggered
        PROVE A
    <3>1. ~c.levelTriggered => c.requests \ pic'.requests \subseteq {i}
      BY <2>2, AcknowledgeFacts
    <3> QED  BY <2>2, <3>1
  <2> QED  BY <2>1, <2>2, StepFacts
<1> QED
  BY <1>1, TypeCorrect, PTL DEF Spec, EdgesAreKept

(* An interrupt enters service only above everything that blocks it, so    *)
(* the next non-specific EOI ends just this one.                           *)
THEOREM ServiceNests == Spec => AcknowledgeNests
PROOF
<1> DEFINE eoi == [eoi |-> TRUE, specific |-> FALSE, rotate |-> FALSE, irq |-> 0]
           A == \A i \in pic'.inService \ pic.inService :
                  /\ i \in pic.requests \ pic.mask
                  /\ Ends(pic', eoi, i)
<1>1. TypeOK /\ [Next]_vars => [A]_vars
  <2> SUFFICES ASSUME TypeOK, [Next]_vars  PROVE A
    OBVIOUS
  <2>1. CASE pic'.inService \subseteq pic.inService \/ pic'.inService = {}
    BY <2>1
  <2>2. ASSUME NEW i \in Irqs, NEW c \in Controllers,
               NextIrq(c, i), pic' = Acknowledged(c, i),
               c.requests = pic.requests, c.inService = pic.inService,
               c.mask = pic.mask
        PROVE A
    <3>1. /\ pic'.inService \ c.inService \subseteq {i}
          /\ i \in c.requests \ c.mask
          /\ pic'.inService # c.inService => Ends(pic', eoi, i)
      BY <2>2, AcknowledgeFacts
    <3> HIDE DEF eoi
    <3> QED  BY <2>2, <3>1
  <2> QED  BY <2>1, <2>2, StepFacts
<1> QED
  BY <1>1, TypeCorrect, PTL DEF Spec, AcknowledgeNests
-----------------------------------------------------------------------------
(***************************************************************************)
(* Proof that the display shows what its capture sampled, for any blocks,  *)
(* pages, bytes and addresses.                                             *)
(*                                                                         *)
(* A capture is sound: its blocks still hold the bytes that were sampled,  *)
(* and its pages name every difference to its baseline.  The first because *)
(* a block somebody else holds is copied before it is written; the second  *)
(* because the pages that are dirty, those of a capture on its way to the  *)
(* frame source and those of the frame together name every difference      *)
(* between the frame's baseline and video memory, whichever side swaps     *)
(* first.  The buffers of the GPU hold the blocks it uploaded last.        *)
(***************************************************************************)

-----------------------------------------------------------------------------
(* Types. *)

Bytes == [Pages -> Values]
Memories == [VgaBlocks -> Addresses] \cup [Blocks -> Addresses]
Contents == [VgaBlocks -> Bytes] \cup [Blocks -> Bytes]
Changes == [baseline : Memories, pages : SUBSET (Blocks \X Pages)]
Scanouts == [kind : Kinds, start : Nat]
Captures == [scanout : Scanouts, dac : Nat, memory : Memories,
             changes : Changes \cup {Nothing}, bytes : Contents, sequence : Nat]
Renderers == [previous : Memories \cup {Nothing},
              state : [scanout : Scanouts, dac : Nat \cup {Nothing}] \cup {Nothing},
              frame : [scanout : Scanouts, sequence : Nat] \cup {Nothing},
              buffer : [Blocks -> Bytes \cup {Nothing}]]

MaybeCaptures == Captures \cup {Nothing}

Requests == {"none", "zero", "size"}

CaptureTypeOK ==
    /\ live \in [Blocks -> Addresses]
    /\ heap \in [Addresses -> Bytes]
    /\ dirty \subseteq Blocks \X Pages
    /\ regs \in [kind : Kinds, start : Nat, dac : Nat]
    /\ latched \in Nat
    /\ frame \in MaybeCaptures
    /\ sync \in [at : {"idle", "load", "swap", "notify"},
                 display : MaybeCaptures, loaded : MaybeCaptures]
    /\ taking \in [at : {"idle", "retry", "swap", "upload"}, loaded : MaybeCaptures]
    /\ gpu \in Renderers \cup {Nothing}
    /\ host \in [at : {"running", "lost", "failed"}, request : Requests, recovery : BOOLEAN]
    /\ used \in [changes : Nat, retraces : Nat]

-----------------------------------------------------------------------------
(* The inductive invariant. *)

BlocksOf(kind) == IF kind = "vga" THEN VgaBlocks ELSE Blocks

(* The blocks a capture shares still hold what was sampled.                *)
Intact(capture) ==
    /\ DOMAIN capture.memory = BlocksOf(capture.scanout.kind)
    /\ \A b \in DOMAIN capture.memory : heap[capture.memory[b]] = capture.bytes[b]

(* Its pages name what differs from its baseline.                          *)
Covers(capture) ==
    capture.changes # Nothing =>
        \A b \in DOMAIN capture.memory, p \in Pages :
            /\ b \in DOMAIN capture.changes.baseline
            /\ heap[capture.changes.baseline[b]][p] # heap[capture.memory[b]][p]
            => <<b, p>> \in capture.changes.pages

Sound(capture) == Intact(capture) /\ Covers(capture)

FrameIsSound == frame # Nothing => Sound(frame)
TakenIsSound ==
    /\ taking.at \in {"swap", "upload"} => taking.loaded # Nothing
    /\ taking.at = "upload" => Sound(taking.loaded)

(* The worker samples and publishes in one call of the guest's thread.     *)
InFlight == sync.at \in {"load", "swap"}
Sampled ==
    InFlight =>
        /\ sync.display # Nothing
        /\ dirty = {}
        /\ DOMAIN sync.display.memory = BlocksOf(sync.display.scanout.kind)
        /\ \A b \in DOMAIN sync.display.memory :
              sync.display.memory[b] = live[b] /\ sync.display.bytes[b] = heap[live[b]]
        /\ sync.display.changes = Nothing <=> frame = Nothing
        /\ frame # Nothing => sync.display.changes.baseline = frame.memory

(* What is marked since the frame was sampled.                             *)
Recent == IF InFlight /\ sync.display.changes # Nothing THEN sync.display.changes.pages ELSE dirty

DirtySinceFrame ==
    frame # Nothing =>
        \A b \in DOMAIN frame.memory, p \in Pages :
            heap[live[b]][p] # heap[frame.memory[b]][p] => <<b, p>> \in Recent

DirtySinceBaseline ==
    frame # Nothing /\ frame.changes # Nothing =>
        \A b \in DOMAIN frame.changes.baseline, p \in Pages :
            heap[live[b]][p] # heap[frame.changes.baseline[b]][p]
            => <<b, p>> \in frame.changes.pages \cup Recent

(* The buffers hold the blocks of the last upload.                         *)
BufferHolds ==
    gpu # Nothing /\ gpu.previous # Nothing =>
        \A b \in DOMAIN gpu.previous : gpu.buffer[b] = heap[gpu.previous[b]]

(* An image is the picture of the buffers as they are.                     *)
ImageIsDrawn ==
    image # Nothing =>
        /\ gpu # Nothing /\ gpu.previous # Nothing /\ gpu.state # Nothing
        /\ DOMAIN gpu.previous = BlocksOf(gpu.state.scanout.kind)
        /\ image = Picture(gpu.state, gpu.buffer, gpu.previous)

HostDraws ==
    /\ host.at = "running" <=> gpu # Nothing
    /\ taking.at # "idle" => host.at = "running"

CaptureInv ==
    /\ CaptureTypeOK
    /\ FrameIsSound /\ TakenIsSound
    /\ Sampled /\ DirtySinceFrame /\ DirtySinceBaseline
    /\ BufferHolds /\ ImageIsDrawn /\ HostDraws

-----------------------------------------------------------------------------
(* Lemmas about the operators. *)

(* Nothing is no capture, no change, no memory and no renderer.            *)
LEMMA NothingIsNone ==
    Nothing \notin Captures /\ Nothing \notin Changes /\ Nothing \notin Memories
    /\ Nothing \notin Renderers
<1>1. DOMAIN Nothing = {"none"}
    BY DEF Nothing
<1>2. Nothing \notin Memories
    BY <1>1, CaptureAssumption DEF Memories, Blocks
<1>3. Nothing \notin Changes
    BY <1>1 DEF Changes
<1>4. Nothing \notin Captures
    BY <1>1 DEF Captures
<1>5. Nothing \notin Renderers
    BY <1>1 DEF Renderers
<1> QED BY <1>2, <1>3, <1>4, <1>5

(* The memory of a capture names blocks and addresses.                     *)
LEMMA MemoryNames ==
    ASSUME NEW memory \in Memories, NEW b \in DOMAIN memory
    PROVE  b \in Blocks /\ memory[b] \in Addresses /\ memory[b] \in Range(memory)
BY DEF Memories, Blocks, Range

(* A fresh address is nobody's.                                            *)
LEMMA FreshIsFree ==
    ASSUME Room PROVE Fresh \in Addresses /\ Fresh \in Free
<1>1. \E address \in Addresses : address \in Free
    BY DEF Room, Free
<1> QED BY <1>1 DEF Fresh

(* What a capture holds, when it is one of those somebody keeps.           *)
LEMMA CaptureHolds ==
    ASSUME NEW capture \in Captures, Held(capture) \subseteq Elsewhere
    PROVE  /\ capture.memory \in Memories
           /\ \A b \in DOMAIN capture.memory : capture.memory[b] \in Elsewhere
           /\ capture.changes # Nothing =>
                 /\ capture.changes.baseline \in Memories
                 /\ capture.changes.pages \subseteq Blocks \X Pages
                 /\ \A b \in DOMAIN capture.changes.baseline :
                       capture.changes.baseline[b] \in Elsewhere
<1>1. capture # Nothing
    BY NothingIsNone
<1>2. capture.memory \in Memories
    BY DEF Captures
<1>3. ASSUME NEW b \in DOMAIN capture.memory PROVE capture.memory[b] \in Elsewhere
    BY <1>1, <1>2, <1>3, MemoryNames DEF Held
<1>4. ASSUME capture.changes # Nothing
      PROVE  /\ capture.changes.baseline \in Memories
             /\ capture.changes.pages \subseteq Blocks \X Pages
             /\ \A b \in DOMAIN capture.changes.baseline :
                   capture.changes.baseline[b] \in Elsewhere
    <2>1. capture.changes \in Changes
        BY <1>4 DEF Captures
    <2>2. capture.changes.baseline \in Memories /\ capture.changes.pages \subseteq Blocks \X Pages
        BY <2>1 DEF Changes
    <2>3. Range(capture.changes.baseline) \subseteq Elsewhere
        BY <1>1, <1>4 DEF Held
    <2> QED BY <2>2, <2>3, MemoryNames
<1> QED BY <1>2, <1>3, <1>4

-----------------------------------------------------------------------------
(* Writes to video memory. *)

(* A write changes no block that somebody else holds, and marks the pages  *)
(* of video memory that it changes.                                        *)
WriteKeeps ==
    /\ live' \in [Blocks -> Addresses] /\ heap' \in [Addresses -> Bytes]
    /\ dirty' \subseteq Blocks \X Pages /\ dirty \subseteq dirty'
    /\ \A address \in Elsewhere : heap'[address] = heap[address]
    /\ \A b \in Blocks, p \in Pages :
          heap'[live'[b]][p] = heap[live[b]][p] \/ <<b, p>> \in dirty'

(* Storage::write copies a shared block, and writes the other in place.    *)
LEMMA StorageWriteKeeps ==
    ASSUME CaptureTypeOK, NEW b \in Blocks, NEW p \in Pages, NEW v \in Values, StorageWrite(b, p, v)
    PROVE  WriteKeeps
<1> DEFINE at == IF Shared(b) THEN Fresh ELSE live[b]
<1> USE DEF CaptureTypeOK
<1>1. CASE heap[live[b]][p] = v
    BY <1>1 DEF StorageWrite, WriteKeeps
<1>2. CASE heap[live[b]][p] # v
    <2>1. /\ Room
          /\ heap' = [heap EXCEPT ![at] = [heap[live[b]] EXCEPT ![p] = v]]
          /\ live' = [live EXCEPT ![b] = at]
          /\ dirty' = dirty \cup {<<b, p>>}
        BY <1>2 DEF StorageWrite
    <2>2. at \in Addresses /\ at \notin Elsewhere
        BY <2>1, FreshIsFree DEF Shared, Free
    <2>3. \A c \in Blocks \ {b} : live[c] # at
        BY <2>1, FreshIsFree DEF Shared, Free, Range
    <2> HIDE DEF at
    <2>4. [heap[live[b]] EXCEPT ![p] = v] \in Bytes
        BY DEF Bytes
    <2>5. /\ live' \in [Blocks -> Addresses] /\ heap' \in [Addresses -> Bytes]
          /\ dirty' \subseteq Blocks \X Pages /\ dirty \subseteq dirty'
        BY <2>1, <2>2, <2>4
    <2>6. \A address \in Elsewhere : heap'[address] = heap[address]
        <3> SUFFICES ASSUME NEW address \in Elsewhere PROVE heap'[address] = heap[address]
            OBVIOUS
        <3>1. address # at
            BY <2>2
        <3> QED BY <2>1, <3>1
    <2>7. ASSUME NEW c \in Blocks, NEW q \in Pages
          PROVE  heap'[live'[c]][q] = heap[live[c]][q] \/ <<c, q>> \in dirty'
        <3>1. CASE c # b
            BY <2>1, <2>3, <3>1
        <3>2. CASE c = b /\ q # p
            <4>1. heap'[live'[c]] = [heap[live[b]] EXCEPT ![p] = v]
                BY <2>1, <2>2, <3>2
            <4> QED BY <3>2, <4>1 DEF Bytes
        <3>3. CASE c = b /\ q = p
            BY <2>1, <3>3
        <3> QED BY <3>1, <3>2, <3>3
    <2> QED BY <2>5, <2>6, <2>7 DEF WriteKeeps
<1> QED BY <1>1, <1>2

(* Storage::clear writes a block of its own and marks everything.          *)
LEMMA StorageClearKeeps ==
    ASSUME CaptureTypeOK, StorageClear
    PROVE  WriteKeeps
<1> USE DEF CaptureTypeOK
<1>1. Fresh \in Addresses /\ Fresh \notin Elsewhere
    BY FreshIsFree DEF StorageClear, Free
<1>2. Zero \in Bytes
    BY CaptureAssumption DEF Zero, Bytes
<1> QED BY <1>1, <1>2 DEF StorageClear, WriteKeeps

(* So everything that relates held blocks to video memory stays true.      *)
LEMMA WriteStep ==
    ASSUME CaptureInv, WriteKeeps, sync.at = "idle", CaptureTypeOK',
           UNCHANGED <<frame, sync, closed, display>>
    PROVE  CaptureInv'
<1>1. /\ frame' = frame /\ sync' = sync /\ taking' = taking /\ gpu' = gpu /\ image' = image
      /\ host' = host
    BY DEF display
<1>2. Held(frame) \subseteq Elsewhere /\ Held(taking.loaded) \subseteq Elsewhere
    BY DEF Elsewhere
<1>3. ~InFlight /\ ~InFlight' /\ Recent = dirty /\ Recent' = dirty'
    BY <1>1 DEF InFlight, Recent
<1>4. FrameIsSound'
    <2> SUFFICES ASSUME frame # Nothing PROVE Sound(frame)'
        BY <1>1 DEF FrameIsSound
    <2>1. frame \in Captures /\ Sound(frame)
        BY DEF CaptureInv, CaptureTypeOK, MaybeCaptures, FrameIsSound
    <2>2. Intact(frame)'
        BY <1>1, <1>2, <2>1, CaptureHolds DEF Sound, Intact, WriteKeeps
    <2>3. Covers(frame)'
        BY <1>1, <1>2, <2>1, CaptureHolds DEF Sound, Covers, WriteKeeps
    <2> QED BY <2>2, <2>3 DEF Sound
<1>5. TakenIsSound'
    <2> SUFFICES ASSUME taking.at = "upload" PROVE Sound(taking.loaded)'
        BY <1>1 DEF CaptureInv, TakenIsSound
    <2>1. taking.loaded # Nothing /\ taking.loaded \in Captures /\ Sound(taking.loaded)
        BY DEF CaptureInv, CaptureTypeOK, MaybeCaptures, TakenIsSound
    <2>2. Intact(taking.loaded)'
        BY <1>1, <1>2, <2>1, CaptureHolds DEF Sound, Intact, WriteKeeps
    <2>3. Covers(taking.loaded)'
        BY <1>1, <1>2, <2>1, CaptureHolds DEF Sound, Covers, WriteKeeps
    <2> QED BY <2>1, <2>2, <2>3 DEF Sound
<1>6. Sampled'
    BY <1>3 DEF Sampled
<1>7. DirtySinceFrame'
    <2> SUFFICES ASSUME frame # Nothing, NEW b \in DOMAIN frame.memory, NEW p \in Pages,
                        heap'[live'[b]][p] # heap'[frame.memory[b]][p]
                 PROVE  <<b, p>> \in dirty'
        BY <1>1, <1>3 DEF DirtySinceFrame
    <2>1. frame \in Captures
        BY DEF CaptureInv, CaptureTypeOK, MaybeCaptures
    <2>2. b \in Blocks /\ frame.memory[b] \in Elsewhere
        BY <1>2, <2>1, CaptureHolds, MemoryNames
    <2>3. heap[live[b]][p] # heap[frame.memory[b]][p] => <<b, p>> \in dirty
        BY <1>3 DEF CaptureInv, DirtySinceFrame
    <2> QED BY <2>2, <2>3 DEF WriteKeeps
<1>8. DirtySinceBaseline'
    <2> SUFFICES ASSUME frame # Nothing, frame.changes # Nothing,
                        NEW b \in DOMAIN frame.changes.baseline, NEW p \in Pages,
                        heap'[live'[b]][p] # heap'[frame.changes.baseline[b]][p]
                 PROVE  <<b, p>> \in frame.changes.pages \cup dirty'
        BY <1>1, <1>3 DEF DirtySinceBaseline
    <2>1. frame \in Captures
        BY DEF CaptureInv, CaptureTypeOK, MaybeCaptures
    <2>2. b \in Blocks /\ frame.changes.baseline[b] \in Elsewhere
        BY <1>2, <2>1, CaptureHolds, MemoryNames
    <2>3. heap[live[b]][p] # heap[frame.changes.baseline[b]][p]
            => <<b, p>> \in frame.changes.pages \cup dirty
        BY <1>3 DEF CaptureInv, DirtySinceBaseline
    <2> QED BY <2>2, <2>3 DEF WriteKeeps
<1>9. BufferHolds'
    <2> SUFFICES ASSUME gpu # Nothing, gpu.previous # Nothing, NEW b \in DOMAIN gpu.previous
                 PROVE  gpu.buffer[b] = heap'[gpu.previous[b]]
        BY <1>1 DEF BufferHolds
    <2>1. gpu.previous[b] \in Elsewhere
        BY DEF Elsewhere, Range
    <2> QED BY <2>1 DEF CaptureInv, BufferHolds, WriteKeeps
<1>10. ImageIsDrawn' /\ HostDraws'
    BY <1>1 DEF CaptureInv, ImageIsDrawn, HostDraws, Picture
<1> QED BY <1>4, <1>5, <1>6, <1>7, <1>8, <1>9, <1>10 DEF CaptureInv

-----------------------------------------------------------------------------
(* The execution worker. *)

(* A step that leaves video memory, the frame and the GPU alone, and       *)
(* neither takes nor samples a capture, keeps the invariant.               *)
LEMMA QuietStep ==
    ASSUME CaptureInv, CaptureTypeOK',
           UNCHANGED <<live, heap, dirty, frame, gpu, image>>, host'.at = host.at,
           sync' = sync \/ (~InFlight /\ ~InFlight'),
           \/ taking' = taking
           \/ /\ taking'.at # "upload" /\ host.at = "running"
              /\ taking'.at = "swap" => taking'.loaded # Nothing
    PROVE  CaptureInv'
<1>1. Recent' = Recent /\ (InFlight' => InFlight /\ sync' = sync)
    BY DEF Recent, InFlight
<1>2. FrameIsSound' /\ BufferHolds' /\ ImageIsDrawn' /\ HostDraws'
    BY DEF CaptureInv, FrameIsSound, Sound, Intact, Covers, BufferHolds, ImageIsDrawn, HostDraws,
           Picture
<1>3. TakenIsSound'
    BY DEF CaptureInv, TakenIsSound, Sound, Intact, Covers
<1>4. Sampled'
    BY <1>1 DEF CaptureInv, Sampled
<1>5. DirtySinceFrame' /\ DirtySinceBaseline'
    BY <1>1 DEF CaptureInv, DirtySinceFrame, DirtySinceBaseline
<1> QED BY <1>2, <1>3, <1>4, <1>5 DEF CaptureInv

(* The capture that a crossed retrace samples, if it is published.         *)
Sample ==
    [scanout |-> [kind |-> regs.kind, start |-> IF regs.kind = "vga" THEN regs.start ELSE 0],
     dac |-> regs.dac,
     memory |-> [b \in Captured |-> live[b]],
     changes |-> IF frame = Nothing THEN Nothing
                 ELSE [baseline |-> frame.memory, pages |-> dirty],
     bytes |-> [b \in Captured |-> heap[live[b]]],
     sequence |-> used.retraces]

(* It is a capture of the blocks its kind of scanout shows.                *)
LEMMA SampleType ==
    ASSUME CaptureTypeOK
    PROVE  Sample \in Captures /\ DOMAIN Sample.memory = BlocksOf(Sample.scanout.kind)
<1> USE DEF CaptureTypeOK
<1>1. Captured = BlocksOf(regs.kind)
    BY DEF Captured, BlocksOf
<1>2. [b \in Captured |-> live[b]] \in Memories
    BY <1>1 DEF BlocksOf, Memories, Blocks
<1>3. [b \in Captured |-> heap[live[b]]] \in Contents
    BY <1>1 DEF BlocksOf, Contents, Blocks
<1>4. [kind |-> regs.kind, start |-> IF regs.kind = "vga" THEN regs.start ELSE 0] \in Scanouts
    BY DEF Scanouts
<1>5. (IF frame = Nothing THEN Nothing ELSE [baseline |-> frame.memory, pages |-> dirty])
        \in Changes \cup {Nothing}
    BY DEF Changes, MaybeCaptures, Captures
<1>6. Sample \in Captures
    BY <1>2, <1>3, <1>4, <1>5 DEF Sample, Captures
<1>7. DOMAIN Sample.memory = BlocksOf(Sample.scanout.kind)
    BY <1>1 DEF Sample
<1> QED BY <1>6, <1>7

(* sync_to_clock: what is dirty becomes the pages of the capture.          *)
LEMMA SyncStep == ASSUME CaptureInv, SyncToClock PROVE CaptureInv'
<1> USE DEF CaptureInv, CaptureTypeOK
<1> DEFINE start == IF regs.kind = "vga" THEN regs.start ELSE latched
<1>1. /\ live' = live /\ heap' = heap /\ regs' = regs /\ frame' = frame /\ taking' = taking
      /\ gpu' = gpu /\ image' = image /\ host' = host /\ used' = used
      /\ sync.at = "idle" /\ latched' = start /\ start \in Nat
    BY DEF SyncToClock, display
<1>2. CASE frame # Nothing /\ SameInputs(Snapshot(start), frame)
    <2>1. dirty' = dirty /\ sync' = sync
        BY <1>2 DEF SyncToClock
    <2>2. CaptureTypeOK'
        BY <1>1, <2>1
    <2> QED BY <1>1, <2>1, <2>2, QuietStep
<1>3. CASE ~(frame # Nothing /\ SameInputs(Snapshot(start), frame))
    <2>1. dirty' = {} /\ sync' = [at |-> "load", loaded |-> Nothing, display |-> Sample]
        <3>1. /\ dirty' = {}
              /\ sync' = [at |-> "load", loaded |-> Nothing,
                          display |-> [scanout |-> Snapshot(start).scanout,
                                       dac |-> Snapshot(start).dac,
                                       memory |-> Snapshot(start).memory,
                                       changes |-> Snapshot(start).changes,
                                       bytes |-> [b \in Captured |-> heap[live[b]]],
                                       sequence |-> used.retraces]]
            BY <1>3 DEF SyncToClock
        <3> QED BY <3>1 DEF Snapshot, Sample
    <2>2. Sample \in Captures /\ DOMAIN Sample.memory = BlocksOf(Sample.scanout.kind)
        BY SampleType
    <2>3. CaptureTypeOK'
        BY <1>1, <2>1, <2>2 DEF MaybeCaptures
    <2>4. InFlight' /\ sync'.display = Sample /\ ~InFlight /\ Recent = dirty
        BY <1>1, <2>1 DEF InFlight, Recent
    <2>5. Sample.changes = Nothing <=> frame = Nothing
        <3>1. [baseline |-> frame.memory, pages |-> dirty] # Nothing
            BY DEF Nothing
        <3> QED BY <3>1 DEF Sample
    <2>6. frame # Nothing => Sample.changes = [baseline |-> frame.memory, pages |-> dirty]
        BY DEF Sample
    <2>7. Sampled'
        BY <1>1, <2>1, <2>2, <2>4, <2>5, <2>6, NothingIsNone DEF Sampled, Sample
    <2>8. frame # Nothing => Recent' = Recent
        BY <2>4, <2>5, <2>6 DEF Recent
    <2>9. DirtySinceFrame' /\ DirtySinceBaseline'
        BY <1>1, <2>8 DEF DirtySinceFrame, DirtySinceBaseline
    <2>10. FrameIsSound' /\ TakenIsSound'
        BY <1>1 DEF FrameIsSound, TakenIsSound, Sound, Intact, Covers
    <2>11. BufferHolds' /\ ImageIsDrawn' /\ HostDraws'
        BY <1>1 DEF BufferHolds, ImageIsDrawn, HostDraws, Picture
    <2> QED BY <2>3, <2>7, <2>9, <2>10, <2>11
<1> QED BY <1>2, <1>3

(* FrameSource::publish reads the frame, or reads it again.                *)
LEMMA ReloadStep ==
    ASSUME CaptureInv, InFlight, NEW loaded \in MaybeCaptures, NEW at \in {"load", "swap"},
           sync' = [sync EXCEPT !.at = at, !.loaded = loaded],
           UNCHANGED <<guest, frame, display, used>>
    PROVE  CaptureInv'
<1> USE DEF CaptureInv, CaptureTypeOK
<1>1. /\ live' = live /\ heap' = heap /\ dirty' = dirty /\ regs' = regs /\ latched' = latched
      /\ frame' = frame /\ taking' = taking /\ gpu' = gpu /\ image' = image /\ host' = host
      /\ used' = used
    BY DEF guest, display
<1>2. sync' \in [at : {"idle", "load", "swap", "notify"},
                 display : MaybeCaptures, loaded : MaybeCaptures]
    OBVIOUS
<1>3. sync'.at = at /\ sync'.display = sync.display
    OBVIOUS
<1>4. CaptureTypeOK'
    BY <1>1, <1>2
<1>5. InFlight' /\ Recent' = Recent
    BY <1>1, <1>3 DEF InFlight, Recent
<1>6. Sampled'
    BY <1>1, <1>3, <1>5 DEF Sampled
<1>7. DirtySinceFrame' /\ DirtySinceBaseline'
    BY <1>1, <1>5 DEF DirtySinceFrame, DirtySinceBaseline
<1>8. FrameIsSound' /\ TakenIsSound'
    BY <1>1 DEF FrameIsSound, TakenIsSound, Sound, Intact, Covers
<1>9. BufferHolds' /\ ImageIsDrawn' /\ HostDraws'
    BY <1>1 DEF BufferHolds, ImageIsDrawn, HostDraws, Picture
<1> QED BY <1>4, <1>6, <1>7, <1>8, <1>9

(* The capture that is published names every difference between its        *)
(* baseline, which may be the frame's, and video memory.                   *)
LEMMA MergedCovers ==
    ASSUME CaptureInv, InFlight
    PROVE  LET new == Merged(sync.display, frame)
           IN  /\ new \in Captures
               /\ new.memory = sync.display.memory /\ new.bytes = sync.display.bytes
               /\ new.scanout = sync.display.scanout
               /\ new.changes # Nothing =>
                    \A b \in DOMAIN new.changes.baseline, p \in Pages :
                        heap[live[b]][p] # heap[new.changes.baseline[b]][p]
                        => <<b, p>> \in new.changes.pages
<1> DEFINE new == Merged(sync.display, frame)
<1>1. sync.display \in Captures /\ frame \in MaybeCaptures /\ frame # Nothing => frame \in Captures
    BY DEF CaptureInv, CaptureTypeOK, MaybeCaptures, Sampled
<1>2. CASE frame = Nothing
    <2>1. new = sync.display /\ sync.display.changes = Nothing
        BY <1>2 DEF Merged, CaptureInv, Sampled
    <2> QED BY <1>1, <2>1 DEF CaptureInv, CaptureTypeOK, MaybeCaptures, Sampled
<1>3. CASE frame # Nothing /\ frame.changes = Nothing
    <2>1. new = sync.display
        BY <1>3 DEF Merged
    <2>2. sync.display.changes # Nothing /\ sync.display.changes.baseline = frame.memory
        BY <1>3 DEF CaptureInv, Sampled
    <2>3. Recent = sync.display.changes.pages
        BY <2>2 DEF Recent
    <2> QED BY <1>1, <1>3, <2>1, <2>2, <2>3
            DEF CaptureInv, CaptureTypeOK, MaybeCaptures, Sampled, DirtySinceFrame
<1>4. CASE frame # Nothing /\ frame.changes # Nothing
    <2> DEFINE changes == [baseline |-> frame.changes.baseline,
                           pages |-> sync.display.changes.pages \cup frame.changes.pages]
    <2>1. sync.display \in Captures /\ frame \in Captures /\ sync.display.changes # Nothing
        BY <1>4 DEF CaptureInv, CaptureTypeOK, MaybeCaptures, Sampled
    <2>2. sync.display.changes \in Changes /\ frame.changes \in Changes
        BY <1>4, <2>1 DEF Captures
    <2>3. changes \in Changes /\ changes # Nothing
        BY <2>2, NothingIsNone DEF Changes
    <2>4. new = [sync.display EXCEPT !.changes = changes]
        BY <1>4 DEF Merged
    <2>5. new \in Captures /\ new.changes = changes /\ new.memory = sync.display.memory
          /\ new.bytes = sync.display.bytes /\ new.scanout = sync.display.scanout
        BY <2>1, <2>3, <2>4 DEF Captures
    <2>6. Recent = sync.display.changes.pages
        BY <2>1 DEF Recent
    <2>7. ASSUME NEW b \in DOMAIN changes.baseline, NEW p \in Pages,
                 heap[live[b]][p] # heap[changes.baseline[b]][p]
          PROVE  <<b, p>> \in changes.pages
        BY <1>4, <2>6, <2>7 DEF CaptureInv, DirtySinceBaseline
    <2> HIDE DEF changes, new
    <2> QED BY <2>5, <2>7 DEF new
<1> QED BY <1>1, <1>2, <1>3, <1>4 DEF MaybeCaptures

(* FrameSource::publish replaces the frame it read, or reads again.        *)
LEMMA PublishStep == ASSUME CaptureInv, PublishSwap PROVE CaptureInv'
<1> USE DEF CaptureInv, CaptureTypeOK
<1> DEFINE new == Merged(sync.display, frame)
<1>1. /\ live' = live /\ heap' = heap /\ dirty' = dirty /\ regs' = regs /\ latched' = latched
      /\ taking' = taking /\ gpu' = gpu /\ image' = image /\ host' = host /\ used' = used
      /\ sync.at = "swap" /\ InFlight
    BY DEF PublishSwap, guest, display, InFlight
<1>2. CASE frame # sync.loaded
    <2>1. /\ sync' = [sync EXCEPT !.at = "load", !.loaded = Nothing]
          /\ UNCHANGED <<guest, frame, display, used>>
        BY <1>2 DEF PublishSwap
    <2> QED BY <1>1, <2>1, ReloadStep DEF MaybeCaptures
<1>3. CASE frame = sync.loaded
    <2>1. frame' = new /\ sync' = [at |-> "notify", display |-> Nothing, loaded |-> Nothing]
        BY <1>3 DEF PublishSwap
    <2>2. /\ new \in Captures
          /\ new.memory = sync.display.memory /\ new.bytes = sync.display.bytes
          /\ new.scanout = sync.display.scanout
          /\ new.changes # Nothing =>
               \A b \in DOMAIN new.changes.baseline, p \in Pages :
                   heap[live[b]][p] # heap[new.changes.baseline[b]][p]
                   => <<b, p>> \in new.changes.pages
        BY <1>1, MergedCovers
    <2> HIDE DEF new
    <2>3. CaptureTypeOK'
        BY <1>1, <2>1, <2>2 DEF MaybeCaptures
    <2>4. ~InFlight' /\ Recent' = {}
        BY <1>1, <2>1 DEF InFlight, Recent, Sampled
    <2>5. /\ DOMAIN new.memory = BlocksOf(new.scanout.kind)
          /\ \A b \in DOMAIN new.memory : new.memory[b] = live[b] /\ new.bytes[b] = heap[live[b]]
        BY <1>1, <2>2 DEF Sampled
    <2>6. FrameIsSound'
        BY <1>1, <2>1, <2>2, <2>5 DEF FrameIsSound, Sound, Intact, Covers
    <2>7. DirtySinceFrame'
        BY <1>1, <2>1, <2>5 DEF DirtySinceFrame
    <2>8. DirtySinceBaseline'
        BY <1>1, <2>1, <2>2 DEF DirtySinceBaseline
    <2>9. Sampled' /\ TakenIsSound'
        BY <1>1, <2>4 DEF Sampled, TakenIsSound, Sound, Intact, Covers
    <2>10. BufferHolds' /\ ImageIsDrawn' /\ HostDraws'
        BY <1>1 DEF BufferHolds, ImageIsDrawn, HostDraws, Picture
    <2> QED BY <2>3, <2>6, <2>7, <2>8, <2>9, <2>10
<1> QED BY <1>2, <1>3

-----------------------------------------------------------------------------
(* The graphics owner. *)

(* take_capture leaves the frame with a baseline of its own memory.        *)
LEMMA TakeStep == ASSUME CaptureInv, TakeSwap PROVE CaptureInv'
<1> USE DEF CaptureInv, CaptureTypeOK
<1>1. /\ live' = live /\ heap' = heap /\ dirty' = dirty /\ regs' = regs /\ latched' = latched
      /\ sync' = sync /\ gpu' = gpu /\ image' = image /\ host' = host /\ used' = used
      /\ taking.at = "swap" /\ host.at = "running"
    BY DEF TakeSwap, guest, HostDraws
<1>2. CASE frame # taking.loaded
    <2>1. taking' = [at |-> "retry", loaded |-> Nothing] /\ frame' = frame
        BY <1>2 DEF TakeSwap
    <2>2. CaptureTypeOK'
        BY <1>1, <2>1 DEF MaybeCaptures
    <2> QED BY <1>1, <2>1, <2>2, QuietStep
<1>3. CASE frame = taking.loaded /\ frame = Nothing
    BY <1>1, <1>3 DEF TakenIsSound
<1>4. CASE frame = taking.loaded /\ frame # Nothing
    <2> DEFINE changes == [baseline |-> frame.memory, pages |-> {}]
    <2>1. frame' = [frame EXCEPT !.changes = changes] /\ taking' = [taking EXCEPT !.at = "upload"]
        BY <1>4 DEF TakeSwap
    <2>2. frame \in Captures /\ frame.memory \in Memories
        BY <1>4 DEF MaybeCaptures, Captures
    <2>3. changes \in Changes /\ changes # Nothing
        BY <2>2, NothingIsNone DEF Changes
    <2>4. /\ frame' \in Captures /\ frame' # Nothing /\ frame'.changes = changes
          /\ frame'.memory = frame.memory /\ frame'.bytes = frame.bytes
          /\ frame'.scanout = frame.scanout
        BY <2>1, <2>2, <2>3, NothingIsNone DEF Captures
    <2>5. taking'.at = "upload" /\ taking'.loaded = frame
        BY <1>4, <2>1
    <2>6. CaptureTypeOK'
        BY <1>1, <2>1, <2>4 DEF MaybeCaptures
    <2>7. TakenIsSound'
        BY <1>1, <1>4, <2>5 DEF TakenIsSound, FrameIsSound, Sound, Intact, Covers
    <2>8. FrameIsSound'
        BY <1>1, <1>4, <2>4 DEF FrameIsSound, Sound, Intact, Covers
    <2>9. Sampled' /\ Recent' = Recent
        BY <1>1, <1>4, <2>4 DEF Sampled, InFlight, Recent
    <2>10. DirtySinceFrame'
        BY <1>1, <1>4, <2>4, <2>9 DEF DirtySinceFrame
    <2>11. DirtySinceBaseline'
        BY <1>1, <1>4, <2>4, <2>9 DEF DirtySinceBaseline, DirtySinceFrame
    <2>12. BufferHolds' /\ ImageIsDrawn' /\ HostDraws'
        BY <1>1 DEF BufferHolds, ImageIsDrawn, HostDraws, Picture
    <2> QED BY <2>6, <2>7, <2>8, <2>9, <2>10, <2>11, <2>12
<1> QED BY <1>2, <1>3, <1>4

(* write_blocks: a block skipped, sent by pages or sent whole, the buffer  *)
(* then holds it.                                                          *)
LEMMA UploadedIsBlock ==
    ASSUME CaptureInv, taking.at = "upload", NEW b \in DOMAIN taking.loaded.memory
    PROVE  /\ b \in Blocks /\ Uploaded(taking.loaded, b) = heap[taking.loaded.memory[b]]
           /\ Uploaded(taking.loaded, b) \in Bytes
           /\ ~Written(taking.loaded, b) => Uploaded(taking.loaded, b) = gpu.buffer[b]
<1> DEFINE capture == taking.loaded
           bytes == heap[capture.memory[b]]
<1>1. capture \in Captures /\ Covers(capture) /\ gpu # Nothing /\ gpu \in Renderers
    BY DEF CaptureInv, CaptureTypeOK, MaybeCaptures, TakenIsSound, Sound, HostDraws
<1>2. capture.memory \in Memories /\ b \in Blocks /\ bytes \in Bytes
    BY <1>1, MemoryNames DEF Captures, CaptureInv, CaptureTypeOK
<1> HIDE DEF capture
<1>3. CASE Skipped(capture, b)
    <2>1. gpu.previous # Nothing /\ b \in DOMAIN gpu.previous /\ gpu.previous[b] = capture.memory[b]
        BY <1>3 DEF Skipped, Holds
    <2>2. gpu.buffer[b] = bytes
        BY <1>1, <2>1 DEF CaptureInv, BufferHolds
    <2>3. Uploaded(capture, b) = gpu.buffer[b]
        BY <1>3 DEF Uploaded
    <2> QED BY <1>2, <2>2, <2>3 DEF capture
<1>4. CASE ~Skipped(capture, b) /\ ByPages(capture, b)
    <2> DEFINE paged == [p \in Pages |-> IF <<b, p>> \in capture.changes.pages THEN bytes[p]
                                         ELSE gpu.buffer[b][p]]
    <2>1. Uploaded(capture, b) = paged
        BY <1>4 DEF Uploaded
    <2>2. /\ gpu.previous # Nothing /\ b \in DOMAIN gpu.previous /\ capture.changes # Nothing
          /\ b \in DOMAIN capture.changes.baseline
          /\ capture.changes.baseline[b] = gpu.previous[b]
        BY <1>4 DEF ByPages, Holds
    <2>3. gpu.buffer[b] = heap[gpu.previous[b]] /\ gpu.previous[b] \in Addresses
        BY <1>1, <2>2, MemoryNames DEF CaptureInv, BufferHolds, Renderers
    <2>4. gpu.buffer[b] \in Bytes
        BY <2>3 DEF CaptureInv, CaptureTypeOK
    <2>5. ASSUME NEW p \in Pages PROVE paged[p] = bytes[p]
        BY <1>1, <2>2, <2>3 DEF Covers, capture
    <2>6. paged = bytes
        BY <1>2, <2>5 DEF Bytes
    <2>7. ASSUME ~Written(capture, b) PROVE paged = gpu.buffer[b]
        <3>1. \A p \in Pages : <<b, p>> \notin capture.changes.pages
            BY <1>4, <2>7 DEF Written
        <3> QED BY <2>4, <3>1 DEF Bytes
    <2> QED BY <1>2, <2>1, <2>6, <2>7 DEF capture
<1>5. CASE ~Skipped(capture, b) /\ ~ByPages(capture, b)
    <2>1. Uploaded(capture, b) = bytes
        BY <1>5 DEF Uploaded
    <2>2. Written(capture, b)
        BY <1>5 DEF Written
    <2> QED BY <1>2, <2>1, <2>2 DEF capture
<1> QED BY <1>3, <1>4, <1>5

(* What an upload leaves in the buffers.                                   *)
NewBuffer ==
    [b \in Blocks |-> IF b \in DOMAIN taking.loaded.memory THEN Uploaded(taking.loaded, b)
                      ELSE gpu.buffer[b]]

(* VgaRenderer::upload and encode: the image is the picture of the new     *)
(* buffers, whether it was decoded or an earlier decode was kept.          *)
LEMMA UploadDraws ==
    ASSUME CaptureInv, Upload
    PROVE  LET state == UploadedState(taking.loaded)
           IN  /\ gpu' = [previous |-> taking.loaded.memory, state |-> state, buffer |-> NewBuffer,
                          frame |-> [scanout |-> taking.loaded.scanout,
                                     sequence |-> taking.loaded.sequence]]
               /\ image' = Picture(state, NewBuffer, taking.loaded.memory)
<1> DEFINE capture == taking.loaded
           state == UploadedState(capture)
           changed == \/ gpu.frame = Nothing \/ gpu.frame.scanout # capture.scanout
                      \/ \E b \in DOMAIN capture.memory : Written(capture, b)
                      \/ gpu.state # state
<1>1. /\ gpu' = [previous |-> capture.memory, state |-> state, buffer |-> NewBuffer,
                 frame |-> [scanout |-> capture.scanout, sequence |-> capture.sequence]]
      /\ image' = IF changed \/ image = Nothing THEN Picture(state, NewBuffer, capture.memory)
                  ELSE image
      /\ taking.at = "upload"
    BY DEF Upload, NewBuffer
<1>2. capture \in Captures /\ Intact(capture)
    BY <1>1 DEF CaptureInv, CaptureTypeOK, MaybeCaptures, TakenIsSound, Sound
<1>3. ASSUME ~changed, image # Nothing PROVE image = Picture(state, NewBuffer, capture.memory)
    <2>1. gpu.state = state /\ state.scanout = capture.scanout
        BY <1>3 DEF UploadedState
    <2>2. /\ image = Picture(gpu.state, gpu.buffer, gpu.previous)
          /\ DOMAIN gpu.previous = BlocksOf(gpu.state.scanout.kind)
        BY <1>3 DEF CaptureInv, ImageIsDrawn
    <2>3. DOMAIN gpu.previous = DOMAIN capture.memory
        BY <1>2, <2>1, <2>2 DEF Intact
    <2>4. ASSUME NEW b \in DOMAIN capture.memory PROVE NewBuffer[b] = gpu.buffer[b]
        BY <1>1, <1>3, UploadedIsBlock DEF NewBuffer
    <2>5. [b \in DOMAIN gpu.previous |-> gpu.buffer[b]]
            = [b \in DOMAIN capture.memory |-> NewBuffer[b]]
        BY <2>3, <2>4
    <2> QED BY <2>1, <2>2, <2>5 DEF Picture
<1> HIDE DEF changed
<1> QED BY <1>1, <1>3

(* An upload keeps the invariant: the buffers hold the blocks it sent.     *)
LEMMA UploadStep == ASSUME CaptureInv, Upload PROVE CaptureInv'
<1> USE DEF CaptureInv, CaptureTypeOK
<1> DEFINE capture == taking.loaded
           state == UploadedState(capture)
<1>1. /\ live' = live /\ heap' = heap /\ dirty' = dirty /\ regs' = regs /\ latched' = latched
      /\ frame' = frame /\ sync' = sync /\ used' = used /\ taking.at = "upload"
      /\ taking' = [at |-> "idle", loaded |-> Nothing] /\ host' = [host EXCEPT !.recovery = TRUE]
    BY DEF Upload, guest
<1>2. capture \in Captures /\ Intact(capture) /\ gpu \in Renderers /\ host.at = "running"
    BY <1>1 DEF MaybeCaptures, TakenIsSound, Sound, HostDraws
<1>3. /\ gpu' = [previous |-> capture.memory, state |-> state, buffer |-> NewBuffer,
                 frame |-> [scanout |-> capture.scanout, sequence |-> capture.sequence]]
      /\ image' = Picture(state, NewBuffer, capture.memory)
    BY UploadDraws
<1>4. /\ capture.memory \in Memories /\ capture.scanout \in Scanouts /\ capture.dac \in Nat
      /\ capture.sequence \in Nat
    BY <1>2 DEF Captures
<1>5. NewBuffer \in [Blocks -> Bytes \cup {Nothing}]
    BY <1>1, <1>2, UploadedIsBlock DEF NewBuffer, Renderers
<1>6. state \in [scanout : Scanouts, dac : Nat \cup {Nothing}] /\ state.scanout = capture.scanout
    BY <1>2, <1>4 DEF UploadedState, Renderers
<1>7. state # Nothing
    BY DEF UploadedState, Nothing
<1> HIDE DEF state
<1>8. gpu' \in Renderers /\ gpu' # Nothing
    BY <1>3, <1>4, <1>5, <1>6, NothingIsNone DEF Renderers
<1>9. host'.at = "running" /\ host' \in [at : {"running", "lost", "failed"}, request : Requests,
                                         recovery : BOOLEAN]
    BY <1>1, <1>2, Zenon
<1>10. CaptureTypeOK'
    BY <1>1, <1>8, <1>9 DEF MaybeCaptures
<1>11. BufferHolds'
    <2> SUFFICES ASSUME NEW b \in DOMAIN capture.memory
                 PROVE  NewBuffer[b] = heap[capture.memory[b]]
        BY <1>1, <1>3 DEF BufferHolds
    <2> QED BY <1>1, UploadedIsBlock DEF NewBuffer
<1>12. ImageIsDrawn'
    <2>1. /\ gpu'.previous = capture.memory /\ gpu'.state = state /\ gpu'.buffer = NewBuffer
          /\ gpu' # Nothing
        BY <1>3, <1>8
    <2>2. gpu'.previous # Nothing
        BY <1>4, <2>1, NothingIsNone
    <2>3. DOMAIN gpu'.previous = BlocksOf(gpu'.state.scanout.kind)
        BY <1>2, <1>6, <2>1 DEF Intact
    <2>4. image' = Picture(gpu'.state, gpu'.buffer, gpu'.previous)
        BY <1>3, <2>1
    <2> QED BY <1>7, <2>1, <2>2, <2>3, <2>4 DEF ImageIsDrawn, Picture, BlocksOf
<1>13. HostDraws' /\ TakenIsSound'
    BY <1>1, <1>8, <1>9 DEF HostDraws, TakenIsSound
<1>14. FrameIsSound' /\ Sampled' /\ Recent' = Recent
    BY <1>1 DEF FrameIsSound, Sampled, InFlight, Recent, Sound, Intact, Covers
<1>15. DirtySinceFrame' /\ DirtySinceBaseline'
    BY <1>1, <1>14 DEF DirtySinceFrame, DirtySinceBaseline
<1> QED BY <1>10, <1>11, <1>12, <1>13, <1>14, <1>15

(* A device is lost with everything it held, and a new one holds nothing.  *)
LEMMA DeviceStep == ASSUME CaptureInv, DeviceLost \/ GiveUp \/ AttachDevice PROVE CaptureInv'
<1> USE DEF CaptureInv, CaptureTypeOK
<1>1. /\ live' = live /\ heap' = heap /\ dirty' = dirty /\ regs' = regs /\ latched' = latched
      /\ frame' = frame /\ sync' = sync /\ taking' = taking
    BY DEF DeviceLost, GiveUp, Failing, AttachDevice, guest
<1>2. FrameIsSound' /\ TakenIsSound' /\ Sampled' /\ Recent' = Recent
    BY <1>1 DEF FrameIsSound, TakenIsSound, Sampled, InFlight, Recent, Sound, Intact, Covers
<1>3. DirtySinceFrame' /\ DirtySinceBaseline'
    BY <1>1, <1>2 DEF DirtySinceFrame, DirtySinceBaseline
<1>4. CASE DeviceLost \/ GiveUp
    <2>1. gpu' = Nothing /\ image' = Nothing /\ taking.at = "idle" /\ used' = used
        BY <1>4 DEF DeviceLost, GiveUp, Failing
    <2>2. host' \in [at : {"lost", "failed"}, request : Requests, recovery : BOOLEAN]
        <3>1. CASE GiveUp
            <4>1. host' = [at |-> "failed", request |-> "none", recovery |-> FALSE]
                BY <3>1 DEF GiveUp
            <4> QED BY <4>1, Zenon DEF Requests
        <3>2. CASE DeviceLost
            <4>1. host.request \in Requests
                OBVIOUS
            <4>2. PICK request \in Requests, at \in {"lost", "failed"} :
                      host' = [at |-> at, request |-> request, recovery |-> FALSE]
                BY <3>2, <4>1 DEF DeviceLost, Requests
            <4> QED BY <4>2, Zenon
        <3> QED BY <1>4, <3>1, <3>2
    <2>3. used' \in [changes : Nat, retraces : Nat]
        BY <2>1
    <2>4. CaptureTypeOK' /\ host'.at # "running"
        BY <1>1, <2>1, <2>2, <2>3
    <2>5. BufferHolds' /\ ImageIsDrawn' /\ HostDraws'
        BY <1>1, <2>1, <2>4 DEF BufferHolds, ImageIsDrawn, HostDraws
    <2> QED BY <1>2, <1>3, <2>4, <2>5
<1>5. CASE AttachDevice
    <2>1. gpu' = NewRenderer /\ image' = image /\ used' = used /\ host.at = "lost"
        BY <1>5 DEF AttachDevice
    <2>2. NewRenderer \in Renderers /\ NewRenderer # Nothing /\ NewRenderer.previous = Nothing
        BY NothingIsNone DEF NewRenderer, Renderers
    <2>3. image = Nothing
        BY <2>1 DEF ImageIsDrawn, HostDraws
    <2>4. host' = [host EXCEPT !.at = "running"]
        BY <1>5 DEF AttachDevice
    <2>5. /\ host' \in [at : {"running", "lost", "failed"}, request : Requests, recovery : BOOLEAN]
          /\ host'.at = "running"
        BY <2>4, Zenon
    <2>6. CaptureTypeOK'
        BY <1>1, <2>1, <2>2, <2>5
    <2>7. BufferHolds' /\ ImageIsDrawn' /\ HostDraws'
        BY <1>1, <2>1, <2>2, <2>3, <2>5 DEF BufferHolds, ImageIsDrawn, HostDraws
    <2> QED BY <1>2, <1>3, <2>6, <2>7
<1> QED BY <1>4, <1>5

-----------------------------------------------------------------------------
(* Every step. *)

(* The guest: writes to video memory, to registers, and the raster.        *)
LEMMA GuestStep == ASSUME CaptureInv, GuestActs PROVE CaptureInv'
<1> USE DEF CaptureTypeOK
<1>1. ASSUME NEW b \in Blocks, NEW p \in Pages, NEW v \in Values, WriteMmio(b, p, v)
      PROVE  CaptureInv'
    <2>1. WriteKeeps
        BY <1>1, StorageWriteKeeps DEF WriteMmio, CaptureInv
    <2>2. used' \in [changes : Nat, retraces : Nat]
        BY <1>1 DEF WriteMmio, Changed, CaptureInv
    <2>3. CaptureTypeOK'
        BY <1>1, <2>1, <2>2 DEF WriteMmio, WriteKeeps, CaptureInv, display
    <2> QED BY <1>1, <2>1, <2>3, WriteStep DEF WriteMmio, Changing
<1>2. ASSUME NEW value \in Nat, WriteStart(value) \/ WriteDac(value) PROVE CaptureInv'
    <2>1. used' \in [changes : Nat, retraces : Nat]
        BY <1>2 DEF WriteStart, WriteDac, Changed, CaptureInv
    <2>2. regs' \in [kind : Kinds, start : Nat, dac : Nat]
        BY <1>2 DEF WriteStart, WriteDac, CaptureInv
    <2>3. CaptureTypeOK'
        BY <1>2, <2>1, <2>2 DEF WriteStart, WriteDac, CaptureInv, display
    <2> QED BY <1>2, <2>3, QuietStep DEF WriteStart, WriteDac, display
<1>3. ASSUME NEW kind \in Kinds, NEW clear \in BOOLEAN, WriteEnable(kind, clear) PROVE CaptureInv'
    <2>1. CASE StorageClear
        <3>1. WriteKeeps
            BY <2>1, StorageClearKeeps DEF CaptureInv
        <3> QED
            <4>1. used' \in [changes : Nat, retraces : Nat]
                BY <1>3 DEF WriteEnable, Changed, CaptureInv
            <4>2. regs' \in [kind : Kinds, start : Nat, dac : Nat]
                BY <1>3 DEF WriteEnable, CaptureInv
            <4>3. CaptureTypeOK'
                BY <1>3, <3>1, <4>1, <4>2 DEF WriteEnable, WriteKeeps, CaptureInv, display
            <4> QED BY <1>3, <3>1, <4>3, WriteStep DEF WriteEnable, Changing
    <2>2. CASE UNCHANGED <<live, heap, dirty>>
        <3>1. used' \in [changes : Nat, retraces : Nat]
            BY <1>3 DEF WriteEnable, Changed, CaptureInv
        <3>2. regs' \in [kind : Kinds, start : Nat, dac : Nat]
            BY <1>3 DEF WriteEnable, CaptureInv
        <3>3. CaptureTypeOK'
            BY <1>3, <2>2, <3>1, <3>2 DEF WriteEnable, CaptureInv, display
        <3> QED BY <1>3, <2>2, <3>3, QuietStep DEF WriteEnable, display
    <2> QED BY <1>3, <2>1, <2>2 DEF WriteEnable
<1>4. CASE CrossRetrace
    <2>1. used' \in [changes : Nat, retraces : Nat]
        BY <1>4 DEF CrossRetrace, CaptureInv
    <2>2. CaptureTypeOK'
        BY <1>4, <2>1 DEF CrossRetrace, CaptureInv, guest, display
    <2> QED BY <1>4, <2>2, QuietStep DEF CrossRetrace, guest, display
<1>5. CASE Close
    <2>1. /\ sync' = [sync EXCEPT !.at = "notify"] /\ sync.at = "idle"
          /\ regs' = PowerOn /\ latched' = 0 /\ used' = [changes |-> 0, retraces |-> 0]
        BY <1>5 DEF Close
    <2>2. regs' \in [kind : Kinds, start : Nat, dac : Nat] /\ latched' \in Nat
          /\ used' \in [changes : Nat, retraces : Nat]
        BY <2>1, CaptureAssumption DEF PowerOn
    <2>3. CaptureTypeOK' /\ ~InFlight /\ ~InFlight'
        BY <1>5, <2>1, <2>2 DEF Close, CaptureInv, display, InFlight
    <2> QED BY <1>5, <2>3, QuietStep DEF Close, display
<1>6. {0, 1} \subseteq Nat /\ Values \subseteq Nat
    BY CaptureAssumption
<1> QED BY <1>1, <1>2, <1>3, <1>4, <1>5, <1>6 DEF GuestActs

(* The execution worker samples, publishes and notifies.                   *)
LEMMA WorkerStep == ASSUME CaptureInv, WorkerActs PROVE CaptureInv'
<1>1. CASE PublishLoad
    <2>1. /\ sync' = [sync EXCEPT !.at = "swap", !.loaded = frame] /\ InFlight
          /\ UNCHANGED <<guest, frame, display, used>> /\ frame \in MaybeCaptures
        BY <1>1 DEF PublishLoad, InFlight, CaptureInv, CaptureTypeOK
    <2> QED BY <2>1, ReloadStep
<1>2. CASE Notify
    <2>1. sync' = [sync EXCEPT !.at = "idle"] /\ sync.at = "notify"
        BY <1>2 DEF Notify
    <2>2. CaptureTypeOK' /\ ~InFlight /\ ~InFlight'
        BY <1>2, <2>1 DEF Notify, CaptureInv, CaptureTypeOK, guest, InFlight
    <2> QED BY <1>2, <2>2, QuietStep DEF Notify, guest
<1> QED BY <1>1, <1>2, SyncStep, PublishStep DEF WorkerActs

(* The graphics owner waits, takes, uploads, and loses its device.         *)
LEMMA DisplayStep == ASSUME CaptureInv, DisplayActs PROVE CaptureInv'
<1> USE DEF CaptureTypeOK
<1>1. CASE Listen \/ Await
    <2>1. CaptureTypeOK'
        BY <1>1 DEF Listen, Await, CaptureInv, guest
    <2> QED BY <1>1, <2>1, QuietStep DEF Listen, Await, guest
<1>2. CASE Look \/ Skip \/ Retry \/ DrawNothing
    <2>1. /\ host' \in [at : {"running", "lost", "failed"}, request : Requests, recovery : BOOLEAN]
          /\ host'.at = host.at
        BY <1>2, Zenon DEF Look, Skip, Retry, DrawNothing, CaptureInv, Requests
    <2>2. CaptureTypeOK'
        BY <1>2, <2>1 DEF Look, Skip, Retry, DrawNothing, CaptureInv, guest
    <2> QED BY <1>2, <2>1, <2>2, QuietStep DEF Look, Skip, Retry, DrawNothing, guest
<1>3. CASE TakeLoad
    <2>1. /\ taking' = [at |-> "swap", loaded |-> frame] /\ frame # Nothing
          /\ host' = [host EXCEPT !.request = IF taking.at = "idle" THEN "none" ELSE @]
          /\ taking.at = "retry" \/ host.at = "running"
        BY <1>3 DEF TakeLoad, Drawing
    <2>2. /\ host' \in [at : {"running", "lost", "failed"}, request : Requests, recovery : BOOLEAN]
          /\ host'.at = host.at
        BY <2>1, Zenon DEF CaptureInv, Requests
    <2>3. host.at = "running"
        BY <2>1 DEF CaptureInv, HostDraws
    <2>4. CaptureTypeOK'
        BY <1>3, <2>1, <2>2 DEF TakeLoad, CaptureInv, guest
    <2> QED BY <1>3, <2>1, <2>2, <2>3, <2>4, QuietStep DEF TakeLoad, guest
<1> QED BY <1>1, <1>2, <1>3, TakeStep, UploadStep, DeviceStep DEF DisplayActs

(* The window asks for draws, and is hidden and shown.                     *)
LEMMA WindowStep == ASSUME CaptureInv, WindowActs PROVE CaptureInv'
<1> USE DEF CaptureTypeOK
<1>1. CASE SendRedraw
    <2>1. PICK size \in {"zero", "size"} : host' = [host EXCEPT !.request = size]
        BY <1>1 DEF SendRedraw
    <2>2. /\ host' \in [at : {"running", "lost", "failed"}, request : Requests, recovery : BOOLEAN]
          /\ host'.at = host.at
        BY <2>1, Zenon DEF CaptureInv, Requests
    <2>3. CaptureTypeOK'
        BY <1>1, <2>2 DEF SendRedraw, CaptureInv, guest
    <2> QED BY <1>1, <2>2, <2>3, QuietStep DEF SendRedraw, guest
<1>2. ASSUME OtherThanWindow PROVE CaptureInv'
    <2>1. CaptureTypeOK'
        BY <1>2 DEF OtherThanWindow, CaptureInv, guest
    <2> QED BY <1>2, <2>1, QuietStep DEF OtherThanWindow, guest
<1> QED BY <1>1, <1>2 DEF WindowActs, RedrawRequested, VisibilityReported, Hide, Show, WindowRedraw

(* The first frame has yet to be captured.                                 *)
LEMMA InitStep == ASSUME CaptureInit PROVE CaptureInv
<1>1. /\ frame = Nothing /\ taking.at = "idle" /\ sync.at = "idle" /\ gpu = NewRenderer
      /\ image = Nothing /\ host.at = "running"
    BY DEF CaptureInit
<1>2. NewRenderer \in Renderers /\ NewRenderer # Nothing /\ NewRenderer.previous = Nothing
    BY NothingIsNone DEF NewRenderer, Renderers
<1>3. Zero \in Bytes
    BY CaptureAssumption DEF Zero, Bytes
<1>4. host \in [at : {"running", "lost", "failed"}, request : Requests, recovery : BOOLEAN]
    BY Zenon DEF CaptureInit, Requests
<1>5. CaptureTypeOK
    BY <1>1, <1>2, <1>3, <1>4, CaptureAssumption DEF CaptureInit, PowerOn, CaptureTypeOK, MaybeCaptures
<1>6. FrameIsSound /\ TakenIsSound /\ Sampled /\ DirtySinceFrame /\ DirtySinceBaseline
    BY <1>1 DEF FrameIsSound, TakenIsSound, Sampled, InFlight, DirtySinceFrame, DirtySinceBaseline
<1>7. BufferHolds /\ ImageIsDrawn /\ HostDraws
    BY <1>1, <1>2 DEF BufferHolds, ImageIsDrawn, HostDraws
<1> QED BY <1>5, <1>6, <1>7 DEF CaptureInv

(* Captures stay sound while guest, worker and display interleave.         *)
THEOREM CapturesStaySound == CaptureSpec => []CaptureInv
<1>1. CaptureInit => CaptureInv
    BY InitStep
<1>2. CaptureInv /\ [CaptureNext]_captureVars => CaptureInv'
    <2> SUFFICES ASSUME CaptureInv, [CaptureNext]_captureVars PROVE CaptureInv'
        OBVIOUS
    <2>1. CASE UNCHANGED captureVars
        <3>1. CaptureTypeOK'
            BY <2>1 DEF CaptureInv, CaptureTypeOK, captureVars
        <3> QED BY <2>1, <3>1, QuietStep DEF captureVars
    <2> QED BY <2>1, GuestStep, WorkerStep, DisplayStep, WindowStep DEF CaptureNext
<1> QED BY <1>1, <1>2, PTL DEF CaptureSpec

(* An upload leaves the image of the sampled bytes.                        *)
LEMMA UploadShows ==
    ASSUME CaptureInv, Upload
    PROVE  image' = Picture([scanout |-> taking.loaded.scanout, dac |-> taking.loaded.dac],
                            taking.loaded.bytes, taking.loaded.memory)
<1> DEFINE capture == taking.loaded
           state == UploadedState(capture)
<1>1. image' = Picture(state, NewBuffer, capture.memory)
    BY UploadDraws
<1>2. taking.at = "upload" /\ Intact(capture)
    BY DEF Upload, CaptureInv, TakenIsSound, Sound
<1>3. ASSUME NEW b \in DOMAIN capture.memory PROVE NewBuffer[b] = capture.bytes[b]
    BY <1>2, UploadedIsBlock DEF NewBuffer, Intact
<1>4. [b \in DOMAIN capture.memory |-> NewBuffer[b]]
        = [b \in DOMAIN capture.memory |-> capture.bytes[b]]
    BY <1>3
<1>5. /\ state.scanout = capture.scanout
      /\ capture.scanout.kind # "direct" => state.dac = capture.dac
    BY DEF UploadedState
<1> QED BY <1>1, <1>4, <1>5 DEF Picture

(* For any blocks, pages and bytes, and however writes in place, copies,   *)
(* clears, retraces, publications, redraws and device losses interleave,   *)
(* the display draws the bytes that video memory held when the capture it  *)
(* took was sampled (renderer/memory.rs:61, capture.rs:75).                *)
THEOREM DisplayShowsCaptures == CaptureSpec => ImageShowsTheCapture
<1> DEFINE Shows ==
        taking.at = "upload" /\ taking'.at = "idle" =>
            LET capture == taking.loaded
            IN  image' = Picture([scanout |-> capture.scanout, dac |-> capture.dac],
                                 capture.bytes, capture.memory)
<1>1. CaptureInv /\ [CaptureNext]_captureVars => [Shows]_captureVars
    <2> SUFFICES ASSUME CaptureInv, CaptureNext, taking.at = "upload", taking'.at = "idle"
                 PROVE  Shows
        OBVIOUS
    <2>1. ~WorkerActs
        BY DEF WorkerActs, SyncToClock, PublishLoad, PublishSwap, Notify, display
    <2>2. ~GuestActs
        BY DEF GuestActs, WriteMmio, WriteStart, WriteDac, WriteEnable, CrossRetrace, Close, display
    <2>3. ~WindowActs
        BY DEF WindowActs, RedrawRequested, VisibilityReported, SendRedraw, Hide, Show, WindowRedraw,
               OtherThanWindow
    <2>4. Upload
        BY <2>1, <2>2, <2>3 DEF CaptureNext, DisplayActs, Listen, Look, Await, Skip, Retry,
                                DrawNothing, TakeLoad, TakeSwap, DeviceLost, GiveUp, Failing,
                                AttachDevice
    <2> QED BY <2>4, UploadShows
<1> QED BY <1>1, CapturesStaySound, PTL DEF CaptureSpec, ImageShowsTheCapture
=============================================================================
