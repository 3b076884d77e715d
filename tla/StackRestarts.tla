---------------------------- MODULE StackRestarts ---------------------------
(***************************************************************************)
(* The protected-mode instructions that use the stack or load a segment,   *)
(* and their faults (crates/x86/src/execution/stack.rs, execution/control, *)
(* execution/segments.rs, instruction/definitions/stack.rs, stack/frame.rs,*)
(* far_control.rs, branches.rs, segments.rs, segment/descriptor.rs).       *)
(*                                                                         *)
(* Every one of them is several accesses, and each access may fault.  The  *)
(* fault leaves ESP and the control state where the instruction began; the *)
(* host maps the page, or marks the segment present, and enters again.     *)
(*                                                                         *)
(* A "byte" here is a digit 0..Half-1.  A word is one byte and a dword     *)
(* two, so that 16-bit offsets end at Half and 32-bit ones at Half^2; a    *)
(* selector is a word: bit 0 is its RPL (1 for ring three), the rest its   *)
(* descriptor's index, and index 0 is null.  Gprs is the order of PUSHA.   *)
(***************************************************************************)
EXTENDS GuestSpans

CONSTANTS
    Gprs,          \* the general registers, in their encoding order
    Insns,         \* the instructions to start from
    Tables,        \* the page tables
    Stacks,        \* the SS caches
    Descriptors,   \* the descriptor tables: index to descriptor
    Esps,          \* the values of ESP
    Ebps,          \* the values of EBP
    Contents       \* memory at the start

StackAssumption == Space = Half * Half

VARIABLES
    insn,          \* op, bytes (1 word, 2 dword), and its immediates
    table,
    descriptors,
    cpu,           \* memory, regs, segments, eip, flags, accessed, fault
    origin,        \* cpu when the guest reached the instruction
    status         \* "run", "fault" (cpu.fault says which), "done"

vars == <<insn, table, descriptors, cpu, origin, status>>

Truncate(value, bytes) == IF bytes = 1 THEN value % Half ELSE Wrap(value)

Digits(value, bytes) == SubSeq(<<value % Half, (value \div Half) % Half>>, 1, bytes)

Number(bytes) == bytes[1] + (IF Len(bytes) = 2 THEN Half * bytes[2] ELSE 0)

(* A word written to a register keeps its upper half.                      *)
WriteGpr(c, r, value, bytes) ==
    [c EXCEPT !.regs[r] = IF bytes = 1 THEN @ - (@ % Half) + (value % Half) ELSE Wrap(value)]

-----------------------------------------------------------------------------
(* StackPointer: its arithmetic follows SS.B and keeps the upper half of a *)
(* 16-bit stack's ESP.                                                     *)
Offset(c, esp) == IF c.segments.ss.big THEN esp ELSE esp % Half

WithOffset(c, esp, offset) ==
    IF c.segments.ss.big THEN Wrap(offset) ELSE esp - (esp % Half) + (offset % Half)

AdvanceSp(c, esp, bytes) == WithOffset(c, esp, esp + bytes)

(* StackFrame::field of a frame of "checked" bytes at the pointer: SS must *)
(* hold the whole frame, then the field's pages are looked at.             *)
FieldAt(t, ss, offset, checked, at, bytes, intent) ==
    IF SegmentDenied(ss, offset, checked, intent)
    THEN DeniedAccess(t, Linear(ss, offset), intent, "SS")
    ELSE Access(t, Wrap(Linear(ss, offset) + at), bytes, intent)

Field(t, c, esp, checked, at, bytes, intent) ==
    FieldAt(t, c.segments.ss, Offset(c, esp), checked, at, bytes, intent)

Get(t, c, field) == Number(Load(c.memory, FieldPlaces(t, field, 0, field.bytes)))

Put(t, c, field, value) ==
    [c EXCEPT !.memory = Store(@, FieldPlaces(t, field, 0, field.bytes),
                               Digits(value, field.bytes))]

Faulted(c, fault) == [c EXCEPT !.fault = fault]

(* The first fault of a sequence of checks, in their order.                *)
First(faults) ==
    LET raised == {k \in DOMAIN faults : faults[k].raised}
    IN IF raised = {} THEN NoFault ELSE faults[Min(raised)]

(* A value stored below a prospective pointer; ESP is not committed.       *)
PushAt(t, c, esp, value, slot, bytes) ==
    LET field == Field(t, c, AdvanceSp(c, esp, -slot), bytes, 0, bytes, "write")
    IN IF field.fault.raised THEN Faulted(c, field.fault) ELSE Put(t, c, field, value)

CommitSp(c, esp) == IF c.fault.raised THEN c ELSE [c EXCEPT !.regs["esp"] = esp]

(* ExecutionBuilder::push                                                  *)
PushValue(t, c, value, slot, bytes) ==
    LET esp == c.regs["esp"]
    IN CommitSp(PushAt(t, c, esp, value, slot, bytes), AdvanceSp(c, esp, -slot))

-----------------------------------------------------------------------------
(* SegmentDescriptor::resolve_user at CPL 3: the descriptor's kind and     *)
(* privilege come before its presence.                                     *)
Index(selector) == selector \div 2

SegmentFault(vector, selector) ==
    [raised |-> TRUE, vector |-> vector, address |-> 0, code |-> Index(selector)]

UserVisible(d) == d.ring3 \/ (d.kind = "code" /\ d.conforming)

Readable(d) ==
    d.kind # "system" /\ UserVisible(d) /\ (d.kind = "code" => d.readWrite)

Accessible(d, name, selector) ==
    CASE name = "ss" -> /\ d.kind = "data"
                        /\ d.readWrite
                        /\ d.ring3
                        /\ selector % 2 = 1
      [] name = "cs" -> d.kind = "code" /\ UserVisible(d)
      [] OTHER -> Readable(d)

NullSegment(selector) ==
    [selector |-> selector, base |-> 0, limit |-> 0, usable |-> FALSE, readable |-> FALSE,
     writable |-> FALSE, executable |-> FALSE, expandDown |-> FALSE, big |-> FALSE]

SegmentOf(d, name, selector) ==
    [selector |-> IF name = "cs" THEN 2 * Index(selector) + 1 ELSE selector,
     base |-> d.base, limit |-> d.limit, usable |-> TRUE,
     readable |-> d.kind = "data" \/ d.readWrite,
     writable |-> d.kind = "data" /\ d.readWrite,
     executable |-> d.kind = "code",
     expandDown |-> d.kind = "data" /\ d.conforming,
     big |-> d.big]

(* resolve_segment: what the load would install, or its fault.             *)
Resolve(ds, name, selector) ==
    LET d == ds[Index(selector)]
        fault == IF Index(selector) = 0
                 THEN (IF name \in {"ss", "cs"} THEN Fault("GP") ELSE NoFault)
                 ELSE IF ~Accessible(d, name, selector) THEN SegmentFault("GP", selector)
                 ELSE IF ~d.present
                 THEN SegmentFault(IF name = "ss" THEN "SS" ELSE "NP", selector)
                 ELSE NoFault
    IN [fault |-> fault,
        segment |-> IF Index(selector) = 0 THEN NullSegment(selector)
                    ELSE SegmentOf(d, name, selector),
        completes |-> Index(selector) # 0 /\ ~d.accessed]

(* ResolvedSegment::commit: the descriptor is marked accessed by the load  *)
(* that happens, and by no other.                                          *)
Install(c, name, resolved) ==
    [c EXCEPT !.segments[name] = resolved.segment,
              !.accessed = IF resolved.completes
                           THEN @ \cup {Index(resolved.segment.selector)} ELSE @]

LimitFault(resolved, offset) ==
    IF resolved.segment.limit < offset THEN Fault("GP") ELSE NoFault

(* check_code_target of a near transfer.                                   *)
TargetFault(c, offset) ==
    IF SegmentDenied(c.segments.cs, offset, 1, "fetch") THEN Fault("GP") ELSE NoFault

(* resolve_return_target: a return never goes inward.                      *)
ReturnFaults(ds, offset, selector) ==
    <<IF selector % 2 = 1 THEN NoFault ELSE SegmentFault("GP", selector),
      Resolve(ds, "cs", selector).fault,
      LimitFault(Resolve(ds, "cs", selector), offset)>>

-----------------------------------------------------------------------------
Push(i, t, c) == PushValue(t, c, Truncate(c.regs[i.reg], i.bytes), i.bytes, i.bytes)

PushFlags(i, t, c) == PushValue(t, c, c.flags, i.bytes, i.bytes)

(* A selector is a word even in a dword slot.                              *)
PushSelector(i, t, c) == PushValue(t, c, c.segments["ss"].selector, i.bytes, 1)

PopRegister(i, t, c) ==
    LET esp == c.regs["esp"]
        field == Field(t, c, esp, i.bytes, 0, i.bytes, "read")
        next == CommitSp(c, AdvanceSp(c, esp, i.bytes))
    IN IF field.fault.raised THEN Faulted(c, field.fault)
       ELSE WriteGpr(next, i.reg, Get(t, c, field), i.bytes)

(* POP [ESP]: the destination is addressed by the ESP to come.             *)
PopMemory(i, t, c) ==
    LET esp == c.regs["esp"]
        next == AdvanceSp(c, esp, i.bytes)
        field == Field(t, c, esp, i.bytes, 0, i.bytes, "read")
        target == Checked(t, c.segments, "ss", next, i.bytes, "write")
        fault == First(<<field.fault, target.fault>>)
    IN IF fault.raised THEN Faulted(c, fault)
       ELSE Put(t, CommitSp(c, next), target, Get(t, c, field))

PopFlags(i, t, c) ==
    LET esp == c.regs["esp"]
        field == Field(t, c, esp, i.bytes, 0, i.bytes, "read")
    IN IF field.fault.raised THEN Faulted(c, field.fault)
       ELSE [CommitSp(c, AdvanceSp(c, esp, i.bytes)) EXCEPT !.flags = Get(t, c, field) % Half]

RECURSIVE PushAllFrom(_, _, _, _, _)
PushAllFrom(i, t, c, esp, k) ==
    IF c.fault.raised \/ k > Len(Gprs) THEN CommitSp(c, esp)
    ELSE PushAllFrom(i, t, PushAt(t, c, esp, Truncate(c.regs[Gprs[k]], i.bytes),
                                  i.bytes, i.bytes),
                     AdvanceSp(c, esp, -i.bytes), k + 1)

(* PUSHA: ESP keeps its entry value until every push is done.              *)
PushAll(i, t, c) == PushAllFrom(i, t, c, c.regs["esp"], 1)

RECURSIVE PopAllFrom(_, _, _, _, _)
PopAllFrom(i, t, c, esp, k) ==
    LET field == Field(t, c, esp, i.bytes, 0, i.bytes, "read")
        restored == IF Gprs[k] = "esp" THEN c
                    ELSE WriteGpr(c, Gprs[k], Get(t, c, field), i.bytes)
    IN IF k = 0 THEN CommitSp(c, esp)
       ELSE IF field.fault.raised THEN Faulted(c, field.fault)
       ELSE PopAllFrom(i, t, restored, AdvanceSp(c, esp, i.bytes), k - 1)

(* Mutant: ESP follows each restored register.                             *)
RECURSIVE PopAllSliding(_, _, _, _, _)
PopAllSliding(i, t, c, esp, k) ==
    LET field == Field(t, c, esp, i.bytes, 0, i.bytes, "read")
        next == AdvanceSp(c, esp, i.bytes)
        restored == IF Gprs[k] = "esp" THEN c
                    ELSE WriteGpr(c, Gprs[k], Get(t, c, field), i.bytes)
    IN IF k = 0 THEN CommitSp(c, esp)
       ELSE IF field.fault.raised THEN Faulted(c, field.fault)
       ELSE PopAllSliding(i, t, CommitSp(restored, next), next, k - 1)

PopAllEagerly(i, t, c) == PopAllSliding(i, t, c, c.regs["esp"], Len(Gprs))

(* POPA: the ESP slot is checked and discarded; earlier restores survive a *)
(* later fault.                                                            *)
PopAll(i, t, c) == PopAllFrom(i, t, c, c.regs["esp"], Len(Gprs))

(* The display of ENTER: copies of the enclosing frames' pointers.         *)
RECURSIVE DisplayFrom(_, _, _, _, _, _)
DisplayFrom(i, t, c, source, esp, remaining) ==
    LET from == AdvanceSp(c, WithOffset(c, c.regs["esp"], source), -i.bytes)
        read == Field(t, c, from, i.bytes, 0, i.bytes, "read")
    IN IF c.fault.raised \/ remaining = 0 THEN [cpu |-> c, esp |-> esp]
       ELSE IF read.fault.raised THEN [cpu |-> Faulted(c, read.fault), esp |-> esp]
       ELSE DisplayFrom(i, t, PushAt(t, c, esp, Get(t, c, read), i.bytes, i.bytes),
                        Offset(c, from), AdvanceSp(c, esp, -i.bytes), remaining - 1)

(* ENTER's link to the new frame, after the display.                       *)
Linked(i, t, frame, display) ==
    IF display.cpu.fault.raised THEN display
    ELSE [cpu |-> PushAt(t, display.cpu, display.esp, Truncate(frame, i.bytes),
                         i.bytes, i.bytes),
          esp |-> AdvanceSp(display.cpu, display.esp, -i.bytes)]

(* ENTER's allocation, which is probed and not written.                    *)
Allocate(i, t, c, frame, end) ==
    LET allocated == WithOffset(c, c.regs["esp"], end.esp - i.size)
        probe == Checked(t, c.segments, "ss", Offset(c, allocated), i.bytes, "write").fault
    IN IF end.cpu.fault.raised THEN end.cpu
       ELSE IF probe.raised THEN Faulted(end.cpu, probe)
       ELSE CommitSp(WriteGpr(end.cpu, "ebp", frame, i.bytes), allocated)

(* ENTER: saved EBP, display, link, and a probe of the allocation.         *)
Enter(i, t, c) ==
    LET esp == c.regs["esp"]
        frame == AdvanceSp(c, esp, -i.bytes)
        saved == PushAt(t, c, esp, Truncate(c.regs["ebp"], i.bytes), i.bytes, i.bytes)
    IN Allocate(i, t, c, frame,
                IF i.level = 0 THEN [cpu |-> saved, esp |-> frame]
                ELSE Linked(i, t, frame,
                            DisplayFrom(i, t, saved, c.regs["ebp"], frame, i.level - 1)))

Leave(i, t, c) ==
    LET at == WithOffset(c, c.regs["esp"], c.regs["ebp"])
        field == Field(t, c, at, i.bytes, 0, i.bytes, "read")
    IN IF field.fault.raised THEN Faulted(c, field.fault)
       ELSE WriteGpr(CommitSp(c, AdvanceSp(c, at, i.bytes)), "ebp", Get(t, c, field), i.bytes)

(* CALL: the target is checked before the return address is pushed.        *)
Call(i, t, c) ==
    LET target == Truncate(i.target, i.bytes)
        pushed == PushValue(t, c, Truncate(c.eip + 1, i.bytes), i.bytes, i.bytes)
    IN IF TargetFault(c, target).raised THEN Faulted(c, TargetFault(c, target))
       ELSE IF pushed.fault.raised THEN pushed
       ELSE [pushed EXCEPT !.eip = target]

Return(i, t, c) ==
    LET esp == c.regs["esp"]
        field == Field(t, c, esp, i.bytes, 0, i.bytes, "read")
        target == Get(t, c, field)
        fault == First(<<field.fault, TargetFault(c, target)>>)
    IN IF fault.raised THEN Faulted(c, fault)
       ELSE [CommitSp(c, AdvanceSp(c, esp, i.bytes + i.size)) EXCEPT !.eip = target]

(* LOOP: the count is written back after the target is checked.            *)
Loop(i, c) ==
    LET count == Wrap(c.regs["ecx"] - 1)
        target == Truncate(i.target, i.bytes)
    IN IF count # 0 /\ TargetFault(c, target).raised THEN Faulted(c, TargetFault(c, target))
       ELSE [c EXCEPT !.regs["ecx"] = count,
                      !.eip = IF count # 0 THEN target ELSE c.eip + 1]

Arrive(c, resolved, offset) == [Install(c, "cs", resolved) EXCEPT !.eip = offset]

JumpFar(i, ds, c) ==
    LET offset == Truncate(i.target, i.bytes)
        resolved == Resolve(ds, "cs", i.selector)
        fault == First(<<resolved.fault, LimitFault(resolved, offset)>>)
    IN IF fault.raised THEN Faulted(c, fault) ELSE Arrive(c, resolved, offset)

(* Mutant: the selector is stored before the offset's slot is proved.      *)
CallFarStoring(i, t, ds, c) ==
    LET offset == Truncate(i.target, i.bytes)
        resolved == Resolve(ds, "cs", i.selector)
        frame == AdvanceSp(c, c.regs["esp"], -(2 * i.bytes))
        selector == Field(t, c, frame, 2 * i.bytes, i.bytes, 1, "write")
        return == Field(t, c, frame, 2 * i.bytes, 0, i.bytes, "write")
        early == First(<<resolved.fault, LimitFault(resolved, offset), selector.fault>>)
        stored == Put(t, c, selector, c.segments["cs"].selector)
    IN IF early.raised THEN Faulted(c, early)
       ELSE IF return.fault.raised THEN Faulted(stored, return.fault)
       ELSE Arrive(CommitSp(Put(t, stored, return, Truncate(c.eip + 1, i.bytes)), frame),
                   resolved, offset)

(* CALL far: the target's descriptor, the frame in SS, the target's limit, *)
(* both fields' pages, and only then the stores.                           *)
CallFar(i, t, ds, c) ==
    LET offset == Truncate(i.target, i.bytes)
        resolved == Resolve(ds, "cs", i.selector)
        frame == AdvanceSp(c, c.regs["esp"], -(2 * i.bytes))
        fits == IF SegmentDenied(c.segments.ss, Offset(c, frame), 2 * i.bytes, "write")
                THEN Fault("SS") ELSE NoFault
        selector == Field(t, c, frame, 2 * i.bytes, i.bytes, 1, "write")
        return == Field(t, c, frame, 2 * i.bytes, 0, i.bytes, "write")
        fault == First(<<resolved.fault, fits, LimitFault(resolved, offset),
                         selector.fault, return.fault>>)
        stored == Put(t, Put(t, c, selector, c.segments["cs"].selector), return,
                      Truncate(c.eip + 1, i.bytes))
    IN IF fault.raised THEN Faulted(c, fault)
       ELSE Arrive(CommitSp(stored, frame), resolved, offset)

ReturnFar(i, t, ds, c) ==
    LET esp == c.regs["esp"]
        offset == Field(t, c, esp, 2 * i.bytes, 0, i.bytes, "read")
        selector == Field(t, c, esp, 2 * i.bytes, i.bytes, 1, "read")
        fault == First(<<offset.fault, selector.fault>>
                         \o ReturnFaults(ds, Get(t, c, offset), Get(t, c, selector)))
    IN IF fault.raised THEN Faulted(c, fault)
       ELSE Arrive(CommitSp(c, AdvanceSp(c, esp, 2 * i.bytes + i.size)),
                   Resolve(ds, "cs", Get(t, c, selector)), Get(t, c, offset))

(* IRET: NT, the high half of the flags here, asks for a task return.      *)
ReturnInterrupt(i, t, ds, c) ==
    LET esp == c.regs["esp"]
        offset == Field(t, c, esp, 3 * i.bytes, 0, i.bytes, "read")
        selector == Field(t, c, esp, 3 * i.bytes, i.bytes, 1, "read")
        flags == Field(t, c, esp, 3 * i.bytes, 2 * i.bytes, i.bytes, "read")
        nested == IF c.flags >= Half \div 2 THEN Fault("unsupported") ELSE NoFault
        fault == First(<<nested, offset.fault, selector.fault, flags.fault>>
                         \o ReturnFaults(ds, Get(t, c, offset), Get(t, c, selector)))
    IN IF fault.raised THEN Faulted(c, fault)
       ELSE Arrive([CommitSp(c, AdvanceSp(c, esp, 3 * i.bytes)) EXCEPT
                        !.flags = Get(t, c, flags) % Half],
                   Resolve(ds, "cs", Get(t, c, selector)), Get(t, c, offset))

(* POP of a segment: ESP moves by the old SS before the new one is loaded. *)
PopSelector(i, t, ds, c) ==
    LET esp == c.regs["esp"]
        field == Field(t, c, esp, 1, 0, 1, "read")
        resolved == Resolve(ds, i.segment, Get(t, c, field))
        fault == First(<<field.fault, resolved.fault>>)
    IN IF fault.raised THEN Faulted(c, fault)
       ELSE Install(CommitSp(c, AdvanceSp(c, esp, i.bytes)), i.segment, resolved)

(* LES, LSS, ...: offset and selector are one operand.                     *)
LoadPointer(i, t, ds, c) ==
    LET operand == Checked(t, c.segments, "es", i.target, i.bytes + 1, "read")
        offset == Number(Load(c.memory, FieldPlaces(t, operand, 0, i.bytes)))
        selector == Number(Load(c.memory, FieldPlaces(t, operand, i.bytes, 1)))
        resolved == Resolve(ds, i.segment, selector)
        fault == First(<<operand.fault, resolved.fault>>)
    IN IF fault.raised THEN Faulted(c, fault)
       ELSE Install(WriteGpr(c, i.reg, offset, i.bytes), i.segment, resolved)

Execute(i, t, ds, c) ==
    CASE i.op = "push" -> Push(i, t, c)
      [] i.op = "pushf" -> PushFlags(i, t, c)
      [] i.op = "pushseg" -> PushSelector(i, t, c)
      [] i.op = "pop" -> PopRegister(i, t, c)
      [] i.op = "popmem" -> PopMemory(i, t, c)
      [] i.op = "popf" -> PopFlags(i, t, c)
      [] i.op = "popseg" -> PopSelector(i, t, ds, c)
      [] i.op = "pusha" -> PushAll(i, t, c)
      [] i.op = "popa" -> PopAll(i, t, c)
      [] i.op = "enter" -> Enter(i, t, c)
      [] i.op = "leave" -> Leave(i, t, c)
      [] i.op = "call" -> Call(i, t, c)
      [] i.op = "ret" -> Return(i, t, c)
      [] i.op = "loop" -> Loop(i, c)
      [] i.op = "jmpfar" -> JumpFar(i, ds, c)
      [] i.op = "callfar" -> CallFar(i, t, ds, c)
      [] i.op = "retfar" -> ReturnFar(i, t, ds, c)
      [] i.op = "iret" -> ReturnInterrupt(i, t, ds, c)
      [] i.op = "lptr" -> LoadPointer(i, t, ds, c)

Transfers == {"call", "ret", "loop", "jmpfar", "callfar", "retfar", "iret"}

(* An instruction that is not a transfer falls through.                    *)
FallThrough(i, eip, after) ==
    IF after.fault.raised \/ i.op \in Transfers THEN after
    ELSE [after EXCEPT !.eip = eip + 1]

Completed(i, t, ds, c) == FallThrough(i, c.eip, Execute(i, t, ds, c))

-----------------------------------------------------------------------------
Init ==
    /\ insn \in Insns
    /\ table \in Tables
    /\ descriptors \in Descriptors
    /\ \E esp \in Esps, ebp \in Ebps, ss \in Stacks,
          flags \in (IF insn.op = "iret" THEN {1, Half - 1} ELSE {1}) :
          cpu = [memory |-> Contents,
                 regs |-> [k \in {Gprs[n] : n \in DOMAIN Gprs} |->
                             CASE k = "esp" -> esp [] k = "ebp" -> ebp [] OTHER -> Half + 2],
                 segments |-> [ss |-> ss,
                               cs |-> SegmentOf(descriptors[1], "cs", 3),
                               es |-> SegmentOf(descriptors[2], "es", 5)],
                 eip |-> 1, flags |-> flags, accessed |-> {}, fault |-> NoFault]
    /\ origin = cpu
    /\ status = "run"

(* The guest runs the instruction, to its end or to a fault.               *)
Run ==
    /\ status = "run"
    /\ cpu' = Completed(insn, table, descriptors, [cpu EXCEPT !.fault = NoFault])
    /\ status' = IF cpu'.fault.raised THEN "fault" ELSE "done"
    /\ UNCHANGED <<insn, table, descriptors, origin>>

(* The host maps the page of a fault, or lets it be written.               *)
MapPage ==
    /\ status = "fault"
    /\ cpu.fault.vector = "PF"
    /\ table' = [table EXCEPT ![cpu.fault.address \div PageBytes] =
                    [present |-> TRUE, writable |-> TRUE,
                     frame |-> IF @.present THEN @.frame
                               ELSE cpu.fault.address \div PageBytes]]
    /\ status' = "run"
    /\ UNCHANGED <<insn, descriptors, cpu, origin>>

(* The host brings in a segment that was not present.                      *)
BringSegment ==
    /\ status = "fault"
    /\ cpu.fault.vector \in {"NP", "SS"}
    /\ cpu.fault.code # 0
    /\ descriptors' = [descriptors EXCEPT ![cpu.fault.code].present = TRUE]
    /\ status' = "run"
    /\ UNCHANGED <<insn, table, cpu, origin>>

Next == Run \/ MapPage \/ BringSegment

Spec == Init /\ [][Next]_vars

-----------------------------------------------------------------------------
(* ENTER reads the display below EBP while it writes below ESP: what an    *)
(* attempt that faulted has written must not be what the next one reads.   *)
Places(c, esp, bytes) ==
    LET start == Linear(c.segments.ss, Offset(c, esp))
        places == Translated(table, start, bytes)
    IN {places[k] : k \in DOMAIN places}

DisplaysOverlap ==
    /\ insn.op = "enter"
    /\ \E k \in 1..(insn.level - 1), n \in 1..(insn.level + 1) :
          Places(origin, AdvanceSp(origin, WithOffset(origin, origin.regs["esp"],
                                       origin.regs["ebp"]), -(k * insn.bytes)), insn.bytes)
            \cap Places(origin, AdvanceSp(origin, origin.regs["esp"], -(n * insn.bytes)),
                        insn.bytes) # {}

(* However many faults interrupt it, and wherever, a completed instruction *)
(* has done what it would have done at once with the pages and segments    *)
(* there from the start (the ordering rules of StackFrame, StackPointer,   *)
(* CodeTarget and ResolvedSegment).                                        *)
RestartsAreInvisible ==
    status = "done" /\ ~DisplaysOverlap =>
        cpu = Completed(insn, table, descriptors, origin)

(* A fault, of any of the instruction's checks, leaves ESP, EIP, the flags,*)
(* the loaded segments and the accessed marks of the entry.  General       *)
(* registers may differ only after POPA; memory is compared for every      *)
(* instruction but PUSHA and ENTER, whose partial stores are left to       *)
(* RestartsAreInvisible (the comments of push_all_registers,               *)
(* pop_all_registers, enter_frame and call_far).                           *)
FaultsKeepTheEntry ==
    status = "fault" =>
        /\ cpu.regs["esp"] = origin.regs["esp"]
        /\ cpu.eip = origin.eip
        /\ cpu.flags = origin.flags
        /\ cpu.segments = origin.segments
        /\ cpu.accessed = origin.accessed
        /\ insn.op # "popa" => cpu.regs = origin.regs
        /\ insn.op \notin {"pusha", "enter"} => cpu.memory = origin.memory
=============================================================================
