--------------------------- MODULE StringRepeats ----------------------------
(***************************************************************************)
(* The string instructions and their repetition                            *)
(* (crates/x86/src/instruction/definitions/strings.rs, .../strings/*,      *)
(* execution/strings.rs, execution/strings/bulk.rs, memory/bulk.rs).       *)
(*                                                                         *)
(* A repeated instruction first tries to prove its whole operands: when    *)
(* every byte may be touched and the backing is consecutive it copies,     *)
(* fills or loops without further checks; otherwise each element is        *)
(* checked where it comes.  A fault keeps the elements done so far, the    *)
(* instruction itself is not retired: the host maps the page and the same  *)
(* instruction runs again.                                                 *)
(*                                                                         *)
(* Elements are tuples of bytes, of one or two bytes; EAX is its two low   *)
(* bytes.  Input ports deliver a fresh element for every read.  The plain  *)
(* instruction, without a repeat prefix, is one CheckedElement.            *)
(***************************************************************************)
EXTENDS GuestSpans

CONSTANTS
    Insns,         \* the instructions to start from
    Tables,        \* the page tables
    Counts,        \* the values of ECX
    Accumulators,  \* the values of EAX
    Contents       \* memory at the start, for each instruction

VARIABLES
    insn,    \* op, rep, bytes, down (DF), short (16-bit addresses), segments
    table,   \* the page table
    cpu,     \* memory, registers, flags and the ports' history
    origin,  \* cpu when the guest reached the instruction
    status   \* "run", "fault" (cpu.fault says which), "done"

vars == <<insn, table, cpu, origin, status>>

(* read_address_register and write_address_register                        *)
Index(i, c, r) == IF i.short THEN c.regs[r] % Half ELSE c.regs[r]

WithIndex(i, c, r, v) ==
    [c EXCEPT !.regs[r] = IF i.short THEN @ - (@ % Half) + (v % Half) ELSE Wrap(v)]

Stride(i) == IF i.down THEN -i.bytes ELSE i.bytes

Indices(i) ==
    CASE i.op \in {"movs", "cmps"} -> <<"esi", "edi">>
      [] i.op \in {"lods", "outs"} -> <<"esi">>
      [] i.op \in {"stos", "scas", "ins"} -> <<"edi">>

RECURSIVE AdvanceFrom(_, _, _)
AdvanceFrom(i, c, k) ==
    IF k > Len(Indices(i)) THEN c
    ELSE LET r == Indices(i)[k]
         IN AdvanceFrom(i, WithIndex(i, c, r, Index(i, c, r) + Stride(i)), k + 1)

(* advance_indices                                                         *)
Advance(i, c) == AdvanceFrom(i, c, 1)

Intent(i, r) == IF r = "edi" /\ i.op \in {"movs", "stos", "ins"} THEN "write" ELSE "read"

SegmentOf(r) == IF r = "esi" THEN "ds" ELSE "es"

Low(i, value) == SubSeq(value, 1, i.bytes)

(* An element's operand: checked on the spot, or relative to a proved span *)
(* ("range" is the offset and the backing of its first byte).              *)
Operand(i, t, c, r) ==
    Checked(t, i.segments, SegmentOf(r), Index(i, c, r), i.bytes, Intent(i, r))

CheckedPlaces(i, t, c, r) == FieldPlaces(t, Operand(i, t, c, r), 0, i.bytes)

RelativePlaces(i, c, r, range) ==
    Contiguous(range.physical + Wrap(Index(i, c, r) - range.offset), i.bytes)

(* The element of each instruction, given the places of its operands.      *)
Perform(i, c, places) ==
    LET at(r) == Load(c.memory, places[r])
        put(value) == [c EXCEPT !.memory = Store(@, places["edi"], value)]
    IN CASE i.op = "movs" -> put(at("esi"))
         [] i.op = "stos" -> put(Low(i, c.eax))
         [] i.op = "ins"  -> [put([k \in 1..i.bytes |-> 10 * c.inputs + k]) EXCEPT
                                 !.inputs = @ + 1]
         [] i.op = "outs" -> [c EXCEPT !.outputs = Append(@, at("esi"))]
         [] i.op = "lods" -> [c EXCEPT !.eax = at("esi") \o SubSeq(@, i.bytes + 1, 2)]
         [] i.op = "cmps" -> [c EXCEPT !.pair = <<at("esi"), at("edi")>>]
         [] i.op = "scas" -> [c EXCEPT !.pair = <<Low(i, c.eax), at("edi")>>]

(* The accesses come in the order of the indices; the first fault wins and *)
(* nothing of the element is done.                                         *)
FaultOf(i, t, c) ==
    LET faults == {k \in DOMAIN Indices(i) : Operand(i, t, c, Indices(i)[k]).fault.raised}
    IN IF faults = {} THEN NoFault ELSE Operand(i, t, c, Indices(i)[Min(faults)]).fault

CheckedElement(i, t, c) ==
    LET fault == FaultOf(i, t, c)
    IN IF fault.raised THEN [c EXCEPT !.fault = fault]
       ELSE Advance(i, Perform(i, c, [r \in {"esi", "edi"} |-> CheckedPlaces(i, t, c, r)]))

RelativeElement(i, c, ranges) ==
    Advance(i, Perform(i, c, [r \in {"esi", "edi"} |-> RelativePlaces(i, c, r, ranges[r])]))

(* The comparison that ends a REPE or REPNE.                               *)
Stops(i, c) ==
    \/ i.rep = "equal" /\ c.pair[1] # c.pair[2]
    \/ i.rep = "unequal" /\ c.pair[1] = c.pair[2]

CountDown(i, c) == WithIndex(i, c, "ecx", Index(i, c, "ecx") - 1)

(* Repeat::loop_: the count and the indices a later fault publishes are    *)
(* those of the elements completed.                                        *)
RECURSIVE CheckedLoop(_, _, _)
CheckedLoop(i, t, c) ==
    IF Index(i, c, "ecx") = 0 THEN c
    ELSE LET next == CheckedElement(i, t, c)
         IN IF next.fault.raised THEN next
            ELSE LET counted == CountDown(i, next)
                 IN IF Stops(i, counted) THEN counted ELSE CheckedLoop(i, t, counted)

RECURSIVE RelativeLoop(_, _, _)
RelativeLoop(i, c, ranges) ==
    IF Index(i, c, "ecx") = 0 THEN c
    ELSE LET counted == CountDown(i, RelativeElement(i, c, ranges))
         IN IF Stops(i, counted) THEN counted ELSE RelativeLoop(i, counted, ranges)

(* resolve_strings: where each operand starts and whether its offsets stay *)
(* in order, then the segment and the pages of the whole span.             *)
SpanBytes(i, c) == Wrap(Index(i, c, "ecx") * i.bytes)

SpanStart(i, c, r) ==
    IF i.down THEN Wrap(Index(i, c, r) - (SpanBytes(i, c) - i.bytes)) ELSE Index(i, c, r)

(* Mutant: a 16-bit operand may run past the end of its offsets.           *)
EligibleLong(i, c, r) ==
    LET start == SpanStart(i, c, r)
        last == Wrap(start + SpanBytes(i, c) - 1)
    IN start <= Index(i, c, r) /\ Index(i, c, r) <= last

Eligible(i, c, r) ==
    LET start == SpanStart(i, c, r)
        last == Wrap(start + SpanBytes(i, c) - 1)
    IN start <= Index(i, c, r) /\ Index(i, c, r) <= last /\ (i.short => last < Half)

Direct(i, t, c, r) ==
    LET start == SpanStart(i, c, r)
        segment == i.segments[SegmentOf(r)]
        probe == ProbeRange(t, Linear(segment, start), SpanBytes(i, c), Intent(i, r))
    IN [available |-> /\ ~SegmentDenied(segment, start, SpanBytes(i, c), Intent(i, r))
                      /\ ~probe.unavailable,
        offset |-> start, physical |-> probe.physical]

Used(i) == {Indices(i)[k] : k \in DOMAIN Indices(i)}

Available(i, t, c) ==
    \/ Index(i, c, "ecx") = 0
    \/ /\ Index(i, c, "ecx") <= (Space - 1) \div i.bytes
       /\ \A r \in Used(i) : Eligible(i, c, r)
       /\ \A r \in Used(i) : Direct(i, t, c, r).available

(* rep_movs: a block copy agrees with the elements when the operands are   *)
(* the same bytes or share none.                                           *)
CopiesWhole(i, c, ranges) ==
    LET distance == Wrap(ranges["edi"].physical - ranges["esi"].physical)
    IN \/ distance = 0
       \/ distance >= SpanBytes(i, c) /\ Wrap(-distance) >= SpanBytes(i, c)

(* Memory::fill: a uniform element in one call, any other by doubling the  *)
(* prefix already written.                                                 *)
RECURSIVE Double(_, _, _, _)
Double(memory, at, written, bytes) ==
    IF written = bytes THEN memory
    ELSE LET length == IF written < bytes - written THEN written ELSE bytes - written
             copied == Store(memory, Contiguous(at + written, length),
                             Load(memory, Contiguous(at, length)))
         IN Double(copied, at, written + length, bytes)

Fill(memory, at, value, bytes) ==
    IF \A k \in DOMAIN value : value[k] = value[1]
    THEN Store(memory, Contiguous(at, bytes), [k \in 1..bytes |-> value[1]])
    ELSE Double(Store(memory, Contiguous(at, Len(value)), value), at, Len(value), bytes)

RECURSIVE FinishFrom(_, _, _)
FinishFrom(i, c, k) ==
    IF k > Len(Indices(i)) THEN WithIndex(i, c, "ecx", 0)
    ELSE LET r == Indices(i)[k]
         IN FinishFrom(i, WithIndex(i, c, r, Index(i, c, r)
                                               + Index(i, c, "ecx") * Stride(i)), k + 1)

(* The direct half of Repeat::execute.                                     *)
DirectRepeat(i, t, c) ==
    LET ranges == [r \in {"esi", "edi"} |->
                     IF r \in Used(i) THEN Direct(i, t, c, r)
                     ELSE [available |-> FALSE, offset |-> 0, physical |-> 0]]
        bytes == SpanBytes(i, c)
        target == ranges["edi"].physical
    IN CASE i.op = "movs" /\ CopiesWhole(i, c, ranges) ->
              FinishFrom(i, [c EXCEPT !.memory = Store(@, Contiguous(target, bytes),
                                Load(@, Contiguous(ranges["esi"].physical, bytes)))], 1)
         [] i.op = "stos" ->
              FinishFrom(i, [c EXCEPT !.memory = Fill(@, target, Low(i, c.eax), bytes)], 1)
         [] OTHER -> RelativeLoop(i, c, ranges)

(* Comparisons publish their flags at completion, and only if an element   *)
(* was compared.                                                           *)
Publish(i, before, c) ==
    IF i.op \in {"cmps", "scas"} /\ ~c.fault.raised /\ Index(i, before, "ecx") # 0
    THEN [c EXCEPT !.flags = c.pair] ELSE c

Execute(i, t, c) ==
    Publish(i, c, IF Index(i, c, "ecx") = 0 THEN c
                  ELSE IF Available(i, t, c) THEN DirectRepeat(i, t, c)
                  ELSE CheckedLoop(i, t, c))

-----------------------------------------------------------------------------
Init ==
    /\ insn \in Insns
    /\ table \in Tables
    /\ \E esi \in 0..(Space - 1), ecx \in Counts, eax \in Accumulators :
         \E edi \in IF Len(Indices(insn)) = 2 THEN 0..(Space - 1) ELSE {esi} :
            cpu = [memory |-> Contents[insn.op],
                   regs |-> [esi |-> esi, edi |-> edi, ecx |-> ecx], eax |-> eax,
                   pair |-> <<<<9>>, <<9>>>>, flags |-> <<<<9>>, <<9>>>>,
                   inputs |-> 0, outputs |-> <<>>, fault |-> NoFault]
    /\ origin = cpu
    /\ status = "run"

(* The guest runs the instruction, to its end or to a fault.               *)
Run ==
    /\ status = "run"
    /\ cpu' = Execute(insn, table, [cpu EXCEPT !.fault = NoFault])
    /\ status' = IF cpu'.fault.raised THEN "fault" ELSE "done"
    /\ UNCHANGED <<insn, table, origin>>

(* The host answers a page fault: it maps the page, or lets it be written, *)
(* and enters at the same instruction.                                     *)
Repair ==
    /\ status = "fault"
    /\ cpu.fault.vector = "PF"
    /\ table' = [table EXCEPT ![cpu.fault.address \div PageBytes] =
                    [present |-> TRUE, writable |-> TRUE,
                     frame |-> IF @.present THEN @.frame
                               ELSE cpu.fault.address \div PageBytes]]
    /\ status' = "run"
    /\ UNCHANGED <<insn, cpu, origin>>

Next == Run \/ Repair

Spec == Init /\ [][Next]_vars

-----------------------------------------------------------------------------
(* What the manual says of a repetition: the plain instruction again and   *)
(* again, counting, until the count is zero or the comparison ends it.     *)
RECURSIVE Elementwise(_, _, _, _)
Elementwise(i, t, c, n) ==
    IF n = 0 THEN c
    ELSE Elementwise(i, t, CountDown(i, CheckedElement(i, t, c)), n - 1)

(* However its operands overlap, wrap, alias or fault, a repeated string   *)
(* instruction has done, at every stop, exactly some number of plain       *)
(* elements: memory, indices, EAX and ports are theirs.  A fault is the    *)
(* one the next plain element raises, with the flags of the entry; the     *)
(* instruction ends at count zero or at the first element whose comparison *)
(* ends it, with that element's flags.                                     *)
RepeatsAreElementwise ==
    status \in {"fault", "done"} =>
        LET n == Wrap(Index(insn, origin, "ecx") - Index(insn, cpu, "ecx"))
            prefix == Elementwise(insn, table, origin, n)
        IN /\ cpu.memory = prefix.memory
           /\ cpu.regs = prefix.regs
           /\ cpu.eax = prefix.eax
           /\ cpu.inputs = prefix.inputs
           /\ cpu.outputs = prefix.outputs
           /\ status = "fault" =>
                /\ Index(insn, cpu, "ecx") # 0
                /\ cpu.flags = origin.flags
                /\ cpu.fault = FaultOf(insn, table, prefix)
           /\ status = "done" =>
                /\ Index(insn, cpu, "ecx") = 0 \/ (n > 0 /\ Stops(insn, prefix))
                /\ \A k \in 1..(n - 1) : ~Stops(insn, Elementwise(insn, table, origin, k))
                /\ insn.op \in {"cmps", "scas"} =>
                     cpu.flags = IF n = 0 THEN origin.flags ELSE prefix.pair
=============================================================================
