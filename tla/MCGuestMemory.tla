--------------------------- MODULE MCGuestMemory ----------------------------
(***************************************************************************)
(* How generated code reads its instructions and reaches guest memory, one *)
(* part to a behaviour.                                                    *)
(*   decoders  both decoders, over every opcode of both maps with at most  *)
(*             two prefixes; every ModRM byte of a few forms; and runs of  *)
(*             prefixes up to the length limit with every number of bytes  *)
(*             that can be fetched                                         *)
(*   spans     the access proofs of one path, in four pages of four bytes  *)
(*   strings   repeated string instructions, in four pages of two bytes    *)
(*   stack     the stack and control transfers restarted after faults, in  *)
(*             eight pages of eight bytes                                  *)
(*   bus       physical transfers, in pages of four bytes with A20 at the  *)
(*             fifth page and devices of two ranges                        *)
(* scene says which; the others keep a first state.                        *)
(***************************************************************************)
EXTENDS Decoders, TLC

CONSTANTS Names, Starts, ProbeLengths, MaxDepth, Esps, Ebps, MaxBytes, MaxSteps

VARIABLES
    scene,
    table, env, anchors, taken, cache,
    insn, cpu, origin, status, descriptors,
    pages, gate, stored, registers, last, steps

spanVars == <<env, anchors, taken, cache>>
insnVars == <<insn, cpu, origin, status>>
busVars == <<pages, gate, stored, registers, last, steps>>
mcVars == <<scene, guest, code, d, table, spanVars, insnVars, descriptors, busVars>>

-----------------------------------------------------------------------------
Opcodes == 0..255 \ PrefixBytes
Repeat(byte, n) == [i \in 1..n |-> byte]

Catalogue ==
    [leads |-> {<<>>, <<\h66>>, <<\h67>>, <<\h36>>, <<\hF0>>, <<\hF2>>, <<\hF3>>,
                <<\h66, \hF0>>, <<\hF3, \h66>>},
     opcodes |-> Opcodes, selectors |-> 0..255,
     modrms |-> {64 * mod + 8 * reg + 3 : mod \in {0, 3}, reg \in 0..7} \cup {\h05, \h46, \h84},
     escapes |-> {8 * reg + 1 : reg \in 0..7} \cup \hC0..\hFF,
     sibs |-> {\h25}, limits |-> {16}, sizes |-> {FALSE}]

Addresses ==
    [leads |-> {<<>>, <<\h67>>, <<\h2E, \h67>>},
     opcodes |-> {\h03, \h81}, selectors |-> {},
     modrms |-> {64 * mod + 8 * reg + rm : mod \in 0..3, reg \in {0, 7}, rm \in 0..7},
     escapes |-> {},
     sibs |-> {64 * scale + 8 * index + base : scale \in {0, 3}, index \in {1, 4, 5}, base \in 0..7},
     limits |-> {6, 16}, sizes |-> {FALSE, TRUE}]

Limits ==
    [leads |-> {Repeat(b, n) : b \in {\h66, \h3E}, n \in {0, 1, 4} \cup 8..16}
               \cup {<<\h67>> \o Repeat(\h66, n) : n \in 8..13},
     opcodes |-> {\h0F, \h81, \h83, \h90, \h9A, \hA1, \hC8, \hE9}, selectors |-> {\hAF, \hBA, \h0B},
     modrms |-> {\h00, \h05, \h06, \h44, \h84, \hC0, \hE0, \h60},
     escapes |-> {}, sibs |-> {\h25}, limits |-> 0..17, sizes |-> {FALSE, TRUE}]

MCScenes == [catalogue |-> Catalogue, addresses |-> Addresses, limits |-> Limits]

-----------------------------------------------------------------------------
Page(frame) == [present |-> TRUE, writable |-> TRUE, frame |-> frame]
ReadOnly(frame) == [Page(frame) EXCEPT !.writable = FALSE]
NoPage == [present |-> FALSE, writable |-> FALSE, frame |-> 0]

(* Consecutive, scattered, aliased, wrapping, read-only, missing backing.  *)
SpanTables ==
    {[i \in 0..3 |-> Page(i)],
     [i \in 0..3 |-> Page(3 - i)],
     [i \in 0..3 |-> IF i = 1 THEN NoPage ELSE Page(1)],
     [i \in 0..3 |-> IF i = 2 THEN ReadOnly(2) ELSE Page((i + 3) % 4)],
     [i \in 0..3 |-> CASE i = 0 -> ReadOnly(0) [] i = 1 -> ReadOnly(1)
                       [] i = 2 -> NoPage [] i = 3 -> Page(3)]}

Spans == INSTANCE SpanAccesses WITH PageBytes <- 4, Pages <- 4, Half <- 8, Tables <- SpanTables

StringTables ==
    {[k \in 0..3 |-> Page(k)],
     [k \in 0..3 |-> Page((k + 2) % 4)],
     [k \in 0..3 |-> Page(k % 2)],
     [k \in 0..3 |-> IF k = 1 THEN ReadOnly(1) ELSE Page(k)],
     [k \in 0..3 |-> IF k = 2 THEN NoPage ELSE Page(k)],
     [k \in 0..3 |-> IF k \in {0, 3} THEN NoPage ELSE Page(3 - k)]}

Flat == [base |-> 0, limit |-> 7, usable |-> TRUE, readable |-> TRUE, writable |-> TRUE,
         executable |-> FALSE, expandDown |-> FALSE, big |-> TRUE]

SegmentSets ==
    {[ds |-> Flat, es |-> Flat],
     [ds |-> [Flat EXCEPT !.base = 1, !.limit = 5],
      es |-> [Flat EXCEPT !.limit = 1, !.expandDown = TRUE]]}

Moves == {"movs", "stos", "lods", "ins", "outs"}
Comparisons == {"cmps", "scas"}

StringInsns ==
    [op : Moves, rep : {"count"}, bytes : {1, 2}, down : BOOLEAN, short : BOOLEAN,
     segments : SegmentSets]
    \cup
    [op : Comparisons, rep : {"equal", "unequal"}, bytes : {1, 2}, down : BOOLEAN,
     short : BOOLEAN, segments : SegmentSets]

StringContents ==
    [op \in Moves \cup Comparisons |->
        [p \in 0..7 |-> IF op \in Comparisons THEN (IF p % 4 = 3 THEN 1 ELSE 0) ELSE p]]

Strings == INSTANCE StringRepeats WITH PageBytes <- 2, Pages <- 4, Half <- 4,
    Insns <- StringInsns, Tables <- StringTables, Counts <- {0, 2, 3, 5},
    Accumulators <- {<<0, 8>>}, Contents <- StringContents

-----------------------------------------------------------------------------
StackTables ==
    {[k \in 0..7 |-> Page(k)],
     [k \in 0..7 |-> Page((5 * k) % 8)],
     [k \in 0..7 |-> IF k \in {1, 6} THEN NoPage ELSE Page(k)],
     [k \in 0..7 |-> IF k \in {2, 7} THEN ReadOnly(k) ELSE
                     IF k = 0 THEN NoPage ELSE Page(k)]}

Segment(limit, down, big) ==
    [selector |-> 5, base |-> 0, limit |-> limit, usable |-> TRUE, readable |-> TRUE,
     writable |-> TRUE, executable |-> FALSE, expandDown |-> down, big |-> big]

StackSegments ==
    {Segment(63, FALSE, TRUE), [Segment(7, FALSE, FALSE) EXCEPT !.base = 12],
     [Segment(2, TRUE, FALSE) EXCEPT !.base = 6], Segment(18, FALSE, TRUE)}

Descriptor(kind, present, accessed) ==
    [kind |-> kind, present |-> present, accessed |-> accessed, ring3 |-> TRUE,
     readWrite |-> TRUE, conforming |-> FALSE, base |-> 0, limit |-> 40, big |-> TRUE]

DescriptorTables ==
    {[k \in 0..3 |-> CASE k = 1 -> Descriptor("code", TRUE, TRUE)
                       [] k = 2 -> Descriptor("data", TRUE, FALSE)
                       [] k = 3 -> Descriptor(kind, FALSE, FALSE)
                       [] OTHER -> Descriptor("system", TRUE, TRUE)] :
        kind \in {"code", "data"}}

Plain == [reg |-> "eax", size |-> 0, level |-> 0, target |-> 0, selector |-> 0, segment |-> "es"]

StackInsns ==
    {[op |-> op, bytes |-> b] @@ Plain :
        op \in {"pushf", "pushseg", "popmem", "popf", "pusha", "popa", "leave", "iret"},
        b \in {1, 2}}
    \cup {[op |-> op, bytes |-> b, reg |-> r] @@ Plain :
        op \in {"push", "pop"}, b \in {1, 2}, r \in {"esp", "edi"}}
    \cup {[op |-> "popseg", bytes |-> b, segment |-> s] @@ Plain : b \in {1, 2}, s \in {"ss", "es"}}
    \cup {[op |-> "enter", bytes |-> b, level |-> l, size |-> 3] @@ Plain :
        b \in {1, 2}, l \in {0, 1, 3}}
    \cup {[op |-> op, bytes |-> b, target |-> a] @@ Plain :
        op \in {"call", "loop"}, b \in {1, 2}, a \in {5, 45}}
    \cup {[op |-> op, bytes |-> b, size |-> 2] @@ Plain : op \in {"ret", "retfar"}, b \in {1, 2}}
    \cup {[op |-> op, bytes |-> b, selector |-> s, target |-> a] @@ Plain :
        op \in {"jmpfar", "callfar"}, b \in {1, 2}, s \in {0, 3, 5, 6}, a \in {5, 45}}
    \cup {[op |-> "lptr", bytes |-> b, segment |-> s, target |-> a] @@ Plain :
        b \in {1, 2}, s \in {"ss", "es"}, a \in {6, 7, 23}}

(* Five registers stand for the eight.                                     *)
Stack == INSTANCE StackRestarts WITH PageBytes <- 8, Pages <- 8, Half <- 8,
    Gprs <- <<"eax", "ecx", "esp", "ebp", "edi">>,
    Insns <- StackInsns, Tables <- StackTables, Stacks <- StackSegments,
    Descriptors <- DescriptorTables, Contents <- [p \in 0..63 |-> (3 * p + p \div 8) % 8]

-----------------------------------------------------------------------------
Region(first, end, kind, at) ==
    [first |-> first, end |-> end, mapping |-> [kind |-> kind, backing |-> at]]

Kinds == {"unmapped", "ram", "rom", "mmio"}

At(kind, at) == IF kind \in {"ram", "rom"} THEN at ELSE 0

(* A first region under three others: aliased backing, mixed neighbours.   *)
RegionLists ==
    {<<Region(0, 19, base, 0), Region(4, 11, low, At(low, 8)),
       Region(12, 15, high, At(high, 4)), Region(16, 19, above, At(above, 16))>> :
        base \in {"ram", "mmio"}, low \in Kinds, high \in {"ram", "rom", "mmio"},
        above \in Kinds}

MMIORanges ==
    <<[first |-> 10, end |-> 13], [first |-> 0, end |-> 2],
      [first |-> 14, end |-> 17], [first |-> 5, end |-> 6]>>

Bus == INSTANCE PhysicalBus WITH PageBytes <- 4, A20 <- 16, SegmentBytes <- 8,
    DeviceRanges <- MMIORanges, Capacity <- 20,
    map <- pages, backing <- stored, device <- registers

ASSUME /\ Spans!SpanAssumption /\ Strings!SpanAssumption /\ Stack!SpanAssumption
       /\ Stack!StackAssumption /\ Bus!BusAssumption

-----------------------------------------------------------------------------
NoDecoding == guest = <<>> /\ code = <<>> /\ d = [at |-> "start"]
NoSpans == env = <<>> /\ anchors = <<>> /\ taken = <<>> /\ cache = <<>>
NoInsn == insn = <<>> /\ cpu = <<>> /\ origin = <<>> /\ status = "rest"
NoBus == /\ pages = <<>> /\ gate = FALSE /\ stored = <<>> /\ registers = <<>>
         /\ last = <<>> /\ steps = 0

MCInit ==
    /\ scene \in {"decoders", "spans", "strings", "stack", "bus"}
    /\ IF scene = "decoders" THEN Init ELSE NoDecoding
    /\ CASE scene = "spans" -> Spans!Init /\ NoInsn /\ descriptors = <<>>
         [] scene = "strings" -> Strings!Init /\ NoSpans /\ descriptors = <<>>
         [] scene = "stack" -> Stack!Init /\ NoSpans
         [] OTHER -> table = <<>> /\ NoSpans /\ NoInsn /\ descriptors = <<>>
    /\ IF scene = "bus" THEN Bus!Init ELSE NoBus

Decoding ==
    /\ scene = "decoders"
    /\ Next
    /\ UNCHANGED <<table, spanVars, insnVars, descriptors, busVars>>

Accessing ==
    /\ scene = "spans"
    /\ Spans!Next
    /\ UNCHANGED <<vars, insnVars, descriptors, busVars>>

Repeating ==
    /\ scene = "strings"
    /\ Strings!Next
    /\ UNCHANGED <<vars, spanVars, descriptors, busVars>>

Restarting ==
    /\ scene = "stack"
    /\ Stack!Next
    /\ UNCHANGED <<vars, spanVars, busVars>>

Transferring ==
    /\ scene = "bus"
    /\ Bus!Next
    /\ UNCHANGED <<vars, table, spanVars, insnVars, descriptors>>

(* Every part ends: an instruction with its completion, a bus with its     *)
(* bound of transfers.                                                     *)
Ended == UNCHANGED mcVars

MCNext ==
    \/ (Decoding \/ Accessing \/ Repeating \/ Restarting \/ Transferring) /\ UNCHANGED scene
    \/ Ended

MCSpec == MCInit /\ [][MCNext]_mcVars

-----------------------------------------------------------------------------
(* Accesses to guest memory are exact and restartable: whatever access     *)
(* proofs a path holds, its next access and its next probe are exact       *)
(* (SpanAccesses); at every stop a repeated string instruction has done    *)
(* exactly some number of plain elements (StringRepeats); an instruction   *)
(* restarted after faults has done what it would have done at once, and    *)
(* each fault leaves the state of the entry (StackRestarts).               *)
AccessesAreExact ==
    /\ scene = "spans" => Spans!SpansAreExact /\ Spans!ProbesAreExact
    /\ scene = "strings" => Strings!RepeatsAreElementwise
    /\ scene = "stack" => Stack!RestartsAreInvisible /\ Stack!FaultsKeepTheEntry

(* Each byte of a physical transfer moves where the map puts it, and the   *)
(* devices see theirs once and in order (PhysicalBus).                     *)
BytesAreRouted == Bus!BytesAreRouted /\ Bus!DevicesSeeTheTransfer
=============================================================================
