----------------------------- MODULE GuestSpans -----------------------------
(***************************************************************************)
(* Protected-mode guest accesses: the segment check of a span of offsets,  *)
(* the page-table walk that resolves a span of linear bytes before any of  *)
(* them moves, and the backing bytes a resolved span then transfers        *)
(* (crates/x86/src/segment/access.rs and crates/x86/src/memory).           *)
(*                                                                         *)
(* The 32-bit linear space has Pages pages of PageBytes bytes here, the    *)
(* backing offsets as many frames, and 16-bit offsets end at Half.  A page *)
(* entry is a record: present, writable and the frame it names.            *)
(***************************************************************************)
EXTENDS Integers, Sequences, FiniteSetsExt

CONSTANTS PageBytes, Pages, Half

SpanAssumption ==
    /\ PageBytes \in Nat \ {0}
    /\ Pages \in Nat \ {0}
    /\ Half \in 1..(Pages * PageBytes)

Space == Pages * PageBytes

Wrap(a) == a % Space

InPage(a) == a % PageBytes

Unmapped == [present |-> FALSE, writable |-> FALSE, frame |-> 0]

Entry(table, address) == table[address \div PageBytes]

(* required_permissions: reads and fetches need a present page, writes a   *)
(* writable one too.                                                       *)
Permits(entry, intent) == entry.present /\ (intent = "write" => entry.writable)

Physical(entry, address) == entry.frame * PageBytes + InPage(address)

(* The frame after the last one would wrap: it is no successor.            *)
ScatteredBacking(entry, next) == next.frame # entry.frame + 1

CrossesPage(start, bytes) == InPage(start) >= PageBytes - bytes + 1

NoFault == [raised |-> FALSE, vector |-> "none", address |-> 0, code |-> 0]

Fault(vector) == [raised |-> TRUE, vector |-> vector, address |-> 0, code |-> 0]

(* The code of a page fault: 2 for a write, and 1 when the page is present. *)
PageFault(address, present, intent) ==
    [raised |-> TRUE, vector |-> "PF", address |-> address,
     code |-> (IF intent = "write" THEN 2 ELSE 0)
                + (IF intent = "write" /\ present THEN 1 ELSE 0)]

(* Mutant: the walk counts boundaries from the page base of the span, so   *)
(* an unaligned span misses its last page.                                 *)
BoundariesAligned(start, last) == last \div PageBytes

Boundaries(start, last) ==
    last \div PageBytes + (InPage(start) + InPage(last)) \div PageBytes

(* range_resolver: the first page the span is denied, or the backing of    *)
(* its first page and whether the following frames are consecutive.        *)
PageOf(start, i) == Wrap(start - InPage(start) + i * PageBytes)
EntryOf(table, start, i) == Entry(table, PageOf(start, i))

DeniedPage(table, start, i) ==
    [denied |-> TRUE, address |-> IF i = 0 THEN start ELSE PageOf(start, i),
     present |-> EntryOf(table, start, i).present, scattered |-> FALSE]

ResolvePages(table, start, n, denied) ==
    IF denied # {} THEN DeniedPage(table, start, Min(denied))
    ELSE [denied |-> FALSE, address |-> start, present |-> TRUE,
          scattered |-> \E i \in 1..n : ScatteredBacking(EntryOf(table, start, i - 1),
                                                        EntryOf(table, start, i))]

ResolveUpTo(table, start, n, intent) ==
    ResolvePages(table, start, n, {i \in 0..n : ~Permits(EntryOf(table, start, i), intent)})

ResolveRange(table, start, last, intent) ==
    ResolveUpTo(table, start, Boundaries(start, last), intent)

ResolveFirst(table, start, intent) ==
    LET first == Entry(table, start)
    IN [denied |-> ~Permits(first, intent), address |-> start,
        present |-> first.present, scattered |-> FALSE]

(* resolve_access of a span of known length, at most a page: an aligned    *)
(* power of two or a span inside one page needs only its first entry.      *)
PowerOfTwo(n) == \E k \in 0..n : 2^k = n

Resolution(table, start, bytes, intent) ==
    IF /\ bytes # 1
       /\ PowerOfTwo(bytes) => start % bytes # 0
       /\ CrossesPage(start, bytes)
    THEN ResolveRange(table, start, bytes - 1, intent)
    ELSE ResolveFirst(table, start, intent)

Accessed(table, start, bytes, intent, r) ==
    [linear |-> start, bytes |-> bytes, intent |-> intent,
     physical |-> Physical(Entry(table, start), start),
     scattered |-> r.scattered,
     fault |-> IF r.denied THEN PageFault(r.address, r.present, intent) ELSE NoFault]

Access(table, start, bytes, intent) ==
    Accessed(table, start, bytes, intent, Resolution(table, start, bytes, intent))

(* The same span probed without faulting; "entry" is the first page's,     *)
(* read from the table or from a loop's page cache.  A length known at     *)
(* compile time looks at the last page only, a runtime one walks.          *)
ProbeKnown(table, entry, start, bytes, intent) ==
    LET next == Entry(table, Wrap(start + bytes - 1))
        denied == IF bytes = 0 THEN TRUE
                  ELSE IF CrossesPage(start, bytes)
                       THEN ~(Permits(entry, intent) /\ Permits(next, intent))
                       ELSE ~Permits(entry, intent)
    IN [denied |-> denied,
        unavailable |-> \/ denied
                        \/ CrossesPage(start, bytes) /\ ScatteredBacking(entry, next),
        physical |-> Physical(entry, start)]

Probed(table, start, bytes, r) ==
    [denied |-> bytes = 0 \/ r.denied,
     unavailable |-> bytes = 0 \/ r.denied \/ r.scattered,
     physical |-> Physical(Entry(table, start), start)]

ProbeRange(table, start, bytes, intent) ==
    Probed(table, start, bytes, ResolveRange(table, start, bytes - 1, intent))

(* Read and write of a field of a resolved span: scattered backing is      *)
(* looked up byte by byte, the rest follows the first physical byte.       *)
Translated(table, start, bytes) ==
    [i \in 1..bytes |-> LET a == Wrap(start + i - 1)
                        IN Physical(Entry(table, a), a)]

Contiguous(physical, bytes) == [i \in 1..bytes |-> Wrap(physical + i - 1)]

FieldPlaces(table, access, offset, bytes) ==
    IF access.bytes # 1 /\ access.scattered
    THEN Translated(table, Wrap(access.linear + offset), bytes)
    ELSE Contiguous(access.physical + (IF access.bytes = 1 THEN 0 ELSE offset), bytes)

(* atomic_update: a naturally aligned operand is native at its physical    *)
(* address, any other is read and written as an ordinary field.            *)
AtomicPlaces(table, access) ==
    IF access.linear % access.bytes = 0
    THEN Contiguous(access.physical, access.bytes)
    ELSE FieldPlaces(table, access, 0, access.bytes)

Load(memory, places) == [i \in DOMAIN places |-> memory[places[i]]]

(* The bytes go out in increasing order, so the last writer of an aliased  *)
(* backing byte wins.                                                      *)
Store(memory, places, value) ==
    [p \in DOMAIN memory |->
        LET hits == {i \in DOMAIN places : places[i] = p}
        IN IF hits = {} THEN memory[p] ELSE value[Max(hits)]]

(* SegmentReads::check in protected mode.  A full expand-up segment lets   *)
(* offsets wrap; every other one must hold the whole span.                 *)
SegmentDenied(segment, offset, bytes, intent) ==
    LET last == Wrap(offset + bytes - 1)
        up == (segment.limit = Space - 1) \/ (offset <= last /\ last <= segment.limit)
        down == /\ segment.limit < offset
                /\ offset <= last
                /\ last <= (IF segment.big THEN Space - 1 ELSE Half - 1)
        permitted == CASE intent = "read" -> segment.readable
                       [] intent = "write" -> segment.writable
                       [] intent = "fetch" -> segment.executable
                       [] intent = "either" -> segment.readable \/ segment.executable
    IN ~(segment.usable /\ permitted /\ (IF segment.expandDown THEN down ELSE up))

Linear(segment, offset) == Wrap(segment.base + offset)

(* translate and checked: a denied offset faults before any page does; SS  *)
(* raises #SS, every other segment #GP.                                    *)
DeniedAccess(table, start, intent, vector) ==
    [Accessed(table, start, 1, intent, ResolveFirst(table, start, intent)) EXCEPT
        !.fault = Fault(vector)]

Checked(table, segments, name, offset, bytes, intent) ==
    IF SegmentDenied(segments[name], offset, bytes, intent)
    THEN DeniedAccess(table, Linear(segments[name], offset), intent,
                      IF name = "ss" THEN "SS" ELSE "GP")
    ELSE Access(table, Linear(segments[name], offset), bytes, intent)

(* What an access must do, byte by byte: fault at the first byte it may    *)
(* not touch, and otherwise move the byte each address translates to.      *)
BytewiseFault(table, start, bytes, intent) ==
    LET denied == {i \in 0..(bytes - 1) : ~Permits(Entry(table, Wrap(start + i)), intent)}
        a == Wrap(start + Min(denied))
    IN IF denied = {} THEN NoFault
       ELSE PageFault(a, Entry(table, a).present, intent)
=============================================================================
