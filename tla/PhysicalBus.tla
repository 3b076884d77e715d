----------------------------- MODULE PhysicalBus ----------------------------
(***************************************************************************)
(* Real-mode memory: the physical map and its A20 gate                     *)
(* (crates/x86/src/memory/physical_map.rs), the transfers of generated     *)
(* code through the serialized map (memory/physical.rs, physical/table.rs, *)
(* physical/transfer.rs), the views of host services                       *)
(* (crates/machine/src/memory/view) and the device bus both end at         *)
(* (crates/machine/src/io.rs).                                             *)
(*                                                                         *)
(* Two pieces of code, one in the guest's Wasm and one in Rust, decide     *)
(* where a byte goes.  They must agree on every byte, on what a device     *)
(* sees of a transfer and in which order.  Pages have PageBytes bytes, A20 *)
(* is the gated address bit and the table covers one page more.  A device  *)
(* answers a byte from its registers, and a read changes it.               *)
(***************************************************************************)
EXTENDS Integers, Sequences, FiniteSetsExt

CONSTANTS
    PageBytes,
    A20,           \* the value of the gated bit
    SegmentBytes,  \* the bytes a 16-bit offset reaches
    MaxBytes,      \* the widest single transfer
    RegionLists,   \* the maps: sequences of regions, later ones on top
    DeviceRanges,  \* the MMIO ranges of the devices, in connection order
    Capacity,      \* the bytes of backing memory
    MaxSteps

BusAssumption ==
    /\ MaxBytes <= PageBytes
    /\ A20 % PageBytes = 0

VARIABLES
    map,       \* page to [kind, backing]
    gate,      \* whether A20 is enabled
    backing,   \* the bytes of RAM and ROM
    device,    \* the devices' registers, by bus address
    last,      \* the last transfer: what it asked, what it read, its calls
    steps

vars == <<map, gate, backing, device, last, steps>>

PageCount == A20 \div PageBytes + 1

Limit == PageCount * PageBytes

InPage(address) == address % PageBytes

Open == 15   \* the byte a hole reads as

Unmapped == [kind |-> "unmapped", backing |-> 0]

(* PhysicalMapping::advance                                                *)
Advance(mapping, bytes) ==
    IF mapping.kind \in {"ram", "rom"} THEN [mapping EXCEPT !.backing = @ + bytes] ELSE mapping

(* PhysicalMemoryMap::new: whole pages, and the last region wins.          *)
Valid(region) ==
    /\ region.first % PageBytes = 0
    /\ (region.end + 1) % PageBytes = 0
    /\ region.first <= region.end
    /\ region.end < Limit
    /\ region.mapping.backing % PageBytes = 0

NewMap(regions) ==
    [page \in 0..(PageCount - 1) |->
        LET on == {k \in DOMAIN regions :
                     page * PageBytes \in regions[k].first..regions[k].end}
        IN IF on = {} THEN Unmapped
           ELSE Advance(regions[Max(on)].mapping,
                        page * PageBytes - regions[Max(on)].first)]

FitsBacking(pages) ==
    \A p \in DOMAIN pages :
        pages[p].kind \in {"ram", "rom"} => pages[p].backing + PageBytes <= Capacity

(* Mutant: the gate passes every address.                                  *)
BusAddressOpen(address) == address

BusAddress(address) ==
    IF gate \/ (address \div A20) % 2 = 0 THEN address ELSE address - A20

(* PhysicalMemoryMap::get: one byte, with its backing.                     *)
Get(address) ==
    LET bus == BusAddress(address)
    IN IF address >= Limit \/ bus >= Limit THEN Unmapped
       ELSE Advance(map[bus \div PageBytes], InPage(bus))

-----------------------------------------------------------------------------
(* IoBus::mmio_span: the range that holds the address, and how much of the *)
(* transfer it holds; before the next range nobody answers.                *)
SpanOf(address, bytes) ==
    LET holds == {k \in DOMAIN DeviceRanges : address \in DeviceRanges[k].first..DeviceRanges[k].end}
        after == {DeviceRanges[k].first - address :
                    k \in {j \in DOMAIN DeviceRanges : DeviceRanges[j].first > address}}
    IN IF holds # {}
       THEN LET k == Min(holds)
            IN [held |-> TRUE, bytes |-> Min({bytes, DeviceRanges[k].end - address + 1})]
       ELSE [held |-> FALSE, bytes |-> Min({bytes} \cup after)]

(* One call of a device: it answers its registers, and the read counts.    *)
Call(op, address, bytes) == [op |-> op, address |-> address, bytes |-> bytes]

Touch(d, address, bytes) ==
    [a \in DOMAIN d |-> IF a \in address..(address + bytes - 1) THEN (d[a] + 1) % 4 ELSE d[a]]

(* A transfer in progress: backing, device, the bytes read, the calls.     *)
Begun == [backing |-> backing, device |-> device, value |-> <<>>, calls |-> <<>>]

(* IoBus::read_mmio and write_mmio                                         *)
RECURSIVE BusRead(_, _, _)
BusRead(x, address, bytes) ==
    LET span == SpanOf(address, bytes)
        y == IF span.held
             THEN [x EXCEPT !.value = @ \o [k \in 1..span.bytes |-> x.device[address + k - 1]],
                            !.device = Touch(@, address, span.bytes),
                            !.calls = Append(@, Call("read", address, span.bytes))]
             ELSE [x EXCEPT !.value = @ \o [k \in 1..span.bytes |-> Open]]
    IN IF bytes = 0 THEN x ELSE BusRead(y, address + span.bytes, bytes - span.bytes)

RECURSIVE BusWrite(_, _, _)
BusWrite(x, address, data) ==
    LET span == SpanOf(address, Len(data))
        y == IF span.held
             THEN [x EXCEPT !.device = [a \in DOMAIN @ |->
                                IF a \in address..(address + span.bytes - 1)
                                THEN data[a - address + 1] ELSE @[a]],
                            !.calls = Append(@, Call("write", address, span.bytes))]
             ELSE x
    IN IF data = <<>> THEN x
       ELSE BusWrite(y, address + span.bytes, SubSeq(data, span.bytes + 1, Len(data)))

-----------------------------------------------------------------------------
(* PhysicalTable::lookup in the serialized map.                            *)
Lookup(address) ==
    LET bus == BusAddress(address)
    IN [kind |-> map[bus \div PageBytes].kind, address |-> bus,
        backing |-> map[bus \div PageBytes].backing + InPage(bus)]

(* PhysicalTable::direct_range: a window inside one page of RAM (or ROM).  *)
DirectRange(address, bytes, intent) ==
    LET entry == Lookup(address)
    IN [unavailable |-> \/ entry.kind \notin (IF intent = "write" THEN {"ram"} ELSE {"ram", "rom"})
                        \/ InPage(address) >= PageBytes + 1 - bytes,
        physical |-> entry.backing]

(* Mutant: two MMIO pages always make one transfer.                        *)
TransferBytesJoined(entry, remaining) ==
    LET inPage == PageBytes - InPage(entry.address)
        next == Lookup(entry.address + inPage)
    IN IF entry.kind # "mmio" THEN 1
       ELSE IF inPage >= remaining \/ next.kind = "mmio" THEN remaining
       ELSE inPage

(* PhysicalTable::transfer_bytes                                           *)
TransferBytes(entry, remaining) ==
    LET inPage == PageBytes - InPage(entry.address)
        next == Lookup(entry.address + inPage)
    IN IF entry.kind # "mmio" THEN 1
       ELSE IF inPage >= remaining \/ (next.kind = "mmio" /\ next.address = entry.address + inPage)
       THEN remaining ELSE inPage

(* declare_reader: part by part, each part routed afresh.                  *)
RECURSIVE GuestReadFrom(_, _, _)
GuestReadFrom(x, address, bytes) ==
    LET entry == Lookup(address)
        count == TransferBytes(entry, bytes)
        y == CASE entry.kind = "mmio" -> BusRead(x, entry.address, count)
               [] entry.kind \in {"ram", "rom"} ->
                    [x EXCEPT !.value = Append(@, x.backing[entry.backing])]
               [] OTHER -> [x EXCEPT !.value = Append(@, Open)]
    IN IF bytes = 0 THEN x ELSE GuestReadFrom(y, address + count, bytes - count)

GuestRead(address, bytes) ==
    LET direct == DirectRange(address, bytes, "read")
    IN IF direct.unavailable THEN GuestReadFrom(Begun, address, bytes)
       ELSE [Begun EXCEPT !.value = [k \in 1..bytes |-> backing[direct.physical + k - 1]]]

Stored(bytes, at, data) ==
    [p \in DOMAIN bytes |-> IF p \in at..(at + Len(data) - 1) THEN data[p - at + 1] ELSE bytes[p]]

RECURSIVE GuestWriteFrom(_, _, _)
GuestWriteFrom(x, address, data) ==
    LET entry == Lookup(address)
        count == TransferBytes(entry, Len(data))
        part == SubSeq(data, 1, count)
        y == CASE entry.kind = "mmio" -> BusWrite(x, entry.address, part)
               [] entry.kind = "ram" -> [x EXCEPT !.backing = Stored(@, entry.backing, part)]
               [] OTHER -> x
    IN IF data = <<>> THEN x
       ELSE GuestWriteFrom(y, address + count, SubSeq(data, count + 1, Len(data)))

GuestWrite(address, data) ==
    LET direct == DirectRange(address, Len(data), "write")
    IN IF direct.unavailable THEN GuestWriteFrom(Begun, address, data)
       ELSE [Begun EXCEPT !.backing = Stored(@, direct.physical, data)]

-----------------------------------------------------------------------------
(* Spans::next: the rest of the page, and for MMIO as many further pages   *)
(* as continue it on the bus.                                              *)
RECURSIVE Continued(_, _, _)
Continued(address, length, remaining) ==
    LET next == address + length
    IN IF length < remaining /\ Get(next).kind = "mmio"
            /\ BusAddress(next) = BusAddress(address) + length
       THEN Continued(address, length + Min({remaining - length, PageBytes - InPage(next)}),
                      remaining)
       ELSE length

SpanLength(address, remaining) ==
    LET length == Min({remaining, PageBytes - InPage(address)})
    IN IF Get(address).kind = "mmio" THEN Continued(address, length, remaining) ELSE length

(* A device call carries at most MaxBytes.                                 *)
RECURSIVE ChunkedRead(_, _, _)
ChunkedRead(x, address, bytes) ==
    LET count == Min({bytes, MaxBytes})
    IN IF bytes = 0 THEN x
       ELSE ChunkedRead(BusRead(x, address, count), address + count, bytes - count)

RECURSIVE ChunkedWrite(_, _, _)
ChunkedWrite(x, address, data) ==
    LET count == Min({Len(data), MaxBytes})
    IN IF data = <<>> THEN x
       ELSE ChunkedWrite(BusWrite(x, address, SubSeq(data, 1, count)), address + count,
                         SubSeq(data, count + 1, Len(data)))

(* MemoryView::read and write                                              *)
RECURSIVE ViewRead(_, _, _)
ViewRead(x, address, bytes) ==
    LET mapping == Get(address)
        count == SpanLength(address, bytes)
        y == CASE mapping.kind \in {"ram", "rom"} ->
                    [x EXCEPT !.value = @ \o [k \in 1..count |-> x.backing[mapping.backing + k - 1]]]
               [] mapping.kind = "mmio" -> ChunkedRead(x, BusAddress(address), count)
               [] OTHER -> [x EXCEPT !.value = @ \o [k \in 1..count |-> Open]]
    IN IF bytes = 0 THEN x ELSE ViewRead(y, address + count, bytes - count)

RECURSIVE ViewWrite(_, _, _)
ViewWrite(x, address, data) ==
    LET mapping == Get(address)
        count == SpanLength(address, Len(data))
        part == SubSeq(data, 1, count)
        y == CASE mapping.kind = "ram" -> [x EXCEPT !.backing = Stored(@, mapping.backing, part)]
               [] mapping.kind = "mmio" -> ChunkedWrite(x, BusAddress(address), part)
               [] OTHER -> x
    IN IF data = <<>> THEN x
       ELSE ViewWrite(y, address + count, SubSeq(data, count + 1, Len(data)))

(* read_wrapping and write_wrapping: the offset stays in its segment.      *)
RECURSIVE WrappingRead(_, _, _, _)
WrappingRead(x, base, offset, bytes) ==
    LET count == Min({bytes, SegmentBytes - offset})
    IN IF bytes = 0 THEN x
       ELSE WrappingRead(ViewRead(x, base + offset, count), base, 0, bytes - count)

RECURSIVE WrappingWrite(_, _, _, _)
WrappingWrite(x, base, offset, data) ==
    LET count == Min({Len(data), SegmentBytes - offset})
    IN IF data = <<>> THEN x
       ELSE WrappingWrite(ViewWrite(x, base + offset, SubSeq(data, 1, count)), base, 0,
                          SubSeq(data, count + 1, Len(data)))

-----------------------------------------------------------------------------
Init ==
    /\ \E regions \in RegionLists :
          /\ \A k \in DOMAIN regions : Valid(regions[k])
          /\ FitsBacking(NewMap(regions))
          /\ map = NewMap(regions)
    /\ gate \in BOOLEAN
    /\ backing = [p \in 0..(Capacity - 1) |-> p % 4]
    /\ device = [a \in 0..(Limit - 1) |-> (a + 2) % 4]
    /\ last = [op |-> "none"]
    /\ steps = 0

Finish(x, request) ==
    /\ backing' = x.backing
    /\ device' = x.device
    /\ last' = [value |-> x.value, calls |-> x.calls, bytes |-> request.bytes,
                places |-> request.places, op |-> request.op]
    /\ steps' = steps + 1
    /\ UNCHANGED <<map, gate>>

Straight(address, bytes) == [k \in 1..bytes |-> address + k - 1]

Wrapped(base, offset, bytes) ==
    [k \in 1..bytes |-> base + ((offset + k - 1) % SegmentBytes)]

Data(bytes) == [k \in 1..bytes |-> 7 + k]

(* The guest's instruction reads or writes; its span fits the segment.     *)
GuestLoads(address, bytes) ==
    /\ steps < MaxSteps
    /\ address + bytes <= Limit
    /\ Finish(GuestRead(address, bytes),
              [op |-> "read", bytes |-> bytes, places |-> Straight(address, bytes)])

GuestStores(address, bytes) ==
    /\ steps < MaxSteps
    /\ address + bytes <= Limit
    /\ Finish(GuestWrite(address, Data(bytes)),
              [op |-> "write", bytes |-> bytes, places |-> Straight(address, bytes)])

(* A host service reads or writes a buffer of the guest, by address or by  *)
(* a far pointer.                                                          *)
HostLoads(address, bytes) ==
    /\ steps < MaxSteps
    /\ Finish(ViewRead(Begun, address, bytes),
              [op |-> "read", bytes |-> bytes, places |-> Straight(address, bytes)])

HostStores(address, bytes) ==
    /\ steps < MaxSteps
    /\ Finish(ViewWrite(Begun, address, Data(bytes)),
              [op |-> "write", bytes |-> bytes, places |-> Straight(address, bytes)])

HostLoadsFar(base, offset, bytes) ==
    /\ steps < MaxSteps
    /\ Finish(WrappingRead(Begun, base, offset, bytes),
              [op |-> "read", bytes |-> bytes, places |-> Wrapped(base, offset, bytes)])

HostStoresFar(base, offset, bytes) ==
    /\ steps < MaxSteps
    /\ Finish(WrappingWrite(Begun, base, offset, Data(bytes)),
              [op |-> "write", bytes |-> bytes, places |-> Wrapped(base, offset, bytes)])

Next ==
    \/ \E address \in 0..(Limit - 1), bytes \in 1..MaxBytes :
          GuestLoads(address, bytes) \/ GuestStores(address, bytes)
    \/ \E address \in 0..(Limit - 1), bytes \in 1..(2 * MaxBytes) :
          HostLoads(address, bytes) \/ HostStores(address, bytes)
    \/ \E base \in {k \in 0..(A20 - 1) : k % 2 = 0},
          offset \in 0..(SegmentBytes - 1), bytes \in {MaxBytes} :
          HostLoadsFar(base, offset, bytes) \/ HostStoresFar(base, offset, bytes)

Spec == Init /\ [][Next]_vars

-----------------------------------------------------------------------------
(* Where each byte of a transfer belongs, from the map and A20 alone.      *)
Owner(address) ==
    LET bus == IF gate THEN address ELSE (address % A20) + 2 * A20 * (address \div (2 * A20))
        page == IF address < Limit /\ bus < Limit THEN map[bus \div PageBytes] ELSE Unmapped
    IN [kind |-> page.kind, bus |-> bus, at |-> page.backing + InPage(bus)]

RangeAt(bus) ==
    LET holds == {k \in DOMAIN DeviceRanges : bus \in DeviceRanges[k].first..DeviceRanges[k].end}
    IN IF holds = {} THEN 0 ELSE CHOOSE k \in holds : TRUE

Device(address) ==
    LET owner == Owner(address)
    IN IF owner.kind = "mmio" THEN RangeAt(owner.bus) ELSE 0

(* A transfer of the guest or of a host service, whatever pages, holes,    *)
(* device ranges and A20 wraps it crosses, moves each of its bytes where   *)
(* the map puts it: RAM and ROM are read in place, only RAM is written,    *)
(* holes read open, and a byte the transfer does not name keeps its value  *)
(* (MemoryView::read and write, PhysicalMemory::read and write).           *)
BytesAreRouted ==
    [][LET n == last'.bytes
           owner(k) == Owner(last'.places[k])
           written(p) == {k \in 1..n : owner(k).kind = "ram" /\ owner(k).at = p}
       IN steps' # steps =>
            /\ last'.op = "read" =>
                 /\ backing' = backing
                 /\ \A k \in 1..n :
                       CASE owner(k).kind \in {"ram", "rom"} ->
                              last'.value[k] = backing[owner(k).at]
                         [] owner(k).kind = "mmio" /\ Device(last'.places[k]) # 0 -> TRUE
                         [] OTHER -> last'.value[k] = Open
            /\ last'.op = "write" =>
                 \A p \in DOMAIN backing :
                    backing'[p] = IF written(p) = {} THEN backing[p]
                                  ELSE Data(n)[Max(written(p))]]_vars

(* What the devices saw of it: the bytes that are theirs, in order, each   *)
(* exactly once, in one call as long as the transfer stays in one range    *)
(* and continues on the bus; calls of the guest and of the host are alike. *)
DevicesSeeTheTransfer ==
    [][LET n == last'.bytes
           theirs(k) == Device(last'.places[k])
           bus(k) == Owner(last'.places[k]).bus
           seen == {k \in 1..n : theirs(k) # 0}
           starts == {k \in seen : \/ k - 1 \notin seen
                                   \/ theirs(k - 1) # theirs(k)
                                   \/ bus(k) # bus(k - 1) + 1}
           calls == last'.calls
       IN steps' # steps /\ n <= MaxBytes =>
            /\ Len(calls) = Cardinality(starts)
            /\ \A c \in DOMAIN calls :
                  LET k == CHOOSE j \in starts : Cardinality({i \in starts : i < j}) = c - 1
                      ends == {j \in (k + 1)..(n + 1) : j \notin seen \/ j \in starts}
                  IN calls[c] = [op |-> last'.op, address |-> bus(k), bytes |-> Min(ends) - k]]_vars
=============================================================================
