----------------------------- MODULE VgaDevice -----------------------------
(***************************************************************************)
(* The firmware's way to the VGA: the same ports and memory a guest uses   *)
(* (crates/bios/src/video.rs, palette/, fonts/upload.rs, parameters.rs,    *)
(* presets/, modes.rs).  A firmware routine is the sequence of accesses it *)
(* makes; Run takes a device through one.                                  *)
(*                                                                         *)
(* The guest's replaceable tables are absent, as firmware setup leaves     *)
(* them, so the palette save area and the font and palette overrides of a  *)
(* mode set do not occur.                                                  *)
(***************************************************************************)
EXTENDS Naturals, Sequences, TLC

-----------------------------------------------------------------------------
(* The VGA adapter as the processor reaches it: register banks behind      *)
(* index/data ports, video memory behind four latches, the palette DAC and *)
(* the DISPI registers of the packed modes (crates/vga/src/registers,      *)
(* memory.rs, memory/access.rs, memory/storage.rs, svga.rs, lib.rs).       *)
(*                                                                         *)
(* A device is one record; every operator takes it and returns the next    *)
(* one.  Ports, register numbers and bits are the hardware's.  Video       *)
(* memory keeps only the groups of four bytes that were written.           *)

CONSTANT Colors    \* entries of the DAC kept, of the 256 in the adapter

ASSUME ColorsAssumption == Colors \in 1..16

None == [none |-> TRUE]

(***************************************************************************)
(* Bytes.                                                                  *)
(***************************************************************************)
Bit(n, i) == (n \div 2^i) % 2
Has(n, i) == Bit(n, i) = 1

AndTable ==
    [a \in 0..255 |-> [b \in 0..255 |->
        LET both(i) == Bit(a, i) * Bit(b, i) * 2^i
        IN both(0) + both(1) + both(2) + both(3) + both(4) + both(5) + both(6) + both(7)]]

And(a, b) == AndTable[a][b]
Or(a, b) == a + b - And(a, b)
Xor(a, b) == a + b - 2 * And(a, b)
Flip(a) == 255 - a
RotateRight(a, n) == a \div 2^n + (a % 2^n) * 2^(8 - n)

(***************************************************************************)
(* Register banks.  An index register selects what the data port reaches.  *)
(***************************************************************************)
SequencerMask == [i \in 0..4 |-> <<\h03, \h3d, \h0f, \h3f, \h0e>>[i + 1]]
GraphicsMask == [i \in 0..8 |->
    <<\h0f, \h0f, \h0f, \h1f, \h03, \h7b, \h0f, \h0f, \hff>>[i + 1]]
CrtcMask == [i \in 0..24 |->
    IF i = \h0a THEN \h3f ELSE IF i \in {\h08, \h0b, \h14} THEN \h7f ELSE \hff]
AttributeMask == [i \in 0..20 |->
    IF i < 16 THEN \h3f ELSE IF i = 16 THEN \hef ELSE IF i = 17 THEN \hff ELSE \h0f]

Selected(bank, other) == IF bank.index \in DOMAIN bank.values THEN bank.values[bank.index] ELSE other

SequencerWrite(s, value) ==
    IF s.index \in 0..4
    THEN [s EXCEPT !.values[s.index] = And(value, SequencerMask[s.index])]
    ELSE s

GraphicsWrite(g, value) ==
    IF g.index \in 0..8
    THEN [g EXCEPT !.values[g.index] = And(value, GraphicsMask[g.index])]
    ELSE g

(* Bit 7 of register 11h protects 00h-07h, but for line compare's overflow *)
(* bit.                                                                    *)
CrtcWrite(c, value) ==
    IF c.index <= 7 /\ Has(c.values[\h11], 7)
    THEN IF c.index = 7
         THEN [c EXCEPT !.values[7] = @ - 16 * Bit(@, 4) + 16 * Bit(value, 4)]
         ELSE c
    ELSE IF c.index \in 0..24
         THEN [c EXCEPT !.values[c.index] = And(value, CrtcMask[c.index])]
         ELSE c

(* One port takes address and data in turn; every write turns it over.     *)
(* While bit 5 of the address gives the palette to the display, palette    *)
(* entries ignore writes.                                                  *)
AttributeWrite(a, value) ==
    LET index == a.address % 32
        taken == index \in DOMAIN a.values /\ (index >= 16 \/ ~Has(a.address, 5))
    IN  IF ~a.next THEN [a EXCEPT !.next = TRUE, !.address = value % 64]
        ELSE IF taken
        THEN [a EXCEPT !.next = FALSE, !.values[index] = And(value, AttributeMask[index])]
        ELSE [a EXCEPT !.next = FALSE]

AttributeRead(a) ==
    LET index == a.address % 32
    IN  IF index \in DOMAIN a.values THEN a.values[index] ELSE \hff

DacSelect(dac, address, reading) ==
    [dac EXCEPT !.address = address % Colors, !.component = 0, !.reading = reading]

DacAddress(dac) == (dac.address + (IF dac.reading THEN 1 ELSE 0)) % Colors

DacStep(dac) ==
    IF dac.component < 2 THEN [dac EXCEPT !.component = @ + 1]
    ELSE [dac EXCEPT !.component = 0, !.address = (@ + 1) % Colors]

DacRead(dac) == dac.colors[dac.address][dac.component + 1]

DacWrite(dac, value) ==
    DacStep([dac EXCEPT !.colors[dac.address][dac.component + 1] = value % 64])

Enabled(d) == d.setup.control = \h08 /\ d.setup.option # 0

WriteControl(d, value) ==
    [d EXCEPT !.setup.control = 16 * Bit(value, 4) + 8 * Bit(value, 3)]

WriteOption(d, value) ==
    IF Has(d.setup.control, 4) THEN [d EXCEPT !.setup.option = value % 2] ELSE d

CrtcPort(d) == IF Has(d.misc, 0) THEN \h3d4 ELSE \h3b4
StatusPort(d) == IF Has(d.misc, 0) THEN \h3da ELSE \h3ba

(***************************************************************************)
(* Byte ports.  A read has a value and may move the device on.             *)
(***************************************************************************)
RegisterValue(d, port) ==
    CASE port = \h3c0 -> d.attr.address
      [] port = \h3c1 -> AttributeRead(d.attr)
      [] port = \h3c2 -> \h10
      [] port = \h3cc -> d.misc
      [] port = \h3c4 -> d.seq.index
      [] port = \h3c5 -> Selected(d.seq, \hff)
      [] port = \h3ce -> d.gc.index
      [] port = \h3cf -> Selected(d.gc, \hff)
      [] port = \h3c6 -> d.dac.mask
      [] port = \h3c7 -> IF d.dac.reading THEN 3 ELSE 0
      [] port = \h3c8 -> DacAddress(d.dac)
      [] port = \h3c9 -> DacRead(d.dac)
      [] port = \h3ca -> d.feature
      [] port = CrtcPort(d) -> d.crtc.index
      [] port = CrtcPort(d) + 1 -> Selected(d.crtc, \hff)
      [] OTHER -> \hff

PortValue(d, port) ==
    IF port = \h102 THEN IF Has(d.setup.control, 4) THEN d.setup.option ELSE \hff
    ELSE IF Enabled(d) THEN RegisterValue(d, port) ELSE \hff

AfterRead(d, port) ==
    IF ~Enabled(d) THEN d
    ELSE IF port = \h3c9 THEN [d EXCEPT !.dac = DacStep(@)]
    ELSE IF port = StatusPort(d) THEN [d EXCEPT !.attr.next = FALSE]
    ELSE d

RegisterWrite(d, port, value) ==
    CASE port = \h3c0 -> [d EXCEPT !.attr = AttributeWrite(@, value)]
      [] port = \h3c2 -> [d EXCEPT !.misc = value]
      [] port = \h3c4 -> [d EXCEPT !.seq.index = value % 8]
      [] port = \h3c5 -> [d EXCEPT !.seq = SequencerWrite(@, value)]
      [] port = \h3ce -> [d EXCEPT !.gc.index = value % 16]
      [] port = \h3cf -> [d EXCEPT !.gc = GraphicsWrite(@, value)]
      [] port = \h3c6 -> [d EXCEPT !.dac.mask = value]
      [] port = \h3c7 -> [d EXCEPT !.dac = DacSelect(@, value, TRUE)]
      [] port = \h3c8 -> [d EXCEPT !.dac = DacSelect(@, value, FALSE)]
      [] port = \h3c9 -> [d EXCEPT !.dac = DacWrite(@, value)]
      [] port = StatusPort(d) -> [d EXCEPT !.feature = value]
      [] port = CrtcPort(d) -> [d EXCEPT !.crtc.index = value % 32]
      [] port = CrtcPort(d) + 1 -> [d EXCEPT !.crtc = CrtcWrite(@, value)]
      [] OTHER -> d

WritePort(d, port, value) ==
    IF port = \h46e8 THEN WriteControl(d, value)
    ELSE IF port = \h102 THEN WriteOption(d, value)
    ELSE IF Enabled(d) THEN RegisterWrite(d, port, value) ELSE d

(* A vertical retrace takes the start address programmed by then.          *)
Retrace(d) ==
    IF d.dispi.active = None
    THEN [d EXCEPT !.crtc.start = d.crtc.values[\h0c] * 256 + d.crtc.values[\h0d]]
    ELSE d

(***************************************************************************)
(* Packed modes: the mode staged, the layout shown, the bank the processor *)
(* sees.                                                                   *)
(***************************************************************************)
VideoMemoryBytes == 4 * 1024 * 1024
BankBytes == 65536
Banks == VideoMemoryBytes \div BankBytes

ModeLayout(width, height, bits) ==
    IF <<width, height>> \in {<<640, 480>>, <<800, 600>>, <<1024, 768>>} /\ bits \in {8, 16, 32}
    THEN [width |-> width, height |-> height, bytes |-> bits \div 8,
          pitch |-> width * (bits \div 8), x |-> 0, y |-> 0]
    ELSE None

MaxPitch(l) == ((VideoMemoryBytes \div l.height) \div l.bytes) * l.bytes
VirtualWidth(l) == l.pitch \div l.bytes
VirtualHeight(l) == VideoMemoryBytes \div l.pitch

WithOrigin(l, x, y) ==
    IF x + l.width <= VirtualWidth(l) /\ y + l.height <= VirtualHeight(l)
    THEN [l EXCEPT !.x = x, !.y = y]
    ELSE None

WithPitch(l, pitch) ==
    IF pitch % l.bytes = 0 /\ l.width * l.bytes <= pitch /\ pitch <= MaxPitch(l)
    THEN WithOrigin([l EXCEPT !.pitch = pitch], l.x, l.y)
    ELSE None

Flags(d) == IF d.dispi.active = None THEN 0 ELSE d.dispi.flags

DispiRead(d, index) ==
    LET s == d.dispi
        shown(value(_)) == IF s.active = None THEN 0 ELSE value(s.active)
    IN  CASE index = 0 -> \hb0c2
          [] index = 1 -> s.width
          [] index = 2 -> s.height
          [] index = 3 -> s.bits
          [] index = 4 -> Flags(d)
          [] index = 5 -> s.bank
          [] index = 6 -> shown(VirtualWidth)
          [] index = 7 -> shown(VirtualHeight) % 65536
          [] index = 8 -> shown(LAMBDA l : l.x)
          [] index = 9 -> shown(LAMBDA l : l.y)
          [] OTHER -> \hffff

(* Entering a mode starts at bank 0 and clears video memory unless bit 7   *)
(* asks otherwise; enabling again changes nothing.                         *)
DispiWrite(d, index, value) ==
    LET s == d.dispi
        off == s.active = None
        keep == value % 256 >= 128
        mode == ModeLayout(s.width, s.height, s.bits)
        next == CASE index = 6 -> WithPitch(s.active, value * s.active.bytes)
                  [] index = 8 -> WithOrigin(s.active, value, s.active.y)
                  [] index = 9 -> WithOrigin(s.active, s.active.x, value)
    IN  CASE index = 1 /\ off -> [d EXCEPT !.dispi.width = value]
          [] index = 2 /\ off -> [d EXCEPT !.dispi.height = value]
          [] index = 3 /\ off -> [d EXCEPT !.dispi.bits = value]
          [] index = 4 /\ value = 0 -> [d EXCEPT !.dispi.active = None, !.dispi.flags = 0]
          [] index = 4 /\ value \in {\h01, \h81} /\ off /\ mode # None ->
                [d EXCEPT !.dispi.active = mode, !.dispi.flags = value, !.dispi.bank = 0,
                          !.planes = IF keep THEN @ ELSE <<>>]
          [] index = 5 /\ value < Banks -> [d EXCEPT !.dispi.bank = value]
          [] index \in {6, 8, 9} /\ ~off ->
                [d EXCEPT !.dispi.active = IF next = None THEN @ ELSE next]
          [] OTHER -> d

(* Word accesses to the two DISPI ports; other widths reach nothing.       *)
ReadWord(d, port) ==
    IF ~Enabled(d) THEN \hffff
    ELSE IF port = \h1ce THEN d.dispi.index ELSE DispiRead(d, d.dispi.index)

WriteWord(d, port, value) ==
    IF ~Enabled(d) THEN d
    ELSE IF port = \h1ce THEN [d EXCEPT !.dispi.index = value]
    ELSE DispiWrite(d, d.dispi.index, value)

(***************************************************************************)
(* Video memory.  Group i holds byte i of each of the four planes, which   *)
(* are bytes 4i..4i+3 of a packed mode.                                    *)
(***************************************************************************)
ChainFour(d) == Has(d.seq.values[4], 3)
OddEvenWrites(d) == ~Has(d.seq.values[4], 2)

Group(d, i) == IF i \in DOMAIN d.planes THEN d.planes[i] ELSE <<0, 0, 0, 0>>

MemoryAccess(d) ==
    IF ~Enabled(d) \/ ~Has(d.misc, 1) THEN "disabled"
    ELSE IF d.dispi.active # None THEN "bank" ELSE "vga"

(* The aperture bits 2 and 3 of the miscellaneous register select.         *)
ApertureStart(d) == <<\ha0000, \ha0000, \hb0000, \hb8000>>[((d.gc.values[6] \div 4) % 4) + 1]
ApertureSize(d) == <<\h20000, \h10000, \h8000, \h8000>>[((d.gc.values[6] \div 4) % 4) + 1]

Mapped(d, address) ==
    ApertureStart(d) <= address /\ address < ApertureStart(d) + ApertureSize(d)

(* Chain-4 and odd/even addressing put high address bits on the lines that *)
(* select the plane.                                                       *)
GroupIndex(d, offset) ==
    LET routed == IF ChainFour(d) THEN (offset - (offset % 4)) + ((offset \div 2^14) % 4)
                  ELSE IF Has(d.gc.values[6], 1) THEN (offset - (offset % 2)) + ((offset \div 2^16) % 2)
                  ELSE offset
    IN  routed % (IF Has(d.seq.values[4], 1) THEN 2^16 ELSE 2^14)

WritePlanes(d, offset) ==
    And(d.seq.values[2],
        IF ChainFour(d) THEN 2^(offset % 4)
        ELSE IF OddEvenWrites(d) THEN \h05 * 2^(offset % 2)
        ELSE \h0f)

(* Read mode 1: the pixels whose cared-for planes hold the compare colour. *)
Compare(d, latches) ==
    LET cared(p) == Has(d.gc.values[7], p)
        match(p) == IF ~cared(p) THEN \hff
                    ELSE IF Has(d.gc.values[2], p) THEN latches[p + 1] ELSE Flip(latches[p + 1])
    IN  And(And(match(0), match(1)), And(match(2), match(3)))

(* What the write logic makes of a byte and the latches, plane by plane.   *)
WriteData(d, value) ==
    LET g == d.gc.values
        writeMode == g[5] % 4
        rotated == RotateRight(value, g[3] % 8)
        mask == And(g[8], IF writeMode = 3 THEN rotated ELSE \hff)
        full(on) == IF on THEN \hff ELSE 0
        source(p) == CASE writeMode = 0 -> IF Has(g[1], p) THEN full(Has(g[0], p)) ELSE rotated
                       [] writeMode = 2 -> full(Has(value, p))
                       [] OTHER -> full(Has(g[0], p))
        latch(p) == d.latches[p + 1]
        combined(p) == CASE (g[3] \div 8) % 4 = 0 -> source(p)
                         [] (g[3] \div 8) % 4 = 1 -> And(source(p), latch(p))
                         [] (g[3] \div 8) % 4 = 2 -> Or(source(p), latch(p))
                         [] OTHER -> Xor(source(p), latch(p))
    IN  IF writeMode = 1 THEN d.latches
        ELSE [q \in 1..4 |-> Or(And(combined(q - 1), mask), And(latch(q - 1), Flip(mask)))]

InBank(address) == \ha0000 <= address /\ address < \ha0000 + BankBytes
BankOffset(d, address) == d.dispi.bank * BankBytes + (address - \ha0000)

(* A legacy read loads all four latches; packed reads leave them alone.    *)
AfterLoad(d, address) ==
    IF MemoryAccess(d) = "vga" /\ Mapped(d, address)
    THEN [d EXCEPT !.latches = Group(d, GroupIndex(d, address - ApertureStart(d)))]
    ELSE d

Load(d, address) ==
    LET offset == address - ApertureStart(d)
        latches == Group(d, GroupIndex(d, offset))
        plane == IF ChainFour(d) THEN offset % 4
                 ELSE IF Has(d.gc.values[5], 4) THEN 2 * (d.gc.values[4] \div 2) + (offset % 2)
                 ELSE d.gc.values[4]
    IN  CASE MemoryAccess(d) = "disabled" -> \hff
          [] MemoryAccess(d) = "bank" ->
                IF InBank(address)
                THEN Group(d, BankOffset(d, address) \div 4)[(BankOffset(d, address) % 4) + 1]
                ELSE \hff
          [] OTHER -> IF ~Mapped(d, address) THEN \hff
                      ELSE IF Has(d.gc.values[5], 3) THEN Compare(d, latches)
                      ELSE latches[plane + 1]

Store(d, address, value) ==
    LET offset == address - ApertureStart(d)
        i == GroupIndex(d, offset)
        data == WriteData(d, value)
        put(at, bytes) == [d EXCEPT !.planes = (at :> bytes) @@ @]
    IN  CASE MemoryAccess(d) = "disabled" -> d
          [] MemoryAccess(d) = "bank" ->
                IF InBank(address)
                THEN LET at == BankOffset(d, address) \div 4
                     IN  put(at, [Group(d, at) EXCEPT ![(BankOffset(d, address) % 4) + 1] = value])
                ELSE d
          [] OTHER -> IF Mapped(d, address)
                      THEN put(i, [q \in 1..4 |-> IF Has(WritePlanes(d, offset), q - 1)
                                                  THEN data[q] ELSE Group(d, i)[q]])
                      ELSE d

(***************************************************************************)
(* The state a new device starts in: 80-column colour text, as after       *)
(* firmware setup.                                                         *)
(***************************************************************************)
TextCrtc ==
    <<\h5f, \h4f, \h50, \h82, \h54, \h80, \hbf, \h1f, 0, \hc7, 0, 0, 0, 0, 0, 0,
      \h9c, \hae, \h8f, 40, \h1f, \h96, \hb9, \ha3, \hff>>
TextPalette == <<0, 1, 2, 3, 4, 5, \h14, 7, \h38, \h39, \h3a, \h3b, \h3c, \h3d, \h3e, \h3f>>
TextColor(i) ==
    <<42 * Bit(i, 2) + 21 * Bit(i, 5), 42 * Bit(i, 1) + 21 * Bit(i, 4), 42 * Bit(i, 0) + 21 * Bit(i, 3)>>

NewDevice ==
    [seq     |-> [index |-> 0, values |-> [i \in 0..4 |-> <<3, 1, 3, 0, 2>>[i + 1]]],
     gc      |-> [index |-> 0,
                  values |-> [i \in 0..8 |-> <<0, 0, 0, 0, 0, \h10, \h0e, \h0f, \hff>>[i + 1]]],
     crtc    |-> [index |-> 0, values |-> [i \in 0..24 |-> TextCrtc[i + 1]], start |-> 0],
     attr    |-> [address |-> \h20, next |-> FALSE,
                  values |-> [i \in 0..20 |-> (TextPalette \o <<\h0c, 0, \h0f, 0, 0>>)[i + 1]]],
     dac     |-> [mask |-> \hff, address |-> 0, component |-> 0, reading |-> FALSE,
                  colors |-> [i \in 0..(Colors - 1) |-> TextColor(i)]],
     misc    |-> \h43,
     feature |-> 0,
     setup   |-> [control |-> \h08, option |-> 1],
     dispi   |-> [index |-> 0, width |-> 0, height |-> 0, bits |-> 0, active |-> None,
                  flags |-> 0, bank |-> 0],
     latches |-> <<0, 0, 0, 0>>,
     planes  |-> <<>>]

-----------------------------------------------------------------------------
CONSTANTS
    TextCells,     \* cells of the text page a mode set blanks, 16384 in the adapter
    RomGlyphs      \* the built-in font: a sequence of 32-byte slots, here shorter ones

Seq4 == \h3c4
Gc == \h3ce

(***************************************************************************)
(* Accesses that depend on the device: the CRTC and status ports follow    *)
(* the routing bit, and the attribute controller's one port is put back to *)
(* the address it had.                                                     *)
(***************************************************************************)
BiosCrtcPort(d) == IF Has(PortValue(d, \h3cc), 0) THEN \h3d4 ELSE \h3b4
BiosStatusPort(d) == IF BiosCrtcPort(d) = \h3d4 THEN \h3da ELSE \h3ba

WriteIndexed(d, port, register, value) == WritePort(WritePort(d, port, register), port + 1, value)

Indexed(d, port, register) == PortValue(WritePort(d, port, register), port + 1)

SelectAttribute(d, address) == WritePort(AfterRead(d, BiosStatusPort(d)), \h3c0, address)

ReadAttribute(d, index) == PortValue(SelectAttribute(d, index), \h3c1)

AfterReadAttribute(d, index) == SelectAttribute(SelectAttribute(d, index), PortValue(d, \h3c0))

WriteRawAttribute(d, index, value) ==
    SelectAttribute(WritePort(SelectAttribute(d, index), \h3c0, value), PortValue(d, \h3c0))

ColorAt(d, index) ==
    LET red == WritePort(d, \h3c7, index)
        green == AfterRead(red, \h3c9)
    IN  <<PortValue(red, \h3c9), PortValue(green, \h3c9), PortValue(AfterRead(green, \h3c9), \h3c9)>>

Gray(color) ==
    LET level == (9830 * (color[1] % 64) + 19333 * (color[2] % 64) + 3604 * (color[3] % 64) + 16384)
                 \div 32768
    IN  <<level, level, level>>

After(d, a) ==
    CASE a[1] = "out" -> WritePort(d, a[2], a[3])
      [] a[1] = "in" -> AfterRead(d, a[2])
      [] a[1] = "indexed" -> WriteIndexed(d, a[2], a[3], a[4])
      [] a[1] = "crtc" -> WriteIndexed(d, BiosCrtcPort(d), a[2], a[3])
      [] a[1] = "status" -> WritePort(d, BiosStatusPort(d), a[2])
      [] a[1] = "select" -> SelectAttribute(d, a[2])
      [] a[1] = "attribute" -> WriteRawAttribute(d, a[2], a[3])
      [] a[1] = "reading" -> AfterReadAttribute(d, a[2])
      [] a[1] = "word" -> WriteWord(d, a[2], a[3])
      [] a[1] = "store" -> Store(d, a[2], a[3])
      [] a[1] = "load" -> AfterLoad(d, a[2])

(* No device is None: the test makes TLC finish each access before the     *)
(* next.                                                                   *)
RECURSIVE Run(_, _)
Run(d, accesses) ==
    IF accesses = <<>> \/ d = None THEN d ELSE Run(After(d, Head(accesses)), Tail(accesses))

(***************************************************************************)
(* Runs of registers, bytes and colours.                                   *)
(***************************************************************************)
WriteRun(port, first, values) ==
    [i \in DOMAIN values |-> <<"indexed", port, first + i - 1, values[i]>>]
WriteEach(port, pairs) == [i \in DOMAIN pairs |-> <<"indexed", port, pairs[i][1], pairs[i][2]>>]
WriteAttributes(first, values) == [i \in DOMAIN values |-> <<"attribute", first + i - 1, values[i]>>]
WriteCrtcWord(register, value) ==
    <<<<"crtc", register, value \div 256>>, <<"crtc", register + 1, value % 256>>>>
StoreRun(address, bytes) == [i \in DOMAIN bytes |-> <<"store", address + i - 1, bytes[i]>>]

(* An empty transfer does not touch the DAC's position.                    *)
DacWrites(index, colors) ==
    IF colors = <<>> THEN <<>>
    ELSE <<<<"out", \h3c8, index>>>> \o
         [i \in 1..(3 * Len(colors)) |-> <<"out", \h3c9, colors[((i - 1) \div 3) + 1][((i - 1) % 3) + 1]>>]

ReadsColor(index) == <<<<"out", \h3c7, index>>, <<"in", \h3c9>>, <<"in", \h3c9>>, <<"in", \h3c9>>>>

RECURSIVE GrayscaleRange(_, _, _)
GrayscaleRange(d, first, count) ==
    IF count = 0 \/ d = None THEN d
    ELSE GrayscaleRange(Run(d, ReadsColor(first) \o DacWrites(first, <<Gray(ColorAt(d, first))>>)),
                        (first + 1) % Colors, count - 1)

(* PaletteLoad: the policy bits of the mode-set control byte.              *)
LoadsColors(control) == ~Has(control, 3)
LoadsGray(control) == Has(control, 1) \/ Has(control, 2)

LoadColors(control, first, colors) ==
    DacWrites(first, IF LoadsGray(control) THEN [i \in DOMAIN colors |-> Gray(colors[i])] ELSE colors)

(***************************************************************************)
(* Font writes expose plane two, and put back all they changed.            *)
(***************************************************************************)
FontSequencer == <<<<2, 4>>, <<4, 6>>>>
FontGraphics == <<<<1, 0>>, <<3, 0>>, <<5, 0>>, <<6, 5>>, <<8, \hff>>>>

Current(d, port, pairs) ==
    [i \in DOMAIN pairs |-> <<pairs[i][1], Indexed(d, port, pairs[i][1])>>]

(* Slot n of the glyphs starts 32 bytes after the one before.              *)
StoreGlyphs(start, glyphs) ==
    LET height == Len(glyphs[1])
    IN  [i \in 1..(height * Len(glyphs)) |->
            <<"store", start + 32 * ((i - 1) \div height) + ((i - 1) % height),
              glyphs[((i - 1) \div height) + 1][((i - 1) % height) + 1]>>]

WriteGlyphs(d, bank, first, glyphs) ==
    LET start == \ha0000 + (bank % 4) * 2^14 + (bank \div 4) * 2^13 + first * 32
    IN  <<<<"out", \h3c2, Or(PortValue(d, \h3cc), 2)>>>>
        \o WriteEach(Seq4, FontSequencer) \o WriteEach(Gc, FontGraphics)
        \o StoreGlyphs(start, glyphs)
        \o WriteEach(Gc, Current(d, Gc, FontGraphics)) \o WriteEach(Seq4, Current(d, Seq4, FontSequencer))
        \o <<<<"out", \h3c2, PortValue(d, \h3cc)>>, <<"out", Seq4, PortValue(d, Seq4)>>,
             <<"out", Gc, PortValue(d, Gc)>>>>

(***************************************************************************)
(* Mode presets: the register tables a mode set writes.                    *)
(***************************************************************************)
With(registers, pairs) ==
    [i \in DOMAIN registers |->
        IF \E p \in pairs : p[1] = i - 1 THEN (CHOOSE p \in pairs : p[1] = i - 1)[2]
        ELSE registers[i]]

Horizontal40 == {<<0, \h2d>>, <<1, \h27>>, <<2, \h28>>, <<3, \h90>>, <<4, \h2b>>, <<5, \h80>>}
Vertical350 == {<<6, \hbf>>, <<7, \h1f>>, <<16, \h83>>, <<18, \h5d>>, <<21, \h63>>, <<22, \hba>>,
                <<17, \h85>>}

PcColor(i) == TextColor(TextPalette[i + 1])
MonoColor(i) == LET level == IF Has(i, 3) = Has(i, 4) THEN 63 * Bit(i, 3) ELSE 42
                IN  <<level, level, level>>

(* Registers 1..4, 0..8, 0..24 and 0..19 of the four banks.                *)
Preset(mode) ==
    CASE mode = \h03 ->
           [misc |-> \h43, seq |-> <<1, 3, 0, 2>>, gc |-> <<0, 0, 0, 0, 0, \h10, \h0e, \h0f, \hff>>,
            crtc |-> With(TextCrtc, {<<10, 6>>, <<11, 7>>}),
            attr |-> TextPalette \o <<\h0c, 0, \h0f, 0>>,
            colors |-> [i \in 1..Colors |-> TextColor(i - 1)], text |-> \hb8000]
      [] mode = \h07 ->
           [misc |-> \ha6, seq |-> <<0, 3, 0, 2>>, gc |-> <<0, 0, 0, 0, 0, \h10, \h0a, \h0f, \hff>>,
            crtc |-> With(With(TextCrtc, Vertical350),
                          {<<9, \h4d>>, <<10, 12>>, <<11, 13>>, <<4, \h55>>, <<5, \h81>>, <<20, 13>>}),
            attr |-> <<0, 8, 8, 8, 8, 8, 8, 8, \h10, \h18, \h18, \h18, \h18, \h18, \h18, \h18,
                       \h0e, 0, 15, 8>>,
            colors |-> [i \in 1..Colors |-> MonoColor(i - 1)], text |-> \hb0000]
      [] mode = \h04 ->
           [misc |-> \h63, seq |-> <<9, 3, 0, 2>>, gc |-> <<0, 0, 0, 0, 0, \h30, \h0f, 15, \hff>>,
            crtc |-> With(With(TextCrtc, Horizontal40),
                          {<<9, \hc1>>, <<19, 20>>, <<20, 0>>, <<23, \ha2>>, <<17, \h8e>>}),
            attr |-> <<0, \h13, \h15, \h17, 2, 4, 6, 7, \h10, \h11, \h12, \h13, \h14, \h15, \h16,
                       \h17, 1, 0, 3, 0>>,
            colors |-> [i \in 1..Colors |-> PcColor((i - 1) % 8)], text |-> 0]
      [] mode = \h06 ->
           [misc |-> \h63, seq |-> <<1, 1, 0, 6>>, gc |-> <<0, 0, 0, 0, 0, 0, \h0d, 15, \hff>>,
            crtc |-> With(TextCrtc, {<<9, \hc1>>, <<20, 0>>, <<23, \hc2>>, <<17, \h8e>>}),
            attr |-> [i \in 1..20 |-> IF i = 1 \/ i \in {18, 20} THEN 0
                                      ELSE IF i \in {17, 19} THEN 1 ELSE \h17],
            colors |-> [i \in 1..Colors |-> PcColor((i - 1) % 8)], text |-> 0]
      [] mode = \h0d ->
           [misc |-> \h63, seq |-> <<9, 15, 0, 6>>, gc |-> <<0, 0, 0, 0, 0, 0, 5, 15, \hff>>,
            crtc |-> With(With(TextCrtc, Horizontal40),
                          {<<9, \hc0>>, <<19, 20>>, <<20, 0>>, <<23, \he3>>, <<17, \h8e>>}),
            attr |-> <<0, 1, 2, 3, 4, 5, 6, 7, \h10, \h11, \h12, \h13, \h14, \h15, \h16, \h17,
                       1, 0, 15, 0>>,
            colors |-> [i \in 1..Colors |-> PcColor((i - 1) % 8)], text |-> 0]
      [] mode = \h13 ->
           [misc |-> \h63, seq |-> <<1, 15, 0, 14>>, gc |-> <<0, 0, 0, 0, 0, \h40, 5, 15, \hff>>,
            crtc |-> With(TextCrtc, {<<9, \h41>>, <<20, \h40>>, <<17, \h8e>>}),
            attr |-> [i \in 1..16 |-> i - 1] \o <<\h41, 0, 15, 0>>,
            colors |-> [i \in 1..Colors |-> PcColor(i - 1)], text |-> 0]

Modes == {\h03, \h04, \h06, \h07, \h0d, \h13}
Presets == [mode \in Modes |-> Preset(mode)]

(* Protection is lifted for the timing registers and restored after them.  *)
ProgramCrtc(crtc) ==
    <<<<"crtc", \h11, 0>>>>
    \o [i \in 1..17 |-> <<"crtc", i - 1, crtc[i]>>]
    \o [i \in 1..7 |-> <<"crtc", i + \h11, crtc[i + 18]>>]
    \o <<<<"crtc", \h11, crtc[18]>>>>

(* Parameters::program.  A kept palette keeps its border too.              *)
Program(p, loads) ==
    <<<<"out", \h3c2, p.misc>>>> \o WriteRun(Seq4, 1, p.seq) \o WriteRun(Gc, 0, p.gc)
    \o ProgramCrtc(p.crtc)
    \o (IF loads THEN WriteAttributes(0, p.attr)
        ELSE <<<<"attribute", 16, p.attr[17]>>>> \o WriteAttributes(18, SubSeq(p.attr, 19, 20)))
    \o <<<<"attribute", \h14, 0>>, <<"select", \h20>>>>

(* Graphics modes are cleared through their aperture: every group some     *)
(* address of it reaches, in the planes that address writes.               *)
ClearAperture(d) ==
    LET reaching(i) == {o \in (i - (i % 4))..(i - (i % 4) + 3) :
                            o < ApertureSize(d) /\ GroupIndex(d, o) = i}
        cleared(i, q) == \E o \in reaching(i) : Has(WritePlanes(d, o), q - 1)
    IN  IF MemoryAccess(d) # "vga" THEN d
        ELSE [d EXCEPT !.planes = [i \in DOMAIN @ |->
                [q \in 1..4 |-> IF cleared(i, q) THEN 0 ELSE @[i][q]]]]

Blank(n) == [i \in 1..(2 * n) |-> IF i % 2 = 1 THEN 32 ELSE 7]

(* Preset::load_palette.                                                   *)
LoadPalette(control, colors) ==
    IF LoadsColors(control) THEN <<<<"out", \h3c6, \hff>>>> \o LoadColors(control, 0, colors) ELSE <<>>

Disable == <<<<"word", \h1ce, 4>>, <<"word", \h1cf, 0>>>>
Reset(value) == <<<<"indexed", Seq4, 0, value>>>>

Emptied(d, kept) == IF kept THEN d ELSE ClearAperture(d)

(* The mode's registers, font, palette, cursor and blank page.             *)
Programmed(d, p, preserve, control) ==
    Run(d, (IF p.text # 0 THEN WriteGlyphs(d, 0, 0, RomGlyphs) ELSE <<>>)
           \o Program(p, LoadsColors(control)) \o LoadPalette(control, p.colors)
           \o WriteCrtcWord(\h0a, p.crtc[11] * 256 + p.crtc[12])
           \o (IF p.text # 0 /\ ~preserve THEN StoreRun(p.text, Blank(TextCells)) ELSE <<>>))

Establish(d, p, preserve, control) ==
    Run(Emptied(Programmed(d, p, preserve, control), preserve \/ p.text # 0), Reset(3))

(* set_mode, the device's part of it.                                      *)
SetMode(d, mode, preserve, control) ==
    Establish(Run(d, Disable \o Reset(1)), Presets[mode], preserve, control)
=============================================================================
