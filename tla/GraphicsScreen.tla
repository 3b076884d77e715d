--------------------------- MODULE GraphicsScreen ---------------------------
(***************************************************************************)
(* Pixels, characters and scrolling in the BIOS graphics modes             *)
(* (crates/bios/src/video/graphics/, graphics.rs, fonts/glyph.rs,          *)
(* fonts/graphics.rs, screen/scroll.rs, screen/geometry.rs and the         *)
(* graphics side of screen/characters.rs).  Every service borrows the VGA  *)
(* access registers from the guest, whatever the guest left in them, and   *)
(* draws through the aperture.                                             *)
(*                                                                         *)
(* The mode is set once.  The guest programs the access registers, the     *)
(* index registers and the latches between services; the registers that    *)
(* route the aperture stay as the mode set left them.                      *)
(***************************************************************************)
EXTENDS VgaDevice, FiniteSets

CONSTANTS
    Scenes,       \* the graphics modes looked at
    FontBytes,    \* the bytes behind each font pointer, repeated without end
    CallsOf,      \* per mode, the calls and guest accesses that may be made
    StepsOf       \* per mode, how many of them a behaviour makes

VARIABLES
    vga,          \* the adapter
    bda,          \* the firmware's mode, grid and cursors
    fonts,        \* the INT 43h and INT 1Fh vectors
    before,       \* the adapter before the last call
    did,          \* the last call
    answer,       \* what it returned
    budget        \* calls left

vars == <<vga, bda, fonts, before, did, answer, budget>>

Least(a, b) == IF a < b THEN a ELSE b

(***************************************************************************)
(* Layouts.                                                                *)
(***************************************************************************)
Layout(mode) ==
    CASE mode = \h04 -> [kind |-> "packed2", width |-> 320, height |-> 200, bytes |-> \h4000, pages |-> 1]
      [] mode = \h06 -> [kind |-> "packed1", width |-> 640, height |-> 200, bytes |-> \h4000, pages |-> 1]
      [] mode = \h0d -> [kind |-> "planar", width |-> 320, height |-> 200, bytes |-> \h2000, pages |-> 8]
      [] mode = \h13 -> [kind |-> "indexed", width |-> 320, height |-> 200, bytes |-> 64000, pages |-> 1]

Layouts == [mode \in {\h04, \h06, \h0d, \h13} |-> Layout(mode)]

L == Layouts[bda.mode]
Planar == L.kind = "planar"
Packed(kind) == kind \in {"packed1", "packed2"}
PixelsPerByte(kind) == CASE kind = "packed2" -> 4 [] kind = "indexed" -> 1 [] OTHER -> 8
PixelValues(kind) == CASE kind = "packed2" -> 4 [] kind = "indexed" -> 256 [] OTHER -> 2
Shift(kind, x) == (PixelsPerByte(kind) - 1 - (x % PixelsPerByte(kind))) * (8 \div PixelsPerByte(kind))
Borrowed(kind) == CASE kind = "packed1" -> 1 [] kind = "packed2" -> 3 [] OTHER -> 15
Aperture(kind) == IF Packed(kind) THEN \hb8000 ELSE \ha0000

RowOffset(kind, stride, y) ==
    IF Packed(kind) THEN (y % 2) * \h2000 + (y \div 2) * stride ELSE y * stride

Address(page, x, y) ==
    Aperture(L.kind) + page * L.bytes + RowOffset(L.kind, L.width \div PixelsPerByte(L.kind), y)
    + x \div PixelsPerByte(L.kind)

ValidPage(page) == page < L.pages

(* Packed character operations always draw eight scanlines.                *)
FontHeight == IF Packed(L.kind) THEN 8 ELSE bda.height
GridColumns == Least(bda.columns, L.width \div 8)
GridRows == Least(bda.last + 1, L.height \div FontHeight)
Contains(row, column) == row < GridRows /\ column < GridColumns

(***************************************************************************)
(* GraphicsAccess: the registers a service borrows and gives back.         *)
(***************************************************************************)
Kept == <<5, 3, 4, 8, 1>>

(* Read mode 0; each operation supplies its write mode.                    *)
AccessMode == vga.gc.values[5] - (vga.gc.values[5] % 4) - 8 * Bit(vga.gc.values[5], 3)
Access(extra) == <<"indexed", Gc, 5, AccessMode + extra>>

Borrow ==
    <<<<"indexed", Seq4, 2, Borrowed(L.kind)>>>> \o
    WriteEach(Gc, <<<<5, AccessMode>>, <<3, 0>>, <<8, \hff>>, <<1, 0>>, <<4, 0>>>>)

GiveBack(d) ==
    WriteEach(Gc, Current(d, Gc, [i \in 1..5 |-> <<Kept[i]>>]))
    \o <<<<"indexed", Seq4, 2, Indexed(d, Seq4, 2)>>,
         <<"out", Seq4, PortValue(d, Seq4)>>, <<"out", Gc, PortValue(d, Gc)>>>>

Opened == Run(vga, Borrow)
Closed(d) == Run(d, GiveBack(vga))

(* Planes under a mask take a colour, exclusive-or when bit 7 says so: the *)
(* read before the write loads the latches.                                *)
MaskedWrite(address, mask, color) ==
    <<Access(2), <<"indexed", Gc, 3, IF Has(color, 7) THEN \h18 ELSE 0>>, <<"indexed", Gc, 8, mask>>,
      <<"load", address>>, <<"store", address, color>>>>

(***************************************************************************)
(* Pixels.                                                                 *)
(***************************************************************************)
(* Pixel services ignore the page in single-page modes.                    *)
PixelPage(page) == IF L.pages = 1 THEN 0 ELSE page
Locates(page, x, y) == x < L.width /\ y < L.height /\ ValidPage(PixelPage(page))

PlanarPixel(d, address, bit) ==
    LET plane(p) == IF Has(Load(WriteIndexed(d, Gc, 4, p), address), bit) THEN 2^p ELSE 0
    IN  plane(0) + plane(1) + plane(2) + plane(3)

ReadsPixel(address) ==
    IF Planar
    THEN <<<<"indexed", Gc, 4, 0>>, <<"load", address>>, <<"indexed", Gc, 4, 1>>, <<"load", address>>,
           <<"indexed", Gc, 4, 2>>, <<"load", address>>, <<"indexed", Gc, 4, 3>>, <<"load", address>>>>
    ELSE <<<<"load", address>>>>

PixelRead(d, page, x, y) ==
    LET address == Address(PixelPage(page), x, y)
        shift == Shift(L.kind, x)
    IN  IF Planar THEN PlanarPixel(d, address, shift)
        ELSE (Load(d, address) \div 2^shift) % PixelValues(L.kind)

PixelWrites(d, page, x, y, color) ==
    LET address == Address(PixelPage(page), x, y)
        shift == Shift(L.kind, x)
        byte == Load(d, address)
        mask == (PixelValues(L.kind) - 1) * 2^shift
        value == (color % PixelValues(L.kind)) * 2^shift
    IN  CASE Planar -> MaskedWrite(address, 2^shift, color)
          [] L.kind = "indexed" -> <<<<"store", address, color>>>>
          [] OTHER -> <<<<"load", address>>,
                        <<"store", address, IF Has(color, 7) THEN Xor(byte, value)
                                            ELSE Or(And(byte, Flip(mask)), value)>>>>

(***************************************************************************)
(* Glyphs: the live font vectors, split at 80h in the CGA modes.           *)
(***************************************************************************)
SplitFont == bda.mode \in {\h04, \h06}

GlyphRows(character, height) ==
    LET high == SplitFont /\ character >= 128
        bytes == FontBytes[IF high THEN fonts.high ELSE fonts.low]
        index == IF high THEN character - 128 ELSE character
    IN  [i \in 1..height |-> bytes[((index * height + i - 1) % Len(bytes)) + 1]]

Recognize(rows) ==
    LET last == IF SplitFont /\ fonts.high = "null" THEN 127 ELSE 255
        matches == {c \in 0..last : GlyphRows(c, Len(rows)) = rows}
    IN  IF matches = {} THEN 0 ELSE CHOOSE c \in matches : \A other \in matches : c <= other

(* A scanline of a glyph as packed or indexed bytes.                       *)
Foreground(color) == IF L.kind = "packed1" THEN 1 ELSE color % PixelValues(L.kind)

RowBytes(bits, color) ==
    LET n == PixelsPerByte(L.kind)
        pixel(x) == Bit(bits, 7 - x) * Foreground(color) * 2^Shift(L.kind, x)
        byte(b) == LET part(i) == IF i < n THEN pixel(b * n + i) ELSE 0
                   IN  part(0) + part(1) + part(2) + part(3) + part(4) + part(5) + part(6) + part(7)
    IN  [b \in 1..(8 \div n) |-> byte(b - 1)]

ScanlineWrites(d, address, bits, color) ==
    LET bytes == RowBytes(bits, color)
        xor == L.kind # "indexed" /\ Has(color, 7)
    IN  IF Planar
        THEN (IF Has(color, 7) THEN <<>> ELSE MaskedWrite(address, Flip(bits), 0))
             \o MaskedWrite(address, bits, color)
        ELSE (IF xor THEN [b \in DOMAIN bytes |-> <<"load", address + b - 1>>] ELSE <<>>)
             \o [b \in DOMAIN bytes |->
                    <<"store", address + b - 1,
                      IF xor THEN Xor(bytes[b], Load(d, address + b - 1)) ELSE bytes[b]>>]

Scanlines(page, row, column, glyph) ==
    [i \in DOMAIN glyph |-> <<Address(page, column * 8, row * Len(glyph) + i - 1), glyph[i]>>]

RECURSIVE WriteScanlines(_, _, _)
WriteScanlines(d, lines, color) ==
    IF lines = <<>> \/ d = None THEN d
    ELSE WriteScanlines(Run(d, ScanlineWrites(d, lines[1][1], lines[1][2], color)), Tail(lines), color)

(* Output::write_repeated: through visible cells, stopping at the bottom.  *)
Cells(row, column, count) ==
    LET start == row * GridColumns + column
        end == Least(start + count, GridColumns * GridRows)
    IN  [i \in 1..(end - start) |->
            <<(start + i - 1) \div GridColumns, (start + i - 1) % GridColumns>>]

RECURSIVE WriteCells(_, _, _, _, _)
WriteCells(d, page, cells, glyph, color) ==
    IF cells = <<>> THEN d
    ELSE WriteCells(WriteScanlines(d, Scanlines(page, cells[1][1], cells[1][2], glyph), color),
                    page, Tail(cells), glyph, color)

(* A character read: the pixels that differ from the compared colour, or   *)
(* the pixels that are not zero.                                           *)
NonzeroPixels(d, address) ==
    LET n == PixelsPerByte(L.kind)
        pixel(x) == (Load(d, address + x \div n) \div 2^Shift(L.kind, x)) % PixelValues(L.kind)
        bit(x) == IF pixel(x) = 0 THEN 0 ELSE 2^(7 - x)
    IN  bit(0) + bit(1) + bit(2) + bit(3) + bit(4) + bit(5) + bit(6) + bit(7)

CharacterRow(d, address) ==
    IF Planar THEN Flip(Load(Run(d, <<Access(8)>>), address)) ELSE NonzeroPixels(d, address)

ReadsRow(address) ==
    IF Planar THEN <<Access(8), <<"load", address>>>>
    ELSE [b \in 1..(8 \div PixelsPerByte(L.kind)) |-> <<"load", address + b - 1>>]

(***************************************************************************)
(* Scrolling.                                                              *)
(***************************************************************************)
(* Scroll::new: the clipped window, or none.                               *)
Clip(w, lines) ==
    LET bottom == Least(w.bottom, GridRows - 1)
        right == Least(w.right, GridColumns - 1)
    IN  IF GridColumns = 0 \/ GridRows = 0 \/ w.top > bottom \/ w.left > right THEN None
        ELSE [top |-> w.top, left |-> w.left, bottom |-> bottom, width |-> right - w.left + 1,
              count |-> IF lines = 0 THEN bottom - w.top + 1 ELSE Least(lines, bottom - w.top + 1)]

(* Mutant: rows are always moved from the top.                             *)
ScrollRowsDownward(s, up) ==
    [i \in 1..(s.bottom - s.top + 1) |->
        LET row == s.top + i - 1
            source == IF up THEN row + s.count ELSE row - s.count
        IN  <<row, IF s.top <= source /\ source <= s.bottom THEN <<source>> ELSE <<>>>>]

(* Rows in the order that keeps overlapping sources intact.                *)
ScrollRows(s, up) ==
    [i \in 1..(s.bottom - s.top + 1) |->
        LET row == IF up THEN s.top + i - 1 ELSE s.bottom - (i - 1)
            source == IF up THEN row + s.count ELSE row - s.count
        IN  <<row, IF s.top <= source /\ source <= s.bottom THEN <<source>> ELSE <<>>>>]

(* Each planar byte goes through the latches: its read, then its write.    *)
CopyPlanar(source, destination, n) ==
    <<Access(1)>> \o
    [i \in 1..(2 * n) |-> IF i % 2 = 1 THEN <<"load", source + (i - 1) \div 2>>
                          ELSE <<"store", destination + (i - 1) \div 2, 0>>]

FillPlanar(destination, n, color) ==
    <<Access(2), <<"indexed", Gc, 3, 0>>, <<"indexed", Gc, 8, \hff>>>> \o
    [i \in 1..n |-> <<"store", destination + i - 1, color>>]

(* Packed rows are read whole, then written.                               *)
LineWrites(d, destination, source, n, color) ==
    CASE Planar /\ source # <<>> -> CopyPlanar(source[1], destination, n)
      [] Planar /\ source = <<>> -> FillPlanar(destination, n, color)
      [] OTHER -> [i \in 1..(IF source = <<>> THEN 0 ELSE n) |-> <<"load", source[1] + i - 1>>]
                  \o [i \in 1..n |-> <<"store", destination + i - 1,
                                       IF source = <<>> THEN color ELSE Load(d, source[1] + i - 1)>>]

ScrollLines(s, up, page) ==
    LET rows == ScrollRows(s, up)
        h == FontHeight
        at(row, y) == Address(page, s.left * 8, row * h + y)
    IN  [i \in 1..(Len(rows) * h) |->
            LET r == rows[((i - 1) \div h) + 1]
                y == (i - 1) % h
            IN  <<at(r[1], y), IF r[2] = <<>> THEN <<>> ELSE <<at(r[2][1], y)>>>>]

RECURSIVE MoveLines(_, _, _, _)
MoveLines(d, lines, n, color) ==
    IF lines = <<>> \/ d = None THEN d
    ELSE MoveLines(Run(d, LineWrites(d, lines[1][1], lines[1][2], n, color)), Tail(lines), n, color)

(***************************************************************************)
(* Actions.  A call with its answer; a refused call changes nothing.       *)
(***************************************************************************)
Calls(name) == {c \in CallsOf[bda.mode] : c[1] = name}

Step(call, device, result) ==
    /\ budget > 0
    /\ budget' = budget - 1
    /\ before' = vga
    /\ did' = call
    /\ vga' = device
    /\ answer' = result

(* The guest programs an access register, an index or a byte of memory.    *)
Program1(c) == Step(c, Run(vga, <<c[2]>>), <<>>) /\ UNCHANGED <<bda, fonts>>

GuestAccess == \E c \in Calls("guest") : Program1(c)

(* AH=02h.                                                                 *)
SetCursor ==
    \E c \in Calls("cursor") :
        /\ Step(c, vga, <<>>)
        /\ bda' = IF ValidPage(c[2]) THEN [bda EXCEPT !.cursors[c[2]] = <<c[3], c[4]>>] ELSE bda
        /\ UNCHANGED fonts

(* AH=11h, AL=20h-24h.                                                     *)
SelectFont ==
    \E c \in Calls("font") :
        /\ Step(c, vga, <<>>)
        /\ IF c[3] \in 1..32
           THEN /\ fonts' = [fonts EXCEPT !.low = c[2]]
                /\ bda' = [bda EXCEPT !.height = c[3], !.last = (c[4] + 255) % 256]
           ELSE UNCHANGED <<bda, fonts>>

SetHighFont ==
    \E c \in Calls("highfont") :
        /\ Step(c, vga, <<>>)
        /\ fonts' = [fonts EXCEPT !.high = c[2]]
        /\ UNCHANGED bda

(* AH=0Dh and AH=0Ch.                                                      *)
ReadPixel ==
    \E c \in Calls("readpixel") :
        /\ IF Locates(c[2], c[3], c[4])
           THEN Step(c, Closed(Run(Opened, ReadsPixel(Address(PixelPage(c[2]), c[3], c[4])))),
                     <<PixelRead(Opened, c[2], c[3], c[4])>>)
           ELSE Step(c, vga, <<>>)
        /\ UNCHANGED <<bda, fonts>>

WritePixel ==
    \E c \in Calls("pixel") :
        /\ IF Locates(c[2], c[3], c[4])
           THEN Step(c, Closed(Run(Opened, PixelWrites(Opened, c[2], c[3], c[4], c[5]))), <<>>)
           ELSE Step(c, vga, <<>>)
        /\ UNCHANGED <<bda, fonts>>

(* AH=09h and AH=0Ah draw alike here; neither moves the cursor.            *)
WriteCharacters ==
    \E c \in Calls("write") :
        /\ LET at == bda.cursors[c[2]]
               drawn == WriteCells(Opened, c[2], Cells(at[1], at[2], c[5]),
                                   GlyphRows(c[3], FontHeight), c[4])
           IN  IF ValidPage(c[2]) /\ Contains(at[1], at[2]) /\ c[5] # 0 /\ FontHeight \in 1..32
               THEN Step(c, Closed(drawn), <<>>)
               ELSE Step(c, vga, <<>>)
        /\ UNCHANGED <<bda, fonts>>

(* AH=08h: the access registers go back before the fonts are searched.     *)
RECURSIVE RunRows(_, _)
RunRows(d, addresses) ==
    IF addresses = <<>> \/ d = None THEN d
    ELSE RunRows(Run(d, ReadsRow(addresses[1])), Tail(addresses))

ReadCharacter ==
    \E c \in Calls("readchar") :
        /\ LET at == bda.cursors[c[2]]
               addresses == [i \in 1..FontHeight |->
                                Address(c[2], at[2] * 8, at[1] * FontHeight + i - 1)]
           IN  CASE ~ValidPage(c[2]) -> Step(c, vga, <<>>)
                 [] ValidPage(c[2]) /\ ~Contains(at[1], at[2]) -> Step(c, vga, <<0>>)
                 [] OTHER -> Step(c, Closed(RunRows(Opened, addresses)),
                                  <<Recognize([i \in DOMAIN addresses |-> CharacterRow(Opened, addresses[i])])>>)
        /\ UNCHANGED <<bda, fonts>>

(* AH=06h and AH=07h, on the page shown.                                   *)
Scroll ==
    \E c \in Calls("scroll") :
        /\ LET s == Clip(c[2], c[3])
               n == (s.width * 8) \div PixelsPerByte(L.kind)
           IN  IF s = None THEN Step(c, vga, <<>>)
               ELSE Step(c, Closed(MoveLines(Opened, ScrollLines(s, c[5], bda.page), n, c[4])), <<>>)
        /\ UNCHANGED <<bda, fonts>>

Next ==
    \/ GuestAccess \/ SetCursor \/ SelectFont \/ SetHighFont \/ ReadPixel \/ WritePixel
    \/ WriteCharacters \/ ReadCharacter \/ Scroll

Init ==
    \E mode \in Scenes :
        /\ vga = SetMode(NewDevice, mode, FALSE, 0)
        /\ bda = [mode |-> mode, columns |-> IF mode = \h06 THEN 80 ELSE 40, last |-> 24,
                  height |-> 8, page |-> 0, cursors |-> [p \in 0..7 |-> <<0, 0>>]]
        /\ fonts = [low |-> "rom", high |-> "high"]
        /\ before = vga
        /\ did = <<"mode">>
        /\ answer = <<>>
        /\ budget = StepsOf[mode]

Spec == Init /\ [][Next]_vars

(***************************************************************************)
(* Properties.                                                             *)
(***************************************************************************)
(* Where the mode keeps a byte of the aperture: its group and its plane.   *)
Group0(offset) ==
    CASE L.kind = "indexed" -> (offset - (offset % 4)) + ((offset \div 2^14) % 4)
      [] L.kind = "packed2" -> offset - (offset % 2)
      [] OTHER -> offset
Plane0(offset) == CASE L.kind = "indexed" -> offset % 4 [] L.kind = "packed2" -> offset % 2 [] OTHER -> 0

(* The picture: the colour of a pixel of a page.                           *)
PixelOf(d, page, x, y) ==
    LET offset == Address(page, x, y) - Aperture(L.kind)
        bytes == Group(d, Group0(offset))
        plane(p) == Bit(bytes[p], 7 - (x % 8)) * 2^(p - 1)
    IN  IF Planar THEN plane(1) + plane(2) + plane(3) + plane(4)
        ELSE (bytes[Plane0(offset) + 1] \div 2^Shift(L.kind, x)) % PixelValues(L.kind)

XorColors(a, b) == Xor(a, b % 16)

(* What a pixel shows after a pixel, character or scroll call.             *)
AfterPixel(c, page, x, y) ==
    LET old == PixelOf(before, page, x, y)
        color == c[5] % (IF Planar THEN 16 ELSE PixelValues(L.kind))
    IN  IF ~(Locates(c[2], c[3], c[4]) /\ <<page, x, y>> = <<PixelPage(c[2]), c[3], c[4]>>) THEN old
        ELSE IF L.kind # "indexed" /\ Has(c[5], 7) THEN XorColors(old, color) ELSE color

AfterWrite(c, page, x, y) ==
    LET at == bda.cursors[c[2]]
        old == PixelOf(before, page, x, y)
        row == y \div FontHeight
        cell == (row * GridColumns + x \div 8) - (at[1] * GridColumns + at[2])
        color == IF L.kind = "packed1" THEN 1 ELSE c[4] % (IF Planar THEN 16 ELSE PixelValues(L.kind))
        on == Has(GlyphRows(c[3], FontHeight)[(y % FontHeight) + 1], 7 - (x % 8))
    IN  IF ~(ValidPage(c[2]) /\ page = c[2] /\ Contains(at[1], at[2]) /\ Contains(row, x \div 8)
             /\ (row * GridColumns + x \div 8) >= (at[1] * GridColumns + at[2]) /\ cell < c[5])
        THEN old
        ELSE IF L.kind # "indexed" /\ Has(c[4], 7)
             THEN IF on THEN XorColors(old, color) ELSE old
             ELSE IF on THEN color ELSE 0

AfterScroll(c, page, x, y) ==
    LET s == Clip(c[2], c[3])
        row == y \div FontHeight
        column == x \div 8
        source == IF c[5] THEN row + s.count ELSE row - s.count
        fill == CASE Planar -> c[4] % 16
                  [] OTHER -> (c[4] \div 2^Shift(L.kind, x)) % PixelValues(L.kind)
        inside == /\ s.top <= row /\ row <= s.bottom
                  /\ s.left <= column /\ column < s.left + s.width
    IN  IF s = None \/ page # bda.page THEN PixelOf(before, page, x, y)
        ELSE IF ~inside THEN PixelOf(before, page, x, y)
        ELSE IF s.top <= source /\ source <= s.bottom
             THEN PixelOf(before, page, x, source * FontHeight + (y % FontHeight))
             ELSE fill

Shows(page, x, y) ==
    CASE did[1] = "pixel" -> AfterPixel(did, page, x, y)
      [] did[1] = "write" -> AfterWrite(did, page, x, y)
      [] did[1] = "scroll" -> AfterScroll(did, page, x, y)
      [] OTHER -> PixelOf(before, page, x, y)

(* The corner of two pages where the calls are made, with a margin.        *)
Corner == {p \in 0..1 : p < L.pages} \X (0..31) \X (0..(IF Packed(L.kind) THEN 31 ELSE 3 * bda.height))

(* A service changes exactly the pixels it addresses, to the colour, the   *)
(* exclusive-or or the moved row it was asked for, whatever the guest left *)
(* in the access registers and the latches.                                *)
PictureIsExact ==
    did[1] \in {"mode", "guest"} \/ \A p \in Corner : PixelOf(vga, p[1], p[2], p[3]) = Shows(p[1], p[2], p[3])

(* Reads answer what the picture holds: the pixel, and the first character *)
(* with the glyph drawn, when the guest compares with colour zero.         *)
ReadsAreExact ==
    /\ did[1] = "readpixel" /\ Locates(did[2], did[3], did[4]) =>
          answer = <<PixelOf(before, PixelPage(did[2]), did[3], did[4])>>
    /\ (did[1] = "readchar" /\ answer \notin {<<>>, <<0>>} /\ vga.gc.values[2] = 0 /\ vga.gc.values[7] = 15) =>
          LET at == bda.cursors[did[2]]
              glyph == GlyphRows(answer[1], FontHeight)
          IN  \A x \in 0..7, y \in 0..(FontHeight - 1) :
                  Has(glyph[y + 1], 7 - x)
                    <=> PixelOf(before, did[2], at[2] * 8 + x, at[1] * FontHeight + y) # 0

(* Every register, index included, is the guest's again after a service:   *)
(* only video memory and the latches may differ.                           *)
AccessIsReturned ==
    did[1] \in {"mode", "guest"}
        \/ [vga EXCEPT !.planes = <<>>, !.latches = <<>>] = [before EXCEPT !.planes = <<>>, !.latches = <<>>]

(* A graphics service is its effect on the picture and nothing else: the   *)
(* pixels, the answers and the guest's registers are all exact.            *)
GraphicsServicesAreExact == PictureIsExact /\ ReadsAreExact /\ AccessIsReturned
=============================================================================
