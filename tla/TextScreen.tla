----------------------------- MODULE TextScreen -----------------------------
(***************************************************************************)
(* The BIOS character grid: pages, cursors, teletype and string output,    *)
(* scrolling, and fonts that change the grid (crates/bios/src/screen.rs,   *)
(* screen/, video/cursor.rs, characters.rs, strings.rs, scroll.rs,         *)
(* modes.rs, fonts/layout.rs, fonts/text.rs).                              *)
(*                                                                         *)
(* Everything the services know of the screen is in the BIOS data area;    *)
(* the adapter keeps its own start address, cursor address and cursor      *)
(* shape, and text memory is one run of cells with the pages side by side, *)
(* padded.  Output keeps a local cursor and publishes it at the end.       *)
(*                                                                         *)
(* Scaled: grids of a few cells, a text memory of Memory cells (16384), an *)
(* address space of twice that, page allocations in blocks of Block cells  *)
(* (1024), Lines scanlines (400).  Fonts and cursor shapes keep their      *)
(* heights.  A cell is <<character, attribute>>; strings are given, not    *)
(* read back from a source that may alias video memory.                    *)
(***************************************************************************)
EXTENDS Integers, Sequences

CONSTANTS
    Memory,       \* cells of text memory
    Block,        \* cells of an allocation block
    Lines,        \* visible scanlines of the text modes
    TextModes,    \* mode -> [columns, height, page] of its preset, page in cells
    GraphicsModes,\* mode -> [pages, bytes, divisor] of its layout
    Heights,      \* fonts that may be loaded
    Attributes,   \* attributes written
    Letters,      \* printed characters
    Asked,        \* pages asked for
    Counts,       \* how often a character is repeated
    Positions,    \* cursor positions asked for, some outside the grid
    Shapes,       \* cursor shapes asked for, as <<start, end>>
    Windows,      \* scroll windows asked for
    Texts,        \* strings written in one call
    MaxCalls      \* calls of a behaviour

SizesAssumption ==
    /\ {Memory, Block, Lines} \subseteq Nat \ {0}
    /\ \A mode \in DOMAIN TextModes : TextModes[mode].page \in 1..Memory

VARIABLES
    bda,          \* the BIOS data area's video fields
    crtc,         \* the adapter's start, cursor and shape registers
    cells,        \* text memory
    before,       \* text memory and cursors before the last call
    did,          \* the last call
    budget        \* calls left

vars == <<bda, crtc, cells, before, did, budget>>

TextPages == 0..7
Bell == 7
Backspace == 8
LineFeed == 10
Return == 13
Controls == {Bell, Backspace, LineFeed, Return}
Space == 32

Least(a, b) == IF a < b THEN a ELSE b

(***************************************************************************)
(* Geometry: read from the data area by every service.                     *)
(***************************************************************************)
IsText == bda.mode \in DOMAIN TextModes
IsGraphics == bda.mode \in DOMAIN GraphicsModes
Columns == bda.columns
Rows == bda.last + 1
Contains(at) == at[1] < Rows /\ at[2] < Columns

(* Eight cursor records, and a page must lie in text memory.               *)
ValidPage(page) ==
    CASE IsText -> page < 8 /\ bda.size # 0 /\ (page + 1) * bda.size <= Memory
      [] IsGraphics -> page < GraphicsModes[bda.mode].pages
      [] OTHER -> FALSE

(* Cell numbers wrap like the 16-bit offsets they stand for.               *)
Wrap(n) == n % (2 * Memory)
PageStart(page) == Wrap(page * bda.size)
CellAt(page, at) == Wrap(PageStart(page) + at[1] * Columns + at[2])

(* Outside text memory reads find nothing; writes there are dropped.       *)
Nowhere == <<255, 255>>
ReadCell(memory, n) == IF n \in DOMAIN memory THEN memory[n] ELSE Nowhere

(***************************************************************************)
(* The adapter's cursor.                                                   *)
(***************************************************************************)
(* Legacy shapes are moved to the bottom of the current font.              *)
Byte(n) == n % 256
OrAtLeast(a, b, n) ==
    LET bit(v, i) == (v \div 2^i) % 2
        or(i) == IF bit(a, i) + bit(b, i) > 0 THEN 2^i ELSE 0
    IN  or(0) + or(1) + or(2) + or(3) + or(4) >= n

EmulatedShape(shape, height) ==
    LET start == shape[1]
        end == shape[2]
        last == Byte(height - 1)
        bottom == <<Byte(last - (end - start)), last>>
    IN  CASE (start \div 32) % 4 = 1 -> <<\h1e, 0>>
          [] start >= 32 \/ end >= 32 -> shape
          [] end < start -> IF end = 0 THEN shape ELSE <<end, last>>
          [] ~OrAtLeast(start, end, height) /\ (end = last \/ start = Byte(last - 1)) -> shape
          [] end <= 3 -> shape
          [] start + 2 >= end ->
                IF height \in 14..127 THEN <<Byte(bottom[1] - 1), Byte(bottom[2] - 1)>> ELSE bottom
          [] OTHER -> <<IF start <= 2 THEN start ELSE height \div 2, last>>

(* set_cursor_position on a data area: only the page shown moves the       *)
(* adapter's cursor, and only in text modes.  The adapter counts cells in  *)
(* sixteen bits, twice the reach of a byte offset.                         *)
CursorAddress(b, page) ==
    (((page * b.size) % (2 * Memory)) + b.cursors[page][1] * b.columns + b.cursors[page][2]) % (4 * Memory)

Moved(page, at) == [bda EXCEPT !.cursors[page] = at]

AfterMove(page, at) ==
    IF page = bda.page /\ IsText THEN [crtc EXCEPT !.cursor = CursorAddress(Moved(page, at), page)]
    ELSE crtc

(***************************************************************************)
(* Scrolling.                                                              *)
(***************************************************************************)
Clip(w, lines) ==
    LET bottom == Least(w.bottom, Rows - 1)
        right == Least(w.right, Columns - 1)
    IN  IF Columns = 0 \/ Rows = 0 \/ w.top > bottom \/ w.left > right THEN <<>>
        ELSE <<[top |-> w.top, left |-> w.left, bottom |-> bottom, right |-> right,
                count |-> IF lines = 0 THEN bottom - w.top + 1 ELSE Least(lines, bottom - w.top + 1)]>>

(* Rows move from the edge they move to.  A row is read whole.             *)
MoveRow(memory, page, s, row, source, attribute) ==
    LET target == CellAt(page, <<row, s.left>>)
        from == CellAt(page, <<source, s.left>>)
        width == s.right - s.left + 1
    IN  [n \in DOMAIN memory |->
            IF n < target \/ n >= target + width THEN memory[n]
            ELSE IF s.top <= source /\ source <= s.bottom THEN ReadCell(memory, from + (n - target))
            ELSE <<Space, attribute>>]

(* Mutant: rows are moved from the top whatever the direction.             *)
ScrolledDownward(memory, page, s, up, attribute) ==
    LET moved[i \in 0..(s.bottom - s.top + 1)] ==
            IF i = 0 THEN memory
            ELSE LET row == s.top + i - 1
                 IN  MoveRow(moved[i - 1], page, s, row,
                             IF up THEN row + s.count ELSE row - s.count, attribute)
    IN  moved[s.bottom - s.top + 1]

Scrolled(memory, page, s, up, attribute) ==
    LET moved[i \in 0..(s.bottom - s.top + 1)] ==
            IF i = 0 THEN memory
            ELSE LET row == IF up THEN s.top + i - 1 ELSE s.bottom - (i - 1)
                 IN  MoveRow(moved[i - 1], page, s, row,
                             IF up THEN row + s.count ELSE row - s.count, attribute)
    IN  moved[s.bottom - s.top + 1]

Whole == [top |-> 0, left |-> 0, bottom |-> Rows - 1, right |-> Columns - 1]

(***************************************************************************)
(* Output: text memory and a local cursor.                                 *)
(***************************************************************************)
(* A repeat advances the offset, across the padding and into the next      *)
(* page; it never moves the cursor.                                        *)
WriteRepeated(memory, start, letter, attribute, count, replace) ==
    LET hit(n) == \E i \in 0..(count - 1) : Wrap(start + i) = n
    IN  [n \in DOMAIN memory |->
            IF ~hit(n) THEN memory[n] ELSE <<letter, IF replace THEN attribute ELSE memory[n][2]>>]

WriteCharacter(memory, page, at, letter, attribute, replace) ==
    LET drawn == IF letter \in Controls THEN memory
                 ELSE WriteRepeated(memory, CellAt(page, at), letter, attribute, 1, replace)
        wraps == at[2] + 1 = Columns
        next == CASE letter = Backspace -> <<at[1], IF at[2] = 0 THEN 0 ELSE at[2] - 1>>
                  [] letter = Return -> <<at[1], 0>>
                  [] letter = LineFeed -> <<at[1] + 1, at[2]>>
                  [] OTHER -> IF wraps THEN <<at[1] + 1, 0>> ELSE <<at[1], at[2] + 1>>
        top == <<next[1] - 1, next[2]>>
        fill == ReadCell(drawn, CellAt(page, top))[2]
    IN  IF ~Contains(at) \/ letter = Bell THEN [memory |-> memory, at |-> at]
        ELSE IF next[1] = Rows
             THEN [memory |-> Scrolled(drawn, page, Clip(Whole, 1)[1], TRUE, fill), at |-> top]
             ELSE [memory |-> drawn, at |-> next]

(* Characters in turn, each with its attribute.                            *)
Written(page, at, text, replace) ==
    LET out[i \in 0..Len(text)] ==
            IF i = 0 THEN [memory |-> cells, at |-> at]
            ELSE WriteCharacter(out[i - 1].memory, page, out[i - 1].at, text[i][1], text[i][2], replace)
    IN  out[Len(text)]

(***************************************************************************)
(* Actions.                                                                *)
(***************************************************************************)
Step(call) ==
    /\ budget > 0
    /\ budget' = budget - 1
    /\ did' = call
    /\ before' = [cells |-> cells, cursors |-> bda.cursors]

Quiet == UNCHANGED <<bda, crtc, cells>>

(* AH=00h.                                                                 *)
SetMode(mode, preserve) ==
    /\ Step(<<"mode", mode>>)
    /\ LET text == mode \in DOMAIN TextModes
           height == IF text THEN TextModes[mode].height ELSE 8
           shape == IF text THEN <<height - 2, height - 1>> ELSE <<0, 0>>
       IN  /\ bda' = [mode |-> mode, columns |-> IF text THEN TextModes[mode].columns ELSE 40,
                      size |-> IF text THEN TextModes[mode].page ELSE GraphicsModes[mode].bytes,
                      offset |-> 0, cursors |-> [p \in TextPages |-> <<0, 0>>], shape |-> shape, page |-> 0,
                      last |-> IF text THEN (Lines \div height) - 1 ELSE 24, height |-> height,
                      raw |-> bda.raw, inactive |-> bda.inactive]
           /\ crtc' = [start |-> 0, cursor |-> 0, shape |-> shape, row |-> height]
           /\ cells' = IF text /\ ~preserve THEN [n \in DOMAIN cells |-> <<Space, 7>>] ELSE cells

(* AX=4F02h: a packed mode has no legacy pages.                            *)
SetVbeMode ==
    /\ Step(<<"vbe">>)
    /\ bda' = [bda EXCEPT !.mode = "vbe", !.columns = 80, !.last = 29, !.height = 16, !.size = 0,
                          !.offset = 0, !.page = 0, !.cursors = [p \in TextPages |-> <<0, 0>>]]
    /\ UNCHANGED <<crtc, cells>>

(* AH=05h.                                                                 *)
SelectPage(page) ==
    /\ Step(<<"page", page>>)
    /\ IF ~ValidPage(page) THEN Quiet
       ELSE LET offset == IF IsText THEN PageStart(page) ELSE page * GraphicsModes[bda.mode].bytes
                shown == [bda EXCEPT !.page = page, !.offset = offset]
            IN  /\ bda' = shown
                /\ crtc' = [crtc EXCEPT
                       !.start = IF IsText THEN offset ELSE offset \div GraphicsModes[bda.mode].divisor,
                       !.cursor = IF IsText THEN CursorAddress(shown, page) ELSE @]
                /\ UNCHANGED cells

(* AH=02h.                                                                 *)
SetCursor(page, at) ==
    /\ Step(<<"cursor", page, at>>)
    /\ IF ValidPage(page)
       THEN bda' = Moved(page, at) /\ crtc' = AfterMove(page, at) /\ UNCHANGED cells
       ELSE Quiet

(* AH=01h and AH=12h, BL=34h.                                              *)
SetCursorShape(shape) ==
    /\ Step(<<"shape", shape>>)
    /\ IF ~IsText THEN Quiet
       ELSE /\ bda' = [bda EXCEPT !.shape = shape]
            /\ crtc' = [crtc EXCEPT !.shape = IF bda.raw \/ bda.inactive THEN shape
                                              ELSE EmulatedShape(shape, bda.height)]
            /\ UNCHANGED cells

SetCursorEmulation(selection) ==
    /\ Step(<<"emulation", selection>>)
    /\ bda' = IF selection > 1 THEN bda ELSE [bda EXCEPT !.raw = (selection = 1)]
    /\ UNCHANGED <<crtc, cells>>

(* AH=06h and AH=07h.  In graphics modes the pixels move instead.          *)
ScrollWindow(w, lines, attribute, up) ==
    /\ Step(<<"scroll", w, lines, attribute, up>>)
    /\ cells' = IF IsText /\ Clip(w, lines) # <<>>
                THEN Scrolled(cells, bda.page, Clip(w, lines)[1], up, attribute)
                ELSE cells
    /\ UNCHANGED <<bda, crtc>>

(* AH=09h and AH=0Ah.                                                      *)
WriteCharacters(page, letter, attribute, count, replace) ==
    /\ Step(<<"write", page, letter, attribute, count, replace>>)
    /\ cells' = IF IsText /\ ValidPage(page)
                THEN WriteRepeated(cells, CellAt(page, bda.cursors[page]), letter, attribute, count, replace)
                ELSE cells
    /\ UNCHANGED <<bda, crtc>>

(* Output ends by publishing its cursor, if it moved one.                  *)
Publish(page, at) == bda' = Moved(page, at) /\ crtc' = AfterMove(page, at)

(* AH=0Eh, and the text DOS writes: the page shown, attributes kept.  In   *)
(* graphics modes the same cursor moves and pixels are drawn instead.      *)
Teletype(text) ==
    /\ Step(<<"teletype", text>>)
    /\ IF ~ValidPage(bda.page) THEN Quiet
       ELSE LET out == Written(bda.page, bda.cursors[bda.page], text, FALSE)
            IN  /\ cells' = IF IsText THEN out.memory ELSE cells
                /\ Publish(bda.page, out.at)

(* AH=13h: its own starting position, its own attributes.                  *)
WriteString(page, at, text, moves) ==
    /\ Step(<<"string", page, at, text, moves>>)
    /\ IF ~ValidPage(page) THEN Quiet
       ELSE LET out == Written(page, at, text, TRUE)
            IN  /\ cells' = IF IsText THEN out.memory ELSE cells
                /\ IF moves THEN Publish(page, out.at) ELSE UNCHANGED <<bda, crtc>>

(* Mutant: a font changes the grid whichever page is shown.                *)
FitsAnyPage(height) ==
    LET rows == Lines \div height
        size == ((rows * Columns + Block - 1) \div Block) * Block
    IN  rows \in 1..256 /\ size # 0 /\ size <= Memory

(* Layout::for_font: validated before anything changes.                    *)
Fits(height) ==
    LET rows == Lines \div height
        size == ((rows * Columns + Block - 1) \div Block) * Block
    IN  bda.page = 0 /\ rows \in 1..256 /\ size # 0 /\ size <= Memory

(* AH=11h, AL=10h-14h.                                                     *)
SetFont(height) ==
    /\ Step(<<"font", height>>)
    /\ IF ~(IsText /\ Fits(height)) THEN Quiet
       ELSE LET rows == Lines \div height
                shape == <<height - 2, height - 1>>
            IN  /\ bda' = [bda EXCEPT !.last = rows - 1, !.height = height, !.shape = shape,
                                      !.size = ((rows * Columns + Block - 1) \div Block) * Block]
                /\ crtc' = [crtc EXCEPT !.shape = shape, !.row = height]
                /\ UNCHANGED cells

Modes == DOMAIN TextModes \cup DOMAIN GraphicsModes

Next ==
    \/ \E mode \in Modes, preserve \in BOOLEAN : SetMode(mode, preserve)
    \/ SetVbeMode
    \/ \E page \in Asked : SelectPage(page)
    \/ \E page \in Asked, at \in Positions : SetCursor(page, at)
    \/ \E shape \in Shapes : SetCursorShape(shape)
    \/ \E selection \in 0..2 : SetCursorEmulation(selection)
    \/ \E w \in Windows, lines \in 0..1, a \in Attributes, up \in BOOLEAN : ScrollWindow(w, lines, a, up)
    \/ \E page \in Asked, c \in Letters, a \in Attributes, count \in Counts, replace \in BOOLEAN :
          WriteCharacters(page, c, a, count, replace)
    \/ \E text \in Texts : Teletype(text)
    \/ \E page \in Asked, at \in Positions, text \in Texts, moves \in BOOLEAN :
          WriteString(page, at, text, moves)
    \/ \E height \in Heights : SetFont(height)

(* Firmware setup ends with a text mode set; emulation starts disabled.    *)
Init ==
    \E mode \in DOMAIN TextModes :
        LET m == TextModes[mode]
            shape == <<m.height - 2, m.height - 1>>
        IN  /\ bda = [mode |-> mode, columns |-> m.columns, size |-> m.page, offset |-> 0,
                      cursors |-> [p \in TextPages |-> <<0, 0>>], shape |-> shape, page |-> 0,
                      last |-> (Lines \div m.height) - 1, height |-> m.height,
                      raw |-> TRUE, inactive |-> FALSE]
            /\ crtc = [start |-> 0, cursor |-> 0, shape |-> shape, row |-> m.height]
            /\ cells = [n \in 0..(Memory - 1) |-> <<Space, 7>>]
            /\ before = [cells |-> cells, cursors |-> bda.cursors]
            /\ did = <<"start">>
            /\ budget = MaxCalls

Spec == Init /\ [][Next]_vars

(***************************************************************************)
(* Properties.                                                             *)
(***************************************************************************)
(* In a text mode the adapter shows the active page and its stored cursor: *)
(* the start address is the page's, the cursor address its cursor's in     *)
(* the current grid, and the page still lies in text memory, after any     *)
(* sequence of mode sets, page flips, resizes and output to hidden pages.  *)
AdapterFollowsThePage ==
    IsText =>
        /\ crtc.start = bda.page * bda.size
        /\ bda.offset = crtc.start
        /\ crtc.cursor = crtc.start + bda.cursors[bda.page][1] * Columns + bda.cursors[bda.page][2]
        /\ (bda.page + 1) * bda.size <= Memory
        /\ Rows * Columns <= bda.size
        /\ crtc.row = bda.height

(* A page as a grid of cells.                                              *)
GridOf(memory, page) ==
    [at \in (0..(Rows - 1)) \X (0..(Columns - 1)) |-> memory[page * bda.size + at[1] * Columns + at[2]]]

(* The terminal the services promise: a grid and a cursor that stays       *)
(* inside it.  A line feed on the last row moves every row up, and the row *)
(* that appears has the attribute found where the cursor stopped.          *)
TerminalUp(grid, attribute) ==
    [at \in DOMAIN grid |-> IF at[1] + 1 < Rows THEN grid[<<at[1] + 1, at[2]>>] ELSE <<Space, attribute>>]

TerminalDown(t, column) ==
    IF t.at[1] + 1 < Rows THEN [t EXCEPT !.at = <<@[1] + 1, column>>]
    ELSE [grid |-> TerminalUp(t.grid, t.grid[<<t.at[1], column>>][2]), at |-> <<t.at[1], column>>]

TerminalPrint(t, c, replace) ==
    LET put == [t EXCEPT !.grid[t.at] = <<c[1], IF replace THEN c[2] ELSE @[2]>>]
    IN  IF t.at[2] + 1 < Columns THEN [put EXCEPT !.at[2] = @ + 1] ELSE TerminalDown(put, 0)

TerminalTakes(t, c, replace) ==
    CASE c[1] = Bell -> t
      [] c[1] = Backspace -> IF t.at[2] = 0 THEN t ELSE [t EXCEPT !.at[2] = @ - 1]
      [] c[1] = Return -> [t EXCEPT !.at[2] = 0]
      [] c[1] = LineFeed -> TerminalDown(t, t.at[2])
      [] OTHER -> TerminalPrint(t, c, replace)

(* A cursor outside the grid takes nothing.                                *)
TerminalAfter(page, at, text, replace) ==
    LET t[i \in 0..Len(text)] ==
            IF i = 0 THEN [grid |-> GridOf(before.cells, page), at |-> at]
            ELSE TerminalTakes(t[i - 1], text[i], replace)
    IN  IF Contains(at) THEN t[Len(text)] ELSE [grid |-> GridOf(before.cells, page), at |-> at]

(* A scroll is the window's rows moved by the count, all at once.          *)
TerminalScroll(w, lines, attribute, up) ==
    LET old == GridOf(before.cells, bda.page)
        inside(at) == /\ w.top <= at[1] /\ at[1] <= w.bottom
                      /\ w.left <= at[2] /\ at[2] <= w.right
        count == IF lines = 0 THEN Rows ELSE lines
        from(at) == <<IF up THEN at[1] + count ELSE at[1] - count, at[2]>>
    IN  [at \in DOMAIN old |->
            IF ~inside(at) THEN old[at]
            ELSE IF from(at) \in DOMAIN old /\ inside(from(at)) THEN old[from(at)]
            ELSE <<Space, attribute>>]

(* Everything outside a page's grid, its padding and the other pages, is   *)
(* as before.                                                              *)
Elsewhere(page) ==
    \A n \in DOMAIN cells :
        n \in (page * bda.size)..(page * bda.size + Rows * Columns - 1) \/ cells[n] = before.cells[n]

Promised(page, t) ==
    /\ GridOf(cells, page) = t.grid
    /\ Elsewhere(page)
    /\ bda.cursors[page] = t.at
    /\ \A p \in TextPages \ {page} : bda.cursors[p] = before.cursors[p]

(* Output and scrolling on any page, over memory the pages share, do what  *)
(* the terminal does to that page's grid and nothing to the rest.          *)
OutputIsATerminal ==
    IsText =>
        /\ did[1] = "teletype" =>
              Promised(bda.page, TerminalAfter(bda.page, before.cursors[bda.page], did[2], FALSE))
        /\ (did[1] = "string" /\ ValidPage(did[2])) =>
              LET t == TerminalAfter(did[2], did[3], did[4], TRUE)
              IN  Promised(did[2], IF did[5] THEN t ELSE [t EXCEPT !.at = before.cursors[did[2]]])
        /\ did[1] = "scroll" =>
              Promised(bda.page, [grid |-> TerminalScroll(did[2], did[3], did[4], did[5]),
                                  at |-> before.cursors[bda.page]])
=============================================================================
