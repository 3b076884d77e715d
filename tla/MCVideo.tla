------------------------------ MODULE MCVideo -------------------------------
(***************************************************************************)
(* Video, one part to a behaviour.                                         *)
(*   registers, palette, images, packed, viewport                          *)
(*             the state the services save and restore through the ports:  *)
(*             registers and the palette under AH=1Ch, VBE images of       *)
(*             legacy programming and, damaged, of packed modes, and       *)
(*             viewports with their waits                                  *)
(*   graphics  graphics output, in one mode of each layout; the guest      *)
(*             leaves write modes, functions, masks and set/reset behind,  *)
(*             and loads latches, between the services                     *)
(*   text      text output, in a narrow and a wide mode over a memory of   *)
(*             16 cells: four pages of four cells, or two of eight with    *)
(*             two of padding; an eight-line font turns the wide mode into *)
(*             one page of twelve cells                                    *)
(*   capture   what the host shows of it: the captures of video memory     *)
(* scene says which; the others keep a first state.                        *)
(***************************************************************************)
EXTENDS VideoState, VgaCapture

VARIABLES
    fonts, prior, answer, shown, text

stateVars == <<ibm, vbe, wait>>
mcVars == <<vars, fonts, prior, answer, shown, text, captureVars>>

-----------------------------------------------------------------------------
MCColors == 4
MCGlyphs == <<<<24, 60>>, <<129, 66>>>>

RegisterCalls ==
    {<<"out", \h3c2, \ha6>>, <<"out", \h3d5, \h8e>>, <<"out", \h3cf, \h1b>>, <<"out", \h3c0, \h05>>,
     <<"poke", \hb8000, \h55>>, <<"out", \h46e8, 0>>, <<"in", \h3da>>, <<"output", 1>>,
     <<"mode", \h07, FALSE>>, <<"mode", \h0d, TRUE>>, <<"saveibm", 1>>, <<"saveibm", 7>>,
     <<"restoreibm", 1>>, <<"restoreibm", 7>>}

Palette ==
    {<<"out", \h3c7, 1>>, <<"in", \h3c9>>, <<"out", \h3c9, 99>>, <<"register", 2, \h2a>>, <<"blink", 0>>,
     <<"paging", 1>>, <<"page", 7>>, <<"color", 3, <<63, 32, 1>>>>, <<"readcolor", 3>>,
     <<"gray", 2, 3>>, <<"background", \h1c>>, <<"palette", 1>>, <<"summing", 0>>, <<"loading", 1>>,
     <<"mode", \h04, FALSE>>, <<"mode", \h13, FALSE>>, <<"saveibm", 4>>, <<"restoreibm", 4>>}

Images ==
    {<<"out", \h3c0, \h13>>, <<"out", \h3c7, 1>>, <<"in", \h3c9>>, <<"out", \h3d4, 12>>, <<"out", \h3d5, 5>>,
     <<"bda", "display", 3>>, <<"bda", "control", 8>>, <<"report">>, <<"addressing", 1>>, <<"addressing", 0>>,
     <<"mode", \h06, TRUE>>, <<"savevbe", 7>>, <<"restorevbe", 1>>, <<"restorevbe", 6>>,
     <<"edit", "core", "next", 2>>, <<"edit", "core", "address", 64>>,
     <<"edit", "dac", "component", 3>>, <<"edit", "dac", "select", 9>>, <<"edit", "header", "components", 15>>}

Packed ==
    {<<"vbemode", <<640, 480, 8>>, FALSE>>, <<"vbemode", <<800, 600, 16>>, TRUE>>, <<"scanline", 1024>>,
     <<"start", 32, 480>>, <<"window", 7>>, <<"poke", \ha0004, 9>>, <<"word", 4, 0>>, <<"word", 1, 800>>,
     <<"savevbe", 8>>, <<"savevbe", 15>>, <<"restorevbe", 8>>, <<"restorevbe", 15>>,
     <<"edit", "dispi", "x", 385>>, <<"edit", "dispi", "flags", 3>>, <<"edit", "dispi", "bank", 64>>,
     <<"edit", "dispi", "pitch", 1280>>, <<"saveibm", 4>>, <<"restoreibm", 4>>}

Viewport ==
    {<<"vbemode", <<640, 480, 8>>, FALSE>>, <<"scanline", 1024>>, <<"scanline", 700>>, <<"start", 384, 0>>,
     <<"request", 32, 480>>, <<"request", 384, 3616>>, <<"word", 6, 1280>>, <<"word", 8, 1>>, <<"word", 4, 0>>,
     <<"word", 4, 1>>, <<"out", \h3c2, 2>>, <<"out", \h46e8, 0>>, <<"out", \h46e8, \h0e>>}

MCScenes == {"registers", "palette", "images", "packed", "viewport"}

MCCallsOf ==
    [s \in MCScenes |-> CASE s = "registers" -> RegisterCalls [] s = "palette" -> Palette
                          [] s = "images" -> Images [] s = "packed" -> Packed [] s = "viewport" -> Viewport]

MCStepsOf == [s \in MCScenes |-> IF s = "viewport" THEN 6 ELSE 4]

-----------------------------------------------------------------------------
FontBytes ==
    [rom   |-> <<24, 36, 66, 129, 126, 0, 255, 60, 15, 240, 1, 128, 90, 165, 3, 192>>,
     high  |-> <<170, 85, 204, 51, 15, 240, 255, 1>>,
     guest |-> <<129, 66, 60, 195>>,
     null  |-> <<0>>]

Cells(t, l, b, r) == [top |-> t, left |-> l, bottom |-> b, right |-> r]

Guest(access) == <<"guest", access>>

GraphicsRegisters ==
    {Guest(<<"indexed", Gc, 3, \h1b>>), Guest(<<"indexed", Gc, 8, \h3c>>),
     Guest(<<"indexed", Gc, 1, 15>>)}

PlanarCalls ==
    GraphicsRegisters \cup
    {Guest(<<"indexed", Seq4, 2, 5>>), Guest(<<"indexed", Gc, 5, \h0b>>), Guest(<<"load", \ha0028>>),
     Guest(<<"store", \ha0028, \h5a>>),
     <<"font", "guest", 2, 3>>, <<"cursor", 1, 2, 39>>,
     <<"pixel", 0, 9, 1, \h85>>, <<"readpixel", 0, 9, 1>>,
     <<"write", 0, 65, \h8c, 2>>, <<"write", 1, 0, 9, 3>>, <<"readchar", 0>>,
     <<"scroll", Cells(0, 0, 2, 1), 1, 5, TRUE>>, <<"scroll", Cells(0, 1, 9, 2), 1, \h83, FALSE>>}

PackedCalls ==
    GraphicsRegisters \cup
    {Guest(<<"out", Seq4, 3>>), Guest(<<"store", \hb8001, \h5a>>),
     <<"cursor", 0, 0, 1>>, <<"highfont", "null">>,
     <<"pixel", 3, 9, 1, \h83>>, <<"readpixel", 0, 9, 1>>, <<"readpixel", 0, 9, 200>>,
     <<"write", 0, 130, \h81, 1>>, <<"write", 0, 1, 3, 1>>, <<"readchar", 0>>,
     <<"scroll", Cells(0, 0, 1, 1), 1, \h1b, TRUE>>, <<"scroll", Cells(0, 1, 1, 1), 0, 3, FALSE>>}

IndexedCalls ==
    GraphicsRegisters \cup
    {Guest(<<"indexed", Gc, 5, \h42>>), Guest(<<"store", \ha0009, \h5a>>),
     <<"font", "guest", 2, 3>>, <<"cursor", 0, 0, 1>>,
     <<"pixel", 0, 9, 1, \h83>>, <<"readpixel", 0, 9, 1>>, <<"write", 0, 65, \h8c, 1>>, <<"readchar", 0>>,
     <<"scroll", Cells(0, 1, 1, 1), 1, \h1b, FALSE>>}

GraphicsModesSeen == {\h04, \h06, \h0d, \h13}
GraphicsCalls ==
    [mode \in GraphicsModesSeen |->
        CASE mode = \h0d -> PlanarCalls [] mode = \h13 -> IndexedCalls [] OTHER -> PackedCalls]

Graphics == INSTANCE GraphicsScreen WITH
    Scenes <- GraphicsModesSeen, CallsOf <- GraphicsCalls,
    StepsOf <- [mode \in GraphicsModesSeen |-> 3], before <- prior

-----------------------------------------------------------------------------
TextModes == [m01 |-> [columns |-> 2, height |-> 16, page |-> 4],
                m03 |-> [columns |-> 3, height |-> 16, page |-> 8]]
TextGraphicsModes == [m0d |-> [pages |-> 8, bytes |-> 4, divisor |-> 1],
                    m13 |-> [pages |-> 1, bytes |-> 12, divisor |-> 4]]
Positions == {<<1, 2>>, <<1, 1>>, <<9, 9>>}
Shapes == {<<6, 7>>, <<32, 0>>, <<0, 13>>}
Windows == {[top |-> 1, left |-> 1, bottom |-> 255, right |-> 1],
              [top |-> 0, left |-> 1, bottom |-> 2, right |-> 9]}
Texts == {<<<<66, 2>>, <<13, 1>>, <<10, 1>>, <<67, 1>>>>, <<<<10, 2>>, <<8, 2>>, <<68, 2>>, <<7, 1>>>>,
            <<<<69, 1>>, <<70, 2>>, <<71, 1>>, <<72, 2>>>>}

Text == INSTANCE TextScreen WITH
    Memory <- 16, Block <- 4, Lines <- 32, GraphicsModes <- TextGraphicsModes,
    Heights <- {8, 40}, Attributes <- {1}, Asked <- {0, 3}, Counts <- {5},
    Letters <- {90}, MaxCalls <- 3,
    before <- prior, crtc <- shown, cells <- text

ASSUME Text!SizesAssumption

-----------------------------------------------------------------------------
NoState == ibm = <<>> /\ vbe = <<>> /\ wait = <<>>
NoOutput == fonts = <<>> /\ answer = <<>>
NoText == shown = <<>> /\ text = <<>>
NoCapture ==
    /\ live = <<>> /\ heap = <<>> /\ dirty = <<>> /\ regs = <<>> /\ latched = <<>> /\ due = <<>>
    /\ frame = <<>> /\ sync = <<>> /\ closed = <<>> /\ waiter = <<>> /\ observed = <<>>
    /\ taking = [at |-> "rest"] /\ gpu = <<>> /\ image = <<>> /\ host = <<>>
    /\ window = <<>> /\ used = <<>>

MCInit ==
    \/ Init /\ NoOutput /\ NoText /\ prior = <<>> /\ NoCapture
    \/ scene = "graphics" /\ NoState /\ Graphics!Init /\ NoText /\ NoCapture
    \/ scene = "text" /\ vga = <<>> /\ NoState /\ NoOutput /\ Text!Init /\ NoCapture
    \/ /\ scene = "capture" /\ vga = <<>> /\ bda = <<>> /\ did = <<>> /\ NoState /\ NoOutput
       /\ prior = <<>> /\ NoText /\ CaptureInit /\ budget = 0

MCNext ==
    \/ /\ scene \in {"registers", "palette", "images", "packed", "viewport"}
       /\ Next
       /\ UNCHANGED <<fonts, prior, answer, shown, text, captureVars>>
    \/ /\ scene = "graphics"
       /\ Graphics!Next
       /\ UNCHANGED <<scene, stateVars, shown, text, captureVars>>
    \/ /\ scene = "text"
       /\ Text!Next
       /\ UNCHANGED <<scene, vga, stateVars, fonts, answer, captureVars>>
    \/ /\ scene = "capture"
       /\ CaptureNext
       /\ UNCHANGED <<scene, vga, bda, did, budget, stateVars, fonts, prior, answer, shown, text>>

MCSpec == MCInit /\ [][MCNext]_mcVars

-----------------------------------------------------------------------------
Saving == scene \in {"registers", "palette", "images", "packed", "viewport"}

(* A restore returns what was saved and nothing else, and the viewport     *)
(* lies in video memory whatever moved it (VideoState).                    *)
SavedStateIsExact == Saving => RestoreIsExact /\ ShownImageFits

(* Output is exact: a graphics service is its effect on the picture and    *)
(* nothing else (GraphicsScreen); the adapter shows the active page and    *)
(* its cursor, and text output does what a terminal does (TextScreen).     *)
OutputIsExact ==
    /\ scene = "graphics" => Graphics!GraphicsServicesAreExact
    /\ scene = "text" => Text!AdapterFollowsThePage /\ Text!OutputIsATerminal
=============================================================================
