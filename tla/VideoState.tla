----------------------------- MODULE VideoState -----------------------------
(***************************************************************************)
(* The firmware's video services over a device the guest programs as it    *)
(* likes: mode sets, palette and control services, VBE modes, windows and  *)
(* viewports, and the two ways to save and restore the adapter: AH=1Ch     *)
(* through ports and memory, VBE 4F04h through a validated image of the    *)
(* programming (crates/bios/src/video/{modes,control,state,palette,vbe},   *)
(* crates/vga/src/state.rs, state/vga_core.rs, retrace.rs).                *)
(*                                                                         *)
(* A scene is a set of calls and accesses; a behaviour makes up to its     *)
(* number of steps of them in any order.                                   *)
(***************************************************************************)
EXTENDS VgaDevice

S == INSTANCE SequencesExt

CONSTANTS
    Scenes,     \* the scenes' names
    CallsOf,    \* scene |-> the calls it makes, <<kind, argument...>>
    StepsOf     \* scene |-> how many steps a behaviour takes

VARIABLES
    scene,
    vga,        \* the device
    bda,        \* BIOS data the video services keep
    ibm,        \* the AH=1Ch buffer, or None
    vbe,        \* the 4F04h buffer, or None
    wait,       \* the pending display start, or None
    did,        \* the last step: its kind, its result, what it started from
    budget

vars == <<scene, vga, bda, ibm, vbe, wait, did, budget>>

(***************************************************************************)
(* Firmware data.  The save block holds every field but the equipment      *)
(* bits of other hardware.                                                 *)
(***************************************************************************)
NewBda ==
    [mode |-> \h03, crtc |-> \h3d4, shadow |-> \h30, video |-> \h60, control |-> \h10,
     display |-> 2, other |-> 1]

SaveFirmware(b) == [b EXCEPT !.other = 0]
RestoreFirmware(b, block) == [block EXCEPT !.other = b.other]

(***************************************************************************)
(* DISPI through its index port.                                           *)
(***************************************************************************)
ReadRegister(d, register) == ReadWord(WriteWord(d, \h1ce, register), \h1cf)
SetRegisters(pairs) ==
    [i \in 1..(2 * Len(pairs)) |->
        IF i % 2 = 1 THEN <<"word", \h1ce, pairs[(i + 1) \div 2][1]>>
        ELSE <<"word", \h1cf, pairs[i \div 2][2]>>]
Available(d) == ReadRegister(d, 0) = \hb0c2

ActiveMode(d) ==
    IF ReadRegister(d, 4) % 2 = 0 THEN None
    ELSE ModeLayout(ReadRegister(d, 1), ReadRegister(d, 2), ReadRegister(d, 3))

Placed(d, wide) ==
    IF wide = None THEN None ELSE WithOrigin(wide, ReadRegister(d, 8), ReadRegister(d, 9))
Widened(d, mode) ==
    IF mode = None THEN None ELSE Placed(d, WithPitch(mode, ReadRegister(d, 6) * mode.bytes))
ActiveLayout(d) == IF ~Available(d) THEN None ELSE Widened(d, ActiveMode(d))

(* Mode::activate.                                                         *)
Activated(d, bits, control) ==
    Run(d, <<<<"out", \h3c2, Or(PortValue(d, \h3cc), 2)>>>>
           \o (IF bits = 8 THEN LoadPalette(control, Presets[\h13].colors) ELSE <<>>))
Activate(d, mode, preserve, control) ==
    Activated(Run(d, SetRegisters(<<<<4, 0>>, <<1, mode[1]>>, <<2, mode[2]>>, <<3, mode[3]>>,
                                    <<4, IF preserve THEN \h81 ELSE \h01>>>>)), mode[3], control)

(***************************************************************************)
(* AH=1Ch: the hardware block.  Write mode 1 spills the latches to the     *)
(* last byte of each plane, which the firmware keeps for itself.           *)
(***************************************************************************)
Scratch == \haffff

SelectLatchMemory(d) ==
    <<<<"out", \h3c2, Or(PortValue(d, \h3cc), 2)>>, <<"indexed", Seq4, 4, 6>>, <<"indexed", Gc, 6, 4>>>>

(* The registers the block holds, before any of them is touched.           *)
HardwareBlock(d) ==
    LET port == BiosCrtcPort(d)
    IN  [seqIndex |-> PortValue(d, Seq4), crtcIndex |-> PortValue(d, port),
         gcIndex |-> PortValue(d, Gc), attribute |-> PortValue(d, \h3c0),
         feature |-> PortValue(d, \h3ca), misc |-> PortValue(d, \h3cc), port |-> port,
         seq |-> [i \in 1..4 |-> Indexed(d, Seq4, i)],
         crtc |-> [i \in 1..25 |-> Indexed(d, port, i - 1)],
         attr |-> [i \in 1..20 |-> ReadAttribute(d, i - 1)],
         gc |-> [i \in 1..9 |-> Indexed(d, Gc, i - 1)]]

Spilled(d) ==
    Run(d, <<<<"reading", 19>>>> \o SelectLatchMemory(d)
           \o <<<<"indexed", Seq4, 2, 15>>, <<"indexed", Gc, 5, 1>>, <<"store", Scratch, 0>>>>)

ReadPlane(plane) == <<<<"indexed", Gc, 4, plane>>, <<"load", Scratch>>>>

SpilledLatches(d) == [q \in 1..4 |-> Load(WriteIndexed(d, Gc, 4, q - 1), Scratch)]

SaveHardware(d) == HardwareBlock(d) @@ [latches |-> SpilledLatches(Spilled(d))]

GiveBackHardware(b) ==
    WriteEach(Seq4, <<<<2, b.seq[2]>>, <<4, b.seq[4]>>>>)
    \o WriteEach(Gc, <<<<4, b.gc[5]>>, <<5, b.gc[6]>>, <<6, b.gc[7]>>>>)
    \o <<<<"out", \h3c2, b.misc>>, <<"out", Seq4, b.seqIndex>>, <<"out", b.port, b.crtcIndex>>,
         <<"out", Gc, b.gcIndex>>>>
AfterSaveHardware(d) ==
    Run(Spilled(d), ReadPlane(0) \o ReadPlane(1) \o ReadPlane(2) \o ReadPlane(3)
                    \o GiveBackHardware(HardwareBlock(d)))

FillPlane(b, plane) == <<<<"indexed", Seq4, 2, 2^plane>>, <<"store", Scratch, b.latches[plane + 1]>>>>

(* Mutant: the timing registers are written under the protection in force. *)
RestoreTimingProtected(b) == WriteRun(b.port, 0, b.crtc)

(* Protection is lifted first; the run puts it back.                       *)
RestoreTiming(b) == <<<<"indexed", b.port, \h11, b.crtc[18] % 128>>>> \o WriteRun(b.port, 0, b.crtc)

RestoreHardware(d, b) ==
    Run(d, SelectLatchMemory(d) \o WriteEach(Gc, <<<<1, 0>>, <<3, 0>>, <<5, 0>>, <<8, \hff>>>>)
           \o FillPlane(b, 0) \o FillPlane(b, 1) \o FillPlane(b, 2) \o FillPlane(b, 3)
           \o <<<<"load", Scratch>>, <<"indexed", Seq4, 0, 1>>>> \o WriteRun(Seq4, 1, b.seq)
           \o <<<<"out", \h3c2, b.misc>>, <<"indexed", Seq4, 0, 3>>>>
           \o RestoreTiming(b) \o WriteAttributes(0, b.attr) \o WriteRun(Gc, 0, b.gc)
           \o <<<<"status", b.feature>>, <<"out", Seq4, b.seqIndex>>, <<"out", b.port, b.crtcIndex>>,
                <<"out", Gc, b.gcIndex>>, <<"select", b.attribute>>>>)

(* The DAC block.  A read transfer's address is one ahead of its data.     *)
SelectTransfer(b) == <<<<"out", IF b.reading = 1 THEN \h3c7 ELSE \h3c8, b.address>>>>

SaveDac(d) ==
    LET reading == PortValue(d, \h3c7) % 2
    IN  [reading |-> reading, address |-> (PortValue(d, \h3c8) + Colors - reading) % Colors,
         mask |-> PortValue(d, \h3c6), colors |-> [i \in 1..Colors |-> ColorAt(d, i - 1)],
         select |-> ReadAttribute(d, \h14)]

AfterSaveDac(d) ==
    Run(d, <<<<"out", \h3c7, 0>>>> \o [i \in 1..(3 * Colors) |-> <<"in", \h3c9>>]
           \o <<<<"reading", \h14>>>> \o SelectTransfer(SaveDac(d)))

RestoreDac(d, b) ==
    Run(d, DacWrites(0, b.colors) \o <<<<"out", \h3c6, b.mask>>, <<"attribute", \h14, b.select>>>>
           \o SelectTransfer(b))

(***************************************************************************)
(* VBE 4F04h: an image of each class of programming.                       *)
(***************************************************************************)
CoreImage(d) ==
    [misc |-> d.misc, feature |-> d.feature, control |-> d.setup.control, option |-> d.setup.option,
     seqIndex |-> d.seq.index, gcIndex |-> d.gc.index, crtcIndex |-> d.crtc.index,
     address |-> d.attr.address, next |-> IF d.attr.next THEN 1 ELSE 0, start |-> d.crtc.start,
     latches |-> d.latches, seq |-> d.seq.values, gc |-> d.gc.values, crtc |-> d.crtc.values,
     attr |-> [i \in 0..19 |-> d.attr.values[i]]]

DacImage(d) ==
    [mask |-> d.dac.mask, address |-> d.dac.address, component |-> d.dac.component,
     reading |-> IF d.dac.reading THEN 1 ELSE 0, colors |-> d.dac.colors, select |-> d.attr.values[20]]

DispiImage(d) ==
    LET l == d.dispi.active
    IN  [index |-> d.dispi.index, width |-> d.dispi.width, height |-> d.dispi.height,
         bits |-> d.dispi.bits, flags |-> Flags(d), bank |-> d.dispi.bank,
         pitch |-> IF l = None THEN 0 ELSE l.pitch, x |-> IF l = None THEN 0 ELSE l.x,
         y |-> IF l = None THEN 0 ELSE l.y]

(* VgaCoreState::restore over from_bytes: every value goes through its     *)
(* bank's write mask; Color Select stays.                                  *)
WithCore(d, c) ==
    LET seq == S!FoldLeft(LAMBDA s, i : SequencerWrite([s EXCEPT !.index = i], c.seq[i]),
                          NewDevice.seq, [i \in 1..5 |-> i - 1])
        gc == S!FoldLeft(LAMBDA g, i : GraphicsWrite([g EXCEPT !.index = i], c.gc[i]),
                         NewDevice.gc, [i \in 1..9 |-> i - 1])
        crtc == S!FoldLeft(LAMBDA r, i : CrtcWrite([r EXCEPT !.index = i], c.crtc[i]),
                           [NewDevice.crtc EXCEPT !.values[\h11] = @ % 128], [i \in 1..25 |-> i - 1])
        attr == S!FoldLeft(LAMBDA a, i : AttributeWrite(AttributeWrite([a EXCEPT !.next = FALSE], i), c.attr[i]),
                           NewDevice.attr, [i \in 1..20 |-> i - 1])
        addressed == AttributeWrite([attr EXCEPT !.next = FALSE], c.address)
    IN  [d EXCEPT !.seq = [seq EXCEPT !.index = c.seqIndex % 8],
                  !.gc = [gc EXCEPT !.index = c.gcIndex % 16],
                  !.crtc = [crtc EXCEPT !.index = c.crtcIndex % 32, !.start = c.start],
                  !.attr = [addressed EXCEPT !.next = c.next # 0, !.values[20] = d.attr.values[20]],
                  !.misc = c.misc, !.feature = c.feature, !.latches = c.latches,
                  !.setup = [control |-> c.control, option |-> c.option]]

ValidCore(c) == c.control \in {0, 8, 16, 24} /\ c.option <= 1 /\ CoreImage(WithCore(NewDevice, c)) = c

ValidDac(c) ==
    /\ c.component < 3 /\ c.reading <= 1 /\ c.select <= 15
    /\ \A i \in DOMAIN c.colors : \A j \in 1..3 : c.colors[i][j] < 64

WithDac(d, c) ==
    [d EXCEPT !.dac = [mask |-> c.mask, address |-> c.address, component |-> c.component,
                       reading |-> c.reading # 0, colors |-> c.colors],
              !.attr.values[20] = c.select]

DispiLayout(c) ==
    LET mode == ModeLayout(c.width, c.height, c.bits)
        wide == WithPitch(mode, c.pitch)
    IN  IF mode = None THEN None ELSE IF wide = None THEN None ELSE WithOrigin(wide, c.x, c.y)

ValidDispi(c) ==
    /\ c.bank < Banks
    /\ IF c.flags = 0 THEN c.pitch = 0 /\ c.x = 0 /\ c.y = 0
       ELSE c.flags \in {\h01, \h81} /\ DispiLayout(c) # None

WithDispi(d, c) ==
    [d EXCEPT !.dispi =
        [index |-> c.index, width |-> c.width, height |-> c.height, bits |-> c.bits,
         flags |-> c.flags, bank |-> c.bank,
         active |-> IF c.flags = 0 THEN None
                    ELSE [ModeLayout(c.width, c.height, c.bits)
                          EXCEPT !.pitch = c.pitch, !.x = c.x, !.y = c.y]]]

(* The classes a mask selects: hardware, firmware, DAC, DISPI.  A header's *)
(* offsets follow from its classes, so they are named by the mask they fit. *)
Component(mask, i) == Has(mask, i)

Valid(buffer, mask) ==
    /\ buffer.header.components \in 1..15 /\ buffer.header.offsets = buffer.header.components
    /\ mask # 0 /\ And(mask, buffer.header.components) = mask
    /\ Component(mask, 0) => ValidCore(buffer.core)
    /\ Component(mask, 2) => ValidDac(buffer.dac)
    /\ Component(mask, 3) => ValidDispi(buffer.dispi)

Restored(d, buffer, mask) ==
    LET core == IF Component(mask, 0) THEN WithCore(d, buffer.core) ELSE d
        dac == IF Component(mask, 2) THEN WithDac(core, buffer.dac) ELSE core
    IN  IF Component(mask, 3) THEN WithDispi(dac, buffer.dispi) ELSE dac

(***************************************************************************)
(* Actions.  Calls(kind) are the scene's calls of a kind.                  *)
(***************************************************************************)
Calls(kind) == {c \in CallsOf[scene] : c[1] = kind}

Spend == budget' = budget - 1 /\ UNCHANGED scene

(* The last step of a behaviour is kept for a restore.                     *)
Step(kind) == budget > 1 /\ Spend /\ did' = [op |-> kind]

(* Device programming that a wait for retrace must look at again:          *)
(* reconfigure.  The layout, the status port and addressing notify; other  *)
(* timing changes reach the wait as a retrace that comes sooner or later.  *)
Notified(d, next) ==
    \/ d.dispi.active # next.dispi.active
    \/ StatusPort(d) # StatusPort(next)
    \/ Enabled(d) # Enabled(next)

Program1(next) ==
    /\ vga' = next
    /\ wait' = IF wait # None /\ Notified(vga, next) THEN [wait EXCEPT !.event = "reprogrammed"] ELSE wait

Out(port, value) ==
    /\ Program1(WritePort(vga, port, value))
    /\ Step("out")
    /\ UNCHANGED <<bda, ibm, vbe>>

OutWord(register, value) ==
    /\ Program1(Run(vga, SetRegisters(<<<<register, value>>>>)))
    /\ Step("word")
    /\ UNCHANGED <<bda, ibm, vbe>>

In(port) ==
    /\ wait = None
    /\ vga' = AfterRead(vga, port)
    /\ Step("in")
    /\ UNCHANGED <<bda, ibm, vbe, wait>>

Poke(address, value) ==
    /\ wait = None
    /\ vga' = Store(AfterLoad(vga, address), address, value)
    /\ Step("poke")
    /\ UNCHANGED <<bda, ibm, vbe, wait>>

(* The guest changes BIOS data itself.                                     *)
PokeBda(field, value) ==
    /\ wait = None
    /\ bda' = [bda EXCEPT ![field] = value]
    /\ Step("bda")
    /\ UNCHANGED <<vga, ibm, vbe, wait>>

VerticalRetrace ==
    /\ \/ Retrace(vga) # vga
       \/ wait # None /\ wait.event = "none"
    /\ vga' = Retrace(vga)
    /\ wait' = IF wait # None /\ wait.event = "none" THEN [wait EXCEPT !.event = "started"] ELSE wait
    /\ did' = [op |-> "retrace"]
    /\ UNCHANGED <<scene, bda, ibm, vbe, budget>>

Service(kind, accesses, data) ==
    /\ wait = None
    /\ vga' = Run(vga, accesses)
    /\ bda' = data
    /\ Step(kind)
    /\ UNCHANGED <<ibm, vbe, wait>>

Shadow(mode) == IF mode = \h06 THEN \h3f ELSE \h30

SetVideoMode(mode, preserve) ==
    /\ wait = None
    /\ vga' = SetMode(vga, mode, preserve, bda.control)
    /\ bda' = [bda EXCEPT !.mode = mode, !.shadow = IF mode <= \h07 THEN Shadow(mode) ELSE @,
                          !.crtc = BiosCrtcPort(vga'),
                          !.video = (@ % 128) + (IF preserve THEN 128 ELSE 0)]
    /\ Step("mode")
    /\ UNCHANGED <<ibm, vbe, wait>>

SetVbeMode(mode, preserve) ==
    /\ wait = None
    /\ Available(vga)
    /\ vga' = Activate(vga, mode, preserve, bda.control)
    /\ bda' = [bda EXCEPT !.mode = \h7f, !.video = (@ % 128) + (IF preserve THEN 128 ELSE 0)]
    /\ Step("vbemode")
    /\ UNCHANGED <<ibm, vbe, wait>>

(* Palette services.  The attribute services take the index as given.      *)
SetRegister(index, value) == Service("register", <<<<"attribute", index, value>>>>, bda)

ModeControl(value) == <<<<"reading", 16>>, <<"attribute", 16, value>>>>

SetBlink(on) == Service("blink", ModeControl(And(ReadAttribute(vga, 16), \hf7) + 8 * on), bda)

SetPagingMode(mode) ==
    /\ bda.mode # \h13
    /\ Service("paging", ModeControl((ReadAttribute(vga, 16) % 128) + 128 * mode), bda)

SelectPalettePage(page) ==
    LET paged == Has(ReadAttribute(vga, 16), 7)
    IN  /\ bda.mode # \h13
        /\ Service("page", <<<<"reading", 16>>,
                            <<"attribute", \h14, IF paged THEN page % 16 ELSE 4 * (page % 4)>>>>, bda)

SetColor(index, color) == Service("color", LoadColors(bda.control, index, <<color>>), bda)
ReadColor(index) == Service("readcolor", ReadsColor(index), bda)

SumColors(first, count) ==
    /\ wait = None
    /\ vga' = GrayscaleRange(vga, first, count)
    /\ Step("gray")
    /\ UNCHANGED <<bda, ibm, vbe, wait>>

TextMode == bda.mode \in {0, 1, 2, 3, 7}

Foreground(shadow) ==
    WriteAttributes(1, [i \in 1..3 |-> 2 * i + ((shadow \div 32) % 2) + And(shadow, 16)])

SetBackground(value) ==
    LET shadow == And(bda.shadow, \he0) + (value % 32)
        color == (value % 8) + 16 * Bit(value, 3)
    IN  /\ bda.crtc # \h3b4
        /\ Service("background",
                   <<<<"attribute", \h11, color>>>>
                   \o (IF TextMode THEN <<>> ELSE <<<<"attribute", 0, color>>>> \o Foreground(shadow)),
                   [bda EXCEPT !.shadow = shadow])

SelectPalette(value) ==
    LET shadow == And(bda.shadow, \hdf) + 32 * (value % 2)
    IN  /\ bda.crtc # \h3b4 /\ ~TextMode
        /\ Service("palette", Foreground(shadow), [bda EXCEPT !.shadow = shadow])

(* AH=12h: palette policies, addressing and output.                        *)
SetPaletteLoading(selection) ==
    Service("loading", <<>>, [bda EXCEPT !.control = And(@, \hf7) + 8 * selection])
SetGrayscaleSumming(selection) ==
    Service("summing", <<>>, [bda EXCEPT !.control = And(@, \hfd) + 2 * (1 - selection)])
SetVideoAddressing(selection) ==
    Service("addressing", <<<<"out", \h46e8, IF selection = 0 THEN \h0e ELSE 0>>>>, bda)
SetScreenOutput(selection) ==
    Service("output", <<<<"indexed", Seq4, 1, And(Indexed(vga, Seq4, 1), \hdf) + 32 * selection>>>>, bda)

(* AH=1Bh reads the font maps and the attribute mode behind its report.    *)
WriteReport ==
    Service("report", <<<<"out", Seq4, 3>>, <<"out", Seq4, PortValue(vga, Seq4)>>, <<"reading", 16>>>>, bda)

(* VBE windows and logical scan lines.                                     *)
Window(bank) ==
    /\ Available(vga) /\ ReadRegister(vga, 4) % 2 = 1
    /\ bank < Banks
    /\ Service("window", SetRegisters(<<<<5, bank>>>>), bda)

Scanline(pixels) ==
    \E l \in {ActiveLayout(vga)} :
        /\ l # None
        /\ \E width \in {IF pixels > l.width THEN pixels ELSE l.width} :
              /\ width * l.bytes <= MaxPitch(l)
              /\ WithPitch(l, width * l.bytes) # None
              /\ Service("scanline", SetRegisters(<<<<6, width>>>>), bda)

DisplayStart(x, y) ==
    \E l \in {ActiveLayout(vga)} :
        /\ l # None
        /\ WithOrigin(l, x, y) # None
        /\ Service("start", SetRegisters(<<<<8, x>>, <<9, y>>>>), bda)

(* Subfunction 80h waits for the retrace before it moves the viewport.     *)
RequestStart(x, y) ==
    \E l \in {ActiveLayout(vga)} :
        /\ wait = None
        /\ l # None
        /\ WithOrigin(l, x, y) # None
        /\ wait' = [layout |-> l, x |-> x, y |-> y, event |-> "none"]
        /\ Step("request")
        /\ UNCHANGED <<vga, bda, ibm, vbe>>

(* Mutant: the layout is not looked at again after the wait.               *)
ResumeStartUnchecked ==
    LET started == wait.event = "started"
        same == TRUE
    IN  /\ wait # None /\ wait.event # "none"
        /\ wait' = IF same /\ ~started THEN [wait EXCEPT !.event = "none"] ELSE None
        /\ vga' = IF same /\ started THEN Run(vga, SetRegisters(<<<<8, wait.x>>, <<9, wait.y>>>>)) ELSE vga
        /\ did' = [op |-> "resume", ok |-> same /\ started, asked |-> wait]
        /\ UNCHANGED <<scene, bda, ibm, vbe, budget>>

ResumeStart ==
    /\ wait # None /\ wait.event # "none"
    /\ \E same \in {ActiveLayout(vga) = wait.layout}, started \in {wait.event = "started"} :
        /\ wait' = IF same /\ ~started THEN [wait EXCEPT !.event = "none"] ELSE None
        /\ vga' = IF same /\ started THEN Run(vga, SetRegisters(<<<<8, wait.x>>, <<9, wait.y>>>>)) ELSE vga
        /\ did' = [op |-> "resume", ok |-> same /\ started, asked |-> wait]
        /\ UNCHANGED <<scene, bda, ibm, vbe, budget>>

(* AH=1Ch.  The buffer keeps the device it was taken from, for the         *)
(* properties.                                                             *)
SaveIbm(mask) ==
    \E hardware \in {IF Component(mask, 0) THEN AfterSaveHardware(vga) ELSE vga} :
        /\ wait = None
        /\ ibm' = [mask |-> mask, device |-> vga,
                   hardware |-> IF Component(mask, 0) THEN SaveHardware(vga) ELSE None,
                   firmware |-> IF Component(mask, 1) THEN SaveFirmware(bda) ELSE None,
                   dac |-> IF Component(mask, 2) THEN SaveDac(hardware) ELSE None]
        /\ vga' = IF Component(mask, 2) THEN AfterSaveDac(hardware) ELSE hardware
        /\ Step("save")
        /\ UNCHANGED <<bda, vbe, wait>>

RestoreIbm(mask) ==
    /\ wait = None
    /\ ibm # None /\ mask # 0 /\ And(mask, ibm.mask) = mask
    /\ \E hardware \in {IF Component(mask, 0) THEN RestoreHardware(vga, ibm.hardware) ELSE vga} :
          vga' = IF Component(mask, 2) THEN RestoreDac(hardware, ibm.dac) ELSE hardware
    /\ bda' = IF Component(mask, 1) THEN RestoreFirmware(bda, ibm.firmware) ELSE bda
    /\ budget > 0 /\ Spend
    /\ did' = [op |-> "ibm", mask |-> mask, before |-> vga]
    /\ UNCHANGED <<ibm, vbe, wait>>

SaveVbe(mask) ==
    /\ wait = None
    /\ Available(vga) /\ mask \in 1..15
    /\ vbe' = [header |-> [components |-> mask, offsets |-> mask], edited |-> FALSE, core |-> CoreImage(vga),
               firmware |-> SaveFirmware(bda), dac |-> DacImage(vga), dispi |-> DispiImage(vga)]
    /\ Step("save")
    /\ UNCHANGED <<vga, bda, ibm, wait>>

(* The guest owns the buffer and may change any of it.                     *)
EditVbe(class, field, value) ==
    /\ wait = None
    /\ vbe # None
    /\ vbe' = [vbe EXCEPT ![class][field] = value, !.edited = TRUE]
    /\ Step("edit")
    /\ UNCHANGED <<vga, bda, ibm, wait>>

RestoreVbe(mask) ==
    \E ok \in {vbe # None /\ Available(vga) /\ Valid(vbe, mask)} :
        /\ wait = None
        /\ vbe # None
        /\ vga' = IF ok THEN Restored(vga, vbe, mask) ELSE vga
        /\ bda' = IF ok /\ Component(mask, 1) THEN RestoreFirmware(bda, vbe.firmware) ELSE bda
        /\ budget > 0 /\ Spend
        /\ did' = [op |-> "vbe", ok |-> ok, mask |-> mask, before |-> vga]
        /\ UNCHANGED <<ibm, vbe, wait>>

Init ==
    /\ scene \in Scenes
    /\ vga = SetMode(NewDevice, \h03, FALSE, \h10)
    /\ bda = NewBda
    /\ ibm = None /\ vbe = None /\ wait = None
    /\ did = [op |-> "none"]
    /\ budget = StepsOf[scene]

Next ==
    \/ \E c \in Calls("out") : Out(c[2], c[3])
    \/ \E c \in Calls("word") : OutWord(c[2], c[3])
    \/ \E c \in Calls("in") : In(c[2])
    \/ \E c \in Calls("poke") : Poke(c[2], c[3])
    \/ \E c \in Calls("bda") : PokeBda(c[2], c[3])
    \/ VerticalRetrace
    \/ \E c \in Calls("mode") : SetVideoMode(c[2], c[3])
    \/ \E c \in Calls("vbemode") : SetVbeMode(c[2], c[3])
    \/ \E c \in Calls("register") : SetRegister(c[2], c[3])
    \/ \E c \in Calls("blink") : SetBlink(c[2])
    \/ \E c \in Calls("paging") : SetPagingMode(c[2])
    \/ \E c \in Calls("page") : SelectPalettePage(c[2])
    \/ \E c \in Calls("color") : SetColor(c[2], c[3])
    \/ \E c \in Calls("readcolor") : ReadColor(c[2])
    \/ \E c \in Calls("gray") : SumColors(c[2], c[3])
    \/ \E c \in Calls("background") : SetBackground(c[2])
    \/ \E c \in Calls("palette") : SelectPalette(c[2])
    \/ \E c \in Calls("loading") : SetPaletteLoading(c[2])
    \/ \E c \in Calls("summing") : SetGrayscaleSumming(c[2])
    \/ \E c \in Calls("addressing") : SetVideoAddressing(c[2])
    \/ \E c \in Calls("output") : SetScreenOutput(c[2])
    \/ \E c \in Calls("report") : WriteReport
    \/ \E c \in Calls("window") : Window(c[2])
    \/ \E c \in Calls("scanline") : Scanline(c[2])
    \/ \E c \in Calls("start") : DisplayStart(c[2], c[3])
    \/ \E c \in Calls("request") : RequestStart(c[2], c[3])
    \/ ResumeStart
    \/ \E c \in Calls("saveibm") : SaveIbm(c[2])
    \/ \E c \in Calls("restoreibm") : RestoreIbm(c[2])
    \/ \E c \in Calls("savevbe") : SaveVbe(c[2])
    \/ \E c \in Calls("edit") : EditVbe(c[2], c[3], c[4])
    \/ \E c \in Calls("restorevbe") : RestoreVbe(c[2])

Spec == Init /\ [][Next]_vars

(***************************************************************************)
(* Properties.                                                             *)
(***************************************************************************)
VbeRestoreIsExact ==
    LET old == did.before
        kept(i, image(_), saved) == image(vga) = IF Component(did.mask, i) THEN saved ELSE image(old)
    IN  IF did.ok
        THEN /\ kept(0, CoreImage, vbe.core)
             /\ kept(2, DacImage, vbe.dac)
             /\ kept(3, DispiImage, vbe.dispi)
             /\ vga.planes = old.planes
        ELSE /\ vga = old
             /\ vbe.edited \/ ~Enabled(old) \/ And(did.mask, vbe.header.components) # did.mask

IbmRestoreIsExact ==
    LET old == did.before
        saved == ibm.device
        legacy == saved.dispi.active = None /\ old.dispi.active = None
        from(i) == IF Component(did.mask, i) THEN saved ELSE old
        hardware(d) == <<d.seq.index, [i \in 1..4 |-> d.seq.values[i]], d.gc, d.crtc.index, d.crtc.values,
                         d.attr.address, [i \in 0..19 |-> d.attr.values[i]], d.misc, d.feature>>
        palette(d) == <<d.dac.mask, d.dac.colors, d.dac.address, d.dac.reading, d.attr.values[20]>>
    IN  (Enabled(saved) /\ Enabled(old)) =>
            /\ hardware(vga) = hardware(from(0))
            /\ palette(vga) = palette(from(2))
            /\ legacy => /\ vga.latches = from(0).latches
                         /\ \A i \in DOMAIN vga.planes \ {2^16 - 1} : Group(vga, i) = Group(old, i)

(* Hazard: state saved through the registers it describes.  A restore      *)
(* returns every register, palette entry and latch of the classes asked    *)
(* for as they were when saved, whatever the guest programmed, protected   *)
(* or left half-transferred at either time, and touches neither the other  *)
(* classes nor the picture; a VBE image the guest damaged is refused       *)
(* whole.  INT 10h AH=1Ch works through the guest's own ports and memory   *)
(* window: it is held to this when addressing is enabled at both times,    *)
(* and to the latches and the picture only when no DISPI mode is active at *)
(* the save or the restore (state.rs, state/hardware.rs, vbe/state.rs,     *)
(* vga_core.rs).                                                           *)
RestoreIsExact ==
    /\ did.op = "vbe" => VbeRestoreIsExact
    /\ did.op = "ibm" => IbmRestoreIsExact

(* Hazard: the pitch, the origin and the mode change one register at a     *)
(* time, and an image or a waiting request brings old ones.  The viewport  *)
(* always lies in video memory, and a viewport request that reports        *)
(* success after its wait moved the layout it was checked against          *)
(* (dispi.rs write_port and from_state_bytes, layout.rs display_start).    *)
ShownImageFits ==
    LET l == vga.dispi.active
    IN  /\ l # None => /\ (l.x + l.width) * l.bytes <= l.pitch
                       /\ (l.y + l.height) * l.pitch <= VideoMemoryBytes
                       /\ l.bytes * 8 = vga.dispi.bits /\ l.width = vga.dispi.width
        /\ did.op = "resume" =>
                (did.ok => l = [did.asked.layout EXCEPT !.x = did.asked.x, !.y = did.asked.y])
=============================================================================
