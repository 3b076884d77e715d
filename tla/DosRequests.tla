---------------------------- MODULE DosRequests -----------------------------
(***************************************************************************)
(* INT 21h calls on one CPU (src/crates/dos/src/services): entry into DOS, *)
(* the wait for console input, the break and idle callbacks into guest     *)
(* code, and termination.  A call that waits, or runs a callback, stays    *)
(* below whatever the interrupt handlers and callbacks of the guest enter. *)
(***************************************************************************)
EXTENDS Integers, Sequences, FiniteSets, SequencesExt, FiniteSetTheorems, TLAPS

CONSTANTS Functions,  \* the functions a guest calls, by AH
          Keys,       \* the keys that are typed
          MaxFrames,  \* bound on calls and handlers under way
          MaxKeys,    \* bound on keys queued
          MaxEvents   \* bound on calls, interrupts and keys

ASSUME CallsAssumption ==
    Functions \subseteq {"01", "02", "06", "07", "0A", "0B", "33", "3D", "3F", "40", "4C"}

VARIABLES process, inDos, checkBreak, idleHooked,
          stdin,      \* what handle 0 names: the console, or a file
          file,       \* the bytes left in that file
          con,        \* the console's input: pending bytes and BIOS keys, whether
                      \* the BIOS's dummy key (0000h) comes before these, and
                      \* whether an interrupt brought the last of them
          line,       \* bytes left of a completed line
          frames,     \* calls and handlers under way, the innermost last
          events

vars == <<process, inDos, checkBreak, idleHooked, stdin, file, con, line, frames, events>>
guestVars == <<checkBreak, idleHooked, stdin>>

Reads == {"01", "07", "0A", "3F"}
Checked(f) == f \in {"01", "0A", "3F"}                    \* a read that watches for ^C
CharacterIO(f) == f \in {"01", "02", "06", "07", "0A", "0B"}
Prechecked(f) == f \in {"3D", "3F", "40", "4C"}           \* above 0Ch: BREAK ON applies

NoCall == [function |-> "none", flush |-> FALSE, mode |-> "none", phase |-> "none",
           source |-> "con", retained |-> FALSE, extended |-> FALSE]
Top == IF frames = <<>> THEN NoCall ELSE Last(frames)
Pop == Front(frames)
WithTop(frame) == Append(Pop, frame)
Changed(mode, phase) == WithTop([Top EXCEPT !.mode = mode, !.phase = phase])

(* Guest code runs: at the bottom, in a handler or in a callback.          *)
GuestRuns == process = "Active" /\ Top.mode \in {"none", "irq", "break", "idle"}
Runs(phase) == Top.mode = "run" /\ Top.phase = phase
Event == events < MaxEvents /\ events' = events + 1

-----------------------------------------------------------------------------
(* Console input.  A key is one byte, or zero and its scan code.           *)

Bytes(k) == CASE k = "char" -> <<"Char">> [] k = "ctrl_c" -> <<"C">> [] k = "enter" -> <<"CR">>
              [] k = "function" -> <<"Nul", "Scan">>

Peek(c) ==
    IF c.pending # <<>> THEN Head(c.pending)
    ELSE IF c.keys # <<>> THEN Head(Bytes(Head(c.keys)))
    ELSE "None"
\* Looking for a key, when no byte is pending, discards the dummy.
Peeked(c) == [c EXCEPT !.dummy = @ /\ c.pending # <<>>]
TakeByte(c) ==
    IF c.pending # <<>> THEN [c EXCEPT !.pending = Tail(@)]
    ELSE [c EXCEPT !.pending = Tail(Bytes(Head(c.keys))), !.keys = Tail(@), !.dummy = FALSE]
Flush(c) == [c EXCEPT !.pending = <<>>, !.keys = <<>>, !.dummy = FALSE]

\* What a read finds.  One that waits is inside the BIOS: it looks at the
\* pending bytes again only after the dummy, and any other key replaces them.
Found(c, retained) ==
    CASE ~retained -> Peeked(c)
      [] retained /\ c.dummy -> [c EXCEPT !.dummy = FALSE]
      [] OTHER -> [c EXCEPT !.pending = <<>>]

PeekSource(source) ==
    IF source = "con" THEN Peek(con) ELSE IF file = <<>> THEN "None" ELSE Head(file)
TakeSource(source) ==
    IF source = "con" THEN con' = TakeByte(con) /\ UNCHANGED file
    ELSE file' = Tail(file) /\ UNCHANGED con

(* CON is watched by the outermost call only, whatever handle 0 names.     *)
ConsoleBreak == inDos = 1 /\ Peek(con) = "C"
(* Mutant: only the source of the read is watched.                         *)
BreakPendingSource(source) == PeekSource(source) = "C"
BreakPending(source) == ConsoleBreak \/ PeekSource(source) = "C"
TakeBreak(source) == TakeSource(IF ConsoleBreak THEN "con" ELSE source)

-----------------------------------------------------------------------------
Init ==
    /\ process = "Active"
    /\ inDos = 0
    /\ checkBreak = FALSE /\ idleHooked = FALSE
    /\ stdin = "con"
    /\ file \in {<<>>, <<"Char">>, <<"C">>}
    /\ con = [pending |-> <<>>, keys |-> <<>>, dummy |-> FALSE, interrupted |-> FALSE]
    /\ line = 0
    /\ frames = <<>>
    /\ events = 0

(* AH=33h neither enters DOS nor checks for a break.                       *)
Enter(f, flush) ==
    /\ GuestRuns /\ Len(frames) < MaxFrames /\ Event
    /\ flush => f \in {"01", "06", "07", "0A"}
    /\ frames' = Append(frames, [NoCall EXCEPT !.function = f, !.flush = flush, !.mode = "run",
                                             !.phase = "enter"])
    /\ inDos' = IF f = "33" THEN inDos ELSE inDos + 1
    /\ UNCHANGED <<process, guestVars, file, con, line>>

Return == frames' = Pop /\ inDos' = IF Top.function = "33" THEN inDos ELSE inDos - 1

(* The callback runs outside DOS.                                          *)
(* Mutant: the call keeps its entry while INT 23h runs.                    *)
HandleBreakInside(phase) == frames' = Changed("break", phase) /\ UNCHANGED inDos
HandleBreak(phase) == frames' = Changed("break", phase) /\ inDos' = inDos - 1

(* BREAK ON is tested once; the console then until it shows no ^C.         *)
Precheck ==
    /\ Runs("enter") \/ Runs("check")
    /\ LET checks == Prechecked(Top.function) /\ (Top.phase = "check" \/ checkBreak)
       IN  IF checks /\ ConsoleBreak
           THEN HandleBreak("check") /\ TakeSource("con")
           ELSE /\ frames' = Changed("run", "start")
                /\ con' = IF checks /\ inDos = 1 THEN Peeked(con) ELSE con
                /\ UNCHANGED <<inDos, file>>
    /\ UNCHANGED <<process, guestVars, line, events>>

Exit == process' = "Exited"

(* Handles are resolved, and input flushed, at each attempt.               *)
Start ==
    LET f == Top.function
        ready == [Top EXCEPT !.source = stdin, !.phase = "poll",
                               !.retained = FALSE, !.extended = FALSE]
    IN  /\ Runs("start")
        /\ con' = IF Top.flush /\ stdin = "con" THEN Flush(con) ELSE con
        /\ \/ /\ f \in {"01", "02", "06", "07", "0A", "0B", "40"}
              /\ frames' = WithTop(ready)
              /\ UNCHANGED <<process, inDos, guestVars, file, line>>
           \/ /\ f = "0A"                                  \* no capacity
              /\ Return /\ UNCHANGED <<process, guestVars, file, line>>
           \/ /\ f = "3F" /\ stdin = "con" /\ line = 0
              /\ frames' = WithTop(ready)
              /\ UNCHANGED <<process, inDos, guestVars, file, line>>
           \/ /\ f = "3F" /\ stdin = "con" /\ line > 0
              /\ line' \in 0..(line - 1)
              /\ Return /\ UNCHANGED <<process, guestVars, file>>
           \/ /\ f = "3F" /\ stdin = "file"
              /\ file' = IF file = <<>> THEN file ELSE Tail(file)
              /\ Return /\ UNCHANGED <<process, guestVars, line>>
           \/ /\ f = "33"
              /\ checkBreak' \in BOOLEAN
              /\ Return /\ UNCHANGED <<process, idleHooked, stdin, file, line>>
           \/ /\ f = "3D"                                  \* a file service, redirection too
              /\ stdin' \in {"con", "file"}
              /\ Return /\ UNCHANGED <<process, checkBreak, idleHooked, file, line>>
           \/ /\ f = "4C"
              /\ Exit /\ Return /\ UNCHANGED <<guestVars, file, line>>
        /\ UNCHANGED events

-----------------------------------------------------------------------------
(* A read is polled: the break check first, then the retained read.        *)

MayNotify == CharacterIO(Top.function) /\ inDos = 1

(* An empty source: the idle callback, where one is installed, or sleep.   *)
(* A read of the console is retained; one of a file is made again.         *)
Wait ==
    /\ frames' = WithTop([Top EXCEPT !.mode = IF MayNotify /\ idleHooked THEN "idle" ELSE "wait",
                                     !.retained = Top.source = "con"])
    /\ UNCHANGED <<inDos, line>>

(* A line ends with CR; the byte after a zero is a scan code.              *)
Accept(byte) ==
    \/ /\ Top.function \in {"01", "07"}
       /\ IF Checked(Top.function) /\ byte = "C" THEN HandleBreak("start") ELSE Return
       /\ UNCHANGED line
    \/ /\ Top.function \in {"0A", "3F"}
       /\ IF byte = "C" THEN HandleBreak("start") /\ UNCHANGED line
          ELSE IF byte = "CR" /\ ~Top.extended
          THEN Return /\ line' \in IF Top.function = "3F" THEN 0..(line + 1) ELSE {line}
          ELSE /\ frames' = WithTop([Top EXCEPT !.extended = byte = "Nul" /\ ~@,
                                                !.retained = FALSE])
               /\ UNCHANGED <<inDos, line>>

(* A check for ^C looks at CON and at the source, direct I/O at the source. *)
LooksAtConsole == Top.source = "con" \/ (Top.function # "06" /\ inDos = 1)

ReadConsole ==
    LET seen == IF Checked(Top.function) THEN Peeked(con) ELSE con
        found == Found(seen, Top.retained)
    IN  IF Peek(found) # "None"
        THEN con' = TakeByte(found) /\ Accept(Peek(found))
        ELSE con' = (IF seen.dummy THEN found ELSE seen) /\ Wait

ReadFile ==
    /\ con' = IF Checked(Top.function) /\ LooksAtConsole THEN Peeked(con) ELSE con
    /\ IF file # <<>> THEN file' = Tail(file) /\ Accept(Head(file)) ELSE UNCHANGED file /\ Wait

PollRead ==
    /\ Runs("poll") /\ Top.function \in Reads
    /\ IF Checked(Top.function) /\ BreakPending(Top.source)
       THEN TakeBreak(Top.source) /\ HandleBreak("start") /\ UNCHANGED line
       ELSE \/ Top.source = "con" /\ ReadConsole /\ UNCHANGED file
            \/ Top.source = "file" /\ ReadFile
    /\ UNCHANGED <<process, guestVars, events>>

(* Output checks for a break before every byte; a status or a poll that    *)
(* finds nothing notifies once.                                            *)
PollOther ==
    LET f == Top.function
        empty == PeekSource(Top.source) = "None"
    IN  /\ Runs("poll") /\ f \in {"02", "06", "0B", "40"}
        /\ IF f # "06" /\ BreakPending(Top.source)
           THEN TakeBreak(Top.source) /\ HandleBreak("start")
           ELSE /\ IF f = "06" /\ ~empty THEN TakeSource(Top.source)
                   ELSE con' = (IF LooksAtConsole THEN Peeked(con) ELSE con) /\ UNCHANGED file
                /\ IF f # "40" /\ empty /\ MayNotify /\ idleHooked
                   THEN frames' = Changed("idle", "finish") /\ UNCHANGED inDos
                   ELSE \/ Return
                        \/ f = "40" /\ UNCHANGED <<frames, inDos>>   \* more bytes to write
        /\ UNCHANGED <<process, guestVars, line, events>>

Finish == Runs("finish") /\ Return /\ UNCHANGED <<process, guestVars, file, con, line, events>>

-----------------------------------------------------------------------------
(* The guest.                                                              *)

HookIdle ==
    /\ GuestRuns /\ Event /\ idleHooked' = ~idleHooked
    /\ UNCHANGED <<process, inDos, checkBreak, stdin, file, con, line, frames>>

(* INT 23h returns with IRET: DOS is entered again and the call restarts.  *)
Restart ==
    /\ GuestRuns /\ Top.mode = "break"
    /\ frames' = Changed("run", Top.phase)
    /\ inDos' = inDos + 1
    /\ UNCHANGED <<process, guestVars, file, con, line, events>>

(* It returns with RETF and carry, or terminates the process itself: the   *)
(* call never runs again.                                                  *)
Terminate ==
    /\ GuestRuns /\ Top.mode = "break"
    /\ Exit
    /\ UNCHANGED <<inDos, guestVars, file, con, line, frames, events>>

IdleReturns ==
    /\ GuestRuns /\ Top.mode = "idle"
    /\ frames' = Changed("run", Top.phase)
    /\ UNCHANGED <<process, inDos, guestVars, file, con, line, events>>

(* An interrupt arrives while guest code runs or a call waits; its handler *)
(* may store a key, or report a control break.                             *)
Interruptible == GuestRuns \/ (process = "Active" /\ Top.mode = "wait")
Irq ==
    /\ Interruptible /\ Len(frames) < MaxFrames /\ Event
    /\ frames' = Append(frames, [NoCall EXCEPT !.function = "irq", !.mode = "irq"])
    /\ \/ UNCHANGED con
       \/ \E k \in Keys : Len(con.keys) < MaxKeys /\ con' = [con EXCEPT !.keys = Append(@, k), !.interrupted = TRUE]
       \/ con' = [pending |-> <<"C">>, keys |-> <<>>, dummy |-> TRUE, interrupted |-> TRUE]
    /\ UNCHANGED <<process, inDos, guestVars, file, line>>

(* The call below is polled when the handler returns to it.                *)
IrqReturns ==
    /\ GuestRuns /\ Top.mode = "irq"
    /\ frames' = LET below == Pop
                 IN  IF below # <<>> /\ Last(below).mode = "wait"
                     THEN Append(Front(below), [Last(below) EXCEPT !.mode = "run"])
                     ELSE below
    /\ UNCHANGED <<process, inDos, guestVars, file, con, line, events>>

(* The host writes a byte; a read that waits for the console is woken.     *)
HostWrite ==
    /\ \E k \in Keys \ {"function"} :
        Len(con.keys) < MaxKeys /\ con' = [con EXCEPT !.keys = Append(@, k), !.interrupted = FALSE]
    /\ Event
    /\ Top.mode # "run"
    /\ frames' = IF Top.mode = "wait" /\ Top.source = "con"
                 THEN Changed("run", "poll") ELSE frames
    /\ UNCHANGED <<process, inDos, guestVars, file, line>>

(* The driver stops and drops what was under way, innermost first.         *)
Abandon ==
    /\ process = "Exited" /\ frames # <<>>
    /\ frames' = Pop
    /\ inDos' = IF Top.function \in {"33", "irq"} \/ Top.mode = "break" THEN inDos ELSE inDos - 1
    /\ UNCHANGED <<process, guestVars, file, con, line, events>>

Launch ==
    /\ process = "Exited" /\ frames = <<>> /\ Event
    /\ process' = "Active"
    /\ stdin' = "con"
    /\ UNCHANGED <<inDos, checkBreak, idleHooked, file, con, line, frames>>

Poll == Precheck \/ Start \/ PollRead \/ PollOther \/ Finish
Guest ==
    \/ \E f \in Functions, flush \in BOOLEAN : Enter(f, flush)
    \/ HookIdle \/ Restart \/ Terminate \/ IdleReturns \/ IrqReturns

Next == Poll \/ Guest \/ Irq \/ HostWrite \/ Abandon \/ Launch

(* The driver polls the innermost call when it is woken.                   *)
Fairness == WF_vars(Poll)
Spec == Init /\ [][Next]_vars /\ Fairness

-----------------------------------------------------------------------------

(* The byte AH=34h points to counts the calls inside DOS: not those whose  *)
(* break callback runs, not AH=33h, and none of an abandoned process       *)
(* (state/indos.rs:51, services/control.rs:61).                            *)
InsideDos(frame) == frame.function \notin {"33", "irq"} /\ frame.mode # "break"
Inside(calls) == {i \in DOMAIN calls : InsideDos(calls[i])}
InDosIsExact == inDos = Cardinality(Inside(frames))

(* A checked read that waits does not leave a ^C on its source unanswered, *)
(* nor one that an interrupt brought to the console while handle 0 names a *)
(* file (services/io/input.rs:59).                                         *)
Ignoring ==
    /\ process = "Active"
    /\ Top.mode \in {"run", "wait"} /\ Checked(Top.function) /\ Top.phase = "poll"
    /\ \/ Top.source = "con" /\ Peek(con) = "C"
       \/ Top.source = "file" /\ inDos = 1 /\ Peek(con) = "C" /\ con.interrupted
BreakIsAnswered == Ignoring ~> ~Ignoring

-----------------------------------------------------------------------------
(***************************************************************************)
(* The proof that the InDOS byte is exact.  Every change of frames removes *)
(* the innermost frame or appends one, so its effect on the count follows  *)
(* from those of Front and Append; what is left is that a frame's mode and *)
(* function tell whether its return gives the count back.                  *)
(***************************************************************************)
Frame ==
    [function : Functions \cup {"irq"}, flush : BOOLEAN,
     mode : {"none", "run", "wait", "break", "idle", "irq"},
     phase : {"none", "enter", "check", "start", "poll", "finish"},
     source : {"con", "file"}, retained : BOOLEAN, extended : BOOLEAN]

(* A handler is not a call, and only a call inside DOS runs INT 23h.       *)
WellFormed(frame) ==
    /\ frame.mode = "irq" <=> frame.function = "irq"
    /\ frame.mode = "break" => frame.function # "33"
Call == {frame \in Frame : WellFormed(frame)}

CallsInv == stdin \in {"con", "file"} /\ frames \in Seq(Call) /\ InDosIsExact

Weight(frame) == IF InsideDos(frame) THEN 1 ELSE 0

(* The calls inside DOS are finitely many: their number is a natural one.  *)
LEMMA InsideFinite ==
    ASSUME NEW s \in Seq(Call)
    PROVE  IsFiniteSet(Inside(s)) /\ Cardinality(Inside(s)) \in Nat
<1>1. IsFiniteSet(1..Len(s))
    BY FS_Interval
<1>2. Inside(s) \subseteq 1..Len(s)
    BY DEF Inside
<1> QED BY <1>1, <1>2, FS_Subset, FS_CardinalityType

(* A frame appended adds itself to the count.                              *)
LEMMA AppendCounts ==
    ASSUME NEW s \in Seq(Call), NEW frame \in Call
    PROVE  /\ Append(s, frame) \in Seq(Call)
           /\ Cardinality(Inside(Append(s, frame))) = Cardinality(Inside(s)) + Weight(frame)
<1>1. Append(s, frame) \in Seq(Call) /\ Len(s) + 1 \notin Inside(s)
    BY DEF Inside
<1>2. CASE InsideDos(frame)
    <2>1. Inside(Append(s, frame)) = Inside(s) \cup {Len(s) + 1}
        BY <1>2 DEF Inside
    <2> QED BY <1>1, <1>2, <2>1, InsideFinite, FS_AddElement DEF Weight
<1>3. CASE ~InsideDos(frame)
    <2>1. Inside(Append(s, frame)) = Inside(s)
        BY <1>3 DEF Inside
    <2> QED BY <1>1, <1>3, <2>1, InsideFinite DEF Weight
<1> QED BY <1>2, <1>3

(* The innermost frame removed takes itself from the count.                *)
LEMMA FrontCounts ==
    ASSUME NEW s \in Seq(Call), s # <<>>
    PROVE  /\ Front(s) \in Seq(Call) /\ Last(s) \in Call
           /\ Cardinality(Inside(s)) = Cardinality(Inside(Front(s))) + Weight(Last(s))
<1>1. Len(s) \in Nat /\ Len(s) > 0
    OBVIOUS
<1>2. Front(s) \in Seq(Call) /\ Last(s) \in Call
    BY <1>1 DEF Front, Last
<1>3. Append(Front(s), Last(s)) = s
    BY <1>1 DEF Front, Last
<1> QED BY <1>2, <1>3, AppendCounts

Kept == frames' \in Seq(Call) /\ InDosIsExact'

(* The innermost frame, and the count without it.                          *)
LEMMA TopCounts ==
    ASSUME CallsInv, Top.mode # "none"
    PROVE  /\ frames # <<>> /\ Top \in Call /\ Pop \in Seq(Call)
           /\ inDos = Cardinality(Inside(Pop)) + Weight(Top)
           /\ Cardinality(Inside(Pop)) \in Nat
<1>1. frames # <<>> /\ Top = Last(frames)
    BY DEF Top, NoCall
<1> QED BY <1>1, FrontCounts, InsideFinite DEF CallsInv, InDosIsExact, Pop

(* A call that changes its own frame accounts for the difference.          *)
LEMMA ReplaceStep ==
    ASSUME CallsInv, Top.mode # "none", NEW frame \in Call, frames' = WithTop(frame),
           inDos' = inDos - Weight(Top) + Weight(frame)
    PROVE  Kept
<1>1. frames' \in Seq(Call)
           /\ Cardinality(Inside(frames')) = Cardinality(Inside(Pop)) + Weight(frame)
    BY TopCounts, AppendCounts DEF WithTop
<1> QED BY <1>1, TopCounts DEF Kept, InDosIsExact, Weight

(* A call that returns was inside DOS, unless it is AH=33h.                *)
LEMMA ReturnStep ==
    ASSUME CallsInv, Top.mode = "run", Return
    PROVE  Kept
<1>1. Top.function # "irq"
    BY TopCounts DEF Call, WellFormed
<1> QED BY <1>1, TopCounts DEF Return, Kept, InDosIsExact, Weight, InsideDos

(* The break callback takes its call out of DOS.                           *)
LEMMA BreakStep ==
    ASSUME CallsInv, Top.mode = "run", Top.function # "33",
           NEW phase \in {"check", "start"}, HandleBreak(phase)
    PROVE  Kept
<1> DEFINE frame == [Top EXCEPT !.mode = "break", !.phase = phase]
<1>1. Top \in Call /\ Top.function # "irq"
    BY TopCounts DEF Call, WellFormed
<1>2. frame \in Call /\ Weight(frame) = 0 /\ Weight(Top) = 1
    BY <1>1 DEF Call, Frame, WellFormed, Weight, InsideDos
<1>3. frames' = WithTop(frame) /\ inDos' = inDos - 1
    BY DEF HandleBreak, Changed
<1>4. inDos' = inDos - Weight(Top) + Weight(frame)
    BY <1>2, <1>3, TopCounts
<1> QED BY <1>2, <1>3, <1>4, ReplaceStep

(* Modes that leave the call inside DOS leave the count alone.             *)
LEMMA ChangeStep ==
    ASSUME CallsInv, Top.mode \in {"run", "idle", "wait"},
           NEW mode \in {"run", "idle", "wait"},
           NEW phase \in {"none", "enter", "check", "start", "poll", "finish"},
           frames' = Changed(mode, phase), inDos' = inDos
    PROVE  Kept
<1> DEFINE frame == [Top EXCEPT !.mode = mode, !.phase = phase]
<1>1. Top \in Call
    BY TopCounts
<1>2. frame \in Call /\ Weight(frame) = Weight(Top) /\ Weight(Top) \in {0, 1}
    BY <1>1 DEF Call, Frame, WellFormed, Weight, InsideDos
<1>3. inDos' = inDos - Weight(Top) + Weight(frame)
    BY <1>2, TopCounts
<1> QED BY <1>2, <1>3, ReplaceStep DEF Changed

(* Neither does the progress a call keeps in its frame.                    *)
LEMMA ProgressStep ==
    ASSUME CallsInv, Top.mode = "run", NEW frame \in Frame,
           frame.mode \in {"run", "idle", "wait"}, frame.function = Top.function,
           frames' = WithTop(frame), inDos' = inDos
    PROVE  Kept
<1>1. Top \in Call
    BY TopCounts
<1>2. frame \in Call /\ Weight(frame) = Weight(Top) /\ Weight(Top) \in {0, 1}
    BY <1>1 DEF Call, Frame, WellFormed, Weight, InsideDos
<1>3. inDos' = inDos - Weight(Top) + Weight(frame)
    BY <1>2, TopCounts
<1> QED BY <1>2, <1>3, ReplaceStep

(* Every attempt at a call keeps the count.                                *)
LEMMA PollStep == ASSUME CallsInv, Poll PROVE CallsInv'
<1>1. CASE Precheck
    <2>1. Top.mode = "run" /\ stdin' = stdin
        BY <1>1 DEF Precheck, Runs, guestVars
    <2>2. ASSUME Prechecked(Top.function), HandleBreak("check") PROVE Kept
        BY <2>1, <2>2, BreakStep DEF Prechecked
    <2>3. ASSUME frames' = Changed("run", "start"), inDos' = inDos PROVE Kept
        BY <2>1, <2>3, ChangeStep
    <2> QED BY <1>1, <2>1, <2>2, <2>3 DEF Precheck, Kept, CallsInv
<1>2. CASE Start
    <2> DEFINE ready == [Top EXCEPT !.source = stdin, !.phase = "poll",
                                 !.retained = FALSE, !.extended = FALSE]
    <2>1. Top.mode = "run" /\ Top \in Call /\ stdin' \in {"con", "file"}
        BY <1>2, TopCounts DEF Start, Runs, guestVars, CallsInv
    <2>2. ready \in Frame /\ ready.mode = "run" /\ ready.function = Top.function
        BY <2>1 DEF CallsInv, Call, Frame
    <2>3. ASSUME frames' = WithTop(ready), inDos' = inDos PROVE Kept
        BY <2>1, <2>2, <2>3, ProgressStep
    <2>4. (frames' = WithTop(ready) /\ inDos' = inDos) \/ Return
        BY <1>2 DEF Start
    <2> QED BY <2>1, <2>3, <2>4, ReturnStep DEF Kept, CallsInv
<1>3. CASE PollRead
    <2>1. Top.mode = "run" /\ Top \in Call /\ stdin' = stdin /\ Top.function \in Reads
        BY <1>3, TopCounts DEF PollRead, Runs, guestVars
    <2>2. ASSUME HandleBreak("start") PROVE Kept
        BY <2>1, <2>2, BreakStep DEF Reads
    <2>3. ASSUME Wait PROVE Kept
        <3> DEFINE mode == IF MayNotify /\ idleHooked THEN "idle" ELSE "wait"
                   frame == [Top EXCEPT !.mode = mode, !.retained = Top.source = "con"]
        <3>1. mode \in {"idle", "wait"}
            OBVIOUS
        <3> HIDE DEF mode
        <3>2. frame \in Frame /\ frame.mode = mode /\ frame.function = Top.function
            BY <2>1, <3>1, Zenon DEF Call, Frame
        <3>3. frames' = WithTop(frame) /\ inDos' = inDos
            BY <2>3 DEF Wait, mode
        <3> QED BY <2>1, <3>1, <3>2, <3>3, ProgressStep
    <2>4. ASSUME NEW byte, Accept(byte) PROVE Kept
        <3> DEFINE frame == [Top EXCEPT !.extended = byte = "Nul" /\ ~@, !.retained = FALSE]
        <3>1. frame \in Frame /\ frame.mode = "run" /\ frame.function = Top.function
            BY <2>1, Zenon DEF Call, Frame
        <3>2. ASSUME frames' = WithTop(frame), inDos' = inDos PROVE Kept
            BY <2>1, <3>1, <3>2, ProgressStep
        <3>3. HandleBreak("start") \/ Return \/ (frames' = WithTop(frame) /\ inDos' = inDos)
            BY <2>4 DEF Accept
        <3> QED BY <2>1, <2>2, <3>2, <3>3, ReturnStep
    <2>5. HandleBreak("start") \/ Wait \/ \E byte : Accept(byte)
        BY <1>3, Zenon DEF PollRead, ReadConsole, ReadFile
    <2> QED BY <2>1, <2>2, <2>3, <2>4, <2>5 DEF Kept, CallsInv
<1>4. CASE PollOther
    <2>1. /\ Top.mode = "run" /\ stdin' = stdin
          /\ Top.function \in {"02", "06", "0B", "40"}
        BY <1>4 DEF PollOther, Runs, guestVars
    <2>2. ASSUME HandleBreak("start") PROVE Kept
        BY <2>1, <2>2, BreakStep
    <2>3. ASSUME frames' = Changed("idle", "finish"), inDos' = inDos PROVE Kept
        BY <2>1, <2>3, ChangeStep
    <2>4. ASSUME frames' = frames, inDos' = inDos PROVE Kept
        BY <2>4 DEF Kept, CallsInv, InDosIsExact
    <2>5. \/ HandleBreak("start") \/ Return
          \/ frames' = Changed("idle", "finish") /\ inDos' = inDos
          \/ frames' = frames /\ inDos' = inDos
        BY <1>4 DEF PollOther
    <2> QED BY <2>1, <2>2, <2>3, <2>4, <2>5, ReturnStep DEF Kept, CallsInv
<1>5. CASE Finish
    BY <1>5, ReturnStep DEF Finish, Runs, Kept, CallsInv, guestVars
<1> QED BY <1>1, <1>2, <1>3, <1>4, <1>5 DEF Poll

(* So does everything else: the guest, interrupts, the host and the end.   *)
LEMMA OtherStep ==
    ASSUME CallsInv, Guest \/ Irq \/ HostWrite \/ Abandon \/ Launch
    PROVE  CallsInv'
<1>1. ASSUME NEW f \in Functions, NEW flush \in BOOLEAN, Enter(f, flush) PROVE CallsInv'
    <2> DEFINE frame == [NoCall EXCEPT !.function = f, !.flush = flush, !.mode = "run",
                                       !.phase = "enter"]
    <2>1. f # "irq"
        BY CallsAssumption
    <2>2. frame \in Call /\ Weight(frame) = IF f = "33" THEN 0 ELSE 1
        BY <2>1 DEF NoCall, Call, Frame, WellFormed, Weight, InsideDos
    <2>3. frames' = Append(frames, frame) /\ inDos' = IF f = "33" THEN inDos ELSE inDos + 1
        BY <1>1 DEF Enter
    <2>4. inDos \in Nat
        BY InsideFinite DEF CallsInv, InDosIsExact
    <2>5. Kept
        BY <2>2, <2>3, <2>4, AppendCounts, InsideFinite DEF Kept, CallsInv, InDosIsExact
    <2> QED BY <1>1, <2>5 DEF Enter, guestVars, Kept, CallsInv
<1>2. CASE HookIdle \/ Terminate \/ Launch
    BY <1>2 DEF HookIdle, Terminate, Launch, guestVars, CallsInv, InDosIsExact
<1>3. CASE Restart
    <2> DEFINE frame == [Top EXCEPT !.mode = "run", !.phase = Top.phase]
    <2>1. Top.mode = "break" /\ Top \in Call
        BY <1>3, TopCounts DEF Restart
    <2>2. frame \in Call /\ Weight(frame) = 1 /\ Weight(Top) = 0
        BY <2>1 DEF Call, Frame, WellFormed, Weight, InsideDos
    <2>3. frames' = WithTop(frame) /\ inDos' = inDos - Weight(Top) + Weight(frame)
        BY <1>3, <2>1, <2>2, TopCounts DEF Restart, Changed
    <2> QED BY <1>3, <2>1, <2>2, <2>3, ReplaceStep DEF Restart, guestVars, Kept, CallsInv
<1>4. CASE IdleReturns
    <2>1. Top.mode = "idle" /\ Top \in Call
        BY <1>4, TopCounts DEF IdleReturns
    <2>2. Top.phase \in {"none", "enter", "check", "start", "poll", "finish"}
        BY <2>1 DEF Call, Frame
    <2> QED BY <1>4, <2>1, <2>2, ChangeStep DEF IdleReturns, guestVars, Kept, CallsInv
<1>5. CASE Irq
    <2> DEFINE frame == [NoCall EXCEPT !.function = "irq", !.mode = "irq"]
    <2>1. frame \in Call /\ Weight(frame) = 0
        BY DEF NoCall, Call, Frame, WellFormed, Weight, InsideDos
    <2>2. frames' = Append(frames, frame) /\ inDos' = inDos
        BY <1>5 DEF Irq
    <2>3. Cardinality(Inside(frames)) \in Nat /\ frames' \in Seq(Call)
          /\ Cardinality(Inside(frames')) = Cardinality(Inside(frames)) + 0
        BY <2>1, <2>2, AppendCounts, InsideFinite DEF CallsInv
    <2>4. Kept
        BY <2>2, <2>3 DEF Kept, CallsInv, InDosIsExact
    <2> QED BY <1>5, <2>4 DEF Irq, guestVars, Kept, CallsInv
<1>6. CASE IrqReturns
    <2>1. Top.mode = "irq" /\ Top \in Call /\ Pop \in Seq(Call)
          /\ inDos = Cardinality(Inside(Pop)) + Weight(Top) /\ Cardinality(Inside(Pop)) \in Nat
        BY <1>6, TopCounts DEF IrqReturns
    <2>2. Weight(Top) = 0
        BY <2>1 DEF Call, WellFormed, Weight, InsideDos
    <2>3. CASE Pop # <<>> /\ Last(Pop).mode = "wait"
        <3> DEFINE frame == [Last(Pop) EXCEPT !.mode = "run"]
        <3>1. /\ Front(Pop) \in Seq(Call) /\ Last(Pop) \in Call
              /\ Cardinality(Inside(Pop)) = Cardinality(Inside(Front(Pop))) + Weight(Last(Pop))
            BY <2>1, <2>3, FrontCounts
        <3>2. frame \in Call /\ Weight(frame) = Weight(Last(Pop))
            BY <2>3, <3>1 DEF Call, Frame, WellFormed, Weight, InsideDos
        <3>3. frames' = Append(Front(Pop), frame) /\ inDos' = inDos
            BY <1>6, <2>3 DEF IrqReturns
        <3>4. Kept
            BY <2>1, <2>2, <3>1, <3>2, <3>3, AppendCounts DEF Kept, InDosIsExact
        <3> QED BY <1>6, <3>4 DEF IrqReturns, guestVars, Kept, CallsInv
    <2>4. CASE ~(Pop # <<>> /\ Last(Pop).mode = "wait")
        <3>1. frames' = Pop /\ inDos' = inDos
            BY <1>6, <2>4 DEF IrqReturns
        <3>2. Kept
            BY <2>1, <2>2, <3>1 DEF Kept, InDosIsExact
        <3> QED BY <1>6, <3>2 DEF IrqReturns, guestVars, Kept, CallsInv
    <2> QED BY <2>3, <2>4
<1>7. CASE HostWrite
    <2>1. CASE Top.mode = "wait" /\ Top.source = "con"
        BY <1>7, <2>1, ChangeStep DEF HostWrite, guestVars, Kept, CallsInv
    <2>2. CASE ~(Top.mode = "wait" /\ Top.source = "con")
        BY <1>7, <2>2 DEF HostWrite, guestVars, CallsInv, InDosIsExact
    <2> QED BY <2>1, <2>2
<1>8. CASE Abandon
    <2>1. /\ Pop \in Seq(Call) /\ Cardinality(Inside(Pop)) \in Nat
          /\ Cardinality(Inside(frames)) = Cardinality(Inside(Pop)) + Weight(Top)
        BY <1>8, FrontCounts, InsideFinite DEF Abandon, CallsInv, Pop, Top
    <2>2. inDos' = inDos - Weight(Top) /\ frames' = Pop
        BY <1>8, <2>1 DEF Abandon, Weight, InsideDos, CallsInv, InDosIsExact
    <2>3. Kept
        BY <2>1, <2>2 DEF Weight, CallsInv, InDosIsExact, Kept
    <2> QED BY <1>8, <2>3 DEF Abandon, guestVars, Kept, CallsInv
<1> QED BY <1>1, <1>2, <1>3, <1>4, <1>5, <1>6, <1>7, <1>8 DEF Guest

(* The InDOS byte is exact however deep interrupts, callbacks and calls    *)
(* nest, whichever calls a break restarts or ends, and after a process is  *)
(* abandoned with calls under way (state/indos.rs:51).                     *)
THEOREM InDosCounts == Spec => []InDosIsExact
<1>1. Init => CallsInv
    <2> SUFFICES ASSUME Init PROVE CallsInv
        OBVIOUS
    <2>1. Inside(frames) = {} /\ frames \in Seq(Call)
        BY DEF Init, Inside
    <2> QED BY <2>1, FS_EmptySet DEF Init, CallsInv, InDosIsExact
<1>2. CallsInv /\ [Next]_vars => CallsInv'
    <2> SUFFICES ASSUME CallsInv, [Next]_vars PROVE CallsInv'
        OBVIOUS
    <2>1. CASE UNCHANGED vars
        BY <2>1 DEF vars, CallsInv, InDosIsExact
    <2> QED BY <2>1, PollStep, OtherStep DEF Next
<1>3. CallsInv => InDosIsExact
    BY DEF CallsInv
<1> QED BY <1>1, <1>2, <1>3, PTL DEF Spec
=============================================================================
