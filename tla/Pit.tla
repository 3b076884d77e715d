--------------------------------- MODULE Pit --------------------------------
(***************************************************************************)
(* The PIT device of crates/pit/src/timer.rs and the speaker's use of it   *)
(* (crates/pc-speaker/src/lib.rs): port accesses by the guest at any time, *)
(* the activity that sleeps until channel 0's next transition, and the     *)
(* IRQ0 input of the PIC it drives.                                        *)
(*                                                                         *)
(* Time is counted in input clocks.  Everything runs on the execution      *)
(* owner, so an action is one synchronous piece of code; between actions   *)
(* any time may pass, and a wake-up may come late.                         *)
(***************************************************************************)
EXTENDS Integers, Sequences, FiniteSets

-----------------------------------------------------------------------------
(* One binary 8254 counter and the PIT's input clock, the operations of    *)
(* crates/pit/src/lib.rs and clock.rs as functions on a counter's state,   *)
(* and the sample integral the PC speaker computes from it.                *)
(*                                                                         *)
(* A byte is a digit in base Base (256 in the code), so a count has two    *)
(* digits and a zero count means Base^2 (65536).  The control register is  *)
(* kept decoded: mode 2 or 3, 0 for the modes and formats that are         *)
(* deferred, and the access format.                                        *)

CONSTANTS
  Base,   \* values of a byte
  None    \* an empty Option

BaseAssumption == Base \in Nat /\ Base >= 2

Bytes == 0..(Base - 1)
FullCount == Base * Base

(* Access formats: none yet, low byte, high byte, low byte then high byte. *)
NoAccess == 0
LowByte == 1
HighByte == 2
BothBytes == 3

Modes == {0, 2, 3}
Status == [mode : Modes, access : 0..3, null : BOOLEAN, output : BOOLEAN]
Counters ==
  [mode : Modes, access : 0..3, gate : BOOLEAN, reload : 0..FullCount,
   active : 0..FullCount, phase : 0..FullCount, loading : BOOLEAN, null : BOOLEAN,
   writeLow : Bytes \cup {None}, readHigh : BOOLEAN,
   count : (0..(FullCount - 1)) \cup {None}, status : Status \cup {None}]

DefaultCounter ==
  [mode |-> 0, access |-> NoAccess, gate |-> FALSE, reload |-> 0, active |-> 0,
   phase |-> 0, loading |-> FALSE, null |-> FALSE, writeLow |-> None,
   readHigh |-> FALSE, count |-> None, status |-> None]

-----------------------------------------------------------------------------
(* What the registers show. *)

(* Clocks of a period during which OUT is high. *)
HighClocks(c) ==
  IF c.mode = 3 THEN (c.active + 1) \div 2
  ELSE IF c.active = 0 THEN 0 ELSE c.active - 1

Output(c) ==
  c.mode # 0 /\ (~c.gate \/ c.loading \/ c.active = 0 \/ c.phase < HighClocks(c))

(* The current count.  Mode 3 counts each half-period down by two. *)
CountOf(c) ==
  LET half == IF c.phase < HighClocks(c) THEN c.phase ELSE c.phase - HighClocks(c)
      even == c.active - (c.active % 2)
      value == IF c.mode = 2 THEN c.active - c.phase
               ELSE IF c.active = 0 \/ even < 2 * half THEN 0
               ELSE even - 2 * half
  IN  value % FullCount

-----------------------------------------------------------------------------
(* The guest's operations. *)

(* latch: each requested value is kept until it has been read. *)
Latch(c, count, status) ==
  [c EXCEPT
     !.count = IF count /\ @ = None THEN CountOf(c) ELSE @,
     !.status = IF status /\ @ = None
                THEN [mode |-> c.mode, access |-> c.access, null |-> c.null,
                      output |-> Output(c)]
                ELSE @]

(* control: a new configuration forgets everything but the gate. *)
Control(c, mode, access) ==
  IF access = NoAccess THEN Latch(c, TRUE, FALSE)
  ELSE [DefaultCounter EXCEPT !.mode = mode, !.access = access, !.gate = c.gate,
                              !.null = TRUE]

(* A completed count; it loads on the next clock unless one is running. *)
SetReload(c, count) ==
  [c EXCEPT !.reload = IF count = 0 THEN FullCount ELSE count,
            !.null = TRUE, !.writeLow = None,
            !.loading = @ \/ c.active = 0]

Write(c, byte) ==
  CASE c.access = LowByte -> SetReload(c, byte)
    [] c.access = HighByte -> SetReload(c, byte * Base)
    [] c.access = BothBytes /\ c.writeLow = None -> [c EXCEPT !.writeLow = byte]
    [] c.access = BothBytes /\ c.writeLow # None -> SetReload(c, c.writeLow + byte * Base)
    [] c.access = NoAccess -> c

(* read: a latched status first, then the bytes of the latched or the      *)
(* current count.                                                          *)
Read(c) ==
  LET toHigh == c.access = BothBytes /\ ~c.readHigh
  IN  IF c.status # None THEN [c EXCEPT !.status = None]
      ELSE [c EXCEPT !.readHigh = toHigh, !.count = IF toHigh THEN @ ELSE None]

(* set_gate: a rising gate reloads on the next clock. *)
SetGate(c, high) ==
  [c EXCEPT !.gate = high, !.loading = @ \/ (high /\ ~c.gate /\ c.reload # 0)]

-----------------------------------------------------------------------------
(* Time. *)

(* load: count 1 is invalid in both modes and stops the counter. *)
Loaded(c) == [c EXCEPT !.active = IF c.reload >= 2 THEN c.reload ELSE 0, !.null = FALSE]

Running(c) == c.mode # 0 /\ c.active # 0 /\ c.gate

Lesser(a, b) == IF a < b THEN a ELSE b
Bit(b) == IF b THEN 1 ELSE 0

(* Mutant: the end of a period is not wrapped to the next one's start. *)
AdvancePeriodicOpen(c, clocks) ==
  LET high == HighClocks(c)
      end == c.phase + clocks
  IN  [counter |-> [c EXCEPT !.phase = IF end > c.active THEN end % c.active ELSE end],
       high |-> (end \div c.active) * high + Lesser(end % c.active, high)
                  - Lesser(c.phase, high)]

(* advance_periodic: the phase after clocks of a running counter, and how  *)
(* many of them had OUT high.                                              *)
AdvancePeriodic(c, clocks) ==
  LET high == HighClocks(c)
      end == c.phase + clocks
  IN  [counter |-> [c EXCEPT !.phase = end % c.active],
       high |-> (end \div c.active) * high + Lesser(end % c.active, high)
                  - Lesser(c.phase, high)]

(* Mutant: mode 3 takes a new count only at the end of a period. *)
ReloadAtPeriod(c) == c.active

(* Where a running counter takes a pending count: at the end of a period,  *)
(* or of a half-period in mode 3.                                          *)
ReloadAt(c) ==
  IF c.mode = 3 /\ c.phase < HighClocks(c) THEN HighClocks(c) ELSE c.active

(* advance: any number of clocks in closed form.  A pending load takes the *)
(* first clock; a pending count splits the rest at its boundary.           *)
Advance(c, clocks) ==
  LET loads == c.loading /\ clocks # 0
      first == IF loads THEN [Loaded(c) EXCEPT !.phase = 0, !.loading = FALSE] ELSE c
      left == IF loads THEN clocks - 1 ELSE clocks
      high == IF loads THEN Bit(Output(c)) ELSE 0
      at == ReloadAt(first)
      until == at - first.phase
      before == AdvancePeriodic(first, until)
      next == Loaded(before.counter)
      second == [next EXCEPT !.phase = IF at = first.active THEN 0 ELSE HighClocks(next)]
      Rest(counter, n, sofar) ==
        IF Running(counter)
        THEN LET end == AdvancePeriodic(counter, n)
             IN  [end EXCEPT !.high = @ + sofar]
        ELSE [counter |-> counter, high |-> sofar + n * Bit(Output(counter))]
  IN  IF Running(first) /\ first.null /\ left >= until
      THEN Rest(second, left - until, high + before.high)
      ELSE Rest(first, left, high)

(* Mutant: a counter that is about to load counts as stopped. *)
NextTransitionLoaded(c) ==
  IF c.mode = 0 \/ ~c.gate \/ c.active = 0 THEN 0
  ELSE (IF c.phase < HighClocks(c) THEN HighClocks(c) ELSE c.active) - c.phase

(* next_transition: clocks to the next load or change of OUT, 0 if none. *)
NextTransition(c) ==
  IF c.mode = 0 \/ ~c.gate THEN 0
  ELSE IF c.loading THEN 1
  ELSE IF c.active = 0 THEN 0
  ELSE (IF c.phase < HighClocks(c) THEN HighClocks(c) ELSE c.active) - c.phase

(* "At most an initial load, a falling edge, then a rising edge." *)
MaxTransitions == 3

(* next_rising_edge: clocks to the next rise of OUT, 0 if it never rises.  *)
NextRisingEdge(c) ==
  LET state[k \in 0..MaxTransitions] ==
        IF k = 0 THEN [counter |-> c, clocks |-> 0]
        ELSE LET s == state[k - 1]
                 until == NextTransition(s.counter)
             IN  [counter |-> Advance(s.counter, until).counter,
                  clocks |-> s.clocks + until]
      Rises(k) == ~Output(state[k - 1].counter) /\ Output(state[k].counter)
      rises == {k \in 1..MaxTransitions : Rises(k)}
  IN  IF rises = {} THEN 0
      ELSE state[CHOOSE k \in rises : \A j \in rises : k <= j].clocks

-----------------------------------------------------------------------------
(* The crate README's account of a single clock, to compare with. *)

OneClock(c) ==
  LET next == c.phase + 1
      ends == next = c.active
      half == c.mode = 3 /\ next = HighClocks(c)
      new == Loaded(c)
  IN  CASE c.loading -> [new EXCEPT !.phase = 0, !.loading = FALSE]
        [] ~c.loading /\ ~Running(c) -> c
        [] ~c.loading /\ Running(c) /\ c.null /\ (ends \/ half) ->
             [new EXCEPT !.phase = IF ends THEN 0 ELSE HighClocks(new)]
        [] OTHER -> [c EXCEPT !.phase = IF ends THEN 0 ELSE next]

(* The counter before the first of n clocks, and after each of them. *)
History(c, n) ==
  LET past[k \in 0..n] ==
        IF k = 0 THEN <<c>>
        ELSE LET before == past[k - 1] IN Append(before, OneClock(before[k]))
  IN  past[n]

(* OUT rises at the k-th clock of a history. *)
RisesAt(past, k) == ~Output(past[k]) /\ Output(past[k + 1])

(* How many of its first n clocks found OUT high. *)
HighTime(past, n) == Cardinality({k \in 1..n : Output(past[k])})

-----------------------------------------------------------------------------
(* The input clock (clock.rs): hz ticks per ns units of time.              *)
ClocksAt(hz, ns, time) == (time * hz) \div ns

(* Mutant: deadlines round down. *)
TimeAtFloor(hz, ns, clocks) == (clocks \div hz) * ns + ((clocks % hz) * ns) \div hz

(* The earliest time at or after a clock, from its absolute index.         *)
TimeAt(hz, ns, clocks) ==
  (clocks \div hz) * ns + ((clocks % hz) * ns + hz - 1) \div hz

(* Mutant: the part of the first clock already played is counted again. *)
SampleTwice(c, fraction, hz, rate) ==
  LET span == fraction + hz
      end == Advance(c, span \div rate)
  IN  [counter |-> end.counter,
       integral |-> end.high * rate + (span % rate) * Bit(Output(end.counter)),
       fraction |-> span % rate]

(* Audio::buffer: one sample of the speaker, as its integral in units of   *)
(* 1/rate clock, and the fraction of a clock carried to the next one.      *)
Sample(c, fraction, hz, rate) ==
  LET span == fraction + hz
      end == Advance(c, span \div rate)
  IN  [counter |-> end.counter,
       integral |-> end.high * rate + (span % rate) * Bit(Output(end.counter))
                      - fraction * Bit(Output(c)),
       fraction |-> span % rate]

-----------------------------------------------------------------------------
CONSTANTS
  Programmed,  \* the channels the guest programs, out of 0 and 2
  Readable,    \* the channels it reads and latches
  ReadBacks,   \* what it latches with the read-back command: "count", "status"
  WriteBytes,  \* the bytes it writes to their count registers
  Formats,     \* the access formats it selects, NoAccess for a latch command
  MaxLag,      \* bound on the clocks between two synchronizations
  Horizon      \* clocks over which counters are compared with the reference

Channels == {0, 2}

PitAssumption ==
  /\ Programmed \subseteq Channels /\ Readable \subseteq Channels
  /\ ReadBacks \subseteq SUBSET {"count", "status"}
  /\ WriteBytes \subseteq Bytes /\ Formats \subseteq 0..3
  /\ MaxLag \in Nat /\ Horizon \in Nat

VARIABLES
  counters,  \* channel0 and channel2, as of the last synchronization
  lag,       \* clocks since then: clocks_at(now) - clocks_at(at)
  task,      \* the activity: "start", "waiting", or "yielding"
  due,       \* clocks left to the deadline it waits for, or None
  notified,  \* its listener on changed has been notified
  line,      \* the level of the IRQ0 input
  edge,      \* the edge the PIC has latched on it
  update,    \* channel2_update holds a counter not yet taken
  control,   \* the speaker's control bits
  playing    \* the counter last put there, aged with the machine clock

vars == <<counters, lag, task, due, notified, line, edge, update, control, playing>>

activity == <<task, due, notified>>
irq == <<line, edge>>
speaker == <<update, control, playing>>

(* with_clock: BIOS mode 3 with the largest divisor, already loaded.  The  *)
(* line is connected at OUT0's level without an edge.                      *)
BiosCounter ==
  LET programmed == Control(SetGate(DefaultCounter, TRUE), 3, BothBytes)
  IN  Advance(Write(Write(programmed, 0), 0), 1).counter

Init ==
  /\ counters = [ch \in Channels |-> IF ch = 0 THEN BiosCounter ELSE DefaultCounter]
  /\ lag = 0
  /\ task = "start" /\ due = None /\ notified = FALSE
  /\ line = Output(BiosCounter) /\ edge = FALSE
  /\ update = FALSE /\ control = [gate |-> FALSE, data |-> FALSE]
  /\ playing = DefaultCounter

-----------------------------------------------------------------------------
(* sync_to_clock: both counters catch up with the clock. *)

Now(ch) == Advance(counters[ch], lag).counter
Synced == [ch \in Channels |-> Now(ch)]

(* Mutant: an edge the window has left behind is not preserved. *)
PulsesAtEnd == ~Output(counters[0]) /\ Output(Now(0))

(* A rising edge anywhere in the window is worth one pulse. *)
Pulses == LET rise == NextRisingEdge(counters[0]) IN rise # 0 /\ rise <= lag

(* The line ends at level after the synchronization and what follows it.   *)
(* The PIC latches a pulse, and a rise of the line.                        *)
DriveIrq(before, level) ==
  /\ line' = level
  /\ edge' = (edge \/ Pulses \/ (~line /\ before) \/ (~before /\ level))

(* Synchronize, then leave the counters at after. *)
SyncTo(after) ==
  /\ counters' = after
  /\ lag' = 0
  /\ DriveIrq(Output(Now(0)), Output(after[0]))

Sync == SyncTo(Synced)

(* What of a counter can be heard: all but its read latches. *)
Sound(c) == [c EXCEPT !.readHigh = FALSE, !.count = None, !.status = None]

(* What playback of the last update would have reached by now. *)
PlayOn == playing' = Advance(playing, lag).counter

-----------------------------------------------------------------------------
(* The guest's ports. *)

Reprogrammed == notified' = (notified \/ task = "waiting")

(* Mutant: a new count does not end the activity's wait. *)
ChangedSilently(ch, counter) ==
  /\ SyncTo([Synced EXCEPT ![ch] = counter])
  /\ IF ch = 0 THEN PlayOn /\ UNCHANGED update
               ELSE update' = TRUE /\ playing' = Sound(counter)
  /\ UNCHANGED <<activity, control>>

(* A write that changed channel ch: channel 0 notifies the activity,       *)
(* channel 2 is captured for playback.                                     *)
Changed(ch, counter) ==
  /\ SyncTo([Synced EXCEPT ![ch] = counter])
  /\ IF ch = 0 THEN Reprogrammed /\ PlayOn /\ UNCHANGED update
               ELSE update' = TRUE /\ playing' = Sound(counter) /\ UNCHANGED notified
  /\ UNCHANGED <<task, due, control>>

(* An access that leaves the oscillators alone. *)
Observed(ch, counter) ==
  /\ SyncTo([Synced EXCEPT ![ch] = counter])
  /\ PlayOn
  /\ UNCHANGED <<activity, update, control>>

WriteControl(ch, mode, access) ==
  LET counter == Control(Now(ch), mode, access)
  IN  IF access = NoAccess THEN Observed(ch, counter) ELSE Changed(ch, counter)

(* The count register; a first byte of two is a change as well. *)
WriteCount(ch, byte) == Changed(ch, Write(Now(ch), byte))

ReadCount(ch) == Observed(ch, Read(Now(ch)))

(* The read-back command latches the selected channels at one time. *)
ReadBack(selected, count, status) ==
  /\ SyncTo([ch \in Channels |->
               IF ch \in selected THEN Latch(Now(ch), count, status) ELSE Now(ch)])
  /\ PlayOn
  /\ UNCHANGED <<activity, update, control>>

(* Mutant: a change of the gate is not captured for playback. *)
WriteSpeakerUncaptured(gate, data) ==
  /\ control # [gate |-> gate, data |-> data]
  /\ control' = [gate |-> gate, data |-> data]
  /\ SyncTo([Synced EXCEPT ![2] = SetGate(Now(2), gate)])
  /\ PlayOn
  /\ UNCHANGED <<activity, update>>

(* Speaker::write_port: a changed control sets channel 2's gate. *)
WriteSpeaker(gate, data) ==
  LET counter == SetGate(Now(2), gate)
  IN  /\ control # [gate |-> gate, data |-> data]
      /\ control' = [gate |-> gate, data |-> data]
      /\ SyncTo([Synced EXCEPT ![2] = counter])
      /\ update' = TRUE /\ playing' = Sound(counter)
      /\ UNCHANGED activity

(* Speaker::read_port: channel2_output synchronizes. *)
ReadSpeaker == Observed(2, Now(2))

(* The playback activity takes the latest update. *)
TakeUpdate ==
  /\ update /\ update' = FALSE
  /\ UNCHANGED <<counters, lag, activity, irq, control, playing>>

-----------------------------------------------------------------------------
(* The activity (Device::run) and the world around it. *)

(* Mutant: a deadline that has passed is not waited for. *)
NextDueFuture ==
  LET until == NextTransition(counters[0])
  IN  IF until > lag THEN until - lag ELSE None

(* The deadline of the next wait, from the state at the last               *)
(* synchronization; it may be overdue already.                             *)
NextDue ==
  LET until == NextTransition(counters[0])
  IN  IF until = 0 THEN None ELSE IF until > lag THEN until - lag ELSE 0

(* run synchronizes once and enters its loop. *)
Start ==
  /\ task = "start"
  /\ Sync /\ PlayOn
  /\ task' = "yielding"
  /\ UNCHANGED <<due, notified, update, control>>

Wait ==
  /\ task = "yielding"
  /\ task' = "waiting" /\ due' = NextDue /\ notified' = FALSE
  /\ UNCHANGED <<counters, lag, irq, speaker>>

Resume ==
  /\ task = "waiting" /\ (due = 0 \/ notified)
  /\ Sync /\ PlayOn
  /\ task' = "yielding" /\ due' = None /\ notified' = FALSE
  /\ UNCHANGED <<update, control>>

Elapse ==
  /\ lag < MaxLag
  /\ lag' = lag + 1
  /\ due' = IF due = None \/ due = 0 THEN due ELSE due - 1
  /\ UNCHANGED <<counters, task, notified, irq, speaker>>

(* The CPU acknowledges IRQ0. *)
Acknowledge ==
  /\ edge /\ edge' = FALSE
  /\ UNCHANGED <<counters, lag, activity, line, speaker>>

Program ==
  \/ \E ch \in Programmed, mode \in Modes, access \in Formats :
       WriteControl(ch, mode, access)
  \/ \E ch \in Programmed, byte \in WriteBytes : WriteCount(ch, byte)

Next ==
  \/ Program
  \/ \E ch \in Readable : ReadCount(ch)
  \/ \E selected \in SUBSET Readable, what \in ReadBacks :
       ReadBack(selected, "count" \in what, "status" \in what)
  \/ 2 \in Programmed /\ \E gate, data \in BOOLEAN : WriteSpeaker(gate, data)
  \/ 2 \in Programmed /\ (ReadSpeaker \/ TakeUpdate)
  \/ Start \/ Wait \/ Resume
  \/ Elapse \/ Acknowledge

Spec == Init /\ [][Next]_vars

(* Time passes and the execution owner polls its activity.  Within Spec    *)
(* only Resume and Wait change task so, and only Elapse moves lag up.      *)
Ready == task = "start" \/ (task = "waiting" /\ (due = 0 \/ notified))

Fairness ==
  /\ WF_task(Ready /\ task' = "yielding")
  /\ WF_task(task = "yielding" /\ task' = "waiting")
  /\ WF_lag(lag < MaxLag /\ lag' = lag + 1)

FairSpec == Spec /\ Fairness

-----------------------------------------------------------------------------
(* Type invariant; a counter's phase stays inside its period, which the    *)
(* code's unsigned subtractions rely on.                                   *)
TypeOK ==
  /\ counters \in [Channels -> Counters]
  /\ \A ch \in Channels : LET c == counters[ch]
                          IN  IF c.active = 0 THEN c.phase = 0 ELSE c.phase < c.active
  /\ lag \in 0..MaxLag
  /\ task \in {"start", "waiting", "yielding"}
  /\ due \in Nat \cup {None} /\ notified \in BOOLEAN
  /\ line \in BOOLEAN /\ edge \in BOOLEAN
  /\ update \in BOOLEAN /\ control \in [gate : BOOLEAN, data : BOOLEAN]
  /\ playing \in Counters

(* However a counter was programmed, advance in closed form is the same as *)
(* so many single clocks, in the state it reaches and in the time it finds *)
(* OUT high.  A counter changes only when it is synchronized, at lag 0, so *)
(* this is every counter the device ever holds.                            *)
AdvanceIsExact ==
  lag = 0 => \A ch \in Programmed :
    LET past == History(counters[ch], Horizon)
    IN  \A n \in 0..Horizon :
          Advance(counters[ch], n) = [counter |-> past[n + 1], high |-> HighTime(past, n)]

(* next_rising_edge finds the first rise of OUT, with its three steps, from *)
(* every counter the device ever holds.                                     *)
RisingEdgeIsExact ==
  lag = 0 =>
  LET past == History(counters[0], Horizon)
      rises == {k \in 1..Horizon : RisesAt(past, k)}
      found == NextRisingEdge(counters[0])
  IN  IF rises = {} THEN found = 0
      ELSE found \in rises /\ \A k \in rises : found <= k

(* While it waits the activity's deadline is never after OUT's next rise,  *)
(* however the guest reprograms the channel meanwhile.                     *)
SleepsNoLonger ==
  task = "waiting" /\ ~notified =>
    LET past == History(counters[0], Horizon)
    IN  \A k \in 1..Horizon :
          RisesAt(past, k) => due # None /\ due <= (IF k > lag THEN k - lag ELSE 0)

(* The line the PIC sees is OUT0 as of the last synchronization, and a     *)
(* wake-up raises an edge at the PIC exactly when OUT rose since then: late *)
(* ones keep the edge, obsolete ones make none.                            *)
EdgesAreReal ==
  [][ /\ line' = Output(counters'[0])
      /\ task = "waiting" /\ task' = "yielding" =>
           LET past == History(counters[0], lag)
           IN  edge' = (edge \/ \E k \in 1..lag : RisesAt(past, k)) ]_vars

(* Playback's copy of channel 2 and the channel itself agree: everything   *)
(* that changes the sound is captured, and reads and latches are not.      *)
PlaybackIsCurrent == playing = Sound(counters[2])

(* A running channel 0 interrupts again and again, unless the guest keeps  *)
(* giving it new counts.                                                   *)
TimerKeepsTicking ==
  []<>edge \/ []<>~Running(counters[0]) \/ []<>counters[0].null
=============================================================================
