----------------------------- MODULE MCDevices ------------------------------
(***************************************************************************)
(* The interrupt controller and the interval timer, one to a behaviour:    *)
(* the controller with two of its eight inputs and every command; channel  *)
(* 0 and the activity that sleeps on it; channel 2 and the speaker.  scene *)
(* says which; the others have ended.                                      *)
(***************************************************************************)
EXTENDS Pic

CONSTANT None

AllIcw1s == [level : BOOLEAN, single : BOOLEAN, icw4 : BOOLEAN]
AllOcw2s ==
  {v \in [eoi : BOOLEAN, specific : BOOLEAN, rotate : BOOLEAN, irq : Irqs] :
     v.specific \/ v.irq = 0}
MaskOcw3s == [select : {FALSE}, inService : {FALSE}, change : BOOLEAN,
              special : BOOLEAN, poll : BOOLEAN]
AllBytes == SUBSET Irqs

VARIABLES
  scene,
  counters, lag, task, due, notified, line, edge, update, control, playing

pitVars == <<counters, lag, task, due, notified, line, edge, update, control, playing>>

(* Counts of one or two bytes in base 2: a timer's counts are 1 to 4.      *)
Timer == INSTANCE Pit WITH
  Base <- 2, Programmed <- {0}, Readable <- {}, ReadBacks <- {}, WriteBytes <- {0, 1},
  Formats <- {0, 1, 3}, MaxLag <- 3, Horizon <- 8

Speaker == INSTANCE Pit WITH
  Base <- 2, Programmed <- {2}, Readable <- {2}, ReadBacks <- {{"status"}}, WriteBytes <- {0},
  Formats <- {1}, MaxLag <- 1, Horizon <- 3

ASSUME Timer!BaseAssumption /\ Timer!PitAssumption /\ Speaker!PitAssumption

(* A timer whose activity waits for no transition and whose time is up.    *)
TimerRests ==
  /\ counters = [ch \in Timer!Channels |-> Timer!DefaultCounter] /\ lag = 3
  /\ task = "waiting" /\ due = None /\ notified = FALSE /\ line = FALSE /\ edge = FALSE
  /\ update = FALSE /\ control = [gate |-> FALSE, data |-> FALSE]
  /\ playing = Timer!DefaultCounter

MCInit ==
  /\ scene \in {"pic", "timer", "speaker"}
  /\ Init
  /\ CASE scene = "pic" -> TimerRests
       [] scene = "timer" -> Timer!Init
       [] scene = "speaker" -> Speaker!Init

MCNext ==
  /\ \/ scene = "pic" /\ Next /\ UNCHANGED pitVars
     \/ scene = "timer" /\ Timer!Next /\ UNCHANGED vars
     \/ scene = "speaker" /\ Speaker!Next /\ UNCHANGED vars
  /\ UNCHANGED scene

MCSpec == MCInit /\ [][MCNext]_<<scene, vars, pitVars>> /\ Timer!Fairness

(* Two input clocks that do not divide each other, as 1,193,182 Hz and     *)
(* nanoseconds do not.                                                     *)
Hz == 7
Ns == 19

(* Deadlines in time round up to the clock they stand for, and no further, *)
(* from wherever the wait starts: at TimeAt(k) clock k has just completed, *)
(* one unit earlier it has not.                                            *)
DeadlinesAreExact ==
  \A until \in 1..(3 * Hz) :
    LET k == lag + until
    IN  /\ Timer!ClocksAt(Hz, Ns, Timer!TimeAt(Hz, Ns, k)) = k
        /\ Timer!ClocksAt(Hz, Ns, Timer!TimeAt(Hz, Ns, k) - 1) < k

(* A speaker sample is never negative and never louder than full scale,    *)
(* whatever fraction of a clock the last one left over, for sample rates   *)
(* below and above the input clock.                                        *)
SamplesAreBounded ==
  \A rate \in {3, Hz + 4} : \A fraction \in 0..(rate - 1) :
    LET sample == Timer!Sample(counters[0], fraction, Hz, rate)
    IN  sample.integral \in 0..Hz /\ sample.fraction < rate

(* The closed forms of a counter are exact, from every counter the device  *)
(* ever holds: advance and next_rising_edge agree with single clocks, wait *)
(* deadlines with the input clock, samples stay in range; the activity     *)
(* never sleeps past OUT's next rise, and playback's copy of channel 2     *)
(* agrees with the channel, however the guest reprograms them (Pit).       *)
TimerIsExact ==
  /\ scene = "timer" =>
      /\ Timer!AdvanceIsExact /\ Timer!RisingEdgeIsExact
      /\ DeadlinesAreExact /\ SamplesAreBounded /\ Timer!SleepsNoLonger
  /\ scene = "speaker" => Speaker!PlaybackIsCurrent

(* The PIC sees an edge exactly when OUT rose.                             *)
EdgesAreReal == Timer!EdgesAreReal

(* A running channel 0 interrupts again and again, unless the guest keeps  *)
(* giving it new counts.                                                   *)
TimerKeepsTicking == Timer!TimerKeepsTicking
=============================================================================
