--------------------------- MODULE ExecutorProofs ---------------------------
(***************************************************************************)
(* The safety properties of Executor, proved for every order of children   *)
(* and every number of root wakes a yield may cause.                       *)
(***************************************************************************)
EXTENDS Executor, TLAPS

(* The part of a loop iteration between the poll of stop and the next      *)
(* reset of runnable.                                                      *)
Settling == {"ack", "check", "finish", "idle", "register", "recheck", "asleep"}
InIteration == {"poll", "guest", "yield"} \cup Settling

Visited == {Order[i] : i \in 1..(at - 1)}

(* The sources this iteration has polled.                                  *)
Polled == IF pc \in InIteration /\ ~ready THEN {Stop} \cup Visited ELSE {}

(* Where the owner is agrees with its other variables.                     *)
Control ==
  /\ ready => pc \in {"ack", "check", "finish"}
  /\ pc \in Settling /\ ~ready => at = Len(Order) + 1
  /\ pc \in {"poll", "guest", "yield"} => at <= Len(Order)
  /\ pc \in {"guest", "yield"} => Order[at] = Cpu
  /\ pc = "guest" => cpu # "new"
  /\ yielding => pc = "yield"

(* A source polled in this run still holds the waker, or its event has     *)
(* taken it.                                                               *)
Registration ==
  /\ Polled \subseteq seen
  /\ seen \ {Cpu} \subseteq registered \cup work
  /\ pc = "guest" => Cpu \in registered \cup work
  /\ Cpu \in Polled /\ cpu = "waiting" => Cpu \in registered \cup work
  /\ pc = "yield" => Cpu \in seen
  /\ pc = "guest" => seen = Sources
  /\ pc # "returned" /\ ~ready /\ cpu # "new" /\ Cpu \notin Polled
       /\ pc # "yield" => seen = Sources

(* An event that came after its source's poll will be polled again.        *)
Repoll ==
  /\ \A s \in (work \cap Polled) \ {Cpu} :
       runnable \/ wake[s] \in {"enter", "signal", "runnable"}
  /\ pc = "yield" => runnable \/ wake[Cpu] \in {"enter", "signal", "runnable"}
  /\ Cpu \in Polled /\ (cpu # "waiting" \/ Cpu \in work) =>
       runnable \/ wake[Cpu] \in {"enter", "signal", "runnable"}

(* A request the guest has not answered is recorded in the signal, or in   *)
(* notified until the signal is raised again.                              *)
Recorded ==
  /\ \A s \in (work \cap Polled) \ {Cpu} : notified \/ wake[s] = "enter"
  /\ \A s \in (work \cap seen) \ {Cpu} :
       \/ ready \/ pc = "returned" \/ interrupt
       \/ wake[s] \in {"enter", "signal"}
       \/ pc = "check" /\ notified
  /\ pc = "guest" /\ Cpu \in work =>
       interrupt \/ wake[Cpu] \in {"enter", "signal"}

Sleeping == pc \in {"recheck", "asleep"} => parked \/ outer

IInv ==
  /\ TypeOK /\ Control /\ Registration /\ Repoll /\ Recorded
  /\ Sleeping /\ ParkedOnlyIdle /\ NoLostWakeup

-----------------------------------------------------------------------------
(* The positions of Order hold its children. *)
LEMMA OrderFacts ==
  /\ Len(Order) \in Nat /\ Len(Order) > 0
  /\ \A i \in 1..Len(Order) : Order[i] \in Children
  /\ Cpu \in Sources /\ Stop \in Sources /\ Stop # Cpu
  /\ YieldWakes \in Nat /\ YieldWakes > 0
PROOF
<1>1. Len(Order) \in Nat  BY OrderAssumption
<1>2. PICK i \in 1..Len(Order) : Cpu = Order[i]  BY OrderAssumption DEF Children
<1> QED
  BY <1>1, <1>2, OrderAssumption, YieldWakesAssumption DEF Children, Sources

(* Every variable of the executor keeps its type, in every interleaving of *)
(* the owner with its producers; Control keeps the position inside Order.  *)
LEMMA TypeStep == TypeOK /\ Control /\ [Next]_vars => TypeOK' /\ Control'
PROOF
<1> SUFFICES ASSUME TypeOK, Control, [Next]_vars  PROVE TypeOK' /\ Control'
  OBVIOUS
<1> USE OrderFacts DEF TypeOK, OwnerSteps, WakeSteps
<1>1. TypeOK'
  <2> USE DEF Control
  <2>1. ASSUME NEW s \in Sources, WakeEnter(s)  PROVE TypeOK'
    BY <2>1 DEF WakeEnter, Suppressed
  <2>2. ASSUME NEW s \in Sources, WakeSignal(s)  PROVE TypeOK'
    BY <2>2 DEF WakeSignal, owner
  <2>3. ASSUME NEW s \in Sources, WakeRunnable(s)  PROVE TypeOK'
    BY <2>3 DEF WakeRunnable, owner
  <2>4. ASSUME NEW s \in Sources, WakeParked(s)  PROVE TypeOK'
    BY <2>4 DEF WakeParked, owner
  <2>5. ASSUME NEW s \in Sources, Fire(s)  PROVE TypeOK'
    BY <2>5 DEF Fire, Announce, flags, owner
  <2>6. CASE Start  BY <2>6 DEF Start, OwnerAt, flags
  <2>7. CASE ResetRunnable  BY <2>7 DEF ResetRunnable, OwnerAt
  <2>8. CASE ResetNotified  BY <2>8 DEF ResetNotified, OwnerAt
  <2>9. CASE PollStop  BY <2>9 DEF PollStop, OwnerAt, flags
  <2>10. ASSUME NEW d \in Devices, PollDevice(d)  PROVE TypeOK'
    BY <2>10 DEF PollDevice, NextChild, OwnerAt, flags, Devices, Sources
  <2>11. CASE PollNewCpu  BY <2>11 DEF PollNewCpu, EnterYield, OwnerAt, flags
  <2>12. CASE PollWaitingCpu  BY <2>12 DEF PollWaitingCpu, NextChild, OwnerAt, flags
  <2>13. CASE EnterGuest  BY <2>13 DEF EnterGuest, OwnerAt, flags
  <2>14. CASE GuestCheckpoint  BY <2>14 DEF GuestCheckpoint, EnterYield, OwnerAt, flags
  <2>15. CASE GuestRaise  BY <2>15 DEF GuestRaise, Announce, OwnerAt, flags, owner
  <2>16. CASE GuestWait  BY <2>16 DEF GuestWait, NextChild, OwnerAt, flags
  <2>17. CASE GuestExit  BY <2>17 DEF GuestExit, OwnerAt, flags
  <2>18. CASE YieldAgain  BY <2>18 DEF YieldAgain, OwnerAt, flags
  <2>19. CASE LeaveYield
    <3>1. at' \in 1..(Len(Order) + 1)  BY <2>19 DEF LeaveYield, NextChild, OwnerAt
    <3> QED  BY <3>1, <2>19 DEF LeaveYield, NextChild, OwnerAt, flags
  <2>20. CASE Acknowledge  BY <2>20 DEF Acknowledge, OwnerAt
  <2>21. CASE CheckNotified  BY <2>21 DEF CheckNotified, OwnerAt
  <2>22. CASE FinishPoll  BY <2>22 DEF FinishPoll, OwnerAt, flags
  <2>23. CASE CheckIdle  BY <2>23 DEF CheckIdle, OwnerAt, flags
  <2>24. CASE RegisterParked  BY <2>24 DEF RegisterParked, OwnerAt
  <2>25. CASE RecheckIdle  BY <2>25 DEF RecheckIdle, OwnerAt, flags
  <2>26. CASE PollOuter  BY <2>26 DEF PollOuter, OwnerAt, flags
  <2>27. CASE DropRegistration  BY <2>27 DEF DropRegistration, OwnerAt
  <2>28. CASE Cancel  BY <2>28 DEF Cancel, OwnerAt
  <2>29. CASE UNCHANGED vars  BY <2>29 DEF vars
  <2> QED
    BY <2>1, <2>2, <2>3, <2>4, <2>5, <2>6, <2>7, <2>8, <2>9, <2>10, <2>11,
       <2>12, <2>13, <2>14, <2>15, <2>16, <2>17, <2>18, <2>19, <2>20,
       <2>21, <2>22, <2>23, <2>24, <2>25, <2>26, <2>27, <2>28, <2>29
    DEF Next, OwnerStep, GuestStep, WakeStep
<1>2. Control'
  <2> USE DEF Control, Settling
  <2>1. ASSUME NEW s \in Sources, WakeEnter(s)  PROVE Control'
    BY <2>1 DEF WakeEnter, Suppressed
  <2>2. ASSUME NEW s \in Sources, WakeSignal(s)  PROVE Control'
    BY <2>2 DEF WakeSignal, owner
  <2>3. ASSUME NEW s \in Sources, WakeRunnable(s)  PROVE Control'
    BY <2>3 DEF WakeRunnable, owner
  <2>4. ASSUME NEW s \in Sources, WakeParked(s)  PROVE Control'
    BY <2>4 DEF WakeParked, owner
  <2>5. ASSUME NEW s \in Sources, Fire(s)  PROVE Control'
    BY <2>5 DEF Fire, Announce, flags, owner
  <2>6. CASE Start  BY <2>6 DEF Start, OwnerAt, flags
  <2>7. CASE ResetRunnable  BY <2>7 DEF ResetRunnable, OwnerAt
  <2>8. CASE ResetNotified  BY <2>8 DEF ResetNotified, OwnerAt
  <2>9. CASE PollStop  BY <2>9 DEF PollStop, OwnerAt, flags
  <2>10. ASSUME NEW d \in Devices, PollDevice(d)  PROVE Control'
    BY <2>10 DEF PollDevice, NextChild, OwnerAt, flags, Devices, Sources
  <2>11. CASE PollNewCpu  BY <2>11 DEF PollNewCpu, EnterYield, OwnerAt, flags
  <2>12. CASE PollWaitingCpu  BY <2>12 DEF PollWaitingCpu, NextChild, OwnerAt, flags
  <2>13. CASE EnterGuest  BY <2>13 DEF EnterGuest, OwnerAt, flags
  <2>14. CASE GuestCheckpoint  BY <2>14 DEF GuestCheckpoint, EnterYield, OwnerAt, flags
  <2>15. CASE GuestRaise  BY <2>15 DEF GuestRaise, Announce, OwnerAt, flags, owner
  <2>16. CASE GuestWait  BY <2>16 DEF GuestWait, NextChild, OwnerAt, flags
  <2>17. CASE GuestExit  BY <2>17 DEF GuestExit, OwnerAt, flags
  <2>18. CASE YieldAgain  BY <2>18 DEF YieldAgain, OwnerAt, flags
  <2>19. CASE LeaveYield  BY <2>19 DEF LeaveYield, NextChild, OwnerAt, flags
  <2>20. CASE Acknowledge  BY <2>20 DEF Acknowledge, OwnerAt
  <2>21. CASE CheckNotified  BY <2>21 DEF CheckNotified, OwnerAt
  <2>22. CASE FinishPoll  BY <2>22 DEF FinishPoll, OwnerAt, flags
  <2>23. CASE CheckIdle  BY <2>23 DEF CheckIdle, OwnerAt, flags
  <2>24. CASE RegisterParked  BY <2>24 DEF RegisterParked, OwnerAt
  <2>25. CASE RecheckIdle  BY <2>25 DEF RecheckIdle, OwnerAt, flags
  <2>26. CASE PollOuter  BY <2>26 DEF PollOuter, OwnerAt, flags
  <2>27. CASE DropRegistration  BY <2>27 DEF DropRegistration, OwnerAt
  <2>28. CASE Cancel  BY <2>28 DEF Cancel, OwnerAt
  <2>29. CASE UNCHANGED vars  BY <2>29 DEF vars
  <2> QED
    BY <2>1, <2>2, <2>3, <2>4, <2>5, <2>6, <2>7, <2>8, <2>9, <2>10, <2>11,
       <2>12, <2>13, <2>14, <2>15, <2>16, <2>17, <2>18, <2>19, <2>20,
       <2>21, <2>22, <2>23, <2>24, <2>25, <2>26, <2>27, <2>28, <2>29
    DEF Next, OwnerStep, GuestStep, WakeStep
<1> QED
  BY <1>1, <1>2

(* Once the poll is over, every source has been polled. *)
LEMMA SettledPolled ==
  ASSUME Control, pc \in Settling, ~ready  PROVE Polled = Sources
PROOF
<1>1. at - 1 = Len(Order)  BY OrderFacts DEF Control
<1> QED
  BY <1>1 DEF Polled, Visited, InIteration, Sources, Children

(* The child about to be polled has not been polled in this iteration. *)
LEMMA NotYetVisited ==
  ASSUME TypeOK, at <= Len(Order)  PROVE Order[at] \notin Visited
PROOF
  BY OrderFacts, OrderAssumption DEF TypeOK, Visited

(* Registration is preserved: a poll registers before it answers Pending. *)
LEMMA RegistrationStep ==
  IInv /\ [Next]_vars => Registration'
PROOF
<1> SUFFICES ASSUME IInv, [Next]_vars  PROVE Registration'
  OBVIOUS
<1> USE OrderFacts DEF TypeOK, OwnerSteps, WakeSteps, Control, Settling, InIteration, Registration, Polled, Visited
<1>1. TypeOK /\ Control /\ Registration
  BY DEF IInv
<1>2. ASSUME NEW s \in Sources, WakeEnter(s)  PROVE Registration'
  BY <1>1, <1>2 DEF WakeEnter, Suppressed
<1>3. ASSUME NEW s \in Sources, WakeSignal(s)  PROVE Registration'
  BY <1>1, <1>3 DEF WakeSignal, owner
<1>4. ASSUME NEW s \in Sources, WakeRunnable(s)  PROVE Registration'
  BY <1>1, <1>4 DEF WakeRunnable, owner
<1>5. ASSUME NEW s \in Sources, WakeParked(s)  PROVE Registration'
  BY <1>1, <1>5 DEF WakeParked, owner
<1>6. ASSUME NEW s \in Sources, Fire(s)  PROVE Registration'
  BY <1>1, <1>6 DEF Fire, Announce, flags, owner
<1>7. CASE Start  BY <1>1, <1>7 DEF Start, OwnerAt, flags
<1>8. CASE ResetRunnable  BY <1>1, <1>8 DEF ResetRunnable, OwnerAt
<1>9. CASE ResetNotified  BY <1>1, <1>9 DEF ResetNotified, OwnerAt
<1>10. CASE PollStop  BY <1>1, <1>10 DEF PollStop, OwnerAt, flags
<1>11. ASSUME NEW d \in Devices, PollDevice(d)  PROVE Registration'
  BY <1>1, <1>11 DEF PollDevice, NextChild, OwnerAt, flags, Devices, Sources
<1>12. CASE PollNewCpu  BY <1>1, <1>12 DEF PollNewCpu, EnterYield, OwnerAt, flags
<1>13. CASE PollWaitingCpu  BY <1>1, <1>13 DEF PollWaitingCpu, NextChild, OwnerAt, flags
<1>14. CASE EnterGuest
  <2>1. Cpu \notin Visited  BY <1>1, <1>14, NotYetVisited DEF EnterGuest, OwnerAt
  <2>2. seen = Sources  BY <1>1, <2>1, <1>14 DEF EnterGuest, OwnerAt
  <2> QED  BY <1>1, <2>1, <2>2, <1>14 DEF EnterGuest, OwnerAt, flags
<1>15. CASE GuestCheckpoint  BY <1>1, <1>15 DEF GuestCheckpoint, EnterYield, OwnerAt, flags
<1>16. CASE GuestRaise  BY <1>1, <1>16 DEF GuestRaise, Announce, OwnerAt, flags, owner
<1>17. CASE GuestWait  BY <1>1, <1>17 DEF GuestWait, NextChild, OwnerAt, flags
<1>18. CASE GuestExit  BY <1>1, <1>18 DEF GuestExit, OwnerAt, flags
<1>19. CASE YieldAgain  BY <1>1, <1>19 DEF YieldAgain, OwnerAt, flags
<1>20. CASE LeaveYield
  <2>1. Visited' = Visited \cup {Cpu}  BY <1>1, <1>20 DEF LeaveYield, NextChild, OwnerAt
  <2>2. Polled' \subseteq Polled \cup {Cpu}  BY <1>1, <2>1, <1>20 DEF LeaveYield, NextChild, OwnerAt
  <2>3. Cpu \in Visited'  BY <2>1
  <2> QED  BY <1>1, <2>2, <2>3, <1>20 DEF LeaveYield, NextChild, OwnerAt, flags
<1>21. CASE Acknowledge  BY <1>1, <1>21 DEF Acknowledge, OwnerAt
<1>22. CASE CheckNotified  BY <1>1, <1>22 DEF CheckNotified, OwnerAt
<1>23. CASE FinishPoll
  <2>1. CASE ~ready
    <3>1. Polled = Sources  BY <1>1, <2>1, <1>23, SettledPolled DEF FinishPoll, OwnerAt
    <3>2. Polled' \subseteq Polled  BY <1>1, <1>23 DEF FinishPoll, OwnerAt, flags
    <3>3. seen = Sources /\ seen' = seen  BY <1>1, <3>1, <1>23 DEF FinishPoll
    <3> QED  BY <1>1, <3>1, <3>2, <3>3, <1>23 DEF FinishPoll, OwnerAt, flags
  <2>2. CASE ready  BY <1>1, <2>2, <1>23 DEF FinishPoll, OwnerAt, flags
  <2> QED  BY <1>1, <2>1, <2>2
<1>24. CASE CheckIdle
  <2>1. CASE ~ready
    <3>1. Polled = Sources  BY <1>1, <2>1, <1>24, SettledPolled DEF CheckIdle, OwnerAt
    <3>2. Polled' \subseteq Polled  BY <1>1, <1>24 DEF CheckIdle, OwnerAt, flags
    <3>3. seen = Sources /\ seen' = seen  BY <1>1, <3>1, <1>24 DEF CheckIdle
    <3> QED  BY <1>1, <3>1, <3>2, <3>3, <1>24 DEF CheckIdle, OwnerAt, flags
  <2>2. CASE ready  BY <1>1, <2>2, <1>24 DEF CheckIdle, OwnerAt, flags
  <2> QED  BY <1>1, <2>1, <2>2
<1>25. CASE RegisterParked  BY <1>1, <1>25 DEF RegisterParked, OwnerAt
<1>26. CASE RecheckIdle
  <2>1. CASE ~ready
    <3>1. Polled = Sources  BY <1>1, <2>1, <1>26, SettledPolled DEF RecheckIdle, OwnerAt
    <3>2. Polled' \subseteq Polled  BY <1>1, <1>26 DEF RecheckIdle, OwnerAt, flags
    <3>3. seen = Sources /\ seen' = seen  BY <1>1, <3>1, <1>26 DEF RecheckIdle
    <3> QED  BY <1>1, <3>1, <3>2, <3>3, <1>26 DEF RecheckIdle, OwnerAt, flags
  <2>2. CASE ready  BY <1>1, <2>2, <1>26 DEF RecheckIdle, OwnerAt, flags
  <2> QED  BY <1>1, <2>1, <2>2
<1>27. CASE PollOuter  BY <1>1, <1>27 DEF PollOuter, OwnerAt, flags
<1>28. CASE DropRegistration  BY <1>1, <1>28 DEF DropRegistration, OwnerAt
<1>29. CASE Cancel  BY <1>1, <1>29 DEF Cancel, OwnerAt
<1>30. CASE UNCHANGED vars  BY <1>1, <1>30 DEF vars
<1> QED
  BY <1>2, <1>3, <1>4, <1>5, <1>6, <1>7, <1>8, <1>9, <1>10, <1>11,
     <1>12, <1>13, <1>14, <1>15, <1>16, <1>17, <1>18, <1>19, <1>20,
     <1>21, <1>22, <1>23, <1>24, <1>25, <1>26, <1>27, <1>28, <1>29,
     <1>30
  DEF Next, OwnerStep, GuestStep, WakeStep

(* Repoll is preserved: runnable is reset before the sources are polled. *)
LEMMA RepollStep ==
  IInv /\ [Next]_vars => Repoll'
PROOF
<1> SUFFICES ASSUME IInv, [Next]_vars  PROVE Repoll'
  OBVIOUS
<1> USE OrderFacts DEF TypeOK, OwnerSteps, WakeSteps, Control, Settling, InIteration, Registration, Repoll, Polled, Visited
<1>1. TypeOK /\ Control /\ Registration /\ Repoll
  BY DEF IInv
<1>2. ASSUME NEW s \in Sources, WakeEnter(s)  PROVE Repoll'
  BY <1>1, <1>2 DEF WakeEnter, Suppressed
<1>3. ASSUME NEW s \in Sources, WakeSignal(s)  PROVE Repoll'
  BY <1>1, <1>3 DEF WakeSignal, owner
<1>4. ASSUME NEW s \in Sources, WakeRunnable(s)  PROVE Repoll'
  BY <1>1, <1>4 DEF WakeRunnable, owner
<1>5. ASSUME NEW s \in Sources, WakeParked(s)  PROVE Repoll'
  BY <1>1, <1>5 DEF WakeParked, owner
<1>6. ASSUME NEW s \in Sources, Fire(s)  PROVE Repoll'
  BY <1>1, <1>6 DEF Fire, Announce, flags, owner
<1>7. CASE Start  BY <1>1, <1>7 DEF Start, OwnerAt, flags
<1>8. CASE ResetRunnable  BY <1>1, <1>8 DEF ResetRunnable, OwnerAt
<1>9. CASE ResetNotified  BY <1>1, <1>9 DEF ResetNotified, OwnerAt
<1>10. CASE PollStop  BY <1>1, <1>10 DEF PollStop, OwnerAt, flags
<1>11. ASSUME NEW d \in Devices, PollDevice(d)  PROVE Repoll'
  BY <1>1, <1>11 DEF PollDevice, NextChild, OwnerAt, flags, Devices, Sources
<1>12. CASE PollNewCpu  BY <1>1, <1>12 DEF PollNewCpu, EnterYield, OwnerAt, flags
<1>13. CASE PollWaitingCpu  BY <1>1, <1>13 DEF PollWaitingCpu, NextChild, OwnerAt, flags
<1>14. CASE EnterGuest  BY <1>1, <1>14 DEF EnterGuest, OwnerAt, flags
<1>15. CASE GuestCheckpoint  BY <1>1, <1>15 DEF GuestCheckpoint, EnterYield, OwnerAt, flags
<1>16. CASE GuestRaise  BY <1>1, <1>16 DEF GuestRaise, Announce, OwnerAt, flags, owner
<1>17. CASE GuestWait  BY <1>1, <1>17 DEF GuestWait, NextChild, OwnerAt, flags
<1>18. CASE GuestExit  BY <1>1, <1>18 DEF GuestExit, OwnerAt, flags
<1>19. CASE YieldAgain  BY <1>1, <1>19 DEF YieldAgain, OwnerAt, flags
<1>20. CASE LeaveYield  BY <1>1, <1>20 DEF LeaveYield, NextChild, OwnerAt, flags
<1>21. CASE Acknowledge  BY <1>1, <1>21 DEF Acknowledge, OwnerAt
<1>22. CASE CheckNotified  BY <1>1, <1>22 DEF CheckNotified, OwnerAt
<1>23. CASE FinishPoll  BY <1>1, <1>23 DEF FinishPoll, OwnerAt, flags
<1>24. CASE CheckIdle  BY <1>1, <1>24 DEF CheckIdle, OwnerAt, flags
<1>25. CASE RegisterParked  BY <1>1, <1>25 DEF RegisterParked, OwnerAt
<1>26. CASE RecheckIdle  BY <1>1, <1>26 DEF RecheckIdle, OwnerAt, flags
<1>27. CASE PollOuter  BY <1>1, <1>27 DEF PollOuter, OwnerAt, flags
<1>28. CASE DropRegistration  BY <1>1, <1>28 DEF DropRegistration, OwnerAt
<1>29. CASE Cancel  BY <1>1, <1>29 DEF Cancel, OwnerAt
<1>30. CASE UNCHANGED vars  BY <1>1, <1>30 DEF vars
<1> QED
  BY <1>2, <1>3, <1>4, <1>5, <1>6, <1>7, <1>8, <1>9, <1>10, <1>11,
     <1>12, <1>13, <1>14, <1>15, <1>16, <1>17, <1>18, <1>19, <1>20,
     <1>21, <1>22, <1>23, <1>24, <1>25, <1>26, <1>27, <1>28, <1>29,
     <1>30
  DEF Next, OwnerStep, GuestStep, WakeStep

(* Recorded is preserved: acknowledge() precedes the check of notified. *)
LEMMA RecordedStep ==
  IInv /\ [Next]_vars => Recorded'
PROOF
<1> SUFFICES ASSUME IInv, [Next]_vars  PROVE Recorded'
  OBVIOUS
<1> USE OrderFacts DEF TypeOK, OwnerSteps, WakeSteps, Control, Settling, InIteration, Registration, Recorded, Polled, Visited
<1>1. TypeOK /\ Control /\ Registration /\ Recorded
  BY DEF IInv
<1>2. ASSUME NEW s \in Sources, WakeEnter(s)  PROVE Recorded'
  BY <1>1, <1>2 DEF WakeEnter, Suppressed
<1>3. ASSUME NEW s \in Sources, WakeSignal(s)  PROVE Recorded'
  BY <1>1, <1>3 DEF WakeSignal, owner
<1>4. ASSUME NEW s \in Sources, WakeRunnable(s)  PROVE Recorded'
  BY <1>1, <1>4 DEF WakeRunnable, owner
<1>5. ASSUME NEW s \in Sources, WakeParked(s)  PROVE Recorded'
  BY <1>1, <1>5 DEF WakeParked, owner
<1>6. ASSUME NEW s \in Sources, Fire(s)  PROVE Recorded'
  BY <1>1, <1>6 DEF Fire, Announce, flags, owner
<1>7. CASE Start  BY <1>1, <1>7 DEF Start, OwnerAt, flags
<1>8. CASE ResetRunnable  BY <1>1, <1>8 DEF ResetRunnable, OwnerAt
<1>9. CASE ResetNotified  BY <1>1, <1>9 DEF ResetNotified, OwnerAt
<1>10. CASE PollStop  BY <1>1, <1>10 DEF PollStop, OwnerAt, flags
<1>11. ASSUME NEW d \in Devices, PollDevice(d)  PROVE Recorded'
  BY <1>1, <1>11 DEF PollDevice, NextChild, OwnerAt, flags, Devices, Sources
<1>12. CASE PollNewCpu  BY <1>1, <1>12 DEF PollNewCpu, EnterYield, OwnerAt, flags
<1>13. CASE PollWaitingCpu  BY <1>1, <1>13 DEF PollWaitingCpu, NextChild, OwnerAt, flags
<1>14. CASE EnterGuest  BY <1>1, <1>14 DEF EnterGuest, OwnerAt, flags
<1>15. CASE GuestCheckpoint  BY <1>1, <1>15 DEF GuestCheckpoint, EnterYield, OwnerAt, flags
<1>16. CASE GuestRaise  BY <1>1, <1>16 DEF GuestRaise, Announce, OwnerAt, flags, owner
<1>17. CASE GuestWait  BY <1>1, <1>17 DEF GuestWait, NextChild, OwnerAt, flags
<1>18. CASE GuestExit  BY <1>1, <1>18 DEF GuestExit, OwnerAt, flags
<1>19. CASE YieldAgain  BY <1>1, <1>19 DEF YieldAgain, OwnerAt, flags
<1>20. CASE LeaveYield  BY <1>1, <1>20 DEF LeaveYield, NextChild, OwnerAt, flags
<1>21. CASE Acknowledge
  <2>1. CASE ~ready
    <3>1. Polled = Sources  BY <1>1, <2>1, <1>21, SettledPolled DEF Acknowledge, OwnerAt
    <3>2. Polled' = Polled  BY <1>1, <1>21 DEF Acknowledge, OwnerAt
    <3> QED  BY <1>1, <3>1, <3>2, <1>21 DEF Acknowledge, OwnerAt
  <2>2. CASE ready  BY <1>1, <2>2, <1>21 DEF Acknowledge, OwnerAt
  <2> QED  BY <1>1, <2>1, <2>2
<1>22. CASE CheckNotified  BY <1>1, <1>22 DEF CheckNotified, OwnerAt
<1>23. CASE FinishPoll  BY <1>1, <1>23 DEF FinishPoll, OwnerAt, flags
<1>24. CASE CheckIdle  BY <1>1, <1>24 DEF CheckIdle, OwnerAt, flags
<1>25. CASE RegisterParked  BY <1>1, <1>25 DEF RegisterParked, OwnerAt
<1>26. CASE RecheckIdle  BY <1>1, <1>26 DEF RecheckIdle, OwnerAt, flags
<1>27. CASE PollOuter  BY <1>1, <1>27 DEF PollOuter, OwnerAt, flags
<1>28. CASE DropRegistration  BY <1>1, <1>28 DEF DropRegistration, OwnerAt
<1>29. CASE Cancel  BY <1>1, <1>29 DEF Cancel, OwnerAt
<1>30. CASE UNCHANGED vars  BY <1>1, <1>30 DEF vars
<1> QED
  BY <1>2, <1>3, <1>4, <1>5, <1>6, <1>7, <1>8, <1>9, <1>10, <1>11,
     <1>12, <1>13, <1>14, <1>15, <1>16, <1>17, <1>18, <1>19, <1>20,
     <1>21, <1>22, <1>23, <1>24, <1>25, <1>26, <1>27, <1>28, <1>29,
     <1>30
  DEF Next, OwnerStep, GuestStep, WakeStep

(* Sleeping is preserved: a wake that takes the outer waker wakes it. *)
LEMMA SleepingStep ==
  IInv /\ [Next]_vars => Sleeping'
PROOF
<1> SUFFICES ASSUME IInv, [Next]_vars  PROVE Sleeping'
  OBVIOUS
<1> USE OrderFacts DEF TypeOK, OwnerSteps, WakeSteps, Control, Settling, Sleeping
<1>1. TypeOK /\ Control /\ Sleeping
  BY DEF IInv
<1>2. ASSUME NEW s \in Sources, WakeEnter(s)  PROVE Sleeping'
  BY <1>1, <1>2 DEF WakeEnter, Suppressed
<1>3. ASSUME NEW s \in Sources, WakeSignal(s)  PROVE Sleeping'
  BY <1>1, <1>3 DEF WakeSignal, owner
<1>4. ASSUME NEW s \in Sources, WakeRunnable(s)  PROVE Sleeping'
  BY <1>1, <1>4 DEF WakeRunnable, owner
<1>5. ASSUME NEW s \in Sources, WakeParked(s)  PROVE Sleeping'
  BY <1>1, <1>5 DEF WakeParked, owner
<1>6. ASSUME NEW s \in Sources, Fire(s)  PROVE Sleeping'
  BY <1>1, <1>6 DEF Fire, Announce, flags, owner
<1>7. CASE Start  BY <1>1, <1>7 DEF Start, OwnerAt, flags
<1>8. CASE ResetRunnable  BY <1>1, <1>8 DEF ResetRunnable, OwnerAt
<1>9. CASE ResetNotified  BY <1>1, <1>9 DEF ResetNotified, OwnerAt
<1>10. CASE PollStop  BY <1>1, <1>10 DEF PollStop, OwnerAt, flags
<1>11. ASSUME NEW d \in Devices, PollDevice(d)  PROVE Sleeping'
  BY <1>1, <1>11 DEF PollDevice, NextChild, OwnerAt, flags, Devices, Sources
<1>12. CASE PollNewCpu  BY <1>1, <1>12 DEF PollNewCpu, EnterYield, OwnerAt, flags
<1>13. CASE PollWaitingCpu  BY <1>1, <1>13 DEF PollWaitingCpu, NextChild, OwnerAt, flags
<1>14. CASE EnterGuest  BY <1>1, <1>14 DEF EnterGuest, OwnerAt, flags
<1>15. CASE GuestCheckpoint  BY <1>1, <1>15 DEF GuestCheckpoint, EnterYield, OwnerAt, flags
<1>16. CASE GuestRaise  BY <1>1, <1>16 DEF GuestRaise, Announce, OwnerAt, flags, owner
<1>17. CASE GuestWait  BY <1>1, <1>17 DEF GuestWait, NextChild, OwnerAt, flags
<1>18. CASE GuestExit  BY <1>1, <1>18 DEF GuestExit, OwnerAt, flags
<1>19. CASE YieldAgain  BY <1>1, <1>19 DEF YieldAgain, OwnerAt, flags
<1>20. CASE LeaveYield  BY <1>1, <1>20 DEF LeaveYield, NextChild, OwnerAt, flags
<1>21. CASE Acknowledge  BY <1>1, <1>21 DEF Acknowledge, OwnerAt
<1>22. CASE CheckNotified  BY <1>1, <1>22 DEF CheckNotified, OwnerAt
<1>23. CASE FinishPoll  BY <1>1, <1>23 DEF FinishPoll, OwnerAt, flags
<1>24. CASE CheckIdle  BY <1>1, <1>24 DEF CheckIdle, OwnerAt, flags
<1>25. CASE RegisterParked  BY <1>1, <1>25 DEF RegisterParked, OwnerAt
<1>26. CASE RecheckIdle  BY <1>1, <1>26 DEF RecheckIdle, OwnerAt, flags
<1>27. CASE PollOuter  BY <1>1, <1>27 DEF PollOuter, OwnerAt, flags
<1>28. CASE DropRegistration  BY <1>1, <1>28 DEF DropRegistration, OwnerAt
<1>29. CASE Cancel  BY <1>1, <1>29 DEF Cancel, OwnerAt
<1>30. CASE UNCHANGED vars  BY <1>1, <1>30 DEF vars
<1> QED
  BY <1>2, <1>3, <1>4, <1>5, <1>6, <1>7, <1>8, <1>9, <1>10, <1>11,
     <1>12, <1>13, <1>14, <1>15, <1>16, <1>17, <1>18, <1>19, <1>20,
     <1>21, <1>22, <1>23, <1>24, <1>25, <1>26, <1>27, <1>28, <1>29,
     <1>30
  DEF Next, OwnerStep, GuestStep, WakeStep

(* ParkedOnlyIdle is preserved: ParkRegistration is dropped on every exit. *)
LEMMA ParkedOnlyIdleStep ==
  IInv /\ [Next]_vars => ParkedOnlyIdle'
PROOF
<1> SUFFICES ASSUME IInv, [Next]_vars  PROVE ParkedOnlyIdle'
  OBVIOUS
<1> USE OrderFacts DEF TypeOK, OwnerSteps, WakeSteps, Control, ParkedOnlyIdle
<1>1. TypeOK /\ Control /\ ParkedOnlyIdle
  BY DEF IInv
<1>2. ASSUME NEW s \in Sources, WakeEnter(s)  PROVE ParkedOnlyIdle'
  BY <1>1, <1>2 DEF WakeEnter, Suppressed
<1>3. ASSUME NEW s \in Sources, WakeSignal(s)  PROVE ParkedOnlyIdle'
  BY <1>1, <1>3 DEF WakeSignal, owner
<1>4. ASSUME NEW s \in Sources, WakeRunnable(s)  PROVE ParkedOnlyIdle'
  BY <1>1, <1>4 DEF WakeRunnable, owner
<1>5. ASSUME NEW s \in Sources, WakeParked(s)  PROVE ParkedOnlyIdle'
  BY <1>1, <1>5 DEF WakeParked, owner
<1>6. ASSUME NEW s \in Sources, Fire(s)  PROVE ParkedOnlyIdle'
  BY <1>1, <1>6 DEF Fire, Announce, flags, owner
<1>7. CASE Start  BY <1>1, <1>7 DEF Start, OwnerAt, flags
<1>8. CASE ResetRunnable  BY <1>1, <1>8 DEF ResetRunnable, OwnerAt
<1>9. CASE ResetNotified  BY <1>1, <1>9 DEF ResetNotified, OwnerAt
<1>10. CASE PollStop  BY <1>1, <1>10 DEF PollStop, OwnerAt, flags
<1>11. ASSUME NEW d \in Devices, PollDevice(d)  PROVE ParkedOnlyIdle'
  BY <1>1, <1>11 DEF PollDevice, NextChild, OwnerAt, flags, Devices, Sources
<1>12. CASE PollNewCpu  BY <1>1, <1>12 DEF PollNewCpu, EnterYield, OwnerAt, flags
<1>13. CASE PollWaitingCpu  BY <1>1, <1>13 DEF PollWaitingCpu, NextChild, OwnerAt, flags
<1>14. CASE EnterGuest  BY <1>1, <1>14 DEF EnterGuest, OwnerAt, flags
<1>15. CASE GuestCheckpoint  BY <1>1, <1>15 DEF GuestCheckpoint, EnterYield, OwnerAt, flags
<1>16. CASE GuestRaise  BY <1>1, <1>16 DEF GuestRaise, Announce, OwnerAt, flags, owner
<1>17. CASE GuestWait  BY <1>1, <1>17 DEF GuestWait, NextChild, OwnerAt, flags
<1>18. CASE GuestExit  BY <1>1, <1>18 DEF GuestExit, OwnerAt, flags
<1>19. CASE YieldAgain  BY <1>1, <1>19 DEF YieldAgain, OwnerAt, flags
<1>20. CASE LeaveYield  BY <1>1, <1>20 DEF LeaveYield, NextChild, OwnerAt, flags
<1>21. CASE Acknowledge  BY <1>1, <1>21 DEF Acknowledge, OwnerAt
<1>22. CASE CheckNotified  BY <1>1, <1>22 DEF CheckNotified, OwnerAt
<1>23. CASE FinishPoll  BY <1>1, <1>23 DEF FinishPoll, OwnerAt, flags
<1>24. CASE CheckIdle  BY <1>1, <1>24 DEF CheckIdle, OwnerAt, flags
<1>25. CASE RegisterParked  BY <1>1, <1>25 DEF RegisterParked, OwnerAt
<1>26. CASE RecheckIdle  BY <1>1, <1>26 DEF RecheckIdle, OwnerAt, flags
<1>27. CASE PollOuter  BY <1>1, <1>27 DEF PollOuter, OwnerAt, flags
<1>28. CASE DropRegistration  BY <1>1, <1>28 DEF DropRegistration, OwnerAt
<1>29. CASE Cancel  BY <1>1, <1>29 DEF Cancel, OwnerAt
<1>30. CASE UNCHANGED vars  BY <1>1, <1>30 DEF vars
<1> QED
  BY <1>2, <1>3, <1>4, <1>5, <1>6, <1>7, <1>8, <1>9, <1>10, <1>11,
     <1>12, <1>13, <1>14, <1>15, <1>16, <1>17, <1>18, <1>19, <1>20,
     <1>21, <1>22, <1>23, <1>24, <1>25, <1>26, <1>27, <1>28, <1>29,
     <1>30
  DEF Next, OwnerStep, GuestStep, WakeStep

(* NoLostWakeup is preserved: the second check sees an earlier wake. *)
LEMMA NoLostWakeupStep ==
  IInv /\ [Next]_vars => NoLostWakeup'
PROOF
<1> SUFFICES ASSUME IInv, [Next]_vars  PROVE NoLostWakeup'
  OBVIOUS
<1> USE OrderFacts DEF TypeOK, OwnerSteps, WakeSteps, Control, Settling, InIteration, Sleeping, Registration, Repoll, Polled, Visited, NoLostWakeup
<1>1. TypeOK /\ Control /\ Registration /\ Repoll /\ Sleeping /\ NoLostWakeup
  BY DEF IInv
<1>2. ASSUME NEW s \in Sources, WakeEnter(s)  PROVE NoLostWakeup'
  BY <1>1, <1>2 DEF WakeEnter, Suppressed
<1>3. ASSUME NEW s \in Sources, WakeSignal(s)  PROVE NoLostWakeup'
  BY <1>1, <1>3 DEF WakeSignal, owner
<1>4. ASSUME NEW s \in Sources, WakeRunnable(s)  PROVE NoLostWakeup'
  BY <1>1, <1>4 DEF WakeRunnable, owner
<1>5. ASSUME NEW s \in Sources, WakeParked(s)  PROVE NoLostWakeup'
  BY <1>1, <1>5 DEF WakeParked, owner
<1>6. ASSUME NEW s \in Sources, Fire(s)  PROVE NoLostWakeup'
  <2>1. CASE pc = "asleep"
    <3>1. Polled = Sources  BY <1>1, <2>1, SettledPolled
    <3>2. s \in registered  BY <1>1, <3>1, <1>6 DEF Fire
    <3> QED  BY <1>1, <2>1, <3>2, <1>6 DEF Fire, Announce, flags, owner
  <2>2. CASE pc # "asleep"  BY <2>2, <1>6 DEF Fire, owner
  <2> QED  BY <2>1, <2>2
<1>7. CASE Start  BY <1>1, <1>7 DEF Start, OwnerAt, flags
<1>8. CASE ResetRunnable  BY <1>1, <1>8 DEF ResetRunnable, OwnerAt
<1>9. CASE ResetNotified  BY <1>1, <1>9 DEF ResetNotified, OwnerAt
<1>10. CASE PollStop  BY <1>1, <1>10 DEF PollStop, OwnerAt, flags
<1>11. ASSUME NEW d \in Devices, PollDevice(d)  PROVE NoLostWakeup'
  BY <1>1, <1>11 DEF PollDevice, NextChild, OwnerAt, flags, Devices, Sources
<1>12. CASE PollNewCpu  BY <1>1, <1>12 DEF PollNewCpu, EnterYield, OwnerAt, flags
<1>13. CASE PollWaitingCpu  BY <1>1, <1>13 DEF PollWaitingCpu, NextChild, OwnerAt, flags
<1>14. CASE EnterGuest  BY <1>1, <1>14 DEF EnterGuest, OwnerAt, flags
<1>15. CASE GuestCheckpoint  BY <1>1, <1>15 DEF GuestCheckpoint, EnterYield, OwnerAt, flags
<1>16. CASE GuestRaise  BY <1>1, <1>16 DEF GuestRaise, Announce, OwnerAt, flags, owner
<1>17. CASE GuestWait  BY <1>1, <1>17 DEF GuestWait, NextChild, OwnerAt, flags
<1>18. CASE GuestExit  BY <1>1, <1>18 DEF GuestExit, OwnerAt, flags
<1>19. CASE YieldAgain  BY <1>1, <1>19 DEF YieldAgain, OwnerAt, flags
<1>20. CASE LeaveYield  BY <1>1, <1>20 DEF LeaveYield, NextChild, OwnerAt, flags
<1>21. CASE Acknowledge  BY <1>1, <1>21 DEF Acknowledge, OwnerAt
<1>22. CASE CheckNotified  BY <1>1, <1>22 DEF CheckNotified, OwnerAt
<1>23. CASE FinishPoll  BY <1>1, <1>23 DEF FinishPoll, OwnerAt, flags
<1>24. CASE CheckIdle  BY <1>1, <1>24 DEF CheckIdle, OwnerAt, flags
<1>25. CASE RegisterParked  BY <1>1, <1>25 DEF RegisterParked, OwnerAt
<1>26. CASE RecheckIdle
  <2>1. CASE pc' = "asleep"
    <3>1. Polled = Sources  BY <1>1, <1>26, SettledPolled DEF RecheckIdle, OwnerAt
    <3>2. ~runnable /\ wake[Cpu] = "none"  BY <2>1, <1>26 DEF RecheckIdle, OwnerAt
    <3>3. cpu = "waiting" /\ Cpu \notin work  BY <1>1, <3>1, <3>2
    <3>4. \A s \in work : wake[s] # "none"  BY <1>1, <3>1, <3>2, <3>3
    <3> QED  BY <3>3, <3>4, <1>26 DEF RecheckIdle, OwnerAt, flags
  <2> QED  BY <2>1
<1>27. CASE PollOuter  BY <1>1, <1>27 DEF PollOuter, OwnerAt, flags
<1>28. CASE DropRegistration  BY <1>1, <1>28 DEF DropRegistration, OwnerAt
<1>29. CASE Cancel  BY <1>1, <1>29 DEF Cancel, OwnerAt
<1>30. CASE UNCHANGED vars  BY <1>1, <1>30 DEF vars
<1> QED
  BY <1>2, <1>3, <1>4, <1>5, <1>6, <1>7, <1>8, <1>9, <1>10, <1>11,
     <1>12, <1>13, <1>14, <1>15, <1>16, <1>17, <1>18, <1>19, <1>20,
     <1>21, <1>22, <1>23, <1>24, <1>25, <1>26, <1>27, <1>28, <1>29,
     <1>30
  DEF Next, OwnerStep, GuestStep, WakeStep

-----------------------------------------------------------------------------
(* The strengthened invariant holds in every reachable state.              *)
THEOREM Invariance == Spec => []IInv
PROOF
<1>1. Init => IInv
  <2> SUFFICES ASSUME Init  PROVE IInv
    OBVIOUS
  <2> USE OrderFacts DEF Init
  <2>1. TypeOK
    <3>1. at \in 1..(Len(Order) + 1) /\ extra \in 0..(YieldWakes - 1)  OBVIOUS
    <3>2. pc \in OwnerSteps /\ wake \in [Sources -> WakeSteps]
      BY DEF OwnerSteps, WakeSteps
    <3> QED  BY <3>1, <3>2, Zenon DEF TypeOK
  <2>2. Control  BY DEF Control, Settling
  <2>3. Polled = {}  BY DEF Polled, InIteration, Settling
  <2>4. Registration /\ Repoll /\ Recorded
    BY <2>3 DEF Registration, Repoll, Recorded
  <2>5. Sleeping /\ ParkedOnlyIdle /\ NoLostWakeup
    BY DEF Sleeping, ParkedOnlyIdle, NoLostWakeup
  <2> QED  BY <2>1, <2>2, <2>4, <2>5 DEF IInv
<1>2. IInv /\ [Next]_vars => IInv'
  BY TypeStep, RegistrationStep, RepollStep, RecordedStep, SleepingStep,
     ParkedOnlyIdleStep, NoLostWakeupStep
  DEF IInv
<1> QED
  BY <1>1, <1>2, PTL DEF Spec

(* Every variable of the executor keeps its type, in every interleaving of *)
(* the owner thread with its producers.                                    *)
THEOREM TypeCorrect == Spec => []TypeOK
PROOF
<1>1. IInv => TypeOK  BY DEF IInv
<1> QED  BY <1>1, Invariance, PTL

(* run_until never sleeps on an event whose wake is over: the registration *)
(* between two checks of runnable closes the window, for any number of     *)
(* sources and any order of polling.                                       *)
THEOREM WakeupsAreKept == Spec => []NoLostWakeup
PROOF
<1>1. IInv => NoLostWakeup  BY DEF IInv
<1> QED  BY <1>1, Invariance, PTL

(* Guest code never runs on past an unanswered request: acknowledge() then *)
(* the check of notified erases no wake that came during the poll.         *)
THEOREM RequestsAreKept == Spec => []GuestWillCheck
PROOF
<1>1. IInv => GuestWillCheck
  <2> SUFFICES ASSUME IInv, pc = "guest", ~interrupt, NEW s \in work
               PROVE wake[s] \in {"enter", "signal"}
    BY DEF GuestWillCheck
  <2>1. s \in seen /\ ~ready  BY DEF IInv, TypeOK, Control, Registration
  <2> QED  BY <2>1 DEF IInv, Recorded
<1> QED  BY <1>1, Invariance, PTL

(* The outer task's waker never outlives the idle phase of its run.        *)
THEOREM OuterIsReleased == Spec => []ParkedOnlyIdle
PROOF
<1>1. IInv => ParkedOnlyIdle  BY DEF IInv
<1> QED  BY <1>1, Invariance, PTL
=============================================================================
