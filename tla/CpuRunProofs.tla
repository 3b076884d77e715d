---------------------------- MODULE CpuRunProofs ----------------------------
(***************************************************************************)
(* The driver's stack of parked calls agrees with the guest's stack, every  *)
(* caller is answered, and a run ends cleanly, for any number of handler    *)
(* invocations and any nesting of interrupts.                               *)
(***************************************************************************)
EXTENDS CpuRun, SequenceTheorems, TLAPS

Parked == [call : Calls, returned : BOOLEAN]

\* Where the driver is tells whether a handler is pending, and a pending
\* handler's resume position is live, except after an entry that an exit
\* overtook; a run that is returning has an exit to return.
PendingIsLive ==
    /\ pc = "Polling" => pending # NoCall
    /\ pc \in {"Guest", "Inhibited"} => pending = NoCall
    /\ pc # "Return" /\ pending # NoCall => ip = ResumeOf(pending)
    /\ pc = "Return" => result \in ExitRequests

\* No call is held twice.
CallsAreDistinct ==
    \A i \in DOMAIN suspended :
        /\ suspended[i].call # pending
        /\ \A j \in DOMAIN suspended : i # j => suspended[i].call # suspended[j].call

\* The receivers belong to calls the driver holds.
ReceiversAreHeld ==
    \A c \in Calls : chan[c] # "Idle" =>
        c = pending \/ \E i \in DOMAIN suspended : suspended[i].call = c

\* A caller that waits has its request in interrupt_calls or is parked with
\* the sender of its completion.
SendersAreHeld ==
    pc # "Return" => \A c \in Calls : chan[c] = "Waiting" =>
        \/ c = pending /\ c = request
        \/ \E i \in DOMAIN suspended : suspended[i] = [call |-> c, returned |-> TRUE]

IInv ==
    /\ TypeOK
    /\ PendingIsLive
    /\ CallsAreDistinct
    /\ ReceiversAreHeld
    /\ SendersAreHeld
    /\ ParkedCallsMatchFrames

-----------------------------------------------------------------------------
(* Stacks.                                                                 *)

\* The top of a stack that is not empty, and what is below it.
LEMMA Popped ==
    ASSUME NEW S, NEW s \in Seq(S), s # <<>>
    PROVE  /\ Len(s) \in Nat \ {0}
           /\ Last(s) = s[Len(s)] /\ Last(s) \in S
           /\ Front(s) \in Seq(S)
           /\ Len(Front(s)) = Len(s) - 1
           /\ DOMAIN Front(s) = 1..(Len(s) - 1)
           /\ \A i \in 1..(Len(s) - 1) : Front(s)[i] = s[i]
<1>1. Len(s) \in Nat \ {0}
  OBVIOUS
<1>2. Last(s) = s[Len(s)] /\ Last(s) \in S
  BY <1>1 DEF Last
<1>3. Front(s) = [i \in 1..(Len(s) - 1) |-> s[i]]
  BY <1>1 DEF Front
<1>4. \A i \in 1..(Len(s) - 1) : s[i] \in S
  BY <1>1
<1> QED BY <1>1, <1>2, <1>3, <1>4

\* Whatever is on the guest's stack, no parked call needs a position.
LEMMA NothingParked ==
    ASSUME NEW p \in Seq(Positions)
    PROVE  AreInnermostResumes(<<>>, p)
<1> DEFINE place == [i \in DOMAIN <<>> |-> 1]
<1>1. place \in [DOMAIN <<>> -> DOMAIN p]
  OBVIOUS
<1>2. \A i \in DOMAIN <<>> : FALSE
  OBVIOUS
<1> HIDE DEF place
<1> QED BY <1>1, <1>2 DEF AreInnermostResumes

\* A position that is no resume byte comes and goes unnoticed.
LEMMA Covered ==
    ASSUME NEW s \in Seq(Parked), NEW p \in Seq(Positions), NEW r \in Positions,
           r.at # "Resume"
    PROVE  AreInnermostResumes(s, p) <=> AreInnermostResumes(s, Append(p, r))
<1> DEFINE q == Append(p, r)
<1>1. /\ DOMAIN q = 1..(Len(p) + 1) /\ DOMAIN p = 1..Len(p) /\ Len(p) \in Nat
      /\ \A d \in DOMAIN p : q[d] = p[d]
      /\ q[Len(p) + 1] = r
  OBVIOUS
<1> HIDE DEF q
<1>2. ASSUME AreInnermostResumes(s, p) PROVE AreInnermostResumes(s, q)
  <2>1. PICK place \in [DOMAIN s -> DOMAIN p] :
            /\ \A i, j \in DOMAIN s : i < j => place[i] < place[j]
            /\ \A i \in DOMAIN s : p[place[i]] = ResumeOf(s[i].call)
            /\ \A d \in DOMAIN p : p[d].at = "Resume" =>
                   \/ \E i \in DOMAIN s : place[i] = d
                   \/ \A i \in DOMAIN s : d < place[i]
    BY <1>2 DEF AreInnermostResumes
  <2>2. place \in [DOMAIN s -> DOMAIN q]
    BY <1>1
  <2>3. \A i \in DOMAIN s : q[place[i]] = ResumeOf(s[i].call)
    BY <1>1, <2>1
  <2>4. \A d \in DOMAIN q : q[d].at = "Resume" =>
            \/ \E i \in DOMAIN s : place[i] = d
            \/ \A i \in DOMAIN s : d < place[i]
    BY <1>1, <2>1
  <2> QED BY <2>1, <2>2, <2>3, <2>4 DEF AreInnermostResumes
<1>3. ASSUME AreInnermostResumes(s, q) PROVE AreInnermostResumes(s, p)
  <2>1. PICK place \in [DOMAIN s -> DOMAIN q] :
            /\ \A i, j \in DOMAIN s : i < j => place[i] < place[j]
            /\ \A i \in DOMAIN s : q[place[i]] = ResumeOf(s[i].call)
            /\ \A d \in DOMAIN q : q[d].at = "Resume" =>
                   \/ \E i \in DOMAIN s : place[i] = d
                   \/ \A i \in DOMAIN s : d < place[i]
    BY <1>3 DEF AreInnermostResumes
  <2>2. ASSUME NEW i \in DOMAIN s PROVE place[i] # Len(p) + 1
    <3>1. q[place[i]] = ResumeOf(s[i].call)
      BY <2>1
    <3>2. q[place[i]].at = "Resume"
      BY <3>1 DEF ResumeOf
    <3> QED BY <3>2, <1>1
  <2>3. place \in [DOMAIN s -> DOMAIN p]
    BY <1>1, <2>2
  <2>4. \A i \in DOMAIN s : p[place[i]] = ResumeOf(s[i].call)
    BY <1>1, <2>1, <2>3
  <2>5. \A d \in DOMAIN p : p[d].at = "Resume" =>
            \/ \E i \in DOMAIN s : place[i] = d
            \/ \A i \in DOMAIN s : d < place[i]
    BY <1>1, <2>1
  <2> QED BY <2>1, <2>3, <2>4, <2>5 DEF AreInnermostResumes
<1> QED BY <1>2, <1>3 DEF q

\* Parking a call and pushing its resume position keeps the stacks in step.
LEMMA Parks ==
    ASSUME NEW s \in Seq(Parked), NEW p \in Seq(Positions), NEW new \in Parked,
           AreInnermostResumes(s, p)
    PROVE  AreInnermostResumes(Append(s, new), Append(p, ResumeOf(new.call)))
<1> DEFINE q == Append(p, ResumeOf(new.call))
           t == Append(s, new)
<1>1. /\ DOMAIN q = 1..(Len(p) + 1) /\ DOMAIN p = 1..Len(p) /\ Len(p) \in Nat
      /\ \A d \in DOMAIN p : q[d] = p[d]
      /\ q[Len(p) + 1] = ResumeOf(new.call)
  OBVIOUS
<1>2. /\ DOMAIN t = 1..(Len(s) + 1) /\ DOMAIN s = 1..Len(s) /\ Len(s) \in Nat
      /\ \A i \in DOMAIN s : t[i] = s[i]
      /\ t[Len(s) + 1] = new
  OBVIOUS
<1> HIDE DEF q, t
<1>3. PICK place \in [DOMAIN s -> DOMAIN p] :
          /\ \A i, j \in DOMAIN s : i < j => place[i] < place[j]
          /\ \A i \in DOMAIN s : p[place[i]] = ResumeOf(s[i].call)
          /\ \A d \in DOMAIN p : p[d].at = "Resume" =>
                 \/ \E i \in DOMAIN s : place[i] = d
                 \/ \A i \in DOMAIN s : d < place[i]
  BY DEF AreInnermostResumes
<1> DEFINE more == [i \in DOMAIN t |-> IF i \in DOMAIN s THEN place[i] ELSE Len(p) + 1]
<1>4. /\ more \in [DOMAIN t -> DOMAIN q]
      /\ \A i \in DOMAIN s : more[i] = place[i] /\ more[i] \in DOMAIN p
      /\ more[Len(s) + 1] = Len(p) + 1
  BY <1>1, <1>2
<1> HIDE DEF more
<1>5. \A i, j \in DOMAIN t : i < j => more[i] < more[j]
  BY <1>1, <1>2, <1>3, <1>4
<1>6. ASSUME NEW i \in DOMAIN t PROVE q[more[i]] = ResumeOf(t[i].call)
  <2>1. CASE i \in DOMAIN s
    <3>1. p[place[i]] = ResumeOf(s[i].call)
      BY <2>1, <1>3
    <3>2. q[more[i]] = p[place[i]] /\ t[i] = s[i]
      BY <2>1, <1>1, <1>2, <1>4
    <3> QED BY <3>1, <3>2
  <2>2. CASE i = Len(s) + 1
    BY <2>2, <1>1, <1>2, <1>4
  <2> QED BY <2>1, <2>2, <1>2
<1>7. \A d \in DOMAIN q : q[d].at = "Resume" =>
          \/ \E i \in DOMAIN t : more[i] = d
          \/ \A i \in DOMAIN t : d < more[i]
  <2> SUFFICES ASSUME NEW d \in DOMAIN q, q[d].at = "Resume",
                      \A i \in DOMAIN t : more[i] # d
               PROVE  \A i \in DOMAIN t : d < more[i]
    OBVIOUS
  <2>1. d \in DOMAIN p /\ p[d].at = "Resume"
    BY <1>1, <1>2, <1>4
  <2>2. \A i \in DOMAIN s : place[i] # d
    BY <1>2, <1>4
  <2>3. \A i \in DOMAIN s : d < place[i]
    BY <2>1, <2>2, <1>3
  <2> QED BY <2>1, <2>3, <1>1, <1>2, <1>4
<1> QED BY <1>4, <1>5, <1>6, <1>7 DEF AreInnermostResumes, q, t

\* The innermost resume position is that of the innermost parked call, and
\* taking both away keeps the stacks in step.
LEMMA Resumes ==
    ASSUME NEW s \in Seq(Parked), s # <<>>, NEW p \in Seq(Positions), NEW r \in Positions,
           r.at = "Resume", AreInnermostResumes(s, Append(p, r))
    PROVE  /\ r = ResumeOf(Last(s).call)
           /\ AreInnermostResumes(Front(s), p)
<1> DEFINE q == Append(p, r)
           t == Front(s)
<1>1. /\ DOMAIN q = 1..(Len(p) + 1) /\ DOMAIN p = 1..Len(p) /\ Len(p) \in Nat
      /\ \A d \in DOMAIN p : q[d] = p[d]
      /\ q[Len(p) + 1] = r
  OBVIOUS
<1>2. /\ DOMAIN s = 1..Len(s) /\ Len(s) \in Nat \ {0}
      /\ DOMAIN t = 1..(Len(s) - 1)
      /\ \A i \in DOMAIN t : t[i] = s[i]
      /\ Last(s) = s[Len(s)]
  BY Popped
<1>3. AreInnermostResumes(s, q)
  OBVIOUS
<1> HIDE DEF q, t
<1>4. PICK place \in [DOMAIN s -> DOMAIN q] :
          /\ \A i, j \in DOMAIN s : i < j => place[i] < place[j]
          /\ \A i \in DOMAIN s : q[place[i]] = ResumeOf(s[i].call)
          /\ \A d \in DOMAIN q : q[d].at = "Resume" =>
                 \/ \E i \in DOMAIN s : place[i] = d
                 \/ \A i \in DOMAIN s : d < place[i]
  BY <1>3 DEF AreInnermostResumes
<1>5. place[Len(s)] = Len(p) + 1
  <2>1. \A i \in DOMAIN s : place[i] \in 1..(Len(p) + 1)
    BY <1>1, <1>4
  <2>2. Len(s) \in DOMAIN s /\ Len(p) + 1 \in DOMAIN q /\ q[Len(p) + 1].at = "Resume"
    BY <1>1, <1>2
  <2>3. ~(Len(p) + 1 < place[Len(s)])
    BY <1>1, <2>1, <2>2
  <2>4. PICK i \in DOMAIN s : place[i] = Len(p) + 1
    BY <1>4, <2>2, <2>3
  <2>5. i = Len(s) \/ i < Len(s)
    BY <1>2
  <2> QED BY <1>1, <1>4, <2>1, <2>2, <2>4, <2>5
<1>6. r = ResumeOf(Last(s).call)
  BY <1>1, <1>2, <1>4, <1>5
<1> DEFINE less == [i \in DOMAIN t |-> place[i]]
<1>7. /\ less \in [DOMAIN t -> DOMAIN p]
      /\ \A i \in DOMAIN t : less[i] = place[i] /\ i \in DOMAIN s
  <2>1. ASSUME NEW i \in DOMAIN t PROVE i \in DOMAIN s /\ place[i] \in DOMAIN p
    <3>1. i \in DOMAIN s /\ Len(s) \in DOMAIN s /\ i < Len(s)
      BY <1>2
    <3>2. place[i] < Len(p) + 1 /\ place[i] \in 1..(Len(p) + 1)
      BY <3>1, <1>1, <1>4, <1>5
    <3> QED BY <3>1, <3>2, <1>1
  <2> QED BY <2>1
<1> HIDE DEF less
<1>8. \A i, j \in DOMAIN t : i < j => less[i] < less[j]
  BY <1>4, <1>7
<1>9. \A i \in DOMAIN t : p[less[i]] = ResumeOf(t[i].call)
  BY <1>1, <1>2, <1>4, <1>7
<1>10. \A d \in DOMAIN p : p[d].at = "Resume" =>
          \/ \E i \in DOMAIN t : less[i] = d
          \/ \A i \in DOMAIN t : d < less[i]
  <2> SUFFICES ASSUME NEW d \in DOMAIN p, p[d].at = "Resume",
                      \A i \in DOMAIN t : less[i] # d
               PROVE  \A i \in DOMAIN t : d < less[i]
    OBVIOUS
  <2>1. d \in DOMAIN q /\ q[d].at = "Resume" /\ d # Len(p) + 1
    BY <1>1
  <2>2. \A i \in DOMAIN s : place[i] # d
    BY <2>1, <1>2, <1>5, <1>7
  <2>3. \A i \in DOMAIN s : d < place[i]
    BY <2>1, <2>2, <1>4
  <2> QED BY <2>3, <1>7
<1>11. AreInnermostResumes(t, p)
  BY <1>7, <1>8, <1>9, <1>10 DEF AreInnermostResumes
<1> QED BY <1>6, <1>11 DEF t

-----------------------------------------------------------------------------
(* The guest's steps.                                                      *)

Frame == [ip : Positions, interrupts : BOOLEAN, called : BOOLEAN]

GuestOK ==
    /\ ip \in Positions
    /\ frames \in Seq(Frame)
    /\ Len(frames) <= MaxFrames
    /\ interrupts \in BOOLEAN

\* What the assumptions and the definitions say of positions.
LEMMA Constants ==
    /\ NoCall \notin Calls
    /\ MaxFrames \in Nat \ {0}
    /\ \A kind \in {"Code", "Entry", "Iret"} : At(kind) \in Positions /\ At(kind).at = kind
    /\ \A c \in Calls \cup {NoCall} : /\ ResumeOf(c) \in Positions
                                      /\ ResumeOf(c).at = "Resume" /\ ResumeOf(c).call = c
BY CallsAssumption, FramesAssumption DEF At, ResumeOf, Positions

\* The stacked positions, one to a frame.
LEMMA StackedIsSeq ==
    ASSUME GuestOK
    PROVE  Stacked \in Seq(Positions) /\ Len(Stacked) = Len(frames)
<1>1. /\ Len(frames) \in Nat /\ DOMAIN frames = 1..Len(frames)
      /\ \A i \in 1..Len(frames) : frames[i] \in Frame
  BY DEF GuestOK
<1>2. \A i \in 1..Len(frames) : frames[i].ip \in Positions
  BY <1>1, Zenon DEF Frame
<1>3. Stacked = [i \in 1..Len(frames) |-> frames[i].ip]
  BY <1>1 DEF Stacked
<1>4. Stacked \in [1..Len(frames) -> Positions]
  BY <1>2, <1>3
<1> QED BY <1>1, <1>4

\* Interrupt entry pushes the live position and continues at no resume byte.
LEMMA Entered ==
    ASSUME GuestOK, NEW b \in BOOLEAN, EnterVector(b)
    PROVE  /\ GuestOK'
           /\ Stacked' = Append(Stacked, ip)
           /\ ip'.at # "Resume"
<1>1. ip' \in Positions /\ ip'.at # "Resume"
  BY Constants DEF EnterVector
<1>2. [ip |-> ip, interrupts |-> interrupts, called |-> b] \in Frame
  BY Zenon DEF GuestOK, Frame
<1>3. frames' \in Seq(Frame) /\ Len(frames') <= MaxFrames
  BY <1>2, Constants DEF EnterVector, GuestOK
<1>4. Stacked' = Append(Stacked, ip)
  BY <1>2 DEF EnterVector, Stacked, GuestOK
<1> QED BY <1>1, <1>3, <1>4, Zenon DEF GuestOK, EnterVector

\* IRET makes the innermost position live, from no resume byte.
LEMMA Returned ==
    ASSUME GuestOK, Iret
    PROVE  /\ GuestOK'
           /\ Stacked = Append(Stacked', ip')
           /\ ip.at # "Resume"
<1>1. /\ Len(frames) \in Nat \ {0}
      /\ Last(frames) = frames[Len(frames)]
      /\ Last(frames) \in Frame
      /\ frames' \in Seq(Frame)
      /\ Len(frames') = Len(frames) - 1
      /\ DOMAIN frames' = 1..(Len(frames) - 1)
      /\ \A i \in 1..(Len(frames) - 1) : frames'[i] = frames[i]
  BY Popped DEF GuestOK, Iret
<1>2. ip' \in Positions /\ interrupts' \in BOOLEAN
  BY <1>1, Zenon DEF Iret, Frame
<1>3. Len(frames') <= MaxFrames
  BY <1>1, Constants DEF GuestOK
<1>4. GuestOK'
  BY <1>1, <1>2, <1>3 DEF GuestOK
<1>5. Stacked = Append(Stacked', ip')
  <2>1. Stacked' \in Seq(Positions) /\ Len(Stacked') = Len(frames) - 1
    BY <1>1, <1>4, StackedIsSeq DEF Stacked, GuestOK
  <2> DEFINE q == Append(Stacked', ip')
  <2>2. q \in Seq(Positions) /\ Len(q) = Len(frames)
    BY <1>1, <1>2, <2>1
  <2>3. q \in [1..Len(frames) -> Positions]
    BY <2>2, LenProperties
  <2>4. q = [i \in 1..Len(frames) |-> q[i]]
    BY <2>3
  <2>5. \A i \in 1..Len(frames) : q[i] = frames[i].ip
    BY <1>1, <1>2, <2>1 DEF Stacked, Iret
  <2>6. Stacked = [i \in 1..Len(frames) |-> frames[i].ip]
    BY DEF Stacked, GuestOK
  <2> QED BY <2>4, <2>5, <2>6
<1> QED BY <1>4, <1>5 DEF Iret

\* What the guest executes of its own keeps the parked calls' positions.
LEMMA GuestKeepsResumes ==
    ASSUME GuestOK, NEW s \in Seq(Parked),
           Iret \/ Ordinary \/ EnterVector(FALSE),
           AreInnermostResumes(s, Append(Stacked, ip))
    PROVE  GuestOK' /\ AreInnermostResumes(s, Append(Stacked', ip'))
<1>1. Stacked \in Seq(Positions) /\ ip \in Positions
  BY StackedIsSeq DEF GuestOK
<1>2. CASE Iret
  BY <1>1, <1>2, Returned, Covered
<1>3. CASE Ordinary
  <2>1. GuestOK'
    BY <1>3 DEF Ordinary, GuestOK
  <2>2. Stacked' = Stacked /\ ip' = ip
    BY <1>3 DEF Ordinary, Stacked
  <2> QED BY <2>1, <2>2
<1>4. CASE EnterVector(FALSE)
  <2>1. GuestOK' /\ Stacked' = Append(Stacked, ip) /\ ip'.at # "Resume"
    BY <1>4, Entered
  <2>2. Stacked' \in Seq(Positions) /\ ip' \in Positions
    BY <1>1, <2>1 DEF GuestOK
  <2> QED BY <2>1, <2>2, Covered
<1> QED BY <1>2, <1>3, <1>4

-----------------------------------------------------------------------------
(* The driver's steps.                                                     *)

DriverOK ==
    /\ pending \in Calls \cup {NoCall}
    /\ suspended \in Seq(Parked)
    /\ request \in Calls \cup {NoCall}
    /\ exit \in {NoExit} \cup ExitRequests
    /\ chan \in [Calls -> {"Idle", "Waiting", "Returned"}]
    /\ pc \in {"Idle", "Polling", "Deliver", "Guest", "Inhibited", "Return"}
    /\ result \in {"Pending", "Interrupted", "Fault", "Resume"} \cup ExitRequests

\* TypeOK, in the guest's part and the driver's.
LEMMA TypesSplit == (TypeOK <=> GuestOK /\ DriverOK) /\ (TypeOK' <=> (GuestOK /\ DriverOK)')
BY DEF TypeOK, GuestOK, DriverOK, Frame, Parked

\* The parked calls are calls.
LEMMA ParkedTypes ==
    ASSUME TypeOK
    PROVE  /\ Len(suspended) \in Nat /\ DOMAIN suspended = 1..Len(suspended)
           /\ suspended \in Seq(Parked)
           /\ \A i \in DOMAIN suspended : suspended[i].call \in Calls
<1>1. suspended \in Seq(Parked)
  BY TypesSplit DEF DriverOK
<1>2. \A i \in DOMAIN suspended : suspended[i] \in Parked
  BY <1>1
<1> QED BY <1>1, <1>2 DEF Parked

\* What does not touch the calls keeps what is said of them.
LEMMA CallsUntouched ==
    ASSUME IInv, UNCHANGED <<pending, suspended, chan>>
    PROVE  /\ CallsAreDistinct' /\ ReceiversAreHeld'
           /\ pc # "Return" /\ request' = request => SendersAreHeld'
           /\ pc' = "Return" => SendersAreHeld' /\ ParkedCallsMatchFrames'
           /\ pc # "Return" /\ UNCHANGED <<ip, frames>> => ParkedCallsMatchFrames'
<1>1. CallsAreDistinct'
  BY DEF IInv, CallsAreDistinct
<1>2. ReceiversAreHeld'
  BY DEF IInv, ReceiversAreHeld
<1>3. pc # "Return" /\ request' = request => SendersAreHeld'
  BY DEF IInv, SendersAreHeld
<1>4. pc' = "Return" => SendersAreHeld' /\ ParkedCallsMatchFrames'
  BY DEF SendersAreHeld, ParkedCallsMatchFrames
<1>5. ASSUME pc # "Return", UNCHANGED <<ip, frames>> PROVE ParkedCallsMatchFrames'
  <2>1. Ahead' = Ahead /\ suspended' = suspended
    BY <1>5 DEF Ahead, Stacked
  <2> QED BY <1>5, <2>1 DEF IInv, ParkedCallsMatchFrames
<1> QED BY <1>1, <1>2, <1>3, <1>4, <1>5

\* A new CPU holds nothing.
LEMMA InitIInv == Init => IInv
<1> SUFFICES ASSUME Init PROVE IInv
  OBVIOUS
<1>1. GuestOK
  BY Constants DEF Init, GuestOK, Frame
<1>2. DriverOK
  BY DEF Init, DriverOK, NoExit
<1>3. Ahead \in Seq(Positions)
  BY <1>1, StackedIsSeq DEF Ahead, GuestOK
<1>4. ParkedCallsMatchFrames
  BY <1>3, NothingParked DEF Init, ParkedCallsMatchFrames
<1>5. suspended = <<>> /\ DOMAIN suspended = {}
  BY DEF Init
<1>6. PendingIsLive /\ CallsAreDistinct /\ ReceiversAreHeld /\ SendersAreHeld
  BY <1>5 DEF Init, PendingIsLive, CallsAreDistinct, ReceiversAreHeld, SendersAreHeld
<1> QED BY <1>1, <1>2, <1>4, <1>6, TypesSplit DEF IInv

\* A poll that starts looks for an exit.
LEMMA PollStartStep == ASSUME IInv, PollStart PROVE IInv'
<1>1. TypeOK'
  BY DEF IInv, TypeOK, PollStart, guest, ExitRequests, NoExit
<1>2. PendingIsLive'
  BY DEF IInv, TypeOK, PollStart, guest, PendingIsLive, ExitRequests
<1>3. UNCHANGED <<pending, suspended, chan, request, ip, frames>> /\ pc # "Return"
  BY DEF PollStart, guest
<1> QED BY <1>1, <1>2, <1>3, CallsUntouched DEF IInv

\* A polled handler changes its own receiver and request, and when it completes
\* leaves its resume byte for the stub's Iret.
LEMMA HandlerPollStep == ASSUME IInv, HandlerPoll PROVE IInv'
<1>1. pc = "Polling" /\ pc' = "Deliver" /\ pending \in Calls /\ ip = ResumeOf(pending)
  BY DEF IInv, TypeOK, HandlerPoll, PendingIsLive
<1>2. UNCHANGED <<suspended, frames, result>> /\ exit' \in {exit} \cup ExitRequests
  BY DEF HandlerPoll, MayRequestExit
<1>3. \/ /\ chan[pending] = "Waiting" /\ request = pending
         /\ UNCHANGED <<pending, request, chan, ip, interrupts>>
      \/ /\ interrupts' \in BOOLEAN
         /\ (pending' = NoCall /\ ip' = At("Iret")) \/ UNCHANGED <<pending, ip>>
         /\ chan' = [chan EXCEPT ![pending] = "Idle"]
         /\ request' \in {request, pending}
      \/ /\ interrupts' \in BOOLEAN /\ UNCHANGED <<pending, ip>>
         /\ chan' = [chan EXCEPT ![pending] = "Waiting"] /\ request' = pending
  BY DEF HandlerPoll, call
<1>4. TypeOK'
  <2>1. ip' \in Positions /\ interrupts' \in BOOLEAN
    BY <1>3, Constants DEF IInv, TypeOK
  <2>2. GuestOK'
    BY <1>2, <2>1, TypesSplit DEF IInv, GuestOK
  <2>3. chan' \in [Calls -> {"Idle", "Waiting", "Returned"}]
    BY <1>1, <1>3 DEF IInv, TypeOK
  <2>4. DriverOK'
    BY <1>1, <1>2, <1>3, <2>3, TypesSplit DEF IInv, DriverOK
  <2> QED BY <2>2, <2>4, TypesSplit
<1>5. PendingIsLive'
  BY <1>1, <1>3 DEF PendingIsLive
<1>6. pending' \in {pending, NoCall}
  BY <1>3
<1>7. CallsAreDistinct'
  BY <1>2, <1>6, CallsAssumption, ParkedTypes DEF IInv, CallsAreDistinct
<1>8. \A c \in Calls : c # pending => chan'[c] = chan[c]
  BY <1>1, <1>3 DEF IInv, TypeOK
<1>9. chan'[pending] # "Idle" => pending' = pending /\ (chan'[pending] = "Waiting" => request' = pending)
  BY <1>1, <1>3 DEF IInv, TypeOK
<1>10. ReceiversAreHeld'
  BY <1>1, <1>2, <1>8, <1>9 DEF IInv, ReceiversAreHeld
<1>11. SendersAreHeld'
  BY <1>1, <1>2, <1>8, <1>9 DEF IInv, SendersAreHeld
<1>12. ParkedCallsMatchFrames'
  <2>1. Stacked' = Stacked /\ Ahead = Stacked /\ suspended' = suspended
    BY <1>1, <1>2, CallsAssumption DEF Stacked, Ahead
  <2>2. AreInnermostResumes(suspended, Stacked)
    BY <1>1, <2>1 DEF IInv, ParkedCallsMatchFrames
  <2>3. Stacked \in Seq(Positions) /\ suspended \in Seq(Parked)
    BY StackedIsSeq, TypesSplit DEF IInv, DriverOK
  <2>4. CASE pending' = pending
    <3>1. Ahead' = Stacked
      BY <2>1, <2>4, <1>1, CallsAssumption DEF Ahead
    <3> QED BY <2>1, <2>2, <3>1 DEF ParkedCallsMatchFrames
  <2>5. CASE pending' = NoCall /\ pending' # pending
    <3>1. ip' = At("Iret")
      BY <1>3, <2>5
    <3>2. ip' \in Positions /\ ip'.at # "Resume"
      BY <3>1, Constants
    <3>3. Ahead' = Append(Stacked, ip')
      BY <2>1, <2>5 DEF Ahead
    <3>4. AreInnermostResumes(suspended, Append(Stacked, ip'))
      BY <2>2, <2>3, <3>2, Covered
    <3> QED BY <2>1, <3>3, <3>4 DEF ParkedCallsMatchFrames
  <2> QED BY <1>6, <2>4, <2>5
<1> QED BY <1>4, <1>5, <1>7, <1>10, <1>11, <1>12 DEF IInv

\* Delivery finds an exit.
LEMMA DeliverExitStep == ASSUME IInv, DeliverExit PROVE IInv'
<1>1. TypeOK'
  BY DEF IInv, TypeOK, DeliverExit, guest, ExitRequests, NoExit
<1>2. PendingIsLive'
  BY DEF IInv, TypeOK, DeliverExit, guest, PendingIsLive, ExitRequests
<1>3. UNCHANGED <<pending, suspended, chan, request, ip, frames>> /\ pc # "Return"
  BY DEF DeliverExit, guest
<1> QED BY <1>1, <1>2, <1>3, CallsUntouched DEF IInv

\* Without a live request nothing waits but the parked callers.
LEMMA DeliverNothingStep == ASSUME IInv, DeliverNothing PROVE IInv'
<1>1. /\ pc = "Deliver" /\ Invocation = NoCall /\ request' = NoCall
      /\ UNCHANGED <<pending, suspended, chan, ip, frames, interrupts>>
      /\ exit' \in {NoExit} \cup ExitRequests
      /\ \/ exit' # NoExit /\ pc' = "Return" /\ result' = exit'
         \/ pending # NoCall /\ pc' = "Idle" /\ result' = "Pending"
         \/ pending = NoCall /\ pc' = "Guest" /\ result' = result
  BY DEF IInv, TypeOK, DeliverNothing, MayRequestExit, Ends, guest
<1>2. TypeOK'
  BY <1>1 DEF IInv, TypeOK
<1>3. PendingIsLive'
  BY <1>1 DEF IInv, PendingIsLive
<1>4. SendersAreHeld'
  BY <1>1, CallsAssumption DEF IInv, SendersAreHeld, Invocation
<1> QED BY <1>1, <1>2, <1>3, <1>4, CallsUntouched DEF IInv

\* A faulted entry puts the request back.
LEMMA DeliverFaultsStep == ASSUME IInv, DeliverFaults PROVE IInv'
<1>1. /\ pc = "Deliver"
      /\ UNCHANGED <<pending, suspended, chan, ip, frames, interrupts>>
      /\ exit' \in {NoExit} \cup ExitRequests
      /\ \/ exit' # NoExit /\ pc' = "Return" /\ result' = exit' /\ request' = NoCall
         \/ pc' = "Idle" /\ result' = "Fault" /\ request' = Invocation
  BY DEF IInv, TypeOK, DeliverFaults, MayRequestExit, Ends, guest
<1>2. TypeOK'
  BY <1>1 DEF IInv, TypeOK, Invocation
<1>3. PendingIsLive'
  BY <1>1 DEF IInv, PendingIsLive
<1>4. SendersAreHeld'
  BY <1>1, CallsAssumption DEF IInv, SendersAreHeld, Invocation
<1> QED BY <1>1, <1>2, <1>3, <1>4, CallsUntouched DEF IInv

\* An entry parks the pending call as its resume position is pushed, with the
\* sender if the call asked for the interrupt.
LEMMA DeliverEntersStep == ASSUME IInv, DeliverEnters PROVE IInv'
<1>1. /\ pc = "Deliver" /\ request' = NoCall /\ chan' = chan
      /\ EnterVector(Invocation # NoCall) /\ exit' \in {NoExit} \cup ExitRequests
      /\ \/ exit' # NoExit /\ pc' = "Return" /\ result' = exit' /\ UNCHANGED <<pending, suspended>>
         \/ /\ pc' = "Guest" /\ result' = result /\ pending' = NoCall
            /\ \/ pending = NoCall /\ suspended' = suspended
               \/ /\ pending # NoCall
                  /\ suspended' = Append(suspended, [call |-> pending, returned |-> Invocation # NoCall])
  BY DEF IInv, TypeOK, DeliverEnters, MayRequestExit
<1>2. GuestOK' /\ Stacked' = Append(Stacked, ip) /\ ip' \in Positions /\ ip'.at # "Resume"
  BY <1>1, Entered, TypesSplit DEF IInv, GuestOK
<1>3. DriverOK /\ Stacked \in Seq(Positions) /\ ip \in Positions
  BY StackedIsSeq, TypesSplit DEF IInv, GuestOK
<1>4. CASE pc' = "Return"
  <2>1. /\ UNCHANGED <<pending, suspended, chan>>
        /\ exit' \in ExitRequests /\ result' = exit' /\ request' = NoCall
    BY <1>1, <1>4
  <2>2. TypeOK'
    BY <1>2, <1>3, <1>4, <2>1, TypesSplit DEF DriverOK
  <2>3. PendingIsLive'
    BY <1>4, <2>1 DEF PendingIsLive
  <2> QED BY <1>4, <2>1, <2>2, <2>3, CallsUntouched DEF IInv
<1>5. CASE pc' = "Guest" /\ pending = NoCall
  <2>1. UNCHANGED <<pending, suspended, chan, result>> /\ request' = NoCall
    BY <1>1, <1>5
  <2>2. TypeOK'
    BY <1>1, <1>2, <1>3, <1>5, <2>1, TypesSplit DEF DriverOK
  <2>3. PendingIsLive'
    BY <1>5, <2>1 DEF PendingIsLive
  <2>4. SendersAreHeld'
    BY <1>1, <1>5, <2>1, CallsAssumption DEF IInv, SendersAreHeld
  <2>5. AreInnermostResumes(suspended, Append(Stacked, ip))
    BY <1>1, <1>5 DEF IInv, ParkedCallsMatchFrames, Ahead
  <2>6. Stacked' \in Seq(Positions)
    BY <1>2, <1>3
  <2>7. AreInnermostResumes(suspended, Append(Stacked', ip'))
    BY <1>2, <1>3, <2>5, <2>6, Covered DEF DriverOK
  <2>8. ParkedCallsMatchFrames'
    BY <1>5, <2>1, <2>7 DEF ParkedCallsMatchFrames, Ahead
  <2> QED BY <2>1, <2>2, <2>3, <2>4, <2>8, CallsUntouched DEF IInv
<1>6. CASE pc' = "Guest" /\ pending # NoCall
  <2> DEFINE new == [call |-> pending, returned |-> Invocation # NoCall]
  <2>1. pending' = NoCall /\ suspended' = Append(suspended, new) /\ result' = result
    BY <1>1, <1>6
  <2>2. pending \in Calls /\ ip = ResumeOf(pending)
    BY <1>1, <1>3, <1>6 DEF DriverOK, IInv, PendingIsLive
  <2>3. new \in Parked /\ new.call = pending
    BY <2>2, Zenon DEF Parked
  <2>4. new.returned = (Invocation # NoCall)
    BY Zenon
  <2> HIDE DEF new
  <2>5. /\ Len(suspended) \in Nat /\ DOMAIN suspended = 1..Len(suspended)
        /\ DOMAIN suspended' = 1..(Len(suspended) + 1)
        /\ \A i \in DOMAIN suspended : suspended'[i] = suspended[i] /\ suspended[i].call \in Calls
        /\ suspended'[Len(suspended) + 1] = new
        /\ suspended' \in Seq(Parked)
    BY <2>1, <2>3, ParkedTypes DEF IInv
  <2>6. TypeOK'
    BY <1>1, <1>2, <1>3, <1>6, <2>1, <2>5, TypesSplit DEF DriverOK
  <2>7. PendingIsLive'
    BY <1>6, <2>1 DEF PendingIsLive
  <2>8. CallsAreDistinct'
    <3>1. \A i \in DOMAIN suspended : suspended[i].call # pending
      BY DEF IInv, CallsAreDistinct
    <3>2. \A i, j \in DOMAIN suspended : i # j => suspended[i].call # suspended[j].call
      BY DEF IInv, CallsAreDistinct
    <3>3. \A i \in DOMAIN suspended' : suspended'[i].call # NoCall
      BY <2>2, <2>3, <2>5, CallsAssumption
    <3>4. \A i, j \in DOMAIN suspended' : i # j => suspended'[i].call # suspended'[j].call
      BY <3>1, <3>2, <2>3, <2>5
    <3> QED BY <2>1, <3>3, <3>4 DEF CallsAreDistinct
  <2>9. ReceiversAreHeld'
    <3> SUFFICES ASSUME NEW c \in Calls, chan[c] # "Idle"
                 PROVE  \E i \in DOMAIN suspended' : suspended'[i].call = c
      BY <1>1 DEF ReceiversAreHeld
    <3>1. CASE c = pending
      BY <3>1, <2>3, <2>5
    <3>2. CASE \E i \in DOMAIN suspended : suspended[i].call = c
      BY <3>2, <2>5
    <3> QED BY <3>1, <3>2 DEF IInv, ReceiversAreHeld
  <2>10. SendersAreHeld'
    <3> SUFFICES ASSUME NEW c \in Calls, chan[c] = "Waiting"
                 PROVE  \E i \in DOMAIN suspended' : suspended'[i] = [call |-> c, returned |-> TRUE]
      BY <1>1 DEF SendersAreHeld
    <3>1. CASE c = pending /\ c = request
      <4>1. Invocation # NoCall
        BY <3>1, <2>2, CallsAssumption DEF Invocation
      <4>2. new = [call |-> c, returned |-> TRUE]
        BY <3>1, <4>1, Zenon DEF new
      <4> QED BY <4>2, <2>5
    <3>2. CASE \E i \in DOMAIN suspended : suspended[i] = [call |-> c, returned |-> TRUE]
      <4>1. PICK i \in DOMAIN suspended : suspended[i] = [call |-> c, returned |-> TRUE]
        BY <3>2
      <4>2. i \in DOMAIN suspended' /\ suspended'[i] = suspended[i]
        BY <2>5
      <4> QED BY <4>1, <4>2, Zenon
    <3> QED BY <1>1, <3>1, <3>2 DEF IInv, SendersAreHeld
  <2>11. ParkedCallsMatchFrames'
    <3>1. AreInnermostResumes(suspended, Stacked)
      BY <1>1, <1>6 DEF IInv, ParkedCallsMatchFrames, Ahead
    <3>2. AreInnermostResumes(suspended', Stacked')
      BY <1>2, <1>3, <2>1, <2>2, <2>3, <3>1, Parks DEF DriverOK
    <3>3. Stacked' \in Seq(Positions)
      BY <1>2, <1>3
    <3>4. AreInnermostResumes(suspended', Append(Stacked', ip'))
      BY <1>2, <2>5, <3>2, <3>3, Covered
    <3> QED BY <2>1, <3>4 DEF ParkedCallsMatchFrames, Ahead
  <2> QED BY <2>6, <2>7, <2>8, <2>9, <2>10, <2>11 DEF IInv
<1> QED BY <1>1, <1>4, <1>5, <1>6

\* While guest code runs no handler is pending, and what the guest does
\* leaves the calls alone.
LEMMA GuestRunsStep ==
    ASSUME IInv, pc \in {"Guest", "Inhibited"}, UNCHANGED <<pending, suspended, request, chan>>,
           exit' \in {NoExit} \cup ExitRequests,
           \/ pc' \in {"Guest", "Inhibited", "Deliver"} /\ result' = result
           \/ pc' = "Idle" /\ result' \in {"Interrupted", "Fault", "Resume"},
           Iret \/ Ordinary \/ EnterVector(FALSE) \/ UNCHANGED guest
    PROVE  IInv'
<1>1. /\ pending = NoCall /\ GuestOK /\ DriverOK
      /\ AreInnermostResumes(suspended, Append(Stacked, ip))
  BY TypesSplit DEF IInv, PendingIsLive, ParkedCallsMatchFrames, Ahead
<1>2. GuestOK' /\ AreInnermostResumes(suspended, Append(Stacked', ip'))
  <2>1. CASE UNCHANGED guest
    <3>1. Stacked' = Stacked /\ ip' = ip /\ GuestOK'
      BY <1>1, <2>1 DEF guest, Stacked, GuestOK
    <3> QED BY <1>1, <3>1
  <2> QED BY <1>1, <2>1, GuestKeepsResumes DEF DriverOK
<1>3. TypeOK'
  BY <1>1, <1>2, TypesSplit DEF DriverOK
<1>4. PendingIsLive'
  BY <1>1 DEF PendingIsLive
<1>5. ParkedCallsMatchFrames'
  BY <1>1, <1>2 DEF ParkedCallsMatchFrames, Ahead
<1>6. SendersAreHeld' /\ CallsAreDistinct' /\ ReceiversAreHeld'
  BY CallsUntouched
<1> QED BY <1>3, <1>4, <1>5, <1>6 DEF IInv

\* The four ways the guest runs.
LEMMA GuestStep ==
    ASSUME IInv, GuestExecutes \/ GuestInhibits \/ GuestStepsSuccessor \/ GuestStops
    PROVE  IInv'
<1>1. exit \in {NoExit} \cup ExitRequests
  BY DEF IInv, TypeOK
<1>2. CASE GuestExecutes
  <2>1. /\ pc = "Guest" /\ UNCHANGED <<pending, suspended, request, chan, result>>
        /\ pc' \in {"Guest", "Deliver"}
        /\ exit' \in {NoExit} \cup ExitRequests
        /\ Iret \/ Ordinary \/ EnterVector(FALSE)
    BY <1>1, <1>2 DEF GuestExecutes, MayRequestExit
  <2> QED BY <2>1, GuestRunsStep
<1>3. CASE GuestInhibits
  <2>1. /\ pc \in {"Guest", "Inhibited"} /\ UNCHANGED <<pending, suspended, request, chan, result>>
        /\ pc' = "Inhibited" /\ exit' \in {NoExit} \cup ExitRequests
    BY <1>1, <1>3 DEF GuestInhibits, MayRequestExit
  <2>2. Ordinary
    BY <1>3 DEF GuestInhibits, Ordinary, IInv, TypeOK
  <2> QED BY <2>1, <2>2, GuestRunsStep
<1>4. CASE GuestStepsSuccessor
  <2>1. /\ pc = "Inhibited" /\ UNCHANGED <<pending, suspended, request, chan, result>>
        /\ pc' = "Deliver" /\ exit' \in {NoExit} \cup ExitRequests
        /\ Iret \/ Ordinary \/ EnterVector(FALSE) \/ UNCHANGED guest
    BY <1>1, <1>4 DEF GuestStepsSuccessor, MayRequestExit
  <2> QED BY <2>1, GuestRunsStep
<1>5. CASE GuestStops
  <2>1. /\ pc \in {"Guest", "Inhibited"} /\ UNCHANGED <<pending, suspended, request, chan, exit>>
        /\ UNCHANGED guest
        /\ \/ pc' = "Deliver" /\ result' = result
           \/ pc' = "Idle" /\ result' \in {"Interrupted", "Fault", "Resume"}
    BY <1>5 DEF GuestStops, Ends
  <2> QED BY <1>1, <2>1, GuestRunsStep
<1> QED BY <1>2, <1>3, <1>4, <1>5

\* A new handler is pending at its own resume position.
LEMMA ServiceEntryStep == ASSUME IInv, ServiceEntry PROVE IInv'
<1>1. /\ pc = "Guest" /\ ip.at = "Entry" /\ pending = NoCall
      /\ UNCHANGED <<suspended, request, exit, chan, frames, interrupts, result>>
  BY DEF ServiceEntry, IInv, PendingIsLive
<1>2. CASE exit # NoExit
  <2>1. pc' = "Deliver" /\ UNCHANGED pending /\ UNCHANGED guest
    BY <1>1, <1>2 DEF ServiceEntry, guest
  <2>2. exit' \in {NoExit} \cup ExitRequests
    BY <1>1 DEF IInv, TypeOK
  <2> QED BY <1>1, <2>1, <2>2, GuestRunsStep
<1>3. CASE exit = NoExit
  <2>1. PICK c \in FreshCalls : pending' = c /\ ip' = ResumeOf(c) /\ pc' = "Polling"
    BY <1>3 DEF ServiceEntry
  <2>2. c \in Calls /\ c # NoCall /\ \A i \in DOMAIN suspended : suspended[i].call # c
    BY CallsAssumption DEF FreshCalls
  <2>3. TypeOK'
    <3>1. GuestOK'
      BY <1>1, <2>1, <2>2, Constants, TypesSplit DEF IInv, GuestOK
    <3>2. DriverOK'
      BY <1>1, <2>1, <2>2, TypesSplit DEF IInv, DriverOK
    <3> QED BY <3>1, <3>2, TypesSplit
  <2>4. PendingIsLive'
    BY <2>1, <2>2 DEF PendingIsLive
  <2>5. CallsAreDistinct'
    BY <1>1, <2>1, <2>2 DEF IInv, CallsAreDistinct
  <2>6. ReceiversAreHeld' /\ SendersAreHeld'
    <3>1. \A d \in Calls : chan[d] # "Idle" => \E i \in DOMAIN suspended : suspended[i].call = d
      BY <1>1, CallsAssumption DEF IInv, ReceiversAreHeld
    <3>2. ReceiversAreHeld'
      BY <1>1, <3>1 DEF ReceiversAreHeld
    <3>3. SendersAreHeld'
      BY <1>1, CallsAssumption DEF IInv, SendersAreHeld
    <3> QED BY <3>2, <3>3
  <2>7. ParkedCallsMatchFrames'
    <3>1. AreInnermostResumes(suspended, Append(Stacked, ip))
      BY <1>1 DEF IInv, ParkedCallsMatchFrames, Ahead
    <3>2. Stacked \in Seq(Positions) /\ ip \in Positions /\ suspended \in Seq(Parked)
      BY StackedIsSeq, TypesSplit DEF IInv, GuestOK, DriverOK
    <3>3. AreInnermostResumes(suspended, Stacked)
      BY <1>1, <3>1, <3>2, Covered
    <3>4. Ahead' = Stacked
      BY <1>1, <2>1, <2>2 DEF Ahead, Stacked
    <3> QED BY <1>1, <3>3, <3>4 DEF ParkedCallsMatchFrames
  <2> QED BY <2>3, <2>4, <2>5, <2>6, <2>7 DEF IInv
<1> QED BY <1>2, <1>3

\* A resume byte polls the call that established it; its caller is answered.
LEMMA ResumeEntryStep == ASSUME IInv, ResumeEntry PROVE IInv'
<1>1. /\ pc = "Guest" /\ ip.at = "Resume" /\ pending = NoCall
      /\ UNCHANGED <<request, exit>> /\ UNCHANGED guest
      /\ exit' \in {NoExit} \cup ExitRequests
  BY DEF ResumeEntry, IInv, PendingIsLive, TypeOK
<1>2. CASE exit # NoExit
  <2>1. pc' = "Deliver" /\ UNCHANGED <<pending, suspended, chan, result>>
    BY <1>2 DEF ResumeEntry
  <2> QED BY <1>1, <2>1, GuestRunsStep
<1>3. CASE exit = NoExit /\ suspended = <<>>
  <2>1. pc' = "Idle" /\ result' = "Resume" /\ UNCHANGED <<pending, suspended, chan>>
    BY <1>3 DEF ResumeEntry, Ends
  <2> QED BY <1>1, <2>1, GuestRunsStep
<1>4. CASE exit = NoExit /\ suspended # <<>>
  <2> DEFINE top == Last(suspended)
  <2>1. /\ pending' = top.call /\ suspended' = Front(suspended) /\ pc' = "Polling"
        /\ result' = result
        /\ chan' = IF top.returned THEN [chan EXCEPT ![top.call] = "Returned"] ELSE chan
    BY <1>4 DEF ResumeEntry, resume_call
  <2>2. /\ Len(suspended) \in Nat \ {0} /\ DOMAIN suspended = 1..Len(suspended)
        /\ top = suspended[Len(suspended)] /\ top.call \in Calls
        /\ suspended' \in Seq(Parked) /\ DOMAIN suspended' = 1..(Len(suspended) - 1)
        /\ \A i \in DOMAIN suspended' : i \in DOMAIN suspended /\ suspended'[i] = suspended[i]
        /\ \A i \in DOMAIN suspended : i = Len(suspended) \/ i \in DOMAIN suspended'
    BY <1>4, <2>1, ParkedTypes, Popped DEF IInv
  <2> HIDE DEF top
  <2>3. ip = ResumeOf(top.call) /\ AreInnermostResumes(suspended', Stacked)
    <3>1. AreInnermostResumes(suspended, Append(Stacked, ip))
      BY <1>1 DEF IInv, ParkedCallsMatchFrames, Ahead
    <3>2. Stacked \in Seq(Positions) /\ ip \in Positions /\ suspended \in Seq(Parked)
      BY StackedIsSeq, TypesSplit DEF IInv, GuestOK, DriverOK
    <3> QED BY <1>1, <1>4, <2>1, <3>1, <3>2, Resumes DEF top
  <2>4. /\ chan' \in [Calls -> {"Idle", "Waiting", "Returned"}]
        /\ \A c \in Calls : c # top.call => chan'[c] = chan[c]
        /\ top.returned => chan'[top.call] = "Returned"
        /\ ~top.returned => chan' = chan
    BY <2>1, <2>2 DEF IInv, TypeOK
  <2>5. TypeOK'
    <3>1. GuestOK'
      BY <1>1, TypesSplit DEF IInv, GuestOK, guest
    <3>2. DriverOK'
      BY <1>1, <2>1, <2>2, <2>4, TypesSplit DEF IInv, DriverOK
    <3> QED BY <3>1, <3>2, TypesSplit
  <2>6. PendingIsLive'
    BY <1>1, <2>1, <2>2, <2>3, CallsAssumption DEF PendingIsLive, guest
  <2>7. CallsAreDistinct'
    <3>1. \A i, j \in DOMAIN suspended : i # j => suspended[i].call # suspended[j].call
      BY DEF IInv, CallsAreDistinct
    <3>2. \A i \in DOMAIN suspended' : suspended'[i].call # top.call
      BY <2>2, <3>1
    <3>3. \A i, j \in DOMAIN suspended' : i # j => suspended'[i].call # suspended'[j].call
      BY <2>2, <3>1
    <3> QED BY <2>1, <3>2, <3>3 DEF CallsAreDistinct
  <2>8. ReceiversAreHeld'
    <3> SUFFICES ASSUME NEW c \in Calls, chan'[c] # "Idle", c # top.call
                 PROVE  \E i \in DOMAIN suspended' : suspended'[i].call = c
      BY <2>1 DEF ReceiversAreHeld
    <3>1. PICK i \in DOMAIN suspended : suspended[i].call = c
      BY <1>1, <2>4, CallsAssumption DEF IInv, ReceiversAreHeld
    <3>2. i \in DOMAIN suspended' /\ suspended'[i] = suspended[i]
      BY <2>2, <3>1
    <3> QED BY <3>1, <3>2
  <2>9. SendersAreHeld'
    <3> SUFFICES ASSUME NEW c \in Calls, chan'[c] = "Waiting"
                 PROVE  \E i \in DOMAIN suspended' : suspended'[i] = [call |-> c, returned |-> TRUE]
      BY DEF SendersAreHeld
    <3>1. chan[c] = "Waiting"
      BY <2>4
    <3>2. PICK i \in DOMAIN suspended : suspended[i] = [call |-> c, returned |-> TRUE]
      BY <1>1, <3>1, CallsAssumption DEF IInv, SendersAreHeld
    <3>3. suspended[i].call = c /\ suspended[i].returned = TRUE
      BY <3>2
    <3>4. i # Len(suspended)
      BY <2>2, <2>4, <3>3
    <3>5. i \in DOMAIN suspended' /\ suspended'[i] = suspended[i]
      BY <2>2, <3>4
    <3> QED BY <3>2, <3>5, Zenon
  <2>10. ParkedCallsMatchFrames'
    <3>1. Ahead' = Stacked
      BY <1>1, <2>1, <2>2, CallsAssumption DEF Ahead, Stacked, guest
    <3> QED BY <2>3, <3>1 DEF ParkedCallsMatchFrames
  <2> QED BY <2>5, <2>6, <2>7, <2>8, <2>9, <2>10 DEF IInv
<1> QED BY <1>2, <1>3, <1>4

\* Releasing a call drops its receiver.
LEMMA ReleaseStep == ASSUME IInv, Release PROVE IInv'
<1>1. /\ pc = "Return" /\ pc' = "Return" /\ UNCHANGED <<request, result>> /\ UNCHANGED guest
      /\ exit' \in {NoExit} \cup ExitRequests
      /\ \/ /\ pending # NoCall /\ pending' = NoCall /\ suspended' = suspended
            /\ chan' = [chan EXCEPT ![pending] = "Idle"]
         \/ /\ pending = NoCall /\ pending' = pending
            /\ suspended # <<>> /\ suspended' = Front(suspended)
            /\ chan' = [chan EXCEPT ![Last(suspended).call] = "Idle"]
  BY DEF Release, DropCall, MayRequestExit, IInv, TypeOK
<1>2. PendingIsLive' /\ SendersAreHeld' /\ ParkedCallsMatchFrames'
  BY <1>1 DEF IInv, PendingIsLive, SendersAreHeld, ParkedCallsMatchFrames
<1>3. GuestOK'
  BY <1>1, TypesSplit DEF IInv, GuestOK, guest
<1>4. CASE pending # NoCall
  <2>1. /\ pending' = NoCall /\ suspended' = suspended /\ pending \in Calls
        /\ chan' = [chan EXCEPT ![pending] = "Idle"]
    BY <1>1, <1>4 DEF IInv, TypeOK
  <2>2. TypeOK'
    BY <1>1, <1>3, <2>1, TypesSplit DEF IInv, DriverOK
  <2>3. CallsAreDistinct'
    BY <2>1, CallsAssumption, ParkedTypes DEF IInv, CallsAreDistinct
  <2>4. ReceiversAreHeld'
    BY <2>1 DEF IInv, TypeOK, ReceiversAreHeld
  <2> QED BY <1>2, <2>2, <2>3, <2>4 DEF IInv
<1>5. CASE pending = NoCall
  <2> DEFINE top == Last(suspended)
  <2>1. /\ pending' = NoCall /\ suspended # <<>> /\ suspended' = Front(suspended)
        /\ chan' = [chan EXCEPT ![top.call] = "Idle"]
    BY <1>1, <1>5
  <2>2. /\ Len(suspended) \in Nat \ {0} /\ DOMAIN suspended = 1..Len(suspended)
        /\ top = suspended[Len(suspended)] /\ top.call \in Calls
        /\ suspended' \in Seq(Parked) /\ DOMAIN suspended' = 1..(Len(suspended) - 1)
        /\ \A i \in DOMAIN suspended' : i \in DOMAIN suspended /\ suspended'[i] = suspended[i]
        /\ \A i \in DOMAIN suspended : i = Len(suspended) \/ i \in DOMAIN suspended'
    BY <2>1, ParkedTypes, Popped DEF IInv
  <2> HIDE DEF top
  <2>3. TypeOK'
    BY <1>1, <1>3, <2>1, <2>2, TypesSplit DEF IInv, DriverOK
  <2>4. CallsAreDistinct'
    <3>1. \A i, j \in DOMAIN suspended : i # j => suspended[i].call # suspended[j].call
      BY DEF IInv, CallsAreDistinct
    <3>2. \A i \in DOMAIN suspended' : suspended'[i].call # NoCall
      BY <2>2, <1>5 DEF IInv, CallsAreDistinct
    <3> QED BY <2>1, <2>2, <3>1, <3>2 DEF CallsAreDistinct
  <2>5. ReceiversAreHeld'
    <3> SUFFICES ASSUME NEW c \in Calls, chan'[c] # "Idle"
                 PROVE  \E i \in DOMAIN suspended' : suspended'[i].call = c
      BY DEF ReceiversAreHeld
    <3>1. c # top.call /\ chan[c] # "Idle"
      BY <2>1, <2>2 DEF IInv, TypeOK
    <3>2. PICK i \in DOMAIN suspended : suspended[i].call = c
      BY <1>5, <3>1, CallsAssumption DEF IInv, ReceiversAreHeld
    <3>3. i \in DOMAIN suspended' /\ suspended'[i] = suspended[i]
      BY <2>2, <3>1, <3>2
    <3> QED BY <3>2, <3>3
  <2> QED BY <1>2, <2>3, <2>4, <2>5 DEF IInv
<1> QED BY <1>4, <1>5

\* With nothing held there is nothing to be said of the calls.
LEMMA NothingHeld ==
    ASSUME IInv, TypeOK', pc' = "Idle", suspended' = <<>>, pending' = NoCall,
           \A c \in Calls : chan'[c] = "Idle"
    PROVE  IInv'
<1>1. suspended' = <<>> /\ DOMAIN suspended' = {}
  OBVIOUS
<1>2. PendingIsLive' /\ CallsAreDistinct' /\ ReceiversAreHeld' /\ SendersAreHeld'
  BY <1>1 DEF PendingIsLive, CallsAreDistinct, ReceiversAreHeld, SendersAreHeld
<1>3. Stacked' \in Seq(Positions) /\ ip' \in Positions
  <2>1. Len(frames') \in Nat /\ DOMAIN frames' = 1..Len(frames')
    BY TypesSplit DEF GuestOK
  <2>2. \A i \in 1..Len(frames') : frames'[i] \in Frame
    BY TypesSplit DEF GuestOK
  <2>3. \A i \in 1..Len(frames') : frames'[i].ip \in Positions
    BY <2>2, Zenon DEF Frame
  <2>4. Stacked' = [i \in 1..Len(frames') |-> frames'[i].ip]
    BY <2>1 DEF Stacked
  <2> QED BY <2>1, <2>3, <2>4, TypesSplit DEF GuestOK
<1>4. ParkedCallsMatchFrames'
  <2>1. Ahead' \in Seq(Positions)
    BY <1>3 DEF Ahead
  <2> QED BY <2>1, NothingParked DEF ParkedCallsMatchFrames
<1> QED BY <1>2, <1>4 DEF IInv

\* A driver that holds no call has no receiver either.
LEMMA NothingReceives ==
    ASSUME IInv, pending = NoCall, suspended = <<>>
    PROVE  \A c \in Calls : chan[c] = "Idle"
<1>1. DOMAIN suspended = {}
  OBVIOUS
<1> QED BY <1>1, CallsAssumption DEF IInv, ReceiversAreHeld

\* The exit is consumed with nothing held.
LEMMA ReturnExitStep == ASSUME IInv, ReturnExit PROVE IInv'
<1>1. /\ pending = NoCall /\ suspended = <<>> /\ exit' = NoExit /\ pc' = "Idle"
      /\ UNCHANGED <<pending, suspended, request, chan, ip, frames, interrupts, result>>
  BY DEF ReturnExit, guest
<1>2. TypeOK'
  BY <1>1 DEF IInv, TypeOK
<1> QED BY <1>1, <1>2, NothingHeld, NothingReceives

\* Between polls the embedding may drop the parked calls, and steps only when
\* no call is held.
LEMMA EmbeddingStep ==
    ASSUME IInv, RequestExit \/ abandon_suspended_calls \/ step
    PROVE  IInv'
<1>1. CASE RequestExit
  <2>1. /\ pc = "Idle" /\ pc' = pc /\ exit' \in ExitRequests /\ UNCHANGED result
        /\ UNCHANGED <<pending, suspended, request, chan, ip, frames, interrupts>>
    BY <1>1 DEF RequestExit, guest
  <2>2. TypeOK' /\ PendingIsLive'
    BY <2>1 DEF IInv, TypeOK, PendingIsLive
  <2> QED BY <2>1, <2>2, CallsUntouched DEF IInv
<1>2. CASE abandon_suspended_calls
  <2>1. /\ pc = "Idle" /\ pc' = pc /\ suspended' = <<>>
        /\ exit' \in {NoExit} \cup ExitRequests
        /\ UNCHANGED <<pending, request, ip, frames, interrupts, result>>
        /\ chan' = [c \in Calls |-> IF \E i \in DOMAIN suspended : suspended[i].call = c
                                    THEN "Idle" ELSE chan[c]]
    BY <1>2 DEF abandon_suspended_calls, MayRequestExit, guest, IInv, TypeOK
  <2>2. \A c \in Calls : chan'[c] # "Idle" =>
            chan'[c] = chan[c] /\ ~\E i \in DOMAIN suspended : suspended[i].call = c
    BY <2>1
  <2>3. TypeOK'
    <3>1. chan' \in [Calls -> {"Idle", "Waiting", "Returned"}]
      BY <2>1 DEF IInv, TypeOK
    <3>2. suspended' \in Seq(Parked)
      BY <2>1
    <3>3. GuestOK' /\ DriverOK'
      BY <2>1, <3>1, <3>2, TypesSplit DEF IInv, GuestOK, DriverOK
    <3> QED BY <3>3, TypesSplit
  <2>4. PendingIsLive'
    BY <2>1 DEF IInv, PendingIsLive
  <2>5. DOMAIN suspended' = {}
    BY <2>1
  <2>6. CallsAreDistinct'
    BY <2>5 DEF CallsAreDistinct
  <2>7. ReceiversAreHeld'
    BY <2>1, <2>2 DEF IInv, ReceiversAreHeld
  <2>8. SendersAreHeld'
    <3> SUFFICES ASSUME NEW c \in Calls, chan'[c] = "Waiting"
                 PROVE  c = pending /\ c = request
      BY <2>1 DEF SendersAreHeld
    <3>1. chan[c] = "Waiting" /\ ~\E i \in DOMAIN suspended : suspended[i].call = c
      BY <2>2
    <3>2. ~\E i \in DOMAIN suspended : suspended[i] = [call |-> c, returned |-> TRUE]
      BY <3>1
    <3> QED BY <2>1, <3>1, <3>2 DEF IInv, SendersAreHeld
  <2>9. ParkedCallsMatchFrames'
    <3>1. Ahead' = Ahead /\ Ahead \in Seq(Positions)
      BY <2>1, StackedIsSeq, TypesSplit DEF IInv, Ahead, Stacked, GuestOK
    <3> QED BY <2>1, <3>1, NothingParked DEF ParkedCallsMatchFrames
  <2> QED BY <2>3, <2>4, <2>6, <2>7, <2>8, <2>9 DEF IInv
<1>3. CASE step
  <2>1. /\ pc = "Idle" /\ pc' = pc /\ pending = NoCall /\ suspended = <<>>
        /\ exit' \in {NoExit} \cup ExitRequests
        /\ UNCHANGED <<pending, suspended, request, chan, result>>
        /\ \/ Iret \/ Ordinary \/ EnterVector(FALSE)
           \/ ip' \in {ResumeOf(NoCall), At("Iret")} /\ UNCHANGED <<frames, interrupts>>
    BY <1>3 DEF step, MayRequestExit, IInv, TypeOK
  <2>2. GuestOK'
    <3>1. GuestOK
      BY TypesSplit DEF IInv
    <3>2. CASE Iret
      BY <3>1, <3>2, Returned
    <3>3. CASE EnterVector(FALSE)
      BY <3>1, <3>3, Entered
    <3>4. CASE Ordinary
      BY <3>1, <3>4 DEF Ordinary, GuestOK
    <3>5. CASE ip' \in {ResumeOf(NoCall), At("Iret")} /\ UNCHANGED <<frames, interrupts>>
      BY <3>1, <3>5, Constants DEF GuestOK
    <3> QED BY <2>1, <3>2, <3>3, <3>4, <3>5
  <2>3. TypeOK'
    BY <2>1, <2>2, TypesSplit DEF IInv, DriverOK
  <2> QED BY <2>1, <2>3, NothingHeld, NothingReceives
<1> QED BY <1>1, <1>2, <1>3

\* Every step preserves the invariant.
LEMMA Step == IInv /\ [Next]_vars => IInv'
<1> SUFFICES ASSUME IInv, [Next]_vars PROVE IInv'
  OBVIOUS
<1>1. CASE UNCHANGED vars
  <2>1. /\ UNCHANGED <<pending, suspended, request, exit, chan, pc, result>>
        /\ UNCHANGED <<ip, frames, interrupts>>
    BY <1>1 DEF vars, guest
  <2>2. Ahead' = Ahead
    BY <2>1 DEF Ahead, Stacked
  <2> QED BY <2>1, <2>2 DEF IInv, TypeOK, PendingIsLive, CallsAreDistinct, ReceiversAreHeld,
                            SendersAreHeld, ParkedCallsMatchFrames
<1>2. CASE run
  BY <1>2, PollStartStep, HandlerPollStep, DeliverExitStep, DeliverNothingStep, DeliverEntersStep,
     DeliverFaultsStep, GuestStep, ServiceEntryStep, ResumeEntryStep, ReleaseStep, ReturnExitStep
  DEF run
<1> QED BY <1>1, <1>2, EmbeddingStep DEF Next

-----------------------------------------------------------------------------
(* Whom the interrupts were entered for.                                   *)

\* A caller whose request has not entered is the pending one.
RequestIsPending ==
    request # NoCall /\ chan[request] = "Waiting" => request = pending

\* No call's resume byte is on the guest's stack twice, or below the live one.
TagsAreDistinct ==
    /\ \A d, e \in DOMAIN frames :
           d # e /\ frames[d].ip.call # NoCall => frames[e].ip.call # frames[d].ip.call
    /\ ip.call # NoCall => \A d \in DOMAIN frames : frames[d].ip.call # ip.call

\* The first part of CalledFramesHaveCallers, and the second.
SendersHaveReceivers ==
    \A i \in DOMAIN suspended :
        suspended[i].returned <=> chan[suspended[i].call] = "Waiting"

CalledFramesReturn ==
    \A d \in DOMAIN frames : frames[d].called =>
        /\ frames[d].ip.at = "Resume"
        /\ \A i \in DOMAIN suspended :
               frames[d].ip = ResumeOf(suspended[i].call) => suspended[i].returned

CalledInv ==
    /\ RequestIsPending
    /\ TagsAreDistinct
    /\ SendersHaveReceivers
    /\ CalledFramesReturn

\* What an entry does to the stack.
LEMMA FramesEntered ==
    ASSUME GuestOK, NEW b \in BOOLEAN, EnterVector(b)
    PROVE  /\ Len(frames) \in Nat /\ DOMAIN frames = 1..Len(frames)
           /\ DOMAIN frames' = 1..(Len(frames) + 1)
           /\ \A d \in DOMAIN frames : d \in DOMAIN frames' /\ frames'[d] = frames[d]
           /\ frames'[Len(frames) + 1].ip = ip
           /\ frames'[Len(frames) + 1].called <=> b
           /\ ip'.call = NoCall
<1> DEFINE new == [ip |-> ip, interrupts |-> interrupts, called |-> b]
<1>1. new.ip = ip /\ (new.called <=> b)
  BY Zenon
<1>2. frames' = Append(frames, new) /\ ip'.call = NoCall
  BY DEF EnterVector, At
<1> HIDE DEF new
<1>3. /\ Len(frames) \in Nat /\ DOMAIN frames = 1..Len(frames)
      /\ DOMAIN frames' = 1..(Len(frames) + 1)
      /\ \A d \in DOMAIN frames : d \in DOMAIN frames' /\ frames'[d] = frames[d]
      /\ frames'[Len(frames) + 1] = new
  BY <1>2 DEF GuestOK
<1> QED BY <1>1, <1>2, <1>3

\* ... and what IRET does.
LEMMA FramesReturned ==
    ASSUME GuestOK, Iret
    PROVE  /\ Len(frames) \in Nat \ {0} /\ DOMAIN frames = 1..Len(frames)
           /\ DOMAIN frames' = 1..(Len(frames) - 1)
           /\ \A d \in DOMAIN frames' : d \in DOMAIN frames /\ frames'[d] = frames[d]
           /\ ip' = frames[Len(frames)].ip
BY Popped DEF GuestOK, Iret

\* Pushing the live position and popping to the innermost one keep the tags apart.
LEMMA TagsKept ==
    ASSUME GuestOK, TagsAreDistinct,
           Iret \/ Ordinary \/ \E b \in BOOLEAN : EnterVector(b)
    PROVE  TagsAreDistinct'
<1>1. CASE Iret
  BY <1>1, FramesReturned DEF TagsAreDistinct
<1>2. CASE Ordinary
  BY <1>2 DEF Ordinary, TagsAreDistinct
<1>3. ASSUME NEW b \in BOOLEAN, EnterVector(b) PROVE TagsAreDistinct'
  <2>1. /\ Len(frames) \in Nat /\ DOMAIN frames = 1..Len(frames)
        /\ DOMAIN frames' = 1..(Len(frames) + 1)
        /\ \A d \in DOMAIN frames : frames'[d] = frames[d]
        /\ frames'[Len(frames) + 1].ip = ip
        /\ ip'.call = NoCall
    BY <1>3, FramesEntered
  <2> QED BY <2>1 DEF TagsAreDistinct
<1> QED BY <1>1, <1>2, <1>3

\* A step that leaves the calls and the stack alone and at most forgets the
\* request.
LEMMA CalledUntouched ==
    ASSUME CalledInv, UNCHANGED <<pending, suspended, chan, ip, frames>>,
           request' \in {request, NoCall}
    PROVE  CalledInv'
<1>1. RequestIsPending'
  BY DEF CalledInv, RequestIsPending
<1>2. TagsAreDistinct' /\ SendersHaveReceivers' /\ CalledFramesReturn'
  BY DEF CalledInv, TagsAreDistinct, SendersHaveReceivers, CalledFramesReturn
<1> QED BY <1>1, <1>2 DEF CalledInv

\* The guest enters interrupts of its own, and returns from any.
LEMMA CalledGuest ==
    ASSUME GuestOK, CalledInv, UNCHANGED <<pending, suspended, chan, request>>,
           Iret \/ Ordinary \/ EnterVector(FALSE)
    PROVE  CalledInv'
<1>1. RequestIsPending' /\ SendersHaveReceivers'
  BY DEF CalledInv, RequestIsPending, SendersHaveReceivers
<1>2. TagsAreDistinct'
  BY TagsKept DEF CalledInv
<1>3. ASSUME NEW d \in DOMAIN frames', frames'[d].called
      PROVE  d \in DOMAIN frames /\ frames'[d] = frames[d]
  <2>1. CASE Iret
    BY <2>1, FramesReturned
  <2>2. CASE Ordinary
    BY <2>2 DEF Ordinary
  <2>3. CASE EnterVector(FALSE)
    <3>1. /\ DOMAIN frames' = 1..(Len(frames) + 1) /\ DOMAIN frames = 1..Len(frames)
          /\ Len(frames) \in Nat
          /\ \A e \in DOMAIN frames : frames'[e] = frames[e]
          /\ ~frames'[Len(frames) + 1].called
      BY <2>3, FramesEntered
    <3>2. d # Len(frames) + 1
      BY <1>3, <3>1, Zenon
    <3> QED BY <3>1, <3>2
  <2> QED BY <2>1, <2>2, <2>3
<1>4. CalledFramesReturn'
  BY <1>3 DEF CalledInv, CalledFramesReturn
<1> QED BY <1>1, <1>2, <1>4 DEF CalledInv

\* A handler's poll moves only its own receiver, which no parked call has.
LEMMA CalledHandlerPoll == ASSUME IInv, CalledInv, HandlerPoll PROVE CalledInv'
<1>1. pc = "Polling" /\ pending \in Calls /\ ip = ResumeOf(pending)
  BY DEF IInv, TypeOK, HandlerPoll, PendingIsLive
<1>2. UNCHANGED <<suspended, frames>>
  BY DEF HandlerPoll
<1>3. \/ UNCHANGED <<pending, request, chan, ip>>
      \/ /\ (pending' = NoCall /\ ip' = At("Iret")) \/ UNCHANGED <<pending, ip>>
         /\ chan' = [chan EXCEPT ![pending] = "Idle"]
         /\ request' \in {request, pending}
      \/ /\ UNCHANGED <<pending, ip>>
         /\ chan' = [chan EXCEPT ![pending] = "Waiting"] /\ request' = pending
  BY DEF HandlerPoll, call
<1>4. \A c \in Calls : c # pending => chan'[c] = chan[c]
  BY <1>1, <1>3 DEF IInv, TypeOK
<1>5. RequestIsPending'
  BY <1>1, <1>3 DEF IInv, TypeOK, CalledInv, RequestIsPending
<1>6. ip' = ip \/ ip'.call = NoCall
  BY <1>3 DEF At
<1>7. TagsAreDistinct'
  BY <1>2, <1>6 DEF CalledInv, TagsAreDistinct
<1>8. \A i \in DOMAIN suspended : suspended[i].call \in Calls /\ suspended[i].call # pending
  BY ParkedTypes DEF IInv, CallsAreDistinct
<1>9. SendersHaveReceivers'
  BY <1>2, <1>4, <1>8 DEF CalledInv, SendersHaveReceivers
<1>10. CalledFramesReturn'
  BY <1>2 DEF CalledInv, CalledFramesReturn
<1> QED BY <1>5, <1>7, <1>9, <1>10 DEF CalledInv

\* An entry for a call is the pending call's, and parks it with its sender.
LEMMA CalledEnters == ASSUME IInv, CalledInv, DeliverEnters PROVE CalledInv'
<1> DEFINE b == Invocation # NoCall
           new == [call |-> pending, returned |-> b]
<1>1. /\ pc = "Deliver" /\ request' = NoCall /\ chan' = chan /\ EnterVector(b)
      /\ \/ suspended' = suspended
         \/ pending # NoCall /\ suspended' = Append(suspended, new)
  BY DEF DeliverEnters
<1>2. GuestOK /\ b \in BOOLEAN
  BY TypesSplit DEF IInv
<1>3. b => request = pending /\ pending \in Calls /\ chan[pending] = "Waiting"
  BY DEF Invocation, CalledInv, RequestIsPending, IInv, TypeOK
<1>4. pending # NoCall => pending \in Calls /\ ip = ResumeOf(pending)
  BY <1>1 DEF IInv, TypeOK, PendingIsLive
<1>5. pending # NoCall => (b <=> chan[pending] = "Waiting")
  <2>1. ASSUME pending # NoCall, chan[pending] = "Waiting" PROVE b
    <3>1. \A i \in DOMAIN suspended : suspended[i].call # pending
      BY DEF IInv, CallsAreDistinct
    <3>2. ~\E i \in DOMAIN suspended : suspended[i] = [call |-> pending, returned |-> TRUE]
      BY <3>1
    <3>3. request = pending
      BY <1>1, <1>4, <2>1, <3>2 DEF IInv, SendersAreHeld
    <3> QED BY <2>1, <3>3 DEF Invocation
  <2> QED BY <1>3, <2>1
<1> HIDE DEF b
<1>6. RequestIsPending'
  BY <1>1 DEF RequestIsPending
<1>7. TagsAreDistinct'
  BY <1>1, <1>2, TagsKept DEF CalledInv
<1>8. /\ Len(suspended) \in Nat /\ DOMAIN suspended = 1..Len(suspended)
      /\ suspended \in Seq(Parked)
      /\ \A i \in DOMAIN suspended : suspended[i].call \in Calls
  BY ParkedTypes DEF IInv
<1>9. ASSUME NEW i \in DOMAIN suspended'
      PROVE  \/ i \in DOMAIN suspended /\ suspended'[i] = suspended[i]
             \/ pending # NoCall /\ suspended'[i] = new
  BY <1>1, <1>8
<1>10. new.call = pending /\ (new.returned <=> b)
  BY Zenon
<1> HIDE DEF new
<1>11. SendersHaveReceivers'
  <2> SUFFICES ASSUME NEW i \in DOMAIN suspended'
               PROVE  suspended'[i].returned <=> chan[suspended'[i].call] = "Waiting"
    BY <1>1 DEF SendersHaveReceivers
  <2>1. CASE i \in DOMAIN suspended /\ suspended'[i] = suspended[i]
    BY <2>1 DEF CalledInv, SendersHaveReceivers
  <2>2. CASE pending # NoCall /\ suspended'[i] = new
    BY <2>2, <1>5, <1>10, Zenon
  <2> QED BY <1>9, <2>1, <2>2
<1>12. CalledFramesReturn'
  <2>1. /\ Len(frames) \in Nat /\ DOMAIN frames = 1..Len(frames)
        /\ DOMAIN frames' = 1..(Len(frames) + 1)
        /\ \A d \in DOMAIN frames : frames'[d] = frames[d]
        /\ frames'[Len(frames) + 1].ip = ip
        /\ frames'[Len(frames) + 1].called <=> b
    BY <1>1, <1>2, FramesEntered
  <2>2. frames'[Len(frames) + 1].ip = ip /\ (frames'[Len(frames) + 1].called <=> b)
    BY <2>1
  <2> SUFFICES ASSUME NEW d \in DOMAIN frames', frames'[d].called
               PROVE  /\ frames'[d].ip.at = "Resume"
                      /\ \A i \in DOMAIN suspended' :
                             frames'[d].ip = ResumeOf(suspended'[i].call) => suspended'[i].returned
    BY DEF CalledFramesReturn
  <2>3. CASE d \in DOMAIN frames
    <3>1. /\ frames'[d] = frames[d] /\ frames[d].ip.at = "Resume"
          /\ \A i \in DOMAIN suspended :
                 frames[d].ip = ResumeOf(suspended[i].call) => suspended[i].returned
      BY <2>1, <2>3 DEF CalledInv, CalledFramesReturn
    <3>2. pending # NoCall => frames[d].ip # ResumeOf(pending)
      BY <1>4, <2>3 DEF CalledInv, TagsAreDistinct, ResumeOf
    <3> SUFFICES ASSUME NEW i \in DOMAIN suspended', frames[d].ip = ResumeOf(suspended'[i].call)
                 PROVE  suspended'[i].returned
      BY <3>1
    <3>3. suspended'[i] # new \/ pending = NoCall
      BY <3>2, <1>10
    <3> QED BY <1>9, <3>1, <3>3
  <2>4. CASE d = Len(frames) + 1
    <3>1. b /\ frames'[d].ip = ip
      BY <2>2, <2>4, Zenon
    <3>2. ip = ResumeOf(pending) /\ pending \in Calls
      BY <1>3, <1>4, <3>1, CallsAssumption
    <3>3. ip.at = "Resume" /\ ip.call = pending
      BY <3>2 DEF ResumeOf
    <3> SUFFICES ASSUME NEW i \in DOMAIN suspended', ip = ResumeOf(suspended'[i].call)
                 PROVE  suspended'[i].returned
      BY <3>1, <3>3
    <3>4. suspended'[i].call = pending
      BY <3>3 DEF ResumeOf
    <3>5. ~(i \in DOMAIN suspended /\ suspended'[i] = suspended[i])
      BY <3>4 DEF IInv, CallsAreDistinct
    <3>6. suspended'[i] = new
      BY <1>9, <3>5
    <3> QED BY <3>1, <3>6, <1>10, Zenon
  <2> QED BY <2>1, <2>3, <2>4
<1> QED BY <1>6, <1>7, <1>11, <1>12 DEF CalledInv

\* Fewer parked calls, the receivers of the rest as they were.
LEMMA CalledFewer ==
    ASSUME IInv, CalledInv, UNCHANGED <<request, ip, frames>>,
           \A i \in DOMAIN suspended' : /\ i \in DOMAIN suspended /\ suspended'[i] = suspended[i]
                                        /\ chan'[suspended[i].call] = chan[suspended[i].call],
           request # NoCall /\ chan'[request] = "Waiting" =>
               chan[request] = "Waiting" /\ pending' = pending
    PROVE  CalledInv'
<1>1. RequestIsPending'
  BY DEF CalledInv, RequestIsPending
<1>2. TagsAreDistinct'
  BY DEF CalledInv, TagsAreDistinct
<1>3. SendersHaveReceivers'
  <2> SUFFICES ASSUME NEW i \in DOMAIN suspended'
               PROVE  suspended'[i].returned <=> chan'[suspended'[i].call] = "Waiting"
    BY DEF SendersHaveReceivers
  <2>1. i \in DOMAIN suspended /\ suspended'[i] = suspended[i]
    OBVIOUS
  <2>2. chan'[suspended[i].call] = chan[suspended[i].call]
    OBVIOUS
  <2>3. suspended[i].returned <=> chan[suspended[i].call] = "Waiting"
    BY <2>1 DEF CalledInv, SendersHaveReceivers
  <2> QED BY <2>1, <2>2, <2>3, Zenon
<1>4. CalledFramesReturn'
  BY DEF CalledInv, CalledFramesReturn
<1> QED BY <1>1, <1>2, <1>3, <1>4 DEF CalledInv

\* A new handler's tag is on no frame.
LEMMA CalledServiceEntry == ASSUME IInv, CalledInv, ServiceEntry PROVE CalledInv'
<1>1. /\ pc = "Guest" /\ pending = NoCall
      /\ UNCHANGED <<suspended, request, chan, frames>>
  BY DEF ServiceEntry, IInv, PendingIsLive
<1>2. CASE exit # NoExit
  <2>1. UNCHANGED <<pending, ip>>
    BY <1>2 DEF ServiceEntry
  <2> QED BY <1>1, <2>1, CalledUntouched
<1>3. CASE exit = NoExit
  <2>1. PICK c \in FreshCalls : pending' = c /\ ip' = ResumeOf(c)
    BY <1>3 DEF ServiceEntry
  <2>2. ip'.call = c /\ \A d \in DOMAIN frames : frames[d].ip.call # c
    BY <2>1 DEF FreshCalls, ResumeOf
  <2>3. RequestIsPending'
    BY <1>1 DEF CalledInv, RequestIsPending
  <2>4. TagsAreDistinct'
    BY <1>1, <2>2 DEF CalledInv, TagsAreDistinct
  <2>5. SendersHaveReceivers' /\ CalledFramesReturn'
    BY <1>1 DEF CalledInv, SendersHaveReceivers, CalledFramesReturn
  <2> QED BY <2>3, <2>4, <2>5 DEF CalledInv
<1> QED BY <1>2, <1>3

\* Resuming, releasing and abandoning take calls off the driver's stack.
LEMMA CalledTakenOff ==
    ASSUME IInv, CalledInv, ResumeEntry \/ Release \/ abandon_suspended_calls
    PROVE  CalledInv'
<1>0. /\ Len(suspended) \in Nat /\ DOMAIN suspended = 1..Len(suspended)
      /\ suspended \in Seq(Parked)
      /\ \A i \in DOMAIN suspended : suspended[i].call \in Calls
      /\ \A i, j \in DOMAIN suspended : i # j => suspended[i].call # suspended[j].call
      /\ \A i \in DOMAIN suspended : suspended[i].call # pending
  BY ParkedTypes DEF IInv, CallsAreDistinct
<1>1. UNCHANGED <<request, ip, frames>> /\ chan \in [Calls -> {"Idle", "Waiting", "Returned"}]
      /\ request \in Calls \cup {NoCall} /\ pending \in Calls \cup {NoCall}
  BY DEF ResumeEntry, Release, abandon_suspended_calls, guest, IInv, TypeOK
<1>2. ASSUME suspended # <<>>, suspended' = Front(suspended)
      PROVE  /\ Last(suspended).call \in Calls
             /\ \A i \in DOMAIN suspended' :
                    /\ i \in DOMAIN suspended /\ suspended'[i] = suspended[i]
                    /\ suspended[i].call \in Calls
                    /\ suspended[i].call # Last(suspended).call
  <2>1. /\ Len(suspended) \in Nat \ {0} /\ Last(suspended) = suspended[Len(suspended)]
        /\ DOMAIN suspended' = 1..(Len(suspended) - 1)
        /\ \A i \in DOMAIN suspended' : suspended'[i] = suspended[i]
    BY <1>0, <1>2, Popped
  <2> QED BY <1>0, <2>1
<1>3. CASE ResumeEntry
  <2>1. pending = NoCall
    BY <1>3 DEF ResumeEntry, IInv, PendingIsLive
  <2>2. ~(request # NoCall /\ chan[request] = "Waiting")
    BY <2>1 DEF CalledInv, RequestIsPending
  <2>3. CASE UNCHANGED <<pending, suspended, chan>>
    BY <1>1, <2>3, CalledUntouched
  <2>4. CASE suspended # <<>> /\ resume_call
    <3>1. suspended' = Front(suspended)
          /\ chan' \in {chan, [chan EXCEPT ![Last(suspended).call] = "Returned"]}
      BY <2>4 DEF resume_call
    <3>2. \A c \in Calls : chan'[c] = "Waiting" => chan[c] = "Waiting"
      BY <1>1, <1>2, <2>4, <3>1
    <3>3. \A c \in Calls : c # Last(suspended).call => chan'[c] = chan[c]
      BY <1>1, <1>2, <2>4, <3>1
    <3> QED BY <1>1, <1>2, <2>2, <2>4, <3>1, <3>2, <3>3, CalledFewer
  <2> QED BY <1>3, <2>3, <2>4 DEF ResumeEntry
<1>4. CASE Release
  <2>1. CASE pending # NoCall
    <3>1. pending' = NoCall /\ suspended' = suspended /\ chan' = [chan EXCEPT ![pending] = "Idle"]
      BY <1>4, <2>1 DEF Release, DropCall
    <3>2. /\ \A i \in DOMAIN suspended : chan'[suspended[i].call] = chan[suspended[i].call]
          /\ chan'[pending] = "Idle"
          /\ \A c \in Calls : chan'[c] = "Waiting" => chan[c] = "Waiting"
      BY <1>0, <1>1, <2>1, <3>1
    <3>3. request # NoCall => chan'[request] # "Waiting"
      BY <1>1, <3>2 DEF CalledInv, RequestIsPending
    <3> QED BY <1>1, <3>1, <3>2, <3>3, CalledFewer
  <2>2. CASE pending = NoCall
    <3>1. /\ suspended # <<>> /\ suspended' = Front(suspended)
          /\ chan' = [chan EXCEPT ![Last(suspended).call] = "Idle"]
      BY <1>4, <2>2 DEF Release, DropCall
    <3>2. /\ \A c \in Calls : chan'[c] = "Waiting" => chan[c] = "Waiting"
          /\ \A c \in Calls : c # Last(suspended).call => chan'[c] = chan[c]
      BY <1>1, <1>2, <3>1
    <3>3. ~(request # NoCall /\ chan[request] = "Waiting")
      BY <2>2 DEF CalledInv, RequestIsPending
    <3> QED BY <1>1, <1>2, <3>1, <3>2, <3>3, CalledFewer
  <2> QED BY <2>1, <2>2
<1>5. CASE abandon_suspended_calls
  <2>1. /\ suspended' = <<>> /\ pending' = pending
        /\ \A c \in Calls : chan'[c] = "Waiting" => chan[c] = "Waiting"
    BY <1>5 DEF abandon_suspended_calls
  <2>2. DOMAIN suspended' = {}
    BY <2>1
  <2> QED BY <1>1, <2>1, <2>2, CalledFewer
<1> QED BY <1>3, <1>4, <1>5

\* Every step keeps the callers of the frames.
LEMMA CalledStep == IInv /\ CalledInv /\ [Next]_vars => CalledInv'
<1> SUFFICES ASSUME IInv, CalledInv, [Next]_vars PROVE CalledInv'
  OBVIOUS
<1>0. GuestOK
  BY TypesSplit DEF IInv
<1>1. CASE UNCHANGED vars
  BY <1>1, CalledUntouched DEF vars, guest
<1>2. CASE PollStart \/ DeliverExit \/ GuestStops \/ ReturnExit \/ RequestExit
  <2>1. UNCHANGED <<pending, suspended, chan, request, ip, frames>>
    BY <1>2 DEF PollStart, DeliverExit, GuestStops, ReturnExit, RequestExit, guest
  <2> QED BY <2>1, CalledUntouched
<1>3. CASE DeliverNothing \/ DeliverFaults
  <2>1. UNCHANGED <<pending, suspended, chan, ip, frames>> /\ request' \in {request, NoCall}
    BY <1>3 DEF DeliverNothing, DeliverFaults, Invocation, guest
  <2> QED BY <2>1, CalledUntouched
<1>4. CASE GuestExecutes \/ GuestStepsSuccessor
  <2>1. /\ UNCHANGED <<pending, suspended, chan, request>>
        /\ Iret \/ Ordinary \/ EnterVector(FALSE) \/ UNCHANGED guest
    BY <1>4 DEF GuestExecutes, GuestStepsSuccessor
  <2>2. CASE UNCHANGED guest
    BY <2>1, <2>2, CalledUntouched DEF guest
  <2> QED BY <1>0, <2>1, <2>2, CalledGuest
<1>5. CASE GuestInhibits
  BY <1>5, CalledUntouched DEF GuestInhibits
<1>6. CASE step
  <2>1. /\ UNCHANGED <<pending, suspended, chan, request>>
        /\ \/ Iret \/ Ordinary \/ EnterVector(FALSE)
           \/ ip' \in {ResumeOf(NoCall), At("Iret")} /\ UNCHANGED frames
    BY <1>6 DEF step
  <2>2. CASE ip' \in {ResumeOf(NoCall), At("Iret")} /\ UNCHANGED frames
    <3>1. ip'.call = NoCall /\ UNCHANGED frames
      BY <2>2 DEF ResumeOf, At
    <3>2. TagsAreDistinct'
      BY <3>1 DEF CalledInv, TagsAreDistinct
    <3> QED BY <2>1, <3>1, <3>2
            DEF CalledInv, RequestIsPending, SendersHaveReceivers, CalledFramesReturn
  <2> QED BY <1>0, <2>1, <2>2, CalledGuest
<1> QED BY <1>1, <1>2, <1>3, <1>4, <1>5, <1>6, CalledHandlerPoll, CalledEnters,
           CalledServiceEntry, CalledTakenOff DEF Next, run

-----------------------------------------------------------------------------
(* The properties of every run.                                            *)

\* The parts of IInv hold throughout.
THEOREM Invariance == Spec => []IInv
BY InitIInv, Step, PTL DEF Spec

\* Every variable keeps its type.
THEOREM TypeCorrect == Spec => []TypeOK
<1>1. IInv => TypeOK
  BY DEF IInv
<1> QED BY <1>1, Invariance, PTL

\* Whatever interrupts nest, faults, exits and abandonments come in between,
\* the call that a resume byte continues is the one that established it.
THEOREM StacksAgree == Spec => []ParkedCallsMatchFrames
<1>1. IInv => ParkedCallsMatchFrames
  BY DEF IInv
<1> QED BY <1>1, Invariance, PTL

\* A handler is never polled after the sender of the interrupt it awaits was
\* dropped, so that "interrupt caller retained until return" cannot fail.
THEOREM CallersAreKept == Spec => []CallersAreAnswered
<1>1. IInv => CallersAreAnswered
  <2> SUFFICES ASSUME IInv, pc = "Polling"
               PROVE  /\ chan[pending] = "Waiting" => request = pending
                      /\ chan[pending] = "Returned" => ip = ResumeOf(pending)
    BY DEF CallersAreAnswered
  <2>1. pending \in Calls /\ ip = ResumeOf(pending)
    BY DEF IInv, TypeOK, PendingIsLive
  <2>2. ASSUME chan[pending] = "Waiting" PROVE request = pending
    <3>1. \A i \in DOMAIN suspended : suspended[i].call # pending
      BY DEF IInv, CallsAreDistinct
    <3>2. ~\E i \in DOMAIN suspended : suspended[i] = [call |-> pending, returned |-> TRUE]
      BY <3>1
    <3> QED BY <2>1, <2>2, <3>2 DEF IInv, SendersAreHeld
  <2> QED BY <2>1, <2>2
<1> QED BY <1>1, Invariance, PTL

\* A request that outlived its caller never enters, in whatever later run: the
\* frames of interrupt calls and the senders of their completions are those of
\* handlers that wait.
THEOREM InterruptsHaveCallers == Spec => []CalledFramesHaveCallers
<1>1. Init => CalledInv
  <2> SUFFICES ASSUME Init PROVE CalledInv
    OBVIOUS
  <2>1. DOMAIN suspended = {} /\ DOMAIN frames = {} /\ request = NoCall
    BY DEF Init
  <2> QED BY <2>1 DEF CalledInv, RequestIsPending, TagsAreDistinct, SendersHaveReceivers,
                      CalledFramesReturn
<1>2. CalledInv => CalledFramesHaveCallers
  BY DEF CalledInv, SendersHaveReceivers, CalledFramesReturn, CalledFramesHaveCallers
<1> QED BY <1>1, <1>2, CalledStep, Invariance, PTL DEF Spec

\* However a run ends: a requested exit stops execution at once and leaves no
\* call, no waiting caller and no exit behind; any other end keeps them all.
THEOREM RunsEndCleanly == Spec => EndsAreClean
<1>1. ASSUME IInv, [Next]_vars
      PROVE  [exit # NoExit /\ pc \in {"Deliver", "Return"} =>
                 /\ UNCHANGED guest
                 /\ pc' \in {"Return", "Idle"}
                 /\ pc' = "Idle" => result' \in ExitRequests]_vars
  <2> SUFFICES ASSUME Next, exit # NoExit, pc \in {"Deliver", "Return"}
               PROVE  /\ UNCHANGED guest
                      /\ pc' \in {"Return", "Idle"}
                      /\ pc' = "Idle" => result' \in ExitRequests
    BY <1>1
  <2>1. DeliverExit \/ Release \/ ReturnExit
    BY DEF Next, run, PollStart, HandlerPoll, DeliverNothing, DeliverEnters, DeliverFaults,
           GuestExecutes, GuestInhibits, GuestStepsSuccessor, GuestStops, ServiceEntry, ResumeEntry,
           RequestExit, abandon_suspended_calls, step
  <2>2. CASE DeliverExit
    BY <2>2 DEF DeliverExit
  <2>3. CASE Release
    BY <2>3 DEF Release
  <2>4. CASE ReturnExit
    BY <1>1, <2>4 DEF ReturnExit, IInv, PendingIsLive
  <2> QED BY <2>1, <2>2, <2>3, <2>4
<1>2. ASSUME IInv, [Next]_vars
      PROVE  [pc = "Return" /\ pc' = "Idle" =>
                 /\ pending' = NoCall
                 /\ suspended' = <<>>
                 /\ exit' = NoExit
                 /\ \A c \in Calls : chan'[c] = "Idle"]_vars
  <2> SUFFICES ASSUME Next, pc = "Return", pc' = "Idle"
               PROVE  /\ pending' = NoCall /\ suspended' = <<>> /\ exit' = NoExit
                      /\ \A c \in Calls : chan'[c] = "Idle"
    BY <1>2
  <2>1. ReturnExit
    BY DEF Next, run, PollStart, HandlerPoll, DeliverExit, DeliverNothing, DeliverEnters,
           DeliverFaults, GuestExecutes, GuestInhibits, GuestStepsSuccessor, GuestStops, ServiceEntry,
           ResumeEntry, Release, RequestExit, abandon_suspended_calls, step
  <2> QED BY <1>2, <2>1, NothingReceives DEF ReturnExit
<1>3. ASSUME IInv, [Next]_vars
      PROVE  [pc \notin {"Idle", "Return"} /\ pc' = "Idle" =>
                 /\ pending' = pending
                 /\ suspended' = suspended
                 /\ \A c \in Calls : chan[c] = "Waiting" =>
                        \/ request' = c
                        \/ \E i \in DOMAIN suspended :
                               suspended[i] = [call |-> c, returned |-> TRUE]]_vars
  <2> SUFFICES ASSUME Next, pc \notin {"Idle", "Return"}, pc' = "Idle"
               PROVE  /\ pending' = pending /\ suspended' = suspended
                      /\ \A c \in Calls : chan[c] = "Waiting" =>
                             \/ request' = c
                             \/ \E i \in DOMAIN suspended :
                                    suspended[i] = [call |-> c, returned |-> TRUE]
    BY <1>3
  <2>1. DeliverNothing \/ DeliverFaults \/ GuestStops \/ ResumeEntry
    BY DEF Next, run, PollStart, HandlerPoll, DeliverExit, DeliverEnters, GuestExecutes,
           GuestInhibits, GuestStepsSuccessor, ServiceEntry, Release, ReturnExit, RequestExit,
           abandon_suspended_calls, step
  <2>2. \A c \in Calls : chan[c] = "Waiting" =>
            \/ c = pending /\ c = request
            \/ \E i \in DOMAIN suspended : suspended[i] = [call |-> c, returned |-> TRUE]
    BY <1>3 DEF IInv, SendersAreHeld
  <2>3. CASE DeliverNothing
    BY <2>2, <2>3, CallsAssumption DEF DeliverNothing, Invocation
  <2>4. CASE DeliverFaults
    BY <2>2, <2>4, CallsAssumption DEF DeliverFaults, Invocation
  <2>5. CASE GuestStops
    BY <2>2, <2>5 DEF GuestStops
  <2>6. CASE ResumeEntry
    BY <2>2, <2>6 DEF ResumeEntry, resume_call
  <2> QED BY <2>1, <2>3, <2>4, <2>5, <2>6
<1> QED BY <1>1, <1>2, <1>3, Invariance, PTL
        DEF Spec, EndsAreClean, ExitStopsExecution, ReturnRetainsNothing, StopsRetainCalls
=============================================================================
