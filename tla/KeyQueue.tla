------------------------------ MODULE KeyQueue ------------------------------
(***************************************************************************)
(* What the BIOS keyboard buffer promises: a first-in first-out queue of   *)
(* keystrokes with a fixed capacity.  A store into a full queue is refused *)
(* and changes nothing; a reader takes the oldest keystroke its interface  *)
(* can express, and those before it are discarded.                         *)
(***************************************************************************)
EXTENDS Naturals, Sequences

CONSTANTS
  Capacity,        \* how many the queue holds
  Modes,           \* the interfaces that read it
  Expresses(_, _)  \* whether an interface can return a keystroke

VARIABLES
  queue,   \* the keystrokes, oldest first
  outcome  \* what the last operation did: [op, ok, stroke]

Nothing == [op |-> "none", ok |-> FALSE, stroke |-> <<>>]

Init == queue = <<>> /\ outcome = Nothing

Put(k) ==
  \/ /\ Len(queue) < Capacity
     /\ queue' = Append(queue, k)
     /\ outcome' = [op |-> "put", ok |-> TRUE, stroke |-> <<k>>]
  \/ /\ Len(queue) = Capacity
     /\ queue' = queue
     /\ outcome' = [op |-> "put", ok |-> FALSE, stroke |-> <<k>>]

(* The queue from its first keystroke that the interface can return.       *)
From(mode, rest) ==
  \E n \in 0..Len(queue) :
    /\ \A i \in 1..n : ~Expresses(mode, queue[i])
    /\ rest = SubSeq(queue, n + 1, Len(queue))
    /\ rest # <<>> => Expresses(mode, rest[1])

Oldest(rest) == IF rest = <<>> THEN <<>> ELSE <<rest[1]>>

Look(mode) ==
  \E n \in 0..Len(queue) : LET rest == SubSeq(queue, n + 1, Len(queue)) IN
    /\ From(mode, rest)
    /\ queue' = rest
    /\ outcome' = [op |-> "look", ok |-> rest # <<>>, stroke |-> Oldest(rest)]

Take(mode) ==
  \E n \in 0..Len(queue) : LET rest == SubSeq(queue, n + 1, Len(queue)) IN
    /\ From(mode, rest)
    /\ queue' = IF rest = <<>> THEN rest ELSE Tail(rest)
    /\ outcome' = [op |-> "take", ok |-> rest # <<>>, stroke |-> Oldest(rest)]

Clear == queue' = <<>> /\ outcome' = [op |-> "clear", ok |-> TRUE, stroke |-> <<>>]

(* What is put is what the operation reports.                              *)
Next ==
  \/ outcome'.op = "put" /\ Put(outcome'.stroke[1])
  \/ \E m \in Modes : Look(m) \/ Take(m)
  \/ Clear

Spec == Init /\ [][Next]_<<queue, outcome>>
=============================================================================
