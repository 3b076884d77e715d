------------------------ MODULE BiosKeyboardProofs -------------------------
(***************************************************************************)
(* The ring of BiosKeyboard implements the queue of KeyQueue, and its      *)
(* waiting readers are woken, for every size of the ring, every set of     *)
(* keystrokes and any nesting of reads.                                    *)
(***************************************************************************)
EXTENDS BiosKeyboard, SequenceTheorems, WellFoundedInduction, TLAPS

Positions == 0..(Slots - 1)
Read == [mode : Modes, waits : BOOLEAN]

(* Type invariant.  A slot may hold anything: nothing below depends on     *)
(* what a keystroke is.                                                    *)
TypeOK ==
  /\ head \in Positions /\ tail \in Positions
  /\ slots = [i \in Positions |-> slots[i]]
  /\ reads \in Seq(Read)
  /\ waker \in BOOLEAN /\ woken \in BOOLEAN

(* The innermost waiting read has a waker stored, or was woken; with a     *)
(* keystroke in the ring it was.                                           *)
WakerIsThere ==
  reads # <<>> /\ Last(reads).waits => waker \/ woken

IInv == TypeOK /\ WakerIsThere /\ ReadersAreWoken

-----------------------------------------------------------------------------
(* Positions.                                                              *)

(* One wrap is a subtraction.                                              *)
LEMMA Wraps ==
  ASSUME BiosKeyboardAssumption, NEW a \in 0..(2 * Slots - 1)
  PROVE  a % Slots = IF a < Slots THEN a ELSE a - Slots
<1> USE DEF BiosKeyboardAssumption
<1>1. CASE a < Slots
  BY <1>1
<1>2. CASE a >= Slots
  <2>1. a % Slots \in 0..(Slots - 1)
    OBVIOUS
  <2>2. a = Slots * (a \div Slots) + (a % Slots)
    OBVIOUS
  <2> QED BY <1>2, <2>1, <2>2
<1> QED BY <1>1, <1>2

(* A set of naturals has a least element.                                  *)
LEMMA Least ==
  ASSUME NEW T \in SUBSET Nat, T # {}
  PROVE  \E x \in T : \A y \in T : x <= y
<1>1. PICK x \in T : \A y \in T : ~(<<y, x>> \in OpToRel(<, Nat))
  BY WFMin, NatLessThanWellFounded, Zenon
<1>2. ASSUME NEW y \in T PROVE x <= y
  <2>1. x \in Nat /\ y \in Nat
    OBVIOUS
  <2>2. <<y, x>> \notin {ss \in Nat \X Nat : ss[1] < ss[2]}
    BY <1>1, Zenon DEF OpToRel
  <2> QED BY <2>1, <2>2, SMT
<1> QED BY <1>2

(* The position n after h.                                                 *)
Place(h, n) == (h + n) % Slots

(* The distance from one position to another, as the BIOS wraps it, ...    *)
LEMMA Distance ==
  ASSUME BiosKeyboardAssumption, NEW from \in Positions, NEW to \in Positions
  PROVE  /\ (to + Slots - from) % Slots = IF to >= from THEN to - from ELSE to + Slots - from
         /\ (to + Slots - from) % Slots \in Positions
BY Wraps DEF BiosKeyboardAssumption, Positions

(* ... and the position n ahead of another, for at most one turn.          *)
LEMMA Further ==
  ASSUME BiosKeyboardAssumption, NEW from \in Positions, NEW n \in 0..Slots
  PROVE  /\ Place(from, n) = IF from + n < Slots THEN from + n ELSE from + n - Slots
         /\ Place(from, n) \in Positions
BY Wraps DEF Place, BiosKeyboardAssumption, Positions

(* The words from position h up to position t, as a sequence.              *)
Between(h, t) == (t + Slots - h) % Slots
Words(h, t, w) == [i \in 1..Between(h, t) |-> w[(h + i - 1) % Slots]]

(* It has as many words as the distance, each the one at its place.        *)
LEMMA WordsOf ==
  ASSUME BiosKeyboardAssumption, NEW h \in Positions, NEW t \in Positions,
         NEW w, NEW V, \A p \in Positions : w[p] \in V
  PROVE  /\ Between(h, t) = IF t >= h THEN t - h ELSE t + Slots - h
         /\ Between(h, t) \in Positions
         /\ Words(h, t, w) \in Seq(V) /\ Len(Words(h, t, w)) = Between(h, t)
         /\ \A i \in 1..Between(h, t) : Words(h, t, w)[i] = w[Place(h, i - 1)]
<1> DEFINE n == Between(h, t)
           q == Words(h, t, w)
<1>1. n = (IF t >= h THEN t - h ELSE t + Slots - h) /\ n \in Positions
  BY Distance DEF Between
<1>2. n \in Nat /\ n < Slots
  BY <1>1 DEF Positions, BiosKeyboardAssumption
<1>3. \A i \in 1..n : h + i - 1 = h + (i - 1) /\ i - 1 \in 0..Slots
  BY <1>2 DEF Positions, BiosKeyboardAssumption
<1>6. q = [i \in 1..n |-> w[(h + i - 1) % Slots]]
  BY DEF Words
<1> HIDE DEF n, q
<1>4. \A i \in 1..n : q[i] = w[Place(h, i - 1)] /\ q[i] \in V
  BY <1>3, <1>6, Further DEF Place
<1>5. q \in Seq(V) /\ Len(q) = n
  <2>1. q \in [1..n -> V]
    BY <1>4, <1>6
  <2> QED BY <1>2, <2>1
<1> QED BY <1>1, <1>4, <1>5 DEF n, q

(* The ring's count and the queue it stands for, ...                       *)
LEMMA RingIsQueue ==
  ASSUME BiosKeyboardAssumption, TypeOK, NEW V, \A p \in Positions : slots[p] \in V
  PROVE  /\ Count \in Positions
         /\ Count = IF tail >= head THEN tail - head ELSE tail + Slots - head
         /\ Queue \in Seq(V) /\ Len(Queue) = Count
         /\ \A i \in 1..Count : Queue[i] = slots[Place(head, i - 1)]
<1>1. head \in Positions /\ tail \in Positions
  BY DEF TypeOK
<1>2. Count = Between(head, tail) /\ Queue = Words(head, tail, slots)
  BY Zenon DEF Count, Queue, Between, Words
<1> QED BY <1>1, <1>2, WordsOf

(* ... and the same after a step.                                          *)
LEMMA RingIsQueueNext ==
  ASSUME BiosKeyboardAssumption, TypeOK', NEW V, \A p \in Positions : slots'[p] \in V
  PROVE  /\ Count' \in Positions
         /\ Count' = IF tail' >= head' THEN tail' - head' ELSE tail' + Slots - head'
         /\ Queue' \in Seq(V) /\ Len(Queue') = Count'
         /\ \A i \in 1..Count' : Queue'[i] = slots'[Place(head', i - 1)]
<1>1. head' \in Positions /\ tail' \in Positions
  BY DEF TypeOK
<1>2. Count' = Between(head', tail') /\ Queue' = Words(head', tail', slots')
  BY Zenon DEF Count, Queue, Between, Words
<1> QED BY <1>1, <1>2, WordsOf

(* What peek_key skips: the keystrokes before the first that the interface *)
(* can return, or all of them.                                             *)
LEMMA Skips ==
  ASSUME BiosKeyboardAssumption, TypeOK, NEW mode
  PROVE  /\ Skipped(mode) \in 0..Count
         /\ \A i \in 1..Skipped(mode) : ~Expresses(mode, Queue[i])
         /\ Skipped(mode) < Count => Expresses(mode, Queue[Skipped(mode) + 1])
<1> DEFINE T == {i \in 1..Count : Expresses(mode, Queue[i])}
           First1(i) == Expresses(mode, Queue[i]) /\ \A j \in 1..(i - 1) : ~Expresses(mode, Queue[j])
<1>1. Count \in Nat
  BY Distance DEF TypeOK, Count, Positions
<1>2. CASE T = {}
  <2>1. Skipped(mode) = Count
    BY <1>2 DEF Skipped
  <2> QED BY <1>1, <1>2, <2>1
<1>3. CASE T # {}
  <2>1. PICK x \in T : \A y \in T : x <= y
    <3>1. T \in SUBSET Nat
      BY <1>1
    <3> HIDE DEF T
    <3> QED BY <1>3, <3>1, Least
  <2>2. x \in 1..Count /\ First1(x)
    <3>1. ASSUME NEW j \in 1..(x - 1) PROVE ~Expresses(mode, Queue[j])
      BY <1>1, <2>1
    <3> QED BY <3>1
  <2>3. Skipped(mode) = (CHOOSE i \in 1..Count : First1(i)) - 1
    BY <2>2, Zenon DEF Skipped
  <2> DEFINE c == CHOOSE i \in 1..Count : First1(i)
  <2>4. c \in 1..Count /\ First1(c)
    BY <2>2, Zenon
  <2> HIDE DEF c
  <2> QED BY <1>1, <2>3, <2>4 DEF c
<1> QED BY <1>2, <1>3

-----------------------------------------------------------------------------
(* What the operations do to the queue.                                    *)

(* The head moves past n keystrokes.                                       *)
LEMMA MoveHead ==
  ASSUME BiosKeyboardAssumption, TypeOK, TypeOK', NEW n \in 0..Count,
         head' = Ahead(n), tail' = tail, slots' = slots
  PROVE  Count' = Count - n /\ Queue' = SubSeq(Queue, n + 1, Len(Queue))
<1>n. /\ Slots \in Nat /\ Slots > 0
      /\ head \in Nat /\ head < Slots /\ tail \in Nat /\ tail < Slots
      /\ head' \in Nat /\ head' < Slots /\ tail' \in Nat /\ tail' < Slots
  BY DEF TypeOK, Positions, BiosKeyboardAssumption
<1> DEFINE V == {slots[p] : p \in Positions}
<1>1. \A p \in Positions : slots[p] \in V
  OBVIOUS
<1> HIDE DEF V
<1>2. /\ Count \in Positions
      /\ Count = IF tail >= head THEN tail - head ELSE tail + Slots - head
      /\ Queue \in Seq(V) /\ Len(Queue) = Count
      /\ \A i \in 1..Count : Queue[i] = slots[Place(head, i - 1)]
  BY <1>1, RingIsQueue
<1>3. /\ Count' \in Positions
      /\ Count' = IF tail' >= head' THEN tail' - head' ELSE tail' + Slots - head'
      /\ Queue' \in Seq(V) /\ Len(Queue') = Count'
      /\ \A i \in 1..Count' : Queue'[i] = slots'[Place(head', i - 1)]
  BY <1>1, RingIsQueueNext
<1> HIDE DEF Queue, Count
<1>4. Count \in Nat /\ Count < Slots /\ n \in Nat /\ n <= Count /\ n \in 0..Slots
  BY <1>2 DEF Positions, BiosKeyboardAssumption
<1>5. head' = IF head + n < Slots THEN head + n ELSE head + n - Slots
  BY <1>4, Further DEF Ahead, Place, TypeOK
<1>6. Count' = Count - n
  BY <1>n, <1>2, <1>3, <1>4, <1>5
<1> DEFINE rest == SubSeq(Queue, n + 1, Count)
<1>7. rest \in Seq(V) /\ Len(rest) = Count - n /\ \A i \in 1..(Count - n) : rest[i] = Queue[n + i]
  <2>1. \A i \in (n + 1)..Count : Queue[i] \in V
    BY <1>2, <1>4, ElementOfSeq
  <2>2. /\ rest \in Seq(V)
        /\ Len(rest) = IF n + 1 <= Count THEN Count - (n + 1) + 1 ELSE 0
        /\ \A i \in 1..(Count - (n + 1) + 1) : rest[i] = Queue[n + 1 + i - 1]
    BY <1>4, <2>1, SubSeqProperties
  <2> HIDE DEF rest
  <2> QED BY <1>4, <2>2
<1>8. ASSUME NEW i \in 1..(Count - n) PROVE Queue'[i] = Queue[n + i]
  <2>1. i - 1 \in 0..Slots /\ n + i \in 1..Count /\ n + i - 1 \in 0..Slots
    BY <1>n, <1>4
  <2>2. Place(head', i - 1)
          = IF head' + (i - 1) < Slots THEN head' + (i - 1) ELSE head' + (i - 1) - Slots
    BY <2>1, Further DEF TypeOK
  <2>3. Place(head, n + i - 1)
          = IF head + (n + i - 1) < Slots THEN head + (n + i - 1) ELSE head + (n + i - 1) - Slots
    BY <2>1, Further DEF TypeOK
  <2>4. Place(head', i - 1) = Place(head, n + i - 1)
    BY <1>n, <1>4, <1>5, <2>1, <2>2, <2>3
  <2>5. Queue'[i] = slots[Place(head', i - 1)]
    BY <1>3, <1>6
  <2>6. Queue[n + i] = slots[Place(head, n + i - 1)]
    BY <1>2, <2>1
  <2> QED BY <2>4, <2>5, <2>6
<1> HIDE DEF rest
<1>9. Queue' = rest
  BY <1>3, <1>6, <1>7, <1>8, SeqEqual
<1> QED BY <1>2, <1>6, <1>9 DEF rest

(* push stores behind the last keystroke, or finds the queue full.         *)
LEMMA PushAppends ==
  ASSUME BiosKeyboardAssumption, TypeOK, TypeOK', NEW k, Push(k)
  PROVE  /\ Len(Queue) \in Nat /\ Len(Queue) <= Slots - 1
         /\ Full <=> Len(Queue) = Slots - 1
         /\ Queue' = IF Full THEN Queue ELSE Append(Queue, k)
<1>n. /\ Slots \in Nat /\ Slots > 0
      /\ head \in Nat /\ head < Slots /\ tail \in Nat /\ tail < Slots
      /\ head' \in Nat /\ head' < Slots /\ tail' \in Nat /\ tail' < Slots
  BY DEF TypeOK, Positions, BiosKeyboardAssumption
<1> DEFINE V == {slots[p] : p \in Positions} \cup {k}
<1>1. \A p \in Positions : slots[p] \in V /\ slots'[p] \in V
  BY DEF Push, TypeOK
<1>0. k \in V
  OBVIOUS
<1> HIDE DEF V
<1>2. /\ Count \in Positions
      /\ Count = IF tail >= head THEN tail - head ELSE tail + Slots - head
      /\ Queue \in Seq(V) /\ Len(Queue) = Count
      /\ \A i \in 1..Count : Queue[i] = slots[Place(head, i - 1)]
  BY <1>1, RingIsQueue
<1>3. /\ Count' \in Positions
      /\ Count' = IF tail' >= head' THEN tail' - head' ELSE tail' + Slots - head'
      /\ Queue' \in Seq(V) /\ Len(Queue') = Count'
      /\ \A i \in 1..Count' : Queue'[i] = slots'[Place(head', i - 1)]
  BY <1>1, RingIsQueueNext
<1>4. Advance(tail) = IF tail + 1 < Slots THEN tail + 1 ELSE tail + 1 - Slots
  BY <1>n, Further DEF Advance, Place, TypeOK
<1>5. Full <=> Count = Slots - 1
  BY <1>n, <1>2, <1>4 DEF Full
<1>6. CASE Full
  BY <1>2, <1>5, <1>6 DEF Push, Queue, Count, Positions, BiosKeyboardAssumption
<1>7. CASE ~Full
  <2> HIDE DEF Queue, Count
  <2>1. head' = head /\ tail' = Advance(tail) /\ slots' = [slots EXCEPT ![tail] = k]
    BY <1>7 DEF Push
  <2>2. Count' = Count + 1 /\ Count + 1 < Slots
    <3>1. Count \in Nat /\ Count < Slots /\ Count # Slots - 1
      BY <1>n, <1>2, <1>5, <1>7 DEF Positions
    <3>2. /\ Count = IF tail >= head THEN tail - head ELSE tail + Slots - head
          /\ Count' = IF tail' >= head THEN tail' - head ELSE tail' + Slots - head
          /\ tail' = IF tail + 1 < Slots THEN tail + 1 ELSE tail + 1 - Slots
      BY <1>2, <1>3, <1>4, <2>1
    <3> QED BY <1>n, <3>1, <3>2
  <2>3. ASSUME NEW i \in 1..Count PROVE Queue'[i] = Queue[i]
    <3>1. i - 1 \in 0..Slots /\ i \in 1..Count'
      BY <1>2, <2>2 DEF Positions, BiosKeyboardAssumption
    <3>2. Place(head, i - 1) = IF head + (i - 1) < Slots THEN head + (i - 1) ELSE head + (i - 1) - Slots
      BY <3>1, Further DEF TypeOK
    <3>3. Place(head, i - 1) # tail
      BY <1>n, <1>2, <2>2, <3>1, <3>2
    <3>4. Queue'[i] = slots'[Place(head, i - 1)] /\ Queue[i] = slots[Place(head, i - 1)]
      BY <1>2, <1>3, <2>1, <3>1
    <3> QED BY <2>1, <3>3, <3>4
  <2>4. Queue'[Count + 1] = k
    <3>1. Count \in 0..Slots /\ Count + 1 \in 1..Count' /\ (Count + 1) - 1 = Count
      BY <1>2, <2>2 DEF Positions, BiosKeyboardAssumption
    <3>2. Place(head, Count) = IF head + Count < Slots THEN head + Count ELSE head + Count - Slots
      BY <3>1, Further DEF TypeOK
    <3>3. Place(head, Count) = tail
      BY <1>n, <1>2, <2>2, <3>1, <3>2
    <3>4. Queue'[Count + 1] = slots'[Place(head', (Count + 1) - 1)]
      BY <1>3, <3>1
    <3>5. tail \in DOMAIN slots
      BY DEF TypeOK
    <3> QED BY <2>1, <3>1, <3>3, <3>4, <3>5
  <2>5. /\ Append(Queue, k) \in Seq(V) /\ Len(Append(Queue, k)) = Count + 1
        /\ \A i \in 1..Count : Append(Queue, k)[i] = Queue[i]
        /\ Append(Queue, k)[Count + 1] = k
    BY <1>0, <1>2, AppendProperties
  <2>6. \A i \in 1..(Count + 1) : Queue'[i] = Append(Queue, k)[i]
    BY <1>2, <2>3, <2>4, <2>5 DEF Positions, BiosKeyboardAssumption
  <2>7. Queue' = Append(Queue, k)
    BY <1>3, <2>2, <2>5, <2>6, SeqEqual
  <2> QED BY <1>2, <1>5, <1>7, <2>7 DEF Positions, BiosKeyboardAssumption
<1> QED BY <1>6, <1>7

-----------------------------------------------------------------------------
(* Types and wake-ups.                                                     *)

(* Where a reader leaves the head.  A reader that finds nothing has        *)
(* emptied the ring; one that starts at an empty ring leaves it there.     *)
LEMMA Reading ==
  ASSUME BiosKeyboardAssumption, TypeOK, NEW mode
  PROVE  /\ Skipped(mode) \in 0..Count
         /\ Found(mode) => Skipped(mode) + 1 \in 0..Count
         /\ \A n \in 0..Count : Ahead(n) \in Positions
         /\ ~Found(mode) => Ahead(Skipped(mode)) = tail
         /\ Empty => ~Found(mode)
<1>1. /\ Count = IF tail >= head THEN tail - head ELSE tail + Slots - head
      /\ Count \in Positions
  BY Distance DEF Count, TypeOK
<1>2. /\ Slots \in Nat /\ Slots > 0
      /\ head \in Nat /\ head < Slots /\ tail \in Nat /\ tail < Slots
      /\ Count \in Nat /\ Count < Slots
  BY <1>1 DEF TypeOK, Positions, BiosKeyboardAssumption
<1>3. Skipped(mode) \in 0..Count
  BY Skips
<1>4. \A n \in 0..Count : n \in 0..Slots /\ Ahead(n) = Place(head, n)
  BY <1>2 DEF Ahead, Place
<1>5. \A n \in 0..Count : Ahead(n) \in Positions
  BY <1>4, Further DEF TypeOK
<1>6. ~Found(mode) => Skipped(mode) = Count
  BY <1>2, <1>3 DEF Found
<1>7. Ahead(Count) = tail
  <2>1. Count \in 0..Slots /\ Ahead(Count) = Place(head, Count)
    BY <1>2, <1>4
  <2>2. Place(head, Count) = IF head + Count < Slots THEN head + Count ELSE head + Count - Slots
    BY <2>1, Further DEF TypeOK
  <2> QED BY <1>1, <1>2, <2>1, <2>2
<1>8. Empty => ~Found(mode)
  BY <1>1, <1>2, <1>3 DEF Empty, Found
<1> QED BY <1>2, <1>3, <1>5, <1>6, <1>7, <1>8 DEF Found

(* A poll leaves the head on the ring; a reader that finds nothing leaves  *)
(* the ring empty.                                                         *)
LEMMA ReadTypes ==
  ASSUME BiosKeyboardAssumption, TypeOK, NEW mode, TryRead(mode)
  PROVE  /\ head' \in Positions /\ tail' = tail /\ slots' = slots
         /\ ~Found(mode) => Empty'
         /\ Empty => Empty'
<1>1. CASE Found(mode)
  <2>1. head' = Ahead(Skipped(mode) + 1)
    BY <1>1 DEF TryRead
  <2> QED BY <1>1, <2>1, Reading DEF TryRead
<1>2. CASE ~Found(mode)
  <2>1. Skipped(mode) + 0 = Skipped(mode)
    BY Skips
  <2>2. head' = Ahead(Skipped(mode))
    BY <1>2, <2>1 DEF TryRead
  <2> QED BY <1>2, <2>2, Reading DEF TryRead, Empty
<1> QED BY <1>1, <1>2

(* After an interrupt the innermost read is polled.                        *)
LEMMA ResumedReads ==
  ASSUME TypeOK, Resumed
  PROVE  reads' \in Seq(Read) /\ (reads' # <<>> => ~Last(reads').waits)
<1>1. /\ Len(reads) \in Nat /\ DOMAIN reads = 1..Len(reads)
      /\ \A i \in 1..Len(reads) : reads[i] \in Read
  BY DEF TypeOK
<1>2. \A r \in Read : [r EXCEPT !.waits = FALSE] \in Read /\ ~[r EXCEPT !.waits = FALSE].waits
  BY DEF Read
<1>3. reads' \in [1..Len(reads) -> Read]
  BY <1>1, <1>2 DEF Resumed
<1>4. reads' \in Seq(Read) /\ Len(reads') = Len(reads)
  BY <1>1, <1>3
<1>5. ASSUME reads' # <<>> PROVE ~Last(reads').waits
  <2>1. Len(reads) \in 1..Len(reads)
    BY <1>1, <1>4, <1>5, EmptySeq
  <2>2. reads'[Len(reads)] = [reads[Len(reads)] EXCEPT !.waits = FALSE]
    BY <1>1, <2>1 DEF Resumed
  <2> QED BY <1>1, <1>2, <1>4, <2>1, <2>2 DEF Last
<1> QED BY <1>4, <1>5

(* The read below a finished one is polled.                                *)
LEMMA FinishedReads ==
  ASSUME TypeOK, ReadFinishes
  PROVE  reads' \in Seq(Read) /\ (reads' # <<>> => ~Last(reads').waits)
<1>1. /\ Len(reads) \in Nat /\ Len(reads) > 0
      /\ \A i \in 1..Len(reads) : reads[i] \in Read
  BY EmptySeq DEF TypeOK, ReadFinishes, Polled
<1>2. \A r \in Read : [r EXCEPT !.waits = FALSE] \in Read /\ ~[r EXCEPT !.waits = FALSE].waits
  BY DEF Read
<1> DEFINE n == Len(reads) - 1
<1>0. n \in Nat /\ \A i \in 1..n : i \in 1..Len(reads)
  BY <1>1
<1>3. reads' = [i \in 1..n |-> IF i = n THEN [reads[i] EXCEPT !.waits = FALSE] ELSE reads[i]]
  BY DEF ReadFinishes
<1> HIDE DEF n
<1>4. reads' \in [1..n -> Read]
  BY <1>0, <1>1, <1>2, <1>3
<1>5. reads' \in Seq(Read) /\ Len(reads') = n
  BY <1>0, <1>4
<1>6. ASSUME reads' # <<>> PROVE ~Last(reads').waits
  <2>1. n \in 1..n
    BY <1>0, <1>5, <1>6, EmptySeq
  <2>2. reads'[n] = [reads[n] EXCEPT !.waits = FALSE]
    BY <1>3, <2>1
  <2> QED BY <1>0, <1>1, <1>2, <1>5, <2>1, <2>2 DEF Last
<1> QED BY <1>5, <1>6

(* A store keeps the types and wakes whoever waits.                        *)
LEMMA PushWakes ==
  ASSUME BiosKeyboardAssumption, IInv, NEW k, Push(k)
  PROVE  /\ head' \in Positions /\ tail' \in Positions
         /\ slots' = [i \in Positions |-> slots'[i]]
         /\ waker' \in BOOLEAN /\ woken' \in BOOLEAN
         /\ reads # <<>> /\ Last(reads).waits =>
              (waker' \/ woken') /\ (head' # tail' => woken')
<1>1. CASE Full
  BY <1>1 DEF Push, IInv, TypeOK, WakerIsThere, ReadersAreWoken, Empty
<1>2. CASE ~Full
  <2>1. Advance(tail) \in Positions
    BY Further DEF Advance, Place, IInv, TypeOK, Positions, BiosKeyboardAssumption
  <2>2. slots' = [slots EXCEPT ![tail] = k] /\ tail' = Advance(tail) /\ head' = head
    BY <1>2 DEF Push
  <2>3. waker' = FALSE /\ woken' = (woken \/ waker)
    BY <1>2 DEF Push
  <2>4. slots' = [i \in Positions |-> slots'[i]]
    BY <2>2 DEF IInv, TypeOK
  <2>5. waker' \in BOOLEAN /\ woken' \in BOOLEAN
    BY <2>3, Zenon
  <2>6. reads # <<>> /\ Last(reads).waits => woken'
    BY <2>3, Zenon DEF IInv, WakerIsThere
  <2> QED BY <2>1, <2>2, <2>4, <2>5, <2>6 DEF IInv, TypeOK
<1> QED BY <1>1, <1>2

(* Every operation keeps the invariant.                                    *)
LEMMA Step ==
  ASSUME BiosKeyboardAssumption, IInv, [Next]_vars
  PROVE  IInv'
<1> USE DEF IInv
<1>1. ASSUME NEW k, Push(k), Resumed \/ UNCHANGED reads PROVE IInv'
  <2>1. TypeOK'
    BY <1>1, PushWakes, ResumedReads DEF TypeOK
  <2>2. WakerIsThere' /\ ReadersAreWoken'
    BY <1>1, PushWakes, ResumedReads DEF WakerIsThere, ReadersAreWoken, Empty
  <2> QED BY <2>1, <2>2
<1>2. ASSUME NoPush, Resumed PROVE IInv'
  <2>1. TypeOK'
    BY <1>2, ResumedReads DEF NoPush, ring, TypeOK
  <2> QED BY <1>2, <2>1, ResumedReads DEF WakerIsThere, ReadersAreWoken
<1>3. ASSUME NEW b, Interrupt(b) PROVE IInv'
  <2>1. CASE tail' = head /\ UNCHANGED <<head, slots, reads, waker, woken>>
    BY <2>1 DEF TypeOK, WakerIsThere, ReadersAreWoken, Empty
  <2> QED BY <1>1, <1>2, <1>3, <2>1 DEF Interrupt
<1>4. ASSUME NEW m, PeekKey(m) PROVE IInv'
  <2>1. head' \in Positions /\ (Empty => Empty')
    BY <1>4, Reading DEF PeekKey, Empty
  <2> QED BY <1>4, <2>1 DEF PeekKey, TypeOK, WakerIsThere, ReadersAreWoken
<1>5. ASSUME NEW m, TryReadKey(m) PROVE IInv'
  <2>1. /\ head' \in Positions /\ tail' = tail /\ slots' = slots
        /\ Empty => Empty'
    BY <1>5, ReadTypes DEF TryReadKey
  <2> QED BY <1>5, <2>1 DEF TryReadKey, TypeOK, WakerIsThere, ReadersAreWoken
<1>6. ASSUME NEW m \in Modes, StartRead(m) PROVE IInv'
  <2> DEFINE r == [mode |-> m, waits |-> FALSE]
  <2>1. r \in Read /\ ~r.waits
    BY DEF Read
  <2>2. reads' = Append(reads, r)
    BY <1>6 DEF StartRead
  <2> HIDE DEF r
  <2>3. reads' \in Seq(Read) /\ Last(reads') = r
    BY <2>1, <2>2, AppendProperties DEF Last, TypeOK
  <2> QED BY <1>6, <2>1, <2>3 DEF StartRead, ring, TypeOK, WakerIsThere, ReadersAreWoken
<1>7. CASE ReadFinishes
  <2>1. waker' = FALSE /\ woken' = FALSE
    BY <1>7 DEF ReadFinishes
  <2>2. waker' \in BOOLEAN /\ woken' \in BOOLEAN
    BY <2>1, Zenon
  <2>3. head' \in Positions /\ tail' = tail /\ slots' = slots
    BY <1>7, ReadTypes DEF ReadFinishes
  <2>4. TypeOK'
    BY <1>7, <2>2, <2>3, FinishedReads DEF TypeOK
  <2> QED BY <1>7, <2>4, FinishedReads DEF WakerIsThere, ReadersAreWoken
<1>8. CASE ReadWaits
  <2>1. waker' = TRUE /\ woken' = FALSE
    BY <1>8 DEF ReadWaits
  <2>2. waker' \in BOOLEAN /\ woken' \in BOOLEAN
    BY <2>1, Zenon
  <2>3. head' \in Positions /\ tail' = tail /\ slots' = slots /\ Empty'
    BY <1>8, ReadTypes DEF ReadWaits
  <2>4. reads' \in Seq(Read)
    <3>1. Len(reads) \in 1..Len(reads)
      BY <1>8, EmptySeq DEF ReadWaits, Polled, TypeOK
    <3>2. [reads[Len(reads)] EXCEPT !.waits = TRUE] \in Read
      <4>1. reads[Len(reads)] \in Read
        BY <3>1, ElementOfSeq DEF TypeOK
      <4> QED BY <4>1 DEF Read
    <3>3. reads' = [reads EXCEPT ![Len(reads)] = [reads[Len(reads)] EXCEPT !.waits = TRUE]]
      BY <1>8 DEF ReadWaits
    <3> QED BY <3>1, <3>2, <3>3, ExceptSeq DEF TypeOK
  <2>5. TypeOK'
    BY <2>2, <2>3, <2>4 DEF TypeOK
  <2> QED BY <2>1, <2>3, <2>5 DEF WakerIsThere, ReadersAreWoken
<1>9. CASE DropReads
  <2>1. waker' \in BOOLEAN /\ woken' \in BOOLEAN
    BY <1>9, Zenon DEF DropReads
  <2>2. reads' = <<>> /\ reads' \in Seq(Read)
    BY <1>9 DEF DropReads
  <2> QED BY <1>9, <2>1, <2>2 DEF DropReads, ring, TypeOK, WakerIsThere, ReadersAreWoken
<1>10. CASE DiscardQueued
  BY <1>10 DEF DiscardQueued, TypeOK, WakerIsThere, ReadersAreWoken, Empty
<1>11. CASE UNCHANGED <<ring, reads, waker, woken>>
  BY <1>11 DEF ring, TypeOK, WakerIsThere, ReadersAreWoken, Empty
<1>12. CASE BreakReturns
  BY <1>1, <1>12 DEF BreakReturns
<1>13. ASSUME NEW k, StoreKey(k) PROVE IInv'
  BY <1>1, <1>13 DEF StoreKey
<1>14. ASSUME NEW h, SetShiftState(h) PROVE IInv'
  BY <1>11, <1>14 DEF SetShiftState
<1>15. CASE UNCHANGED vars
  BY <1>11, <1>15 DEF vars, ring
<1> QED BY <1>3, <1>4, <1>5, <1>6, <1>7, <1>8, <1>9, <1>10, <1>12, <1>13, <1>14, <1>15 DEF Next

(* Initially nothing waits.                                                *)
LEMMA InitIInv == ASSUME BiosKeyboardAssumption, Init PROVE IInv
<1>1. waker \in BOOLEAN /\ woken \in BOOLEAN
  BY Zenon DEF Init
<1>2. reads = <<>> /\ reads \in Seq(Read)
  BY DEF Init
<1>3. head \in Positions /\ tail \in Positions /\ slots = [i \in Positions |-> slots[i]]
  BY DEF Init, Positions, BiosKeyboardAssumption
<1> QED BY <1>1, <1>2, <1>3 DEF IInv, TypeOK, WakerIsThere, ReadersAreWoken

(* The invariant holds throughout.                                         *)
THEOREM Invariance == ASSUME BiosKeyboardAssumption PROVE Spec => []IInv
<1>1. Init => IInv
  BY InitIInv
<1>2. IInv /\ [Next]_vars => IInv'
  BY Step
<1> QED BY <1>1, <1>2, PTL DEF Spec

(* However reads nest and are dropped, a read that waits with a keystroke  *)
(* in the ring has been woken (keyboard.rs:277).                           *)
THEOREM WaitersAreWoken == ASSUME BiosKeyboardAssumption PROVE Spec => []ReadersAreWoken
<1>1. IInv => ReadersAreWoken
  BY DEF IInv
<1> QED BY <1>1, Invariance, PTL

-----------------------------------------------------------------------------
(* The refinement.                                                         *)

(* The queue from the first keystroke a reader can return.                 *)
Rest(mode) == SubSeq(Queue, Skipped(mode) + 1, Len(Queue))

(* peek_key and read_key agree with the rest: they find a keystroke when   *)
(* there is one, and it is the rest's first.                               *)
LEMMA RestOf ==
  ASSUME BiosKeyboardAssumption, TypeOK, NEW mode
  PROVE  /\ Skipped(mode) \in 0..Len(Queue)
         /\ \A i \in 1..Skipped(mode) : ~Expresses(mode, Queue[i])
         /\ Rest(mode) # <<>> => Expresses(mode, Rest(mode)[1])
         /\ Found(mode) = (Rest(mode) # <<>>)
         /\ First(mode) = IF Rest(mode) = <<>> THEN <<>> ELSE <<Rest(mode)[1]>>
         /\ Found(mode) => Tail(Rest(mode)) = SubSeq(Queue, Skipped(mode) + 2, Len(Queue))
<1> DEFINE V == {slots[p] : p \in Positions}
           n == Skipped(mode)
           rest == Rest(mode)
<1>1. \A p \in Positions : slots[p] \in V
  OBVIOUS
<1> HIDE DEF V
<1>2. /\ Count \in Positions
      /\ Queue \in Seq(V) /\ Len(Queue) = Count
      /\ \A i \in 1..Count : Queue[i] = slots[Place(head, i - 1)]
  BY <1>1, RingIsQueue
<1>3. /\ n \in 0..Count
      /\ \A i \in 1..n : ~Expresses(mode, Queue[i])
      /\ n < Count => Expresses(mode, Queue[n + 1])
      /\ Found(mode) <=> n < Count
  BY Skips DEF Found
<1>4. rest = SubSeq(Queue, n + 1, Count)
  BY <1>2 DEF Rest
<1>14. Found(mode) = (n < Count)
  BY DEF Found
<1>5. First(mode) = IF Found(mode) THEN <<slots[Ahead(n)]>> ELSE <<>>
  BY DEF First
<1> HIDE DEF n, rest
<1>6. Count \in Nat /\ n \in Nat /\ n <= Count
  BY <1>2, <1>3 DEF Positions, BiosKeyboardAssumption
<1>7. \A i \in 1..Count : Queue[i] \in V
  BY <1>2, ElementOfSeq
<1>8. /\ rest \in Seq(V)
      /\ Len(rest) = IF n + 1 <= Count THEN Count - (n + 1) + 1 ELSE 0
      /\ \A i \in 1..(Count - (n + 1) + 1) : rest[i] = Queue[n + 1 + i - 1]
  <2>1. \A i \in (n + 1)..Count : Queue[i] \in V
    BY <1>6, <1>7
  <2>2. n + 1 \in Int /\ Count \in Int
    BY <1>6
  <2>3. /\ SubSeq(Queue, n + 1, Count) \in Seq(V)
        /\ Len(SubSeq(Queue, n + 1, Count)) = IF n + 1 <= Count THEN Count - (n + 1) + 1 ELSE 0
        /\ \A i \in 1..(Count - (n + 1) + 1) : SubSeq(Queue, n + 1, Count)[i] = Queue[n + 1 + i - 1]
    BY <2>1, <2>2, SubSeqProperties
  <2> QED BY <1>4, <2>3
<1>9. Len(rest) = Count - n /\ \A i \in 1..(Count - n) : rest[i] = Queue[n + i]
  BY <1>6, <1>8
<1>10. rest # <<>> <=> n < Count
  <2>1. rest # <<>> <=> Len(rest) # 0
    BY <1>8, EmptySeq
  <2> QED BY <1>6, <1>9, <2>1
<1>11. ASSUME n < Count PROVE rest[1] = Queue[n + 1] /\ rest[1] = slots[Ahead(n)]
  <2>1. 1 \in 1..(Count - n) /\ n + 1 \in 1..Count /\ (n + 1) - 1 = n
    BY <1>6, <1>11
  <2>2. rest[1] = Queue[n + 1]
    BY <1>9, <2>1
  <2>3. Queue[n + 1] = slots[Place(head, n)]
    BY <1>2, <2>1
  <2> QED BY <2>2, <2>3 DEF Place, Ahead
<1>12. ASSUME n < Count PROVE Tail(rest) = SubSeq(Queue, n + 2, Count)
  <2> DEFINE t == SubSeq(Queue, n + 2, Count)
  <2>1. /\ Tail(rest) \in Seq(V) /\ Len(Tail(rest)) = Len(rest) - 1
        /\ \A i \in 1..Len(Tail(rest)) : Tail(rest)[i] = rest[i + 1]
    BY <1>8, <1>10, <1>12, HeadTailProperties
  <2>2. /\ t \in Seq(V)
        /\ Len(t) = IF n + 2 <= Count THEN Count - (n + 2) + 1 ELSE 0
        /\ \A i \in 1..(Count - (n + 2) + 1) : t[i] = Queue[n + 2 + i - 1]
    <3>1. \A i \in (n + 2)..Count : Queue[i] \in V
      BY <1>6, <1>7
    <3> QED BY <1>6, <3>1, SubSeqProperties
  <2> HIDE DEF t
  <2>3. Len(t) = Len(Tail(rest)) /\ Len(t) = Count - n - 1
    <3>1. Len(Tail(rest)) = (Count - n) - 1
      BY <1>9, <2>1
    <3>2. Len(t) = IF n + 2 <= Count THEN Count - (n + 2) + 1 ELSE 0
      BY <2>2
    <3> QED BY <1>6, <1>12, <3>1, <3>2
  <2>4. ASSUME NEW i \in 1..Len(t) PROVE Tail(rest)[i] = t[i]
    <3>1. i + 1 \in 1..(Count - n) /\ n + (i + 1) = n + 2 + i - 1 /\ i \in 1..(Count - (n + 2) + 1)
      <4>1. i \in 1..(Count - n - 1)
        BY <2>3
      <4> QED BY <1>6, <4>1
    <3> QED BY <1>9, <2>1, <2>2, <2>3, <3>1
  <2> QED BY <2>1, <2>2, <2>3, <2>4, SeqEqual DEF t
<1>13. First(mode) = IF rest = <<>> THEN <<>> ELSE <<rest[1]>>
  BY <1>3, <1>5, <1>10, <1>11
<1>15. Found(mode) = (rest # <<>>)
  <2>1. (n < Count) = (rest # <<>>)
    BY <1>10, SMT
  <2> QED BY <1>14, <2>1, Zenon
<1>16. n \in 0..Len(Queue) /\ \A i \in 1..n : ~Expresses(mode, Queue[i])
  BY <1>2, <1>3
<1>17. rest # <<>> => Expresses(mode, rest[1])
  BY <1>3, <1>10, <1>11
<1>18. Found(mode) => Tail(rest) = SubSeq(Queue, n + 2, Len(Queue))
  BY <1>2, <1>3, <1>12
<1> QED BY <1>13, <1>15, <1>16, <1>17, <1>18, Zenon DEF n, rest

(* peek_key looks.                                                         *)
LEMMA PeekLooks ==
  ASSUME BiosKeyboardAssumption, TypeOK, TypeOK', NEW mode \in Modes, PeekKey(mode)
  PROVE  Abstract!Look(mode)
<1> DEFINE n == Skipped(mode)
           rest == Rest(mode)
<1>1. n \in 0..Count
  BY Skips
<1>2. Queue' = rest
  BY <1>1, MoveHead DEF PeekKey, Rest
<1>3. /\ n \in 0..Len(Queue)
      /\ \A i \in 1..n : ~Expresses(mode, Queue[i])
      /\ rest # <<>> => Expresses(mode, rest[1])
      /\ Found(mode) = (rest # <<>>)
      /\ First(mode) = IF rest = <<>> THEN <<>> ELSE <<rest[1]>>
  BY RestOf
<1>4. outcome' = [op |-> "look", ok |-> Found(mode), stroke |-> First(mode)]
  BY DEF PeekKey, Outcome
<1>5. Abstract!From(mode, rest)
  BY <1>3, Zenon DEF Abstract!From, Rest
<1>6. outcome' = [op |-> "look", ok |-> rest # <<>>, stroke |-> Abstract!Oldest(rest)]
  BY <1>3, <1>4, Zenon DEF Abstract!Oldest
<1> QED BY <1>2, <1>3, <1>5, <1>6, Zenon DEF Rest, Abstract!Look

(* try_read_key takes.                                                     *)
LEMMA ReadTakes ==
  ASSUME BiosKeyboardAssumption, TypeOK, TypeOK', NEW mode \in Modes, TryRead(mode)
  PROVE  Abstract!Take(mode)
<1> DEFINE n == Skipped(mode)
           rest == Rest(mode)
<1>1. n \in 0..Count /\ (Found(mode) => n + 1 \in 0..Count)
  BY Reading
<1>3. /\ n \in 0..Len(Queue)
      /\ \A i \in 1..n : ~Expresses(mode, Queue[i])
      /\ rest # <<>> => Expresses(mode, rest[1])
      /\ Found(mode) = (rest # <<>>)
      /\ First(mode) = IF rest = <<>> THEN <<>> ELSE <<rest[1]>>
      /\ Found(mode) => Tail(rest) = SubSeq(Queue, n + 2, Len(Queue))
  BY RestOf
<1>2. Queue' = IF rest = <<>> THEN rest ELSE Tail(rest)
  <2>1. CASE Found(mode)
    <3>1. head' = Ahead(n + 1) /\ n + 1 \in 0..Count
      BY <1>1, <2>1 DEF TryRead
    <3>2. (n + 1) + 1 = n + 2
      BY <1>3
    <3>3. Queue' = SubSeq(Queue, (n + 1) + 1, Len(Queue))
      BY <3>1, MoveHead DEF TryRead
    <3> QED BY <1>3, <2>1, <3>2, <3>3
  <2>2. CASE ~Found(mode)
    <3>1. n + 0 = n
      BY <1>1
    <3>2. head' = Ahead(n)
      BY <2>2, <3>1 DEF TryRead
    <3>3. Queue' = rest
      BY <1>1, <3>2, MoveHead DEF TryRead, Rest
    <3> QED BY <1>3, <2>2, <3>3
  <2> QED BY <2>1, <2>2
<1>4. outcome' = [op |-> "take", ok |-> Found(mode), stroke |-> First(mode)]
  BY DEF TryRead, Outcome
<1>5. Abstract!From(mode, rest)
  BY <1>3, Zenon DEF Abstract!From, Rest
<1>6. outcome' = [op |-> "take", ok |-> rest # <<>>, stroke |-> Abstract!Oldest(rest)]
  BY <1>3, <1>4, Zenon DEF Abstract!Oldest
<1> QED BY <1>2, <1>3, <1>5, <1>6, Zenon DEF Rest, Abstract!Take

(* push puts: into the queue, or not when it is full.                      *)
LEMMA PushPuts ==
  ASSUME BiosKeyboardAssumption, TypeOK, TypeOK', NEW k, Push(k)
  PROVE  Abstract!Next
<1>1. /\ Len(Queue) \in Nat /\ Len(Queue) <= Slots - 1
      /\ Full <=> Len(Queue) = Slots - 1
      /\ Queue' = IF Full THEN Queue ELSE Append(Queue, k)
  BY PushAppends
<1>2. outcome' = [op |-> "put", ok |-> ~Full, stroke |-> <<k>>]
  BY DEF Push, Outcome
<1>3. outcome'.op = "put" /\ outcome'.stroke[1] = k
  BY <1>2
<1>4. Abstract!Put(k)
  <2>1. CASE Full
    <3>1. (~Full) = FALSE
      BY <2>1, Zenon
    <3> QED BY <1>1, <1>2, <2>1, <3>1, Zenon DEF Abstract!Put
  <2>2. CASE ~Full
    <3>1. (~Full) = TRUE
      BY <2>2, Zenon
    <3>2. Len(Queue) < Slots - 1
      BY <1>1, <2>2 DEF BiosKeyboardAssumption
    <3> QED BY <1>1, <1>2, <2>2, <3>1, <3>2, Zenon DEF Abstract!Put
  <2> QED BY <2>1, <2>2
<1> QED BY <1>3, <1>4, Zenon DEF Abstract!Next

(* An empty ring is an empty queue.                                        *)
LEMMA EmptyQueue ==
  ASSUME BiosKeyboardAssumption, NEW h \in Positions, NEW w PROVE Words(h, h, w) = <<>>
<1> DEFINE V == {w[p] : p \in Positions}
<1>1. \A p \in Positions : w[p] \in V
  OBVIOUS
<1> HIDE DEF V
<1>2. Words(h, h, w) \in Seq(V) /\ Len(Words(h, h, w)) = Between(h, h)
  BY <1>1, WordsOf
<1>3. Between(h, h) = 0
  BY Distance DEF Between, Positions, BiosKeyboardAssumption
<1> QED BY <1>2, <1>3, EmptySeq

(* A ring whose head meets its tail is a cleared queue.                    *)
LEMMA ClearClears ==
  ASSUME BiosKeyboardAssumption, TypeOK', head' = tail', outcome' = Outcome("clear", TRUE, <<>>)
  PROVE  Abstract!Clear
<1>1. Queue' = Words(head', tail', slots')
  BY Zenon DEF Queue, Count, Words, Between
<1>2. Queue' = <<>>
  BY <1>1, EmptyQueue DEF TypeOK
<1> QED BY <1>2, Zenon DEF Abstract!Clear, Outcome

(* Every operation is one of the queue's, or leaves it alone.              *)
LEMMA QueueStep ==
  ASSUME BiosKeyboardAssumption, IInv, [Next]_vars
  PROVE  [Abstract!Next]_<<Queue, outcome>>
<1> USE DEF IInv
<1>0. TypeOK /\ TypeOK'
  BY Step
<1>1. ASSUME UNCHANGED <<ring, outcome>> PROVE UNCHANGED <<Queue, outcome>>
  BY <1>1 DEF ring, Queue, Count
<1>2. ASSUME NEW b, Interrupt(b) PROVE [Abstract!Next]_<<Queue, outcome>>
  <2>1. CASE NoPush
    BY <1>1, <2>1 DEF NoPush
  <2>2. ASSUME NEW k, Push(k) PROVE Abstract!Next
    BY <1>0, <2>2, PushPuts
  <2>3. CASE /\ tail' = head /\ head' = head
             /\ outcome' = Outcome("clear", TRUE, <<>>)
    BY <1>0, <2>3, ClearClears DEF Abstract!Next
  <2> QED BY <1>2, <2>1, <2>2, <2>3 DEF Interrupt
<1>3. CASE BreakReturns
  BY <1>0, <1>3, PushPuts DEF BreakReturns
<1>4. ASSUME NEW k, StoreKey(k) PROVE Abstract!Next
  BY <1>0, <1>4, PushPuts DEF StoreKey
<1>5. ASSUME NEW m \in Modes, PeekKey(m) PROVE Abstract!Next
  BY <1>0, <1>5, PeekLooks DEF Abstract!Next
<1>6. ASSUME NEW m \in Modes, TryRead(m) PROVE Abstract!Next
  BY <1>0, <1>6, ReadTakes DEF Abstract!Next
<1>7. ASSUME NEW m \in Modes, TryReadKey(m) PROVE Abstract!Next
  BY <1>6, <1>7 DEF TryReadKey
<1>8. CASE ReadFinishes \/ ReadWaits
  <2>1. Last(reads).mode \in Modes
    <3>1. reads # <<>> /\ reads \in Seq(Read)
      BY <1>0, <1>8 DEF ReadFinishes, ReadWaits, Polled, TypeOK
    <3>2. reads[Len(reads)] \in Read
      <4>1. Len(reads) \in 1..Len(reads)
        BY <3>1, EmptySeq
      <4> QED BY <3>1, <4>1, ElementOfSeq
    <3> QED BY <3>2 DEF Last, Read
  <2> QED BY <1>6, <1>8, <2>1 DEF ReadFinishes, ReadWaits
<1>9. CASE DiscardQueued
  BY <1>0, <1>9, ClearClears DEF DiscardQueued, Abstract!Next
<1>10. ASSUME NEW m, StartRead(m) PROVE UNCHANGED <<Queue, outcome>>
  BY <1>1, <1>10 DEF StartRead, ring
<1>11. CASE DropReads
  BY <1>1, <1>11 DEF DropReads, ring
<1>12. ASSUME NEW h, SetShiftState(h) PROVE UNCHANGED <<Queue, outcome>>
  BY <1>1, <1>12 DEF SetShiftState, ring
<1>13. CASE UNCHANGED vars
  BY <1>1, <1>13 DEF vars, ring
<1> QED BY <1>2, <1>3, <1>4, <1>5, <1>7, <1>8, <1>9, <1>10, <1>11, <1>12, <1>13 DEF Next

(* The ring implements KeyQueue: every IRQ, service, wait, host store and  *)
(* Ctrl-Break is one operation of a first-in first-out queue that holds    *)
(* one word fewer than the ring (keyboard/data.rs:117).                    *)
THEOREM RingImplementsQueue == ASSUME BiosKeyboardAssumption PROVE Spec => QueueIsKept
<1>1. Init => Abstract!Init
  <2> SUFFICES ASSUME Init PROVE Abstract!Init
    OBVIOUS
  <2>1. head \in Positions /\ head = tail
    BY DEF Init, Positions, BiosKeyboardAssumption
  <2>2. Queue = Words(head, tail, slots)
    BY Zenon DEF Queue, Count, Words, Between
  <2>3. Queue = <<>>
    BY <2>1, <2>2, EmptyQueue
  <2> QED BY <2>3, Zenon DEF Init, Outcome, Abstract!Init, Abstract!Nothing
<1>2. IInv /\ [Next]_vars => [Abstract!Next]_<<Queue, outcome>>
  BY QueueStep
<1> QED BY <1>1, <1>2, Invariance, PTL DEF Spec, QueueIsKept, Abstract!Spec
=============================================================================
