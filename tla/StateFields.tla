---------------------------- MODULE StateFields -----------------------------
(***************************************************************************)
(* The state fields a block of translated code keeps in SSA values         *)
(* (src/crates/x86/src/ssa/state_fields.rs): typed places of one backing   *)
(* record, some of them overlapping (AL, AH, AX, EAX), read and defined    *)
(* at fixed places or at a place only known at run time within a span.     *)
(***************************************************************************)
EXTENDS Integers, TLAPS

CONSTANTS Size,        \* bytes of the backing record
          Widths,      \* access widths in bytes
          ByteValues,  \* the values of a byte
          Spans        \* the spans of the run-time places

VARIABLES memory,       \* the backing bytes
          definitions,  \* the places retained: value, and whether to publish it
          access,       \* the last access
          written       \* history: the bytes as they were last written

fieldVars == <<memory, definitions, access, written>>

(* A place is an offset and a width within the record.                     *)
Places == {p \in [offset : 0..(Size - 1), width : Widths] : p.offset + p.width <= Size}
Span(p) == p.offset..(p.offset + p.width - 1)
Slice(contents, p) == [i \in 1..p.width |-> contents[p.offset + i - 1]]
Store(contents, p, value) ==
    [b \in DOMAIN contents |-> IF b \in Span(p) THEN value[b - p.offset + 1] ELSE contents[b]]
Values(p) == [1..p.width -> ByteValues]
Idle == [kind |-> "none"]

Overlaps(p, q) == Span(p) \cap Span(q) # {}
Covers(p, q) == Span(q) \subseteq Span(p)

At(p) == {d \in definitions : d.place = p}
Held(p) == CHOOSE d \in definitions : d.place = p

(* The definitions written to their places, in any order: no two overlap,  *)
(* as the theorem FieldsNeverOverlap states.                               *)
Writer(ds, b) == CHOOSE d \in ds : b \in Span(d.place)
StoreAll(contents, ds) ==
    [b \in DOMAIN contents |->
        IF \E d \in ds : b \in Span(d.place)
        THEN Writer(ds, b).value[b - Writer(ds, b).place.offset + 1]
        ELSE contents[b]]
Dirty(ds) == {d \in ds : d.dirty}

(* The dirty definitions a new access to span must write back first: all   *)
(* that overlap it, but not those a replacement covers.                    *)
(* Mutant: a replacement also drops what it covers only in part.           *)
FlushedNone(span, replacing) ==
    IF replacing THEN {} ELSE {d \in Dirty(definitions) : Overlaps(span, d.place)}
Flushed(span, replacing) ==
    {d \in Dirty(definitions) : Overlaps(span, d.place) /\ ~(replacing /\ Covers(span, d.place))}

Clean(d) == [d EXCEPT !.dirty = FALSE]
AfterFlush(flushed) == {IF d \in flushed THEN Clean(d) ELSE d : d \in definitions}
Without(ds, span) == {d \in ds : ~Overlaps(span, d.place)}

Accessed(kind, p, value) ==
    /\ access' = [kind |-> kind, place |-> p, value |-> value]
    /\ written' = IF kind = "write" THEN Store(written, p, value) ELSE written

FieldsInit ==
    /\ memory \in [0..(Size - 1) -> ByteValues]
    /\ definitions = {}
    /\ access = Idle
    /\ written = memory

ReadFixed(p) ==
    \/ /\ At(p) # {}
       /\ Accessed("read", p, Held(p).value)
       /\ UNCHANGED <<memory, definitions>>
    \/ /\ At(p) = {}
       /\ memory' = StoreAll(memory, Flushed(p, FALSE))
       /\ Accessed("read", p, Slice(memory', p))
       /\ definitions' = Without(AfterFlush(Flushed(p, FALSE)), p)
                           \cup {[place |-> p, value |-> Slice(memory', p), dirty |-> FALSE]}

ReadIndexed(span, p) ==
    /\ Covers(span, p)
    /\ memory' = StoreAll(memory, Flushed(span, FALSE))
    /\ Accessed("read", p, Slice(memory', p))
    /\ definitions' = AfterFlush(Flushed(span, FALSE))

(* A definition equal to the retained one, by expression, changes nothing. *)
DefineFixed(p, value, same) ==
    /\ Accessed("write", p, value)
    /\ \/ /\ At(p) # {} /\ same /\ Held(p).value = value
          /\ UNCHANGED <<memory, definitions>>
       \/ /\ At(p) # {} /\ ~same
          /\ definitions' = (definitions \ At(p))
                              \cup {[place |-> p, value |-> value, dirty |-> TRUE]}
          /\ UNCHANGED memory
       \/ /\ At(p) = {} /\ ~same
          /\ memory' = StoreAll(memory, Flushed(p, TRUE))
          /\ definitions' = Without(AfterFlush(Flushed(p, TRUE)), p)
                              \cup {[place |-> p, value |-> value, dirty |-> TRUE]}

DefineIndexed(span, p, value) ==
    /\ Covers(span, p)
    /\ Accessed("write", p, value)
    /\ memory' = Store(StoreAll(memory, Flushed(span, FALSE)), p, value)
    /\ definitions' = Without(AfterFlush(Flushed(span, FALSE)), span)

(* The block ends; the next one starts with nothing retained.              *)
PublishField ==
    /\ memory' = StoreAll(memory, Dirty(definitions))
    /\ definitions' = {}
    /\ access' = Idle
    /\ UNCHANGED written

FieldsNext ==
    \/ \E p \in Places : ReadFixed(p)
    \/ \E span \in Spans, p \in Places : ReadIndexed(span, p)
    \/ \E p \in Places, same \in BOOLEAN : \E value \in Values(p) : DefineFixed(p, value, same)
    \/ \E span \in Spans, p \in Places : \E value \in Values(p) : DefineIndexed(span, p, value)
    \/ PublishField

FieldsSpec == FieldsInit /\ [][FieldsNext]_fieldVars

-----------------------------------------------------------------------------

(* The fields retained, those already written back and the backing memory  *)
(* together stand for the bytes as they were last written, and every read, *)
(* at any width and by any address, gives those (ssa/state_fields.rs:201). *)
FieldsAreMemory ==
    /\ StoreAll(memory, Dirty(definitions)) = written
    /\ access.kind = "read" => access.value = Slice(written, access.place)

(* "Live fixed definitions never overlap" (ssa/state_fields.rs:170).       *)
NoOverlaps == \A d, e \in definitions : d # e => ~Overlaps(d.place, e.place)

-----------------------------------------------------------------------------
(***************************************************************************)
(* The proof.  A retained value is what was last written to its bytes, and *)
(* the backing memory is so wherever no dirty definition lies.             *)
(***************************************************************************)
FieldsAssumption == Size \in Nat /\ Widths \subseteq Nat \ {0}

Record == 0..(Size - 1)
ValueOf(d, b) == d.value[b - d.place.offset + 1]

FieldsTypeOK ==
    /\ memory \in [Record -> ByteValues] /\ written \in [Record -> ByteValues]
    /\ \A d \in definitions :
          /\ d = [place |-> d.place, value |-> d.value, dirty |-> d.dirty]
          /\ d.place \in Places /\ d.value \in Values(d.place) /\ d.dirty \in BOOLEAN

Current == \A d \in definitions : \A b \in Span(d.place) : ValueOf(d, b) = written[b]
Backed ==
    \A b \in Record : (\A d \in Dirty(definitions) : b \notin Span(d.place)) => memory[b] = written[b]
Answered == access.kind = "read" => access.value = Slice(written, access.place)

Inv == FieldsTypeOK /\ NoOverlaps /\ Current /\ Backed /\ Answered

(* A place lies in the record, and its bytes are its value's.              *)
LEMMA PlaceBytes ==
    ASSUME FieldsAssumption, NEW p \in Places
    PROVE  /\ Span(p) \subseteq Record /\ p.offset \in Nat /\ p.width \in Nat
           /\ p.offset \in Span(p)
           /\ \A b \in Span(p) : b - p.offset + 1 \in 1..p.width
           /\ \A i \in 1..p.width : /\ p.offset + i - 1 \in Span(p)
                                    /\ (p.offset + i - 1) - p.offset + 1 = i
<1>1. p.offset \in 0..(Size - 1) /\ p.width \in Widths /\ p.offset + p.width <= Size
  BY DEF Places
<1>2. p.offset \in Nat /\ p.width \in Nat /\ p.width # 0 /\ Size \in Nat
  <2>1. Size \in Nat /\ p.width \in Nat /\ p.width # 0
    BY <1>1 DEF FieldsAssumption
  <2>2. p.offset \in Nat
    BY <1>1, <2>1
  <2> QED BY <2>1, <2>2
<1>3. Span(p) \subseteq Record /\ p.offset \in Span(p)
  BY <1>1, <1>2 DEF Span, Record
<1>4. ASSUME NEW b \in Span(p) PROVE b - p.offset + 1 \in 1..p.width
  BY <1>2 DEF Span
<1>5. ASSUME NEW i \in 1..p.width
      PROVE  p.offset + i - 1 \in Span(p) /\ (p.offset + i - 1) - p.offset + 1 = i
  BY <1>2 DEF Span
<1> QED BY <1>2, <1>3, <1>4, <1>5

(* Storing puts the value's bytes in the span and leaves the others.       *)
LEMMA StoreBytes ==
    ASSUME FieldsAssumption, NEW m \in [Record -> ByteValues], NEW p \in Places, NEW v \in Values(p)
    PROVE  /\ Store(m, p, v) \in [Record -> ByteValues]
           /\ \A b \in Record : Store(m, p, v)[b] =
                  IF b \in Span(p) THEN v[b - p.offset + 1] ELSE m[b]
    BY PlaceBytes DEF Store, Values

(* What a set of current definitions leaves in memory.                     *)
LEMMA StoredBytes ==
    ASSUME FieldsAssumption, FieldsTypeOK, Current, NEW ds \in SUBSET definitions
    PROVE  /\ StoreAll(memory, ds) \in [Record -> ByteValues]
           /\ \A b \in Record :
                /\ (\E d \in ds : b \in Span(d.place)) => StoreAll(memory, ds)[b] = written[b]
                /\ (\A d \in ds : b \notin Span(d.place)) => StoreAll(memory, ds)[b] = memory[b]
<1> DEFINE m == StoreAll(memory, ds)
<1>1. m = [b \in Record |-> IF \E d \in ds : b \in Span(d.place)
                            THEN ValueOf(Writer(ds, b), b) ELSE memory[b]]
  BY DEF FieldsTypeOK, StoreAll, ValueOf
<1>2. ASSUME NEW b \in Record, \E d \in ds : b \in Span(d.place)
      PROVE  m[b] = written[b]
  <2>1. Writer(ds, b) \in ds /\ b \in Span(Writer(ds, b).place)
    BY <1>2 DEF Writer
  <2>2. ValueOf(Writer(ds, b), b) = written[b]
    BY <2>1 DEF Current
  <2> QED BY <1>1, <1>2, <2>2
<1>3. ASSUME NEW b \in Record, \A d \in ds : b \notin Span(d.place)
      PROVE  m[b] = memory[b]
  BY <1>1, <1>3
<1>4. ASSUME NEW b \in Record PROVE m[b] \in ByteValues
  BY <1>2, <1>3, <1>4 DEF FieldsTypeOK
<1>5. m \in [Record -> ByteValues]
  BY <1>1, <1>4
<1> QED BY <1>2, <1>3, <1>5

(* Writing some definitions back changes only who must write them.         *)
LEMMA Flushing ==
    ASSUME FieldsAssumption, FieldsTypeOK, NoOverlaps, Current, Backed, NEW ds \in SUBSET Dirty(definitions)
    PROVE  /\ \A e \in AfterFlush(ds) :
                /\ e = [place |-> e.place, value |-> e.value, dirty |-> e.dirty]
                /\ e.place \in Places /\ e.value \in Values(e.place) /\ e.dirty \in BOOLEAN
                /\ \A b \in Span(e.place) : ValueOf(e, b) = written[b]
                /\ e.dirty => e \in Dirty(definitions) \ ds
           /\ \A d, e \in AfterFlush(ds) : d # e => ~Overlaps(d.place, e.place)
           /\ \A b \in Record : (\A d \in Dirty(definitions) \ ds : b \notin Span(d.place))
                               => StoreAll(memory, ds)[b] = written[b]
<1>0. ds \subseteq definitions
  BY DEF Dirty
<1>1. ASSUME NEW e \in AfterFlush(ds)
      PROVE  \E d \in definitions :
                /\ e = [place |-> d.place, value |-> d.value, dirty |-> d.dirty /\ d \notin ds]
                /\ d \notin ds => e = d
  <2>1. PICK d \in definitions : e = IF d \in ds THEN Clean(d) ELSE d
    BY DEF AfterFlush
  <2>2. d = [place |-> d.place, value |-> d.value, dirty |-> d.dirty] /\ d.dirty \in BOOLEAN
    BY DEF FieldsTypeOK
  <2>3. CASE d \in ds
    BY <2>1, <2>2, <2>3 DEF Clean
  <2>4. CASE d \notin ds
    BY <2>1, <2>2, <2>4
  <2> QED BY <2>3, <2>4
<1>2. ASSUME NEW e \in AfterFlush(ds)
      PROVE  /\ e = [place |-> e.place, value |-> e.value, dirty |-> e.dirty]
             /\ e.place \in Places /\ e.value \in Values(e.place) /\ e.dirty \in BOOLEAN
             /\ \A b \in Span(e.place) : ValueOf(e, b) = written[b]
             /\ e.dirty => e \in Dirty(definitions) \ ds
  <2>1. PICK d \in definitions :
                /\ e = [place |-> d.place, value |-> d.value, dirty |-> d.dirty /\ d \notin ds]
                /\ d \notin ds => e = d
    BY <1>1
  <2>2. e.place = d.place /\ e.value = d.value /\ e.dirty = (d.dirty /\ d \notin ds)
    BY <2>1
  <2>3. d.place \in Places /\ d.value \in Values(d.place) /\ d.dirty \in BOOLEAN
    BY DEF FieldsTypeOK
  <2>4. \A b \in Span(d.place) : ValueOf(d, b) = written[b]
    BY DEF Current
  <2>5. e.dirty => e \in Dirty(definitions) \ ds
    BY <2>1, <2>2 DEF Dirty
  <2> QED BY <2>1, <2>2, <2>3, <2>4, <2>5 DEF ValueOf
<1>3. ASSUME NEW d \in AfterFlush(ds), NEW e \in AfterFlush(ds), d # e
      PROVE  ~Overlaps(d.place, e.place)
  <2>1. PICK f \in definitions :
           d = [place |-> f.place, value |-> f.value, dirty |-> f.dirty /\ f \notin ds]
    BY <1>1
  <2>2. PICK g \in definitions :
           e = [place |-> g.place, value |-> g.value, dirty |-> g.dirty /\ g \notin ds]
    BY <1>1
  <2>3. f # g /\ d.place = f.place /\ e.place = g.place
    BY <2>1, <2>2, <1>3
  <2> QED BY <2>3 DEF NoOverlaps
<1>4. ASSUME NEW b \in Record, \A d \in Dirty(definitions) \ ds : b \notin Span(d.place)
      PROVE  StoreAll(memory, ds)[b] = written[b]
  <2>1. CASE \E d \in ds : b \in Span(d.place)
    BY <1>0, <2>1, StoredBytes
  <2>2. CASE \A d \in ds : b \notin Span(d.place)
    <3>1. memory[b] = written[b]
      BY <1>4, <2>2 DEF Backed
    <3> QED BY <1>0, <2>2, <3>1, StoredBytes
  <2> QED BY <2>1, <2>2
<1> QED BY <1>2, <1>3, <1>4

(* A slice of bytes that were last written is what was last written.       *)
LEMMA SliceOfWritten ==
    ASSUME FieldsAssumption, NEW p \in Places, NEW m \in [Record -> ByteValues],
           \A b \in Span(p) : m[b] = written[b]
    PROVE  /\ Slice(m, p) = Slice(written, p)
           /\ Slice(m, p) \in Values(p)
           /\ \A b \in Span(p) : Slice(m, p)[b - p.offset + 1] = written[b]
<1>1. \A i \in 1..p.width : m[p.offset + i - 1] = written[p.offset + i - 1] /\ m[p.offset + i - 1] \in ByteValues
  BY PlaceBytes
<1>2. Slice(m, p) = Slice(written, p)
  BY <1>1 DEF Slice
<1>3. Slice(m, p) \in Values(p)
  BY <1>1 DEF Slice, Values
<1>4. ASSUME NEW b \in Span(p) PROVE Slice(m, p)[b - p.offset + 1] = written[b]
  <2>1. b - p.offset + 1 \in 1..p.width /\ p.offset \in Nat /\ b \in Int
    BY PlaceBytes DEF Record
  <2>2. Slice(m, p)[b - p.offset + 1] = m[p.offset + (b - p.offset + 1) - 1]
    BY <2>1 DEF Slice
  <2> QED BY <2>1, <2>2
<1> QED BY <1>2, <1>3, <1>4

(* The new definitions an access leaves: what was flushed and did not      *)
(* overlap, and the accessed place itself.                                 *)
LEMMA RetainingField ==
    ASSUME FieldsAssumption, Inv, NEW ds \in SUBSET Dirty(definitions),
           NEW p \in Places, NEW v \in Values(p), NEW dirty \in BOOLEAN,
           definitions' = Without(AfterFlush(ds), p)
                            \cup {[place |-> p, value |-> v, dirty |-> dirty]},
           memory' \in [Record -> ByteValues], written' \in [Record -> ByteValues],
           \A b \in Record : b \in Span(p) => written'[b] = v[b - p.offset + 1],
           \A b \in Record : b \notin Span(p) => written'[b] = written[b]
    PROVE  FieldsTypeOK' /\ NoOverlaps' /\ Current'
<1> DEFINE new == [place |-> p, value |-> v, dirty |-> dirty]
           kept == Without(AfterFlush(ds), p)
<1>1. /\ \A e \in kept :
            /\ e = [place |-> e.place, value |-> e.value, dirty |-> e.dirty]
            /\ e.place \in Places /\ e.value \in Values(e.place) /\ e.dirty \in BOOLEAN
            /\ \A b \in Span(e.place) : ValueOf(e, b) = written[b]
            /\ ~Overlaps(p, e.place)
      /\ \A d, e \in kept : d # e => ~Overlaps(d.place, e.place)
  BY Flushing DEF Inv, Without
<1>a. definitions' = kept \cup {new} /\ new.place = p /\ new.value = v /\ new.dirty = dirty
  OBVIOUS
<1> HIDE DEF kept
<1>2. FieldsTypeOK'
  <2>1. ASSUME NEW e \in definitions'
        PROVE  /\ e = [place |-> e.place, value |-> e.value, dirty |-> e.dirty]
               /\ e.place \in Places /\ e.value \in Values(e.place) /\ e.dirty \in BOOLEAN
    <3>1. CASE e \in kept
      BY <1>1, <3>1
    <3>2. CASE e = new
      BY <3>2
    <3> QED BY <1>a, <3>1, <3>2
  <2> QED BY <2>1 DEF FieldsTypeOK, Values
<1>3. NoOverlaps'
  <2> HIDE DEF new
  <2>1. \A e \in kept : ~Overlaps(e.place, p) /\ ~Overlaps(p, e.place)
    BY <1>1 DEF Overlaps
  <2> QED BY <1>1, <1>a, <2>1 DEF NoOverlaps, Overlaps
<1>4. Current'
  <2>1. ASSUME NEW e \in kept, NEW b \in Span(e.place) PROVE ValueOf(e, b) = written'[b]
    <3>1. b \in Record /\ b \notin Span(p)
      BY <1>1, PlaceBytes DEF Overlaps
    <3> QED BY <1>1, <3>1
  <2>2. ASSUME NEW b \in Span(p) PROVE ValueOf(new, b) = written'[b]
    BY PlaceBytes DEF ValueOf
  <2> QED BY <1>a, <2>1, <2>2 DEF Current
<1> QED BY <1>2, <1>3, <1>4

-----------------------------------------------------------------------------
(* Each access keeps the invariant.                                        *)
LEMMA InitInv ==
    ASSUME FieldsAssumption, FieldsInit PROVE Inv
    BY DEF FieldsInit, Inv, FieldsTypeOK, NoOverlaps, Current, Backed, Answered, Idle, Record

(* The place is held by one definition only.                               *)
LEMMA HeldIsAt ==
    ASSUME FieldsAssumption, Inv, NEW p \in Places, At(p) # {}
    PROVE  Held(p) \in definitions /\ Held(p).place = p /\ At(p) = {Held(p)}
<1>1. Held(p) \in definitions /\ Held(p).place = p
  BY DEF At, Held
<1>2. ASSUME NEW d \in At(p) PROVE d = Held(p)
  <2>1. d \in definitions /\ d.place = p
    BY DEF At
  <2>2. Overlaps(p, p)
    BY PlaceBytes DEF Overlaps
  <2> QED BY <1>1, <2>1, <2>2 DEF Inv, NoOverlaps
<1> QED BY <1>1, <1>2 DEF At

(* A fixed read that finds nothing writes back what overlaps and retains   *)
(* what it reads from memory.                                              *)
LEMMA ReadFixedInv ==
    ASSUME FieldsAssumption, Inv, NEW p \in Places, ReadFixed(p) PROVE Inv'
<1>0. written' = written /\ access'.kind = "read" /\ access'.place = p
  BY DEF ReadFixed, Accessed, Flushed
<1>1. CASE At(p) # {}
  <2>1. /\ memory' = memory /\ definitions' = definitions
        /\ access'.value = Held(p).value
    BY <1>1 DEF ReadFixed, Accessed, Flushed
  <2>2. Held(p) \in definitions /\ Held(p).place = p
    BY <1>1, HeldIsAt
  <2>3. Held(p).value = Slice(written, p)
    <3>1. Held(p).value \in Values(p) /\ \A b \in Span(p) : Held(p).value[b - p.offset + 1] = written[b]
      BY <2>2 DEF Inv, FieldsTypeOK, Current, ValueOf
    <3>2. \A i \in 1..p.width : Held(p).value[i] = written[p.offset + i - 1]
      <4>1. ASSUME NEW i \in 1..p.width PROVE Held(p).value[i] = written[p.offset + i - 1]
        <5>1. p.offset + i - 1 \in Span(p) /\ (p.offset + i - 1) - p.offset + 1 = i
          BY PlaceBytes
        <5>2. Held(p).value[(p.offset + i - 1) - p.offset + 1] = written[p.offset + i - 1]
          BY <3>1, <5>1
        <5> QED BY <5>1, <5>2
      <4> QED BY <4>1
    <3> QED BY <3>1, <3>2 DEF Values, Slice
  <2>4. Answered'
    BY <1>0, <2>1, <2>3 DEF Answered
  <2> QED BY <1>0, <2>1, <2>4 DEF Inv, FieldsTypeOK, NoOverlaps, Current, Backed
<1>2. CASE At(p) = {}
  <2> DEFINE ds == Flushed(p, FALSE)
             m == StoreAll(memory, ds)
             v == Slice(m, p)
  <2>1. /\ memory' = m /\ access'.value = v
        /\ definitions' = Without(AfterFlush(ds), p)
                            \cup {[place |-> p, value |-> v, dirty |-> FALSE]}
    BY <1>2 DEF ReadFixed, Accessed, Flushed
  <2>2. ds \in SUBSET Dirty(definitions) /\ ds \in SUBSET definitions
    BY DEF Flushed, Dirty
  <2>3. \A d \in Dirty(definitions) \ ds : ~Overlaps(p, d.place)
    BY DEF Flushed
  <2> HIDE DEF ds
  <2>4. m \in [Record -> ByteValues]
    BY <2>2, StoredBytes DEF Inv
  <2>5. \A b \in Record : (\A d \in Dirty(definitions) \ ds : b \notin Span(d.place))
                          => m[b] = written[b]
    BY <2>2, Flushing DEF Inv
  <2> HIDE DEF m
  <2>6. \A b \in Span(p) : m[b] = written[b]
    BY <2>3, <2>5, PlaceBytes DEF Overlaps
  <2>7. v = Slice(written, p) /\ v \in Values(p) /\ \A b \in Span(p) : v[b - p.offset + 1] = written[b]
    BY <2>4, <2>6, SliceOfWritten
  <2> HIDE DEF v
  <2>8. FieldsTypeOK' /\ NoOverlaps' /\ Current'
    <3>1. memory' \in [Record -> ByteValues] /\ written' \in [Record -> ByteValues]
      BY <1>0, <2>1, <2>4 DEF Inv, FieldsTypeOK
    <3>2. \A b \in Record : b \in Span(p) => written'[b] = v[b - p.offset + 1]
      BY <1>0, <2>7
    <3>3. \A b \in Record : b \notin Span(p) => written'[b] = written[b]
      BY <1>0
    <3> QED BY <2>1, <2>2, <2>7, <3>1, <3>2, <3>3, RetainingField
  <2>9. Backed'
    <3>1. ASSUME NEW b \in Record, \A d \in Dirty(definitions') : b \notin Span(d.place)
          PROVE  m[b] = written[b]
      <4>1. \A d \in Dirty(definitions) \ ds : d \in Dirty(definitions')
        BY <2>1, <2>3 DEF AfterFlush, Without, Dirty
      <4> QED BY <2>5, <3>1, <4>1
    <3> QED BY <1>0, <2>1, <3>1 DEF Backed, Dirty
  <2>10. Answered'
    BY <1>0, <2>1, <2>7 DEF Answered
  <2> QED BY <2>8, <2>9, <2>10 DEF Inv
<1> QED BY <1>1, <1>2

(* A read at a run-time place writes back the definitions its span         *)
(* overlaps before it reads memory.                                        *)
LEMMA ReadIndexedInv ==
    ASSUME FieldsAssumption, Inv, NEW span \in Spans, NEW p \in Places, ReadIndexed(span, p)
    PROVE  Inv'
<1> DEFINE ds == Flushed(span, FALSE)
           m == StoreAll(memory, ds)
<1>1. /\ Covers(span, p) /\ memory' = m /\ definitions' = AfterFlush(ds) /\ written' = written
      /\ access'.kind = "read" /\ access'.place = p /\ access'.value = Slice(m, p)
  BY DEF ReadIndexed, Accessed, Flushed
<1>2. ds \in SUBSET Dirty(definitions) /\ ds \in SUBSET definitions
  BY DEF Flushed, Dirty
<1>3. \A d \in Dirty(definitions) \ ds : ~Overlaps(span, d.place)
  BY DEF Flushed
<1> HIDE DEF ds
<1>4. m \in [Record -> ByteValues]
  BY <1>2, StoredBytes DEF Inv
<1>5. /\ \A e \in AfterFlush(ds) :
            /\ e = [place |-> e.place, value |-> e.value, dirty |-> e.dirty]
            /\ e.place \in Places /\ e.value \in Values(e.place) /\ e.dirty \in BOOLEAN
            /\ \A b \in Span(e.place) : ValueOf(e, b) = written[b]
      /\ \A d, e \in AfterFlush(ds) : d # e => ~Overlaps(d.place, e.place)
      /\ \A b \in Record : (\A d \in Dirty(definitions) \ ds : b \notin Span(d.place))
                           => m[b] = written[b]
  BY <1>2, Flushing DEF Inv
<1>6. \A d \in Dirty(definitions) \ ds : d \in AfterFlush(ds)
  BY DEF AfterFlush, Dirty
<1> HIDE DEF m
<1>7. FieldsTypeOK'
  BY <1>1, <1>4, <1>5 DEF FieldsTypeOK, Inv, Values
<1>8. NoOverlaps' /\ Current'
  BY <1>1, <1>5 DEF NoOverlaps, Overlaps, Current, ValueOf
<1>9. Backed'
  BY <1>1, <1>5, <1>6 DEF Backed, Dirty
<1>10. Answered'
  <2>1. \A b \in Span(p) : m[b] = written[b]
    BY <1>1, <1>3, <1>5, PlaceBytes DEF Overlaps, Covers
  <2>2. Slice(m, p) = Slice(written, p)
    BY <1>4, <2>1, SliceOfWritten
  <2> QED BY <1>1, <2>2 DEF Answered
<1> QED BY <1>7, <1>8, <1>9, <1>10 DEF Inv

(* A definition drops what it covers and writes back what it overlaps only *)
(* in part.                                                                *)
LEMMA DefineFixedInv ==
    ASSUME FieldsAssumption, Inv, NEW p \in Places, NEW value \in Values(p), NEW same \in BOOLEAN,
           DefineFixed(p, value, same)
    PROVE  Inv'
<1> DEFINE new == [place |-> p, value |-> value, dirty |-> TRUE]
<1>0. written' = Store(written, p, value) /\ access'.kind = "write"
  BY DEF DefineFixed, Accessed
<1>1. /\ written' \in [Record -> ByteValues] /\ written \in [Record -> ByteValues] /\ memory \in [Record -> ByteValues]
      /\ \A b \in Record : b \in Span(p) => written'[b] = value[b - p.offset + 1]
      /\ \A b \in Record : b \notin Span(p) => written'[b] = written[b]
  BY <1>0, StoreBytes DEF Inv, FieldsTypeOK
<1>2. Answered'
  BY <1>0 DEF Answered
<1>3. CASE At(p) # {} /\ Held(p).value = value /\ UNCHANGED <<memory, definitions>>
  <2>1. Held(p) \in definitions /\ Held(p).place = p
    BY <1>3, HeldIsAt
  <2>2. \A b \in Span(p) : value[b - p.offset + 1] = written[b]
    BY <1>3, <2>1 DEF Inv, Current, ValueOf
  <2>3. written' = written
    BY <1>1, <2>2
  <2> QED BY <1>2, <1>3, <2>3 DEF Inv, FieldsTypeOK, NoOverlaps, Current, Backed
<1>4. CASE At(p) # {} /\ definitions' = (definitions \ At(p)) \cup {new} /\ UNCHANGED memory
  <2>1. At(p) = {Held(p)} /\ Held(p) \in definitions /\ Held(p).place = p
    BY <1>4, HeldIsAt
  <2>2. Without(AfterFlush({}), p) = definitions \ At(p)
    <3>1. AfterFlush({}) = definitions
      BY DEF AfterFlush
    <3>2. Overlaps(p, p)
      BY PlaceBytes DEF Overlaps
    <3>3. \A d \in definitions : ~Overlaps(p, d.place) <=> d \notin At(p)
      BY <2>1, <3>2 DEF Inv, NoOverlaps, Overlaps
    <3> QED BY <3>1, <3>3 DEF Without
  <2>3. {} \in SUBSET Dirty(definitions) /\ memory' \in [Record -> ByteValues]
    BY <1>1, <1>4
  <2>4. FieldsTypeOK' /\ NoOverlaps' /\ Current'
    BY <1>1, <1>4, <2>2, <2>3, RetainingField
  <2>5. Backed'
    <3>1. ASSUME NEW b \in Record, \A d \in Dirty(definitions') : b \notin Span(d.place)
          PROVE  memory[b] = written'[b]
      <4>1. new \in Dirty(definitions') /\ new.place = p
        BY <1>4 DEF Dirty
      <4>2. b \notin Span(p)
        BY <3>1, <4>1
      <4>3. \A d \in Dirty(definitions) : d \in Dirty(definitions') \/ d.place = p
        BY <1>4 DEF Dirty, At
      <4>4. memory[b] = written[b]
        BY <3>1, <4>2, <4>3 DEF Inv, Backed
      <4> QED BY <1>1, <4>2, <4>4
    <3> QED BY <1>4, <3>1 DEF Backed, Dirty
  <2> QED BY <1>2, <2>4, <2>5 DEF Inv
<1>5. CASE /\ memory' = StoreAll(memory, Flushed(p, TRUE))
           /\ definitions' = Without(AfterFlush(Flushed(p, TRUE)), p) \cup {new}
  <2> DEFINE ds == Flushed(p, TRUE)
             m == StoreAll(memory, ds)
  <2>1. ds \in SUBSET Dirty(definitions) /\ ds \in SUBSET definitions
    BY DEF Flushed, Dirty
  <2>2. \A d \in Dirty(definitions) \ ds : Overlaps(p, d.place) => Covers(p, d.place)
    BY DEF Flushed
  <2>3. memory' = m /\ definitions' = Without(AfterFlush(ds), p) \cup {new}
    BY <1>5 DEF Flushed
  <2> HIDE DEF ds
  <2>4. m \in [Record -> ByteValues]
    BY <2>1, StoredBytes DEF Inv
  <2>5. \A b \in Record : (\A d \in Dirty(definitions) \ ds : b \notin Span(d.place))
                          => m[b] = written[b]
    BY <2>1, Flushing DEF Inv
  <2> HIDE DEF m
  <2>6. FieldsTypeOK' /\ NoOverlaps' /\ Current'
    BY <1>1, <2>1, <2>3, <2>4, RetainingField
  <2>7. Backed'
    <3>1. ASSUME NEW b \in Record, \A d \in Dirty(definitions') : b \notin Span(d.place)
          PROVE  m[b] = written'[b]
      <4>1. new \in Dirty(definitions') /\ new.place = p
        BY <2>3 DEF Dirty
      <4>2. b \notin Span(p)
        BY <3>1, <4>1
      <4>3. ASSUME NEW d \in Dirty(definitions) \ ds PROVE b \notin Span(d.place)
        <5>1. CASE Overlaps(p, d.place)
          BY <2>2, <4>2, <5>1 DEF Covers
        <5>2. CASE ~Overlaps(p, d.place)
          <6>1. d \in Dirty(definitions')
            BY <2>3, <5>2 DEF Dirty, AfterFlush, Without
          <6> QED BY <3>1, <6>1
        <5> QED BY <5>1, <5>2
      <4>4. m[b] = written[b]
        BY <2>5, <4>3
      <4> QED BY <1>1, <4>2, <4>4
    <3> QED BY <2>3, <3>1 DEF Backed, Dirty
  <2> QED BY <1>2, <2>6, <2>7 DEF Inv
<1> QED BY <1>3, <1>4, <1>5 DEF DefineFixed, Flushed

(* A definition at a run-time place goes to memory, after the definitions  *)
(* its span overlaps, and those are no longer retained.                    *)
LEMMA DefineIndexedInv ==
    ASSUME FieldsAssumption, Inv, NEW span \in Spans, NEW p \in Places, NEW value \in Values(p),
           DefineIndexed(span, p, value)
    PROVE  Inv'
<1> DEFINE ds == Flushed(span, FALSE)
           m == StoreAll(memory, ds)
<1>1. /\ Covers(span, p) /\ memory' = Store(m, p, value)
      /\ definitions' = Without(AfterFlush(ds), span)
      /\ written' = Store(written, p, value) /\ access'.kind = "write"
  BY DEF DefineIndexed, Accessed, Flushed
<1>2. ds \in SUBSET Dirty(definitions) /\ ds \in SUBSET definitions
  BY DEF Flushed, Dirty
<1>3. \A d \in Dirty(definitions) \ ds : ~Overlaps(span, d.place)
  BY DEF Flushed
<1> HIDE DEF ds
<1>4. m \in [Record -> ByteValues] /\ written \in [Record -> ByteValues]
  BY <1>2, StoredBytes DEF Inv, FieldsTypeOK
<1>5. /\ \A e \in AfterFlush(ds) :
            /\ e = [place |-> e.place, value |-> e.value, dirty |-> e.dirty]
            /\ e.place \in Places /\ e.value \in Values(e.place) /\ e.dirty \in BOOLEAN
            /\ \A b \in Span(e.place) : ValueOf(e, b) = written[b]
      /\ \A d, e \in AfterFlush(ds) : d # e => ~Overlaps(d.place, e.place)
      /\ \A b \in Record : (\A d \in Dirty(definitions) \ ds : b \notin Span(d.place))
                           => m[b] = written[b]
  BY <1>2, Flushing DEF Inv
<1>6. \A d \in Dirty(definitions) \ ds : d \in Dirty(Without(AfterFlush(ds), span))
  BY <1>3 DEF AfterFlush, Dirty, Without
<1> HIDE DEF m
<1>7. /\ memory' \in [Record -> ByteValues] /\ written' \in [Record -> ByteValues]
      /\ \A b \in Record : b \in Span(p) => memory'[b] = written'[b]
      /\ \A b \in Record : b \notin Span(p) => memory'[b] = m[b] /\ written'[b] = written[b]
  BY <1>1, <1>4, StoreBytes
<1>8. \A e \in definitions' : e \in AfterFlush(ds) /\ ~Overlaps(span, e.place)
  BY <1>1 DEF Without
<1>9. FieldsTypeOK'
  BY <1>5, <1>7, <1>8 DEF FieldsTypeOK, Values
<1>10. NoOverlaps'
  BY <1>5, <1>8 DEF NoOverlaps, Overlaps
<1>11. Current'
  <2>1. ASSUME NEW e \in definitions', NEW b \in Span(e.place) PROVE ValueOf(e, b) = written'[b]
    <3>1. b \in Record /\ b \notin Span(p)
      BY <1>1, <1>5, <1>8, PlaceBytes DEF Overlaps, Covers
    <3> QED BY <1>5, <1>7, <1>8, <3>1
  <2> QED BY <2>1 DEF Current, ValueOf
<1>12. Backed'
  <2>1. ASSUME NEW b \in Record, \A d \in Dirty(definitions') : b \notin Span(d.place)
        PROVE  memory'[b] = written'[b]
    <3>1. m[b] = written[b]
      BY <1>1, <1>5, <1>6, <2>1
    <3> QED BY <1>7, <3>1
  <2> QED BY <2>1 DEF Backed, Dirty
<1>13. Answered'
  BY <1>1 DEF Answered
<1> QED BY <1>9, <1>10, <1>11, <1>12, <1>13 DEF Inv

(* The end of a block leaves nothing retained.                             *)
LEMMA PublishInv ==
    ASSUME FieldsAssumption, Inv, PublishField PROVE Inv'
<1>1. StoreAll(memory, Dirty(definitions)) \in [Record -> ByteValues]
  BY StoredBytes DEF Inv, Dirty
<1>2. \A b \in Record : StoreAll(memory, Dirty(definitions))[b] = written[b]
  BY Flushing DEF Inv
<1> QED BY <1>1, <1>2 DEF PublishField, Inv, FieldsTypeOK, NoOverlaps, Current, Backed, Answered, Idle

(* Every access, fixed or indexed, in any order keeps the invariant.       *)
THEOREM Invariance == ASSUME FieldsAssumption PROVE FieldsSpec => []Inv
<1>1. FieldsInit => Inv
  BY InitInv
<1>2. Inv /\ [FieldsNext]_fieldVars => Inv'
  <2> SUFFICES ASSUME Inv, [FieldsNext]_fieldVars PROVE Inv'
    OBVIOUS
  <2>1. CASE UNCHANGED fieldVars
    BY <2>1 DEF fieldVars, Inv, FieldsTypeOK, NoOverlaps, Current, Backed, Answered
  <2> QED BY <2>1, ReadFixedInv, ReadIndexedInv, DefineFixedInv, DefineIndexedInv, PublishInv DEF FieldsNext
<1> QED BY <1>1, <1>2, PTL DEF FieldsSpec

(* Retained fields, written-back fields and backing memory stand for a     *)
(* plain byte memory, for every size of the record and every width         *)
(* (ssa/state_fields.rs:198-324).                                          *)
THEOREM FieldsStandForMemory == ASSUME FieldsAssumption PROVE FieldsSpec => []FieldsAreMemory
<1>1. ASSUME Inv PROVE FieldsAreMemory
  <2>1. Dirty(definitions) \in SUBSET definitions /\ Dirty(definitions) \in SUBSET Dirty(definitions)
    BY DEF Dirty
  <2>2. \A b \in Record : StoreAll(memory, Dirty(definitions))[b] = written[b]
    BY <1>1, <2>1, Flushing DEF Inv
  <2>3. StoreAll(memory, Dirty(definitions)) \in [Record -> ByteValues] /\ written \in [Record -> ByteValues]
    BY <1>1, <2>1, StoredBytes DEF Inv, FieldsTypeOK
  <2>4. StoreAll(memory, Dirty(definitions)) = written
    BY <2>2, <2>3
  <2> QED BY <1>1, <2>4 DEF FieldsAreMemory, Inv, Answered
<1> QED BY <1>1, Invariance, PTL

(* The order of write-backs cannot matter: no two retained places overlap. *)
THEOREM FieldsNeverOverlap == ASSUME FieldsAssumption PROVE FieldsSpec => []NoOverlaps
BY Invariance, PTL DEF Inv
=============================================================================
