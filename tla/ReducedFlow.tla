---------------------------- MODULE ReducedFlow ----------------------------
(***************************************************************************)
(* Reducing a function's control flow before placement (place/flow,        *)
(* place/dominance): its blocks are visited in reverse postorder, each     *)
(* learns the facts of the paths that enter it, and its effects and exit   *)
(* are reduced under them.  A branch that becomes constant drops an edge,  *)
(* which later blocks no longer count among their paths.                   *)
(*                                                                         *)
(* A block is [parameters, effects, exit]: an effect is its inputs and the *)
(* value of its result; an exit is its inputs (a condition, a selector, or *)
(* what is returned) and its edges, each with a target and arguments, and  *)
(* a key when a switch selects it.                                         *)
(***************************************************************************)
EXTENDS ExpressionFolding

-----------------------------------------------------------------------------
(* What is known of values on one path of a function, and the values it    *)
(* lets replace (crates/compiler/src/place/facts, place/reduce): inferring *)
(* from the facts, learning them from the branches a path took, joining    *)
(* paths, and reducing values under a path's facts.                        *)
(*                                                                         *)
(* Facts are about logical bits: a fact about a narrow value says nothing  *)
(* of the garbage above it in its carrier, while a replacement must keep   *)
(* the whole carrier.  The inference cache is not kept here: Changed       *)
(* records the earliest value whose inference a step may change, which is  *)
(* what the code keeps its cache below.                                    *)

CONSTANTS
    MaxConstraints,     \* Boolean constraints a path revisits
    MaxChecks,          \* visits of constraints after one batch of changes
    MaxValues,          \* values a case proof looks at
    MaxProofSteps       \* cases it tries
BudgetAssumption ==
    MaxConstraints \in Nat /\ MaxChecks \in Nat /\ MaxValues \in Nat /\ MaxProofSteps \in Nat

VARIABLE table          \* the function's values, inputs before results

S == INSTANCE SequencesExt

Never == 999
Position(v) == IF \E i \in DOMAIN table : table[i] = v
               THEN CHOOSE i \in DOMAIN table : table[i] = v ELSE Len(table) + 1

-----------------------------------------------------------------------------
(* Known positions of an encoding, and their bits. *)

Known(mask, value) == [mask |-> mask, value |-> value]
Nothing == Known(0, 0)
Common(a, b) ==
    LET mask == AndNot(AndBits(a.mask, b.mask), XorBits(a.value, b.value))
    IN  Known(mask, AndBits(a.value, mask))
Conflicts(a, b) ==
    AndBits(XorBits(a.value, b.value), AndBits(a.mask, b.mask)) # 0
Union(a, b) == Known(OrBits(a.mask, b.mask), OrBits(a.value, b.value))
RestrictTo(a, mask) == Known(AndBits(a.mask, mask), AndBits(a.value, mask))
Zeros(a) == AndNot(a.mask, a.value)
Adds(new, old) == AndNot(new.mask, old.mask) # 0
TruthBit(b) == Known(1, IF b THEN 1 ELSE 0)

Empty == [v \in {} |-> Nothing]
NoFacts == [known |-> Empty, words |-> Empty, ranges |-> Empty, outcomes |-> Empty,
            roots |-> <<>>, active |-> {}, revisit |-> Never, touched |-> Never]

Recorded(map, key) == IF key \in DOMAIN map THEN map[key] ELSE Nothing
With(map, key, value) == (key :> value) @@ map

Changed(f, v) ==
    [f EXCEPT !.touched = Least(@, Position(v)),
              !.revisit = IF f.active = {} THEN @ ELSE Least(@, Position(v))]

-----------------------------------------------------------------------------
(* facts/lanes.rs: overlapping lanes of a vector share words of half of it. *)

WordBits == Bits["V64"]
Observes(v) ==
    LET r == Representation(v)
    IN  \/ r.op[1] = "extract"
        \/ r.op[1] = "reinterpret" /\ r.ty = "I64" /\ Carrier(r.ins[1].ty) = "V128"
LaneObservation(v) ==
    LET r == Representation(v)
        start == IF r.op[1] = "extract" THEN r.op[2] * Bits[r.ty] ELSE 0
    IN  [word |-> <<Representation(r.ins[1]), start \div WordBits>>,
         offset |-> start % WordBits, mask |-> Mask(r.ty)]

WordKnown(f, word) ==
    IF IsLiteral(word[1]) THEN Known(LowMask(WordBits), Lane(WordBits, word[1].op[2], word[2]))
    ELSE Recorded(f.words, word)
RecordWord(f, word, bits) ==
    LET previous == Recorded(f.words, word)
    IN  IF bits.mask = 0 \/ Conflicts(previous, bits) THEN f
        ELSE [f EXCEPT !.words = With(@, word, Union(previous, bits))]

KnownBits(f, v) ==
    LET own == Recorded(f.known, v)
        at == LaneObservation(v)
        word == WordKnown(f, at.word)
    IN  IF f.words = Empty \/ ~Observes(v) THEN own
        ELSE RestrictTo(Union(own, RestrictTo(Known(word.mask \div 2^at.offset,
                                                    word.value \div 2^at.offset), at.mask)),
                        Mask(v.ty))

Record(f, v, bits) ==
    LET at == LaneObservation(v)
        seen == RestrictTo(bits, at.mask)
    IN  IF Observes(v)
        THEN Changed(RecordWord(f, at.word, Known(seen.mask * 2^at.offset,
                                                  seen.value * 2^at.offset)), at.word[1])
        ELSE Changed([f EXCEPT !.known = With(@, v, bits)], v)

-----------------------------------------------------------------------------
(* facts/range.rs: intervals of carriers whose upper bits are clear. *)

Interval(minimum, maximum) == [minimum |-> minimum, maximum |-> maximum]
NoRange == Interval(1, 0)
Intersect(a, b) ==
    LET both == Interval(Most(a.minimum, b.minimum), Least(a.maximum, b.maximum))
    IN  IF both.minimum <= both.maximum THEN both ELSE NoRange

RangeOf(f, v, bits) ==
    LET logical == Interval(bits.value, OrBits(bits.value, AndNot(Mask(v.ty), bits.mask)))
    IN  IF v.u > Bits[v.ty] THEN NoRange
        ELSE IF v \in DOMAIN f.ranges /\ Intersect(logical, f.ranges[v]) # NoRange
        THEN Intersect(logical, f.ranges[v]) ELSE logical

(* The outcomes a comparison of two intervals may have. *)
RangeCompare(a, operator, b) ==
    LET apart == a.maximum < b.minimum \/ b.maximum < a.minimum
        points == a.minimum = a.maximum /\ b.minimum = b.maximum
    IN  CASE NoRange \in {a, b} -> BOOLEAN
          [] NoRange \notin {a, b} /\ operator \in {"Eq", "Ne"} ->
                IF apart THEN {operator = "Ne"}
                ELSE IF points THEN {operator = "Eq"} ELSE BOOLEAN
          [] NoRange \notin {a, b} /\ operator \in {"LtUnsigned", "GeUnsigned"} ->
                IF a.maximum < b.minimum THEN {operator = "LtUnsigned"}
                ELSE IF a.minimum >= b.maximum THEN {operator = "GeUnsigned"} ELSE BOOLEAN
          [] OTHER -> BOOLEAN

RestrictRange(f, v, range) ==
    LET met == IF v \in DOMAIN f.ranges THEN Intersect(f.ranges[v], range) ELSE range
    IN  IF \/ ScalarLiteral(v) \/ range.minimum > range.maximum \/ met = NoRange
           \/ v \in DOMAIN f.ranges /\ f.ranges[v] = met
        THEN f
        ELSE Changed([f EXCEPT !.ranges = With(@, v, met)], v)

-----------------------------------------------------------------------------
(* facts/comparisons.rs: an outcome is remembered for the comparison of    *)
(* two carriers, whichever way round or negated it is asked for again.     *)

Inverted(operator) == operator \in {"Ne", "GeUnsigned", "GeSigned"}
Canonical(v) ==
    LET operator == CASE v.op[2] = "Ne" -> "Eq"
                      [] v.op[2] = "GeUnsigned" -> "LtUnsigned"
                      [] v.op[2] = "GeSigned" -> "LtSigned"
                      [] OTHER -> v.op[2]
        left == Representation(v.ins[1])
        right == Representation(v.ins[2])
    IN  IF operator = "Eq" /\ Position(left) > Position(right)
        THEN <<operator, right, left>> ELSE <<operator, left, right>>

IsComparison(v) == v.op[1] = "compare"

(* Mutant: an outcome is taken to change only inferences from its own result on. *)
RecordOutcomeAtResult(f, v, truth) ==
    LET key == Canonical(v)
    IN  IF key \in DOMAIN f.outcomes THEN f
        ELSE Changed([f EXCEPT !.outcomes = With(@, key, truth # Inverted(v.op[2]))], v)

(* An equivalent or opposite predicate may precede this one, never its operands. *)
RecordOutcome(f, v, truth) ==
    LET key == Canonical(v)
        later == IF Position(key[2]) > Position(key[3]) THEN key[2] ELSE key[3]
    IN  IF key \in DOMAIN f.outcomes THEN f
        ELSE Changed([f EXCEPT !.outcomes = With(@, key, truth # Inverted(v.op[2]))], later)
Outcomes(f, v) ==
    IF IsComparison(v) /\ Canonical(v) \in DOMAIN f.outcomes
    THEN {f.outcomes[Canonical(v)] # Inverted(v.op[2])} ELSE BOOLEAN

-----------------------------------------------------------------------------
(* facts/shifts.rs, facts/infer.rs: what follows for a value from what is  *)
(* known of its inputs.                                                    *)

Shifted(v, bits, operator, count) ==
    LET width == CarrierBits(v.ty)
        countMask == width - 1
        by == AndBits(count.value, countMask)
        all == LowMask(width)
        physical == IF ScalarLiteral(v) THEN Known(all, v.op[2])
                    ELSE Union(bits, Known(AndNot(all, LowMask(v.u)), 0))
    IN  IF AndNot(countMask, count.mask) # 0 \/ operator = "RightSigned" THEN Nothing
        ELSE IF operator = "Left"
        THEN Known((physical.mask * 2^by + LowMask(by)) % 2^width,
                   (physical.value * 2^by) % 2^width)
        ELSE Known(OrBits(physical.mask \div 2^by, AndNot(all, LowMask(width - by))),
                   physical.value \div 2^by)

(* The carrier that construction promises for logical bits, or Undefined. *)
CarrierBitsOf(v, logical) ==
    LET bits == Normalize(v.ty, logical)
    IN  IF ScalarLiteral(v) THEN v.op[2]
        ELSE IF v.u > Bits[v.ty] /\ v.s > Bits[v.ty] THEN Undefined
        ELSE IF v.s <= Bits[v.ty] THEN SignedValue(v.ty, bits) % 2^CarrierBits(v.ty)
        ELSE bits

Whole(v, bits) == AndNot(Mask(v.ty), bits.mask) = 0

Structural(v, ins) ==
    LET a == ins[1]
        b == ins[2]
        above(mask) == Known(AndNot(Mask(v.ty), mask), 0)
    IN  CASE v.op[1] = "convert" -> Union(a, above(LowMask(v.ins[1].u)))
          [] v.op[1] = "lowbits" ->
                Union(RestrictTo(a, LowMask(v.op[2])), above(LowMask(v.op[2])))
          [] v.op[1] = "zerotest" /\ a.value # 0 -> TruthBit(v.op[2])
          [] v.op = <<"bitwise", "And">> ->
                Known(OrBits(OrBits(Zeros(a), Zeros(b)), AndBits(a.value, b.value)),
                      AndBits(a.value, b.value))
          [] v.op = <<"bitwise", "Or">> ->
                Known(OrBits(AndBits(Zeros(a), Zeros(b)), OrBits(a.value, b.value)),
                      OrBits(a.value, b.value))
          [] v.op = <<"bitwise", "Xor">> ->
                LET mask == AndBits(a.mask, b.mask)
                IN  Known(mask, AndBits(XorBits(a.value, b.value), mask))
          [] v.op[1] = "shift" -> Shifted(v.ins[1], a, v.op[2], b)
          [] v.op[1] \in {"select", "bitselect"} -> Common(a, b)
          [] OTHER -> Nothing

(* What the inputs' intervals decide of a comparison or a zero test. *)
Decided(f, v, ins) ==
    LET range(i) == RangeOf(f, v.ins[i], ins[i])
    IN  CASE IsComparison(v) -> RangeCompare(range(1), v.op[2], range(2))
          [] v.op[1] = "zerotest" ->
                RangeCompare(range(1), IF v.op[2] THEN "Ne" ELSE "Eq", Interval(0, 0))
          [] OTHER -> BOOLEAN

(* The result when every input is known, or Undefined. *)
Evaluated(v, ins) ==
    LET vs == [i \in DOMAIN ins |-> CarrierBitsOf(v.ins[i], ins[i].value)]
    IN  IF \A i \in DOMAIN ins : /\ IsScalar(v.ins[i].ty) /\ Whole(v.ins[i], ins[i])
                                 /\ vs[i] # Undefined
        THEN ConstantResult(v.op, LiteralTypes(v.ins), vs, v.ty)
        ELSE Undefined

(* The recursions over a path's facts: inferring a value, propagating what *)
(* was learnt, and proving a predicate by cases.                           *)
RECURSIVE Consider(_, _, _)
Inferred(f, v) == Consider("infer", f, v)
Step(w) == Consider("step", w, <<>>)
Settled(w) == Consider("settle", w, <<>>)
ProveSelectCases(f, root, conditions, remaining) ==
    Consider("prove", f, [root |-> root, conditions |-> conditions, remaining |-> remaining])

InferredFrom(v, evaluated, decided, structural) ==
    IF evaluated # Undefined /\ IsScalar(v.ty) THEN Known(Mask(v.ty), evaluated)
    ELSE IF decided # BOOLEAN THEN TruthBit(TRUE \in decided)
    ELSE structural
InferredInputs(f, v, ins) ==
    InferredFrom(v, Evaluated(v, ins), Decided(f, v, ins), Structural(v, ins))
InferredBeyond(f, v, known, outcomes, choice) ==
    IF known.mask = Mask(v.ty) \/ v.ins = <<>> THEN known
    ELSE IF outcomes # BOOLEAN THEN TruthBit(TRUE \in outcomes)
    ELSE RestrictTo(Union(IF v.op[1] = "select" /\ choice.mask % 2 = 1
                          THEN Inferred(f, v.ins[IF choice.value % 2 = 1 THEN 1 ELSE 2])
                          ELSE InferredInputs(f, v, [i \in DOMAIN v.ins |-> Inferred(f, v.ins[i])]),
                          known), Mask(v.ty))
InferredBits(f, v) ==
    IF ~IsScalar(v.ty) THEN Nothing
    ELSE IF IsLiteral(v) THEN Known(Mask(v.ty), Normalize(v.ty, v.op[2]))
    ELSE InferredBeyond(f, v, KnownBits(f, v), Outcomes(f, v), Inferred(f, v.ins[3]))

WholeValue(v, bits) == IF IsScalar(v.ty) /\ Whole(v, bits) THEN bits.value ELSE Undefined
InferredConstant(f, v) == WholeValue(v, Inferred(f, v))
Constant(f, v) ==
    IF ScalarLiteral(v) THEN v.op[2]
    ELSE IF f.known = Empty /\ f.words = Empty /\ f.ranges = Empty /\ f.outcomes = Empty
    THEN Undefined
    ELSE InferredConstant(f, v)

-----------------------------------------------------------------------------
(* facts/assume.rs: one item of the worklist. *)

Item(v, bits) == [value |-> v, bits |-> bits]
Item1(v, truth) == Item(v, TruthBit(truth))

(* A Boolean constraint whose inputs its own truth does not settle. *)
Track(f, v, bits) ==
    LET settled == v.op[2] = (IF bits.value % 2 = 1 THEN "And" ELSE "Or")
        found == {i \in DOMAIN f.roots : f.roots[i] = v}
        index == IF found = {} THEN Len(f.roots) + 1 ELSE CHOOSE i \in found : TRUE
    IN  IF \/ v.ty # "I1" \/ bits.mask % 2 = 0 \/ v.op[1] # "bitwise" \/ settled
           \/ found = {} /\ Len(f.roots) = MaxConstraints
        THEN f
        ELSE [f EXCEPT !.roots = IF found = {} THEN Append(@, v) ELSE @,
                       !.active = @ \cup {index},
                       !.revisit = Least(@, Position(v))]

AssumeNonzero(f, v) ==
    LET range == RangeOf(f, v, Inferred(f, v))
    IN  IF range = NoRange THEN f ELSE RestrictRange(f, v, Interval(1, range.maximum))

AssumeComparison(f, v, truth) ==
    LET left == v.ins[1]
        right == v.ins[2]
        a == RangeOf(f, left, Inferred(f, left))
        b == RangeOf(f, right, Inferred(f, right))
    IN  IF v.op[2] \notin {"LtUnsigned", "GeUnsigned"} \/ NoRange \in {a, b} THEN f
        ELSE IF truth # (v.op[2] = "LtUnsigned")
        THEN RestrictRange(RestrictRange(f, left, Interval(b.minimum, Mask(left.ty))),
                           right, Interval(0, a.maximum))
        ELSE RestrictRange(RestrictRange(f, left, Interval(0, b.maximum - 1)),
                           right, Interval(a.minimum + 1, Mask(right.ty)))

(* What knowing these bits of v says of its inputs: a stack, the last first. *)
Consequences(f, v, bits) ==
    LET left == v.ins[1]
        right == v.ins[2]
        inputZero == (bits.value % 2 # 0) # v.op[2]
        equal == (bits.value % 2 # 0) = (v.op[2] = "Eq")
        zeros == Known(Zeros(bits), 0)
        ones == Known(bits.value, bits.value)
        exposed(other) == RestrictTo(bits, Inferred(f, other).value)
        condition == v.ins[3]
        decided == Constant(f, condition)
        truth == CASE decided # Undefined -> {decided # 0}
                   [] decided = Undefined /\ Conflicts(Inferred(f, left), bits) -> {FALSE}
                   [] OTHER -> IF Conflicts(Inferred(f, right), bits) THEN {TRUE} ELSE {}
    IN  CASE v.op[1] = "convert" -> <<Item(left, bits)>>
          [] v.op[1] = "lowbits" -> <<Item(left, RestrictTo(bits, LowMask(v.op[2])))>>
          [] v.op[1] = "zerotest" ->
                IF inputZero THEN <<Item(left, Known(Mask(left.ty), 0))>>
                ELSE IF left.ty = "I1" \/ left.u <= 1
                THEN <<Item(left, Known(Mask(left.ty), 1))>> ELSE <<>>
          [] v.op[1] = "compare" ->
                IF v.op[2] \in {"Eq", "Ne"} /\ equal
                THEN <<Item(left, Inferred(f, right)), Item(right, Inferred(f, left))>> ELSE <<>>
          [] v.op = <<"bitwise", "Or">> -> <<Item(left, zeros), Item(right, zeros)>>
          [] v.op = <<"bitwise", "And">> ->
                <<Item(left, ones), Item(right, ones),
                  Item(left, exposed(right)), Item(right, exposed(left))>>
          [] v.op[1] = "select" ->
                IF truth = {} THEN <<>>
                ELSE <<Item1(condition, TRUE \in truth),
                       Item(IF TRUE \in truth THEN left ELSE right, bits)>>
          [] OTHER -> <<>>

(* A fact about v beyond its bits: an interval, or a remembered outcome. *)
Observed(f, v, bits) ==
    CASE v.op[1] = "zerotest" ->
            IF /\ (bits.value % 2 # 0) = v.op[2]
               /\ v.ins[1].ty # "I1" /\ v.ins[1].u > 1
            THEN AssumeNonzero(f, v.ins[1]) ELSE f
      [] v.op[1] = "compare" ->
            AssumeComparison(RecordOutcome(f, v, bits.value # 0), v, bits.value # 0)
      [] OTHER -> f

(* Contradictory facts are those of an arm that is never reached: kept as they were. *)
Recording(recorded, v, all) == [facts |-> recorded, push |-> Consequences(recorded, v, all)]
AssumeAll(f, v, all) == Recording(Observed(Track(Record(f, v, all), v, all), v, all), v, all)
AssumeNew(f, v, bits, previous) ==
    IF \/ bits.mask = 0
       \/ \E old \in {KnownBits(f, v), previous} : Conflicts(old, bits) \/ ~Adds(bits, old)
    THEN [facts |-> f, push |-> <<>>]
    ELSE AssumeAll(f, v, Union(previous, bits))
Assume(f, item) ==
    AssumeNew(f, item.value, RestrictTo(item.bits, Mask(item.value.ty)), Inferred(f, item.value))

AssumeOver(f, v, previous, bits) ==
    IF Conflicts(previous, bits) \/ ~Adds(bits, previous) THEN f
    ELSE Record(f, v, Union(previous, bits))
AssumeBits(f, v, mask, value) ==
    AssumeOver(f, v, KnownBits(f, v), Known(mask, AndBits(value, mask)))

-----------------------------------------------------------------------------
(* facts/constraints.rs: with_assumptions and propagate_constraints, as    *)
(* the loop they run.  pass holds the constraints still to visit.          *)

Learning(facts, observations) ==
    [facts |-> facts, observations |-> observations, pending |-> <<>>,
     pass |-> {}, from |-> 0, checks |-> MaxChecks]
Front(s) == SubSeq(s, 1, Len(s) - 1)
Idle(w) == /\ w.pending = <<>> /\ w.observations = <<>>
           /\ w.pass = {} \/ w.checks = 0
           /\ w.facts.revisit = Never \/ w.checks = 0

(* Visit one constraint: a known input may settle the other. *)
VisitRoot(w, index, v, a, b) ==
    LET truth == w.facts.known[v].value % 2 # 0
        other == (IF a = Undefined THEN b ELSE a) % 2 # 0
        settles == v.op[2] \in {"Xor", IF other THEN "And" ELSE "Or"}
        input == IF a = Undefined THEN v.ins[1] ELSE v.ins[2]
        next == [w EXCEPT !.pass = @ \ {index}, !.checks = @ - 1]
    IN  IF Position(v) < w.from \/ (a = Undefined /\ b = Undefined) THEN next
        ELSE [next EXCEPT
                !.facts.active = @ \ {index},
                !.pending = IF Undefined \in {a, b} /\ settles
                            THEN <<Item1(input, IF v.op[2] = "Xor" THEN truth # other ELSE truth)>>
                            ELSE @]
Visit(w, index) ==
    LET v == w.facts.roots[index]
    IN  VisitRoot(w, index, v, Constant(w.facts, v.ins[1]), Constant(w.facts, v.ins[2]))

Advanced(w, taken) == [w EXCEPT !.facts = taken.facts, !.pending = Front(@) \o taken.push]
OutOfChecks(w) ==
    IF w.checks = 0 /\ w.pass # {} THEN [w EXCEPT !.pass = {}, !.facts.revisit = 0] ELSE w
Stepped(w) ==
    CASE w.pending # <<>> ->
            Advanced(w, Assume(w.facts, w.pending[Len(w.pending)]))
      [] w.pending = <<>> /\ w.observations # <<>> ->
            LET o == Head(w.observations)
                rest == [w EXCEPT !.observations = Tail(@)]
            IN  IF o.kind = "truth" THEN [rest EXCEPT !.pending = <<Item(o.value, o.bits)>>]
                ELSE [rest EXCEPT !.facts = AssumeBits(@, o.value, o.bits.mask, o.bits.value)]
      [] w.pending = <<>> /\ w.observations = <<>> /\ w.pass # {} ->
            OutOfChecks(Visit(w, CHOOSE i \in w.pass : \A j \in w.pass : i <= j))
      [] OTHER ->
            [w EXCEPT !.from = w.facts.revisit, !.facts.revisit = Never, !.pass = w.facts.active]

Propagated(w) == IF Idle(w) THEN w.facts ELSE Settled(Step(w))

-----------------------------------------------------------------------------
(* facts/merge.rs: what holds on every incoming path. *)

Retained(common) == [k \in {k \in DOMAIN common : common[k].mask # 0} |-> common[k]]
RetainMap(map, other) == Retained([k \in DOMAIN map |-> Common(map[k], Recorded(other, k))])
RetainKnown(f, other, known) ==
    LET active == {i \in DOMAIN f.roots : f.roots[i] \in DOMAIN known}
        cover(a, b) == Interval(Least(a.minimum, b.minimum), Most(a.maximum, b.maximum))
    IN  [f EXCEPT
          !.known = known,
          !.ranges = [v \in DOMAIN f.ranges \cap DOMAIN other.ranges |->
                        cover(f.ranges[v], other.ranges[v])],
          !.outcomes = [k \in {k \in DOMAIN f.outcomes \cap DOMAIN other.outcomes :
                                f.outcomes[k] = other.outcomes[k]} |-> f.outcomes[k]],
          !.words = RetainMap(f.words, other.words),
          !.active = active,
          !.revisit = IF active # {} THEN 0 ELSE IF f.roots = <<>> THEN @ ELSE Never]
RetainCommon(f, other) == RetainKnown(f, other, RetainMap(f.known, other.known))

RECURSIVE CommonOf(_)
CommonOf(all) ==
    IF Len(all) = 1 THEN all[1] ELSE Common(all[1], CommonOf(Tail(all)))

(* incoming: what each edge knows, and its arguments. *)
MergeParameter(f, parameter, incoming, i) ==
    LET assume(bits) ==
            IF bits.mask = 0 THEN f ELSE AssumeBits(f, parameter, bits.mask, bits.value)
    IN  assume(RestrictTo(CommonOf([e \in DOMAIN incoming |->
                            Inferred(incoming[e].facts, incoming[e].arguments[i])]),
                          Mask(parameter.ty)))

(* A half vector's parameter receives its low word; the rest of its carrier is garbage. *)
MergeVectorParameter(f, parameter, incoming, i) ==
    LET word(v, half) == <<Representation(v), half>>
        bits == [half \in 0..Bits[parameter.ty] \div WordBits - 1 |->
                    CommonOf([e \in DOMAIN incoming |->
                        WordKnown(incoming[e].facts, word(incoming[e].arguments[i], half))])]
        halves == SelectSeq(<<0, 1>>, LAMBDA half : half \in DOMAIN bits /\ bits[half].mask # 0)
    IN  IF halves = <<>> THEN f
        ELSE Changed(S!FoldLeft(LAMBDA g, half : RecordWord(g, word(parameter, half), bits[half]),
                                f, halves), parameter)

RECURSIVE MergeParameters(_, _, _, _)
MergeParameters(f, parameters, incoming, i) ==
    IF i > Len(parameters) THEN f
    ELSE MergeParameters(IF IsScalar(parameters[i].ty)
                         THEN MergeParameter(f, parameters[i], incoming, i)
                         ELSE MergeVectorParameter(f, parameters[i], incoming, i),
                         parameters, incoming, i + 1)

RECURSIVE RetainAll(_, _)
RetainAll(f, incoming) ==
    IF incoming = <<>> THEN f
    ELSE RetainAll(RetainCommon(f, Head(incoming).facts), Tail(incoming))

JoinFacts(parameters, incoming) ==
    LET retained == RetainAll(Head(incoming).facts, Tail(incoming))
    IN  Settled(Learning(MergeParameters(retained, parameters, incoming, 1), <<>>))

-----------------------------------------------------------------------------
(* facts/selects.rs: prove a predicate by the cases of shared selectors. *)

RECURSIVE Within(_, _, _)
Within(f, v, seen) ==
    LET stops == \/ IsLiteral(v) \/ v.ins = <<>>
                 \/ v \in DOMAIN f.known /\ f.known[v].mask = Mask(v.ty)
    IN  IF v \in seen THEN seen
        ELSE IF stops THEN seen \cup {v}
        ELSE S!FoldLeft(LAMBDA all, input : Within(f, input, all), seen \cup {v}, v.ins)

SelectInputs(f, root) ==
    LET values == Within(f, root, {})
        open(v) == ~(v \in DOMAIN f.known /\ f.known[v].mask = Mask(v.ty))
        uses(c) == Cardinality({v \in values : v.op[1] = "select" /\ v.ins[3] = c /\ open(v)})
        shared == {c \in values : uses(c) > 1}
    IN  S!SetToSortSeq(shared, LAMBDA a, b :
            uses(a) > uses(b) \/ (uses(a) = uses(b) /\ Position(a) < Position(b)))

ProveOtherCase(whenFalse, whenTrue) ==
    IF whenFalse.value = Undefined THEN whenFalse
    ELSE [value |-> IF whenTrue.value = whenFalse.value THEN whenTrue.value ELSE Undefined,
          remaining |-> whenTrue.remaining]
ProveCase(f, root, conditions, truth, remaining) ==
    ProveSelectCases(Settled([Learning(f, <<>>)
                        EXCEPT !.pending = <<Item1(Head(conditions), truth)>>]),
                     root, Tail(conditions), remaining)
ProveBothCases(f, root, conditions, whenFalse) ==
    ProveOtherCase(whenFalse, ProveCase(f, root, conditions, TRUE, whenFalse.remaining))
ProvedByCases(f, root, conditions, remaining, found) ==
    IF remaining = 0 THEN [value |-> Undefined, remaining |-> 0]
    ELSE IF found # Undefined \/ conditions = <<>>
    THEN [value |-> found, remaining |-> remaining - 1]
    ELSE IF InferredConstant(f, Head(conditions)) # Undefined
    THEN ProveSelectCases(f, root, Tail(conditions), remaining - 1)
    ELSE ProveBothCases(f, root, conditions,
                        ProveCase(f, root, conditions, FALSE, remaining - 1))

Consider(stage, f, x) ==
    CASE stage = "infer" -> InferredBits(f, x)
      [] stage = "step" -> Stepped(f)
      [] stage = "settle" -> Propagated(f)
      [] stage = "prove" -> ProvedByCases(f, x.root, x.conditions, x.remaining,
                                          InferredConstant(f, x.root))

ConstantAcrossSelects(f, root) ==
    IF \/ root.ty # "I1" \/ root.u > 1 \/ root.op[1] # "bitwise"
       \/ Cardinality(Within(f, root, {})) > MaxValues
    THEN Undefined
    ELSE ProveSelectCases(f, root, SelectInputs(f, root), MaxProofSteps).value

-----------------------------------------------------------------------------
(* reduce.rs *)

(* Mutant: logical zeros are taken for the carrier's. *)
BitwiseIdentityOfTypes(v, known) ==
    LET mask == CarrierMask(v.ty)
        zeros(i, bits) == OrBits(Zeros(bits), AndNot(mask, Mask(v.ins[i].ty)))
        keeps(i) ==
            LET own == known[i]
                other == known[3 - i]
            IN  IF v.op[2] = "Or" THEN AndNot(AndNot(mask, zeros(3 - i, other)), own.value) = 0
                ELSE AndNot(AndNot(mask, other.value), zeros(i, own)) = 0
    IN  IF v.op \notin {<<"bitwise", "And">>, <<"bitwise", "Or">>} \/ ~IsScalar(v.ty) THEN None
        ELSE IF keeps(1) THEN v.ins[1] ELSE IF keeps(2) THEN v.ins[2] ELSE None

(* The operand that known bits make the whole carrier of an And or an Or. *)
BitwiseIdentity(v, known) ==
    LET mask == CarrierMask(v.ty)
        zeros(i, bits) == OrBits(Zeros(bits), AndNot(mask, LowMask(v.ins[i].u)))
        keeps(i) ==
            LET own == known[i]
                other == known[3 - i]
            IN  IF v.op[2] = "Or" THEN AndNot(AndNot(mask, zeros(3 - i, other)), own.value) = 0
                ELSE AndNot(AndNot(mask, other.value), zeros(i, own)) = 0
    IN  IF v.op \notin {<<"bitwise", "And">>, <<"bitwise", "Or">>} \/ ~IsScalar(v.ty) THEN None
        ELSE IF keeps(1) THEN v.ins[1] ELSE IF keeps(2) THEN v.ins[2] ELSE None

KnownConstant(v, bits) ==
    LET carrier == CarrierBitsOf(v, bits)
    IN  IF ~IsScalar(v.ty) \/ bits = Undefined \/ carrier = Undefined THEN None
        ELSE CarrierLiteral(v.ty, carrier)

RECURSIVE Reduce(_, _)
RECURSIVE Finish(_, _, _)
FinishAs(f, v, ins, result) ==
    LET as(truth) == IF truth = Undefined THEN v ELSE CarrierLiteral("I1", truth)
    IN  IF result # v THEN Reduce(f, result)
        ELSE IF ins # v.ins THEN Finish(f, v, v.ins)
        ELSE as(ConstantAcrossSelects(f, v))
(* Fold over inputs that changed; lower the value when none did, or nothing came of it. *)
Finish(f, v, ins) ==
    FinishAs(f, v, ins, Express(IF ins = v.ins THEN "lower" ELSE "fold", v.ty, v.op, ins))
ReduceChoice(f, v, choice) ==
    IF v.op[1] = "select" /\ ScalarLiteral(choice)
    THEN Reduce(f, v.ins[IF choice.op[2] = 0 THEN 2 ELSE 1])
    ELSE Finish(f, v, [i \in DOMAIN v.ins |-> Reduce(f, v.ins[i])])
ReduceAs(f, v, constant, identity) ==
    IF constant # None THEN constant
    ELSE IF identity # None THEN Reduce(f, identity)
    ELSE IF v.ins = <<>> THEN v
    ELSE ReduceChoice(f, v, Reduce(f, v.ins[3]))
Reduce(f, v) ==
    ReduceAs(f, v, KnownConstant(v, Constant(f, v)),
             BitwiseIdentity(v, [i \in DOMAIN v.ins |-> Inferred(f, v.ins[i])]))

-----------------------------------------------------------------------------
CONSTANT Bodies         \* the functions a behaviour may place, by shape: how the values are
                        \* built (recipes, then one of several choices of some more), the
                        \* blocks over their names, and the carriers they may be given

VARIABLES
    function,           \* the shape of the function placed
    values,             \* while it is built: its values by name
    authored,           \* its blocks as they were built
    graph,              \* its blocks, the visited ones reduced
    facts,              \* per visited block, its path facts
    at,                 \* the block being visited, 0 for none, or Unplaced
    work                \* the learning under way there
vars == <<table, function, values, authored, graph, facts, at, work>>

Unplaced == 99
Blocks == DOMAIN authored

-----------------------------------------------------------------------------
(* body.rs: exits. *)

(* The position of the only edge a constant exit takes, or 0. *)
ConstantEdge(exit) ==
    LET input == exit.inputs[1]
        cases == {i \in DOMAIN exit.edges : exit.edges[i].key = input.op[2]}
    IN  CASE exit.kind = "if" /\ ScalarLiteral(input) -> IF input.op[2] = 0 THEN 2 ELSE 1
          [] exit.kind = "switch" /\ ScalarLiteral(input) ->
                IF cases = {} THEN Len(exit.edges) ELSE CHOOSE i \in cases : TRUE
          [] OTHER -> 0
Outgoing(exit) ==
    IF ConstantEdge(exit) = 0 THEN exit.edges ELSE <<exit.edges[ConstantEdge(exit)]>>
Targets(exit) == {Outgoing(exit)[i].target : i \in DOMAIN Outgoing(exit)}

RECURSIVE ReachableFrom(_, _)
ReachableFrom(blocks, seen) ==
    LET next == seen \cup UNION {Targets(blocks[b].exit) : b \in seen}
    IN  IF next = seen THEN seen ELSE ReachableFrom(blocks, next)
Reachable(blocks) == ReachableFrom(blocks, {1})

-----------------------------------------------------------------------------
(* dominance.rs *)

Edges(exit) == [i \in DOMAIN Outgoing(exit) |-> Outgoing(exit)[i].target]
RECURSIVE Postorder(_, _, _)
Postorder(blocks, done, b) ==      \* done: the nodes seen and the order so far
    IF b \in done.seen THEN done
    ELSE LET inside == S!FoldLeft(LAMBDA d, target : Postorder(blocks, d, target),
                                  [done EXCEPT !.seen = @ \cup {b}], Edges(blocks[b].exit))
         IN  [inside EXCEPT !.order = Append(@, b)]
ReversePostorder(blocks) == S!Reverse(Postorder(blocks, [seen |-> {}, order |-> <<>>], 1).order)

Predecessors(blocks, b) == {p \in Reachable(blocks) : b \in Targets(blocks[p].exit)}

(* Walk the provisional parent tree upwards to where two nodes meet. *)
RECURSIVE Meet(_, _, _, _)
Meet(parent, rank, a, b) ==
    IF a = b THEN a
    ELSE IF rank[a] > rank[b] THEN Meet(parent, rank, parent[a], b)
    ELSE Meet(parent, rank, a, parent[b])

(* Sweeps in reverse postorder, 0 for a parent not known yet, until one changes nothing. *)
RECURSIVE Improved(_, _, _)
Improved(blocks, order, parent) ==
    LET rank == [b \in DOMAIN blocks |->
                    IF \E i \in DOMAIN order : order[i] = b
                    THEN CHOOSE i \in DOMAIN order : order[i] = b ELSE Never]
        over(tree, b) ==
            LET known == {p \in Predecessors(blocks, b) : tree[p] # 0}
                list == S!SetToSortSeq(known, <)
            IN  IF known = {} THEN 0
                ELSE S!FoldLeft(LAMBDA common, p : Meet(tree, rank, common, p), Head(list), Tail(list))
        swept == S!FoldLeft(LAMBDA tree, b : [tree EXCEPT ![b] = over(tree, b)],
                            parent, Tail(order))
    IN  IF swept = parent THEN parent ELSE Improved(blocks, order, swept)
ImmediateDominators(blocks) ==
    Improved(blocks, ReversePostorder(blocks), [b \in DOMAIN blocks |-> IF b = 1 THEN 1 ELSE 0])

-----------------------------------------------------------------------------
(* The value table: every value of the blocks, inputs before results. *)

RECURSIVE Interned(_, _)
Interned(list, more) ==
    LET v == Head(more)
    IN  IF more = <<>> THEN list
        ELSE IF \E i \in DOMAIN list : list[i] = v THEN Interned(list, Tail(more))
        ELSE Interned(Append(Interned(list, v.ins), v), Tail(more))
ExitValues(exit) ==
    exit.inputs \o S!FlattenSeq([i \in DOMAIN exit.edges |-> exit.edges[i].arguments])
BlockValues(block) ==
    block.parameters
        \o S!FlattenSeq([i \in DOMAIN block.effects |->
                            block.effects[i].inputs \o block.effects[i].results])
        \o ExitValues(block.exit)

-----------------------------------------------------------------------------
(* flow.rs *)

Init ==
    /\ function \in DOMAIN Bodies
    /\ values = [n \in {} |-> None]
    /\ authored = <<>>
    /\ graph = <<>>
    /\ table = <<>>
    /\ facts = [b \in {} |-> NoFacts]
    /\ at = Unplaced
    /\ work = Learning(NoFacts, <<>>)

(* A function comes to placement as its author built it: its values, then *)
(* those of one choice, and the blocks over their names.                   *)
Author(named) ==
    /\ DOMAIN values = {}
    /\ values' = named
    /\ UNCHANGED <<table, function, authored, graph, facts, at, work>>

Resolved(named, names) == [i \in DOMAIN names |-> named[names[i]]]
ResolvedBlock(named, block) ==
    [parameters |-> Resolved(named, block.parameters),
     effects |-> [i \in DOMAIN block.effects |->
                    [inputs |-> Resolved(named, block.effects[i].inputs),
                     results |-> Resolved(named, block.effects[i].results)]],
     exit |-> [block.exit EXCEPT
                !.inputs = Resolved(named, @),
                !.edges = [i \in DOMAIN @ |-> [@[i] EXCEPT !.arguments = Resolved(named, @)]]]]
Begin(named) ==
    /\ DOMAIN values # {}
    /\ \E blocks \in {[b \in DOMAIN Bodies[function].blocks |->
                        ResolvedBlock(named, Bodies[function].blocks[b])]} :
          /\ authored' = blocks
          /\ graph' = blocks
          /\ table' = Interned(<<>>, S!FlattenSeq([b \in DOMAIN blocks |-> BlockValues(blocks[b])]))
    /\ values' = [n \in {} |-> None]
    /\ at' = 0
    /\ UNCHANGED <<function, facts, work>>

(* The order and the dominators are those of the function as it was built. *)
Order == ReversePostorder(authored)
FirstOf(order, reachable) ==
    LET todo == {i \in DOMAIN order : order[i] \in reachable /\ order[i] \notin DOMAIN facts}
    IN  IF todo = {} THEN 0 ELSE order[CHOOSE i \in todo : \A j \in todo : i <= j]
NextBlock == FirstOf(Order, Reachable(graph))

(* The predecessors that still branch here. *)
Sources(b) == Predecessors(authored, b) \cap Predecessors(graph, b)

EdgesInto(b, source) ==
    LET edges == SelectSeq(Outgoing(graph[source].exit), LAMBDA e : e.target = b)
    IN  [i \in DOMAIN edges |-> [facts |-> facts[source], arguments |-> edges[i].arguments]]
FactsInto(b, list) ==
    JoinFacts(graph[b].parameters, S!FlattenSeq([i \in DOMAIN list |-> EdgesInto(b, list[i])]))
FactsAbove(b, parent) == IF parent # b THEN facts[parent] ELSE NoFacts

(* Mutant: a backedge is ignored instead of contributing no proof. *)
IncomingFromVisited(b, sources) ==
    IF sources \cap DOMAIN facts # {}
    THEN FactsInto(b, S!SetToSortSeq(sources \cap DOMAIN facts, <))
    ELSE FactsAbove(b, ImmediateDominators(authored)[b])

(* What holds on every way in; an unvisited predecessor is a backedge, and *)
(* then only what holds at the dominator does.                             *)
Incoming(b, sources) ==
    IF sources # {} /\ sources \subseteq DOMAIN facts THEN FactsInto(b, S!SetToSortSeq(sources, <))
    ELSE FactsAbove(b, ImmediateDominators(authored)[b])

(* What taking an edge says of the exit's input, when only one edge leads there. *)
EdgeObservation(exit, b) ==
    LET input == exit.inputs[1]
        cases == {i \in 1..Len(exit.edges) - 1 : exit.edges[i].target = b}
    IN  CASE exit.kind = "if" /\ exit.edges[1].target # exit.edges[2].target ->
                <<[kind |-> "truth", value |-> input,
                   bits |-> TruthBit(exit.edges[1].target = b)]>>
          [] /\ exit.kind = "switch" /\ exit.edges[Len(exit.edges)].target # b
             /\ Cardinality(cases) = 1 ->
                <<[kind |-> "bits", value |-> input,
                   bits |-> Known(Mask(input.ty),
                                  exit.edges[CHOOSE i \in cases : TRUE].key)]>>
          [] OTHER -> <<>>

(* Both the authored and the reduced predicate describe the edge taken. *)
Observations(b, sources) ==
    LET source == CHOOSE s \in sources : TRUE
        built == EdgeObservation(authored[source].exit, b)
        reduced == EdgeObservation(graph[source].exit, b)
    IN  IF Cardinality(sources) # 1 THEN <<>>
        ELSE IF reduced = built THEN built ELSE built \o reduced

Enter ==
    /\ at = 0
    /\ \E b \in {NextBlock} \ {0} : \E sources \in {Sources(b)} :
          /\ at' = b
          /\ work' = Learning([Incoming(b, sources) EXCEPT !.touched = Never],
                              Observations(b, sources))
    /\ UNCHANGED <<table, function, values, authored, graph, facts>>

Learn ==
    /\ at \in Blocks
    /\ ~Idle(work)
    /\ work' = Step([work EXCEPT !.facts.touched = Never])
    /\ UNCHANGED <<table, function, values, authored, graph, facts, at>>

Replaced(reduced, list) == [i \in DOMAIN list |-> reduced[list[i]]]
ReplacedIn(reduced, block) ==
    [block EXCEPT
        !.effects = [i \in DOMAIN @ |-> [@[i] EXCEPT !.inputs = Replaced(reduced, @)]],
        !.exit.inputs = Replaced(reduced, @),
        !.exit.edges = [i \in DOMAIN @ |-> [@[i] EXCEPT !.arguments = Replaced(reduced, @)]]]
ReducedBlock(f, block) ==
    ReplacedIn([v \in S!ToSet(BlockValues(block)) |-> Reduce(f, v)], block)

Leave ==
    /\ at \in Blocks
    /\ Idle(work)
    /\ \E block \in {ReducedBlock(work.facts, graph[at])} :
          /\ graph' = [graph EXCEPT ![at] = block]
          /\ table' = Interned(table, BlockValues(block))
    /\ facts' = With(facts, at, [work.facts EXCEPT !.touched = Never])
    /\ at' = 0
    /\ work' = Learning(NoFacts, <<>>)
    /\ UNCHANGED <<function, values, authored>>

Done == at = 0 /\ NextBlock = 0 /\ UNCHANGED vars      \* the flow is complete

Recipes == IF DOMAIN values = {} THEN {Bodies[function].recipes} ELSE Bodies[function].choices
Next ==
    \/ /\ at = Unplaced
       /\ \E recipes \in Recipes : \E named \in {Built(recipes, values)} :
            Author(named) \/ Begin(named)
    \/ Enter \/ Learn \/ Leave \/ Done
Spec == Init /\ [][Next]_vars

-----------------------------------------------------------------------------
(* Executions of a function's blocks: every way a run can be in a block,   *)
(* with a carrier for each parameter and effect result.                    *)

(* Entering an edge gives the target's parameters their arguments. *)
Follow(blocks, edge, env) ==
    LET parameters == blocks[edge.target].parameters
        argument(name) == CHOOSE i \in DOMAIN parameters : parameters[i].op[2] = name
        names == {parameters[i].op[2] : i \in DOMAIN parameters}
    IN  [name \in DOMAIN env |-> IF name \in names
                                 THEN Run(edge.arguments[argument(name)], env) ELSE env[name]]
(* The edge a run takes. *)
TakenOn(exit, bits) ==
    LET cases == {i \in 1..Len(exit.edges) - 1 : exit.edges[i].key = bits}
    IN  CASE exit.kind = "jump" -> {1}
          [] exit.kind = "if" -> {IF bits # 0 THEN 1 ELSE 2}
          [] exit.kind = "switch" -> IF cases = {} THEN {Len(exit.edges)} ELSE cases
          [] exit.kind = "return" -> {}
Taken(exit, env) == TakenOn(exit, Run(exit.inputs[1], env))

(* Each execution of an effect has any result. *)
Effected(block, env, carriers) ==
    LET names == UNION {{block.effects[i].results[j].op[2] : j \in DOMAIN block.effects[i].results} :
                            i \in DOMAIN block.effects}
    IN  IF names = {} THEN {env}
        ELSE {[n \in DOMAIN env |-> IF n \in names THEN c[n] ELSE env[n]] : c \in carriers}

Successors(s) ==
    {<<authored[s[1]].exit.edges[i].target, Follow(authored, authored[s[1]].exit.edges[i], s[2])>> :
        i \in Taken(authored[s[1]].exit, s[2])}
Inside(carriers, s) == {<<s[1], e>> : e \in Effected(authored[s[1]], s[2], carriers)}
RECURSIVE Executions(_, _, _)
Reached(carriers, inside, reached) == Executions(carriers, inside \ reached, reached \cup inside)
Executions(carriers, frontier, reached) ==
    IF frontier = {} THEN reached
    ELSE Reached(carriers, UNION {UNION {Inside(carriers, n) : n \in Successors(s)} : s \in frontier},
                 reached)
Reaching ==
    LET carriers == Bodies[function].carriers
        entry == {1} \X carriers
    IN  Executions(carriers, entry, entry)

Finished == at = 0 /\ NextBlock = 0

(* Facts hold of an execution. *)
BitsHold(bits, carrier, shift) ==
    carrier # Undefined => AndBits((carrier \div 2^shift) % 2^WordBits, bits.mask) = bits.value
RangeHolds(range, carrier) == carrier # Undefined => carrier \in range.minimum..range.maximum
OutcomeHolds(key, a, b, outcome) ==
    Undefined \notin {a, b} => IntegerCompare(Carrier(key[2].ty), key[1], a, b) = outcome
FactsHold(f, env) ==
    /\ \A v \in DOMAIN f.known : BitsHold(f.known[v], Run(v, env), 0)
    /\ \A w \in DOMAIN f.words : BitsHold(f.words[w], Run(w[1], env), w[2] * WordBits)
    /\ \A v \in DOMAIN f.ranges : RangeHolds(f.ranges[v], Run(v, env))
    /\ \A key \in DOMAIN f.outcomes :
            OutcomeHolds(key, Run(key[2], env), Run(key[3], env), f.outcomes[key])

-----------------------------------------------------------------------------
(* Every run that reaches a block satisfies the facts its values are       *)
(* reduced under: known bits, lanes, intervals and comparison outcomes     *)
(* learnt from authored and reduced branches, joined over the paths that   *)
(* remain, and under a backedge only what dominates it                     *)
(* (flow.rs incoming_facts, edge_observation).                             *)
FactsHoldOnThePath ==
    Finished => \A s \in Reaching :
                    s[1] \in DOMAIN facts => FactsHold(facts[s[1]], s[2])

(* Reduction changes no run: every input of a reached effect, exit and     *)
(* edge keeps its whole carrier, every branch goes where it went, and a    *)
(* block that lost its last edge is one no run reaches                     *)
(* (reduce.rs reduce, facts.rs bitwise_identity).                          *)
ReductionKeepsCarriers ==
    Finished => \A s \in Reaching :
        LET built == authored[s[1]]
            reduced == graph[s[1]]
            old == BlockValues(built)
            new == BlockValues(reduced)
        IN  /\ s[1] \in DOMAIN facts
            /\ \A i \in DOMAIN old :
                    Run(old[i], s[2]) \in {Undefined, Run(new[i], s[2])}
            /\ ConstantEdge(reduced.exit) # 0 =>
                    Taken(built.exit, s[2]) = {ConstantEdge(reduced.exit)}

(* A fact learnt in the middle of a path changes no inference about the    *)
(* values below the one it invalidates from: what the code keeps in its    *)
(* cache is what it would infer anew (facts.rs invalidate_from,            *)
(* comparisons.rs assume).                                                 *)
EarlierInferencesStand ==
    [][at' = at /\ at \in Blocks =>
        \A i \in 1..Least(Len(table), work'.facts.touched - 1) :
            Inferred(work.facts, table[i]) = Inferred(work'.facts, table[i])]_vars
=============================================================================
