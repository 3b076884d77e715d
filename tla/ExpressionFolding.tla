------------------------- MODULE ExpressionFolding -------------------------
(***************************************************************************)
(* Pure values of a compiled function (crates/compiler/src/expression,     *)
(* body/values): what each operation computes, what the value table knows  *)
(* of every value's physical bits, and how expressions are built.          *)
(*                                                                         *)
(* A value is its definition: equal definitions are interned to one id, so *)
(* a value is written here as the tree of its definitions and two ids are  *)
(* equal exactly when two trees are.  Narrow integers live in a wider Wasm *)
(* carrier whose upper bits are garbage unless something proves otherwise. *)
(* Bits gives every logical type a small width: I32 is the carrier of I1   *)
(* and I8, V128 that of V64 (I16 follows I8; binary64 is left out).        *)
(*                                                                         *)
(* Construct admits an operation on logical values: it may choose any      *)
(* carrier as long as the logical bits are right.  Fold simplifies an      *)
(* operation whose carriers are already chosen (construction ends in it,   *)
(* and replacing operands on a path calls it alone) and must keep every    *)
(* carrier bit.  Lower expands what Wasm cannot do in one instruction.     *)
(* The functions call each other, so only TLC uses this module.            *)
(***************************************************************************)
EXTENDS Integers, Sequences, FiniteSets, TLC

CONSTANT Bits
ASSUME BitsAssumption ==
    /\ Bits \in [{"I1", "I8", "I32", "I64", "V64", "V128"} -> 1..16]
    /\ Bits["I1"] = 1 /\ Bits["I8"] < Bits["I32"]
    /\ Bits["V128"] = 2 * Bits["V64"] /\ Bits["V64"] % Bits["I8"] = 0

Undefined == -1

IsInteger(ty) == ty \in {"I1", "I8", "I32", "I64"}
IsScalar(ty) == IsInteger(ty)
Carrier(ty) == CASE ty \in {"I1", "I8", "I32"} -> "I32"
                 [] ty = "V64" -> "V128"
                 [] OTHER -> ty
CarrierBits(ty) == Bits[Carrier(ty)]
Mask(ty) == 2^Bits[ty] - 1
CarrierMask(ty) == 2^CarrierBits(ty) - 1
Normalize(ty, bits) == bits % 2^Bits[ty]

-----------------------------------------------------------------------------
(* Arithmetic of encodings. *)

Bit(bits, i) == (bits \div 2^i) % 2
LowMask(n) == 2^n - 1
NibbleAnd ==
    [a \in 0..15 |-> [b \in 0..15 |->
        Bit(a, 0) * Bit(b, 0) + 2 * Bit(a, 1) * Bit(b, 1)
            + 4 * Bit(a, 2) * Bit(b, 2) + 8 * Bit(a, 3) * Bit(b, 3)]]
AndBits(a, b) ==
    IF a < 16 /\ b < 16 THEN NibbleAnd[a][b]
    ELSE NibbleAnd[a % 16][b % 16] + 16 * NibbleAnd[(a \div 16) % 16][(b \div 16) % 16]
           + 256 * NibbleAnd[(a \div 256) % 16][(b \div 256) % 16]
           + 4096 * NibbleAnd[a \div 4096][b \div 4096]
OrBits(a, b) == a + b - AndBits(a, b)
XorBits(a, b) == a + b - 2 * AndBits(a, b)
AndNot(a, b) == a - AndBits(a, b)

Widths == 0..16
BitLength(n) == CHOOSE w \in Widths : n < 2^w /\ (w = 0 \/ n >= 2^(w - 1))
TrailingOnes(mask) == CHOOSE w \in Widths : mask % 2^(w + 1) = LowMask(w)
TrailingZeros(bits) == CHOOSE w \in Widths : bits % 2^(w + 1) = 2^w
Ones(bits) == Cardinality({i \in 0..15 : Bit(bits, i) = 1})

SignedValue(ty, bits) ==
    LET n == Normalize(ty, bits) IN IF n >= 2^(Bits[ty] - 1) THEN n - 2^Bits[ty] ELSE n
Quotient(a, b) ==      \* truncated towards zero
    LET q == (IF a < 0 THEN -a ELSE a) \div (IF b < 0 THEN -b ELSE b)
    IN  IF (a < 0) # (b < 0) THEN -q ELSE q

ShiftCount(ty, count) == count % (IF ty = "I64" THEN Bits["I64"] ELSE Bits["I32"])
RotateCount(ty, count) == count % Bits[ty]

(* integer::binary: Undefined is a trap, which stays in the expression. *)
IntegerBinary(ty, operator, left, right) ==
    LET l == SignedValue(ty, left)
        r == SignedValue(ty, right)
        least == -(2^(Bits[ty] - 1))
    IN  CASE operator = "Add" -> left + right
          [] operator = "Sub" -> (left - right) % 2^16
          [] operator = "Mul" -> left * right
          [] operator = "DivUnsigned" -> IF right = 0 THEN Undefined ELSE left \div right
          [] operator = "RemUnsigned" -> IF right = 0 THEN Undefined ELSE left % right
          [] operator = "DivSigned" ->
                IF r = 0 \/ (ty \in {"I32", "I64"} /\ l = least /\ r = -1)
                THEN Undefined ELSE Quotient(l, r) % 2^16
          [] operator = "RemSigned" ->
                IF r = 0 THEN Undefined ELSE (l - r * Quotient(l, r)) % 2^16

IntegerCompare(ty, operator, left, right) ==
    CASE operator = "Eq" -> left = right
      [] operator = "Ne" -> left # right
      [] operator = "LtUnsigned" -> left < right
      [] operator = "GeUnsigned" -> left >= right
      [] operator = "LtSigned" -> SignedValue(ty, left) < SignedValue(ty, right)
      [] operator = "GeSigned" -> SignedValue(ty, left) >= SignedValue(ty, right)

IntegerShift(ty, operator, value, count) ==
    LET c == 2^ShiftCount(ty, count)
    IN  CASE operator = "Left" -> value * c
          [] operator = "RightUnsigned" -> value \div c
          [] operator = "RightSigned" -> (SignedValue(ty, value) \div c) % 2^16

IntegerRotate(ty, operator, value, count) ==
    LET c == RotateCount(ty, count)
        left == IF operator = "Left" THEN c ELSE Bits[ty] - c
    IN  IF c = 0 THEN value ELSE value * 2^left + value \div 2^(Bits[ty] - left)

IntegerBitCount(ty, operator, value) ==
    CASE operator = "Ones" -> Ones(value)
      [] operator = "LeadingZeros" -> Bits[ty] - BitLength(value)
      [] operator = "TrailingZeros" -> IF value = 0 THEN Bits[ty] ELSE TrailingZeros(value)

-----------------------------------------------------------------------------
(* Packed encodings: lanes of a vector, the lowest first; I8 is its byte. *)

RECURSIVE Join(_, _, _)
Join(lanes, width, n) ==
    IF n = 0 THEN 0 ELSE Join(lanes, width, n - 1) + lanes[n - 1] * 2^(width * (n - 1))
Lane(width, bits, i) == (bits \div 2^(width * i)) % 2^width
Bytes(ty) == Bits[ty] \div Bits["I8"]
VectorBytes == 0..Bytes("V128") - 1
Byte(bits, i) == Lane(Bits["I8"], bits, i)
FromBytes(bytes) == Join(bytes, Bits["I8"], Bytes("V128"))
Clamp(n, least, most) == IF n < least THEN least ELSE IF n > most THEN most ELSE n

(* One lane of evaluate::vector::binary. *)
LaneResult(operator, ty, left, right) ==
    LET l == SignedValue(ty, left)
        r == SignedValue(ty, right)
        limit == 2^(Bits[ty] - 1)
    IN  CASE operator = "Add" -> left + right
          [] operator = "Sub" -> (left - right) % 2^16
          [] operator = "Mul" -> left * right
          [] operator = "MinUnsigned" -> IF left < right THEN left ELSE right
          [] operator = "MaxUnsigned" -> IF left < right THEN right ELSE left
          [] operator = "AverageUnsigned" -> (left + right + 1) \div 2
          [] operator = "MinSigned" -> IF l < r THEN left ELSE right
          [] operator = "MaxSigned" -> IF l < r THEN right ELSE left
          [] operator = "Eq" -> IF left = right THEN Mask(ty) ELSE 0
          [] operator = "GtSigned" -> IF l > r THEN Mask(ty) ELSE 0
          [] operator = "AddSatUnsigned" -> Clamp(left + right, 0, Mask(ty))
          [] operator = "SubSatUnsigned" -> Clamp(left - right, 0, Mask(ty))
          [] operator = "AddSatSigned" -> Clamp(l + r, -limit, limit - 1)
          [] operator = "SubSatSigned" -> Clamp(l - r, -limit, limit - 1)

(* Products of the lanes of one half, each in a lane of twice the width. *)
WideningMul(ty, left, right, signed, half) ==
    LET w == Bits[ty]
        n == Bits["V64"] \div w
        a(i) == Lane(w, left, i + half * n)
        b(i) == Lane(w, right, i + half * n)
    IN  Join([i \in 0..n - 1 |->
                (IF signed THEN SignedValue(ty, a(i)) * SignedValue(ty, b(i)) ELSE a(i) * b(i))
                    % 2^(2 * w)], 2 * w, n)
DotPairs(ty, left, right) ==
    LET w == Bits[ty]
        p(i) == SignedValue(ty, Lane(w, left, i)) * SignedValue(ty, Lane(w, right, i))
        n == Bits["V128"] \div (2 * w)
    IN  Join([i \in 0..n - 1 |-> (p(2 * i) + p(2 * i + 1)) % 2^(2 * w)], 2 * w, n)

VectorBinary(operator, ty, left, right) ==
    LET w == Bits[ty]
    IN  CASE operator = "WideningMulLow" -> WideningMul(ty, left, right, TRUE, 0)
          [] operator = "WideningMulHigh" -> WideningMul(ty, left, right, FALSE, 1)
          [] operator = "DotSigned" -> DotPairs(ty, left, right)
          [] OTHER -> Join([i \in 0..Bits["V128"] \div w - 1 |->
                        LaneResult(operator, ty, Lane(w, left, i), Lane(w, right, i)) % 2^w],
                        w, Bits["V128"] \div w)

VectorShift(operator, ty, value, count) ==
    LET w == Bits[ty]
        c == 2^(count % w)
        shifted(lane) ==
            CASE operator = "Left" -> lane * c
              [] operator = "RightUnsigned" -> lane \div c
              [] operator = "RightSigned" -> SignedValue(ty, lane) \div c
    IN  Join([i \in 0..Bits["V128"] \div w - 1 |-> shifted(Lane(w, value, i)) % 2^w],
             w, Bits["V128"] \div w)

PairwiseAddUnsigned(ty, bits) ==
    LET w == Bits[ty]
        n == Bits["V128"] \div (2 * w)
    IN  Join([i \in 0..n - 1 |-> Lane(w, bits, 2 * i) + Lane(w, bits, 2 * i + 1)], 2 * w, n)

(* Each lane of twice the width saturates into one lane: left's, then right's. *)
VectorNarrow(signed, ty, left, right) ==
    LET w == Bits[ty]
        n == Bits["V128"] \div (2 * w)
        wide(i) == LET x == Lane(2 * w, IF i < n THEN left ELSE right, i % n)
                   IN  IF x >= 2^(2 * w - 1) THEN x - 2^(2 * w) ELSE x
        least == IF signed THEN -(2^(w - 1)) ELSE 0
    IN  Join([i \in 0..2 * n - 1 |-> Clamp(wide(i), least, least + LowMask(w)) % 2^w], w, 2 * n)

(* Byte indices into left then right; an index past both gives zero. *)
ShuffleBytes(width, left, right, indices) ==
    FromBytes([i \in VectorBytes |->
        IF indices[i] < width THEN Byte(left, indices[i])
        ELSE IF indices[i] < 2 * width THEN Byte(right, indices[i] - width)
        ELSE 0])
ByteIndices(bits) == [i \in VectorBytes |-> Byte(bits, i)]

-----------------------------------------------------------------------------
(* constant_result: an operation on typed encodings ts, vs.  An operation  *)
(* is a tuple, its name first; multiply-wide also names its component.     *)

UnaryResult(op, t, v, result) ==
    CASE op[1] = "convert" -> v
      [] op[1] = "lowbits" -> v % 2^op[2]
      [] op[1] = "zerotest" -> IF (v # 0) = op[2] THEN 1 ELSE 0
      [] op[1] = "signextend" -> SignedValue(op[2], v) % 2^16
      [] op[1] = "bitcount" -> IntegerBitCount(op[3], op[2], Normalize(op[3], v))
      [] op[1] = "reinterpret" ->
            IF ~IsScalar(result) THEN v + v * 2^Bits["V64"] ELSE v
      [] op[1] = "extract" -> v \div 2^(op[2] * Bits[result])
      [] op[1] = "splat" ->
            LET n == Bits["V128"] \div Bits[op[2]]
            IN  Join([i \in 0..n - 1 |-> Normalize(op[2], v)], Bits[op[2]], n)
      [] op[1] = "bitmask" ->
            LET n == Bits["V128"] \div Bits[op[2]]
            IN  Join([i \in 0..n - 1 |-> Bit(v, (i + 1) * Bits[op[2]] - 1)], 1, n)
      [] op[1] = "pairwise" -> PairwiseAddUnsigned(op[2], v)

BinaryResult(op, t, l, r) ==
    CASE op[1] = "integer" -> IntegerBinary(t, op[2], l, r)
      [] op[1] = "bitwise" -> (CASE op[2] = "And" -> AndBits(l, r)
                                 [] op[2] = "Or" -> OrBits(l, r)
                                 [] op[2] = "Xor" -> XorBits(l, r))
      [] op[1] = "compare" -> IF IntegerCompare(t, op[2], l, r) THEN 1 ELSE 0
      [] op[1] = "vector" -> VectorBinary(op[2], op[3], l, r)
      [] op[1] = "narrow" -> VectorNarrow(op[2], op[3], l, r)
      [] op[1] = "replace" ->
            l - Lane(Bits[op[2]], l, op[3]) * 2^(op[3] * Bits[op[2]])
              + Normalize(op[2], r) * 2^(op[3] * Bits[op[2]])
      [] op[1] = "shuffleimmediate" -> ShuffleBytes(Bytes("V128"), l, r, op[2])
      [] op[1] = "swizzle" ->
            FromBytes([i \in VectorBytes |->
                IF Byte(r, i) < Bytes(op[2]) THEN Byte(l, Byte(r, i)) ELSE 0])
      [] op[1] = "shift" -> IntegerShift(t, op[2], l, r)
      [] op[1] = "rotate" -> IntegerRotate(t, op[2], l, r)
      [] op[1] = "laneshift" -> VectorShift(op[2], op[3], l, r)
      [] op[1] = "multiplywide" ->
            LET product == IF op[2] THEN SignedValue("I64", l) * SignedValue("I64", r) ELSE l * r
            IN  (product \div 2^(op[3] * Bits["I64"])) % 2^Bits["I64"]

TernaryResult(op, a, b, c) ==
    CASE op[1] = "select" -> IF c # 0 THEN a ELSE b
      [] op[1] = "bitselect" -> AndBits(a, c) + AndNot(b, c)
      [] op[1] = "shuffle" -> ShuffleBytes(Bytes(op[2]), a, b, ByteIndices(c))

Defined(op, bits, result) ==
    IF bits = Undefined /\ op[1] = "integer" THEN Undefined ELSE Normalize(result, bits)
ConstantResult(op, ts, vs, result) ==
    Defined(op, CASE Len(vs) = 1 -> UnaryResult(op, ts[1], vs[1], result)
                  [] Len(vs) = 2 -> BinaryResult(op, ts[1], vs[1], vs[2])
                  [] Len(vs) = 3 -> TernaryResult(op, vs[1], vs[2], vs[3]), result)

(* carrier_result: the same operation on whole carriers. *)
CarrierResult(op, ts, vs, result) ==
    LET of(ty) == IF op[1] = "extract" THEN ty ELSE Carrier(ty)
    IN  ConstantResult(op, [i \in DOMAIN ts |-> of(ts[i])], vs, of(result))

-----------------------------------------------------------------------------
(* Values.  u and s are the table's bounds: the whole carrier fits u bits  *)
(* unsigned, s bits signed.                                                *)

Least(a, b) == IF a < b THEN a ELSE b
Most(a, b) == IF a < b THEN b ELSE a

(* Mutant: a sum is taken to be no wider than its operands. *)
SumBitsNoCarry(a, b, carrier) == Most(a, b)
SumBits(a, b, carrier) == Least(Most(a, b) + 1, carrier)

UnsignedBits(ty, op, ins) ==
    LET carrier == CarrierBits(ty)
        a == ins[1].u
        b == ins[2].u
    IN  CASE op[1] = "parameter" -> carrier
          [] op[1] = "result" -> Bits[ty]
          [] op[1] = "literal" -> BitLength(op[2])
          [] op[1] = "bitcount" -> BitLength(IF op[2] = "Ones" THEN a ELSE Bits[op[3]])
          [] op[1] = "lowbits" -> Least(a, op[2])
          [] op[1] = "reinterpret" /\ ty = "V64" -> carrier
          [] op[1] \in {"convert", "reinterpret"} -> Least(a, carrier)
          [] op[1] \in {"zerotest", "compare"} -> 1
          [] op[1] = "bitmask" -> Bits["V128"] \div Bits[op[2]]
          [] op[1] = "extract" -> Bits[ty]
          [] op[1] = "integer" ->
                (CASE op[2] = "Add" -> SumBits(a, b, carrier)
                   [] op[2] = "Mul" -> Least(a + b, carrier)
                   [] op[2] \in {"DivUnsigned", "RemUnsigned"} -> Bits[ty]
                   [] OTHER -> carrier)
          [] op[1] = "bitwise" -> IF op[2] = "And" THEN Least(a, b) ELSE Most(a, b)
          [] op[1] = "shift" ->
                (LET known == ins[2].op[1] = "literal" /\ IsScalar(ins[2].ty)
                     count == ShiftCount(ty, ins[2].op[2])
                 IN  CASE op[2] = "Left" /\ known -> Least(a + count, carrier)
                       [] op[2] = "RightUnsigned" -> IF known THEN Most(a - count, 0) ELSE a
                       [] OTHER -> carrier)
          [] op[1] = "select" -> Most(a, b)
          [] OTHER -> carrier

SignedBits(ty, op, ins, unsigned) ==
    LET carrier == CarrierBits(ty)
        fallback == Least(unsigned + 1, carrier)
    IN  CASE op[1] = "literal" /\ IsScalar(ty) ->
                (LET v == SignedValue(Carrier(ty), op[2])
                 IN  BitLength(IF v < 0 THEN -v - 1 ELSE v) + 1)
          [] op[1] = "signextend" -> Least(ins[1].s, Bits[op[2]])
          [] op[1] = "convert" ->
                IF ty = "I64" /\ ins[1].ty # "I64" THEN Least(ins[1].u + 1, carrier)
                ELSE Least(ins[1].s, carrier)
          [] op[1] = "integer" /\ op[2] = "Mul" -> Least(ins[1].s + ins[2].s, carrier)
          [] OTHER -> fallback

Value(ty, op, ins) ==
    LET unsigned == UnsignedBits(ty, op, ins)
    IN  [ty |-> ty, op |-> op, ins |-> ins,
         u |-> unsigned, s |-> SignedBits(ty, op, ins, unsigned)]

(* What a function can be given: a block parameter, whose carrier may hold *)
(* anything, and the result of an effect, which is zero-extended.          *)
Parameter(ty, name) == Value(ty, <<"parameter", name>>, <<>>)
EffectResult(ty, name) == Value(ty, <<"result", name>>, <<>>)

CarrierLiteral(ty, bits) == Value(ty, <<"literal", bits % 2^CarrierBits(ty)>>, <<>>)
Literal(ty, bits) == CarrierLiteral(ty, Normalize(ty, bits))
IsLiteral(v) == v.op[1] = "literal"
ScalarLiteral(v) == IsLiteral(v) /\ IsScalar(v.ty)
LiteralIs(v, bits) == ScalarLiteral(v) /\ v.op[2] = bits
VectorIs(v, bits) == IsLiteral(v) /\ v.op[2] = bits

(* Conversions within one carrier keep all physical bits. *)
RECURSIVE Representation(_)
Representation(v) ==
    IF v.op[1] = "convert" /\ Carrier(v.ty) = Carrier(v.ins[1].ty)
    THEN Representation(v.ins[1]) ELSE v

-----------------------------------------------------------------------------
(* What emitted code computes: the carrier of a value, given a carrier for *)
(* every parameter and effect result.                                      *)
RECURSIVE Run(_, _)
Run(v, given) ==
    CASE IsLiteral(v) -> v.op[2]
      [] v.op[1] \in {"parameter", "result"} -> given[v.op[2]]
      [] OTHER ->
            LET vs == [i \in DOMAIN v.ins |-> Run(v.ins[i], given)]
            IN  IF \E i \in DOMAIN vs : vs[i] = Undefined THEN Undefined
                ELSE CarrierResult(v.op, [i \in DOMAIN vs |-> v.ins[i].ty], vs, v.ty)

-----------------------------------------------------------------------------
None == [ty |-> "none", op |-> <<"none">>, ins |-> <<>>, u |-> 0, s |-> 0]
OrElse(first, other) == IF first = None THEN other ELSE first

OrZero(value) == IF value.u = 0 THEN Literal(value.ty, 0) ELSE value
Intern(ty, op, ins) == OrZero(Value(ty, op, ins))

IsBitwise(v, operator) == v.op[1] = "bitwise" /\ v.op[2] = operator

(* Every way into the value table: folding carriers already chosen,        *)
(* constructing or normalizing a logical value, or lowering one.           *)
RECURSIVE Express(_, _, _, _)
Fold(ty, op, ins) == Express("fold", ty, op, ins)
Construct(ty, op, ins) == Express("construct", ty, op, ins)
CountInCarrier(v) == Express("count", v.ty, v.op, v.ins)
Lower(v) == Express("lower", v.ty, v.op, v.ins)
Convert(ty, input) == Fold(ty, <<"convert">>, <<input>>)

-----------------------------------------------------------------------------
(* fold/arithmetic.rs *)

IsOffset(v) == v.op = <<"integer", "Add">> /\ ScalarLiteral(v.ins[2])

RECURSIVE StripOffset(_, _, _)
StripOffset(input, offset, mask) ==
    IF IsOffset(input)
    THEN StripOffset(input.ins[1], (offset + input.ins[2].op[2]) % (mask + 1), mask)
    ELSE [base |-> input, offset |-> offset]

WithOffset(ty, strip, mask) ==
    IF strip.offset = 0 THEN strip.base
    ELSE IF ScalarLiteral(strip.base)
    THEN CarrierLiteral(ty, (strip.base.op[2] + strip.offset) % (mask + 1))
    ELSE Intern(ty, <<"integer", "Add">>, <<strip.base, CarrierLiteral(ty, strip.offset)>>)
AddConstant(ty, input, offset, observed) ==
    LET mask == LowMask(observed)
    IN  WithOffset(ty, StripOffset(input, offset % (mask + 1), mask), mask)

(* The unsigned division that fits half the carrier narrows to it. *)
FoldBinary(ty, operator, left, right) ==
    LET a == Representation(left)
        b == Representation(right)
        bits == CarrierBits(ty)
    IN  CASE ScalarLiteral(b) /\ operator \in {"Add", "Sub"} ->
                AddConstant(ty, left, IF operator = "Add" THEN b.op[2] ELSE -b.op[2], bits)
          [] ScalarLiteral(a) /\ operator = "Add" -> AddConstant(ty, right, a.op[2], bits)
          [] operator \in {"DivUnsigned", "RemUnsigned"} /\ ty = "I64"
               /\ left.u <= Bits["I32"] /\ right.u <= Bits["I32"] ->
                Fold("I32", <<"integer", operator>>, <<Convert("I32", left), Convert("I32", right)>>)
          [] operator = "Mul" /\ LiteralIs(b, 1) -> left
          [] operator = "Mul" /\ LiteralIs(a, 1) -> right
          [] operator = "Mul" /\ (LiteralIs(a, 0) \/ LiteralIs(b, 0)) -> Literal(ty, 0)
          [] operator = "Sub" /\ ~ScalarLiteral(b) /\ a = b -> Literal(ty, 0)
          [] OTHER -> None

(* A product known to fit one carrier has only zero or sign bits above it. *)
FoldMultiplyWide(signed, component, left, right) ==
    LET bits == IF signed THEN left.s + right.s ELSE left.u + right.u
        low == Fold("I64", <<"integer", "Mul">>, <<left, right>>)
    IN  IF bits > Bits["I64"] /\ left.u > 1 /\ right.u > 1 THEN None
        ELSE IF component = 1 /\ ~signed THEN Literal("I64", 0)
        ELSE IF component = 0 THEN low
        ELSE Fold("I64", <<"shift", "RightSigned">>, <<low, Literal("I64", Bits["I64"] - 1)>>)

-----------------------------------------------------------------------------
(* fold/bits.rs *)

(* The carrier a value takes bits from, and the bits it can keep. *)
Masking(v) ==
    CASE v.op[1] = "lowbits" -> [input |-> v.ins[1], mask |-> LowMask(v.op[2])]
      [] IsBitwise(v, "And") /\ ScalarLiteral(v.ins[2]) ->
            [input |-> v.ins[1], mask |-> v.ins[2].op[2]]
      [] IsBitwise(v, "And") /\ ScalarLiteral(v.ins[1]) /\ ~ScalarLiteral(v.ins[2]) ->
            [input |-> v.ins[2], mask |-> v.ins[1].op[2]]
      [] OTHER -> [input |-> v, mask |-> CarrierMask(v.ty)]
MaskedBits(input) ==
    LET based(found) == [input |-> Representation(found.input), mask |-> found.mask]
    IN  based(Masking(Representation(input)))

(* Bits shifted down and back up are bits of the source in their own place. *)
ShiftedDown(down, up) ==
    /\ up.op = <<"shift", "Left">> /\ ScalarLiteral(up.ins[2])
    /\ down.op = <<"shift", "RightUnsigned">> /\ ScalarLiteral(down.ins[2])
    /\ Carrier(down.ty) = Carrier(up.ty)
    /\ ShiftCount(Carrier(up.ty), down.ins[2].op[2]) = ShiftCount(Carrier(up.ty), up.ins[2].op[2])
Restored(bits, up, shifted) ==
    LET count == ShiftCount(Carrier(up.ty), up.ins[2].op[2])
        from(source) ==
            [input |-> source.input,
             mask |-> AndBits(bits.mask,
                        AndBits((shifted.mask * 2^count) % (CarrierMask(up.ty) + 1), source.mask))]
    IN  IF ShiftedDown(shifted.input, up) THEN from(MaskedBits(shifted.input.ins[1])) ELSE bits
RestoredBits(input) ==
    LET over(bits) == Restored(bits, bits.input, MaskedBits(bits.input.ins[1]))
    IN  over(MaskedBits(input))

Rejoin(ty, l, r) ==
    IF l.input # r.input THEN None
    ELSE Fold(ty, <<"bitwise", "And">>, <<l.input, CarrierLiteral(ty, OrBits(l.mask, r.mask))>>)
RejoinBits(ty, left, right) == Rejoin(ty, RestoredBits(left), RestoredBits(right))

(* Values under which the low bits are the same, up to a modular offset. *)
RECURSIVE LowBitsBase(_, _, _)
LowBitsBase(base, offset, bits) ==
    LET stop == [base |-> base, offset |-> offset]
        mask == LowMask(bits)
        into(v) == LowBitsBase(v, offset, bits)
    IN  IF ScalarLiteral(base) THEN stop
        ELSE CASE base.op[1] = "lowbits" -> IF base.op[2] >= bits THEN into(base.ins[1]) ELSE stop
               [] base.op[1] = "convert" ->
                    IF /\ Bits[base.ins[1].ty] >= bits
                       /\ Carrier(base.ty) = Carrier(base.ins[1].ty)
                    THEN into(base.ins[1]) ELSE stop
               [] IsBitwise(base, "And") ->
                    IF ScalarLiteral(base.ins[2])
                    THEN IF TrailingOnes(base.ins[2].op[2]) >= bits THEN into(base.ins[1]) ELSE stop
                    ELSE IF ScalarLiteral(base.ins[1]) /\ TrailingOnes(base.ins[1].op[2]) >= bits
                    THEN into(base.ins[2]) ELSE stop
               [] IsBitwise(base, "Or") \/ IsBitwise(base, "Xor") ->
                    IF AndBits(MaskedBits(base.ins[1]).mask, mask) = 0 THEN into(base.ins[2])
                    ELSE IF AndBits(MaskedBits(base.ins[2]).mask, mask) = 0 THEN into(base.ins[1])
                    ELSE stop
               [] OTHER ->
                    IF Bits[base.ty] >= bits /\ IsOffset(base)
                    THEN LowBitsBase(base.ins[1], (offset + base.ins[2].op[2]) % (mask + 1), bits)
                    ELSE stop

LowSum(ty, bits, sum) == IF sum.u <= bits THEN sum ELSE Intern(ty, <<"lowbits", bits>>, <<sum>>)
LowBitsUnder(ty, base, offset, bits) ==
    IF ScalarLiteral(base) THEN CarrierLiteral(ty, (base.op[2] + offset) % 2^bits)
    ELSE LowSum(ty, bits, AddConstant(ty, IF base.ty = ty THEN base ELSE Convert(ty, base),
                                      offset, bits))
LowBitsOf(ty, found, bits) == LowBitsUnder(ty, found.base, found.offset, bits)
FoldLowBits(ty, input, bits) ==
    IF bits = 0 THEN Literal(ty, 0)
    ELSE IF input.u <= bits THEN input
    ELSE LowBitsOf(ty, LowBitsBase(input, 0, bits), bits)

(* Folder::normalize: clear what lies above the logical bits. *)
NormalizeValue(input) ==
    IF input.ty = "V64"
    THEN IF input.u <= Bits["V64"] THEN input
         ELSE Fold("V64", <<"bitwise", "And">>, <<input, Literal("V64", Mask("V64"))>>)
    ELSE IF ~IsInteger(input.ty) THEN input
    ELSE Fold(input.ty, <<"lowbits", Bits[input.ty]>>, <<input>>)

ConvertValue(input, target) ==
    IF input.ty = target THEN input
    ELSE Convert(target, IF Bits[input.ty] < Bits[target] THEN NormalizeValue(input) ELSE input)

SignExtend(input, inputType, target) ==
    IF inputType = target THEN IF input.ty = target THEN input ELSE Convert(target, input)
    ELSE Fold(target, <<"signextend", inputType>>, <<input>>)
SignExtendCarrier(input) == SignExtend(input, input.ty, Carrier(input.ty))

(* An input that already repeats its sign needs no extension in its carrier. *)
FoldSignExtend(target, inputType, input) ==
    IF input.s > Bits[inputType] THEN None
    ELSE IF target # "I64" THEN input
    ELSE IF inputType # "I32"
    THEN Fold(target, <<"signextend", "I32">>, <<Convert("I32", input)>>)
    ELSE None

-----------------------------------------------------------------------------
(* fold/comparisons.rs *)

ComplementaryPredicates(left, right) ==
    \E p \in {<<left, right>>, <<right, left>>} :
        LET test == Representation(p[1])
            other == Representation(p[2])
            input == Representation(test.ins[1])
        IN  /\ test.op[1] = "zerotest"
            /\ \/ /\ other.op[1] = "zerotest" /\ other.op[2] # test.op[2]
                  /\ input = Representation(other.ins[1])
               \/ ~test.op[2] /\ input = other /\ other.u <= 1

(* The results of a comparison over every value the input can select: one  *)
(* of them decides it, and Unknown is none.                                *)
Unknown == {TRUE, FALSE}
Evaluate(comparison, bits) ==
    LET input == Normalize(comparison.ty, bits)
        constant == Normalize(comparison.ty, comparison.constant)
    IN  IntegerCompare(comparison.ty, comparison.operator,
                       IF comparison.first THEN constant ELSE input,
                       IF comparison.first THEN input ELSE constant)
RECURSIVE CompareChoices(_, _)
CompareChoices(input, comparison) ==
    IF ScalarLiteral(input) THEN {Evaluate(comparison, input.op[2])}
    ELSE IF input.op[1] = "select"
    THEN CompareChoices(input.ins[1], comparison) \cup CompareChoices(input.ins[2], comparison)
    ELSE IF input.u <= 1 THEN {Evaluate(comparison, 0), Evaluate(comparison, 1)}
    ELSE Unknown

CompareConstantChoices(operator, left, right, ty) ==
    LET against(constant, first) ==
            [operator |-> operator, ty |-> ty, constant |-> constant.op[2], first |-> first]
    IN  IF ScalarLiteral(right) THEN CompareChoices(left, against(right, FALSE))
        ELSE IF ScalarLiteral(left) THEN CompareChoices(right, against(left, TRUE))
        ELSE Unknown

Truth(b) == Literal("I1", IF b THEN 1 ELSE 0)
ZeroTest(nonzero, input) == Fold("I1", <<"zerotest", nonzero>>, <<input>>)

FoldCompare(operator, left, right) ==
    LET a == Representation(left)
        b == Representation(right)
        choices == CompareConstantChoices(operator, a, b, Carrier(a.ty))
        input == IF ScalarLiteral(b) THEN left ELSE right
        mask == IF ScalarLiteral(b) THEN b.op[2] ELSE a.op[2]
        masked == Representation(input)
    IN  CASE choices # Unknown -> Truth(TRUE \in choices)
          [] choices = Unknown /\ a = b -> Truth(operator \in {"Eq", "GeUnsigned", "GeSigned"})
          [] choices = Unknown /\ a # b /\ operator \in {"LtUnsigned", "GeUnsigned"} ->
                (IF LiteralIs(b, 0) THEN Truth(operator = "GeUnsigned")
                 ELSE IF LiteralIs(a, 0) THEN ZeroTest(operator = "LtUnsigned", right)
                 ELSE None)
          [] choices = Unknown /\ a # b /\ operator \in {"Eq", "Ne"}
               /\ (ScalarLiteral(a) \/ ScalarLiteral(b)) ->
                (IF mask = 0 THEN ZeroTest(operator = "Ne", input)
                 ELSE IF \/ mask = 1 /\ input.u <= 1
                         \/ /\ IsBitwise(masked, "And")
                            /\ \E i \in {1, 2} : LiteralIs(masked.ins[i], mask)
                            /\ \E i \in Widths : mask = 2^i
                 THEN ZeroTest(operator = "Eq", input)
                 ELSE None)
          [] OTHER -> None

FoldZeroTest(input, nonzero) ==
    IF nonzero /\ input.u <= 1 THEN input
    ELSE IF input.op[1] = "zerotest" THEN ZeroTest(nonzero = input.op[2], input.ins[1])
    ELSE IF input.op[1] = "convert" /\ input.ins[1].u <= CarrierBits(input.ty)
    THEN ZeroTest(nonzero, input.ins[1])
    ELSE None

ZeroTestValue(input, nonzero) ==
    ZeroTest(nonzero, IF input.s <= Bits[input.ty] THEN input ELSE NormalizeValue(input))

(* Mutant: one sign-filled operand is enough to compare carriers as signed. *)
CompareEitherSigned(operator, left, right) ==
    LET ty == left.ty
        equality == operator \in {"Eq", "Ne"}
        signed == \/ operator \in {"LtSigned", "GeSigned"}
                  \/ equality /\ (left.s <= Bits[ty] \/ right.s <= Bits[ty])
        onCarrier(v) == IF ~signed THEN NormalizeValue(v)
                        ELSE IF equality THEN v ELSE SignExtendCarrier(v)
    IN  Fold("I1", <<"compare", operator>>, <<onCarrier(left), onCarrier(right)>>)

(* With the operands' carriers compared: equality of two dirty carriers is *)
(* one test of the low bits of their difference.                           *)
Compare(operator, left, right) ==
    LET ty == left.ty
        choices == CompareConstantChoices(operator, left, right, ty)
        equality == operator \in {"Eq", "Ne"}
        signed == \/ operator \in {"LtSigned", "GeSigned"}
                  \/ equality /\ left.s <= Bits[ty] /\ right.s <= Bits[ty]
        onCarrier(v) == IF signed THEN SignExtendCarrier(v) ELSE NormalizeValue(v)
    IN  IF choices # Unknown THEN Truth(TRUE \in choices)
        ELSE IF equality /\ ~signed /\ left.u > Bits[ty] /\ right.u > Bits[ty]
        THEN ZeroTestValue(Fold(ty, <<"bitwise", "Xor">>, <<left, right>>), operator = "Ne")
        ELSE Fold("I1", <<"compare", operator>>, <<onCarrier(left), onCarrier(right)>>)

-----------------------------------------------------------------------------
(* fold/bitwise.rs *)

AndConstant(ty, input, mask) ==
    LET bits == TrailingOnes(mask)
    IN  IF input.u <= bits THEN input
        ELSE IF mask = LowMask(bits) THEN FoldLowBits(ty, input, bits)
        ELSE None

(* XOR cancels a repeated operand and combines adjacent constant masks. *)
RECURSIVE FoldXor(_, _, _)
FoldXor(ty, pairs, n) ==
    IF n > 2 THEN None
    ELSE LET nested == pairs[n][1]
             other == pairs[n][2]
             a == Representation(nested.ins[1])
             b == Representation(nested.ins[2])
             masks(base, mask) ==
                Fold(ty, <<"bitwise", "Xor">>,
                     <<base, CarrierLiteral(ty, XorBits(mask.op[2], other.op[2]))>>)
         IN  IF ~IsBitwise(nested, "Xor") THEN FoldXor(ty, pairs, n + 1)
             ELSE IF b = other THEN nested.ins[1]
             ELSE IF a = other THEN nested.ins[2]
             ELSE IF ScalarLiteral(other) /\ ScalarLiteral(b) THEN masks(nested.ins[1], b)
             ELSE IF ScalarLiteral(other) /\ ScalarLiteral(a) THEN masks(nested.ins[2], a)
             ELSE FoldXor(ty, pairs, n + 1)

(* A nested operation that already holds the other operand absorbs it. *)
Absorbs(operator, input, other) ==
    LET v == Representation(input)
    IN  IsBitwise(v, operator) /\ \E i \in {1, 2} : Representation(v.ins[i]) = other

FoldAnd(ty, left, right, a, b) ==
    IF ScalarLiteral(a) \/ ScalarLiteral(b)
    THEN AndConstant(ty, IF ScalarLiteral(b) THEN left ELSE right,
                     IF ScalarLiteral(b) THEN b.op[2] ELSE a.op[2])
    ELSE None
FoldOperands(ty, operator, left, right, a, b) ==
    LET all == CarrierMask(ty)
    IN  IF ComplementaryPredicates(left, right)
        THEN CarrierLiteral(ty, IF operator = "And" THEN 0 ELSE 1)
        ELSE IF operator # "And" /\ LiteralIs(b, 0) THEN left
        ELSE IF operator # "And" /\ LiteralIs(a, 0) THEN right
        ELSE IF operator = "Or" /\ LiteralIs(b, all) THEN right
        ELSE IF operator = "Or" /\ LiteralIs(a, all) THEN left
        ELSE IF operator = "Xor"
        THEN IF a = b THEN Literal(ty, 0) ELSE FoldXor(ty, <<<<a, b>>, <<b, a>>>>, 1)
        ELSE IF a = b \/ Absorbs(operator, left, b) THEN left
        ELSE IF Absorbs(operator, right, a) THEN right
        ELSE None
FoldRepresented(ty, operator, left, right, a, b) ==
    OrElse(CASE operator = "And" -> FoldAnd(ty, left, right, a, b)
             [] operator = "Or" /\ IsInteger(ty) -> RejoinBits(ty, left, right)
             [] OTHER -> None,
           FoldOperands(ty, operator, left, right, a, b))
FoldBitwise(ty, operator, left, right) ==
    FoldRepresented(ty, operator, left, right, Representation(left), Representation(right))

(* At construction the logical mask is already all there is to observe. *)
Bitwise(operator, left, right) ==
    LET mask == Mask(left.ty)
    IN  CASE operator = "And" /\ LiteralIs(right, mask) -> left
          [] operator = "And" /\ LiteralIs(left, mask) -> right
          [] operator = "Or" /\ LiteralIs(right, mask) -> right
          [] operator = "Or" /\ LiteralIs(left, mask) -> left
          [] OTHER -> Fold(left.ty, <<"bitwise", operator>>, <<left, right>>)

(* Arithmetic at construction: division needs clean or sign-filled carriers. *)
Binary(operator, left, right) ==
    LET ty == left.ty
    IN  CASE ScalarLiteral(right) /\ operator \in {"Add", "Sub"} ->
                AddConstant(ty, left, IF operator = "Add" THEN right.op[2] ELSE -right.op[2],
                            Bits[ty])
          [] ScalarLiteral(left) /\ operator = "Add" ->
                AddConstant(ty, right, left.op[2], Bits[ty])
          [] OTHER ->
                Fold(ty, <<"integer", operator>>,
                     CASE operator \in {"DivUnsigned", "RemUnsigned"} ->
                            <<NormalizeValue(left), NormalizeValue(right)>>
                       [] operator \in {"DivSigned", "RemSigned"} ->
                            <<SignExtendCarrier(left), SignExtendCarrier(right)>>
                       [] OTHER -> <<left, right>>)

-----------------------------------------------------------------------------
(* fold/shifts.rs and fold/select.rs *)

FoldShift(ty, input, count) ==
    IF (ScalarLiteral(count) /\ ShiftCount(ty, count.op[2]) = 0) \/ input.u = 0
    THEN input ELSE None
FoldRotate(ty, input, count) ==
    IF FoldShift(ty, input, count) # None \/ LiteralIs(input, 0) \/ LiteralIs(input, CarrierMask(ty))
    THEN input ELSE None

CountFor(ty, count) == IF ty = "I64" THEN ConvertValue(count, "I64") ELSE count

ShiftValue(operator, input, count) ==
    IF FoldShift(input.ty, input, count) # None THEN input
    ELSE Fold(input.ty, <<"shift", operator>>,
              <<CASE operator = "Left" -> input
                  [] operator = "RightUnsigned" -> NormalizeValue(input)
                  [] operator = "RightSigned" -> SignExtendCarrier(input),
                CountFor(input.ty, count)>>)

(* A byte rotates by two shifts within its carrier. *)
RotateShifts(operator, clean, by, rest) ==
    Bitwise("Or", ShiftValue("Left", clean, IF operator = "Left" THEN by ELSE rest),
                  ShiftValue("RightUnsigned", clean, IF operator = "Left" THEN rest ELSE by))
RotateBy(operator, clean, by) ==
    RotateShifts(operator, clean, by, Binary("Sub", Literal("I32", Bits[clean.ty]), by))
RotateValue(operator, input, count) ==
    LET ty == input.ty
    IN  CASE ty = "I1" -> input
          [] ty = "I8" ->
               IF \/ ScalarLiteral(count) /\ RotateCount(ty, count.op[2]) = 0
                  \/ LiteralIs(input, 0) \/ LiteralIs(input, Mask(ty))
               THEN input
               ELSE RotateBy(operator, NormalizeValue(input),
                             Bitwise("And", count, Literal("I32", Bits[ty] - 1)))
          [] OTHER -> Fold(ty, <<"rotate", operator>>, <<input, CountFor(ty, count)>>)

FoldSelect(condition, whenTrue, whenFalse) ==
    IF ScalarLiteral(condition)
    THEN IF condition.op[2] = 0 THEN whenFalse ELSE whenTrue
    ELSE IF Representation(whenTrue) = Representation(whenFalse) THEN whenTrue
    ELSE IF IsInteger(whenTrue.ty) /\ LiteralIs(whenTrue, 1) /\ LiteralIs(whenFalse, 0)
    THEN ZeroTest(TRUE, condition)
    ELSE IF IsInteger(whenTrue.ty) /\ LiteralIs(whenTrue, 0) /\ LiteralIs(whenFalse, 1)
    THEN ZeroTest(FALSE, condition)
    ELSE None

-----------------------------------------------------------------------------
(* fold/vector.rs, fold/lanes.rs, fold/layout.rs *)

LaneOnes(ty, width) == Join([i \in 0..width \div Bits[ty] - 1 |-> 1], Bits[ty], width \div Bits[ty])

FoldVector(ty, operator, laneType, left, right) ==
    LET a == Representation(left)
        b == Representation(right)
        ones == LaneOnes(laneType, Bits["V128"])
        adds == operator \in {"Add", "AddSatSigned", "AddSatUnsigned"}
        subtracts == operator \in {"Sub", "SubSatSigned", "SubSatUnsigned"}
        multiplies == operator \in {"Mul", "WideningMulLow", "WideningMulHigh", "DotSigned"}
    IN  CASE a = b /\ (subtracts \/ operator = "GtSigned") -> Literal(ty, 0)
          [] a = b /\ operator = "Eq" -> CarrierLiteral(ty, Mask("V128"))
          [] a = b /\ operator \in {"MinSigned", "MinUnsigned", "MaxSigned", "MaxUnsigned",
                                    "AverageUnsigned"} -> left
          [] adds /\ VectorIs(a, 0) -> right
          [] (adds \/ subtracts) /\ VectorIs(b, 0) -> left
          [] multiplies /\ (VectorIs(a, 0) \/ VectorIs(b, 0)) -> Literal(ty, 0)
          [] operator = "Mul" /\ VectorIs(a, ones) -> right
          [] operator = "Mul" /\ VectorIs(b, ones) -> left
          [] OTHER -> None

(* Construction alone may ignore the upper lanes of a V64. *)
VectorValue(ty, operator, laneType, left, right) ==
    LET ones == LaneOnes(laneType, Bits["V64"])
    IN  IF ty = "V64" /\ operator = "Mul" /\ VectorIs(left, ones) THEN right
        ELSE IF ty = "V64" /\ operator = "Mul" /\ VectorIs(right, ones) THEN left
        ELSE Fold(ty, <<"vector", operator, laneType>>, <<left, right>>)

FoldLaneShift(value, count, laneType) ==
    IF \/ VectorIs(Representation(value), 0)
       \/ /\ ScalarLiteral(Representation(count))
          /\ Representation(count).op[2] % Bits[laneType] = 0
    THEN value ELSE None

(* Look through the replacements of other lanes. *)
RECURSIVE ExtractBase(_, _, _)
ExtractBase(base, start, width) ==
    IF base.op[1] # "replace" THEN base
    ELSE LET w == Bits[base.op[2]]
             at == base.op[3] * w
         IN  IF start < at + w /\ at < start + width THEN base
             ELSE ExtractBase(Representation(base.ins[1]), start, width)

FoldExtract(ty, lane, input, base) ==
    LET width == Bytes(ty)
        indices == base.op[2]
        first == indices[lane * width]
    IN  IF base.op = <<"replace", ty, lane>> THEN FoldLowBits(ty, base.ins[2], Bits[ty])
        ELSE IF /\ base.op[1] = "shuffleimmediate"
                /\ first % width = 0
                /\ \A i \in 0..width - 1 : indices[lane * width + i] = first + i
        THEN Fold(ty, <<"extract", (first % Bytes("V128")) \div width>>,
                  <<IF first < Bytes("V128") THEN base.ins[1] ELSE base.ins[2]>>)
        ELSE IF base # Representation(input) THEN Fold(ty, <<"extract", lane>>, <<base>>)
        ELSE None
FoldExtractLane(ty, lane, input) ==
    FoldExtract(ty, lane, input,
                ExtractBase(Representation(input), lane * Bits[ty], Bits[ty]))

(* Mutant: an extracted lane put back needs no replacement, whatever vector it came from. *)
FoldReplaceAnyLane(ty, laneType, lane, left, right) ==
    LET scalar == Representation(right)
        under == Representation(left)
    IN  IF scalar.op = <<"extract", lane>> /\ scalar.ty = laneType THEN left
        ELSE IF under.op = <<"replace", laneType, lane>>
        THEN Fold(ty, <<"replace", laneType, lane>>, <<under.ins[1], right>>)
        ELSE None

FoldReplaceLane(ty, laneType, lane, left, right) ==
    LET scalar == Representation(right)
        under == Representation(left)
    IN  IF /\ scalar.op = <<"extract", lane>> /\ scalar.ty = laneType
           /\ Representation(scalar.ins[1]) = under
        THEN left
        ELSE IF under.op = <<"replace", laneType, lane>>
        THEN Fold(ty, <<"replace", laneType, lane>>, <<under.ins[1], right>>)
        ELSE None

(* The input that the indices 0..n-1 copy in place, or None. *)
ShuffleIdentity(indices, n, width, left, right) ==
    LET same == Representation(left) = Representation(right)
        copies(half) == \A i \in 0..n - 1 :
            /\ indices[i] < width * 2 /\ indices[i] % width = i
            /\ indices[i] \div width = half \/ same
    IN  IF copies(0) THEN left ELSE IF copies(1) THEN right ELSE None

(* Where a byte of a routed input comes from: a source and its byte. *)
ShuffleInput(v) ==
    IF v.op[1] = "shuffleimmediate"
    THEN [from |-> <<Representation(v.ins[1]), Representation(v.ins[2])>>, at |-> v.op[2]]
    ELSE [from |-> <<v, v>>, at |-> [i \in VectorBytes |-> i]]
PlaceIn(input, byte, size) ==
    [source |-> input.from[input.at[byte] \div size + 1], byte |-> input.at[byte] % size]
OtherSource(sources, first) ==
    IF sources = {first} THEN first ELSE CHOOSE v \in sources : v # first
Route(ty, routed, size, first, second) ==
    OrElse(ShuffleIdentity(routed, size, size, first, second),
           Intern(ty, <<"shuffleimmediate", routed>>, <<first, second>>))
RouteThrough(ty, places, size, sources) ==
    IF Cardinality(sources) > 2 THEN None
    ELSE Route(ty, [i \in VectorBytes |-> places[i].byte
                        + (IF places[i].source = places[0].source THEN 0 ELSE size)],
               size, places[0].source, OtherSource(sources, places[0].source))
RoutePlaces(ty, places, size) ==
    RouteThrough(ty, places, size, {places[i].source : i \in VectorBytes})
RouteInputs(ty, indices, inputs, size) ==
    RoutePlaces(ty, [i \in VectorBytes |->
        PlaceIn(inputs[indices[i] \div size + 1], indices[i] % size, size)], size)

(* One level of routing composes while two sources suffice. *)
FoldShuffle(ty, indices, left, right) ==
    OrElse(ShuffleIdentity(indices, Bytes("V128"), Bytes("V128"), left, right),
           IF \A v \in {left, right} : Representation(v).op[1] # "shuffleimmediate" THEN None
           ELSE RouteInputs(ty, indices,
                    <<ShuffleInput(Representation(left)), ShuffleInput(Representation(right))>>,
                    Bytes("V128")))

(* Known indices of a byte shuffle: an immediate one, and a mask for zeros. *)
FoldShuffleBytes(ty, inputType, left, right, chosen) ==
    LET size == Bytes("V128")
        width == Bytes(inputType)
        indices == ByteIndices(chosen.op[2])
        fromLeft == \E i \in VectorBytes : indices[i] < width
        fromRight == \E i \in VectorBytes : indices[i] \in width..2 * width - 1
        zeros == \E i \in VectorBytes : indices[i] >= 2 * width
        one == ~fromLeft \/ ~fromRight \/ Representation(left) = Representation(right)
        input == IF fromLeft THEN left ELSE right
        routed == [i \in VectorBytes |->
            CASE one -> IF indices[i] < 2 * width THEN indices[i] % width
                        ELSE size + (indices[i] % size)
              [] ~one -> IF indices[i] < width THEN indices[i]
                         ELSE IF indices[i] < 2 * width THEN size + indices[i] - width
                         ELSE 0]
        ins == CASE one /\ zeros -> <<input, Literal("V128", 0)>>
                 [] one /\ ~zeros -> <<input, input>>
                 [] OTHER -> <<left, right>>
        result == Fold(ty, <<"shuffleimmediate", routed>>, ins)
        kept == [i \in VectorBytes |-> IF indices[i] < 2 * width THEN Mask("I8") ELSE 0]
    IN  IF ~IsLiteral(chosen) THEN None
        ELSE IF ~fromLeft /\ ~fromRight THEN Literal(ty, 0)
        ELSE IF zeros /\ ~one
        THEN Fold(ty, <<"bitwise", "And">>, <<result, Literal("V128", FromBytes(kept))>>)
        ELSE result

FoldSwizzle(ty, inputType, input, chosen) ==
    LET size == Bytes("V128")
        width == Bytes(inputType)
        indices == ByteIndices(chosen.op[2])
        zeros == \E i \in VectorBytes : indices[i] >= width
        routed == [i \in VectorBytes |->
            IF indices[i] < width THEN indices[i] ELSE size + (indices[i] % size)]
    IN  IF VectorIs(input, 0) THEN input
        ELSE IF ~IsLiteral(chosen) THEN None
        ELSE IF \A i \in VectorBytes : indices[i] >= width THEN Literal("V128", 0)
        ELSE IF width = size /\ \A i \in VectorBytes : indices[i] = i THEN input
        ELSE Fold(ty, <<"shuffleimmediate", routed>>,
                  <<input, IF zeros THEN Literal("V128", 0) ELSE input>>)

(* A mask of exactly one lane selects by replacing that lane. *)
FoldSelectBits(ty, mask, whenTrue, whenFalse) ==
    LET bits == mask.op[2]
        offset == TrailingZeros(bits)
        run == TrailingOnes(bits \div 2^offset)
        laneType == IF whenTrue.op[1] = "splat" THEN whenTrue.op[2]
                    ELSE IF run = Bits["I8"] THEN "I8" ELSE "I64"
        input == IF whenTrue.op[1] = "splat" THEN whenTrue.ins[1]
                 ELSE Literal(laneType, whenTrue.op[2] \div 2^offset)
    IN  IF whenTrue = whenFalse THEN whenTrue
        ELSE IF ~IsLiteral(mask) THEN None
        ELSE IF bits = 0 THEN whenFalse
        ELSE IF bits = Mask("V128") THEN whenTrue
        ELSE IF /\ \/ whenTrue.op[1] = "splat"
                   \/ IsLiteral(whenTrue) /\ run \in {Bits["I8"], Bits["I64"]}
                /\ offset % Bits[laneType] = 0
                /\ bits = Mask(laneType) * 2^offset
        THEN Fold(ty, <<"replace", laneType, offset \div Bits[laneType]>>, <<whenFalse, input>>)
        ELSE None

-----------------------------------------------------------------------------
(* fold.rs: the rewrite an operation has, or None. *)

Rewrite(ty, op, ins) ==
    LET a == ins[1]
        b == ins[2]
        name == op[1]
        roundTrip == a.ins[1].ty = ty /\ CarrierBits(a.ty) >= CarrierBits(ty)
    IN  CASE name = "zerotest" -> FoldZeroTest(a, op[2])
          [] name = "lowbits" -> FoldLowBits(ty, a, op[2])
          [] name = "signextend" -> FoldSignExtend(ty, op[2], a)
          [] name = "extract" -> FoldExtractLane(ty, op[2], a)
          [] name = "convert" ->
                IF a.ty = ty THEN a
                ELSE IF a.op[1] = "convert" /\ roundTrip THEN a.ins[1] ELSE None
          [] name = "reinterpret" ->
                IF a.op[1] = "reinterpret" /\ roundTrip THEN a.ins[1] ELSE None
          [] name = "integer" -> FoldBinary(ty, op[2], a, b)
          [] name = "swizzle" -> FoldSwizzle(ty, op[2], a, b)
          [] name = "bitwise" -> FoldBitwise(ty, op[2], a, b)
          [] name = "compare" -> FoldCompare(op[2], a, b)
          [] name = "vector" -> FoldVector(ty, op[2], op[3], a, b)
          [] name = "replace" -> FoldReplaceLane(ty, op[2], op[3], a, b)
          [] name = "shuffleimmediate" -> FoldShuffle(ty, op[2], a, b)
          [] name = "shift" -> FoldShift(ty, a, b)
          [] name = "rotate" -> FoldRotate(ty, a, b)
          [] name = "laneshift" -> FoldLaneShift(a, b, op[3])
          [] name = "select" -> FoldSelect(ins[3], a, b)
          [] name = "bitselect" -> FoldSelectBits(ty, ins[3], a, b)
          [] name = "shuffle" -> FoldShuffleBytes(ty, op[2], a, b, ins[3])
          [] name = "multiplywide" -> FoldMultiplyWide(op[2], op[3], a, b)
          [] OTHER -> None

Literals(ins) == \A i \in DOMAIN ins : IsLiteral(ins[i])
LiteralBits(ins) == [i \in DOMAIN ins |-> ins[i].op[2]]
LiteralTypes(ins) == [i \in DOMAIN ins |-> ins[i].ty]

AsType(ty, input) == IF input.ty = ty THEN input ELSE Intern(ty, <<"convert">>, <<input>>)
Rewritten(ty, op, ins, input) ==
    IF input = None THEN Intern(ty, op, ins) ELSE AsType(ty, input)
FoldGiven(ty, op, ins, bits) ==
    IF bits # Undefined THEN CarrierLiteral(ty, bits)
    ELSE Rewritten(ty, op, ins, Rewrite(ty, op, ins))
FoldResult(ty, op, ins) ==
    FoldGiven(ty, op, ins, IF ~Literals(ins) THEN Undefined
                           ELSE CarrierResult(op, LiteralTypes(ins), LiteralBits(ins), ty))

-----------------------------------------------------------------------------
(* fold/construct.rs: admit a logical operation. *)

ReinterpretInput(v) == IF v.op[1] = "reinterpret" THEN v.ins[1] ELSE None
Reinterpret(input, target) ==
    IF ReinterpretInput(input).ty = target THEN input.ins[1]
    ELSE Fold(target, <<"reinterpret">>, <<input>>)

(* Whole-bit operations on reinterpreted integers happen on the integers. *)
CommonReinterpretType(target, op, ins) ==
    LET cast == CHOOSE i \in {1, 2} : i = 2 \/ ReinterpretInput(ins[1]) # None
        source == ReinterpretInput(ins[cast]).ty
    IN  IF /\ op[1] = "bitwise" /\ source \in DOMAIN Bits
           /\ IsInteger(source) /\ Bits[source] = Bits[target]
           /\ \A i \in DOMAIN ins : IsLiteral(ins[i]) \/ ReinterpretInput(ins[i]).ty = source
        THEN source ELSE "none"

BitCount(operator, inputType, input) ==
    Fold(inputType, <<"bitcount", operator, inputType>>,
         <<Fold(inputType, <<"lowbits", Bits[inputType]>>, <<input>>)>>)

SelectValue(condition, whenTrue, whenFalse) ==
    Fold(whenTrue.ty, <<"select">>, <<whenTrue, whenFalse, NormalizeValue(condition)>>)

ShuffleValue(ty, inputType, ins) ==
    LET identity == ShuffleIdentity(ByteIndices(ins[3].op[2]), Bytes(ty), Bytes(inputType),
                                    ins[1], ins[2])
    IN  IF IsLiteral(ins[3]) /\ identity # None THEN ConvertValue(identity, ty)
        ELSE Fold(ty, <<"shuffle", inputType>>, ins)

ConstructGiven(ty, op, ins, bits) ==
    LET a == ins[1]
        b == ins[2]
        name == op[1]
        source == CommonReinterpretType(ty, op, ins)
    IN  CASE bits # Undefined -> Literal(ty, bits)
          [] bits = Undefined /\ ~Literals(ins) /\ ~IsInteger(ty) /\ source # "none" ->
                Reinterpret(Construct(source, op,
                                [i \in DOMAIN ins |-> Reinterpret(ins[i], source)]), ty)
          [] OTHER ->
                CASE name = "signextend" -> SignExtend(a, op[2], ty)
                  [] name = "bitcount" -> BitCount(op[2], op[3], a)
                  [] name = "zerotest" -> ZeroTestValue(a, op[2])
                  [] name = "convert" -> ConvertValue(a, ty)
                  [] name = "reinterpret" -> Reinterpret(a, ty)
                  [] name = "integer" -> Binary(op[2], a, b)
                  [] name = "bitwise" -> Bitwise(op[2], a, b)
                  [] name = "compare" -> Compare(op[2], a, b)
                  [] name = "vector" -> VectorValue(ty, op[2], op[3], a, b)
                  [] name = "shift" -> ShiftValue(op[2], a, b)
                  [] name = "rotate" -> RotateValue(op[2], a, b)
                  [] name = "select" -> SelectValue(ins[3], a, b)
                  [] name = "shuffle" -> ShuffleValue(ty, op[2], ins)
                  [] OTHER -> Fold(ty, op, ins)
ConstructFrom(ty, op, ins) ==
    ConstructGiven(ty, op, ins, IF ~Literals(ins) THEN Undefined
                                ELSE ConstantResult(op, LiteralTypes(ins), LiteralBits(ins), ty))
Constructed(ty, op, given) ==
    ConstructFrom(ty, op, [i \in DOMAIN given |->
        IF IsLiteral(given[i]) THEN Literal(given[i].ty, given[i].op[2]) ELSE given[i]])

-----------------------------------------------------------------------------
(* lower.rs: counts of a narrow type in its carrier, and byte routing.     *)
(* u is a bound the table may keep for the lowered count (retain_bounds).  *)

CountLowered(v) ==
    LET trailing == v.op[2] = "TrailingZeros"
        width == Bits[v.op[3]]
        view == Fold("I32", <<"convert">>, v.ins)
        input == IF trailing
                 THEN Fold("I32", <<"bitwise", "Or">>, <<view, Literal("I32", 2^width)>>)
                 ELSE view
        count == Fold("I32", <<"bitcount", v.op[2], "I32">>, <<input>>)
        result == IF trailing THEN count
                  ELSE Fold("I32", <<"integer", "Sub">>,
                            <<count, Literal("I32", Bits["I32"] - width)>>)
    IN  [value |-> result,
         u |-> IF trailing \/ input.u <= width THEN Least(result.u, v.u) ELSE result.u]

SwizzleAll(ty, left, indices) == Fold(ty, <<"swizzle", "V128">>, <<left, indices>>)
LowerBytes(v) ==
    LET size == Bytes("V128")
        half == Bytes("V64")
        shift == Literal("V128", FromBytes([i \in VectorBytes |-> size]))
        past == Fold("V128", <<"vector", "Sub", "I8">>, <<v.ins[3], shift>>)
        halves == [i \in VectorBytes |-> IF i < half THEN i ELSE i + half]
    IN  CASE v.op = <<"swizzle", "V64">> ->
                SwizzleAll(v.ty, Fold("V128", <<"bitwise", "And">>,
                                      <<v.ins[1], Literal("V128", Mask("V64"))>>), v.ins[2])
          [] v.op = <<"shuffle", "V64">> ->
                SwizzleAll(v.ty, Fold("V128", <<"shuffleimmediate", halves>>,
                                      <<v.ins[1], v.ins[2]>>), v.ins[3])
          [] v.op = <<"shuffle", "V128">> ->
                Fold(v.ty, <<"bitwise", "Or">>,
                     <<SwizzleAll(v.ty, v.ins[1], v.ins[3]), SwizzleAll(v.ty, v.ins[2], past)>>)

CountsNarrow(v) == v.op[1] = "bitcount" /\ v.op[2] # "Ones" /\ v.op[3] \in {"I1", "I8"}
Lowered(v) ==
    IF CountsNarrow(v) THEN Fold(v.ty, <<"convert">>, <<CountInCarrier(v).value>>)
    ELSE IF v.op = <<"swizzle", "V64">> \/ v.op[1] = "shuffle" THEN LowerBytes(v)
    ELSE v

Express(stage, ty, op, ins) ==
    CASE stage = "fold" -> FoldResult(ty, op, ins)
      [] stage = "construct" -> Constructed(ty, op, ins)
      [] stage = "count" -> CountLowered(Value(ty, op, ins))
      [] stage = "lower" -> Lowered(Value(ty, op, ins))
      [] stage = "normalize" -> NormalizeValue(ins[1])

-----------------------------------------------------------------------------
(* A recipe names a value and says which operation on named values it is.  *)
Recipe(name, ty, op, ins) == [name |-> name, ty |-> ty, op |-> op, ins |-> ins]

Prepared(recipe, named) ==
    IF recipe.ins = <<>> THEN Value(recipe.ty, recipe.op, <<>>)
    ELSE Express(IF recipe.op[1] = "normalize" THEN "normalize" ELSE "construct",
                 recipe.ty, recipe.op, [i \in DOMAIN recipe.ins |-> named[recipe.ins[i]]])
RECURSIVE Built(_, _)
Built(recipes, named) ==
    IF recipes = <<>> \/ Head(recipes).name \in DOMAIN named THEN named
    ELSE Built(Tail(recipes), (Head(recipes).name :> Prepared(Head(recipes), named)) @@ named)
=============================================================================
