------------------------------- MODULE MCX86 --------------------------------
(***************************************************************************)
(* The translation of x86 instructions, one part to a behaviour.           *)
(*   integer, decimal  every integer instruction, and at the real widths   *)
(*                     the decimal adjustments, against what the           *)
(*                     architecture says they do, written independently:   *)
(*                     integers for bit patterns, single steps for shifts  *)
(*   flags             the flags a block of instructions keeps lazily      *)
(*   x87               the x87 registers it keeps lazily                   *)
(*   fields            the overlapping state fields it retains in values   *)
(* scene says which; the others keep a first state.                        *)
(***************************************************************************)
EXTENDS LazyFlags, StateFields

CONSTANT Samples   \* how many operands of a width to try besides the small ones

VARIABLES
  scene,
  case, out,
  arch, lazy, saved, ran, steps

integerVars == <<case, out>>
x87Vars == <<arch, lazy, saved, ran, steps>>

Pending == [pending |-> TRUE]

(* The widths of the processor; the other scenes scale them down.          *)
Real == INSTANCE LazyFlags WITH Carrier <- 32

-----------------------------------------------------------------------------
(* Operands: all of a byte, and the edges of a word and a dword.           *)
Edges(w) == {0, 1, 2, 2^Byte - 1, 2^Byte, 2^(w - 1) - 1, 2^(w - 1), 2^(w - 1) + 1,
             2^w - 2, 2^w - 1}
Operands(w) == IF w = Byte THEN 0..(2^w - 1)
               ELSE {x \in Edges(w) : x < 2^w} \cup {(k * 37) % 2^w : k \in 1..Samples}
Few(w) == {0, 1, 2^(w - 1) - 1, 2^(w - 1), 2^w - 1}

Op(dst, src, acc, hi, count) ==
    [dst |-> dst, src |-> src, acc |-> acc, hi |-> hi, count |-> count]
Case(op, kind, w, o, cf, rest) ==
    [op |-> op, kind |-> kind, w |-> w, o |-> o,
     f |-> [x \in AllFlags |-> IF x = "CF" THEN cf ELSE rest]]

OperandWidths == {Byte, Word, Dword}
Directions == {"Left", "Right"}

TwoOperand == BinaryOps \cup {"Compare", "Test", "Xadd", "Xchg", "Cmpxchg"}
BinaryCase ==
    \E k \in TwoOperand, w \in OperandWidths, cf \in BOOLEAN :
    \E l \in Operands(w), r \in IF w = Byte THEN Operands(w) ELSE Few(w), a \in {0, 2^(w - 1)} :
        case = Case("Binary", k, w, Op(l, r, a, 0, 0), cf, w = Word)
UnaryCase ==
    \E k \in UnaryOps, w \in OperandWidths, b \in BOOLEAN :
    \E x \in Operands(w) :
        /\ w # Byte \/ k # "ByteSwap"
        /\ case = Case("Unary", k, w, Op(x, 0, 0, 0, 0), b, b)
ShiftCase ==
    \E w \in OperandWidths, c \in 0..Carrier, b \in BOOLEAN :
    \E x \in Operands(w) :
        \/ \E k \in ShiftOps : case = Case("Shift", k, w, Op(x, 0, 0, 0, c), b, ~b)
        \/ \E op \in {"Rotate", "RotateCarry"}, k \in Directions :
               case = Case(op, k, w, Op(x, 0, 0, 0, c), b, b)
        \/ \E k \in Directions, s \in Few(w) :
               w # Byte /\ case = Case("DoubleShift", k, w, Op(x, s, 0, 0, c), b, b)
WideCase ==
    \E op \in {"Multiply", "Divide"}, signed \in BOOLEAN, w \in {Byte, Word} :
    \E s \in Operands(w), a \in Operands(w),
       h \in IF w = Byte THEN Operands(w) ELSE Few(w) \cup {2, 3} :
        case = Case(op, signed, w, Op(7, s, a, h, 0), FALSE, FALSE)
ProductCase ==
    \E x \in Operands(Word), s \in Few(Word) :
        case = Case("Product", TRUE, Word, Op(x, s, 5, 6, 0), TRUE, FALSE)
BitCase ==
    \E w \in {Word, Dword}, b \in BOOLEAN :
    \E x \in Operands(w) :
        \/ \E k \in BitTestOps, c \in 0..Carrier :
               case = Case("BitTest", k, w, Op(x, 0, 0, 0, c), b, b)
        \/ \E k \in {"Forward", "Reverse"} :
               case = Case("BitScan", k, w, Op(3, x, 0, 0, 0), b, b)

(* Two packed bytes and a carry, as the ADC or SBB before the adjustment   *)
(* leaves them; unpacked digits; any byte in some base.                    *)
Packed == {16 * t + u : t \in 0..9, u \in 0..9}
DecimalCase ==
    \/ \E k \in {"Add", "Subtract"}, l, r \in Packed, cf \in BOOLEAN :
          case = Case("Packed", k, 8, Op(l, r, 0, 0, 0), cf, FALSE)
    \/ \E k \in {"Add", "Subtract"}, l, r \in 0..9, h \in {1, 7}, cf \in BOOLEAN :
          case = Case("Unpacked", k, 8, Op(l, r, 0, h, 0), cf, FALSE)
    \/ \E a \in 0..255, radix \in {0, 10, 16} :
          case = Case("Digits", "Base", 8, Op(0, radix, a, 0, 0), FALSE, FALSE)

IntegerCase == BinaryCase \/ UnaryCase \/ ShiftCase \/ WideCase \/ ProductCase \/ BitCase

-----------------------------------------------------------------------------
(* The instruction under test.                                             *)
Perform(c) ==
    CASE c.op = "Binary" /\ c.kind \in BinaryOps -> UpdateBinary(c.kind, c.w, c.o, c.f)
      [] c.op = "Binary" /\ c.kind = "Compare" -> Compare(c.w, c.o)
      [] c.op = "Binary" /\ c.kind = "Test" -> Test(c.w, c.o)
      [] c.op = "Binary" /\ c.kind = "Xadd" -> Xadd(c.w, c.o)
      [] c.op = "Binary" /\ c.kind = "Xchg" -> Xchg(c.w, c.o)
      [] c.op = "Binary" /\ c.kind = "Cmpxchg" -> Cmpxchg(c.w, c.o)
      [] c.op = "Unary" -> UpdateUnary(c.kind, c.w, c.o)
      [] c.op = "Shift" -> ShiftOperand(c.kind, c.w, c.o)
      [] c.op = "Rotate" -> RotateOperand(c.kind, c.w, c.o)
      [] c.op = "RotateCarry" -> RotateCarry(c.kind, c.w, c.o, c.f)
      [] c.op = "DoubleShift" -> DoubleShift(c.kind, c.w, c.o)
      [] c.op = "Multiply" -> ImplicitMultiply(c.kind, c.w, c.o)
      [] c.op = "Product" -> MultiplyDestination(c.w, c.o)
      [] c.op = "Divide" -> Divide(c.kind, c.w, c.o)
      [] c.op = "BitTest" -> BitTest(c.kind, c.w, c.o)
      [] c.op = "BitScan" -> BitScan(c.kind, c.w, c.o)

(* The decimal adjustments follow the addition or subtraction they adjust. *)
Adjusted(c, sum) ==
    IF c.op = "Packed"
    THEN Real!AdjustDecimal(c.kind, [sum.o EXCEPT !.acc = sum.o.dst],
                            Real!ApplyChange(sum.change, c.f))
    ELSE Real!AdjustAscii(c.kind, [sum.o EXCEPT !.acc = sum.o.dst],
                          Real!ApplyChange(sum.change, c.f))
PerformDecimal(c) ==
    IF c.op = "Digits" THEN Real!AdjustMultiply(c.o)
    ELSE Adjusted(c, Real!UpdateBinary(IF c.kind = "Add" THEN "AddWithCarry"
                                       ELSE "SubtractWithBorrow", 8, c.o, c.f))

Execute(outcome) == out = Pending /\ out' = outcome /\ UNCHANGED case

-----------------------------------------------------------------------------
(* The architecture.  Sums and differences of integers.                    *)

InRange(w, x) == -(2^(w - 1)) <= x /\ x < 2^(w - 1)
SumFlags(w, l, r, c, sign) ==
    LET total == l + sign * (r + c)
        signed == Signed(w, l) + sign * (Signed(w, r) + c)
        low == (l % 2^(Byte \div 2)) + sign * ((r % 2^(Byte \div 2)) + c)
    IN  [CF |-> total < 0 \/ total >= 2^w, OF |-> ~InRange(w, signed),
         AF |-> low < 0 \/ low >= 2^(Byte \div 2)]
         @@ [f \in {"PF", "ZF", "SF"} |-> ResultFlag(w, total % 2^w, f)]

(* The value and the flags the architecture defines, for two operands.     *)
Carried(c) == IF c.kind \in {"AddWithCarry", "SubtractWithBorrow"} THEN ToNat(c.f["CF"]) ELSE 0
BinaryExact(c, o, f) ==
    LET l == c.o.dst
        r == c.o.src
        sum == (l + r + Carried(c)) % 2^c.w
        difference == (l - r - Carried(c)) % 2^c.w
        matches(g) == \A x \in DOMAIN g : f[x] = g[x]
    IN  CASE c.kind \in {"Add", "AddWithCarry"} ->
                o.dst = sum /\ matches(SumFlags(c.w, l, r, Carried(c), 1))
          [] c.kind \in {"Subtract", "SubtractWithBorrow"} ->
                o.dst = difference /\ matches(SumFlags(c.w, l, r, Carried(c), -1))
          [] c.kind = "Compare" -> o = c.o /\ matches(SumFlags(c.w, l, r, 0, -1))
          [] c.kind = "Xadd" ->
                o.dst = sum /\ o.src = l /\ matches(SumFlags(c.w, l, r, 0, 1))
          [] c.kind = "Xchg" -> o.dst = r /\ o.src = l /\ f = c.f
          [] c.kind = "Cmpxchg" ->
                /\ matches(SumFlags(c.w, c.o.acc, l, 0, -1))
                /\ IF c.o.acc = l THEN o.dst = r /\ o.acc = c.o.acc
                   ELSE o.dst = l /\ o.acc = l
          [] OTHER ->
                /\ f["CF"] = FALSE /\ f["OF"] = FALSE
                /\ LET res == IF c.kind = "Test" THEN l & r ELSE o.dst
                   IN  /\ \A i \in 0..(c.w - 1) :
                            Bit(res, i) = CASE c.kind \in {"And", "Test"} -> Bit(l, i) /\ Bit(r, i)
                                            [] c.kind = "Or" -> Bit(l, i) \/ Bit(r, i)
                                            [] c.kind = "Xor" -> Bit(l, i) # Bit(r, i)
                       /\ f["ZF"] = (res = 0) /\ f["SF"] = Sign(c.w, res)

UnaryExact(c, o, f) ==
    LET x == c.o.dst
        sum(sign) == [SumFlags(c.w, x, 1, 0, sign) EXCEPT !.CF = c.f["CF"]]
        matches(g) == \A y \in DOMAIN g : f[y] = g[y]
    IN  CASE c.kind = "Increment" -> o.dst = (x + 1) % 2^c.w /\ matches(sum(1))
          [] c.kind = "Decrement" -> o.dst = (x - 1) % 2^c.w /\ matches(sum(-1))
          [] c.kind = "Negate" -> o.dst = (-x) % 2^c.w /\ matches(SumFlags(c.w, 0, x, 0, -1))
          [] c.kind = "Not" -> o.dst + x = 2^c.w - 1 /\ f = c.f
          [] c.kind = "ByteSwap" ->
                /\ f = c.f
                /\ c.w = Dword => \A i \in 0..3 :
                       (o.dst \div 2^(Byte * i)) % 2^Byte = (x \div 2^(Byte * (3 - i))) % 2^Byte

-----------------------------------------------------------------------------
(* Shifts, one bit at a time.                                              *)

Step(op, kind, w, n, source, p) ==
    LET top == Sign(w, p.x)
        bottom == Bit(p.x, 0)
        left(in) == [x |-> (2 * (p.x % 2^(w - 1))) + ToNat(in), c |-> top]
        right(in) == [x |-> (p.x \div 2) + ToNat(in) * 2^(w - 1), c |-> bottom]
    IN  CASE op = "Shift" /\ kind = "Left" -> left(FALSE)
          [] op = "Shift" /\ kind = "RightLogical" -> right(FALSE)
          [] op = "Shift" /\ kind = "RightArithmetic" -> right(top)
          [] op = "Rotate" /\ kind = "Left" -> left(top)
          [] op = "Rotate" /\ kind = "Right" -> right(bottom)
          [] op = "RotateCarry" /\ kind = "Left" -> left(p.c)
          [] op = "RotateCarry" /\ kind = "Right" -> right(p.c)
          [] op = "DoubleShift" /\ kind = "Left" -> left(Bit(source, w - n))
          [] op = "DoubleShift" /\ kind = "Right" -> right(Bit(source, n - 1))

Stepped(c, count) ==
    LET at[n \in 0..count] ==
            IF n = 0 THEN [x |-> c.o.dst, c |-> c.f["CF"]]
            ELSE Step(c.op, c.kind, c.w, n, c.o.src, at[n - 1])
    IN  at[count]

ShiftExact(c, o, f) ==
    LET count == c.o.count % Carrier
        end == Stepped(c, count)
    IN  \/ c.op = "DoubleShift" /\ count > c.w     \* the architecture defines nothing
        \/ /\ o.dst = end.x
           /\ count = 0 => f = c.f
           /\ count # 0 /\ (c.kind = "RightArithmetic" \/ c.op # "Shift" \/ count < c.w)
                => f["CF"] = end.c
           /\ c.op \in {"Rotate", "RotateCarry"}
                => \A x \in {"PF", "AF", "ZF", "SF"} : f[x] = c.f[x]
           /\ c.op \in {"Shift", "DoubleShift"} /\ count # 0
                => f["ZF"] = (o.dst = 0) /\ f["SF"] = Sign(c.w, o.dst)
           /\ count = 1 => f["OF"] =
                CASE c.op # "DoubleShift" /\ c.kind = "Left" -> Sign(c.w, o.dst) # end.c
                  [] c.op = "Shift" /\ c.kind = "RightLogical" -> Sign(c.w, c.o.dst)
                  [] c.op = "Shift" /\ c.kind = "RightArithmetic" -> FALSE
                  [] OTHER -> Sign(c.w, c.o.dst) # Sign(c.w, o.dst)

-----------------------------------------------------------------------------
(* Products, quotients and bits.                                           *)

Value(signed, w, x) == IF signed THEN Signed(w, x) ELSE x
Fits(signed, w, x) == IF signed THEN InRange(w, x) ELSE x \in 0..(2^w - 1)

WideExact(c, r, f) ==
    LET w == c.w
        pair(o) == o.hi * 2^w + o.acc
        product == Value(c.kind, w, c.o.acc) * Value(c.kind, w, c.o.src)
        dividend == Value(c.kind, 2 * w, pair(c.o))
        divisor == Value(c.kind, w, c.o.src)
    IN  IF c.op = "Multiply"
        THEN /\ pair(r.o) = product % 2^(2 * w)
             /\ f["CF"] = ~Fits(c.kind, w, product) /\ f["OF"] = f["CF"]
        ELSE /\ r.fault = (divisor = 0 \/ ~Fits(c.kind, w, Quotient(dividend, divisor)))
             /\ r.fault => r.o = c.o
             /\ ~r.fault =>
                    /\ Value(c.kind, w, r.o.acc) * divisor + Value(c.kind, w, r.o.hi) = dividend
                    /\ Abs(Value(c.kind, w, r.o.hi)) < Abs(divisor)
             /\ ~InputFault(c.kind, w, pair(c.o), c.o.src)
                    => ~DivisionTraps(c.kind, w, pair(c.o), c.o.src)
             /\ f = c.f

ProductExact(c, o, f) ==
    LET product == Signed(c.w, c.o.dst) * Signed(c.w, c.o.src)
    IN  /\ o = [c.o EXCEPT !.dst = product % 2^c.w]
        /\ f["CF"] = ~InRange(c.w, product) /\ f["OF"] = f["CF"]

BitExact(c, o, f) ==
    IF c.op = "BitTest"
    THEN /\ f = [c.f EXCEPT !["CF"] = Bit(c.o.dst, c.o.count % c.w)]
         /\ \A i \in 0..(c.w - 1) :
              Bit(o.dst, i) = IF i # c.o.count % c.w THEN Bit(c.o.dst, i)
                              ELSE CASE c.kind = "Test" -> Bit(c.o.dst, i)
                                     [] c.kind = "Set" -> TRUE
                                     [] c.kind = "Reset" -> FALSE
                                     [] c.kind = "Complement" -> ~Bit(c.o.dst, i)
    ELSE /\ f["ZF"] = (c.o.src = 0)
         /\ c.o.src # 0 => /\ Bit(c.o.src, o.dst)
                           /\ c.kind = "Forward" => c.o.src % 2^o.dst = 0
                           /\ c.kind = "Reverse" => c.o.src < 2^(o.dst + 1)

-----------------------------------------------------------------------------
(* The flags: the changes of one instruction of each kind, at edges.       *)

Flagged(set) == [f \in AllFlags |-> f \in set]

MCImages == {Flagged({"CF", "SF", "AF", "IF"})}

Popf == Partial([f \in AllFlags \ {"IF"} |-> f \in {"OF", "PF", "DF"}])
Cmp == ArithmeticApply("Subtract", Word, 2^(Word - 1), 1).flags
CmpByte == ArithmeticApply("Subtract", Byte, 1, 3).flags
Sum == ArithmeticApply("Add", Word, 2^Word - 1, 1).flags
Zero == LogicApply("Xor", Dword, 5, 5).flags
Adc == ApplyWithCarry("Add", Byte, 1, 3, TRUE).flags
Inc == UnaryApply("Increment", Word, 2^(Word - 1) - 1).flags
Scan(holds) == When(Cmp, holds)
ShiftBy(count) == ShiftApply("Left", Byte, 3, count).flags
RotateBy(count) == Rotate("Right", Word, 1, count).flags
BitTested == BitTestApply("Test", Word, 1, 0).flags
Known(change) == [change EXCEPT !.known = TRUE]

MCChanges ==
    {Popf, CmpByte, Sum, Zero, Adc, Inc, Scan(TRUE), Scan(FALSE), ShiftBy(1), ShiftBy(0),
     RotateBy(1), BitTested, Known(ShiftBy(1))}
MCQueries == {"BE"}
MCFlagReads == {{"AF", "CF"}}

-----------------------------------------------------------------------------
(* The x87 stack.                                                          *)

Rounded(v, inexact) == [value |-> v, inexact |-> inexact]
Outcome(raised, overflow, tiny, masked, adjusted) ==
    [raised |-> raised, overflow |-> overflow, tiny |-> tiny, masked |-> masked,
     adjusted |-> adjusted]

Divided == Outcome({"ZeroDivide"}, FALSE, FALSE, Rounded("Indefinite", FALSE), Rounded("Indefinite", FALSE))
Tiny == Outcome({}, FALSE, TRUE, Rounded("Zero", TRUE), Rounded("Normal", FALSE))
Huge == Outcome({"Denormal"}, TRUE, FALSE, Rounded("Indefinite", TRUE), Rounded("Normal", FALSE))

Conversion(invalid, overflow, tiny, inexact) ==
    [invalid |-> invalid, overflow |-> overflow, tiny |-> tiny, inexact |-> inexact]
(* A full stack and an almost empty one, each with a control word under    *)
(* which something of it faults.                                           *)
MCStart(mask, occupied) ==
    [status |-> [unmasked |-> mask, raised |-> {}, fault |-> FALSE, summary |-> FALSE],
     top |-> 1,
     tags |-> [p \in 0..2 |-> IF p < occupied THEN 1 ELSE 3],
     values |-> [p \in 0..2 |-> IF p = 1 THEN "Normal" ELSE "Zero"]]

X87Results == {Divided, Tiny}
X87Pairs == {<<Tiny, Huge>>}
X87Conversions == {Conversion(FALSE, FALSE, TRUE, TRUE)}
X87Masks == {{}, {"Invalid", "Underflow"}, {"ZeroDivide", "Denormal", "Precision"}}
X87Starts == {MCStart({"Invalid", "Underflow"}, 3),
              MCStart({"ZeroDivide", "Denormal", "Precision"}, 1)}
X87 == INSTANCE LazyX87 WITH
    N <- 3, MaxSteps <- 3, Results <- X87Results, Pairs <- X87Pairs,
    Conversions <- X87Conversions, Masks <- X87Masks, Starts <- X87Starts
ASSUME X87!StackAssumption

-----------------------------------------------------------------------------
(* A record of three bytes with every place in it, and the first two as    *)
(* the span a run-time register number selects from.                       *)
FieldSpans == {[offset |-> 0, width |-> 2], [offset |-> 0, width |-> 3]}
ASSUME FieldsAssumption

-----------------------------------------------------------------------------
MCInit ==
    /\ scene \in {"integer", "decimal", "flags", "x87", "fields"}
    /\ CASE scene = "integer" -> IntegerCase
         [] scene = "decimal" -> DecimalCase
         [] OTHER -> case = Pending
    /\ out = Pending
    /\ Init
    /\ X87!Init /\ (scene # "x87" => arch = MCStart({"Invalid", "Underflow"}, 3))
    /\ FieldsInit /\ (scene # "fields" => memory = [b \in 0..2 |-> 0])

MCNext ==
    /\ \/ /\ \/ scene = "integer" /\ Execute(Perform(case))
             \/ scene = "decimal" /\ Execute(PerformDecimal(case))
          /\ UNCHANGED <<vars, x87Vars, fieldVars>>
       \/ scene = "flags" /\ Next /\ UNCHANGED <<integerVars, x87Vars, fieldVars>>
       \/ scene = "x87" /\ X87!Next /\ UNCHANGED <<integerVars, vars, fieldVars>>
       \/ scene = "fields" /\ FieldsNext /\ UNCHANGED <<integerVars, vars, x87Vars>>
       \/ UNCHANGED <<integerVars, vars, x87Vars, fieldVars>>
    /\ UNCHANGED scene

MCSpec == MCInit /\ [][MCNext]_<<scene, integerVars, vars, x87Vars, fieldVars>>

-----------------------------------------------------------------------------
(* Every integer instruction computes the value the architecture defines   *)
(* and sets, clears or keeps each flag it defines: carries out of narrow   *)
(* operands, counts beyond the operand width, rotations through the carry, *)
(* signed overflow and quotients that do not fit                           *)
(* (src/crates/x86/src/alu/arithmetic.rs:75, rotates.rs:95, divide.rs:19). *)
IntegerIsExact ==
    scene = "integer" /\ out # Pending =>
        LET f == ApplyChange(out.change, case.f)
        IN  CASE case.op = "Binary" -> BinaryExact(case, out.o, f)
              [] case.op = "Unary" -> UnaryExact(case, out.o, f)
              [] case.op \in {"Shift", "Rotate", "RotateCarry", "DoubleShift"} ->
                    ShiftExact(case, out.o, f)
              [] case.op \in {"Multiply", "Divide"} -> WideExact(case, out, f)
              [] case.op = "Product" -> ProductExact(case, out.o, f)
              [] case.op \in {"BitTest", "BitScan"} -> BitExact(case, out.o, f)

(* A condition answered from operands or from a logical result is the one  *)
(* its flags give (src/crates/x86/src/flags/condition.rs:98).              *)
ShortcutsAgree ==
    scene = "integer" /\ out # Pending /\ out.change.status =>
        \A cond \in Conditions :
            SourceCondition(out.change.source, cond)
              = Evaluate(cond, [x \in StatusFlags |-> SourceFlag(out.change.source, x)])

(* Decimal arithmetic: adding or subtracting packed bytes, or unpacked     *)
(* digits, and adjusting gives the decimal digits and the decimal carry;   *)
(* AAD undoes AAM (src/crates/x86/src/alu/adjust.rs:10).                   *)
Digits(b) == 10 * (b \div 16) + (b % 16)
DecimalIsExact ==
    scene = "decimal" /\ out # Pending =>
        LET f == Real!ApplyChange(out.change, case.f)
            sign == IF case.kind = "Add" THEN 1 ELSE -1
            c == ToNat(case.f["CF"])
            packed == Digits(case.o.dst) + sign * (Digits(case.o.src) + c)
            digit == case.o.dst + sign * (case.o.src + c)
        IN  CASE case.op = "Packed" ->
                    /\ Digits(out.o.acc) = packed % 100
                    /\ f["CF"] = (packed < 0 \/ packed >= 100)
                    /\ f["ZF"] = (out.o.acc = 0)
              [] case.op = "Unpacked" ->
                    /\ out.o.acc = digit % 10
                    /\ out.o.hi = case.o.hi + (digit \div 10)
                    /\ f["CF"] = (digit < 0 \/ digit >= 10) /\ f["AF"] = f["CF"]
              [] case.op = "Digits" ->
                    IF case.o.src = 0 THEN out.fault /\ out.o = case.o
                    ELSE /\ out.o.hi * case.o.src + out.o.acc = case.o.acc
                         /\ out.o.acc < case.o.src
                         /\ Real!AdjustDivision([out.o EXCEPT !.src = case.o.src]).o.acc = case.o.acc

(* Integer instructions are exact from the operands to the flags, when     *)
(* these are only a lazy record too: conditions and flags are read from    *)
(* the record as from the register, and the host sees it between blocks    *)
(* (LazyFlags).                                                            *)
IntegersAreExact ==
    /\ IntegerIsExact /\ ShortcutsAgree /\ DecimalIsExact
    /\ scene = "flags" => FlagsAreKept /\ ConditionsAgree /\ HostAgrees

(* The bank, its guards and its assumed position stand for the registers   *)
(* the architecture has, and ES for the exceptions it has pending; a guard *)
(* that failed, or a movement that did not happen, has left one pending;   *)
(* and an instruction that meets an unmasked invalid operand or division   *)
(* by zero can be restarted: the registers are as they were (LazyX87).     *)
X87IsKept ==
    /\ [](scene = "x87" => X87!StateIsKept /\ X87!SummaryIsExact /\ X87!SuppressionIsPending)
    /\ X87!FaultingLeavesRegisters
=============================================================================
