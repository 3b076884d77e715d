----------------------------- MODULE LazyFlags ------------------------------
(***************************************************************************)
(* The integer instructions, and how translated code keeps their flags     *)
(* (src/crates/x86/src/instruction/definitions, alu, flags, state/flags).  *)
(*                                                                         *)
(* An instruction is the operands it reads and writes and the flag change  *)
(* it makes.                                                               *)
(*                                                                         *)
(* o holds the operands: dst and src as the form names them, acc and hi    *)
(* for the halves of the implicit accumulator pair (AL or AX and AH or     *)
(* DX), count for a shift count or a bit offset.  f is the flags before.   *)
(*                                                                         *)
(* The CPU stores a record (the operands of the last complete operation,   *)
(* or "Concrete") and a byte per flag; the status bytes are stale unless   *)
(* the record is concrete.  Within a block the tracker holds a base (the   *)
(* stored record, with a cache of what was read from it, or a local status *)
(* source) and the changes since, in program order.  Reading composes      *)
(* them; leaving the block publishes one record.                           *)
(***************************************************************************)
EXTENDS Integers, FiniteSets, Bitwise, TLC, SequencesExt

-----------------------------------------------------------------------------
(* The scalar integer operations of the x86 translator: the result each    *)
(* computes and the change it makes to the status flags                    *)
(* (src/crates/x86/src/alu and flags).                                     *)
(*                                                                         *)
(* The code builds typed expressions that run in a 32-bit Wasm carrier:    *)
(* a byte or a word is a narrow view of it, and shift counts wrap modulo   *)
(* the carrier.  Carrier is that width, and the operand widths are a       *)
(* quarter, a half and the whole of it, so a scaled carrier keeps every    *)
(* relation between the widths and lets TLC try every operand.  A value is *)
(* the natural number its low bits denote; an I1 is a Boolean.             *)

CONSTANT Carrier

ASSUME CarrierAssumption == Carrier \in {8, 16, 32}

Byte == Carrier \div 4
Word == Carrier \div 2
Dword == Carrier

-----------------------------------------------------------------------------
(* Typed expressions of the compiler, as the operations below use them.    *)

Signed(w, x) == IF x >= 2^(w - 1) THEN x - 2^w ELSE x
Add(w, x, y) == (x + y) % 2^w
Sub(w, x, y) == (x - y) % 2^w
Complement(w, x) == 2^w - 1 - x

(* A shift count wraps modulo the carrier, not modulo the operand width.   *)
ShlIn(carrier, w, x, count) ==
    LET c == count % carrier IN IF c >= w THEN 0 ELSE (x % 2^(w - c)) * 2^c
ShrIn(carrier, x, count) == LET c == count % carrier IN IF c > 30 THEN 0 ELSE x \div 2^c
Shl(w, x, count) == ShlIn(Carrier, w, x, count)
Shr(x, count) == ShrIn(Carrier, x, count)
ShrSigned(w, x, count) ==
    LET c == count % Carrier
    IN  IF c >= w THEN (IF Signed(w, x) < 0 THEN 2^w - 1 ELSE 0)
        ELSE (Signed(w, x) \div 2^c) % 2^w
Rotl(w, x, count) ==
    LET c == count % w IN ((x % 2^(w - c)) * 2^c) + (x \div 2^(w - c))
Rotr(w, x, count) == Rotl(w, x, w - (count % w))

Bit(x, index) == (x \div 2^index) % 2 = 1
Sign(w, x) == Bit(x, w - 1)
ToNat(b) == IF b THEN 1 ELSE 0
SetBits(w, x) == {i \in 0..(w - 1) : Bit(x, i)}
EvenParity(w, x) == Cardinality(SetBits(w, x)) % 2 = 0

-----------------------------------------------------------------------------
(* Flags, conditions and changes.                                          *)

StatusFlags == {"CF", "PF", "AF", "ZF", "SF", "OF"}
DirectFlags == {"TF", "DF", "NT", "AC", "ID", "IF"}
AllFlags == StatusFlags \cup DirectFlags

Canonical == {"O", "B", "E", "BE", "S", "P", "L", "LE"}
Inverted == [NO |-> "O", AE |-> "B", NE |-> "E", A |-> "BE",
             NS |-> "S", NP |-> "P", GE |-> "L", G |-> "LE"]
Conditions == Canonical \cup DOMAIN Inverted
CanonicalOf(cond) == IF cond \in Canonical THEN cond ELSE Inverted[cond]

ConditionFlags(cond) ==
    CASE CanonicalOf(cond) = "O"  -> {"OF"}
      [] CanonicalOf(cond) = "B"  -> {"CF"}
      [] CanonicalOf(cond) = "E"  -> {"ZF"}
      [] CanonicalOf(cond) = "BE" -> {"CF", "ZF"}
      [] CanonicalOf(cond) = "S"  -> {"SF"}
      [] CanonicalOf(cond) = "P"  -> {"PF"}
      [] CanonicalOf(cond) = "L"  -> {"SF", "OF"}
      [] CanonicalOf(cond) = "LE" -> {"ZF", "SF", "OF"}

(* The condition read from flags, given as a function.                     *)
Evaluate(cond, flags) ==
    LET value == CASE CanonicalOf(cond) = "O"  -> flags["OF"]
                   [] CanonicalOf(cond) = "B"  -> flags["CF"]
                   [] CanonicalOf(cond) = "E"  -> flags["ZF"]
                   [] CanonicalOf(cond) = "BE" -> flags["CF"] \/ flags["ZF"]
                   [] CanonicalOf(cond) = "S"  -> flags["SF"]
                   [] CanonicalOf(cond) = "P"  -> flags["PF"]
                   [] CanonicalOf(cond) = "L"  -> flags["SF"] # flags["OF"]
                   [] CanonicalOf(cond) = "LE" -> flags["ZF"] \/ (flags["SF"] # flags["OF"])
    IN  value = (cond \in Canonical)

(* The relation a subtraction's operands answer directly, where there is   *)
(* one, and the one a logical result answers.                              *)
HasOperandComparison(cond) == CanonicalOf(cond) \in {"B", "E", "BE", "L", "LE"}
(* Mutant: the order relations ignore the sign.                            *)
OperandComparisonUnsigned(cond, w, left, right) ==
    LET holds == CASE CanonicalOf(cond) \in {"B", "L"}   -> left < right
                   [] CanonicalOf(cond) = "E"            -> left = right
                   [] CanonicalOf(cond) \in {"BE", "LE"} -> right >= left
    IN  holds = (cond \in Canonical)
OperandComparison(cond, w, left, right) ==
    LET holds == CASE CanonicalOf(cond) = "B"  -> left < right
                   [] CanonicalOf(cond) = "E"  -> left = right
                   [] CanonicalOf(cond) = "BE" -> right >= left
                   [] CanonicalOf(cond) = "L"  -> Signed(w, left) < Signed(w, right)
                   [] CanonicalOf(cond) = "LE" -> Signed(w, right) >= Signed(w, left)
    IN  holds = (cond \in Canonical)
HasLogicComparison(cond) == CanonicalOf(cond) = "E"
LogicComparison(cond, result) == (result = 0) = (cond \in Canonical)

(* Parity, zero and sign of a result.  Parity looks at the low byte.       *)
ResultFlag(w, result, flag) ==
    CASE flag = "PF" -> EvenParity(Byte, result)
      [] flag = "ZF" -> result = 0
      [] flag = "SF" -> Sign(w, result)

-----------------------------------------------------------------------------
(* Status sources: a recipe for all six status flags.                      *)

(* Addition compares its wrapped result, subtraction its operands; an      *)
(* incoming carry or borrow decides the equality case.                     *)
ArithmeticFlag(op, w, left, right, result, carry, flag) ==
    LET a == IF op = "Add" THEN result ELSE left
        b == IF op = "Add" THEN left ELSE right
    IN  CASE flag = "CF" -> IF carry THEN b >= a ELSE a < b
          [] flag = "AF" -> Bit((left ^^ right) ^^ result, Byte \div 2)
          [] flag = "OF" -> Sign(w, (left ^^ result) & (IF op = "Add" THEN right ^^ result
                                                        ELSE left ^^ right))
          [] OTHER -> ResultFlag(w, result, flag)

LogicFlag(w, result, flag) ==
    flag \notin {"CF", "OF", "AF"} /\ ResultFlag(w, result, flag)

Arithmetic(op, w, left, right, result) ==
    [kind |-> op, width |-> w, left |-> left, right |-> right, result |-> result]
Logic(w, result) == [kind |-> "Logic", width |-> w, result |-> result]
Explicit(flags) == [kind |-> "Explicit", flags |-> flags]

SourceFlag(source, flag) ==
    CASE source.kind \in {"Add", "Subtract"} ->
            ArithmeticFlag(source.kind, source.width, source.left, source.right,
                           source.result, FALSE, flag)
      [] source.kind = "Logic" -> LogicFlag(source.width, source.result, flag)
      [] source.kind = "Explicit" -> source.flags[flag]

SourceCondition(source, cond) ==
    CASE source.kind = "Subtract" /\ HasOperandComparison(cond) ->
            OperandComparison(cond, source.width, source.left, source.right)
      [] source.kind = "Logic" /\ HasLogicComparison(cond) ->
            LogicComparison(cond, source.result)
      [] OTHER -> Evaluate(cond, [f \in StatusFlags |-> SourceFlag(source, f)])

(* A change: its values (a status source, or a value per written flag),    *)
(* the flags it writes, and its condition.  "static" is a change without a *)
(* condition; a condition holds or not when the code runs, and "known"     *)
(* says that it folded to a literal when the code was built.               *)
FromSource(source) ==
    [status |-> TRUE, source |-> source, writes |-> StatusFlags,
     static |-> TRUE, known |-> FALSE, holds |-> TRUE]
Partial(values) ==
    [status |-> FALSE, source |-> values, writes |-> DOMAIN values,
     static |-> TRUE, known |-> FALSE, holds |-> TRUE]
When(change, condition) ==
    [change EXCEPT !.static = FALSE, !.holds = change.holds /\ condition]
Retaining(change, mask) == [change EXCEPT !.writes = change.writes \cap mask]
Preserving(change, flag) == Retaining(change, AllFlags \ {flag})
ChangeFlag(change, flag) ==
    IF change.status THEN SourceFlag(change.source, flag) ELSE change.source[flag]
CoveringSource(change, needed) == change.status /\ needed \subseteq change.writes

-----------------------------------------------------------------------------
(* Addition, subtraction, logic and unary operations.                      *)

Compute(op, w, left, right) == IF op = "Add" THEN Add(w, left, right) ELSE Sub(w, left, right)

ArithmeticApply(op, w, left, right) ==
    LET result == Compute(op, w, left, right)
    IN  [result |-> result, flags |-> FromSource(Arithmetic(op, w, left, right, result))]

WithCarryResult(op, w, left, right, carry) ==
    Compute(op, w, Compute(op, w, left, right), ToNat(carry))
ApplyWithCarry(op, w, left, right, carry) ==
    LET result == WithCarryResult(op, w, left, right, carry)
    IN  [result |-> result,
         flags |-> FromSource(Explicit([f \in StatusFlags |->
                       ArithmeticFlag(op, w, left, right, result, carry, f)]))]

LogicApply(op, w, left, right) ==
    LET result == CASE op = "And" -> left & right
                    [] op = "Or"  -> left | right
                    [] op = "Xor" -> left ^^ right
    IN  [result |-> result, flags |-> FromSource(Logic(w, result))]

(* BSWAP of a word clears it; of a dword it reverses the four bytes.       *)
ByteSwap(w, x) ==
    IF w = Word THEN 0
    ELSE (Rotl(w, x, Byte) & (2^Byte - 1 + (2^Byte - 1) * 2^Word))
         | (Rotr(w, x, Byte) & ((2^Byte - 1) * 2^Byte + (2^Byte - 1) * 2^(Byte + Word)))

UnaryApply(op, w, x) ==
    LET step(kind) == LET r == ArithmeticApply(kind, w, x, 1)
                      IN  [r EXCEPT !.flags = Preserving(r.flags, "CF")]
    IN  CASE op = "Increment" -> step("Add")
          [] op = "Decrement" -> step("Subtract")
          [] op = "Negate"    -> ArithmeticApply("Subtract", w, 0, x)
          [] op = "Not"       -> [result |-> x ^^ (2^w - 1), flags |-> Partial(<<>>)]
          [] op = "ByteSwap"  -> [result |-> ByteSwap(w, x), flags |-> Partial(<<>>)]

(* The update a destination undergoes, as memory and registers share it;   *)
(* the flags are derived separately from the value it replaced.            *)
UpdateApply(op, w, previous, value, other, carry) ==
    CASE op \in {"Add", "Subtract"} -> Compute(op, w, previous, value)
      [] op = "AddWithCarry" -> WithCarryResult("Add", w, previous, value, carry)
      [] op = "SubtractWithBorrow" -> WithCarryResult("Subtract", w, previous, value, carry)
      [] op \in {"And", "Or", "Xor"} -> LogicApply(op, w, previous, value).result
      [] op = "Negate" -> Sub(w, 0, previous)
      [] op = "Exchange" -> value
      [] op = "CompareExchange" -> IF value = previous THEN other ELSE previous

-----------------------------------------------------------------------------
(* Shifts and rotations.  The caller masks the count to the carrier's log. *)

ShiftFlags(w, result, carry, overflow, count) ==
    When(FromSource(Explicit([f \in StatusFlags |->
            CASE f = "CF" -> carry
              [] f = "OF" -> overflow /\ count = 1
              [] f = "AF" -> FALSE
              [] OTHER -> ResultFlag(w, result, f)])), count # 0)

ShiftApply(op, w, x, count) ==
    LET result == CASE op = "Left" -> Shl(w, x, count)
                    [] op = "RightLogical" -> Shr(x, count)
                    [] op = "RightArithmetic" -> ShrSigned(w, x, count)
        carry == CASE op = "Left" -> Bit(Shr(x, w - count), 0) /\ count < w
                   [] op = "RightLogical" -> Bit(Shr(x, count - 1), 0) /\ count < w
                   [] op = "RightArithmetic" -> Bit(ShrSigned(w, x, count - 1), 0)
        overflow == CASE op = "Left" -> Sign(w, result) # carry
                      [] op = "RightLogical" -> Sign(w, x)
                      [] op = "RightArithmetic" -> FALSE
    IN  [result |-> result, flags |-> ShiftFlags(w, result, carry, overflow, count)]

DoubleShiftApply(op, w, x, source, count) ==
    LET wrap == w - count
        shifted == IF op = "Left" THEN Shl(Dword, x, count) | Shr(source, wrap)
                   ELSE Shr(x, count) | Shl(Dword, source, wrap)
        result == IF count # 0 THEN shifted % 2^w ELSE x
        carry == /\ Bit(Shr(x, IF op = "Left" THEN wrap ELSE count - 1), 0)
                 /\ count < w + 1
        overflow == Sign(w, x) # Sign(w, result)
    IN  [result |-> result, flags |-> ShiftFlags(w, result, carry, overflow, count)]

RotateFlags(op, w, result, carry, count) ==
    LET overflow == /\ count = 1
                    /\ Sign(w, result) # (IF op = "Left" THEN carry ELSE Bit(result, w - 2))
    IN  Partial([CF |-> carry, OF |-> overflow])

Rotate(op, w, x, count) ==
    LET result == IF op = "Left" THEN Rotl(w, x, count) ELSE Rotr(w, x, count)
        carry == Bit(result, IF op = "Left" THEN 0 ELSE w - 1)
    IN  [result |-> result, flags |-> When(RotateFlags(op, w, result, carry, count), count # 0)]

(* Mutant: the count is not reduced twice, as a byte's ring needs.         *)
ReduceCarryCountOnce(count, ring) ==
    IF ring < Carrier /\ count >= ring THEN count - ring ELSE count

(* A count below the carrier, reduced modulo the ring by two subtractions. *)
ReduceCarryCount(count, ring) ==
    LET once == IF 2 * ring < Carrier /\ count >= 2 * ring THEN count - 2 * ring ELSE count
    IN  IF ring < Carrier /\ once >= ring THEN once - ring ELSE once

(* The ring of operand and carry lives in a carrier of its own size.       *)
RotateRing(op, carrier, ring, width, count) ==
    LET wrap == width - count
    IN  IF op = "Left"
        THEN ShlIn(carrier, width, ring, count) | ShrIn(carrier, ring, wrap)
        ELSE ShrIn(carrier, ring, count) | ShlIn(carrier, width, ring, wrap)

RotateThroughCarry(op, w, x, count, carry) ==
    LET effective == ReduceCarryCount(count, w + 1)
        carrier == IF w = Carrier THEN 2 * Carrier ELSE Carrier
        rotated == RotateRing(op, carrier, x + ToNat(carry) * 2^w, w + 1, effective)
        result == IF effective # 0 THEN rotated % 2^w ELSE x
        out == IF effective # 0 THEN Bit(rotated, w) ELSE carry
    IN  [result |-> result,
         flags |-> When(RotateFlags(op, w, result, out, count), effective # 0)]

-----------------------------------------------------------------------------
(* Multiplication, division, bit scans and bit tests.                      *)

Extend(signed, w, x) == IF signed THEN Signed(w, x) % 2^(2 * w) ELSE x

MultiplyApply(signed, w, left, right) ==
    LET result == IF signed THEN (Signed(w, left) * Signed(w, right)) % 2^(2 * w)
                  ELSE left * right
        overflow == IF signed THEN result # Extend(TRUE, w, result % 2^w)
                    ELSE result \div 2^w # 0
    IN  [result |-> result,
         flags |-> FromSource(Explicit([f \in StatusFlags |->
                       CASE f \in {"CF", "OF"} -> overflow
                         [] f = "PF" -> TRUE
                         [] OTHER -> FALSE]))]

(* The least double-width dividend over -1 traps in Wasm, but not in a     *)
(* double that is itself narrow: a byte's quotient wraps and fails the fit.*)
InputFault(signed, w, dividend, divisor) ==
    IF signed
    THEN \/ divisor = 0
         \/ w # Byte /\ dividend = 2^(2 * w - 1) /\ divisor = 2^w - 1
    ELSE dividend \div 2^w >= divisor

(* Wasm division truncates toward zero; the remainder has the dividend's   *)
(* sign.                                                                   *)
Abs(x) == IF x < 0 THEN -x ELSE x
Quotient(a, b) == (Abs(a) \div Abs(b)) * (IF (a < 0) = (b < 0) THEN 1 ELSE -1)
Remainder(a, b) == a - b * Quotient(a, b)
DivisionTraps(signed, w, dividend, divisor) ==
    \/ divisor = 0
    \/ signed /\ 2 * w >= Carrier /\ dividend = 2^(2 * w - 1) /\ divisor = 2^w - 1

DivideApply(signed, w, dividend, divisor) ==
    LET d == 2 * w
        a == IF signed THEN Signed(d, dividend) ELSE dividend
        b == IF signed THEN Signed(w, divisor) ELSE divisor
        quotient == Quotient(a, b) % 2^d
    IN  [quotient |-> quotient % 2^w,
         remainder |-> Remainder(a, b) % 2^w,
         overflow |-> signed /\ quotient # Extend(TRUE, w, quotient % 2^w)]

BitScanApply(op, w, source, previous) ==
    LET index == IF op = "Forward" THEN CHOOSE i \in SetBits(w, source) :
                                            \A j \in SetBits(w, source) : i <= j
                 ELSE CHOOSE i \in SetBits(w, source) : \A j \in SetBits(w, source) : i >= j
    IN  [result |-> IF source = 0 THEN previous ELSE index,
         flags |-> FromSource(Explicit([f \in StatusFlags |->
                       CASE f = "PF" -> EvenParity(w, source)
                         [] f = "ZF" -> source = 0
                         [] OTHER -> FALSE]))]

BitTestApply(op, w, x, offset) ==
    LET index == offset % w
        mask == 2^index
    IN  [result |-> CASE op = "Test" -> x
                      [] op = "Set" -> x | mask
                      [] op = "Reset" -> x & Complement(w, mask)
                      [] op = "Complement" -> x ^^ mask,
         flags |-> Partial([CF |-> Bit(x, index)])]

-----------------------------------------------------------------------------
(* Decimal adjustments.  They exist for the real byte and word only.       *)

AdjustUnpacked(op, accumulator, auxiliary) ==
    LET adjust == (accumulator % 16 >= 10) \/ auxiliary
        result == Compute(op, 16, accumulator, IF adjust THEN 16 * 16 + 6 ELSE 0)
    IN  [result |-> (result \div 256) * 256 + (result % 16),
         flags |-> Partial([AF |-> adjust, CF |-> adjust])]

(* Mutant: the high digit is judged after the low one was adjusted.        *)
AdjustPackedInOrder(op, accumulator, auxiliary, carry) ==
    LET adjustLow == (accumulator % 16 >= 10) \/ auxiliary
        low == Compute(op, 8, accumulator, IF adjustLow THEN 6 ELSE 0)
        adjustHigh == (low >= 9 * 16 + 10) \/ carry
        result == Compute(op, 8, low, IF adjustHigh THEN 96 ELSE 0)
    IN  [result |-> result,
         flags |-> Partial([AF |-> adjustLow, CF |-> adjustHigh] @@
                           [f \in {"PF", "ZF", "SF"} |-> ResultFlag(8, result, f)])]

(* Both decisions use the original AL, before either digit is adjusted.    *)
AdjustPacked(op, accumulator, auxiliary, carry) ==
    LET adjustLow == (accumulator % 16 >= 10) \/ auxiliary
        adjustHigh == (accumulator >= 9 * 16 + 10) \/ carry
        correction == (IF adjustLow THEN 6 ELSE 0) + (IF adjustHigh THEN 96 ELSE 0)
        result == Compute(op, 8, accumulator, correction)
        out == adjustHigh \/ (op = "Subtract" /\ adjustLow /\ accumulator < 6)
    IN  [result |-> result,
         flags |-> Partial([AF |-> adjustLow, CF |-> out] @@
                           [f \in {"PF", "ZF", "SF"} |-> ResultFlag(8, result, f)])]

DigitFlags(result) == Partial([f \in {"PF", "ZF", "SF"} |-> ResultFlag(8, result, f)])
AdjustAfterMultiply(accumulator, base) ==
    [result |-> (accumulator \div base) * 256 + (accumulator % base),
     flags |-> DigitFlags(accumulator % base)]
AdjustBeforeDivision(accumulator, base) ==
    LET low == Add(8, accumulator % 256, (accumulator \div 256) * base)
    IN  [result |-> low, flags |-> DigitFlags(low)]

-----------------------------------------------------------------------------
(* What an instruction leaves: its operands, its change, or its fault.     *)
Done(o, change) == [o |-> o, change |-> change, fault |-> FALSE]
DivideError(o) == [o |-> o, change |-> Partial(<<>>), fault |-> TRUE]

(* What a change does to flags that are kept eagerly.                      *)
ApplyChange(change, f) ==
    [x \in AllFlags |-> IF change.holds /\ x \in change.writes
                        THEN ChangeFlag(change, x) ELSE f[x]]

(* The destination is updated in place, possibly atomically; the flags are *)
(* derived from the value the update replaced.                             *)
BinaryOps == {"Add", "AddWithCarry", "Subtract", "SubtractWithBorrow", "And", "Or", "Xor"}
UpdateBinary(op, w, o, f) ==
    LET left == o.dst
        outcome == CASE op \in {"Add", "Subtract"} -> ArithmeticApply(op, w, left, o.src)
                     [] op = "AddWithCarry" ->
                            ApplyWithCarry("Add", w, left, o.src, f["CF"])
                     [] op = "SubtractWithBorrow" ->
                            ApplyWithCarry("Subtract", w, left, o.src, f["CF"])
                     [] OTHER -> LogicApply(op, w, left, o.src)
    IN  Done([o EXCEPT !.dst = UpdateApply(op, w, left, o.src, 0, f["CF"])], outcome.flags)

Compare(w, o) == Done(o, ArithmeticApply("Subtract", w, o.dst, o.src).flags)
Test(w, o) == Done(o, LogicApply("And", w, o.dst, o.src).flags)

UnaryOps == {"Increment", "Decrement", "Not", "Negate", "ByteSwap"}
UpdateUnary(op, w, o) ==
    LET outcome == UnaryApply(op, w, o.dst)
        updated == CASE op = "Increment" -> UpdateApply("Add", w, o.dst, 1, 0, FALSE)
                     [] op = "Decrement" -> UpdateApply("Subtract", w, o.dst, 1, 0, FALSE)
                     [] op = "Not" -> UpdateApply("Xor", w, o.dst, 2^w - 1, 0, FALSE)
                     [] op = "Negate" -> UpdateApply("Negate", w, o.dst, 0, 0, FALSE)
                     [] op = "ByteSwap" -> outcome.result
    IN  Done([o EXCEPT !.dst = updated], outcome.flags)

Xchg(w, o) ==
    Done([o EXCEPT !.dst = UpdateApply("Exchange", w, o.dst, o.src, 0, FALSE), !.src = o.dst],
         Partial(<<>>))
Xadd(w, o) ==
    Done([o EXCEPT !.dst = UpdateApply("Add", w, o.dst, o.src, 0, FALSE), !.src = o.dst],
         ArithmeticApply("Add", w, o.dst, o.src).flags)
Cmpxchg(w, o) ==
    Done([o EXCEPT !.dst = UpdateApply("CompareExchange", w, o.dst, o.acc, o.src, FALSE),
                   !.acc = o.dst],
         ArithmeticApply("Subtract", w, o.acc, o.dst).flags)

Masked(o) == o.count % Carrier
ShiftOps == {"Left", "RightLogical", "RightArithmetic"}
ShiftOperand(op, w, o) ==
    LET outcome == ShiftApply(op, w, o.dst, Masked(o))
    IN  Done([o EXCEPT !.dst = outcome.result], outcome.flags)
DoubleShift(op, w, o) ==
    LET outcome == DoubleShiftApply(op, w, o.dst, o.src, Masked(o))
    IN  Done([o EXCEPT !.dst = outcome.result], outcome.flags)
RotateOperand(op, w, o) ==
    LET outcome == Rotate(op, w, o.dst, Masked(o))
    IN  Done([o EXCEPT !.dst = outcome.result], outcome.flags)
RotateCarry(op, w, o, f) ==
    LET outcome == RotateThroughCarry(op, w, o.dst, Masked(o), f["CF"])
    IN  Done([o EXCEPT !.dst = outcome.result], outcome.flags)

(* A byte product or quotient pair shares AX; wider ones use DX:AX.  With  *)
(* acc and hi as the halves, both are the same pair.                       *)
ImplicitMultiply(signed, w, o) ==
    LET outcome == MultiplyApply(signed, w, o.acc, o.src)
    IN  Done([o EXCEPT !.acc = outcome.result % 2^w, !.hi = outcome.result \div 2^w],
             outcome.flags)
MultiplyDestination(w, o) ==
    LET outcome == MultiplyApply(TRUE, w, o.dst, o.src)
    IN  Done([o EXCEPT !.dst = outcome.result % 2^w], outcome.flags)

(* The inputs are tested before the division may run, the fit after it.    *)
Divide(signed, w, o) ==
    LET dividend == o.hi * 2^w + o.acc
        outcome == DivideApply(signed, w, dividend, o.src)
    IN  IF InputFault(signed, w, dividend, o.src) THEN DivideError(o)
        ELSE IF outcome.overflow THEN DivideError(o)
        ELSE Done([o EXCEPT !.acc = outcome.quotient, !.hi = outcome.remainder], Partial(<<>>))

BitScan(op, w, o) ==
    LET outcome == BitScanApply(op, w, o.src, o.dst)
    IN  Done([o EXCEPT !.dst = outcome.result], outcome.flags)

(* A register offset selects another unit of the bit string (addressing);  *)
(* the bit is taken within the unit.                                       *)
BitTestOps == {"Test", "Set", "Reset", "Complement"}
BitTest(op, w, o) ==
    LET mask == 2^(o.count % w)
        updated == CASE op = "Set" -> UpdateApply("Or", w, o.dst, mask, 0, FALSE)
                     [] op = "Reset" -> UpdateApply("And", w, o.dst, mask ^^ (2^w - 1), 0, FALSE)
                     [] op = "Complement" -> UpdateApply("Xor", w, o.dst, mask, 0, FALSE)
                     [] OTHER -> o.dst
    IN  Done([o EXCEPT !.dst = updated], BitTestApply(op, w, o.dst, o.count).flags)

AdjustAscii(op, o, f) ==
    LET outcome == AdjustUnpacked(op, o.hi * 256 + o.acc, f["AF"])
    IN  Done([o EXCEPT !.acc = outcome.result % 256, !.hi = outcome.result \div 256],
             outcome.flags)
AdjustDecimal(op, o, f) ==
    LET outcome == AdjustPacked(op, o.acc, f["AF"], f["CF"])
    IN  Done([o EXCEPT !.acc = outcome.result], outcome.flags)
AdjustMultiply(o) ==
    LET outcome == AdjustAfterMultiply(o.acc, o.src)
    IN  IF o.src = 0 THEN DivideError(o)
        ELSE Done([o EXCEPT !.acc = outcome.result % 256, !.hi = outcome.result \div 256],
                  outcome.flags)
AdjustDivision(o) ==
    LET outcome == AdjustBeforeDivision(o.hi * 256 + o.acc, o.src)
    IN  Done([o EXCEPT !.acc = outcome.result, !.hi = 0], outcome.flags)

-----------------------------------------------------------------------------

CONSTANTS Changes,      \* the changes the instructions of a block can make
          Images,       \* the flag images the host can store
          Queries,      \* the conditions a block reads
          FlagReads,    \* the sets of status flags a block reads together
          MaxUpdates,   \* bound on the changes after a base
          MaxExits      \* bound on the blocks left

VARIABLES record, bytes, base, updates, direct,
          exits,        \* the blocks left so far
          eflags        \* history: the register, as its changes leave it

vars == <<record, bytes, base, updates, direct, exits, eflags>>

Slots == Canonical \cup {"AF"}
Stored(cache) == [local |-> FALSE, cache |-> cache]
Local(source) == [local |-> TRUE, source |-> source]
Fresh == Stored(<<>>)

-----------------------------------------------------------------------------
(* The stored record.                                                      *)

SourceOf(r) ==
    LET left == r.left % 2^r.width
        right == r.right % 2^r.width
    IN  IF r.kind = "Logic" THEN Logic(r.width, left)
        ELSE Arithmetic(r.kind, r.width, left, right, Compute(r.kind, r.width, left, right))

StatusBytes == [f \in StatusFlags |-> bytes[f]]

CpuReadFlag(flag) ==
    IF record.kind = "Concrete" THEN bytes[flag] ELSE SourceFlag(SourceOf(record), flag)

(* Subtraction relations and logical zero tests are answered in place, the *)
(* rest by the shared reader of the canonical condition.                   *)
CpuReadCondition(cond) ==
    LET fallback == IF record.kind = "Concrete" THEN Evaluate(cond, StatusBytes)
                    ELSE SourceCondition(SourceOf(record), cond)
    IN  CASE HasOperandComparison(cond) /\ record.kind = "Subtract" ->
                OperandComparison(cond, record.width, record.left % 2^record.width,
                                  record.right % 2^record.width)
          [] HasLogicComparison(cond) /\ record.kind = "Logic" ->
                LogicComparison(cond, record.left % 2^record.width)
          [] OTHER -> fallback

-----------------------------------------------------------------------------
(* Queries.  Each has a value and the base it leaves behind.               *)

FlagSlot(flag) ==
    CASE flag = "CF" -> "B" [] flag = "PF" -> "P" [] flag = "AF" -> "AF"
      [] flag = "ZF" -> "E" [] flag = "SF" -> "S" [] flag = "OF" -> "O"

BaseFlag(flag) ==
    IF base.local THEN SourceFlag(base.source, flag)
    ELSE IF FlagSlot(flag) \in DOMAIN base.cache THEN base.cache[FlagSlot(flag)]
    ELSE CpuReadFlag(flag)
BaseAfterFlags(needed) ==
    IF base.local THEN base
    ELSE LET missing == {f \in needed : FlagSlot(f) \notin DOMAIN base.cache}
             read == [s \in {FlagSlot(f) : f \in missing} |->
                        CpuReadFlag(CHOOSE f \in missing : FlagSlot(f) = s)]
         IN  Stored(base.cache @@ read)

BaseCondition(cond) ==
    LET canonical == CanonicalOf(cond)
        value == IF canonical \in DOMAIN base.cache THEN base.cache[canonical]
                 ELSE CpuReadCondition(canonical)
    IN  IF base.local THEN SourceCondition(base.source, cond)
        ELSE value = (cond = canonical)
BaseAfterCondition(cond) ==
    IF base.local \/ CanonicalOf(cond) \in DOMAIN base.cache THEN base
    ELSE Stored(base.cache @@ [s \in {CanonicalOf(cond)} |-> CpuReadCondition(s)])

(* The last position of updates that satisfies a test, or 0.               *)
LastWhere(us, test(_)) ==
    LET at == {i \in DOMAIN us : test(us[i])}
    IN  IF at = {} THEN 0 ELSE CHOOSE i \in at : \A j \in at : j <= i

(* A value, then each following update that supplies it.                   *)
Compose(value, following, supplies(_), changed(_)) ==
    FoldLeft(LAMBDA v, u : IF supplies(u) /\ (u.static \/ u.holds) THEN changed(u) ELSE v,
             value, following)

(* An unconditional definition cuts off the older history of a flag.       *)
Start(us, flag) == LastWhere(us, LAMBDA u : u.static /\ flag \in u.writes)
Inherited(us, needed) == {f \in needed : Start(us, f) = 0}
ResolveFlag(us, flag) ==
    LET start == Start(us, flag)
    IN  Compose(IF start = 0 THEN BaseFlag(flag) ELSE ChangeFlag(us[start], flag),
                SubSeq(us, start + 1, Len(us)),
                LAMBDA u : flag \in u.writes, LAMBDA u : ChangeFlag(u, flag))

Replacement(cond) ==
    LastWhere(updates, LAMBDA u : u.static /\ CoveringSource(u, ConditionFlags(cond)))
(* Mutant: a partial change before the replacement still counts.           *)
PartialChangeAnywhere(cond) ==
    LastWhere(updates, LAMBDA u : /\ u.writes \cap ConditionFlags(cond) # {}
                                  /\ ~CoveringSource(u, ConditionFlags(cond))
                                  /\ u.static)
PartialChange(cond) ==
    LET at == LastWhere(updates, LAMBDA u : /\ u.writes \cap ConditionFlags(cond) # {}
                                            /\ ~CoveringSource(u, ConditionFlags(cond)))
    IN  IF at > Replacement(cond) THEN at ELSE 0

(* A condition is answered by the newest change that settles it, so that   *)
(* a recipe can use its comparison; a partial change forces its flags.     *)
ReadCondition(cond) ==
    LET needed == ConditionFlags(cond)
        replacement == Replacement(cond)
        partial == PartialChange(cond)
        prefix == SubSeq(updates, 1, partial)
        first == IF partial # 0
                 THEN Evaluate(cond, [f \in needed |-> ResolveFlag(prefix, f)])
                 ELSE IF replacement # 0
                 THEN SourceCondition(updates[replacement].source, cond)
                 ELSE BaseCondition(cond)
        settled == IF partial # 0 THEN partial ELSE replacement
    IN  Compose(first, SubSeq(updates, settled + 1, Len(updates)),
                LAMBDA u : CoveringSource(u, needed),
                LAMBDA u : SourceCondition(u.source, cond))
BaseAfterRead(cond) ==
    LET partial == PartialChange(cond)
    IN  IF partial # 0
        THEN BaseAfterFlags(Inherited(SubSeq(updates, 1, partial), ConditionFlags(cond)))
        ELSE IF Replacement(cond) # 0 THEN base ELSE BaseAfterCondition(cond)

ReadDirect(flag) == IF flag \in DOMAIN direct THEN direct[flag] ELSE bytes[flag]
ReadFlag(flag) ==
    IF flag \in DirectFlags THEN ReadDirect(flag)
    ELSE IF flag = "AF" THEN ResolveFlag(updates, flag)
    ELSE ReadCondition(FlagSlot(flag))

-----------------------------------------------------------------------------
(* What the host reads from the stored state, computed by its own code.    *)

(* Mutant: a logical record's parity and zero test use both operands.      *)
HostStatusOfOperands ==
    LET bits == record.width
        result == (record.left - record.right) % 2^bits
    IN  [CF |-> record.left < record.right, PF |-> EvenParity(Byte, result),
         AF |-> FALSE, ZF |-> result = 0, SF |-> Bit(result, bits - 1), OF |-> FALSE]
HostStatus ==
    LET bits == record.width
        left == record.left % 2^bits
        right == record.right % 2^bits
        result == CASE record.kind = "Subtract" -> (left - right) % 2^bits
                    [] record.kind = "Add" -> (left + right) % 2^bits
                    [] OTHER -> left
    IN  [CF |-> CASE record.kind = "Subtract" -> left < right
                  [] record.kind = "Add" -> result < left
                  [] OTHER -> FALSE,
         PF |-> EvenParity(Byte, result),
         AF |-> record.kind # "Logic" /\ Bit((left ^^ right) ^^ result, Byte \div 2),
         ZF |-> result = 0,
         SF |-> Bit(result, bits - 1),
         OF |-> CASE record.kind = "Subtract" -> Bit((left ^^ right) & (left ^^ result), bits - 1)
                  [] record.kind = "Add" -> Bit((left ^^ result) & (right ^^ result), bits - 1)
                  [] OTHER -> FALSE]
HostFlags == [f \in AllFlags |-> IF record.kind # "Concrete" /\ f \in StatusFlags
                                 THEN HostStatus[f] ELSE bytes[f]]

-----------------------------------------------------------------------------
(* Steps.                                                                  *)

Init ==
    /\ bytes \in Images
    /\ record = [kind |-> "Concrete", width |-> Byte, left |-> 0, right |-> 0]
    /\ base = Fresh
    /\ updates = <<>>
    /\ direct = <<>>
    /\ exits = 0
    /\ eflags = bytes

InBlock == base # Fresh \/ updates # <<>> \/ direct # <<>>

(* A condition that folded to a literal is settled when it is built.       *)
Admitted(change) ==
    IF ~change.static /\ change.known THEN [change EXCEPT !.static = TRUE] ELSE change
NoChange(change) ==
    change.writes = {} \/ (~change.static /\ change.known /\ ~change.holds)

(* Mutant: a complete recipe replaces the base even under a condition.     *)
ReplacesBaseAlways(change) == change.status /\ change.writes = StatusFlags
ReplacesBase(change) == change.static /\ change.status /\ change.writes = StatusFlags

ApplyStatus(change) ==
    IF ReplacesBase(change)
    THEN base' = Local(change.source) /\ updates' = <<>>
    ELSE updates' = Append(updates, change) /\ UNCHANGED base

Apply(change) ==
    LET c == Admitted(change)
        status == Retaining(c, StatusFlags)
    IN  /\ Len(updates) < MaxUpdates
        /\ ~NoChange(change)
        /\ direct' = [f \in c.writes \cap DirectFlags |->
                        IF c.holds THEN ChangeFlag(c, f) ELSE ReadDirect(f)] @@ direct
        /\ IF status.writes = {} THEN UNCHANGED <<base, updates>> ELSE ApplyStatus(status)
        /\ eflags' = ApplyChange(change, eflags)
        /\ UNCHANGED <<record, bytes, exits>>

QueryCondition(cond) ==
    /\ base' = BaseAfterRead(cond)
    /\ UNCHANGED <<record, bytes, updates, direct, exits, eflags>>

QueryFlags(needed) ==
    /\ base' = BaseAfterFlags(Inherited(updates, needed))
    /\ UNCHANGED <<record, bytes, updates, direct, exits, eflags>>

(* Publication writes the payload a record needs and leaves the rest.      *)
Write(source) ==
    CASE source.kind \in {"Add", "Subtract"} ->
            /\ record' = [kind |-> source.kind, width |-> source.width,
                          left |-> source.left, right |-> source.right]
            /\ bytes' = direct @@ bytes
      [] source.kind = "Logic" ->
            /\ record' = [record EXCEPT !.kind = "Logic", !.width = source.width,
                                        !.left = source.result]
            /\ bytes' = direct @@ bytes
      [] source.kind = "Explicit" ->
            /\ record' = [record EXCEPT !.kind = "Concrete"]
            /\ bytes' = direct @@ source.flags @@ bytes

PublishBase ==
    IF base.local THEN Write(base.source)
    ELSE bytes' = direct @@ bytes /\ UNCHANGED record

PublishConcrete ==
    /\ record' = [record EXCEPT !.kind = "Concrete"]
    /\ bytes' = direct @@ [f \in StatusFlags |-> ResolveFlag(updates, f)] @@ bytes

(* The last active replacement owns the record, unless a newer partial     *)
(* change survives it.                                                     *)
NeedsConcrete ==
    FoldLeft(LAMBDA need, u : IF u.static \/ u.holds THEN ~CoveringSource(u, StatusFlags) ELSE need,
             FALSE, updates)
LastReplacement == LastWhere(updates, LAMBDA u : CoveringSource(u, StatusFlags) /\ u.holds)

Publish ==
    /\ InBlock
    /\ exits < MaxExits /\ exits' = exits + 1
    /\ IF NeedsConcrete THEN PublishConcrete
       ELSE IF LastReplacement # 0 THEN Write(updates[LastReplacement].source)
       ELSE PublishBase
    /\ base' = Fresh /\ updates' = <<>> /\ direct' = <<>>
    /\ UNCHANGED eflags

SetEflags(image) ==
    /\ ~InBlock
    /\ bytes' = image /\ eflags' = image
    /\ record' = [record EXCEPT !.kind = "Concrete"]
    /\ UNCHANGED <<base, updates, direct, exits>>

Next ==
    \/ \E change \in Changes : Apply(change)
    \/ \E cond \in Queries : QueryCondition(cond)
    \/ \E needed \in FlagReads : QueryFlags(needed)
    \/ Publish
    \/ \E image \in Images : SetEflags(image)

Spec == Init /\ [][Next]_vars

-----------------------------------------------------------------------------

TypeOK ==
    /\ record.kind \in {"Concrete", "Subtract", "Add", "Logic"}
    /\ record.width \in {Byte, Word, Dword}
    /\ bytes \in [AllFlags -> BOOLEAN]
    /\ base.local \/ DOMAIN base.cache \subseteq Slots
    /\ Len(updates) <= MaxUpdates
    /\ DOMAIN direct \subseteq DirectFlags
    /\ exits \in 0..MaxExits

(* The flags the stored record, the base and the changes stand for.        *)
Flags == [f \in AllFlags |-> IF f \in DirectFlags THEN ReadDirect(f) ELSE ResolveFlag(updates, f)]

(* Keeping recipes, conditions and partial changes, replacing the base and *)
(* publishing one record loses no flag: the lazy state stands for the      *)
(* register whose flags each change replaces when its condition holds, and *)
(* which the host replaces between two blocks (state/flags.rs:133,         *)
(* state/flags/publication.rs:27).                                         *)
FlagsAreKept == Flags = eflags

(* Every condition and flag that can be read, by a shortcut, a cache or a  *)
(* recipe, is the one the flags give (state/flags/queries.rs:107).         *)
ConditionsAgree ==
    /\ \A cond \in Conditions : ReadCondition(cond) = Evaluate(cond, eflags)
    /\ \A f \in AllFlags : ReadFlag(f) = eflags[f]

(* Between blocks the host, which resolves the record with code of its     *)
(* own, sees the flags of the guest (state/layout/flags.rs:81).            *)
HostAgrees == ~InBlock => HostFlags = eflags
=============================================================================
