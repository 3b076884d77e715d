------------------------------ MODULE Decoders ------------------------------
(***************************************************************************)
(* The two instruction decoders of crates/x86/src/decode.  Snapshot decodes *)
(* bytes a block compiler has copied; the runtime decoder is the generated  *)
(* interpreter: it fetches each byte when it needs it, specialised by how   *)
(* much it knows of its position.  One action is one read of the runtime    *)
(* decoder with what follows it up to the next read.                        *)
(*                                                                         *)
(* The guest's bytes are chosen as they are first read.  `avail` of them    *)
(* can be fetched, the next one faults.  A window (five bytes at the start, *)
(* a field later) may be unavailable although every byte of it can be       *)
(* fetched, when it crosses a page.                                         *)
(***************************************************************************)
EXTENDS Naturals, Sequences, SequencesExt, FiniteSets, Integers

-----------------------------------------------------------------------------
(* The instruction catalog and the prefix rules that both decoders share:  *)
(* crates/x86/src/instruction.  A form is an opcode (in one of two maps),   *)
(* a prefix rule, the fixed fields of its ModRM byte with the addressing    *)
(* modes it accepts, and the physical fields that follow.  What the form    *)
(* executes is left out: the decoders only bind fields to it.              *)
(*                                                                         *)
(* Each row of an instruction_families! table is one form, sixteen for a    *)
(* row that ends in +cc.  A ModRM byte is its three fields and a mask is    *)
(* the set of fields it fixes: every mask of the catalog is one of 00, 38,  *)
(* C0, F8 and FF, so it is a union of whole fields.                         *)

-----------------------------------------------------------------------------
(* Prefixes.                                                               *)

None == "none"

(* The prefix bytes and what each of them contributes. *)
Segments == [ES |-> \h26, CS |-> \h2E, SS |-> \h36, DS |-> \h3E, FS |-> \h64, GS |-> \h65]
Group1 == [F0 |-> \hF0, F2 |-> \hF2, F3 |-> \hF3]
OperandPrefix == \h66
AddressPrefix == \h67
PrefixBytes ==
    {OperandPrefix, AddressPrefix} \cup {Segments[s] : s \in DOMAIN Segments}
                                   \cup {Group1[g] : g \in DOMAIN Group1}

NewPrefixes(bits16) ==
    [bits16 |-> bits16, operand |-> FALSE, address |-> FALSE, group1 |-> None, segment |-> None]

(* Repeated size prefixes keep their presence; the last of a group wins. *)
WithPrefix(p, byte) ==
    CASE byte = OperandPrefix -> [p EXCEPT !.operand = TRUE]
      [] byte = AddressPrefix -> [p EXCEPT !.address = TRUE]
      [] \E g \in DOMAIN Group1 : Group1[g] = byte ->
             [p EXCEPT !.group1 = CHOOSE g \in DOMAIN Group1 : Group1[g] = byte]
      [] OTHER -> [p EXCEPT !.segment = CHOOSE s \in DOMAIN Segments : Segments[s] = byte]

OperandBytes(p) == IF p.bits16 # p.operand THEN 2 ELSE 4
AddressBytes(p) == IF p.bits16 # p.address THEN 2 ELSE 4

SameFormSelection(p, q) ==
    /\ OperandBytes(p) = OperandBytes(q)
    /\ AddressBytes(p) = AddressBytes(q)
    /\ p.group1 = q.group1

-----------------------------------------------------------------------------
(* ModRM bytes and their selectors.                                        *)

ModRm(byte) == [mod |-> byte \div 64, reg |-> (byte \div 8) % 8, rm |-> byte % 8]

(* What a table row says of its opcode: the map, the rule for prefixes and
   whether LOCK is accepted.                                               *)
Rule(map, prefix, lockable) == [map |-> map, prefix |-> prefix, lockable |-> lockable]
P == Rule("primary", "modifiers", FALSE)
Pl == Rule("primary", "modifiers", TRUE)
Pr2 == Rule("primary", "F2", FALSE)
Pr3 == Rule("primary", "F3", FALSE)
X == Rule("extended", "modifiers", FALSE)
Xl == Rule("extended", "modifiers", TRUE)
Xnp == Rule("extended", "NP", FALSE)
X66 == Rule("extended", "P66", FALSE)
Xf2 == Rule("extended", "PF2", FALSE)
Xf3 == Rule("extended", "PF3", FALSE)

(* The layouts the operands of a row ask for.  A register-only r/m operand
   fixes the mod field; a memory operand leaves it open but refuses 3.      *)
Layout(operands, mode, fixed) ==
    [operands |-> operands, mode |-> mode, fixed |-> fixed, imms |-> <<>>]
NoOperands == Layout("None", "none", {})
OpcodeReg == Layout("OpcodeRegister", "none", {})
Moffs == Layout("AbsoluteOffset", "none", {})
Rm == Layout("ModRm", "any", {})
RmRegister == Layout("ModRm", "register", {<<"mod", 3>>})
Mem == Layout("ModRm", "memory", {})
Imm(layout, widths) == [layout EXCEPT !.imms = widths]

Form(rule, layout, opcode, fixed) ==
    [map |-> rule.map, prefix |-> rule.prefix, lockable |-> rule.lockable,
     opcode |-> opcode, range |-> IF layout.operands = "OpcodeRegister" THEN 8 ELSE 1,
     operands |-> layout.operands, mode |-> layout.mode,
     fixed |-> layout.fixed \cup fixed, imms |-> layout.imms]

(* Rows by how they select ModRM: not at all, by /n, by a register range
   of eight bytes, and by a whole byte; and the sixteen opcodes of +cc.     *)
Ops(rule, layout, opcodes) ==
    [i \in 1..Len(opcodes) |-> Form(rule, layout, opcodes[i], {})]
Exts(rule, layout, opcode, exts) ==
    [i \in 1..Len(exts) |-> Form(rule, layout, opcode, {<<"reg", exts[i]>>})]
Ranges(rule, layout, opcode, firsts) ==
    [i \in 1..Len(firsts) |->
        LET b == ModRm(firsts[i])
        IN Form(rule, layout, opcode, {<<"mod", b.mod>>, <<"reg", b.reg>>})]
Bytes(rule, layout, opcode, bytes) ==
    [i \in 1..Len(bytes) |->
        LET b == ModRm(bytes[i])
        IN Form(rule, layout, opcode, {<<"mod", b.mod>>, <<"reg", b.reg>>, <<"rm", b.rm>>})]
Conditions(first) == [code \in 1..16 |-> first + code - 1]

-----------------------------------------------------------------------------
(* The tables, one definition for each file of instruction/definitions.
   Rows of a table that differ only in their opcode are written together.   *)

MovesForms ==
    Ops(P, Rm, <<\h88, \h89, \h8A, \h8B>>) \o Ops(P, Imm(OpcodeReg, <<"Byte">>), <<\hB0>>)
    \o Ops(P, Imm(OpcodeReg, <<"OperandSize">>), <<\hB8>>)
    \o Exts(P, Imm(Rm, <<"Byte">>), \hC6, <<0>>)
    \o Exts(P, Imm(Rm, <<"OperandSize">>), \hC7, <<0>>)
    \o Ops(P, Moffs, <<\hA0, \hA1, \hA2, \hA3>>) \o Ops(P, Mem, <<\h8D>>)
    \o Ops(Xnp, Mem, <<\hC3>>) \o Ops(P, NoOperands, <<\hD7>>)
SegmentsForms ==
    Ops(P, Rm, <<\h63>>) \o Ops(X, Rm, <<\h02, \h03>>) \o Exts(X, Rm, \h00, <<4, 5>>)
    \o Exts(P, Rm, \h8C, <<0, 1, 2, 3, 4, 5>>) \o Exts(P, Rm, \h8E, <<0, 2, 3, 4, 5>>)
    \o Ops(P, NoOperands, <<\h06, \h0E, \h16, \h1E, \h07, \h17, \h1F>>)
    \o Ops(X, NoOperands, <<\hA0, \hA8, \hA1, \hA9>>) \o Ops(P, Mem, <<\hC4, \hC5>>)
    \o Ops(X, Mem, <<\hB2, \hB4, \hB5>>)
ExtensionsForms ==
    Ops(X, Rm, <<\hB6, \hB7, \hBE, \hBF>>) \o Ops(P, NoOperands, <<\h98, \h99>>)
ExchangesForms ==
    Ops(Pl, Rm, <<\h86, \h87>>) \o Ops(P, OpcodeReg, <<\h90>>)
    \o Ops(Xl, Rm, <<\hC0, \hC1, \hB0, \hB1>>) \o Exts(Xl, Mem, \hC7, <<1>>)
NoOpsForms == Exts(X, Rm, \h1F, <<0>>) \o Ops(Pr3, NoOperands, <<\h90>>)
PortsForms ==
    Ops(P, Imm(NoOperands, <<"Byte">>), <<\hE4, \hE5, \hE6, \hE7>>)
    \o Ops(P, NoOperands, <<\hEC, \hED, \hEE, \hEF>>)
ProcessorForms == Ops(X, NoOperands, <<\hA2, \h31>>)
AluForms ==
    Ops(Pl, Rm, <<\h00, \h01, \h10, \h11, \h18, \h19, \h28, \h29, \h20, \h21, \h08,
        \h09, \h30, \h31>>)
    \o Ops(P, Rm, <<\h02, \h03, \h12, \h13, \h1A, \h1B, \h38, \h39, \h3A, \h3B, \h2A, \h2B,
        \h22, \h23, \h0A, \h0B, \h32, \h33, \h84, \h85>>)
    \o Ops(P, Imm(NoOperands, <<"Byte">>), <<\h04, \h14, \h1C, \h3C, \h2C, \h24, \h0C,
        \h34, \hA8>>)
    \o Ops(P, Imm(NoOperands, <<"OperandSize">>), <<\h05, \h15, \h1D, \h3D, \h2D, \h25,
        \h0D, \h35, \hA9>>)
    \o Exts(Pl, Imm(Rm, <<"Byte">>), \h80, <<0, 2, 3, 5, 4, 1, 6>>)
    \o Exts(Pl, Imm(Rm, <<"OperandSize">>), \h81, <<0, 2, 3, 5, 4, 1, 6>>)
    \o Exts(Pl, Imm(Rm, <<"SignedByte">>), \h83, <<0, 2, 3, 5, 4, 1, 6>>)
    \o Exts(P, Imm(Rm, <<"Byte">>), \h80, <<7>>) \o Exts(P, Imm(Rm, <<"Byte">>), \hF6, <<0>>)
    \o Exts(P, Imm(Rm, <<"OperandSize">>), \h81, <<7>>)
    \o Exts(P, Imm(Rm, <<"OperandSize">>), \hF7, <<0>>)
    \o Exts(P, Imm(Rm, <<"SignedByte">>), \h83, <<7>>) \o Ops(P, OpcodeReg, <<\h40, \h48>>)
    \o Exts(Pl, Rm, \hFE, <<0, 1>>) \o Exts(Pl, Rm, \hFF, <<0, 1>>)
    \o Exts(Pl, Rm, \hF6, <<2, 3>>) \o Exts(Pl, Rm, \hF7, <<2, 3>>)
    \o Ops(X, OpcodeReg, <<\hC8>>)
AdjustForms ==
    Ops(P, NoOperands, <<\h37, \h3F, \h27, \h2F>>)
    \o Ops(P, Imm(NoOperands, <<"Byte">>), <<\hD4, \hD5>>)
MultiplyForms ==
    Exts(P, Rm, \hF6, <<4, 5>>) \o Exts(P, Rm, \hF7, <<4, 5>>) \o Ops(X, Rm, <<\hAF>>)
    \o Ops(P, Imm(Rm, <<"OperandSize">>), <<\h69>>)
    \o Ops(P, Imm(Rm, <<"SignedByte">>), <<\h6B>>)
DivideForms == Exts(P, Rm, \hF6, <<6, 7>>) \o Exts(P, Rm, \hF7, <<6, 7>>)
ShiftsForms ==
    Exts(P, Rm, \hD0, <<0, 1, 2, 3, 4, 5, 7>>)
    \o Exts(P, Rm, \hD1, <<0, 1, 2, 3, 4, 5, 7>>)
    \o Exts(P, Rm, \hD2, <<0, 1, 2, 3, 4, 5, 7>>)
    \o Exts(P, Rm, \hD3, <<0, 1, 2, 3, 4, 5, 7>>)
    \o Exts(P, Imm(Rm, <<"Byte">>), \hC0, <<0, 1, 2, 3, 4, 5, 7>>)
    \o Exts(P, Imm(Rm, <<"Byte">>), \hC1, <<0, 1, 2, 3, 4, 5, 7>>)
    \o Ops(X, Imm(Rm, <<"Byte">>), <<\hA4, \hAC>>) \o Ops(X, Rm, <<\hA5, \hAD>>)
BitScansForms == Ops(X, Rm, <<\hBC, \hBD>>)
BitTestsForms ==
    Ops(X, Rm, <<\hA3>>) \o Exts(X, Imm(Rm, <<"Byte">>), \hBA, <<4>>)
    \o Ops(Xl, Rm, <<\hAB, \hB3, \hBB>>) \o Exts(Xl, Imm(Rm, <<"Byte">>), \hBA, <<5, 6, 7>>)
BoundsForms == Ops(P, Mem, <<\h62>>)
StackForms ==
    Ops(P, OpcodeReg, <<\h50, \h58>>)
    \o Ops(P, Imm(NoOperands, <<"OperandSize">>), <<\h68>>)
    \o Ops(P, Imm(NoOperands, <<"SignedByte">>), <<\h6A>>) \o Exts(P, Rm, \hFF, <<6>>)
    \o Exts(P, Rm, \h8F, <<0>>) \o Ops(P, NoOperands, <<\h60, \h61, \h9C, \h9D, \hC9>>)
    \o Ops(P, Imm(NoOperands, <<"Word", "Byte">>), <<\hC8>>)
StringsForms ==
    Ops(P, NoOperands, <<\h6C, \h6D, \h6E, \h6F, \hA4, \hA5, \hA6, \hA7, \hAA, \hAB,
        \hAC, \hAD, \hAE, \hAF>>)
    \o Ops(Pr3, NoOperands, <<\h6C, \h6D, \h6E, \h6F, \hA4, \hA5, \hA6, \hA7, \hAA, \hAB,
        \hAC, \hAD, \hAE, \hAF>>)
    \o Ops(Pr2, NoOperands, <<\hA6, \hA7, \hAE, \hAF>>)
UndefinedForms == Ops(X, NoOperands, <<\h0B>>)
ConditionsForms == Ops(X, Rm, Conditions(\h90)) \o Ops(X, Rm, Conditions(\h40))
FlagControlForms == Ops(P, NoOperands, <<\hF8, \hF9, \hF5, \hFA, \hFB, \hFC, \hFD>>)
FlagTransferForms == Ops(P, NoOperands, <<\h9F, \h9E>>)
BranchesForms ==
    Ops(P, Imm(NoOperands, <<"SignedByte">>), <<\hEB, \hE3, \hE2, \hE1, \hE0>>)
    \o Ops(P, Imm(NoOperands, <<"OperandSize">>), <<\hE9, \hE8>>)
    \o Ops(P, Imm(NoOperands, <<"SignedByte">>), Conditions(\h70))
    \o Ops(X, Imm(NoOperands, <<"OperandSize">>), Conditions(\h80))
    \o Exts(P, Rm, \hFF, <<2, 4>>) \o Ops(P, NoOperands, <<\hC3>>)
    \o Ops(P, Imm(NoOperands, <<"Word">>), <<\hC2>>)
FarControlForms ==
    Ops(P, Imm(NoOperands, <<"OperandSize", "Word">>), <<\hEA, \h9A>>)
    \o Exts(P, Mem, \hFF, <<5, 3>>) \o Ops(P, NoOperands, <<\hCB, \hCF>>)
    \o Ops(P, Imm(NoOperands, <<"Word">>), <<\hCA>>)
InterruptsForms ==
    Ops(P, Imm(NoOperands, <<"Byte">>), <<\hCD>>) \o Ops(P, NoOperands, <<\hCC, \hCE>>)
MemoryControlForms ==
    Ranges(Xnp, RmRegister, \hAE, <<\hE8, \hF0, \hF8>>)
    \o Exts(X, Mem, \h18, <<0, 1, 2, 3>>) \o Exts(Xnp, Mem, \hAE, <<7>>)
FxstateForms == Exts(Xnp, Mem, \hAE, <<0, 1>>)
X87ControlForms ==
    Bytes(P, RmRegister, \hD9, <<\hD0>>)
    \o Bytes(P, RmRegister, \hDB, <<\hE0, \hE1, \hE4, \hE3, \hE2>>)
    \o Bytes(P, RmRegister, \hDF, <<\hE0>>) \o Ops(P, NoOperands, <<\h9B>>)
    \o Exts(P, Mem, \hD9, <<5, 7>>) \o Exts(P, Mem, \hDD, <<7>>)
X87EnvironmentForms == Exts(P, Mem, \hD9, <<4, 6>>) \o Exts(P, Mem, \hDD, <<4, 6>>)
X87ArithmeticForms ==
    Exts(P, Mem, \hD8, <<0, 4, 5, 1, 6, 7>>) \o Exts(P, Mem, \hDC, <<0, 4, 5, 1, 6, 7>>)
    \o Exts(P, Mem, \hDE, <<0, 1, 4, 5, 6, 7>>) \o Exts(P, Mem, \hDA, <<0, 1, 4, 5, 6, 7>>)
    \o Ranges(P, RmRegister, \hD8, <<\hC0, \hE0, \hE8, \hC8, \hF0, \hF8>>)
    \o Ranges(P, RmRegister, \hDC, <<\hC0, \hE8, \hE0, \hC8, \hF8, \hF0>>)
    \o Ranges(P, RmRegister, \hDE, <<\hC0, \hE8, \hE0, \hC8, \hF8, \hF0>>)
X87ArctangentForms == Bytes(P, RmRegister, \hD9, <<\hF3>>)
X87CompareForms ==
    Ranges(P, RmRegister, \hD8, <<\hD0, \hD8>>)
    \o Ranges(P, RmRegister, \hDD, <<\hE0, \hE8>>)
    \o Ranges(P, RmRegister, \hDB, <<\hF0, \hE8>>)
    \o Ranges(P, RmRegister, \hDF, <<\hF0, \hE8>>) \o Bytes(P, RmRegister, \hDE, <<\hD9>>)
    \o Bytes(P, RmRegister, \hDA, <<\hE9>>) \o Bytes(P, RmRegister, \hD9, <<\hE4>>)
    \o Exts(P, Mem, \hD8, <<2, 3>>) \o Exts(P, Mem, \hDC, <<2, 3>>)
    \o Exts(P, Mem, \hDE, <<2, 3>>) \o Exts(P, Mem, \hDA, <<2, 3>>)
X87ConditionalMoveForms ==
    Ranges(P, RmRegister, \hDA, <<\hC0, \hC8, \hD0, \hD8>>)
    \o Ranges(P, RmRegister, \hDB, <<\hC0, \hC8, \hD0, \hD8>>)
X87ExamineForms == Bytes(P, RmRegister, \hD9, <<\hE5>>)
X87ExponentialForms == Bytes(P, RmRegister, \hD9, <<\hF0>>)
X87ExtractForms == Bytes(P, RmRegister, \hD9, <<\hF4>>)
X87SqrtForms == Bytes(P, RmRegister, \hD9, <<\hFA>>)
X87IntegralForms == Bytes(P, RmRegister, \hD9, <<\hFC>>)
X87StackForms ==
    Ranges(P, RmRegister, \hD9, <<\hC8>>) \o Ranges(P, RmRegister, \hDD, <<\hC0>>)
    \o Bytes(P, RmRegister, \hD9, <<\hF7, \hF6>>)
X87LoadForms ==
    Bytes(P, RmRegister, \hD9, <<\hE8, \hE9, \hEA, \hEB, \hEC, \hED, \hEE>>)
    \o Exts(P, Mem, \hD9, <<0>>) \o Exts(P, Mem, \hDD, <<0>>) \o Exts(P, Mem, \hDB, <<5, 0>>)
    \o Exts(P, Mem, \hDF, <<0, 5, 4>>) \o Ranges(P, RmRegister, \hD9, <<\hC0>>)
X87LogarithmForms == Bytes(P, RmRegister, \hD9, <<\hF1, \hF9>>)
X87RemainderForms == Bytes(P, RmRegister, \hD9, <<\hF8, \hF5>>)
X87ScaleForms == Bytes(P, RmRegister, \hD9, <<\hFD>>)
X87SignForms == Bytes(P, RmRegister, \hD9, <<\hE0, \hE1>>)
X87StoreForms ==
    Exts(P, Mem, \hD9, <<2, 3>>) \o Exts(P, Mem, \hDD, <<2, 3>>)
    \o Exts(P, Mem, \hDB, <<7, 2, 3>>) \o Exts(P, Mem, \hDF, <<2, 3, 7, 6>>)
    \o Ranges(P, RmRegister, \hDD, <<\hD0, \hD8>>)
X87TrigonometricForms == Bytes(P, RmRegister, \hD9, <<\hFE, \hFF, \hF2, \hFB>>)
MmxBinaryForms ==
    Ops(Xnp, Rm, <<\hEC, \hED, \hDC, \hDD, \hE8, \hE9, \hD8, \hD9, \h74, \h75, \h76,
        \h64, \h65, \h66, \hFC, \hFD, \hFE, \hD4, \hF8, \hF9, \hFA, \hFB, \hDB, \hDF, \hEB,
        \hEF>>)
MmxAverageForms == Ops(Xnp, Rm, <<\hE0, \hE3>>)
MmxControlForms == Ops(Xnp, NoOperands, <<\h77>>)
MmxMasksForms == Ops(Xnp, RmRegister, <<\hD7>>)
MmxMinmaxForms == Ops(Xnp, Rm, <<\hDA, \hDE, \hEA, \hEE>>)
MmxMovesForms ==
    Ops(Xnp, Rm, <<\h6E, \h7E, \h6F, \h7F>>) \o Ops(Xf3, RmRegister, <<\hD6>>)
    \o Ops(Xf2, RmRegister, <<\hD6>>) \o Ops(Xnp, Mem, <<\hE7>>)
    \o Ops(Xnp, RmRegister, <<\hF7>>)
MmxMultiplyForms == Ops(Xnp, Rm, <<\hD5, \hE5, \hE4, \hF4, \hF5>>)
MmxShiftsForms ==
    Ops(Xnp, Rm, <<\hF1, \hF2, \hF3, \hD1, \hD2, \hD3, \hE1, \hE2>>)
    \o Exts(Xnp, Imm(RmRegister, <<"Byte">>), \h71, <<6, 2, 4>>)
    \o Exts(Xnp, Imm(RmRegister, <<"Byte">>), \h72, <<6, 2, 4>>)
    \o Exts(Xnp, Imm(RmRegister, <<"Byte">>), \h73, <<6, 2>>)
MmxSumDifferencesForms == Ops(Xnp, Rm, <<\hF6>>)
MmxShuffleForms == Ops(Xnp, Imm(Rm, <<"Byte">>), <<\h70>>)
MmxPackForms == Ops(Xnp, Rm, <<\h63, \h6B, \h67>>)
MmxUnpackForms == Ops(Xnp, Rm, <<\h60, \h61, \h62, \h68, \h69, \h6A>>)
MmxWordsForms ==
    Ops(Xnp, Imm(Rm, <<"Byte">>), <<\hC4>>)
    \o Ops(Xnp, Imm(RmRegister, <<"Byte">>), <<\hC5>>)
SseArithmeticForms == Ops(X66, Rm, <<\hFC, \hFD, \hFE, \hD4, \hF8, \hF9, \hFA, \hFB>>)
SseComparisonsForms == Ops(X66, Rm, <<\h74, \h75, \h76, \h64, \h65, \h66>>)
SseConvertFloatWidthForms ==
    Ops(Xf3, Rm, <<\h5A>>) \o Ops(Xf2, Rm, <<\h5A>>) \o Ops(Xnp, Rm, <<\h5A>>)
    \o Ops(X66, Rm, <<\h5A>>)
SseConvertFromIntegerForms ==
    Ops(Xf3, Rm, <<\h2A, \hE6>>) \o Ops(Xf2, Rm, <<\h2A>>) \o Ops(Xnp, Rm, <<\h5B>>)
SseConvertMmxForms ==
    Ops(Xnp, Rm, <<\h2A, \h2D, \h2C>>) \o Ops(X66, Rm, <<\h2A, \h2D, \h2C>>)
SseConvertPackedIntegerForms ==
    Ops(X66, Rm, <<\h5B, \hE6>>) \o Ops(Xf2, Rm, <<\hE6>>) \o Ops(Xf3, Rm, <<\h5B>>)
SseConvertScalarIntegerForms ==
    Ops(Xf3, Rm, <<\h2D, \h2C>>) \o Ops(Xf2, Rm, <<\h2D, \h2C>>)
SseFloatAddForms ==
    Ops(Xf3, Rm, <<\h58, \h5C>>) \o Ops(Xf2, Rm, <<\h58, \h5C>>)
    \o Ops(Xnp, Rm, <<\h58, \h5C>>) \o Ops(X66, Rm, <<\h58, \h5C>>)
SseFloatCompareForms ==
    Ops(Xnp, Rm, <<\h2F, \h2E>>) \o Ops(X66, Rm, <<\h2F, \h2E>>)
    \o Ops(Xf3, Imm(Rm, <<"Byte">>), <<\hC2>>) \o Ops(Xf2, Imm(Rm, <<"Byte">>), <<\hC2>>)
    \o Ops(Xnp, Imm(Rm, <<"Byte">>), <<\hC2>>) \o Ops(X66, Imm(Rm, <<"Byte">>), <<\hC2>>)
SseFloatDivideForms ==
    Ops(Xf3, Rm, <<\h5E>>) \o Ops(Xf2, Rm, <<\h5E>>) \o Ops(Xnp, Rm, <<\h5E>>)
    \o Ops(X66, Rm, <<\h5E>>)
SseFloatMinmaxForms ==
    Ops(Xf3, Rm, <<\h5D, \h5F>>) \o Ops(Xf2, Rm, <<\h5D, \h5F>>)
    \o Ops(Xnp, Rm, <<\h5D, \h5F>>) \o Ops(X66, Rm, <<\h5D, \h5F>>)
SseFloatMultiplyForms ==
    Ops(Xf3, Rm, <<\h59>>) \o Ops(Xf2, Rm, <<\h59>>) \o Ops(Xnp, Rm, <<\h59>>)
    \o Ops(X66, Rm, <<\h59>>)
SseFloatReciprocalForms == Ops(Xf3, Rm, <<\h53, \h52>>) \o Ops(Xnp, Rm, <<\h53, \h52>>)
SseFloatSqrtForms ==
    Ops(Xf3, Rm, <<\h51>>) \o Ops(Xf2, Rm, <<\h51>>) \o Ops(Xnp, Rm, <<\h51>>)
    \o Ops(X66, Rm, <<\h51>>)
SseMovesForms ==
    Ops(X66, Rm, <<\h6E, \h7E, \hD6, \h10, \h11, \h28, \h29, \h6F, \h7F>>)
    \o Ops(Xf3, Rm, <<\h7E, \h6F, \h7F, \h10, \h11>>)
    \o Ops(Xnp, Rm, <<\h10, \h11, \h28, \h29>>) \o Ops(Xf2, Rm, <<\h10, \h11>>)
    \o Ops(Xnp, Mem, <<\h2B>>) \o Ops(X66, Mem, <<\h2B, \hE7>>)
    \o Ops(X66, RmRegister, <<\hF7>>)
SseAverageForms == Ops(X66, Rm, <<\hE0, \hE3>>)
SseMinmaxForms == Ops(X66, Rm, <<\hDA, \hDE, \hEA, \hEE>>)
SseMultiplyForms == Ops(X66, Rm, <<\hD5, \hE5, \hE4, \hF4, \hF5>>)
SseHalfMovesForms ==
    Ops(Xnp, Mem, <<\h12, \h13, \h16, \h17>>) \o Ops(X66, Mem, <<\h12, \h13, \h16, \h17>>)
    \o Ops(Xnp, RmRegister, <<\h12, \h16>>)
SseLogicalForms ==
    Ops(Xnp, Rm, <<\h54, \h55, \h56, \h57>>)
    \o Ops(X66, Rm, <<\h54, \h55, \h56, \h57, \hDB, \hDF, \hEB, \hEF>>)
SseMasksForms == Ops(X66, RmRegister, <<\hD7, \h50>>) \o Ops(Xnp, RmRegister, <<\h50>>)
SseMxcsrForms == Exts(Xnp, Mem, \hAE, <<2, 3>>)
SsePackForms == Ops(X66, Rm, <<\h63, \h6B, \h67>>)
SseSaturationForms == Ops(X66, Rm, <<\hEC, \hED, \hDC, \hDD, \hE8, \hE9, \hD8, \hD9>>)
SseShiftsForms ==
    Exts(X66, Imm(RmRegister, <<"Byte">>), \h73, <<7, 3, 6, 2>>)
    \o Exts(X66, Imm(RmRegister, <<"Byte">>), \h71, <<6, 2, 4>>)
    \o Exts(X66, Imm(RmRegister, <<"Byte">>), \h72, <<6, 2, 4>>)
    \o Ops(X66, Rm, <<\hF1, \hF2, \hF3, \hD1, \hD2, \hD3, \hE1, \hE2>>)
SseSumDifferencesForms == Ops(X66, Rm, <<\hF6>>)
SseShuffleForms ==
    Ops(Xnp, Imm(Rm, <<"Byte">>), <<\hC6>>)
    \o Ops(X66, Imm(Rm, <<"Byte">>), <<\hC6, \h70>>)
    \o Ops(Xf2, Imm(Rm, <<"Byte">>), <<\h70>>) \o Ops(Xf3, Imm(Rm, <<"Byte">>), <<\h70>>)
SseUnpackForms ==
    Ops(Xnp, Rm, <<\h14, \h15>>)
    \o Ops(X66, Rm, <<\h14, \h15, \h60, \h61, \h62, \h6C, \h68, \h69, \h6A, \h6D>>)
SseWordsForms ==
    Ops(X66, Imm(Rm, <<"Byte">>), <<\hC4>>)
    \o Ops(X66, Imm(RmRegister, <<"Byte">>), <<\hC5>>)

(* All the forms, in the order in which the tables are chained. *)
Catalog ==
    FlattenSeq(<<MovesForms, SegmentsForms, ExtensionsForms, ExchangesForms, NoOpsForms, PortsForms,
        ProcessorForms, AluForms, AdjustForms, MultiplyForms, DivideForms,
        ShiftsForms, BitScansForms, BitTestsForms, BoundsForms, StackForms,
        StringsForms, UndefinedForms, ConditionsForms, FlagControlForms,
        FlagTransferForms, BranchesForms, FarControlForms, InterruptsForms,
        MemoryControlForms, FxstateForms, X87ControlForms, X87EnvironmentForms,
        X87ArithmeticForms, X87ArctangentForms, X87CompareForms,
        X87ConditionalMoveForms, X87ExamineForms, X87ExponentialForms,
        X87ExtractForms, X87SqrtForms, X87IntegralForms, X87StackForms,
        X87LoadForms, X87LogarithmForms, X87RemainderForms, X87ScaleForms,
        X87SignForms, X87StoreForms, X87TrigonometricForms, MmxBinaryForms,
        MmxAverageForms, MmxControlForms, MmxMasksForms, MmxMinmaxForms,
        MmxMovesForms, MmxMultiplyForms, MmxShiftsForms, MmxSumDifferencesForms,
        MmxShuffleForms, MmxPackForms, MmxUnpackForms, MmxWordsForms,
        SseArithmeticForms, SseComparisonsForms, SseConvertFloatWidthForms,
        SseConvertFromIntegerForms, SseConvertMmxForms,
        SseConvertPackedIntegerForms, SseConvertScalarIntegerForms,
        SseFloatAddForms, SseFloatCompareForms, SseFloatDivideForms,
        SseFloatMinmaxForms, SseFloatMultiplyForms, SseFloatReciprocalForms,
        SseFloatSqrtForms, SseMovesForms, SseAverageForms, SseMinmaxForms,
        SseMultiplyForms, SseHalfMovesForms, SseLogicalForms, SseMasksForms,
        SseMxcsrForms, SsePackForms, SseSaturationForms, SseShiftsForms,
        SseSumDifferencesForms, SseShuffleForms, SseUnpackForms, SseWordsForms>>)

-----------------------------------------------------------------------------
(* Selection.                                                              *)

(* Whether a form takes a prefix state.  LOCK is a matter of the row alone,
   the other group-1 prefixes must be the ones the row names.               *)
Resolves(form, p) ==
    CASE form.prefix = "modifiers" ->
             IF p.group1 = "F0" THEN form.lockable ELSE p.group1 = None
      [] form.prefix \in {"F2", "F3"} -> p.group1 = form.prefix
      [] form.prefix = "NP" -> ~p.operand /\ p.group1 = None
      [] form.prefix = "P66" -> p.operand /\ p.group1 = None
      [] form.prefix = "PF2" -> ~p.operand /\ p.group1 = "F2"
      [] form.prefix = "PF3" -> ~p.operand /\ p.group1 = "F3"

MatchesOpcode(form, opcode) == opcode \in form.opcode .. form.opcode + form.range - 1

HasModRm(form) == form.operands = "ModRm"
AcceptsMemory(form) == HasModRm(form) /\ form.mode # "register"
AcceptsRegister(form, p) == HasModRm(form) /\ form.mode # "memory" /\ p.group1 # "F0"

FieldsMatch(form, modrm, fields) ==
    \A f \in form.fixed : f[1] \in fields => modrm[f[1]] = f[2]
Fields == {"mod", "reg", "rm"}
Mask(form) == {f[1] : f \in form.fixed}

MatchesModRm(form, modrm, p) ==
    /\ FieldsMatch(form, modrm, Fields)
    /\ IF modrm.mod = 3 THEN AcceptsRegister(form, p) ELSE AcceptsMemory(form)

(* The catalog by map and opcode, so that a selection looks at few forms. *)
FormsAt ==
    [map \in {"primary", "extended"} |-> [opcode \in 0..255 |->
        SelectSeq(Catalog, LAMBDA f : f.map = map /\ MatchesOpcode(f, opcode))]]

(* The forms of a prefix state at an opcode. *)
StateForms(p, map, opcode) == SelectSeq(FormsAt[map][opcode], LAMBDA f : Resolves(f, p))

(* Whether a map has any form, or any with a ModRM byte, for a prefix state:
   what it depends on is tabulated.                                         *)
Groups == {None} \cup DOMAIN Group1
Populated ==
    [map \in {"primary", "extended"} |-> [operand \in BOOLEAN |-> [group1 \in Groups |->
        {HasModRm(f) : f \in {f \in ToSet(Catalog) :
            f.map = map /\ Resolves(f, [operand |-> operand, group1 |-> group1])}}]]]
AnyForm(p, map) == Populated[map][p.operand][p.group1] # {}
AnyModRmForm(p, map) == TRUE \in Populated[map][p.operand][p.group1]

(* An opcode nobody takes is reported by the group-1 prefix before it, by
   the escape of the extended map, or by itself.                            *)
ExtendedEscape == \h0F
Reported(p, map, opcode) ==
    IF p.group1 # None THEN Group1[p.group1]
    ELSE IF map = "extended" THEN ExtendedEscape ELSE opcode

-----------------------------------------------------------------------------
CONSTANT Scenes     \* [name -> [leads, opcodes, selectors, modrms, escapes,
                    \*          sibs, limits, sizes]], escapes being the ModRM bytes of x87

VARIABLES
    guest,      \* the code segment: its size, how many bytes can be fetched, and
                \* the scene and leading prefixes the bytes are taken from
    code,       \* the bytes read so far
    d           \* the runtime decoder

vars == <<guest, code, d>>

MaxInstructionBytes == 15
DirectFetchBytes == 5
Consumed(point) == [opcode |-> 1, primary |-> 2, extended |-> 3][point]

-----------------------------------------------------------------------------
(* Fields shared by both decoders.                                         *)

FieldBytes(width, p) ==
    [Byte |-> 1, SignedByte |-> 1, Word |-> 2, OperandSize |-> OperandBytes(p)][width]

(* A field as four bytes, low first. *)
Extend(bytes, signed) ==
    LET fill == IF signed /\ Last(bytes) >= 128 THEN 255 ELSE 0
    IN [i \in 1..4 |-> IF i <= Len(bytes) THEN bytes[i] ELSE fill]
NoDisplacement == <<0, 0, 0, 0>>

BX == 3
SP == 4
BP == 5
SI == 6
DI == 7
NoRegister == 8
Bases == <<BX, BX, BP, BP, SI, DI, BP, BX>>
Indices == <<SI, DI, SI, DI, NoRegister, NoRegister, NoRegister, NoRegister>>

(* Addresses: BP and SP select SS only as an encoded base. *)
Address(base, index, shift, displacement) ==
    [base |-> base, index |-> index, shift |-> shift, displacement |-> displacement,
     segment |-> IF base \in {SP, BP} THEN "SS" ELSE "DS"]

Register(number) == [register |-> number]
NoOperand == [none |-> TRUE]
NoFields ==
    [modrm |-> -1, register |-> -1, rm |-> NoOperand, offset |-> NoOperand, imms |-> <<>>]

Absolute(bytes) == Address(NoRegister, NoRegister, 0, Extend(bytes, FALSE))

(* What a form makes of its fields: the segment of a memory operand is the
   override when there is one.                                             *)
Override(p, address) ==
    IF p.segment = None THEN address ELSE [address EXCEPT !.segment = p.segment]
Bind(form, p, fields, length) ==
    [at |-> "decoded", form |-> form, operand |-> OperandBytes(p), address |-> AddressBytes(p),
     override |-> p.segment, locked |-> p.group1 = "F0", length |-> length,
     fields |->
         [fields EXCEPT
             !.rm = IF "segment" \in DOMAIN @ THEN Override(p, @) ELSE @,
             !.offset = IF "segment" \in DOMAIN @ THEN Override(p, @) ELSE @]]

Unsupported(opcode) == [at |-> "unsupported", opcode |-> opcode]
TooLong == [at |-> "too long"]
Fault(offset) == [at |-> "fault", offset |-> offset]

-----------------------------------------------------------------------------
(* The snapshot decoder, over the first n of the bytes b[0], b[1], ...      *)

Stopped(n) == IF n >= MaxInstructionBytes THEN TooLong ELSE Fault(n)
Fits(end, n) == end <= n /\ end <= MaxInstructionBytes
Slice(b, from, width) == [i \in 1..width |-> b[from + i - 1]]

(* The displacement a memory operand asks for: its first byte, its width
   and the address.                                                        *)
SnapshotAddress(b, at, modrm, bytes) ==
    LET sib == bytes = 4 /\ modrm.rm = 4
        s == ModRm(b[at])
        base == IF sib THEN s.rm ELSE modrm.rm
        noBase == modrm.mod = 0 /\ base = IF bytes = 2 THEN 6 ELSE 5
        first == IF sib THEN at + 1 ELSE at
        width == IF modrm.mod = 2 \/ noBase THEN bytes ELSE IF modrm.mod = 1 THEN 1 ELSE 0
        value == IF width = 0 THEN NoDisplacement
                 ELSE Extend(Slice(b, first, width), modrm.mod = 1)
    IN [end |-> first + width,
        address |->
            IF bytes = 2
            THEN Address(IF noBase THEN NoRegister ELSE Bases[base + 1],
                         Indices[base + 1], 0, value)
            ELSE Address(IF noBase THEN NoRegister ELSE base,
                         IF sib /\ s.reg # 4 THEN s.reg ELSE NoRegister,
                         IF sib /\ s.reg # 4 THEN s.mod ELSE 0, value)]

(* Immediates follow the operand fields in the order of the form. *)
SnapshotImmediates(b, at, form, p) ==
    FoldLeft(LAMBDA acc, width :
                 LET bytes == FieldBytes(width, p)
                 IN [end |-> acc.end + bytes,
                     imms |-> Append(acc.imms, Extend(Slice(b, acc.end, bytes),
                                                      width = "SignedByte"))],
             [end |-> at, imms |-> <<>>], form.imms)

SnapshotFields(b, n, form, p, opcode, at) ==
    LET modrm == ModRm(b[at])
        memory == HasModRm(form) /\ modrm.mod # 3
        operand == SnapshotAddress(b, at + 1, modrm, AddressBytes(p))
        end == IF memory THEN operand.end
               ELSE IF HasModRm(form) THEN at + 1
               ELSE IF form.operands = "AbsoluteOffset" THEN at + AddressBytes(p) ELSE at
        imm == SnapshotImmediates(b, end, form, p)
        fields ==
            [modrm |-> IF HasModRm(form) THEN b[at] ELSE -1,
             register |-> IF HasModRm(form) THEN modrm.reg
                          ELSE IF form.operands = "OpcodeRegister" THEN opcode % 8 ELSE -1,
             rm |-> IF memory THEN operand.address
                    ELSE IF HasModRm(form) THEN Register(modrm.rm) ELSE NoOperand,
             offset |-> IF form.operands = "AbsoluteOffset"
                        THEN Absolute(Slice(b, at, AddressBytes(p))) ELSE NoOperand,
             imms |-> imm.imms]
    IN IF Fits(imm.end, n) THEN Bind(form, p, fields, imm.end) ELSE Stopped(n)

(* The form is the first of the candidates that the ModRM byte matches. *)
SnapshotForm(b, n, p, map, at) ==
    LET opcode == b[at - 1]
        candidates == StateForms(p, map, opcode)
        matching == SelectSeq(candidates, LAMBDA f : MatchesModRm(f, ModRm(b[at]), p))
    IN CASE candidates = <<>> -> Unsupported(Reported(p, map, opcode))
         [] candidates # <<>> /\ ~HasModRm(candidates[1]) ->
                SnapshotFields(b, n, candidates[1], p, opcode, at)
         [] candidates # <<>> /\ HasModRm(candidates[1]) /\ ~Fits(at + 1, n) -> Stopped(n)
         [] OTHER -> IF matching = <<>> THEN Unsupported(Reported(p, map, opcode))
                     ELSE SnapshotFields(b, n, matching[1], p, opcode, at)

Snapshot(b, n, bits16) ==
    LET readable == IF n < MaxInstructionBytes THEN n ELSE MaxInstructionBytes
        start == CHOOSE i \in 0..readable :
                     /\ \A j \in 0..i - 1 : b[j] \in PrefixBytes
                     /\ i = readable \/ b[i] \notin PrefixBytes
        p == FoldLeft(WithPrefix, NewPrefixes(bits16), Slice(b, 0, start))
    IN IF start = readable THEN Stopped(n)
       ELSE IF b[start] # ExtendedEscape THEN SnapshotForm(b, n, p, "primary", start + 1)
       ELSE IF ~AnyForm(p, "extended") THEN Unsupported(Reported(p, "primary", ExtendedEscape))
       ELSE IF ~Fits(start + 2, n) THEN Stopped(n)
       ELSE SnapshotForm(b, n, p, "extended", start + 2)

-----------------------------------------------------------------------------
(* The runtime cursor.  `fixed` is the offset when every path to this point *)
(* consumed the same bytes, `maximum` bounds it otherwise, and a window     *)
(* proves its first bytes.                                                  *)

Unfixed == -1
NewCursor(consumed, window) ==
    [offset |-> consumed, maximum |-> consumed, fixed |-> consumed, window |-> window]
ResumeCursor(consumed) ==
    [offset |-> consumed, maximum |-> MaxInstructionBytes, fixed |-> Unfixed, window |-> FALSE]
Advance(c, bytes) ==
    [c EXCEPT !.offset = @ + bytes, !.maximum = @ + bytes,
              !.fixed = IF @ = Unfixed THEN @ ELSE @ + bytes]

Covers(c, bytes) == c.window /\ c.maximum + bytes <= DirectFetchBytes
(* Where a window is read: at the fixed offset when there is one. *)
WindowOffset(c) == IF c.fixed = Unfixed THEN c.offset ELSE c.fixed

(* How the read of one byte fails, if it does.  The length is only checked
   where the bound allows a violation, and before the fetch; a window read
   is good only within what the window proves.                              *)
Proven(c, k) == WindowOffset(c) = c.offset /\ c.offset + k <= DirectFetchBytes
Unproven == [at |-> "unproven"]
ByteStops(c, n) ==
    CASE c.maximum >= MaxInstructionBytes /\ c.offset >= MaxInstructionBytes -> {TooLong}
      [] Covers(c, 1) -> IF Proven(c, 1) THEN {} ELSE {Unproven}
      [] OTHER -> IF c.offset >= n THEN {Fault(c.offset)} ELSE {}

(* How the read of a field of k bytes fails: it is one window read, one load
   where the field can be loaded directly, or as many byte reads.           *)
ByteWise(c, k, direct) ==
    \/ ~direct
    \/ c.maximum + k > MaxInstructionBytes /\ c.offset >= MaxInstructionBytes - k + 1
FieldStops(c, k, direct, n) ==
    CASE Covers(c, k) -> IF Proven(c, k) THEN {} ELSE {Unproven}
      [] ~Covers(c, k) /\ k > 1 /\ ~ByteWise(c, k, direct) -> {}
      [] OTHER -> LET failing == {i \in 0..k - 1 : ByteStops(Advance(c, i), n) # {}}
                  IN IF failing = {} THEN {} ELSE ByteStops(Advance(c, Min(failing)), n)

(* After a displacement the offset differs by path; the bound grows by the
   widest of them.                                                         *)
(* Mutant: the bound does not grow. *)
AfterDisplacementUnbounded(c, taken, width) ==
    [c EXCEPT !.offset = @ + taken, !.fixed = Unfixed]
AfterDisplacement(c, taken, width) ==
    [c EXCEPT !.offset = @ + taken, !.maximum = @ + width, !.fixed = Unfixed]

-----------------------------------------------------------------------------
(* Decoder entries.                                                        *)

(* The prefix states that have a resumed entry at a point. *)
Accepts(point, p) ==
    IF point = "opcode" THEN AnyForm(p, "primary") ELSE AnyModRmForm(p, point)
HasEntry(point, p) ==
    /\ Accepts(point, p)
    /\ p.segment # None \/ ~SameFormSelection(p, NewPrefixes(p.bits16))

(* What an entry starts from: one that is entered with the offset of its
   fields has the prefixes of a plain instruction, one that is resumed has
   its own prefixes and goes on from the consumed count.                    *)
EnterFixed(point, window, p, next) ==
    [next EXCEPT !.cursor = NewCursor(Consumed(point), window),
                 !.prefixes = NewPrefixes(p.bits16), !.cycle = window]
EnterResumed(c, p, next) ==
    [next EXCEPT !.cursor = ResumeCursor(c.offset), !.prefixes = p, !.cycle = FALSE]

(* Only the opcode entries have one that takes a window. *)
TailCall(point, c, p, next) ==
    IF c.fixed = Consumed(point)
    THEN IF c.window /\ point # "opcode" THEN [at |-> "panic"]
         ELSE EnterFixed(point, c.window, p, next)
    ELSE IF HasEntry(point, p) THEN EnterResumed(c, p, next) ELSE [at |-> "panic"]

(* Which form a ModRM byte leads to: the generated tests, followed along
   the path of this byte.  `tested` are the fields already compared.        *)
NoForm == <<>>
Sharing(modrm, mask) ==
    [mod : IF "mod" \in mask THEN {modrm.mod} ELSE 0..3,
     reg : IF "reg" \in mask THEN {modrm.reg} ELSE 0..7,
     rm : IF "rm" \in mask THEN {modrm.rm} ELSE 0..7]
RECURSIVE Dispatch(_, _, _, _)
Dispatch(forms, modrm, p, tested) ==
    IF Len(forms) = 1
    THEN IF FieldsMatch(forms[1], modrm, Fields \ tested) THEN forms ELSE NoForm
    ELSE LET masks == {Mask(forms[i]) : i \in DOMAIN forms}
             common == {f \in Fields : \A m \in masks : f \in m} \ tested
             disjoint == \A i \in DOMAIN forms :
                             AcceptsMemory(forms[i]) # AcceptsRegister(forms[i], p)
             registers == SelectSeq(forms, LAMBDA f : AcceptsRegister(f, p))
             memories == SelectSeq(forms, LAMBDA f : ~AcceptsRegister(f, p))
             mask == IF common # {} THEN common ELSE UNION masks \ tested
             chosen == SelectSeq(forms, LAMBDA f :
                           \E m \in Sharing(modrm, mask) : MatchesModRm(f, m, p))
         IN IF common = {} /\ disjoint /\ registers # <<>> /\ memories # <<>>
            THEN IF modrm.mod = 3 THEN Dispatch(registers, modrm, p, tested \cup {"mod"})
                 ELSE Dispatch(memories, modrm, p, tested)
            ELSE IF chosen = <<>> THEN NoForm
            ELSE Dispatch(chosen, modrm, p, tested \cup mask)

(* The forms a memory handler chooses from, by index. *)
MemoryForms(p, map, opcode) ==
    SelectSeq(StateForms(p, map, opcode), LAMBDA f : AcceptsMemory(f))

-----------------------------------------------------------------------------
(* The runtime decoder.                                                    *)

(* Bytes that only carry data are given by their place; both signs occur. *)
Scene == Scenes[guest.scene]
Data(offset) == offset + 128 * (offset % 2)
Byte(offset) == IF offset < Len(code) THEN code[offset + 1] ELSE Data(offset)

Init ==
    /\ \E s \in DOMAIN Scenes :
           \E lead \in Scenes[s].leads, n \in Scenes[s].limits, bits16 \in Scenes[s].sizes :
               guest = [scene |-> s, lead |-> lead, avail |-> n, bits16 |-> bits16]
    /\ code = <<>>
    /\ d = [at |-> "start", cursor |-> NewCursor(0, FALSE), cycle |-> FALSE,
            prefixes |-> NewPrefixes(guest.bits16), map |-> "primary", opcode |-> 0,
            modrm |-> 0, sib |-> <<>>, form |-> <<>>, left |-> <<>>, fields |-> NoFields]

(* A read of k bytes at a cursor, from a set of what they can be; Then says
   where the decoder goes with them.                                        *)
Read(c, k, choices, Then(_)) ==
    \E direct \in BOOLEAN :
        /\ direct => k > 1 /\ c.offset + k <= guest.avail
        /\ LET stops == FieldStops(c, k, direct, guest.avail)
           IN \/ stops # {} /\ d' \in stops /\ UNCHANGED code
              \/ /\ stops = {}
                 /\ \E bytes \in IF c.offset = Len(code) THEN choices
                                 ELSE {[i \in 1..k |-> Byte(c.offset + i - 1)]} :
                        /\ code' = IF c.offset = Len(code) THEN code \o bytes ELSE code
                        /\ d' = Then(bytes)
        /\ UNCHANGED guest

OpcodeChoices(c, choices) ==
    IF c.offset < Len(guest.lead) THEN {<<guest.lead[c.offset + 1]>>} ELSE {<<b>> : b \in choices}
ModRmChoices ==
    IF d.map = "primary" /\ d.opcode \in \hD8..\hDF THEN Scene.escapes ELSE Scene.modrms
DataChoices(c, k) == {[i \in 1..k |-> Data(c.offset + i - 1)]}

(* Initial entry: a window when one is available, exact reads otherwise. *)
Start ==
    /\ d.at = "start"
    /\ \E window \in BOOLEAN :
           /\ window => guest.avail >= DirectFetchBytes
           /\ LET c == NewCursor(0, window)
              IN Read(c, 1, OpcodeChoices(c, Scene.opcodes), LAMBDA b :
                      TailCall("opcode", Advance(c, 1), d.prefixes,
                               [d EXCEPT !.at = "opcode", !.opcode = b[1]]))

HereForms == StateForms(d.prefixes, d.map, d.opcode)
AtPrefix == d.map = "primary" /\ d.opcode \in PrefixBytes
AtEscape ==
    d.map = "primary" /\ d.opcode = ExtendedEscape /\ AnyForm(d.prefixes, "extended")

ReadPrefix ==
    /\ d.at = "opcode" /\ AtPrefix
    /\ Read(d.cursor, 1, OpcodeChoices(d.cursor, Scene.opcodes), LAMBDA b :
            TailCall("opcode", Advance(d.cursor, 1), WithPrefix(d.prefixes, d.opcode),
                     [d EXCEPT !.opcode = b[1]]))

ReadSelector ==
    /\ d.at = "opcode" /\ AtEscape
    /\ Read(d.cursor, 1, {<<b>> : b \in Scene.selectors}, LAMBDA b :
            [d EXCEPT !.cursor = Advance(@, 1), !.map = "extended", !.opcode = b[1]])

RefuseOpcode ==
    /\ d.at = "opcode" /\ ~AtPrefix /\ ~AtEscape /\ HereForms = <<>>
    /\ d' = Unsupported(Reported(d.prefixes, d.map, d.opcode))
    /\ UNCHANGED <<guest, code>>

(* A form without ModRM: an offset field, or none before the immediates. *)
DecodeOpcodeOperands ==
    /\ d.at = "opcode" /\ ~AtPrefix /\ ~AtEscape
    /\ HereForms # <<>> /\ ~HasModRm(HereForms[1])
    /\ LET form == HereForms[1]
           k == AddressBytes(d.prefixes)
           next == [d EXCEPT !.at = "immediates", !.form = form, !.left = form.imms]
       IN \/ /\ form.operands = "AbsoluteOffset"
             /\ Read(d.cursor, k, DataChoices(d.cursor, k), LAMBDA b :
                     [next EXCEPT !.cursor = Advance(@, k), !.fields.offset = Absolute(b)])
          \/ /\ form.operands # "AbsoluteOffset"
             /\ d' = [next EXCEPT !.fields.register =
                          IF form.operands = "OpcodeRegister" THEN d.opcode % 8 ELSE -1]
             /\ UNCHANGED <<guest, code>>

(* The address decoder of the direct path starts at the fields it was given
   and keeps the window.                                                   *)
DirectMemory(next) ==
    [next EXCEPT !.cursor = NewCursor(Consumed(d.map), TRUE),
                 !.prefixes = NewPrefixes(guest.bits16)]
ContinueMemory(c, next) ==
    IF d.cycle THEN DirectMemory(next) ELSE TailCall(d.map, c, d.prefixes, next)

(* Where the ModRM byte leads.  A memory operand goes to the decoder of
   addresses, within this activation or through its own entries; the form
   travels as an index.                                                    *)
AfterModRm(c, byte) ==
    LET modrm == ModRm(byte)
        form == Dispatch(HereForms, modrm, d.prefixes, {})
        memory == MemoryForms(d.prefixes, d.map, d.opcode)
        next == [d EXCEPT !.at = "memory", !.modrm = byte, !.cursor = c,
                          !.form = IF form = NoForm THEN 0
                                   ELSE SelectInSeq(memory, LAMBDA f : f = form[1])]
    IN CASE form # NoForm /\ AcceptsMemory(form[1]) /\ modrm.mod # 3 ->
                ContinueMemory(c, next)
         [] form # NoForm /\ modrm.mod = 3 /\ AcceptsRegister(form[1], d.prefixes) ->
                [d EXCEPT !.at = "immediates", !.cursor = c, !.form = form[1],
                          !.left = form[1].imms,
                          !.fields = [@ EXCEPT !.modrm = byte, !.register = modrm.reg,
                                               !.rm = Register(modrm.rm)]]
         [] OTHER -> Unsupported(Reported(d.prefixes, d.map, d.opcode))

ReadModRm ==
    /\ d.at = "opcode" /\ ~AtPrefix /\ ~AtEscape
    /\ HereForms # <<>> /\ HasModRm(HereForms[1])
    /\ Read(d.cursor, 1, {<<b>> : b \in ModRmChoices}, LAMBDA b :
            AfterModRm(Advance(d.cursor, 1), b[1]))

NeedsSib == AddressBytes(d.prefixes) = 4 /\ d.modrm % 8 = 4 /\ d.sib = <<>>

ReadSib ==
    /\ d.at = "memory" /\ NeedsSib
    /\ Read(d.cursor, 1, {<<b>> : b \in Scene.sibs}, LAMBDA b :
            [d EXCEPT !.cursor = Advance(@, 1), !.sib = b])

(* The registers of both layouts; a register that does not take part is
   marked absent.                                                          *)
Sib == ModRm(IF d.sib = <<>> THEN 0 ELSE d.sib[1])
SibBase == IF d.sib = <<>> THEN d.modrm % 8 ELSE Sib.rm
RuntimeAddress(noBase, displacement) ==
    LET index == IF d.sib = <<>> \/ Sib.reg = 4 THEN NoRegister ELSE Sib.reg
    IN IF AddressBytes(d.prefixes) = 2
       THEN Address(IF noBase THEN NoRegister ELSE Bases[SibBase + 1],
                    Indices[SibBase + 1], 0, displacement)
       ELSE Address(IF noBase THEN NoRegister ELSE SibBase, index,
                    IF index = NoRegister THEN 0 ELSE Sib.mod, displacement)

(* The displacement joins the three layouts; the form is then looked up by
   its index among the forms of the entry's own prefixes.                   *)
ReadDisplacement ==
    /\ d.at = "memory" /\ ~NeedsSib
    /\ LET modrm == ModRm(d.modrm)
           bytes == AddressBytes(d.prefixes)
           noBase == modrm.mod = 0 /\ SibBase = IF bytes = 2 THEN 6 ELSE 5
           k == IF modrm.mod = 2 \/ noBase THEN bytes ELSE IF modrm.mod = 1 THEN 1 ELSE 0
           forms == MemoryForms(d.prefixes, d.map, d.opcode)
           next(value) ==
               IF d.form \notin DOMAIN forms THEN [at |-> "panic"]
               ELSE [d EXCEPT !.at = "immediates", !.form = forms[d.form],
                              !.left = forms[d.form].imms,
                              !.cursor = AfterDisplacement(@, k, bytes),
                              !.fields = [@ EXCEPT !.modrm = d.modrm, !.register = modrm.reg,
                                                   !.rm = RuntimeAddress(noBase, value)]]
       IN \/ /\ k > 0
             /\ Read(d.cursor, k, DataChoices(d.cursor, k),
                     LAMBDA b : next(Extend(b, modrm.mod = 1)))
          \/ k = 0 /\ d' = next(NoDisplacement) /\ UNCHANGED <<guest, code>>

ReadImmediate ==
    /\ d.at = "immediates" /\ d.left # <<>>
    /\ LET k == FieldBytes(Head(d.left), d.prefixes)
       IN Read(d.cursor, k, DataChoices(d.cursor, k), LAMBDA b :
               [d EXCEPT !.cursor = Advance(@, k), !.left = Tail(@),
                         !.fields.imms = Append(@, Extend(b, Head(d.left) = "SignedByte"))])

Complete ==
    /\ d.at = "immediates" /\ d.left = <<>>
    /\ d' = Bind(d.form, d.prefixes, d.fields, d.cursor.offset)
    /\ UNCHANGED <<guest, code>>

Next ==
    \/ Start \/ ReadPrefix \/ ReadSelector \/ RefuseOpcode \/ DecodeOpcodeOperands
    \/ ReadModRm \/ ReadSib \/ ReadDisplacement \/ ReadImmediate \/ Complete

Spec == Init /\ [][Next]_vars

-----------------------------------------------------------------------------
Running == {"start", "opcode", "memory", "immediates"}

(* Both decoders are built on one catalog so that a compiled block and the
   interpreter execute the same instruction.  Whatever the bytes, however
   many of them can be fetched and whichever windows are available, the
   runtime decoder ends as the snapshot decoder does on these bytes: with
   the same form, operands and length, with the same report of an
   unsupported opcode, with a general protection fault where the snapshot
   is too long, and with a fault on the byte the snapshot lacks.            *)
DecodersAgree ==
    d.at \notin Running =>
        d = Snapshot([o \in 0..40 |-> Byte(o)], guest.avail, guest.bits16)
=============================================================================
