--------------------------- MODULE ValueBuilding ---------------------------
(***************************************************************************)
(* A function body under construction: each step applies one method of Val *)
(* (crates/compiler/src/value.rs, value/vector) to values built before, or *)
(* lowers the last value built.                                            *)
(***************************************************************************)
EXTENDS ExpressionFolding

CONSTANTS
    Scenes          \* what a body starts from, which operations it builds and how many:
                    \* name -> [unknowns, literals, operations, carriers, depth]
VARIABLES
    scene,          \* the scene's name
    built,          \* the values built so far
    step            \* the last step: the operation asked for, and its result
vars == <<scene, built, step>>

-----------------------------------------------------------------------------
(* The methods, as operations: result type, opcode, operand types. *)

Operation(ty, op, ins) == [ty |-> ty, op |-> op, ins |-> ins]
Pairs(ty, name, operators) == {Operation(ty, <<name, o>>, <<ty, ty>>) : o \in operators}
Tests(ty, operators) == {Operation("I1", <<"compare", o>>, <<ty, ty>>) : o \in operators}
Shifts(ty, name, operators) == {Operation(ty, <<name, o>>, <<ty, "I32">>) : o \in operators}

BitwiseMethods(ty) == Pairs(ty, "bitwise", {"And", "Or", "Xor"})
IntegerMethods(ty) ==
    Pairs(ty, "integer", {"Add", "Sub", "Mul"}) \cup Tests(ty, {"Eq", "Ne"})
        \cup Shifts(ty, "shift", {"Left"}) \cup Shifts(ty, "rotate", {"Left", "Right"})
CountMethods(ty) ==
    {Operation(ty, <<"bitcount", o, ty>>, <<ty>>) : o \in {"Ones", "LeadingZeros", "TrailingZeros"}}
UnsignedMethods(ty) ==
    Pairs(ty, "integer", {"DivUnsigned", "RemUnsigned"}) \cup Shifts(ty, "shift", {"RightUnsigned"})
        \cup Tests(ty, {"LtUnsigned", "GeUnsigned"})
SignedMethods(ty) ==
    Pairs(ty, "integer", {"DivSigned", "RemSigned"}) \cup Shifts(ty, "shift", {"RightSigned"})
        \cup Tests(ty, {"LtSigned", "GeSigned"})
ZeroTests(ty) == {Operation("I1", <<"zerotest", b>>, <<ty>>) : b \in BOOLEAN}
Selects(ty) == {Operation(ty, <<"select">>, <<ty, ty, "I1">>)}
Converts(pairs) == {Operation(p[2], <<"convert">>, <<p[1]>>) : p \in pairs}
SignExtends(pairs) == {Operation(p[2], <<"signextend", p[1]>>, <<p[1]>>) : p \in pairs}
WideProducts ==
    {Operation("I64", <<"multiplywide", signed, c>>, <<"I64", "I64">>) :
        signed \in BOOLEAN, c \in {0, 1}}
LaneMethods(ty) ==
    {Operation(ty, <<"vector", o, "I8">>, <<ty, ty>>) :
        o \in {"Add", "Sub", "Mul", "Eq", "GtSigned", "MinSigned", "MinUnsigned", "MaxSigned",
               "MaxUnsigned", "AverageUnsigned", "AddSatSigned", "AddSatUnsigned", "SubSatSigned",
               "SubSatUnsigned", "DotSigned"}}
    \cup {Operation(ty, <<"laneshift", o, "I8">>, <<ty, "I32">>) :
            o \in {"Left", "RightUnsigned", "RightSigned"}}
    \cup {Operation(ty, <<"pairwise", "I8">>, <<ty>>), Operation("I32", <<"laneBitmask">>, <<ty>>)}
    \cup {Operation(ty, <<"narrowLanes", signed>>, <<ty, ty>>) : signed \in BOOLEAN}
WideningMethods ==
    {Operation("V128", <<"vector", "WideningMulLow", "I8">>, <<ty, ty>>) : ty \in {"V64", "V128"}}
        \cup {Operation("V128", <<"vector", "WideningMulHigh", "I8">>, <<"V128", "V128">>)}
RoutingMethods(ty) ==
    {Operation(ty, <<"swizzle", ty>>, <<ty, ty>>), Operation(ty, <<"shuffle", ty>>, <<ty, ty, ty>>),
     Operation(ty, <<"bitselect">>, <<ty, ty, ty>>), Operation(ty, <<"splat", "I8">>, <<"I8">>)}
    \cup {Operation(t, <<"extractLane">>, <<ty, "I32">>) : t \in {"I8", "I64"}}
    \cup {Operation(ty, <<"replaceLane">>, <<ty, "I32", t>>) : t \in {"I8", "I64"}}
WidthMethods ==
    {Operation("V64", <<"reinterpret">>, <<"I64">>), Operation("I64", <<"reinterpret">>, <<"V64">>),
     Operation("V128", <<"convert">>, <<"V64">>), Operation("V64", <<"convert">>, <<"V128">>),
     Operation("V128", <<"concat">>, <<"V64", "V64">>)}

-----------------------------------------------------------------------------
(* Methods that are composed of several operations. *)

LaneIndex(ty, lane) ==
    <<Recipe("lanes", "I32", <<"literal", Bits[ty] \div Bits[lane] - 1>>, <<>>),
      Recipe("lane", "I32", <<"bitwise", "And">>, <<"b", "lanes">>)>>

ExtractLaneValue(ty, from) ==
    LaneIndex(from, ty) \o
    <<Recipe("scale", "I32", <<"literal", BitLength(Bytes(ty)) - 1>>, <<>>),
      Recipe("offset", "I32", <<"shift", "Left">>, <<"lane", "scale">>),
      Recipe("byte", "I8", <<"convert">>, <<"offset">>),
      Recipe("start", from, <<"splat", "I8">>, <<"byte">>),
      Recipe("all", "V128", <<"literal",
             FromBytes([i \in VectorBytes |-> IF i < Bytes(from) THEN i ELSE 0])>>, <<>>),
      Recipe("positions", from, <<"convert">>, <<"all">>),
      Recipe("indices", from, <<"vector", "Add", "I8">>, <<"start", "positions">>),
      Recipe("routed", from, <<"swizzle", from>>, <<"a", "indices">>),
      Recipe("result", ty, <<"extract", 0>>, <<"routed">>)>>

ReplaceLaneValue(ty, lane) ==
    LET n == Bits["V128"] \div Bits[lane]
    IN  LaneIndex(ty, lane) \o
        <<Recipe("number", lane, <<"convert">>, <<"lane">>),
          Recipe("splatted", "V128", <<"splat", lane>>, <<"number">>),
          Recipe("numbers", "V128",
                 <<"literal", Join([i \in 0..n - 1 |-> i], Bits[lane], n)>>, <<>>),
          Recipe("equal", "V128", <<"vector", "Eq", lane>>, <<"splatted", "numbers">>),
          Recipe("value", ty, <<"splat", lane>>, <<"c">>),
          Recipe("mask", ty, <<"convert">>, <<"equal">>),
          Recipe("result", ty, <<"bitselect">>, <<"value", "a", "mask">>)>>

ConcatLowHalves(result) ==
    <<Recipe(result, "V128", <<"shuffleimmediate",
             [i \in VectorBytes |-> IF i < Bytes("V64") THEN i ELSE i + Bytes("V64")]>>,
             <<"a", "b">>)>>
NarrowLanes(ty, signed) ==
    IF ty = "V64"
    THEN ConcatLowHalves("both") \o
         <<Recipe("zero", "V128", <<"literal", 0>>, <<>>),
           Recipe("result", ty, <<"narrow", signed, "I8">>, <<"both", "zero">>)>>
    ELSE <<Recipe("result", ty, <<"narrow", signed, "I8">>, <<"a", "b">>)>>
LaneBitmask(from) ==
    IF from = "V64"
    THEN <<Recipe("mask", "I32", <<"bitmask", "I8">>, <<"a">>),
           Recipe("low", "I32", <<"literal", LowMask(Bytes("V64"))>>, <<>>),
           Recipe("result", "I32", <<"bitwise", "And">>, <<"mask", "low">>)>>
    ELSE <<Recipe("result", "I32", <<"bitmask", "I8">>, <<"a">>)>>

Inputs == <<"a", "b", "c">>
Method(operation) ==
    LET name == operation.op[1]
        from == operation.ins[1]
    IN  CASE name = "extractLane" -> ExtractLaneValue(operation.ty, from)
          [] name = "replaceLane" -> ReplaceLaneValue(operation.ty, operation.ins[3])
          [] name = "concat" -> ConcatLowHalves("result")
          [] name = "narrowLanes" -> NarrowLanes(operation.ty, operation.op[2])
          [] name = "laneBitmask" -> LaneBitmask(from)
          [] OTHER -> <<Recipe("result", operation.ty, operation.op,
                               SubSeq(Inputs, 1, Len(operation.ins)))>>

-----------------------------------------------------------------------------
Idle == [kind |-> "none", ty |-> "none", op |-> <<"none">>, ins |-> <<>>, result |-> None]
Init == scene \in DOMAIN Scenes /\ built = <<>> /\ step = Idle

(* Operands of a type: what the body was given, built or can write down. *)
Operands(ty) ==
    {v \in Scenes[scene].unknowns \cup {built[i] : i \in DOMAIN built} : v.ty = ty}
        \cup {Literal(ty, bits) : bits \in Scenes[scene].literals[ty]}

(* Bodies grow as chains: a step uses the value built last. *)
Uses(ins) ==
    LET recent == IF built = <<>> THEN Scenes[scene].unknowns ELSE {built[Len(built)]}
    IN  \E i \in DOMAIN ins : ins[i] \in recent

Build(operation, ins) ==
    /\ Uses(ins)
    /\ \E named \in {Built(Method(operation), [n \in {Inputs[i] : i \in DOMAIN ins} |->
                            ins[CHOOSE i \in DOMAIN ins : Inputs[i] = n]])} :
          /\ step' = [kind |-> "build", ty |-> operation.ty, op |-> operation.op, ins |-> ins,
                      result |-> named["result"]]
          /\ built' = Append(built, named["result"])
    /\ UNCHANGED scene

LowerLast ==
    /\ step.kind = "build" /\ scene \in DOMAIN Scenes
    /\ LET value == built[Len(built)]
       IN  \E lowered \in {Lower(value)} :
             /\ lowered # value
             /\ step' = [kind |-> "lower", ty |-> value.ty, op |-> value.op, ins |-> value.ins,
                         result |-> lowered]
    /\ UNCHANGED <<scene, built>>

InputLists(types) ==
    CASE Len(types) = 1 -> {<<a>> : a \in Operands(types[1])}
      [] Len(types) = 2 -> {<<a, b>> : a \in Operands(types[1]), b \in Operands(types[2])}
      [] Len(types) = 3 -> {<<a, b, c>> : a \in Operands(types[1]), b \in Operands(types[2]),
                                          c \in Operands(types[3])}

Next ==
    \/ /\ step.kind # "lower" /\ scene \in DOMAIN Scenes /\ Len(built) < Scenes[scene].depth
       /\ \E operation \in Scenes[scene].operations :
            \E ins \in InputLists(operation.ins) : Build(operation, ins)
    \/ LowerLast

Spec == Init /\ [][Next]_vars

-----------------------------------------------------------------------------
Result(given) == Run(step.result, given)

(* What the last method means, from the logical bits of its operands. *)
AskedOf(bits) ==
    LET lanes(ty, t) == Bits[ty] \div Bits[t]
        from == step.ins[1].ty
        name == step.op[1]
        at(t) == Bits[t] * (bits[2] % lanes(from, t))
        old(t) == (bits[1] \div 2^at(t)) % 2^Bits[t]
    IN  CASE name = "extractLane" -> old(step.ty)
          [] name = "replaceLane" ->
                LET t == step.ins[3].ty IN bits[1] + (bits[3] - old(t)) * 2^at(t)
          [] name = "concat" -> bits[1] + bits[2] * 2^Bits["V64"]
          [] name = "narrowLanes" ->
                IF step.ty = "V64"
                THEN Normalize("V64", VectorNarrow(step.op[2], "I8",
                                         bits[1] + bits[2] * 2^Bits["V64"], 0))
                ELSE VectorNarrow(step.op[2], "I8", bits[1], bits[2])
          [] name = "laneBitmask" ->
                Normalize("I32", UnaryResult(<<"bitmask", "I8">>, from, bits[1], "I32"))
          [] OTHER -> ConstantResult(step.op, [i \in DOMAIN bits |-> step.ins[i].ty], bits, step.ty)
AskedOfCarriers(carriers) ==
    IF \E i \in DOMAIN carriers : carriers[i] = Undefined THEN Undefined
    ELSE AskedOf([i \in DOMAIN carriers |-> Normalize(step.ins[i].ty, carriers[i])])
Asked(given) == AskedOfCarriers([i \in DOMAIN step.ins |-> Run(step.ins[i], given)])

(* What a body computes is what its author asked for: over every carrier   *)
(* the unknown values can have, a built value has the logical bits of the  *)
(* operation applied to its operands' logical bits, and a lowered value    *)
(* has every carrier bit of the value it replaces.  No fold, at any depth, *)
(* may read garbage above a narrow value or drop a bit someone observes.   *)
FoldsAreExact ==
    \A given \in Scenes[scene].carriers :
        /\ step.kind = "build" =>
            \A asked \in {Asked(given)} \ {Undefined}, result \in {Result(given)} :
                /\ step.result.ty = step.ty
                /\ result # Undefined
                /\ Normalize(step.ty, result) = asked
        /\ step.kind = "lower" => Result(given) = Run(built[Len(built)], given)

(* The table's bounds hold of the physical carrier, not of the logical     *)
(* value: all bits above u are zero and all above s repeat the sign.  The  *)
(* bound retained for a lowered count holds as well.                       *)
Fits(ty, bits, u, s) ==
    /\ bits < 2^u
    /\ LET v == IF bits >= 2^(CarrierBits(ty) - 1) THEN bits - 2^CarrierBits(ty) ELSE bits
       IN  -(2^(s - 1)) <= v /\ v < 2^(s - 1)
BoundsAreSound ==
    \A given \in Scenes[scene].carriers :
        /\ step.kind # "none" /\ IsScalar(step.ty) =>
                \A result \in {Result(given)} \ {Undefined} :
                    Fits(step.ty, result, step.result.u, step.result.s)
        /\ step.kind = "lower" /\ step.op[1] = "bitcount" =>
                Result(given) < 2^CountInCarrier(built[Len(built)]).u
=============================================================================
