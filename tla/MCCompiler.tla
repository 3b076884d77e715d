---------------------------- MODULE MCCompiler -----------------------------
(***************************************************************************)
(* The compiler's two halves, each a specification of its own: values      *)
(* being built (FoldingSpec), in scenes of scalar operations, a byte being *)
(* two bits in a carrier of four, and of packed ones, with widths of their *)
(* own; and a function being placed (FlowSpec).                            *)
(***************************************************************************)
EXTENDS ValueBuilding

VARIABLES table, function, values, authored, graph, knowledge, place, work
flowVars == <<table, function, values, authored, graph, knowledge, place, work>>

MCBits == [I1 |-> 1, I8 |-> 2, I32 |-> 4, I64 |-> 8, V64 |-> 8, V128 |-> 16]
NoLiterals == [ty \in DOMAIN MCBits |-> {}]
Among(operations, operators) == {o \in operations : Len(o.op) > 1 /\ o.op[2] \in operators}

(* A byte with garbage above it, and a clean one. *)
Bytewise == [
    depth |-> 2,
    unknowns |-> {Parameter("I8", "x"), EffectResult("I8", "y")},
    literals |-> [NoLiterals EXCEPT !["I8"] = {0, 1, 3}, !["I32"] = {1}],
    carriers |-> [x : 0..15, y : {1, 2}],
    operations |-> IntegerMethods("I8") \cup UnsignedMethods("I8") \cup SignedMethods("I8")
        \cup BitwiseMethods("I8") \cup CountMethods("I8") \cup ZeroTests("I8")
        \cup Converts({<<"I8", "I1">>, <<"I8", "I32">>, <<"I32", "I8">>})
        \cup SignExtends({<<"I8", "I32">>})]

(* Predicates: a logical I1 whose carrier is not zero or one. *)
Predicates == [
    depth |-> 3,
    unknowns |-> {Parameter("I1", "x")},
    literals |-> [NoLiterals EXCEPT !["I1"] = {1}, !["I8"] = {0, 1}],
    carriers |-> [x : 0..15],
    operations |-> BitwiseMethods("I1") \cup ZeroTests("I1") \cup Selects("I8")
        \cup Among(UnsignedMethods("I1"), {"LtUnsigned"}) \cup Among(IntegerMethods("I8"), {"Ne"})
        \cup Among(SignedMethods("I8"), {"LtSigned"})
        \cup Converts({<<"I1", "I8">>, <<"I8", "I1">>})]

(* Masks and shifts of one carrier, apart and joined again. *)
Masks == [
    depth |-> 3,
    unknowns |-> {Parameter("I32", "x")},
    literals |-> [NoLiterals EXCEPT !["I32"] = {1, 6}],
    carriers |-> [x : 0..15],
    operations |-> BitwiseMethods("I32") \cup Converts({<<"I32", "I8">>, <<"I8", "I32">>})
        \cup Among(IntegerMethods("I32"), {"Add", "Eq"})
        \cup Shifts("I32", "shift", {"Left", "RightUnsigned"})]

(* Across carriers: 64-bit values, some of them known to be small. *)
Wide == [
    depth |-> 2,
    unknowns |-> {Parameter("I64", "x"), EffectResult("I32", "y")},
    literals |-> [NoLiterals EXCEPT !["I64"] = {0, 3, 255}, !["I32"] = {0, 5}],
    carriers |-> [x : {0, 15, 127, 128, 255}, y : {0, 1, 7, 8, 15}],
    operations |-> IntegerMethods("I64") \cup UnsignedMethods("I64") \cup SignedMethods("I64")
        \cup Among(BitwiseMethods("I64"), {"And"}) \cup ZeroTests("I64") \cup WideProducts
        \cup Converts({<<"I64", "I32">>, <<"I32", "I64">>, <<"I64", "I8">>, <<"I8", "I64">>})
        \cup SignExtends({<<"I32", "I64">>, <<"I8", "I64">>})]

ScalarScenes == [bytes |-> Bytewise, predicates |-> Predicates, masks |-> Masks, wide |-> Wide]

-----------------------------------------------------------------------------
(* Four bytes of three bits to a vector, two to a V64; a wide lane is half *)
(* a vector.                                                               *)
MCLaneBits == [I1 |-> 1, I8 |-> 3, I32 |-> 4, I64 |-> 6, V64 |-> 6, V128 |-> 12]
LaneForms == INSTANCE ExpressionFolding WITH Bits <- MCLaneBits
Vec(bytes) == bytes[1] + 8 * bytes[2] + 64 * bytes[3] + 512 * bytes[4]
Samples == {Vec(<<1, 2, 3, 4>>), Vec(<<7, 5, 0, 6>>)}

(* Routing: lanes replaced, extracted and shuffled. *)
Routing == [
    depth |-> 2,
    unknowns |-> {LaneForms!Parameter("V128", "p"), LaneForms!Parameter("I8", "x")},
    literals |-> [NoLiterals EXCEPT !["I8"] = {5}, !["I64"] = {9}, !["I32"] = {0, 1},
        !["V128"] = {0, Vec(<<2, 3, 0, 1>>), Vec(<<4, 5, 2, 3>>), Vec(<<0, 7, 0, 0>>)}],
    carriers |-> [p : Samples, x : {3, 12}],
    operations |-> RoutingMethods("V128")]

(* The same on the half vector, whose upper carrier half is garbage. *)
HalfRouting == [
    depth |-> 2,
    unknowns |-> {LaneForms!Parameter("V64", "q"), LaneForms!Parameter("I32", "i")},
    literals |-> [NoLiterals EXCEPT !["I8"] = {5}, !["I32"] = {1}, !["V64"] = {0, 10, 15, 60}],
    carriers |-> [q : Samples, i : {0, 1, 6}],
    operations |-> RoutingMethods("V64") \cup WidthMethods]

(* Packed arithmetic on the half vector. *)
Packed == [
    depth |-> 2,
    unknowns |-> {LaneForms!Parameter("V64", "q"), LaneForms!Parameter("I64", "w")},
    literals |-> [NoLiterals EXCEPT !["V64"] = {0, 9, 63}, !["I32"] = {0, 3, 4}],
    carriers |-> [q : Samples, w : {0, 21, 63}],
    operations |-> LaneMethods("V64") \cup BitwiseMethods("V64") \cup WideningMethods
        \cup WidthMethods \cup Pairs("I64", "integer", {"Add"})]

LaneScenes == [routing |-> Routing, half |-> HalfRouting, packed |-> Packed]

Lanes == INSTANCE ValueBuilding WITH Bits <- MCLaneBits, Scenes <- LaneScenes

ASSUME Lanes!BitsAssumption

-----------------------------------------------------------------------------
(* Small functions: branches inside branches, a switch, a loop and lanes.  *)
(* x is a byte with garbage above it, y a clean one, q joins them.         *)
R(name, ty, op, ins) == [name |-> name, ty |-> ty, op |-> op, ins |-> ins]
Given(name, ty, kind) == R(name, ty, <<kind, name>>, <<>>)
Number(name, ty, n) == R(name, ty, <<"literal", n>>, <<>>)
Bitwise2(name, ty, o, a, b) == R(name, ty, <<"bitwise", o>>, <<a, b>>)
Test2(name, o, a, b) == R(name, "I1", <<"compare", o>>, <<a, b>>)

ScalarValues == <<
    Given("x", "I8", "parameter"), Given("y", "I8", "result"), Given("q", "I8", "parameter"),
    Number("0", "I8", 0), Number("1", "I8", 1), Number("2", "I8", 2), Number("3", "I8", 3),
    R("selector", "I8", <<"normalize">>, <<"x">>), Bitwise2("odd", "I8", "And", "y", "1"),
    Test2("x<2", "LtUnsigned", "x", "2"), Test2("x=y", "Eq", "x", "y"),
    Test2("y<x", "LtUnsigned", "y", "x"), Test2("y>=x", "GeUnsigned", "y", "x"),
    Test2("y<2", "LtUnsigned", "y", "2"), Test2("x<0", "LtSigned", "x", "0"),
    Test2("y odd", "Ne", "odd", "0"), Test2("x#3", "Ne", "x", "3"), Test2("x#y", "Ne", "x", "y"),
    R("x odd", "I1", <<"convert">>, <<"x">>),
    Test2("q<2", "LtUnsigned", "q", "2"), Test2("q#y", "Ne", "q", "y"),
    Test2("q<x", "LtUnsigned", "q", "x"), Test2("q=0", "Eq", "q", "0"),
    R("x+y", "I8", <<"integer", "Add">>, <<"x", "y">>), Bitwise2("x&1", "I8", "And", "x", "1"),
    Bitwise2("x|y", "I8", "Or", "x", "y"), Bitwise2("x&2", "I8", "And", "x", "2"),
    Bitwise2("x|2", "I8", "Or", "x", "2"),
    R("most", "I8", <<"select">>, <<"x", "y", "y<x">>), R("wide x", "I32", <<"convert">>, <<"x">>),
    R("q+1", "I8", <<"integer", "Add">>, <<"q", "1">>), Bitwise2("q&1", "I8", "And", "q", "1"),
    Bitwise2("q&y", "I8", "And", "q", "y"), Test2("x=q", "Eq", "x", "q")>>
OfX == <<"x+y", "x&1", "x|y", "x&2", "most", "wide x">>
OfQ == <<"q+1", "q&1", "q&y", "q<2">>

(* A condition: one test, two joined, or one chosen against its opposite. *)
Joined(o, a, b) ==
    CASE o = "one" -> <<R("c", "I1", <<"normalize">>, <<a>>)>>
      [] o \in {"And", "Or", "Xor"} ->
            <<Bitwise2("both", "I1", o, a, b), R("c", "I1", <<"normalize">>, <<"both">>)>>
      [] o = "choose" ->
            <<R("opposite", "I1", <<"zerotest", FALSE>>, <<b>>),
              R("either", "I1", <<"select">>, <<b, "opposite", a>>),
              R("c", "I1", <<"normalize">>, <<"either">>)>>
Then(d) == <<R("d", "I1", <<"normalize">>, <<d>>),
             R("c^d", "I1", <<"bitwise", "Xor">>, <<"c", "d">>),
             R("c&d", "I1", <<"bitwise", "And">>, <<"c", "d">>),
             R("chosen", "I8", <<"select">>, <<"x", "y", "c">>)>>

-----------------------------------------------------------------------------
(* Blocks that store values, so that each reduces them in its own context. *)

Block(parameters, stored, exit) ==
    [parameters |-> parameters, effects |-> <<[inputs |-> stored, results |-> <<>>]>>,
     exit |-> exit]
Entry(stored, exit) ==
    [parameters |-> <<>>, effects |-> <<[inputs |-> stored, results |-> <<"y">>]>>, exit |-> exit]
Arm(key, target) == [key |-> key, target |-> target, arguments |-> <<>>]
Jump(target, arguments) ==
    [kind |-> "jump", inputs |-> <<>>,
     edges |-> <<[key |-> 0, target |-> target, arguments |-> arguments]>>]
If(condition, taken, otherwise) ==
    [kind |-> "if", inputs |-> <<condition>>, edges |-> <<Arm(0, taken), Arm(0, otherwise)>>]
Return == [kind |-> "return", inputs |-> <<>>, edges |-> <<>>]

Nested == <<
    Entry(<<"x">>, If("c", 2, 3)),
    Block(<<>>, OfX, If("d", 4, 5)),
    Block(<<>>, OfX, Jump(6, <<"y">>)),
    Block(<<>>, <<"chosen", "c^d">>, Jump(6, <<"x&1">>)),
    Block(<<>>, <<"c^d">>, Jump(6, <<"1">>)),
    Block(<<"q">>, OfQ \o <<"c&d">>, Return)>>

Switched == <<
    Entry(<<"x">>, [kind |-> "switch", inputs |-> <<"selector">>,
                    edges |-> <<Arm(0, 2), Arm(1, 3), Arm(0, 4)>>]),
    Block(<<>>, OfX, Jump(5, <<"y">>)),
    Block(<<>>, OfX \o <<"c">>, Jump(5, <<"x|2">>)),
    Block(<<>>, OfX, Jump(5, <<"x">>)),
    Block(<<"q">>, OfQ, If("c", 6, 7)),
    Block(<<>>, OfQ, Jump(7, <<>>)),
    Block(<<>>, <<"x=q">>, Return)>>

(* Counting up from zero, on a path whose facts begin before the loop. *)
Looped == <<
    Entry(<<"x">>, If("d", 2, 5)),
    Block(<<>>, OfX, Jump(3, <<"0">>)),
    Block(<<"q">>, OfQ, If("c", 4, 5)),
    Block(<<>>, OfQ, Jump(3, <<"q+1">>)),
    Block(<<>>, OfX, Return)>>

(* Lanes of v, and of w which joins v with a literal. *)
LaneValues(v) == <<
    Given(v, "V64", "parameter"),
    R(v \o "0", "I8", <<"extract", 0>>, <<v>>), R(v \o "1", "I8", <<"extract", 1>>, <<v>>),
    R(v \o "01", "I32", <<"extract", 0>>, <<v>>), R(v \o "all", "I64", <<"reinterpret">>, <<v>>),
    Bitwise2(v \o "low", "I64", "And", v \o "all", "3w"),
    Test2(v \o "0=2", "Eq", v \o "0", "2"), Test2(v \o "01=6", "Eq", v \o "01", "6i"),
    Test2(v \o "1<1", "LtUnsigned", v \o "1", "1"), Test2(v \o "low#0", "Ne", v \o "low", "0w")>>
LaneNumbers == <<Given("y", "I8", "result"), Number("1", "I8", 1), Number("2", "I8", 2),
                 Number("6i", "I32", 6), Number("3w", "I64", 3), Number("0w", "I64", 0),
                 Number("mixed", "V64", 70)>>
LanesOf(v) == <<v \o "0", v \o "1", v \o "01", v \o "all">>
PackedFlow == <<
    Entry(LanesOf("v"), If("c", 2, 3)),
    Block(<<>>, LanesOf("v"), Jump(4, <<"v">>)),
    Block(<<>>, LanesOf("v"), Jump(4, <<"mixed">>)),
    Block(<<"w">>, LanesOf("w"), If("d", 5, 6)),
    Block(<<>>, LanesOf("w") \o LanesOf("v"), Jump(6, <<>>)),
    Block(<<>>, LanesOf("w"), Return)>>

Body(recipes, choices, blocks, carriers) ==
    [recipes |-> recipes, choices |-> choices, blocks |-> blocks, carriers |-> carriers]
Scalars == [x : 0..15, y : 0..3, q : {0}]
Vectors == [v : {0, 2, 6, 70, 2 + 256, 6 + 512, 255, 9 + 4096}, w : {0}, y : {0}]
Conditions ==
    {Joined("one", a, "") : a \in {"x<2", "x=y", "y<x", "y>=x", "y<2", "x<0", "y odd", "x#3", "x odd"}}
    \cup {Joined(o, a, b) : o \in {"And", "Or", "Xor"}, a \in {"x<2", "y<x", "y<2", "x odd"},
                            b \in {"x=y", "y>=x", "x<0", "y odd"}}
    \cup {Joined("choose", a, b) : a \in {"x<2", "y<x"}, b \in {"y<2", "y odd"}}
Functions == [
    nested |-> Body(ScalarValues,
        {c \o Then(d) : c \in Conditions, d \in {"x<2", "y<x", "y>=x", "x#y", "x odd"}},
        Nested, Scalars),
    switched |-> Body(ScalarValues, Conditions, Switched, Scalars),
    looped |-> Body(ScalarValues,
        {Joined("one", c, "") \o Then(d) : c \in {"q<2", "q#y", "q<x", "q=0"},
                                          d \in {"x<2", "y<x", "x=y", "x odd"}},
        Looped, Scalars),
    packed |-> Body(LaneNumbers \o LaneValues("v") \o LaneValues("w"),
        {Joined("one", c, "") \o <<R("d", "I1", <<"normalize">>, <<d>>)>> :
            c \in {"v0=2", "v01=6", "v1<1", "vlow#0"}, d \in {"w0=2", "w01=6", "w1<1", "wlow#0"}},
        PackedFlow, Vectors)]
Flow == INSTANCE ReducedFlow WITH
    Bodies <- Functions, MaxConstraints <- 2, MaxChecks <- 3, MaxValues <- 24, MaxProofSteps <- 8,
    facts <- knowledge, at <- place

ASSUME Flow!BudgetAssumption

-----------------------------------------------------------------------------
NoFlow ==
    /\ table = <<>> /\ function = "none" /\ values = <<>> /\ authored = <<>> /\ graph = <<>>
    /\ knowledge = <<>> /\ place = Flow!Unplaced /\ work = <<>>

FoldingInit == (Init \/ Lanes!Init) /\ NoFlow
FoldingNext == (Next \/ Lanes!Next) /\ UNCHANGED flowVars
FoldingSpec == FoldingInit /\ [][FoldingNext]_<<vars, flowVars>>

FlowInit == scene = "flow" /\ built = <<>> /\ step = Idle /\ Flow!Init
FlowNext == Flow!Next /\ UNCHANGED vars
FlowSpec == FlowInit /\ [][FlowNext]_<<vars, flowVars>>

(* What a body computes is what its author asked for, of scalars and of    *)
(* lanes (ValueBuilding: the folds of crates/compiler/src/value).          *)
ValuesAreExact ==
    /\ scene \in DOMAIN ScalarScenes => FoldsAreExact /\ BoundsAreSound
    /\ scene \in DOMAIN LaneScenes => Lanes!FoldsAreExact

(* Placement changes no run: every run that reaches a block satisfies the  *)
(* facts its values are reduced under, reduced values keep their carriers  *)
(* and branches go where they went; and a fact learnt in the middle of a   *)
(* path changes no inference the code keeps cached (ReducedFlow: flow.rs   *)
(* incoming_facts, reduce.rs reduce, facts.rs invalidate_from).            *)
FlowIsKept ==
    /\ [](Flow!FactsHoldOnThePath /\ Flow!ReductionKeepsCarriers)
    /\ Flow!EarlierInferencesStand
=============================================================================
