------------------------------ MODULE LazyX87 -------------------------------
(***************************************************************************)
(* How translated code keeps the x87 registers                             *)
(* (src/crates/x86/src/state/x87): a bank of values and tags relative to   *)
(* an origin, a stack position in it that assumes every movement happened, *)
(* and writes that wait, under the guard of their instruction, until the   *)
(* next exception check shows that they were enabled.                      *)
(*                                                                         *)
(* arch is the architectural state, changed by the same instructions.      *)
(***************************************************************************)
EXTENDS Integers, Sequences, SequencesExt

-----------------------------------------------------------------------------
(* What the x87 instructions do to the stack and the status                *)
(* (src/crates/x86/src/instruction/definitions/x87).                       *)
(*                                                                         *)
(* A number is its class; the outcome of a calculation (its exceptions and *)
(* its class) is an input.  An instruction sees the stack through a view,  *)
(* [tag, value] by distance from the top on entry, and answers with the    *)
(* exceptions it raises and a sequence of effects on the stack, each of    *)
(* them enabled or suppressed.                                             *)

CONSTANTS N,            \* registers of the stack
          Results,      \* outcomes of a calculation
          Pairs,        \* outcomes of a calculation with two results
          Conversions   \* outcomes of a conversion to a memory format

StackAssumption == N \in Nat /\ N > 1

Indefinite == "Indefinite"
Empty == 3
Index == 0..(N - 1)

(* The tag of a computed value; what an MMX write leaves is special.       *)
Tag(v) == CASE v = "Zero" -> 1 [] v = "Normal" -> 0 [] OTHER -> 2

IsEmpty(view, i) == view.tag[i] = Empty
OrIndefinite(v, fault) == IF fault THEN Indefinite ELSE v

-----------------------------------------------------------------------------
(* Effects on the stack, in terms of the top on entry.                     *)

Write(i, v, enabled) ==
    [op |-> "write", index |-> i, value |-> v, tag |-> Tag(v), enabled |-> enabled]
Free(i, enabled) == [op |-> "tag", index |-> i, enabled |-> enabled]
Move(delta, enabled) == [op |-> "move", delta |-> delta, enabled |-> enabled]
Rebase == [op |-> "rebase"]

PopN(count, enabled) ==
    IF count = 0 THEN <<>>
    ELSE [i \in 1..count |-> Free(i - 1, enabled)] \o <<Move(count, enabled)>>

(* A push that is not certain resolves the choice before the next access.  *)
PushWhen(v, when, certain, enabled) ==
    IF certain /\ ~when THEN <<>>
    ELSE <<Write(N - 1, v, when /\ enabled), Move(-1, when /\ enabled)>>
           \o (IF certain THEN <<>> ELSE <<Rebase>>)
Push(v, enabled) == PushWhen(v, TRUE, TRUE, enabled)

(* An ordinary condition becomes part of the value, and of the tag.        *)
WriteWhen(view, i, v, when, enabled) ==
    IF when THEN Write(i, v, enabled)
    ELSE [op |-> "write", index |-> i, value |-> view.value[i], tag |-> view.tag[i],
          enabled |-> enabled]

-----------------------------------------------------------------------------
(* A response: the exceptions of this occurrence, whether the stack was at *)
(* fault, and the effects.  An exception it raises that is unmasked is     *)
(* pending from then on.  The condition codes, which nothing here reads    *)
(* back, are left out.                                                     *)

Response(raised, fault, effects) == [raised |-> raised, fault |-> fault, effects |-> effects]
Raise(exception, occurs) == IF occurs THEN {exception} ELSE {}

(* The result in range, or the one with an adjusted exponent when its      *)
(* range exception is unmasked.                                            *)
ResolveRange(result, adjust) == IF adjust THEN result.adjusted ELSE result.masked

OfFault(result, fault) ==
    IF ~fault THEN result
    ELSE LET none == [value |-> Indefinite, inexact |-> FALSE]
         IN  [raised |-> {"Invalid"}, overflow |-> FALSE, tiny |-> FALSE,
              masked |-> none, adjusted |-> none]

(* The shared response of calculations: operand exceptions suppress every  *)
(* effect, range and precision exceptions none.                            *)
(* Mutant: only an invalid operand suppresses the effects.                 *)
SuppressedInvalid(operand, unmasked) == "Invalid" \in operand \cap unmasked
Suppressed(operand, unmasked) == operand \cap unmasked # {}
WriteResults(unmasked, outcomes, fault, destination(_, _)) ==
    LET results == [k \in DOMAIN outcomes |-> OfFault(outcomes[k], fault)]
        operand == UNION {results[k].raised : k \in DOMAIN results}
        enabled == ~Suppressed(operand, unmasked)
        overflow == enabled /\ \E k \in DOMAIN results : results[k].overflow
        rounded == [k \in DOMAIN results |->
                      ResolveRange(results[k],
                        \/ overflow /\ "Overflow" \in unmasked /\ results[k].overflow
                        \/ enabled /\ results[k].tiny /\ "Underflow" \in unmasked)]
        underflow == \E k \in DOMAIN results :
                        /\ enabled /\ results[k].tiny
                        /\ "Underflow" \in unmasked \/ rounded[k].inexact
        precision == enabled /\ \E k \in DOMAIN rounded : rounded[k].inexact
    IN  Response(operand \cup Raise("Overflow", overflow) \cup Raise("Underflow", underflow)
                         \cup Raise("Precision", precision),
                 fault, destination([k \in DOMAIN rounded |-> rounded[k].value], enabled))

-----------------------------------------------------------------------------
(* Loads.  A missing source takes priority over a full stack, and a stack  *)
(* fault over what the conversion of the operand would raise.  A denormal  *)
(* operand is loaded even when it is unmasked.                             *)
Load(unmasked, view, v, sourceEmpty, operand) ==
    LET fault == sourceEmpty \/ ~IsEmpty(view, N - 1)
        raised == IF fault THEN {"Invalid"} ELSE operand
    IN  Response(raised, fault,
                 Push(OrIndefinite(v, fault), ~("Invalid" \in raised \cap unmasked)))

(* Stores to memory.  An exception that is unmasked leaves memory and the  *)
(* stack alone, except precision.                                          *)
Store(unmasked, view, conversion, pop) ==
    LET fault == IsEmpty(view, 0)
        c == IF fault THEN [invalid |-> TRUE, overflow |-> FALSE, tiny |-> FALSE, inexact |-> FALSE]
             ELSE conversion
        range == Raise("Invalid", c.invalid) \cup Raise("Overflow", c.overflow)
                   \cup Raise("Underflow", c.tiny /\ ("Underflow" \in unmasked \/ c.inexact))
        enabled == range \cap unmasked = {}
    IN  Response(range \cup Raise("Precision", enabled /\ c.inexact), fault,
                 PopN(IF pop THEN 1 ELSE 0, enabled))

(* The transfers that only an empty source disturbs.                       *)
StackUnderflow(unmasked, fault, effects(_)) ==
    Response(Raise("Invalid", fault), fault, effects(~(fault /\ "Invalid" \in unmasked)))

StoreExtended(unmasked, view) ==
    StackUnderflow(unmasked, IsEmpty(view, 0), LAMBDA enabled : PopN(1, enabled))

StoreRegister(unmasked, view, i, pop) ==
    LET fault == IsEmpty(view, 0)
    IN  StackUnderflow(unmasked, fault, LAMBDA enabled :
            <<Write(i, OrIndefinite(view.value[0], fault), enabled)>>
              \o PopN(IF pop THEN 1 ELSE 0, enabled))

Exchange(unmasked, view, i) ==
    StackUnderflow(unmasked, IsEmpty(view, 0) \/ IsEmpty(view, i), LAMBDA enabled :
        <<Write(0, OrIndefinite(view.value[i], IsEmpty(view, i)), enabled),
          Write(i, OrIndefinite(view.value[0], IsEmpty(view, 0)), enabled)>>)

ChangeSign(unmasked, view) ==
    LET fault == IsEmpty(view, 0)
    IN  StackUnderflow(unmasked, fault, LAMBDA enabled :
            <<Write(0, OrIndefinite(view.value[0], fault), enabled)>>)

(* Both operands are needed even when the condition does not hold.         *)
MoveRegister(unmasked, view, i, condition) ==
    LET fault == IsEmpty(view, 0) \/ IsEmpty(view, i)
    IN  StackUnderflow(unmasked, fault, LAMBDA enabled :
            <<WriteWhen(view, 0, OrIndefinite(view.value[i], fault), condition \/ fault, enabled)>>)

FreeRegister(i) == Response({}, FALSE, <<Free(i, TRUE)>>)
RotateStack(delta) == Response({}, FALSE, <<Move(delta, TRUE)>>)
Examine == Response({}, FALSE, <<>>)

(* Comparisons: unmasked operand exceptions keep the stack.                *)
Compare(unmasked, fault, operand, pops) ==
    LET raised == IF fault THEN {"Invalid"} ELSE operand
    IN  Response(raised, fault, PopN(pops, raised \cap unmasked = {}))

(* Calculations on registers: destination, sources, whether it pops.       *)
Calculate(unmasked, view, result, dest, sources, pop) ==
    WriteResults(unmasked, <<result>>, \E s \in sources : IsEmpty(view, s),
        LAMBDA values, enabled : <<Write(dest, values[1], enabled)>>
                                   \o PopN(IF pop THEN 1 ELSE 0, enabled))

(* One angle: out of range, it leaves the stack.                           *)
Trigonometric(unmasked, view, result, outside) ==
    LET fault == IsEmpty(view, 0)
    IN  WriteResults(unmasked, <<result>>, fault, LAMBDA values, enabled :
            <<WriteWhen(view, 0, values[1], ~outside \/ fault, enabled)>>)

(* Two results: the first replaces the top, the second is pushed on it.    *)
PushPair(unmasked, view, results, certain, outside) ==
    LET fault == IsEmpty(view, 0) \/ ~IsEmpty(view, N - 1)
        when == ~outside \/ fault
    IN  WriteResults(unmasked, results, fault, LAMBDA values, enabled :
            <<WriteWhen(view, 0, values[1], when, enabled)>>
              \o PushWhen(values[2], when, certain, enabled))

(* An exact tiny remainder underflows only when that is unmasked.          *)
Remainder(unmasked, view, outcome) ==
    LET fault == IsEmpty(view, 0) \/ IsEmpty(view, 1)
        result == OfFault(outcome, fault)
        enabled == result.raised \cap unmasked = {}
        underflow == enabled /\ result.tiny /\ "Underflow" \in unmasked
    IN  Response(result.raised \cup Raise("Underflow", underflow), fault,
                 <<Write(0, ResolveRange(result, underflow).value, enabled)>>)

-----------------------------------------------------------------------------
CONSTANTS Masks,     \* the sets of unmasked exceptions a control word selects
          Starts,    \* the states a program may start from
          MaxSteps   \* bound on the steps

VARIABLES arch, lazy,
          saved,     \* the images last saved, by the eager and the lazy state
          ran,       \* whether the last step was an instruction that computes
          steps

vars == <<arch, lazy, saved, ran, steps>>

None == N          \* no stack position
NoTag == 4
NoWrite == [on |-> FALSE, enabled |-> FALSE, value |-> Indefinite]
NoRegister == [held |-> FALSE, value |-> Indefinite, write |-> NoWrite, tag |-> NoTag, latest |-> NoTag]
NoBank == [on |-> FALSE, origin |-> 0, stackTop |-> None, reset |-> NoTag,
           registers |-> [r \in Index |-> NoRegister]]
NewBank(origin) == [NoBank EXCEPT !.on = TRUE, !.origin = origin]

-----------------------------------------------------------------------------
(* The architectural state: status, TOP, tags and payloads by number.      *)

ApplyStatus(s, response) ==
    [s EXCEPT !.status.raised = @ \cup response.raised,
              !.status.fault = @ \/ response.fault,
              !.status.summary = @ \/ response.raised \cap s.status.unmasked # {}]

Pending(status) == status.raised \cap status.unmasked # {}
(* Mutant: masking the exceptions leaves the summary set.                  *)
SummarisedOnce(status) == [status EXCEPT !.summary = @ \/ Pending(status)]
Summarised(status) == [status EXCEPT !.summary = Pending(status)]

ArchView(s) == [tag |-> [i \in Index |-> s.tags[(s.top + i) % N]],
                value |-> [i \in Index |-> s.values[(s.top + i) % N]]]

(* The registers an effect names are those of the top on entry.            *)
ArchEffects(s, effects) ==
    FoldLeft(LAMBDA t, e :
        LET p == IF e.op \in {"write", "tag"} THEN (s.top + e.index) % N ELSE 0
        IN  CASE e.op = "write" /\ e.enabled ->
                    [t EXCEPT !.values[p] = e.value, !.tags[p] = e.tag]
              [] e.op = "tag" /\ e.enabled -> [t EXCEPT !.tags[p] = Empty]
              [] e.op = "move" /\ e.enabled -> [t EXCEPT !.top = (@ + e.delta) % N]
              [] OTHER -> t, s, effects)

-----------------------------------------------------------------------------
(* The retained state.  Reading caches nothing here: a cached value that   *)
(* was only read is the one the backing state holds.                       *)

Physical(z, r) == (z.bank.origin + r) % N

CurrentTag(z, r) ==
    CASE z.bank.registers[r].tag # NoTag -> z.bank.registers[r].tag
      [] z.bank.reset # NoTag -> z.bank.reset
      [] OTHER -> z.memory.tags[Physical(z, r)]

PayloadRead(z, r) ==
    LET register == z.bank.registers[r]
    IN  IF register.write.on /\ register.write.enabled THEN register.write.value
        ELSE IF register.held THEN register.value
        ELSE z.memory.values[Physical(z, r)]

(* Everything retained, resolved: what publication would store.            *)
Published(z) ==
    IF ~z.bank.on THEN z.memory
    ELSE LET relative(p) == (p - z.bank.origin) % N
         IN  [tags |-> [p \in Index |-> CurrentTag(z, relative(p))],
              values |-> [p \in Index |-> PayloadRead(z, relative(p))]]

RebaseBank(z) == [z EXCEPT !.memory = Published(z), !.bank = NoBank]

(* Finding a register in the bank.  The compiler may or may not see where  *)
(* a register lies relative to the origin (folds); when it does not, the   *)
(* bank is resolved and a new one starts.                                  *)
Locate(z, physical, offset, folds) ==
    IF z.bank.on /\ folds THEN z
    ELSE [RebaseBank(z) EXCEPT !.bank = NewBank(IF folds THEN 0 ELSE (physical - offset) % N)]
Relative(z, physical) == (physical - z.bank.origin) % N

(* The register a stack index names: by the position in the bank when the  *)
(* index is literal and the position known, else from TOP.                 *)
Assumed(z, literal) == literal /\ z.bank.on /\ z.bank.stackTop # None
WithSlot(z, i, build) ==
    IF Assumed(z, build.literal) THEN z
    ELSE LET physical == (z.top + i) % N
             located == Locate(z, physical, IF build.literal THEN i ELSE 0, build.folds)
         IN  IF build.literal
             THEN [located EXCEPT !.bank.stackTop = (Relative(located, physical) - i) % N]
             ELSE located
Slot(z, i, build) ==
    IF Assumed(z, build.literal) THEN (z.bank.stackTop + i) % N
    ELSE Relative(z, (z.top + i) % N)

(* A write under a guard keeps what was there until the guard is settled.  *)
WriteValue(z, r, v, enabled, literal) ==
    LET old == z.bank.registers[r].write
        kept == IF ~literal /\ old.on /\ old.enabled # enabled
                THEN [z EXCEPT !.bank.registers[r].held = TRUE,
                               !.bank.registers[r].value = PayloadRead(z, r)]
                ELSE z
    IN  IF literal /\ enabled
        THEN [z EXCEPT !.bank.registers[r].held = TRUE, !.bank.registers[r].value = v,
                       !.bank.registers[r].write = NoWrite]
        ELSE [kept EXCEPT !.bank.registers[r].write = [on |-> TRUE, enabled |-> enabled, value |-> v]]

SetTag(z, r, t, enabled) ==
    [z EXCEPT !.bank.registers[r].tag = IF enabled THEN t ELSE CurrentTag(z, r),
              !.bank.registers[r].latest = t]

Advance(z, delta, enabled) ==
    LET known == z.bank.on /\ z.bank.stackTop # None
        moved == IF known THEN [z EXCEPT !.bank.stackTop = (@ + delta) % N] ELSE z
        updated == IF known THEN Physical(moved, moved.bank.stackTop) ELSE (z.top + delta) % N
    IN  [moved EXCEPT !.top = IF enabled THEN updated ELSE z.top]

(* No exception was pending: the guarded writes happened.                  *)
DiscardWriteGuards(z) ==
    [z EXCEPT !.bank.registers = [r \in Index |->
        LET register == @[r]
        IN  [register EXCEPT
                !.tag = IF register.latest # NoTag THEN register.latest ELSE @,
                !.latest = NoTag,
                !.held = @ \/ register.write.on,
                !.value = IF register.write.on THEN register.write.value ELSE @,
                !.write = NoWrite]]]

LazyView(z, build) ==
    [tag |-> [i \in Index |-> CurrentTag(z, Slot(z, i, build))],
     value |-> [i \in Index |-> PayloadRead(z, Slot(z, i, build))]]

(* The writes of an instruction name registers of the top on entry; its    *)
(* movement comes last, and so does a resolution.                          *)
LazyEffects(z, effects, build) ==
    FoldLeft(LAMBDA t, e :
        CASE e.op = "write" ->
                LET s == WithSlot(t, e.index, build)
                    r == Slot(s, e.index, build)
                IN  SetTag(WriteValue(s, r, e.value, e.enabled, build.folds), r, e.tag, e.enabled)
          [] e.op = "tag" ->
                LET s == WithSlot(t, e.index, build)
                IN  SetTag(s, Slot(s, e.index, build), Empty, e.enabled)
          [] e.op = "move" -> Advance(t, e.delta, e.enabled)
          [] e.op = "rebase" -> RebaseBank(t), z, effects)

Touch(z, reads, build) == FoldLeft(LAMBDA t, i : WithSlot(t, i, build), z, reads)

(* MMX and FNINIT reset TOP and every tag, and keep the payloads.          *)
Reset(z, tag, folds) ==
    LET b == IF z.bank.on THEN z.bank ELSE NewBank(0)
    IN  [z EXCEPT !.top = 0,
                  !.bank = [b EXCEPT !.stackTop = IF folds THEN (0 - b.origin) % N ELSE None,
                                     !.reset = tag,
                                     !.registers = [r \in Index |->
                                        [b.registers[r] EXCEPT !.tag = NoTag, !.latest = NoTag]]]]

-----------------------------------------------------------------------------
(* Steps.                                                                  *)

Builds == [folds : BOOLEAN, literal : BOOLEAN]
(* A run-time index appears in a handler that starts with nothing retained *)
Buildable(build) == build.literal \/ ~lazy.bank.on

Init ==
    /\ \E s \in Starts :
        /\ arch = s
        /\ lazy = [status |-> s.status, top |-> s.top, bank |-> NoBank,
                   memory |-> [tags |-> s.tags, values |-> s.values]]
        /\ saved = [eager |-> [fx |-> FALSE, status |-> s.status, top |-> s.top, tags |-> s.tags,
                               values |-> ArchView(s).value],
                    lazy |-> [fx |-> FALSE, status |-> s.status, top |-> s.top, tags |-> s.tags,
                              values |-> ArchView(s).value]]
    /\ ran = FALSE
    /\ steps = 0

Step == steps' = steps + 1

(* A waiting instruction: no exception is pending, the guards are          *)
(* discarded, and respond is asked for each of the two states.             *)
Execute(reads, build, respond(_, _)) ==
    LET checked == Touch(DiscardWriteGuards(lazy), reads, build)
        eager == respond(ArchView(arch), arch.status.unmasked)
        mine == respond(LazyView(checked, build), lazy.status.unmasked)
    IN  /\ Step /\ Buildable(build)
        /\ ~arch.status.summary /\ ~lazy.status.summary
        /\ arch' = ArchEffects(ApplyStatus(arch, eager), eager.effects)
        /\ lazy' = LazyEffects(ApplyStatus(checked, mine), mine.effects, build)
        /\ ran' = TRUE
        /\ UNCHANGED saved

Loads ==
    \E build \in Builds :
        \/ \E operand \in {{}, {"Invalid"}, {"Denormal"}} :
            Execute(<<N - 1>>, build, LAMBDA view, unmasked :
                      Load(unmasked, view, "Normal", FALSE, operand))
        \/ \E i \in Index :
            Execute(<<i, N - 1>>, build, LAMBDA view, unmasked :
                      Load(unmasked, view, view.value[i], IsEmpty(view, i), {}))

Stores ==
    \E build \in Builds :
        \/ \E c \in Conversions, pop \in BOOLEAN :
            Execute(<<0>>, build, LAMBDA view, unmasked : Store(unmasked, view, c, pop))
        \/ Execute(<<0>>, build, LAMBDA view, unmasked : StoreExtended(unmasked, view))
        \/ \E i \in Index, pop \in BOOLEAN :
            Execute(<<0>>, build, LAMBDA view, unmasked : StoreRegister(unmasked, view, i, pop))

Transfers ==
    \E build \in Builds :
        \/ \E i \in Index :
            \/ Execute(<<0, i>>, build, LAMBDA view, unmasked : Exchange(unmasked, view, i))
            \/ Execute(<<>>, build, LAMBDA view, unmasked : FreeRegister(i))
            \/ \E condition \in BOOLEAN :
                Execute(<<i, 0>>, build, LAMBDA view, unmasked :
                          MoveRegister(unmasked, view, i, condition))
        \/ Execute(<<0>>, build, LAMBDA view, unmasked : ChangeSign(unmasked, view))
        \/ \E delta \in {-1, 1} : Execute(<<>>, build, LAMBDA view, unmasked : RotateStack(delta))
        \/ Execute(<<0>>, build, LAMBDA view, unmasked : Examine)

Comparisons ==
    \E build \in Builds, operand \in {{}, {"Invalid"}, {"Denormal"}} :
        \/ \E i \in Index, pops \in 0..2 :
            Execute(<<0, i>>, build, LAMBDA view, unmasked :
                      Compare(unmasked, IsEmpty(view, 0) \/ IsEmpty(view, i), operand, pops))
        \/ \E pops \in 0..1 :
            Execute(<<0>>, build, LAMBDA view, unmasked :
                      Compare(unmasked, IsEmpty(view, 0), operand, pops))

BinaryRegister(build, result, dest, source, pop) ==
    Execute(<<dest, source>>, build, LAMBDA view, unmasked :
              Calculate(unmasked, view, result, dest, {dest, source}, pop))
TopFunction(build, result) ==
    Execute(<<0>>, build, LAMBDA view, unmasked : Calculate(unmasked, view, result, 0, {0}, FALSE))
BinaryMemory(build, result) == TopFunction(build, result)
SquareRoot(build, result) == TopFunction(build, result)
RoundIntegral(build, result) == TopFunction(build, result)
ExponentialMinusOne(build, result) == TopFunction(build, result)
Scale(build, result) == BinaryRegister(build, result, 0, 1, FALSE)
Arctangent(build, result) == BinaryRegister(build, result, 1, 0, TRUE)
LogarithmProduct(build, result) == BinaryRegister(build, result, 1, 0, TRUE)

Calculations ==
    \E build \in Builds, result \in Results :
        \/ \E i \in Index, pop \in BOOLEAN :
            \/ BinaryRegister(build, result, 0, i, FALSE)
            \/ BinaryRegister(build, result, i, 0, pop)
        \/ BinaryMemory(build, result) \/ SquareRoot(build, result)
        \/ RoundIntegral(build, result) \/ ExponentialMinusOne(build, result)
        \/ Scale(build, result) \/ Arctangent(build, result) \/ LogarithmProduct(build, result)
        \/ \E outside \in BOOLEAN :
            Execute(<<0>>, build, LAMBDA view, unmasked :
                      Trigonometric(unmasked, view, result, outside))
        \/ Execute(<<0, 1>>, build, LAMBDA view, unmasked : Remainder(unmasked, view, result))

PairCalculations ==
    \E build \in Builds, results \in Pairs, certain, outside \in BOOLEAN :
        /\ certain => ~outside
        /\ Execute(<<0, N - 1>>, build, LAMBDA view, unmasked :
                     PushPair(unmasked, view, results, certain, outside))

(* FNOP and FWAIT, when nothing is pending.                                *)
CheckException ==
    /\ Step
    /\ ~arch.status.summary /\ ~lazy.status.summary
    /\ lazy' = DiscardWriteGuards(lazy)
    /\ ran' = FALSE
    /\ UNCHANGED <<arch, saved>>

LoadControl ==
    \E unmasked \in Masks :
        LET load(s) == [s EXCEPT !.status = Summarised([@ EXCEPT !.unmasked = unmasked])]
        IN  /\ Step
            /\ ~arch.status.summary /\ ~lazy.status.summary
            /\ arch' = load(arch)
            /\ lazy' = load(DiscardWriteGuards(lazy))
            /\ ran' = FALSE
            /\ UNCHANGED saved

(* The controls that do not wait.  One that clears a pending exception     *)
(* proves nothing of the suppressed writes, so it resolves the bank.       *)
Cleared(status) == [status EXCEPT !.raised = {}, !.fault = FALSE, !.summary = FALSE]
FreshStatus(status) == [Cleared(status) EXCEPT !.unmasked = {}]

(* Mutant: clearing the exceptions keeps the assumed stack position.       *)
ClearExceptionsKept ==
    /\ Step
    /\ arch' = [arch EXCEPT !.status = Cleared(@)]
    /\ lazy' = [lazy EXCEPT !.status = Cleared(@)]
    /\ ran' = FALSE
    /\ UNCHANGED saved
ClearExceptions ==
    /\ Step
    /\ arch' = [arch EXCEPT !.status = Cleared(@)]
    /\ lazy' = [RebaseBank(lazy) EXCEPT !.status = Cleared(@)]
    /\ ran' = FALSE
    /\ UNCHANGED saved

ArchInitialize(s) ==
    [s EXCEPT !.status = FreshStatus(@), !.top = 0, !.tags = [p \in Index |-> Empty]]
LazyInitialize(z, folds) == [Reset(RebaseBank(z), Empty, folds) EXCEPT !.status = FreshStatus(@)]

Initialize ==
    \E folds \in BOOLEAN :
        /\ Step
        /\ arch' = ArchInitialize(arch)
        /\ lazy' = LazyInitialize(lazy, folds)
        /\ ran' = FALSE
        /\ UNCHANGED saved

(* Images.  A legacy image classifies the occupied registers, an FXSAVE    *)
(* image only marks them; payloads are in stack order.                     *)
ImageTags(tags, values, fx) ==
    [p \in Index |-> IF tags[p] = Empty THEN Empty ELSE IF fx THEN 0 ELSE Tag(values[p])]
ArchImage(s, fx) ==
    [fx |-> fx, status |-> s.status, top |-> s.top, tags |-> ImageTags(s.tags, s.values, fx),
     values |-> ArchView(s).value]

(* Logical positions follow the actual TOP, not the assumed one.           *)
(* Mutant: they follow the assumed position.                               *)
StackBitsAssumed(z, folds) == Touch(z, <<0>>, [literal |-> TRUE, folds |-> folds])
StackBits(z, folds) ==
    Touch([z EXCEPT !.bank.stackTop = None], <<0>>, [literal |-> TRUE, folds |-> folds])
LazyImage(z, fx) ==
    LET p == Published(z)
    IN  [fx |-> fx, status |-> z.status, top |-> z.top,
         tags |-> ImageTags(p.tags, p.values, fx),
         values |-> LazyView(z, [literal |-> TRUE, folds |-> TRUE]).value]

MaskExceptions(s) == [s EXCEPT !.status = Summarised([@ EXCEPT !.unmasked = {}])]

SaveEnvironment ==
    /\ Step
    /\ arch' = MaskExceptions(arch)
    /\ lazy' = MaskExceptions(RebaseBank(lazy))
    /\ ran' = FALSE
    /\ UNCHANGED saved

SaveState ==
    \E folds \in BOOLEAN :
        LET captured == StackBits(lazy, folds)
        IN  /\ Step
            /\ saved' = [eager |-> ArchImage(arch, FALSE), lazy |-> LazyImage(captured, FALSE)]
            /\ arch' = ArchInitialize(arch)
            /\ lazy' = LazyInitialize(captured, folds)
            /\ ran' = FALSE

FxSave ==
    \E folds \in BOOLEAN :
        LET captured == StackBits(lazy, folds)
        IN  /\ Step
            /\ saved' = [eager |-> ArchImage(arch, TRUE), lazy |-> LazyImage(captured, TRUE)]
            /\ lazy' = captured
            /\ ran' = FALSE
            /\ UNCHANGED arch

(* A restored tag keeps emptiness and classifies what is occupied.         *)
RestoredTag(image, p, value) == IF image.tags[p] = Empty THEN Empty ELSE Tag(value)
ArchRestore(s, image, full) ==
    LET values == IF full THEN [p \in Index |-> image.values[(p - image.top) % N]] ELSE s.values
    IN  [s EXCEPT !.status = Summarised(image.status), !.top = image.top, !.values = values,
                  !.tags = [p \in Index |-> RestoredTag(image, p, values[p])]]

LazyRestoreFull(z, image) ==
    LET fresh == [z EXCEPT !.top = image.top,
                           !.bank = [NewBank(image.top) EXCEPT !.stackTop = 0, !.reset = Empty]]
    IN  FoldLeft(LAMBDA t, i :
            SetTag(WriteValue(t, i, image.values[i], TRUE, TRUE), i,
                   RestoredTag(image, (image.top + i) % N, image.values[i]), TRUE),
            [fresh EXCEPT !.status = Summarised(image.status)], [k \in 1..N |-> k - 1])

(* The payloads stay; the registers are visited by number.                 *)
LazyRestoreEnvironment(z, image, folds) ==
    LET moved == [z EXCEPT !.top = image.top, !.bank.stackTop = None]
        located == Locate(moved, 0, 0, folds)
    IN  FoldLeft(LAMBDA t, p :
            LET r == Relative(t, p)
            IN  SetTag(t, r, RestoredTag(image, p, PayloadRead(t, r)), TRUE),
            [located EXCEPT !.status = Summarised(image.status)], [k \in 1..N |-> k - 1])

LoadEnvironment ==
    \E folds \in BOOLEAN :
        /\ Step
        /\ ~arch.status.summary /\ ~lazy.status.summary
        /\ arch' = ArchRestore(arch, saved.eager, FALSE)
        /\ lazy' = LazyRestoreEnvironment(DiscardWriteGuards(lazy), saved.lazy, folds)
        /\ ran' = FALSE
        /\ UNCHANGED saved

RestoreState ==
    /\ Step
    /\ saved.lazy.fx \/ (~arch.status.summary /\ ~lazy.status.summary)   \* FXRSTOR does not wait
    /\ arch' = ArchRestore(arch, saved.eager, TRUE)
    /\ lazy' = LazyRestoreFull(lazy, saved.lazy)
    /\ ran' = FALSE
    /\ UNCHANGED saved

(* MMX registers are the payloads by number; success fills every tag.      *)
MmxWrite ==
    \E p \in Index, folds \in BOOLEAN :
        LET located == Locate(DiscardWriteGuards(lazy), p, 0, folds)
            written == WriteValue(located, Relative(located, p), "Mmx", TRUE, TRUE)
        IN  /\ Step
            /\ ~arch.status.summary /\ ~lazy.status.summary
            /\ arch' = [arch EXCEPT !.values[p] = "Mmx", !.top = 0, !.tags = [q \in Index |-> 0]]
            /\ lazy' = Reset(written, 0, folds)
            /\ ran' = FALSE
            /\ UNCHANGED saved

EmptyMmx ==
    \E folds \in BOOLEAN :
        /\ Step
        /\ ~arch.status.summary /\ ~lazy.status.summary
        /\ arch' = [arch EXCEPT !.top = 0, !.tags = [q \in Index |-> Empty]]
        /\ lazy' = Reset(DiscardWriteGuards(lazy), Empty, folds)
        /\ ran' = FALSE
        /\ UNCHANGED saved

(* The block is left: at its end, on a fault, on a pending exception or on *)
(* a guard of the specialised code.                                        *)
Publish ==
    /\ lazy.bank.on
    /\ Step
    /\ lazy' = RebaseBank(lazy)
    /\ ran' = FALSE
    /\ UNCHANGED <<arch, saved>>

Next ==
    /\ steps < MaxSteps
    /\ \/ Loads \/ Stores \/ Transfers \/ Comparisons \/ Calculations \/ PairCalculations
       \/ CheckException \/ LoadControl \/ ClearExceptions \/ Initialize
       \/ SaveEnvironment \/ SaveState \/ FxSave \/ LoadEnvironment \/ RestoreState
       \/ MmxWrite \/ EmptyMmx \/ Publish

Spec == Init /\ [][Next]_vars

-----------------------------------------------------------------------------

(* The bank, its guards and its assumed position stand for the registers   *)
(* the architecture has, whatever was suppressed, cleared, saved, restored *)
(* or aliased by MMX (state/x87/registers.rs:133, state/x87.rs:166).       *)
StateIsKept ==
    /\ lazy.status = arch.status
    /\ lazy.top = arch.top
    /\ Published(lazy) = [tags |-> arch.tags, values |-> arch.values]
    /\ saved.lazy = saved.eager

(* What an exception check may assume: a guard that failed, or a movement  *)
(* that did not happen, has left an exception pending                      *)
(* (state/x87/registers/payload.rs:68).                                    *)
SuppressionIsPending ==
    lazy.bank.on /\ ~lazy.status.summary =>
        /\ \A r \in Index :
            /\ lazy.bank.registers[r].write.on => lazy.bank.registers[r].write.enabled
            /\ lazy.bank.registers[r].latest # NoTag =>
                lazy.bank.registers[r].latest = lazy.bank.registers[r].tag
        /\ lazy.bank.stackTop # None => Physical(lazy, lazy.bank.stackTop) = lazy.top

(* ES is set exactly while an exception that was raised is unmasked,       *)
(* whether it was raised first or unmasked first                           *)
(* (state/x87/status.rs:173, state/x87/status.rs:213).                     *)
SummaryIsExact == arch.status.summary = Pending(arch.status)

(* An instruction that meets an unmasked invalid operand or division by    *)
(* zero can be restarted: the registers are as they were                   *)
(* (instruction/definitions/x87/result.rs:91).                             *)
FaultingLeavesRegisters ==
    [][ran' /\ arch'.status.raised \cap arch'.status.unmasked \cap {"Invalid", "ZeroDivide"} # {}
         => arch'.values = arch.values /\ arch'.tags = arch.tags /\ arch'.top = arch.top]_vars
=============================================================================
