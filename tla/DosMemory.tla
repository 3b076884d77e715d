------------------------------ MODULE DosMemory -----------------------------
(***************************************************************************)
(* The DOS paragraph allocator of crates/dos/src/memory.rs, the start and  *)
(* the end of the root process that use it, and the process's own writes.  *)
(*                                                                         *)
(* Memory is one cell per paragraph.  The chain of memory control blocks   *)
(* (MCBs) lives in it: a cell holds a header, or whatever the program last *)
(* wrote there.  A header left inside a block by an earlier chain stays in *)
(* memory, as it does in the guest.                                        *)
(***************************************************************************)
EXTENDS Integers, SequencesExt

CONSTANTS
  FirstSegment,  \* FIRST_SEGMENT, also the root process's PSP and owner id
  EndSegment,    \* END_SEGMENT, one past the arena
  Requests,      \* paragraph counts programs ask for
  Environments,  \* sizes of environment blocks, in paragraphs
  Junk,          \* a cell that is no header
  Written,       \* cells the program writes inside its own blocks
  Strays         \* cells it writes, by mistake, anywhere in the arena

FirstMcb == FirstSegment - 1
AvailableParagraphs == EndSegment - FirstSegment
Paragraphs == FirstMcb..(EndSegment - 1)
Headers == [marker : {"M", "Z"}, owner : {0, FirstSegment}, size : 0..EndSegment]
Cells == Headers \cup {Junk}

DosMemoryAssumption ==
  /\ FirstSegment \in Nat \ {0} /\ EndSegment \in Nat
  /\ FirstSegment < EndSegment
  /\ Requests \subseteq Nat /\ Environments \subseteq 1..(AvailableParagraphs - 1)
  /\ Written \subseteq Cells /\ Strays \subseteq Cells

VARIABLES
  mem,     \* the arena
  active,  \* a process is running
  held,    \* its blocks: the paragraphs it was granted at each segment
  result   \* what the last operation returned

vars == <<mem, active, held, result>>

Result(by, error, value) == [by |-> by, error |-> error, value |-> value]
Services == {"allocate", "free", "resize"}
Errors == {"none", "InsufficientMemory", "InvalidMemoryBlock", "MemoryCorrupted",
           "LoadError", "panic"}

-----------------------------------------------------------------------------
(* The chain in memory. *)

NextMcb(memory, m) == m + 1 + memory[m].size

(* Mutant: a last header short of the end of the arena is accepted. *)
ValidHeaderShort(memory, m) ==
  /\ memory[m] # Junk
  /\ NextMcb(memory, m) <= EndSegment
  /\ NextMcb(memory, m) = EndSegment => memory[m].marker = "Z"

(* A header is followed only if it is one, stays inside the arena, and is  *)
(* the last exactly when it reaches the end.                               *)
ValidHeader(memory, m) ==
  /\ memory[m] # Junk
  /\ NextMcb(memory, m) <= EndSegment
  /\ memory[m].marker = "Z" <=> NextMcb(memory, m) = EndSegment

(* read_chain: its blocks, or the empty sequence when it is corrupted. *)
ReadChain(memory) ==
  LET chain[m \in Paragraphs] ==
        LET block == [mcb |-> m, owner |-> memory[m].owner, size |-> memory[m].size]
            rest == chain[NextMcb(memory, m)]
        IN  IF ~ValidHeader(memory, m) THEN <<>>
            ELSE IF memory[m].marker = "Z" THEN <<block>>
            ELSE IF rest = <<>> THEN <<>>
            ELSE <<block>> \o rest
  IN  chain[FirstMcb]

WriteChain(memory, blocks) ==
  [p \in Paragraphs |->
     IF \E k \in 1..Len(blocks) : blocks[k].mcb = p
     THEN LET k == CHOOSE k \in 1..Len(blocks) : blocks[k].mcb = p
          IN  [marker |-> IF k = Len(blocks) THEN "Z" ELSE "M",
               owner |-> blocks[k].owner, size |-> blocks[k].size]
     ELSE memory[p]]

Free0(block) == block.owner = 0

(* reset: one free block. *)
Reset(memory) ==
  WriteChain(memory, <<[mcb |-> FirstMcb, owner |-> 0, size |-> AvailableParagraphs]>>)

(* Merge the block after position k into it. *)
Absorb(blocks, k) ==
  RemoveAt([blocks EXCEPT ![k].size = @ + 1 + blocks[k + 1].size], k + 1)

(* Mutant: the merged block's own header paragraph is not counted. *)
CoalesceHeaderless(blocks) ==
  LET Join(done, block) ==
        IF done # <<>> /\ Free0(Last(done)) /\ Free0(block)
        THEN [done EXCEPT ![Len(done)].size = @ + block.size]
        ELSE Append(done, block)
  IN  FoldLeft(Join, <<>>, blocks)

(* coalesce: one pass that folds each free block into a free one before it. *)
Coalesce(blocks) ==
  LET Join(done, block) ==
        IF done # <<>> /\ Free0(Last(done)) /\ Free0(block)
        THEN [done EXCEPT ![Len(done)].size = @ + 1 + block.size]
        ELSE Append(done, block)
  IN  FoldLeft(Join, <<>>, blocks)

(* Mutant: an exact fit is split as well. *)
SplitExact(blocks, k, paragraphs) ==
  LET rest == [mcb |-> blocks[k].mcb + 1 + paragraphs, owner |-> 0,
               size |-> blocks[k].size - paragraphs - 1]
  IN  InsertAt([blocks EXCEPT ![k].size = paragraphs], k + 1, rest)

(* split: the block at k keeps paragraphs, the remainder is free. *)
Split(blocks, k, paragraphs) ==
  IF paragraphs < blocks[k].size
  THEN LET rest == [mcb |-> blocks[k].mcb + 1 + paragraphs, owner |-> 0,
                    size |-> blocks[k].size - paragraphs - 1]
       IN  InsertAt([blocks EXCEPT ![k].size = paragraphs], k + 1, rest)
  ELSE blocks

(* Mutant: a free block counts as the caller's. *)
AllocatedBlockFree(blocks, segment) ==
  SelectInSeq(blocks, LAMBDA b : b.mcb + 1 = segment)

(* allocated_block: the position of the block at segment, or 0. *)
AllocatedBlock(blocks, segment) ==
  SelectInSeq(blocks, LAMBDA b : b.mcb + 1 = segment /\ ~Free0(b))

(* Mutant: the first free block is reported. *)
LargestFreeFirst(blocks) ==
  LET k == SelectInSeq(blocks, Free0) IN IF k = 0 THEN 0 ELSE blocks[k].size

LargestFree(blocks) ==
  Max({0} \cup {blocks[k].size : k \in {k \in 1..Len(blocks) : Free0(blocks[k])}})

-----------------------------------------------------------------------------
(* The services, as what they return and the memory they leave. *)

Return(by, memory, error, value) ==
  [memory |-> memory, result |-> Result(by, error, value)]
Corrupted(by, memory) == Return(by, memory, "MemoryCorrupted", 0)

(* The first free block that is large enough, or 0. *)
FirstFit(blocks, paragraphs) ==
  SelectInSeq(blocks, LAMBDA b : Free0(b) /\ b.size >= paragraphs)

AllocatedAt(memory, blocks, k, paragraphs, owner) ==
  IF k = 0 THEN Return("allocate", memory, "InsufficientMemory", LargestFree(blocks))
  ELSE Return("allocate",
              WriteChain(memory, [Split(blocks, k, paragraphs) EXCEPT ![k].owner = owner]),
              "none", blocks[k].mcb + 1)

AllocatedIn(memory, blocks, paragraphs, owner) ==
  IF blocks = <<>> THEN Corrupted("allocate", memory)
  ELSE AllocatedAt(memory, blocks, FirstFit(blocks, paragraphs), paragraphs, owner)

Allocated(memory, paragraphs, owner) ==
  AllocatedIn(memory, Coalesce(ReadChain(memory)), paragraphs, owner)

FreedIn(memory, blocks, k) ==
  IF blocks = <<>> THEN Corrupted("free", memory)
  ELSE IF k = 0 THEN Return("free", memory, "InvalidMemoryBlock", 0)
  ELSE Return("free", WriteChain(memory, Coalesce([blocks EXCEPT ![k].owner = 0])), "none", 0)

Freed(memory, segment) ==
  LET blocks == ReadChain(memory)
  IN  FreedIn(memory, blocks, AllocatedBlock(blocks, segment))

(* resize: take the free block behind it when more is wanted, even if that *)
(* is not enough, and give back what is too much.                          *)
Grown(blocks, k, paragraphs) ==
  IF paragraphs > blocks[k].size /\ k < Len(blocks) /\ Free0(blocks[k + 1])
  THEN Absorb(blocks, k) ELSE blocks

ResizedAt(memory, grown, k, paragraphs) ==
  IF paragraphs <= grown[k].size
  THEN Return("resize", WriteChain(memory, Coalesce(Split(grown, k, paragraphs))), "none", 0)
  ELSE Return("resize", WriteChain(memory, Coalesce(grown)), "InsufficientMemory", grown[k].size)

ResizedIn(memory, blocks, k, paragraphs) ==
  IF blocks = <<>> THEN Corrupted("resize", memory)
  ELSE IF k = 0 THEN Return("resize", memory, "InvalidMemoryBlock", 0)
  ELSE ResizedAt(memory, Grown(blocks, k, paragraphs), k, paragraphs)

Resized(memory, segment, paragraphs) ==
  LET blocks == Coalesce(ReadChain(memory))
  IN  ResizedIn(memory, blocks, AllocatedBlock(blocks, segment), paragraphs)

-----------------------------------------------------------------------------
Init ==
  /\ mem = Reset([p \in Paragraphs |-> Junk])
  /\ active = FALSE /\ held = [s \in {} |-> 0] /\ result = Result("reset", "none", 0)

(* Mutant: the environment's MCB is forgotten. *)
ProgramShareWhole(environment) == AvailableParagraphs - environment

(* The environment shares the arena with the program: its data and its MCB *)
(* are set aside before the program's share is computed.                   *)
ProgramShare(environment) == AvailableParagraphs - environment - 1

(* process::allocate: check, reset the arena, allocate the program and its *)
(* environment, where a failure is a panic, then write the PSP and the     *)
(* environment into them.  A program is never smaller than its PSP.        *)
Started(program, block, paragraphs, environment) ==
  LET start == block.result.value
      written == {program.result.value} \cup start..(start + environment - 1)
  IN  /\ result' = Result("load", IF "none" # program.result.error
                                     \/ "none" # block.result.error
                                  THEN "panic" ELSE "none", 0)
      /\ mem' = [p \in Paragraphs |-> IF p \in written THEN Junk ELSE block.memory[p]]
      /\ active' = TRUE
      /\ held' = (program.result.value :> paragraphs) @@ (start :> environment)

Load(minimum, maximum, environment) ==
  LET available == ProgramShare(environment)
      paragraphs == Min({Max({minimum, maximum}), available})
  IN  /\ ~active
      /\ \/ /\ minimum > available
            /\ result' = Result("load", "LoadError", 0)
            /\ UNCHANGED <<mem, active, held>>
         \/ /\ minimum <= available
            /\ \E program \in {Allocated(Reset(mem), paragraphs, FirstSegment)} :
               \E block \in {Allocated(program.memory, environment, FirstSegment)} :
                 Started(program, block, paragraphs, environment)

Allocate(paragraphs) ==
  \E call \in {Allocated(mem, paragraphs, FirstSegment)} :
    /\ active
    /\ mem' = call.memory /\ result' = call.result
    /\ held' = IF call.result.error = "none"
               THEN (call.result.value :> paragraphs) @@ held ELSE held
    /\ UNCHANGED active

Free(segment) ==
  \E call \in {Freed(mem, segment)} :
    /\ active
    /\ mem' = call.memory /\ result' = call.result
    /\ held' = IF call.result.error = "none"
               THEN Restrict(held, DOMAIN held \ {segment}) ELSE held
    /\ UNCHANGED active

(* A resize that fails for want of memory still grows the block to the     *)
(* size it reports.                                                        *)
Resize(segment, paragraphs) ==
  \E call \in {Resized(mem, segment, paragraphs)} :
    /\ active
    /\ mem' = call.memory /\ result' = call.result
    /\ held' = CASE call.result.error = "none" -> (segment :> paragraphs) @@ held
                 [] call.result.error = "InsufficientMemory" ->
                      (segment :> call.result.value) @@ held
                 [] OTHER -> held
    /\ UNCHANGED active

(* Process::terminate releases the whole arena. *)
Terminate ==
  /\ active
  /\ mem' = Reset(mem)
  /\ active' = FALSE /\ held' = [s \in {} |-> 0] /\ result' = Result("reset", "none", 0)

Body(segment) == segment..(segment + held[segment] - 1)

(* The program stores into one of its blocks. *)
Store(p, cell) ==
  /\ active /\ \E s \in DOMAIN held : p \in Body(s)
  /\ mem' = [mem EXCEPT ![p] = cell]
  /\ result' = Result("store", "none", 0)
  /\ UNCHANGED <<active, held>>

(* A stray store, which may hit an MCB. *)
StoreAnywhere(p, cell) ==
  /\ active
  /\ mem' = [mem EXCEPT ![p] = cell]
  /\ result' = Result("store", "none", 0)
  /\ UNCHANGED <<active, held>>

Segments == FirstSegment..EndSegment

Service ==
  \/ \E n \in Requests : Allocate(n)
  \/ \E s \in Segments : Free(s)
  \/ \E s \in Segments, n \in Requests : Resize(s, n)

Next ==
  \/ \E low, high \in Requests \ {0}, e \in Environments : Load(low, high, e)
  \/ Service
  \/ Terminate
  \/ \E p \in Paragraphs, c \in Written : Store(p, c)
  \/ \E p \in Paragraphs, c \in Strays : StoreAnywhere(p, c)

Spec == Init /\ [][Next]_vars

-----------------------------------------------------------------------------
(* Type invariant. *)
TypeOK ==
  /\ mem \in [Paragraphs -> Cells]
  /\ active \in BOOLEAN
  /\ DOMAIN held \subseteq Segments
  /\ \A s \in DOMAIN held : held[s] \in 0..AvailableParagraphs
  /\ result.by \in Services \cup {"load", "store", "reset"}
  /\ result.error \in Errors /\ result.value \in 0..EndSegment

(* The MCBs at the positions S tile the arena from its first paragraph to  *)
(* its end, and only the last one is marked 'Z'.                           *)
Tiles(memory, S) ==
  /\ FirstMcb \in S
  /\ \A m \in S : /\ memory[m] # Junk
                  /\ LET next == m + 1 + memory[m].size
                     IN  IF memory[m].marker = "Z" THEN next = EndSegment
                         ELSE next \in S

WellFormed(memory) == \E S \in SUBSET Paragraphs : Tiles(memory, S)

(* While the program stores only into its own blocks the chain tiles the   *)
(* arena, whatever stale headers those blocks contain, and each block the  *)
(* program holds is still an allocated block of the size it was granted:   *)
(* no sequence of calls moves, shrinks or gives away live memory.          *)
BlocksAreIntact ==
  \E S \in SUBSET Paragraphs :
    /\ Tiles(mem, S) /\ \A m \in S \ {FirstMcb} : \E b \in S : m = b + 1 + mem[b].size
    /\ \A s \in DOMAIN held :
         s - 1 \in S /\ mem[s - 1].size = held[s] /\ mem[s - 1].owner = FirstSegment

(* The amount a failed allocation reports is the largest that can be had:  *)
(* a request for it succeeds and one paragraph more fails.                 *)
AvailableIsExact ==
  result.by = "allocate" /\ result.error = "InsufficientMemory" =>
    LET Grants(n) == Allocated(mem, n, FirstSegment).result.error = "none"
    IN  (result.value > 0 => Grants(result.value)) /\ ~Grants(result.value + 1)

(* Once the program has freed everything, the arena is one free block.     *)
NothingLeaks ==
  DOMAIN held = {} =>
    mem[FirstMcb] = [marker |-> "Z", owner |-> 0, size |-> AvailableParagraphs]

(* A start that passed its checks never fails an allocation afterwards     *)
(* ("validated root-process allocation").                                  *)
LoadNeverPanics == result.error # "panic"

(* A chain a stray store has damaged is reported, not followed: a service  *)
(* called on a malformed chain changes nothing, and one called on a well-  *)
(* formed chain, even one the program forged, leaves a well-formed chain.  *)
DamageIsContained ==
  [][result'.by \in Services =>
       IF WellFormed(mem) THEN WellFormed(mem')
       ELSE mem' = mem /\ result'.error = "MemoryCorrupted"
    ]_vars
=============================================================================
