------------------------------- MODULE MCDos --------------------------------
(***************************************************************************)
(* DOS, in two specifications.                                             *)
(*                                                                         *)
(* MCSpec, memory and calls: the arena of a program that stores only into  *)
(* its own blocks, a smaller one that stray stores damage, and the calls   *)
(* under way on the CPU.                                                   *)
(*                                                                         *)
(* FilesSpec, the file services on three small disks: handles on two       *)
(* files, a device and a mount over them; a tree of directories on two     *)
(* drives; and two searches of one directory between whose calls files     *)
(* appear, disappear and change.                                           *)
(*                                                                         *)
(* scene says which one a behaviour is about; the others rest.             *)
(***************************************************************************)
EXTENDS DosRequests

CONSTANTS FirstSegment, EndSegment, Environments, Junk,  \* of DosMemory
          Dtas  \* the places the searching program keeps search data

(* A header that looks like a free block in the middle of the arena. *)
LookAlikes == {[marker |-> "M", owner |-> 0, size |-> 1]}

(* What a stray store leaves: no header, or one that ends the arena.       *)
StrayEnd == 4
StrayCells == {Junk, [marker |-> "Z", owner |-> 0, size |-> 2]}

VARIABLES
  scene,
  mem, active, held, result,
  arena, running, granted, answer

memoryVars == <<mem, active, held, result>>
strayVars == <<arena, running, granted, answer>>

Memory == INSTANCE DosMemory
  WITH Requests <- 0..(EndSegment - FirstSegment), Written <- LookAlikes, Strays <- {}

Stray == INSTANCE DosMemory
  WITH EndSegment <- StrayEnd, Requests <- 0..(StrayEnd - FirstSegment),
       Written <- {}, Strays <- StrayCells,
       mem <- arena, active <- running, held <- granted, result <- answer
ASSUME Memory!DosMemoryAssumption /\ Stray!DosMemoryAssumption

VARIABLES
  entries, files, attributes, currentDrive, currentDirectories, handles, records,
  searchDirectories, dtas, nextTemporary, reply, writer, replaced, owed, returned, ended

fileVars == <<entries, files, attributes, currentDrive, currentDirectories, handles, records,
              searchDirectories, dtas, nextTemporary, reply, writer, replaced,
              owed, returned, ended>>

Plain(parts) == [drive |-> "", rooted |-> FALSE, parts |-> parts]
OneFile(name, length) == {[dirs |-> {<<>>}, files |-> <<name>> :> length]}

Handles == INSTANCE DosFiles WITH
  result <- reply,
  Drives <- {"C"}, BootDrive <- "C", NameOrder <- <<"A", "B">>,
  DeviceNames <- {"CON"}, LongNames <- {}, LongPaths <- {}, TemporaryNames <- <<"A">>,
  Specs <- {Plain(<<"A">>), Plain(<<"CON">>)}, DirSpecs <- {},
  SearchMasks <- {}, Patterns <- {}, Dtas <- {},
  Slots <- 2, StandardDevices <- 0, MaxFiles <- 2, MaxDepth <- 0, MaxOpens <- 2,
  Modes <- {<<"r", "write">>, <<"rw", "none">>}, Attributes <- {{}},
  Trees <- OneFile("A", 1), Limit <- 2, Counts <- {0, 1}

Tree == INSTANCE DosFiles WITH
  result <- reply,
  Drives <- {"C", "D"}, BootDrive <- "C", NameOrder <- <<"A", "B", "T">>,
  DeviceNames <- {"CON"}, LongNames <- {}, LongPaths <- {<<"B", "B", "B">>}, TemporaryNames <- <<"T">>,
  Specs <- {Plain(<<"A">>), Plain(<<"B", "..", "B", "A">>), [Plain(<<"A">>) EXCEPT !.drive = "D"]},
  DirSpecs <- {Plain(<<>>), Plain(<<"B">>), Plain(<<"B", "B">>)},
  SearchMasks <- {}, Patterns <- {}, Dtas <- {},
  Slots <- 1, StandardDevices <- 0, MaxFiles <- 1, MaxDepth <- 3, MaxOpens <- 1,
  Modes <- {}, Attributes <- {{}}, Trees <- {[dirs |-> {<<>>}, files |-> <<>>]}, Limit <- 1, Counts <- {0}

Search == INSTANCE DosFiles WITH
  result <- reply,
  Drives <- {"C"}, BootDrive <- "C", NameOrder <- <<"A", "B">>,
  DeviceNames <- {"CON"}, LongNames <- {}, LongPaths <- {}, TemporaryNames <- <<"B">>,
  Specs <- {Plain(<<"A">>), Plain(<<"B">>)}, DirSpecs <- {Plain(<<>>)},
  SearchMasks <- {{"D"}}, Patterns <- {{"A", "B", ".", ".."}},
  Slots <- 0, StandardDevices <- 0, MaxFiles <- 2, MaxDepth <- 1, MaxOpens <- 0,
  Modes <- {}, Attributes <- {{}, {"H"}}, Trees <- OneFile("B", 1), Limit <- 1, Counts <- {0}
ASSUME Handles!FilesAssumption /\ Tree!FilesAssumption /\ Search!FilesAssumption

MCInit ==
  /\ scene \in {"memory", "stray", "calls"}
  /\ Memory!Init /\ Stray!Init /\ Init /\ Handles!Init
  /\ scene # "calls" => file = <<>>

MCNext ==
  /\ \/ scene = "memory" /\ Memory!Next /\ UNCHANGED <<strayVars, vars>>
     \/ scene = "stray" /\ Stray!Next /\ UNCHANGED <<memoryVars, vars>>
     \/ scene = "calls" /\ Next /\ UNCHANGED <<memoryVars, strayVars>>
     \/ scene = "calls" /\ UNCHANGED <<memoryVars, strayVars, vars>>
  /\ UNCHANGED <<scene, fileVars>>

MCSpec ==
  MCInit /\ [][MCNext]_<<scene, memoryVars, strayVars, vars, fileVars>> /\ Fairness

(* The arena is intact and accounted for: live blocks stay where they are, *)
(* all blocks freed leave one free block, the largest size a failed        *)
(* allocation names can be had, a load that passed its checks never        *)
(* panics, and a service reports a chain the program damaged and writes    *)
(* nothing to it (DosMemory).                                              *)
ArenaIsIntact ==
  /\ [](/\ Memory!BlocksAreIntact /\ Memory!NothingLeaks
        /\ Memory!AvailableIsExact /\ Memory!LoadNeverPanics)
  /\ Stray!DamageIsContained

-----------------------------------------------------------------------------
(* What the files run leaves alone: the arenas and the calls.              *)
MemoryRests == Memory!Init /\ Stray!Init /\ Init /\ file = <<>>

FilesInit ==
  /\ scene \in {"handles", "tree", "search"} /\ MemoryRests
  /\ CASE scene = "handles" -> Handles!Init
       [] scene = "tree" -> Tree!Init
       [] scene = "search" -> Search!Init

FilesNext ==
  /\ \/ scene = "handles" /\ Handles!Next
     \/ scene = "tree" /\ Tree!Next
     \/ scene = "search" /\ Search!Next
     \/ UNCHANGED fileVars
  /\ UNCHANGED <<scene, memoryVars, strayVars, vars>>

FilesSpec == FilesInit /\ [][FilesNext]_<<scene, fileVars, memoryVars, strayVars, vars>>

DtaSymmetry == Permutations(Dtas)

(* What DOS remembers by path exists: an open file's path names it until   *)
(* its last handle closes, unless the host replaced it there, and so do    *)
(* the current directories; a search returns no name twice and misses none *)
(* that matched throughout.                                                *)
NamesAreLive ==
  /\ scene = "handles" => Handles!OpenNamesLive
  /\ scene = "tree" => Tree!PlacesExist
  /\ scene = "search" => Search!SearchIsExact

(* While a record denies writing, no later record changes its file, and a  *)
(* call that reports an error has changed nothing a program can see.       *)
CallsAreContained == Handles!DenyIsRespected /\ Handles!FailuresChangeNothing
=============================================================================
