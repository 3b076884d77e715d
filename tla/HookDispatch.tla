---------------------------- MODULE HookDispatch ----------------------------
(***************************************************************************)
(* Installation and dispatch of hooks for one CPU: the host services and   *)
(* their ids (machine/src/runtime/dispatch/hooks.rs), the Wasm function    *)
(* table and the address map (dispatch/table.rs), and the open-addressed   *)
(* rows the generated dispatcher searches (x86/src/compile/dispatch).      *)
(*                                                                         *)
(* An installation holds the CPU exclusively: compiling and instantiating  *)
(* may fail or be cancelled, before anything has changed; the rest is one  *)
(* step.  A reserved function-table slot can always be set.                *)
(***************************************************************************)
EXTENDS Naturals, Sequences, FiniteSets, SequencesExt, FiniteSetsExt

CONSTANTS
  Addresses,   \* guest addresses hooks are installed at
  Handlers,    \* host handlers
  Blocks,      \* Wasm blocks, of hooks or of whole modules
  Hash(_),     \* the hash of an address
  MinCapacity, \* slots the function table starts with
  Interpreter, \* the interpreter's entry
  None

FirstDynamicSlot == 2
InterpreterSlot == 1

VARIABLES
  ids,        \* address -> service id, for addresses that had a host hook
  handlers,   \* the handler of each id, or None; ids count from 0
  addresses,  \* address -> slot
  nextSlot,
  capacity,   \* of the function table
  functions,  \* slot -> what the function does: [kind, value]
  rows,       \* the published rows: sequence of [address, slot], slot 0 free
  installed   \* history: address -> what was last installed there

vars == <<ids, handlers, addresses, nextSlot, capacity, functions, rows, installed>>

HostStub(id) == [kind |-> "host", value |-> id]
BlockFunction(block) == [kind |-> "block", value |-> block]

-----------------------------------------------------------------------------
(* EntryTable::to_bytes: at most half the rows are taken, so a search ends.*)
PowerOfTwoFrom(n) == CHOOSE p \in {2^i : i \in 0..n} : p >= n /\ \A q \in {2^i : i \in 0..n} : q >= n => p <= q
RowCount(entries) == PowerOfTwoFrom(Max({2, 2 * Cardinality(DOMAIN entries)}))
EmptyRows(n) == [i \in 1..n |-> [address |-> None, slot |-> 0]]

(* Rows in the order a search for the address visits them.                 *)
Probe(table, address, i) == ((Hash(address) + i) % Len(table)) + 1
FirstProbe(table, address, stops) ==
  Probe(table, address, CHOOSE i \in 0..(Len(table) - 1) :
    /\ Probe(table, address, i) \in stops
    /\ \A j \in 0..(i - 1) : Probe(table, address, j) \notin stops)
FreeRows(table) == {i \in DOMAIN table : table[i].slot = 0}

(* Mutant: an entry always goes to the first row of its search.            *)
PlaceFirst(table, address, slot) ==
  [table EXCEPT ![Probe(table, address, 0)] = [address |-> address, slot |-> slot]]

Place(table, address, slot) ==
  [table EXCEPT ![FirstProbe(table, address, FreeRows(table))] =
     [address |-> address, slot |-> slot]]

ToRows(entries) ==
  FoldLeft(LAMBDA table, address : Place(table, address, entries[address]),
           EmptyRows(RowCount(entries)), SetToSortSeq(DOMAIN entries, <))

(* Dispatch::lookup                                                        *)
Lookup(address) ==
  LET found == {i \in DOMAIN rows : rows[i].address = address}
      row == rows[FirstProbe(rows, address, FreeRows(rows) \cup found)]
  IN  IF row.slot = 0 THEN InterpreterSlot ELSE row.slot

-----------------------------------------------------------------------------
NoEntries == [a \in {} |-> 0]

Init ==
  /\ ids = NoEntries /\ handlers = <<>>
  /\ addresses = NoEntries /\ nextSlot = FirstDynamicSlot /\ capacity = MinCapacity
  /\ functions = [s \in {InterpreterSlot} |-> [kind |-> "interpreter", value |-> Interpreter]]
  /\ rows = EmptyRows(RowCount(NoEntries))
  /\ installed = [a \in Addresses |-> Interpreter]

(* The last hook at an address wins.                                       *)
Collapse(hooks) ==
  [a \in {hooks[i].address : i \in DOMAIN hooks} |->
     hooks[Max({i \in DOMAIN hooks : hooks[i].address = a})].does]

(* The new members of a set in increasing order, numbered from a start.    *)
Numbered(known, wanted, start) ==
  LET new == SetToSortSeq(wanted \ DOMAIN known, <)
  IN  [a \in wanted |-> IF a \in DOMAIN known THEN known[a]
                        ELSE start + (CHOOSE i \in DOMAIN new : new[i] = a) - 1]

(* Hooks::compile: ids for the host hooks, reused or new.                  *)
HostIds(batch) == Numbered(ids, {a \in DOMAIN batch : batch[a] \in Handlers}, Len(handlers))
Compiled(batch) ==
  [a \in DOMAIN batch |-> IF batch[a] \in Handlers THEN HostStub(HostIds(batch)[a])
                          ELSE BlockFunction(batch[a])]

(* Mutant: an overwritten handler is kept.                                 *)
ReleaseNone(list, removed) == list

(* Hooks::remove, then Hooks::install for the host hooks of the batch.     *)
Release(list, removed) ==
  [i \in DOMAIN list |-> IF \E a \in removed \cap DOMAIN ids : ids[a] = i - 1 THEN None ELSE list[i]]

InstallHandlers(batch) ==
  LET given == HostIds(batch)
      kept == Release(handlers, DOMAIN batch)
      count == Max({Len(handlers)} \cup {given[a] + 1 : a \in DOMAIN given})
      Given(i) == {a \in DOMAIN given : given[a] = i - 1}
  IN  [i \in 1..count |-> IF Given(i) # {} THEN batch[CHOOSE a \in Given(i) : TRUE]
                          ELSE IF i <= Len(kept) THEN kept[i] ELSE None]

Merge(f, g) == [x \in DOMAIN f \cup DOMAIN g |-> IF x \in DOMAIN g THEN g[x] ELSE f[x]]

(* DispatchTable::install: slots for the batch and the space they need.    *)
Slots(batch) == Numbered(addresses, DOMAIN batch, nextSlot)
NextSlot(batch) == Max({nextSlot} \cup {Slots(batch)[a] + 1 : a \in DOMAIN batch})
Capacity(batch) ==
  IF NextSlot(batch) > capacity THEN Max({NextSlot(batch), 2 * capacity}) ELSE capacity

Install(hooks) ==
  LET batch == Collapse(hooks)
      slots == Slots(batch)
      stubs == Compiled(batch)
  IN  /\ capacity' = Capacity(batch) /\ nextSlot' = NextSlot(batch)
      /\ functions' = Merge(functions, [s \in {slots[a] : a \in DOMAIN batch} |->
                              stubs[CHOOSE a \in DOMAIN batch : slots[a] = s]])
      /\ addresses' = Merge(addresses, slots)
      /\ rows' = ToRows(addresses')
      /\ handlers' = InstallHandlers(batch)
      /\ ids' = Merge(ids, HostIds(batch))
      /\ installed' = Merge(installed, batch)

(* The table grows and the memory for the rows does not.                   *)
InstallFails(hooks) ==
  /\ capacity' = Capacity(Collapse(hooks))
  /\ UNCHANGED <<ids, handlers, addresses, nextSlot, functions, rows, installed>>

Hook == [address : Addresses, does : Handlers \cup Blocks]
HookBatches == {<<h>> : h \in Hook} \cup (Hook \X Hook)

Next == \E hooks \in HookBatches : Install(hooks) \/ InstallFails(hooks)

Spec == Init /\ [][Next]_vars

-----------------------------------------------------------------------------
(* What runs when the guest reaches an address: the dispatcher's function, *)
(* and for a host stub the handler registered under its id.                *)
Runs(address) ==
  LET f == functions[Lookup(address)]
  IN  IF f.kind = "host" THEN handlers[f.value + 1] ELSE f.value

(* A batch of installations takes effect as a whole or not at all:         *)
(* whatever was installed, failed, or replaced before, and wherever the    *)
(* search for a row had to move on, each address runs what was last        *)
(* installed there (DispatchTable::install, Hooks::install, lookup).       *)
InstallsAtomically == \A a \in Addresses : Runs(a) = installed[a]

(* A handler that was overwritten is released with what it captured: one   *)
(* that is still held is the behaviour of an address.                      *)
CapturesAreReleased ==
  \A i \in DOMAIN handlers : handlers[i] # None =>
    \E a \in DOMAIN ids : ids[a] = i - 1 /\ Runs(a) = handlers[i] /\ functions[addresses[a]] = HostStub(i - 1)
=============================================================================
