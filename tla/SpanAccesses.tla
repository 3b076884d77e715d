---------------------------- MODULE SpanAccesses ----------------------------
(***************************************************************************)
(* The access proofs one execution path of generated code keeps            *)
(* (crates/x86/src/memory/accesses.rs): a read and a write anchor, the     *)
(* first resolved access of each kind, which later accesses reuse when     *)
(* they start at the same expression or stay in the anchor's page.  A      *)
(* child region inherits its parent's anchors and its own must not escape, *)
(* for the code of a region that is not taken never ran.  A loop keeps one *)
(* page entry (memory/page_table/cache.rs).  The host changes the page     *)
(* table between entries only.                                             *)
(*                                                                         *)
(* "env" gives the runtime value of each address expression of the entry;  *)
(* two expressions may have one value.                                     *)
(***************************************************************************)
EXTENDS GuestSpans

CONSTANTS Names, Tables, Starts, ProbeLengths, MaxDepth

Lengths == {n \in 1..PageBytes : n <= 4}

VARIABLES table, env, anchors, taken, cache

vars == <<table, env, anchors, taken, cache>>

None == [held |-> FALSE]

NoAnchors == [read |-> None, write |-> None]

(* PageCache::EMPTY: a key no page has.                                    *)
EmptyCache == [page |-> Pages, entry |-> Unmapped]

(* The entry is over: its proofs and its cache go with it.                 *)
Exit ==
    /\ anchors' = <<NoAnchors>>
    /\ taken' = <<>>
    /\ cache' = EmptyCache
    /\ UNCHANGED <<table, env>>

(* The host may have changed the table before it enters again.             *)
Enter ==
    /\ taken = <<>>
    /\ table' \in Tables
    /\ env' \in [Names -> Starts]
    /\ taken' = <<TRUE>>
    /\ UNCHANGED <<anchors, cache>>

Init ==
    /\ table \in Tables
    /\ env \in [Names -> Starts]
    /\ anchors = <<NoAnchors>>
    /\ taken = <<TRUE>>
    /\ cache = EmptyCache

Top == anchors[Len(anchors)]

(* Whether the code being built is also reached at run time.               *)
Live == taken # <<>> /\ \A i \in DOMAIN taken : taken[i]

(* An access the path has checked at the same expression covers every      *)
(* narrower one it permits.                                                *)
SameSpan(name, bytes, intent) ==
    {a \in {Top.write, Top.read} :
        /\ a.held
        /\ a.name = name
        /\ a.access.bytes >= bytes
        /\ intent = "write" => a.access.intent = "write"}

AnchorFor(intent) ==
    IF intent = "write" THEN Top.write
    ELSE IF Top.read.held THEN Top.read ELSE Top.write

(* One unsigned test covers the whole span, wrapped ones included.         *)
Fits(anchor, start, bytes) ==
    Wrap(start - (anchor.access.linear - InPage(anchor.access.linear)))
        < PageBytes - bytes + 1

AnchoredAccess(anchor, start, bytes, intent) ==
    IF Fits(anchor, start, bytes)
    THEN [linear |-> start, bytes |-> bytes, intent |-> intent,
          physical |-> anchor.access.physical - InPage(anchor.access.physical)
                         + InPage(start),
          scattered |-> FALSE, fault |-> NoFault]
    ELSE Access(table, start, bytes, intent)

(* Accesses::resolve: the write anchor is looked at first.                 *)
Resolve(name, bytes, intent) ==
    LET start == env[name]
        same == SameSpan(name, bytes, intent)
        known == IF Top.write \in same THEN Top.write ELSE Top.read
        anchor == AnchorFor(intent)
    IN IF same # {}
       THEN [known.access EXCEPT !.bytes = bytes, !.intent = intent]
       ELSE IF anchor.held THEN AnchoredAccess(anchor, start, bytes, intent)
       ELSE Access(table, start, bytes, intent)

Retained(name, bytes, intent, access) ==
    LET kind == IF intent = "write" THEN "write" ELSE "read"
    IN IF SameSpan(name, bytes, intent) # {} \/ Top[kind].held THEN anchors
       ELSE [anchors EXCEPT ![Len(anchors)][kind] =
                [held |-> TRUE, name |-> name, access |-> access]]

(* A resolved access that faults leaves the entry.  Code in a region that  *)
(* is not taken is built all the same and its proof kept for the region;   *)
(* nothing it would compute exists at run time.                            *)
Use(name, bytes, intent) ==
    LET access == Resolve(name, bytes, intent)
    IN /\ taken # <<>>
       /\ IF Live /\ access.fault.raised
          THEN Exit
          ELSE
            /\ anchors' = Retained(name, bytes, intent, [access EXCEPT !.fault = NoFault])
            /\ UNCHANGED <<table, env, taken, cache>>

(* nested_builder: the child has a copy of the parent's proofs.            *)
EnterRegion(runs) ==
    /\ taken # <<>>
    /\ Len(anchors) < MaxDepth
    /\ anchors' = Append(anchors, Top)
    /\ taken' = Append(taken, runs)
    /\ UNCHANGED <<table, env, cache>>

(* Mutant: the parent goes on with the proofs of its child.                *)
LeaveRegionKeeping ==
    /\ Len(anchors) > 1
    /\ anchors' = Append(SubSeq(anchors, 1, Len(anchors) - 2), Top)
    /\ taken' = SubSeq(taken, 1, Len(taken) - 1)
    /\ UNCHANGED <<table, env, cache>>

LeaveRegion ==
    /\ Len(anchors) > 1
    /\ anchors' = SubSeq(anchors, 1, Len(anchors) - 1)
    /\ taken' = SubSeq(taken, 1, Len(taken) - 1)
    /\ UNCHANGED <<table, env, cache>>

(* PageCache::lookup                                                       *)
Cached(address) ==
    IF cache.page = address \div PageBytes THEN cache.entry ELSE Entry(table, address)

(* check_direct_access of a fetch window: a denied segment skips the       *)
(* lookup and keeps the cache.                                             *)
Probe(name, denied) ==
    /\ Live
    /\ cache' = IF denied THEN cache
                ELSE [page |-> env[name] \div PageBytes, entry |-> Cached(env[name])]
    /\ UNCHANGED <<table, env, anchors, taken>>

(* The entry returns to the host.                                          *)
Finish == Live /\ Exit

Next ==
    \/ \E name \in Names, bytes \in Lengths, intent \in {"read", "write"} :
           Use(name, bytes, intent)
    \/ \E runs \in BOOLEAN : EnterRegion(runs)
    \/ LeaveRegion
    \/ \E name \in Names, denied \in BOOLEAN : Probe(name, denied)
    \/ Finish
    \/ Enter

Spec == Init /\ [][Next]_vars

-----------------------------------------------------------------------------
(* Whatever proofs the path holds, the next access is exact: it faults     *)
(* with the address and code of the first byte it may not touch, and       *)
(* otherwise moves, for each of its bytes, the backing byte the page table *)
(* names: whole, by field, by masked byte and atomically                   *)
(* (Accesses::resolve, VirtualMemory::read, write and atomic_update).      *)
SpansAreExact ==
    Live =>
        \A name \in Names, bytes \in Lengths, intent \in {"read", "write"} :
            LET access == Resolve(name, bytes, intent)
                bytewise == Translated(table, env[name], bytes)
            IN /\ access.fault = BytewiseFault(table, env[name], bytes, intent)
               /\ ~access.fault.raised =>
                    /\ FieldPlaces(table, access, 0, bytes) = bytewise
                    /\ \A i \in 0..(bytes - 1) :
                           FieldPlaces(table, access, i, 1) = <<bytewise[i + 1]>>
                    /\ intent = "write" /\ PowerOfTwo(bytes) =>
                           AtomicPlaces(table, access) = bytewise

(* A non-faulting probe says a span may be moved as one block exactly when *)
(* each of its bytes may be touched and the backing is consecutive, with   *)
(* the loop's page cache and for lengths known and unknown to the compiler *)
(* (VirtualMemory::resolve_access without a handler, PageCache::lookup).   *)
ProbesAreExact ==
    \A name \in Names :
        LET start == env[name]
            first == Cached(start)
            places == Translated(table, start, Space)
            run == Max({n \in 1..Space : \A i \in 1..n : places[i] = places[1] + i - 1})
        IN \A intent \in {"read", "write"} :
              LET fault == BytewiseFault(table, start, Space, intent)
                  reach == IF fault.raised THEN Wrap(fault.address - start) ELSE Space
              IN \A bytes \in ProbeLengths :
                    LET range == ProbeRange(table, start, bytes, intent)
                        known == ProbeKnown(table, first, start, bytes, intent)
                        denied == bytes \notin 1..reach
                        direct == ~denied /\ bytes <= run
                    IN /\ range.denied = denied
                       /\ range.unavailable = ~direct
                       /\ bytes <= PageBytes =>
                             known.denied = denied /\ known.unavailable = ~direct
=============================================================================
