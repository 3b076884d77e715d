------------------------------ MODULE DosFiles ------------------------------
(***************************************************************************)
(* The DOS file services (crates/dos/src/files) over the in-memory file    *)
(* systems of crates/vfs: paths, open records shared by duplicated         *)
(* handles, sharing modes, attributes, current directories and searches    *)
(* whose position lives in the guest's DTA.  Every INT 21h call runs to    *)
(* its end before the next one, and the host mounts between two calls.     *)
(*                                                                         *)
(* A name is a model value; what a file holds is abstracted to its length, *)
(* a search pattern to the set of 8.3 names it matches, and the error a    *)
(* failed call returns to "Err".                                           *)
(***************************************************************************)
EXTENDS Integers, Sequences, FiniteSets, SequencesExt, FiniteSetsExt, FiniteSetTheorems, TLAPS

CONSTANTS
    Drives,             \* the letters with a mounted file system
    BootDrive,          \* C:
    NameOrder,          \* file and directory names, in the byte order read_dir lists
    DeviceNames,        \* names whose stem is a character device
    LongNames,          \* names without an 8.3 form
    LongPaths,          \* paths below a drive of 64 bytes or more, as names
    TemporaryNames,     \* what the temporary counter generates, in order
    Specs,              \* the paths guests write: [drive, rooted, parts]
    DirSpecs,           \* the ones they pass to the directory calls
    SearchMasks,        \* the attributes they search for
    Patterns,           \* what search patterns match: sets of names
    Slots,              \* HANDLE_COUNT
    StandardDevices,    \* handles a process starts with
    Modes,              \* the open modes guests pass: <<access, sharing>>
    Attributes,         \* the attribute sets guests pass
    Trees,              \* file systems the host mounts: [dirs, lengths by path]
    Limit,              \* 2^32: cursors and sizes are u32
    Counts,             \* lengths of transfers, offsets of seeks and sizes the host mounts
    MaxFiles, MaxOpens, \* bounds on files and open records ever made
    MaxDepth,           \* bound on directories below directories
    Dtas                \* places guest programs keep search data

FilesAssumption ==
    /\ Slots \in Nat /\ Limit \in Nat \ {0} /\ Counts \subseteq Nat
    /\ \A tree \in Trees :
        /\ IsFiniteSet(DOMAIN tree.files)
        /\ \A rel \in DOMAIN tree.files : tree.files[rel] \in Nat

VARIABLES
    entries,            \* [drive, rel] -> Dir or a file's number
    files,              \* file number -> [len, readOnly]
    attributes,         \* [drive, rel] -> the attributes DOS keeps itself
    currentDrive, currentDirectories,
    handles,            \* slot -> an index of records, Device or Vacant
    records,            \* FileHandle states in the order of their opens
    searchDirectories,  \* <<[path, names] or Discarded, ...>>
    dtas,               \* DTA -> [directory, next, pattern, attributes] or NoSearch
    nextTemporary,      \* next_temporary_name, an index of TemporaryNames
    result,             \* what the last call returned: "Ok" or "Err"
    writer,             \* the record whose write made the last step, or 0
    replaced,           \* history: the files the host took out of their place
    owed, returned, ended  \* history of the search in each DTA

disk   == <<entries, files, attributes>>
places == <<currentDrive, currentDirectories>>
open   == <<handles, records>>
search == <<searchDirectories, dtas>>
spoken == <<owed, returned, ended>>
vars   == <<disk, places, open, search, nextTemporary, result, writer, replaced, spoken>>

Dir == 0
Vacant == 0
Device == 0 - 1
Closed == [file |-> 0]
Discarded == [names |-> <<>>]
NoSearch == [directory |-> 0]
READ_ONLY == "R"
HIDDEN == "H"
SYSTEM == "S"
ARCHIVE == "A"
DIRECTORY == "D"
VOLUME == "V"
mutable == {READ_ONLY, HIDDEN, SYSTEM, ARCHIVE}

\* Maps by path: one path set, some removed, and one map over another.
Put(f, p, v) == [q \in DOMAIN f \cup {p} |-> IF q = p THEN v ELSE f[q]]
Without(f, keys) == [k \in DOMAIN f \ keys |-> f[k]]
Over(f, g) == [q \in DOMAIN f \cup DOMAIN g |-> IF q \in DOMAIN f THEN f[q] ELSE g[q]]
-----------------------------------------------------------------------------
(* Paths. *)

parent(p) == [p EXCEPT !.rel = SubSeq(@, 1, Len(@) - 1)]

drive(spec) == IF spec.drive = "" THEN currentDrive ELSE spec.drive

\* ".." drops a component, "." and "" none; a rooted path ignores the directory.
resolve(spec) ==
    [drive |-> drive(spec),
     rel |-> FoldLeft(LAMBDA at, part : CASE part \in {"", "."} -> at
                                          [] part = ".." -> SubSeq(at, 1, Len(at) - 1)
                                          [] OTHER -> Append(at, part),
                      IF spec.rooted THEN <<>> ELSE currentDirectories[drive(spec)],
                      spec.parts)]

Resolvable(spec) == drive(spec) \in Drives

\* A file's path ends in a name.
IsFilePath(spec) ==
    /\ Resolvable(spec)
    /\ spec.parts # <<>> /\ Last(spec.parts) \notin {"", ".", ".."}

is_dir(p)  == p \in DOMAIN entries /\ entries[p] = Dir
is_file(p) == p \in DOMAIN entries /\ entries[p] # Dir
Exists(p)  == p \in DOMAIN entries

Children(p) == {q \in DOMAIN entries : q.rel # <<>> /\ parent(q) = p}

can_read(access)  == access # "w"
can_write(access) == access # "r"
-----------------------------------------------------------------------------
(* Open records and handles. *)

Open == {r \in DOMAIN records : \E s \in DOMAIN handles : handles[s] = r}

is_open(f) == \E r \in Open : records[r].file = f

NewRecord(f, p, access, sharing) ==
    [file |-> f, path |-> p, position |-> 0, access |-> access,
     denyRead |-> sharing \in {"all", "read"}, denyWrite |-> sharing \in {"all", "write"},
     compatibility |-> sharing = "compatibility", written |-> FALSE]

(* Mutant: a writer is let in beside a record that denies writing. *)
ConflictsOnRead(old, new, readOnly) ==
    old.file = new.file /\ can_read(new.access) /\ old.denyRead

conflicts_with(old, new, readOnly) ==
    /\ old.file = new.file
    /\ \/ can_read(new.access) /\ old.denyRead
       \/ can_write(new.access) /\ old.denyWrite
       \/ new.denyRead /\ new.denyWrite
       \/ /\ old.compatibility # new.compatibility
          /\ ~(readOnly /\ ~can_write(old.access) /\ ~can_write(new.access))

HasVacancy == \E s \in DOMAIN handles : handles[s] = Vacant
vacant_handle == CHOOSE s \in DOMAIN handles :
    handles[s] = Vacant /\ \A t \in DOMAIN handles : t < s => handles[t] # Vacant

Insertable(new, readOnly) ==
    HasVacancy /\ ~ \E r \in Open : conflicts_with(records[r], new, readOnly)

\* A record lives while a handle refers to it.
Kept(recs, slots) ==
    [r \in DOMAIN recs |-> IF \E s \in DOMAIN slots : slots[s] = r THEN recs[r] ELSE Closed]

\* Closing publishes the archive attribute, unless the path names another file by now.
Committed(attrs, rec) ==
    IF rec # Closed /\ rec.written /\ is_file(rec.path) /\ entries[rec.path] = rec.file
    THEN Put(attrs, rec.path,
             (IF rec.path \in DOMAIN attrs THEN attrs[rec.path] ELSE {}) \cup {ARCHIVE})
    ELSE attrs

CommitSlot(slot) ==
    IF handles[slot] \in DOMAIN records THEN Committed(attributes, records[handles[slot]])
    ELSE attributes
-----------------------------------------------------------------------------
Fail ==
    /\ result' = "Err" /\ writer' = 0
    /\ UNCHANGED <<disk, places, open, search, nextTemporary, replaced>>

Reply == result' = "Ok" /\ writer' = 0

LimitOpens == Len(records) < MaxOpens
LimitFiles == Len(files) < MaxFiles

\* Opens a record at the first vacant handle, over the records and handles of now.
Insert(new) ==
    /\ records' = Append(records, new)
    /\ handles' = [handles EXCEPT ![vacant_handle] = Len(records) + 1]

NamesDevice(spec) == spec.parts # <<>> /\ Last(spec.parts) \in DeviceNames

OpenDevice(spec) ==
    IF IsFilePath(spec) /\ is_dir(parent(resolve(spec))) /\ HasVacancy
    THEN /\ handles' = [handles EXCEPT ![vacant_handle] = Device]
         /\ Reply
         /\ UNCHANGED <<disk, places, records, search, nextTemporary, replaced>>
    ELSE Fail

OpenFile(spec, access, sharing) ==
    LET p == resolve(spec)
        f == entries[p]
        new == NewRecord(f, p, access, sharing)
    IN IF NamesDevice(spec) THEN OpenDevice(spec)
       ELSE IF /\ IsFilePath(spec) /\ is_file(p)
               /\ can_write(access) => ~files[f].readOnly
               /\ files[f].len < Limit
               /\ Insertable(new, files[f].readOnly)
            THEN LimitOpens /\ Insert(new) /\ Reply
                 /\ UNCHANGED <<disk, places, search, nextTemporary, replaced>>
            ELSE Fail

(* Mutant: a new file is published before a handle is known to be free. *)
MayPublishAlways(p) == ~Exists(p)

\* A new file is published only when a handle can name it.
MayPublish(p) == ~Exists(p) /\ HasVacancy

CreateFile(spec, attrs, failIfExists) ==
    LET p == resolve(spec)
        fresh == ~Exists(p)
        f == IF fresh THEN Len(files) + 1 ELSE entries[p]
        new == [NewRecord(f, p, "rw", "compatibility") EXCEPT !.written = TRUE]
        inserted == Insertable(new, FALSE)
    IN IF NamesDevice(spec) /\ attrs \subseteq mutable
       THEN OpenDevice(spec)
       ELSE IF /\ attrs \subseteq mutable
               /\ IsFilePath(spec) /\ is_dir(parent(p))
               /\ IF fresh THEN MayPublish(p)
                  ELSE /\ ~failIfExists /\ is_file(p)
                       /\ ~files[f].readOnly /\ files[f].len < Limit
            THEN /\ LimitOpens /\ (fresh => LimitFiles)
                 /\ entries' = Put(entries, p, f)
                 /\ IF inserted
                    THEN /\ Insert(new)
                         /\ files' = [g \in DOMAIN files \cup {f} |->
                              IF g = f THEN [len |-> 0, readOnly |-> READ_ONLY \in attrs] ELSE files[g]]
                         /\ attributes' = Put(attributes, p, attrs \cup {ARCHIVE})
                         /\ result' = "Ok" /\ writer' = Len(records) + 1
                    ELSE /\ files' = IF fresh THEN Append(files, [len |-> 0, readOnly |-> FALSE]) ELSE files
                         /\ result' = "Err" /\ writer' = 0
                         /\ UNCHANGED <<attributes, open>>
                 /\ UNCHANGED <<places, search, replaced>>
            ELSE /\ result' = "Err" /\ writer' = 0
                 /\ UNCHANGED <<disk, places, open, search, replaced>>

Create(spec, attrs, failIfExists) ==
    CreateFile(spec, attrs, failIfExists) /\ UNCHANGED nextTemporary

\* How many generated names are taken, going round from the counter, before a free one.
Generated(k) == TemporaryNames[1 + ((nextTemporary + k) % Len(TemporaryNames))]

TakenNames(directory) ==
    CHOOSE k \in 0 .. Len(TemporaryNames) :
        LET Taken(i) == Exists([directory EXCEPT !.rel = Append(@, Generated(i))])
        IN (\A i \in 0 .. k - 1 : Taken(i)) /\ (k = Len(TemporaryNames) \/ ~Taken(k))

CreateTemporary(spec, attrs) ==
    LET at == [spec EXCEPT !.rooted = @ \/ spec.parts = <<>>]
        k == TakenNames(resolve(at))
    IN IF ~Resolvable(at) \/ ~is_dir(resolve(at)) \/ k = Len(TemporaryNames) THEN Fail
       ELSE /\ nextTemporary' = (nextTemporary + k + 1) % Len(TemporaryNames)
            /\ CreateFile([at EXCEPT !.parts = Append(@, Generated(k))], attrs, TRUE)
-----------------------------------------------------------------------------
(* Transfers through a handle. *)

IsFile(slot) == handles[slot] > 0
Moved(r, position) == [records EXCEPT ![r].position = position]
Size(r) == files[records[r].file].len

\* A device's transfers pass the files by; what they do to the console is DosRequests'.
DeviceAnswers(slot) ==
    /\ handles[slot] = Device /\ Reply
    /\ UNCHANGED <<disk, places, open, search, nextTemporary, replaced>>

Read(slot, n) ==
    LET r == handles[slot]
        at == records[r].position
        count == IF at < Size(r) THEN Min({n, Size(r) - at}) ELSE 0
    IN IF IsFile(slot) /\ can_read(records[r].access) /\ at + count < Limit
       THEN /\ records' = Moved(r, at + count) /\ Reply
            /\ UNCHANGED <<disk, places, handles, search, nextTemporary, replaced>>
       ELSE DeviceAnswers(slot) \/ Fail

\* No bytes: the file's length becomes the cursor.
Write(slot, n) ==
    LET r == handles[slot]
        at == records[r].position
        len == IF n = 0 THEN at ELSE Max({at + n, Size(r)})
    IN IF IsFile(slot) /\ can_write(records[r].access) /\ at + n < Limit
       THEN /\ files' = [files EXCEPT ![records[r].file].len = len]
            /\ records' = [records EXCEPT ![r].position = at + n, ![r].written = TRUE]
            /\ result' = "Ok" /\ writer' = r
            /\ UNCHANGED <<entries, attributes, places, handles, search, nextTemporary, replaced>>
       ELSE DeviceAnswers(slot) \/ Fail

\* Relative offsets wrap as DOS adds them.
Seek(slot, origin, offset) ==
    LET r == handles[slot]
        base == CASE origin = "start" -> 0
                  [] origin = "current" -> records[r].position
                  [] origin = "end" -> Size(r)
    IN IF IsFile(slot)
       THEN /\ records' = Moved(r, (base + offset) % Limit) /\ Reply
            /\ UNCHANGED <<disk, places, handles, search, nextTemporary, replaced>>
       ELSE IF handles[slot] = Device THEN DeviceAnswers(slot) ELSE Fail

\* Closing and replacing a handle commit what it named; the record may live on in others.
Rebind(slot, value) ==
    /\ handles' = [handles EXCEPT ![slot] = value]
    /\ records' = Kept(records, handles')
    /\ attributes' = CommitSlot(slot)
    /\ Reply /\ UNCHANGED <<entries, files, places, search, nextTemporary, replaced>>

Close(slot) == IF handles[slot] = Vacant THEN Fail ELSE Rebind(slot, Vacant)

Commit(slot) ==
    IF handles[slot] = Vacant THEN Fail
    ELSE /\ attributes' = CommitSlot(slot) /\ Reply
         /\ UNCHANGED <<entries, files, places, open, search, nextTemporary, replaced>>

Duplicate(slot) ==
    IF handles[slot] = Vacant \/ ~HasVacancy THEN Fail
    ELSE /\ handles' = [handles EXCEPT ![vacant_handle] = handles[slot]] /\ Reply
         /\ UNCHANGED <<disk, places, records, search, nextTemporary, replaced>>

ForceDuplicate(slot, onto) ==
    CASE handles[slot] = Vacant -> Fail
      [] slot = onto -> Reply /\ UNCHANGED <<disk, places, open, search, nextTemporary, replaced>>
      [] OTHER -> Rebind(onto, handles[slot])

\* The process ends and another starts: close_all, then the handles of Files::new.
Standard == [slot \in 0 .. Slots - 1 |-> IF slot < StandardDevices THEN Device ELSE Vacant]

CommitAll == FoldLeft(Committed, attributes, records)

Relaunch ==
    /\ attributes' = CommitAll
    /\ handles' = Standard /\ records' = Kept(records, Standard)
    /\ searchDirectories' = <<>>
    /\ Reply /\ UNCHANGED <<entries, files, places, dtas, nextTemporary, replaced>>
-----------------------------------------------------------------------------
(* Names, directories and attributes. *)

(* Mutant: a file is deleted while handles name it. *)
UnheldAlways(f) == TRUE

\* DOS keeps an open file's name until its last handle closes.
Unheld(f) == ~is_open(f)

Delete(spec) ==
    LET p == resolve(spec) IN
    IF IsFilePath(spec) /\ is_file(p) /\ ~files[entries[p]].readOnly /\ Unheld(entries[p])
    THEN /\ entries' = Without(entries, {p}) /\ attributes' = Without(attributes, {p})
         /\ Reply /\ UNCHANGED <<files, places, open, search, nextTemporary, replaced>>
    ELSE Fail

Rename(from, to) ==
    LET p == resolve(from)
        q == resolve(to)
        Move(f) == IF p \in DOMAIN f THEN Put(Without(f, {p}), q, f[p]) ELSE f
    IN IF /\ drive(from) = drive(to) /\ IsFilePath(from) /\ IsFilePath(to)
          /\ is_file(p) /\ Unheld(entries[p])
          /\ is_dir(parent(q)) /\ ~Exists(q)
       THEN /\ entries' = Move(entries) /\ attributes' = Move(attributes)
            /\ Reply /\ UNCHANGED <<files, places, open, search, nextTemporary, replaced>>
       ELSE Fail

CreateDirectory(spec) ==
    LET p == resolve(spec) IN
    IF Resolvable(spec) /\ ~Exists(p) /\ is_dir(parent(p))
    THEN /\ Len(p.rel) <= MaxDepth
         /\ entries' = Put(entries, p, Dir)
         /\ Reply /\ UNCHANGED <<files, attributes, places, open, search, nextTemporary, replaced>>
    ELSE Fail

RemoveDirectory(spec) ==
    LET p == resolve(spec) IN
    IF /\ Resolvable(spec) /\ p.rel # <<>> /\ currentDirectories[p.drive] # p.rel
       /\ is_dir(p) /\ Children(p) = {}
    THEN /\ entries' = Without(entries, {p}) /\ attributes' = Without(attributes, {p})
         /\ Reply /\ UNCHANGED <<files, places, open, search, nextTemporary, replaced>>
    ELSE Fail

\* What AH=47h reports fits its caller's buffer.
ChangeDirectory(spec) ==
    LET p == resolve(spec) IN
    IF Resolvable(spec) /\ p.rel \notin LongPaths /\ is_dir(p)
    THEN /\ currentDirectories' = [currentDirectories EXCEPT ![p.drive] = p.rel]
         /\ Reply /\ UNCHANGED <<disk, currentDrive, open, search, nextTemporary, replaced>>
    ELSE Fail

SelectDrive(d) ==
    /\ currentDrive' = IF d \in Drives THEN d ELSE currentDrive
    /\ Reply /\ UNCHANGED <<disk, currentDirectories, open, search, nextTemporary, replaced>>

SetAttributes(spec, attrs) ==
    LET p == resolve(spec) IN
    IF /\ Resolvable(spec) /\ Exists(p) /\ p.rel # <<>>
       /\ attrs \subseteq mutable \cup {DIRECTORY}
       /\ DIRECTORY \in attrs => is_dir(p)
    THEN /\ files' = IF is_dir(p) THEN files
                     ELSE [files EXCEPT ![entries[p]].readOnly = READ_ONLY \in attrs]
         /\ attributes' = Put(attributes, p, attrs \cap mutable)
         /\ Reply /\ UNCHANGED <<entries, places, open, search, nextTemporary, replaced>>
    ELSE Fail

entry_attributes(p) ==
    LET kept == IF p \in DOMAIN attributes THEN attributes[p]
                ELSE IF is_dir(p) THEN {} ELSE {ARCHIVE}
    IN IF is_dir(p) THEN kept \cup {DIRECTORY}
       ELSE (kept \ {READ_ONLY}) \cup (IF files[entries[p]].readOnly THEN {READ_ONLY} ELSE {})
-----------------------------------------------------------------------------
(* The host. *)

(* Mutant: the drive keeps the directory of its previous file system. *)
DirectoryKept(d) == currentDirectories

DirectoryReset(d) == [currentDirectories EXCEPT ![d] = <<>>]

OnDrive(d) == {p \in DOMAIN entries : p.drive = d}
FilesOn(d) == {entries[p] : p \in {q \in OnDrive(d) : entries[q] # Dir}}

Mount(d, tree) ==
    LET paths == SetToSeq(DOMAIN tree.files)
        n == Len(paths)
        At(rel) == [drive |-> d, rel |-> rel]
        added == [p \in {At(rel) : rel \in tree.dirs \cup DOMAIN tree.files} |->
                    IF p.rel \in tree.dirs THEN Dir
                    ELSE Len(files) + CHOOSE i \in 1 .. n : paths[i] = p.rel]
    IN /\ Len(files) + n <= MaxFiles
       /\ entries' = Over(added, Without(entries, OnDrive(d)))
       /\ files' = files \o [i \in 1 .. n |-> [len |-> tree.files[paths[i]], readOnly |-> FALSE]]
       /\ currentDirectories' = DirectoryReset(d)
       /\ attributes' = Without(attributes, {p \in DOMAIN attributes : p.drive = d})
       /\ searchDirectories' = [i \in DOMAIN searchDirectories |->
              IF searchDirectories[i] # Discarded /\ searchDirectories[i].path.drive = d
              THEN Discarded ELSE searchDirectories[i]]
       /\ replaced' = replaced \cup FilesOn(d)
       /\ Reply /\ UNCHANGED <<currentDrive, open, dtas, nextTemporary>>

\* Missing parents are made; host paths start at the root of C: or of their drive.
MountFile(spec, len, readOnly) ==
    LET host == [spec EXCEPT !.rooted = TRUE, !.drive = IF @ = "" THEN BootDrive ELSE @]
        p == resolve(host)
        parents == {[p EXCEPT !.rel = SubSeq(@, 1, k)] : k \in 0 .. Len(p.rel) - 1}
        f == Len(files) + 1
    IN IF IsFilePath(host) /\ len < Limit /\ ~is_dir(p) /\ ~ \E q \in parents : is_file(q)
       THEN /\ LimitFiles
            /\ entries' = Put(Over([q \in parents |-> Dir], entries), p, f)
            /\ files' = Append(files, [len |-> len, readOnly |-> readOnly])
            /\ attributes' = Put(attributes, p, {ARCHIVE})
            /\ replaced' = replaced \cup (IF Exists(p) THEN {entries[p]} ELSE {})
            /\ Reply /\ UNCHANGED <<places, open, search, nextTemporary>>
       ELSE Fail
-----------------------------------------------------------------------------
(* Searches. *)

\* An entry a search returns, by its attributes, its size and its pattern.
Wanted(s, p) ==
    /\ Exists(p) /\ Last(p.rel) \in s.pattern \ LongNames
    /\ entries[p] # Dir => files[entries[p]].len < Limit
    /\ entry_attributes(p) \cap {HIDDEN, SYSTEM, DIRECTORY} \subseteq s.attributes

Dots(p) == IF p.rel = <<>> THEN <<>> ELSE <<".", "..">>

\* The first entry from the search's position that matches, or 0.
next_match(dirs, s) ==
    LET dir == dirs[s.directory]
        list == Dots(dir.path) \o dir.names
        Matches(i) == IF list[i] \in {".", ".."}
                      THEN list[i] \in s.pattern /\ DIRECTORY \in s.attributes
                      ELSE Wanted(s, [dir.path EXCEPT !.rel = Append(@, list[i])])
        found == {i \in s.next + 1 .. Len(list) : Matches(i)}
    IN IF s.attributes = {VOLUME} \/ ~is_dir(dir.path) \/ found = {} THEN 0 ELSE Min(found)

Listed(p) == SelectSeq(NameOrder, LAMBDA n : [p EXCEPT !.rel = Append(@, n)] \in DOMAIN entries)

(* Mutant: the list of a directory searched before is replaced. *)
ReplacedNames(known, names) == names

\* Additions go to the end, so that the slots older DTAs hold stay where they are.
MergedNames(known, names) == known \o SelectSeq(names, LAMBDA n : n \notin Range(known))

Searched(p) == {i \in DOMAIN searchDirectories :
                  searchDirectories[i] # Discarded /\ searchDirectories[i].path = p}

Entry(dirs, s, i) == (Dots(dirs[s.directory].path) \o dirs[s.directory].names)[i]

Say(d, s, i) ==
    /\ dtas' = [dtas EXCEPT ![d] = [s EXCEPT !.next = i]]
    /\ Reply /\ UNCHANGED <<disk, places, open, nextTemporary, replaced>>

FindFirst(d, spec, pattern, attrs) ==
    LET p == resolve(spec)
        known == Searched(p)
        index == IF known = {} THEN Len(searchDirectories) + 1 ELSE Min(known)
        dirs == IF known = {} THEN Append(searchDirectories, [path |-> p, names |-> Listed(p)])
                ELSE [searchDirectories EXCEPT ![index].names = MergedNames(@, Listed(p))]
        s == [directory |-> index, next |-> 0, pattern |-> pattern,
              attributes |-> attrs \cap {HIDDEN, SYSTEM, DIRECTORY, VOLUME}]
        i == next_match(dirs, s)
    IN IF ~Resolvable(spec) \/ ~is_dir(p) \/ pattern = {} THEN Fail /\ UNCHANGED spoken
       ELSE /\ searchDirectories' = dirs
            /\ IF i = 0
               THEN /\ result' = "Err" /\ writer' = 0
                    /\ UNCHANGED <<disk, places, open, dtas, nextTemporary, replaced, spoken>>
               ELSE /\ Say(d, s, i)
                    /\ returned' = [returned EXCEPT ![d] = <<Entry(dirs, s, i)>>]
                    /\ owed' = [owed EXCEPT ![d] = {q \in Children(p) :
                                    Wanted(s, q) /\ Last(q.rel) # Entry(dirs, s, i)}]
                    /\ ended' = [ended EXCEPT ![d] = FALSE]

Live(d) == /\ dtas[d].directory \in DOMAIN searchDirectories
           /\ searchDirectories[dtas[d].directory] # Discarded

FindNext(d) ==
    LET s == dtas[d]
        i == IF Live(d) THEN next_match(searchDirectories, s) ELSE 0
        name == Entry(searchDirectories, s, i)
    IN IF i = 0
       THEN /\ Fail /\ ended' = [ended EXCEPT ![d] = TRUE] /\ UNCHANGED <<owed, returned>>
       ELSE /\ Say(d, s, i) /\ UNCHANGED <<searchDirectories, ended>>
            /\ returned' = [returned EXCEPT ![d] = Append(@, name)]
            /\ owed' = [owed EXCEPT ![d] = {q \in @ : Last(q.rel) # name}]

\* The guest saves or restores a DTA: the copy is an independent search.
CopyDta(from, to) ==
    /\ dtas' = [dtas EXCEPT ![to] = dtas[from]]
    /\ owed' = [owed EXCEPT ![to] = owed[from]]
    /\ returned' = [returned EXCEPT ![to] = returned[from]]
    /\ ended' = [ended EXCEPT ![to] = ended[from]]
    /\ Reply /\ UNCHANGED <<disk, places, open, searchDirectories, nextTemporary, replaced>>

\* What a search still owes: the entries that matched when it started and have ever
\* since.  A search ends with its process and with its drive's file system.
Track ==
    /\ owed' = [d \in Dtas |-> {p \in owed[d] : Live(d)' /\ Wanted(dtas[d], p)'}]
    /\ returned' = [d \in Dtas |-> IF Live(d)' THEN returned[d] ELSE <<>>]
    /\ UNCHANGED ended
-----------------------------------------------------------------------------
Init ==
    /\ entries = [p \in [drive : Drives, rel : {<<>>}] |-> Dir]
    /\ files = <<>> /\ attributes = <<>>
    /\ currentDrive = BootDrive /\ currentDirectories = [d \in Drives |-> <<>>]
    /\ handles = Standard /\ records = <<>>
    /\ searchDirectories = <<>> /\ dtas = [d \in Dtas |-> NoSearch]
    /\ nextTemporary = 0 /\ result = "Ok" /\ writer = 0 /\ replaced = {}
    /\ owed = [d \in Dtas |-> {}] /\ returned = [d \in Dtas |-> <<>>]
    /\ ended = [d \in Dtas |-> FALSE]

HandleCalls ==
    \/ \E spec \in Specs, mode \in Modes : OpenFile(spec, mode[1], mode[2])
    \/ \E spec \in Specs, attrs \in Attributes, fail \in BOOLEAN : Create(spec, attrs, fail)
    \/ \E spec \in DirSpecs, attrs \in Attributes : CreateTemporary(spec, attrs)
    \/ \E slot \in DOMAIN handles :
         \/ \E n \in Counts : Read(slot, n) \/ Write(slot, n)
         \/ \E n \in Counts, origin \in {"start", "current", "end"} : Seek(slot, origin, n)
         \/ Close(slot) \/ Commit(slot) \/ Duplicate(slot)
         \/ \E onto \in DOMAIN handles : ForceDuplicate(slot, onto)
    \/ Relaunch

NameCalls ==
    \/ \E spec \in Specs : Delete(spec)
    \/ \E spec \in DirSpecs : CreateDirectory(spec) \/ RemoveDirectory(spec) \/ ChangeDirectory(spec)
    \/ \E from, to \in Specs : Rename(from, to)
    \/ \E spec \in Specs, attrs \in Attributes : SetAttributes(spec, attrs)
    \/ \E d \in Drives : SelectDrive(d)

HostCalls ==
    \/ \E d \in Drives, tree \in Trees : Mount(d, tree)
    \/ \E spec \in Specs, len \in Counts, readOnly \in BOOLEAN : MountFile(spec, len, readOnly)

SearchCalls ==
    \/ \E d \in Dtas, spec \in DirSpecs, pattern \in Patterns, attrs \in SearchMasks :
         FindFirst(d, spec, pattern, attrs)
    \/ \E d \in Dtas : FindNext(d)
    \/ \E from, to \in Dtas : CopyDta(from, to)

Next == ((HandleCalls \/ NameCalls \/ HostCalls) /\ Track) \/ SearchCalls

Spec == Init /\ [][Next]_vars
-----------------------------------------------------------------------------
\* DOS keeps an open file's name alive (handles.rs, is_open): until its last handle
\* closes, the path it was opened by names it, unless the host replaced it there.
OpenNamesLive ==
    \A r \in Open :
        \/ records[r].file \in replaced
        \/ (Exists(records[r].path) /\ entries[records[r].path] = records[r].file)

\* Sharing (file_handle.rs, conflicts_with): while a record denies writing, its file's
\* length is changed by that record and by those opened before it, through write or
\* through the truncation of create, and by no later one.
LengthsRespected ==
    \A f \in DOMAIN files : files'[f].len # files[f].len =>
        \A r \in Open : records[r].file = f /\ records[r].denyWrite => writer' \in 1 .. r
DenyIsRespected == [][LengthsRespected]_vars

\* A call that reports an error has changed nothing a program can see: no entry, no
\* file, no attribute and no handle (create.rs checks before it publishes or truncates).
FailureIsWhole == result' = "Err" => UNCHANGED <<disk, places, open>>
FailuresChangeNothing == [][FailureIsWhole]_vars

\* What DOS remembers by path exists: attributes belong to entries, every entry has its
\* directory, and a drive's current directory is one, whatever was removed or mounted.
PlacesExist ==
    /\ DOMAIN attributes \subseteq DOMAIN entries
    /\ \A p \in DOMAIN entries : p.rel # <<>> => is_dir(parent(p))
    /\ \A d \in Drives : is_dir([drive |-> d, rel |-> currentDirectories[d]])

\* A search (search.rs) returns no name twice, and when it says there are no more files
\* it has returned every entry that matched when it began and has matched ever since,
\* whatever other searches, deletions, creations and copies of its DTA went between.
SearchIsExact ==
    \A d \in Dtas : IsInjective(returned[d]) /\ (ended[d] => owed[d] = {})

-----------------------------------------------------------------------------
(***************************************************************************)
(* The proofs about handles, for any names, trees, sharing modes and any   *)
(* number of handles.  Paths are opaque: a step matters by what it leaves  *)
(* at the paths of open records.  Three facts carry the argument: an open  *)
(* record's path names its file unless the host replaced it; the file is   *)
(* one that exists, so a file made afresh conflicts with no record; and a  *)
(* record opened beside an earlier one that denies writing cannot write.   *)
(***************************************************************************)
IsRecord(rec) ==
    rec = [file |-> rec.file, path |-> rec.path, position |-> rec.position, access |-> rec.access,
           denyRead |-> rec.denyRead, denyWrite |-> rec.denyWrite,
           compatibility |-> rec.compatibility, written |-> rec.written]

IsSequence(s) == Len(s) \in Nat /\ s = [i \in 1 .. Len(s) |-> s[i]]

FileStates == [len : Nat, readOnly : BOOLEAN]

DiskIsSound ==
    /\ files \in Seq(FileStates)
    /\ entries = [p \in DOMAIN entries |-> entries[p]]
    /\ \A p \in DOMAIN entries : entries[p] \in 0 .. Len(files)

HandlesAreSound ==
    /\ IsSequence(records)
    /\ handles \in [0 .. Slots - 1 -> {Device} \cup 0 .. Len(records)]
    /\ \A r \in Open : /\ IsRecord(records[r]) /\ records[r].position \in Nat
                       /\ records[r].file \in 1 .. Len(files)

\* What conflicts_with established when the later record was opened.
SharingHolds ==
    \A r, q \in Open :
        r < q /\ records[q].file = records[r].file /\ records[r].denyWrite
            => ~can_write(records[q].access)

FilesInv == DiskIsSound /\ HandlesAreSound /\ OpenNamesLive /\ SharingHolds

Contained == LengthsRespected /\ FailureIsWhole

(* A sequence stays one when a record is appended to it.                   *)
LEMMA AppendRecord ==
    ASSUME NEW s, IsSequence(s), NEW e
    PROVE  /\ IsSequence(Append(s, e)) /\ Len(Append(s, e)) = Len(s) + 1
           /\ \A i \in 1 .. Len(s) : Append(s, e)[i] = s[i]
           /\ Append(s, e)[Len(s) + 1] = e
<1> DEFINE S == {s[i] : i \in 1 .. Len(s)} \cup {e}
<1>1. s \in Seq(S) /\ e \in S
    BY DEF IsSequence
<1> HIDE DEF S
<1>2. Append(s, e) \in Seq(S) /\ Len(Append(s, e)) = Len(s) + 1
    BY <1>1
<1>3. ASSUME NEW t \in Seq(S) PROVE IsSequence(t)
    BY <1>3 DEF IsSequence
<1>4. \A i \in 1 .. Len(s) : Append(s, e)[i] = s[i]
    BY <1>1
<1>5. Append(s, e)[Len(s) + 1] = e
    BY <1>1
<1> QED BY <1>2, <1>3, <1>4, <1>5

(* A step that opens no record keeps the invariant when the records that   *)
(* stay open keep their file, path and rights, and their paths keep naming *)
(* the file or it joins the replaced ones.                                 *)
LEMMA OpenStep ==
    ASSUME FilesInv, DiskIsSound', Len(files) <= Len(files'),
           IsSequence(records'), Len(records') = Len(records),
           handles' \in [0 .. Slots - 1 -> {Device} \cup 0 .. Len(records)],
           \A r \in Open' :
             /\ r \in Open /\ IsRecord(records'[r]) /\ records'[r].position \in Nat
             /\ records'[r].file = records[r].file /\ records'[r].path = records[r].path
             /\ records'[r].access = records[r].access
             /\ records'[r].denyWrite = records[r].denyWrite,
           replaced \subseteq replaced',
           \A r \in Open : is_file(records[r].path) /\ entries[records[r].path] = records[r].file =>
             \/ records[r].file \in replaced'
             \/ /\ records[r].path \in DOMAIN entries'
                /\ entries'[records[r].path] = records[r].file
    PROVE  FilesInv'
<1>1. \A r \in Open : records[r].file \in 1 .. Len(files) /\ Len(files) \in Nat /\ Len(files') \in Nat
    BY DEF FilesInv, HandlesAreSound, DiskIsSound
<1>2. HandlesAreSound'
    BY <1>1 DEF HandlesAreSound
<1>3. OpenNamesLive'
    BY <1>1 DEF FilesInv, OpenNamesLive, Exists, is_file, Dir
<1>4. SharingHolds'
    BY DEF FilesInv, SharingHolds
<1> QED BY <1>2, <1>3, <1>4 DEF FilesInv

(* A call that fails, and any step that leaves disk and handles alone.     *)
LEMMA QuietStep ==
    ASSUME FilesInv, UNCHANGED <<entries, files, open>>, replaced \subseteq replaced'
    PROVE  FilesInv' /\ LengthsRespected
<1>1. FilesInv'
    BY DEF FilesInv, DiskIsSound, HandlesAreSound, OpenNamesLive, SharingHolds, Open, Exists, open
<1> QED BY <1>1 DEF LengthsRespected

(* A call that fails keeps the invariant and changes nothing.               *)
LEMMA FailStep == ASSUME FilesInv, Fail PROVE FilesInv' /\ Contained
    BY QuietStep DEF Fail, disk, Contained, FailureIsWhole

(* A record inserted beside those that are open, none of which conflicts.  *)
LEMMA InsertStep ==
    ASSUME FilesInv, DiskIsSound', Len(files) <= Len(files'), replaced' = replaced,
           NEW new, IsRecord(new), new.position \in Nat, new.file \in 1 .. Len(files'),
           new.path \in DOMAIN entries', entries'[new.path] = new.file,
           \A r \in Open : records[r].file = new.file /\ records[r].denyWrite => ~can_write(new.access),
           Insert(new),
           \A p \in DOMAIN entries : p \in DOMAIN entries' /\ entries'[p] = entries[p]
    PROVE  FilesInv'
<1> DEFINE n == Len(records) + 1
<1>1. /\ IsSequence(records') /\ Len(records') = n /\ Len(records) \in Nat /\ records'[n] = new
      /\ \A r \in 1 .. Len(records) : records'[r] = records[r]
    BY AppendRecord DEF Insert, FilesInv, HandlesAreSound, IsSequence
<1>2. DOMAIN records = 1 .. Len(records) /\ DOMAIN records' = 1 .. n
    BY <1>1 DEF IsSequence, FilesInv, HandlesAreSound
<1>3. /\ handles \in [0 .. Slots - 1 -> {Device} \cup 0 .. Len(records)]
      /\ handles' = [handles EXCEPT ![vacant_handle] = n]
    BY DEF Insert, FilesInv, HandlesAreSound
<1>4. /\ handles' \in [0 .. Slots - 1 -> {Device} \cup 0 .. n]
      /\ \A s \in 0 .. Slots - 1 : handles'[s] \in {handles[s], n}
    <2> DEFINE D == 0 .. Slots - 1
               S == {Device} \cup 0 .. Len(records)
               T == {Device} \cup 0 .. n
    <2>1. n \in T /\ S \subseteq T
        BY <1>1
    <2>2. handles \in [D -> S] /\ handles' = [handles EXCEPT ![vacant_handle] = n]
        BY <1>3
    <2> HIDE DEF D, S, T, n
    <2>3. handles' \in [D -> T] /\ \A s \in D : handles'[s] \in {handles[s], n}
        BY <2>1, <2>2
    <2> QED BY <2>3 DEF D, T
<1>5. ASSUME NEW r \in Open' PROVE r = n \/ (r \in Open /\ r \in 1 .. Len(records))
    <2>1. r \in 1 .. n /\ \E s \in 0 .. Slots - 1 : handles'[s] = r
        BY <1>2, <1>4, <1>5 DEF Open
    <2> QED BY <1>1, <1>2, <1>3, <1>4, <2>1 DEF Open
<1>6. \A r \in Open : r \in 1 .. Len(records) /\ records[r].file \in 1 .. Len(files)
    BY <1>2 DEF Open, FilesInv, HandlesAreSound
<1>7. Len(files) \in Nat /\ Len(files') \in Nat
    BY DEF FilesInv, DiskIsSound
<1>8. HandlesAreSound'
    <2>1. ASSUME NEW r \in Open'
          PROVE  /\ IsRecord(records'[r]) /\ records'[r].position \in Nat
                 /\ records'[r].file \in 1 .. Len(files')
        BY <1>1, <1>5, <1>6, <1>7 DEF FilesInv, HandlesAreSound
    <2> QED BY <1>1, <1>4, <2>1 DEF HandlesAreSound
<1>9. OpenNamesLive'
    BY <1>1, <1>5, <1>6 DEF FilesInv, OpenNamesLive, Exists
<1>10. SharingHolds'
    <2> SUFFICES ASSUME NEW r \in Open', NEW q \in Open', r < q,
                        records'[q].file = records'[r].file, records'[r].denyWrite
                 PROVE  ~can_write(records'[q].access)
        BY DEF SharingHolds, can_write
    <2>1. r # n /\ r \in Open /\ records'[r] = records[r]
        BY <1>1, <1>5, <1>2 DEF Open
    <2>2. CASE q = n
        BY <1>1, <2>1, <2>2
    <2>3. CASE q # n
        BY <1>1, <1>5, <2>1, <2>3 DEF FilesInv, SharingHolds
    <2> QED BY <2>2, <2>3
<1> QED BY <1>8, <1>9, <1>10 DEF FilesInv

(* A function on 1..n is a sequence of n elements.                         *)
LEMMA FunctionIsSequence ==
    ASSUME NEW n \in Nat, NEW t, t = [i \in 1 .. n |-> t[i]]
    PROVE  IsSequence(t) /\ Len(t) = n
<1> DEFINE S == {t[i] : i \in 1 .. n}
<1>1. t \in [1 .. n -> S]
    OBVIOUS
<1>2. t \in Seq(S) /\ Len(t) = n
    BY <1>1
<1> QED BY <1>2 DEF IsSequence

(* The records are numbered from one, the handles cover their slots.        *)
LEMMA RecordsDomain ==
    ASSUME FilesInv
    PROVE  /\ Len(records) \in Nat /\ DOMAIN records = 1 .. Len(records)
           /\ records = [r \in 1 .. Len(records) |-> records[r]]
           /\ DOMAIN handles = 0 .. Slots - 1
           /\ \A r \in Open : r \in 1 .. Len(records)
    BY DEF FilesInv, HandlesAreSound, IsSequence, Open

(* Handles that become vacant, a device's or copies of others open no      *)
(* record, and close those that lost their last handle.                    *)
LEMMA HandlesStep ==
    ASSUME FilesInv, UNCHANGED <<entries, files, replaced>>,
           handles' = [s \in 0 .. Slots - 1 |-> handles'[s]],
           \A s \in 0 .. Slots - 1 :
             handles'[s] \in {Device, Vacant} \cup {handles[t] : t \in 0 .. Slots - 1},
           records' = records \/ records' = Kept(records, handles')
    PROVE  FilesInv' /\ LengthsRespected
<1>1. DiskIsSound' /\ Len(files) <= Len(files') /\ replaced \subseteq replaced'
    BY DEF FilesInv, DiskIsSound
<1>2. handles' \in [0 .. Slots - 1 -> {Device} \cup 0 .. Len(records)]
    BY RecordsDomain DEF FilesInv, HandlesAreSound, Vacant
<1>3. IsSequence(records') /\ Len(records') = Len(records) /\ DOMAIN records' = DOMAIN records
    <2>1. CASE records' = records
        BY <2>1 DEF FilesInv, HandlesAreSound
    <2>2. CASE records' = Kept(records, handles')
        <3>1. /\ records' = [r \in 1 .. Len(records) |-> records'[r]]
              /\ DOMAIN records' = DOMAIN records
            BY <2>2, RecordsDomain DEF Kept
        <3> QED BY <3>1, RecordsDomain, FunctionIsSequence
    <2> QED BY <2>1, <2>2
<1>4. ASSUME NEW r \in Open' PROVE r \in Open /\ records'[r] = records[r]
    <2>1. r \in DOMAIN records /\ r \in 1 .. Len(records)
        BY <1>3, RecordsDomain DEF Open
    <2>2. PICK s \in 0 .. Slots - 1 : handles'[s] = r
        BY <1>2 DEF Open
    <2>3. r # Device /\ r # Vacant
        BY <2>1, RecordsDomain DEF Device, Vacant
    <2>4. r \in Open
        BY <2>1, <2>2, <2>3, RecordsDomain DEF Open
    <2>5. \E slot \in DOMAIN handles' : handles'[slot] = r
        BY <2>2, <1>2
    <2>6. records' = Kept(records, handles') => records'[r] = records[r]
        BY <2>1, <2>5 DEF Kept
    <2> QED BY <2>4, <2>6
<1>5. \A r \in Open : IsRecord(records[r]) /\ records[r].position \in Nat
    BY DEF FilesInv, HandlesAreSound
<1>6. FilesInv'
    BY <1>1, <1>2, <1>3, <1>4, <1>5, OpenStep DEF is_file
<1> QED BY <1>6 DEF LengthsRespected

(* One handle bound anew.                                                  *)
LEMMA SlotStep ==
    ASSUME FilesInv, UNCHANGED <<entries, files, replaced>>, NEW slot,
           NEW value \in {Device, Vacant} \cup {handles[t] : t \in 0 .. Slots - 1},
           handles' = [handles EXCEPT ![slot] = value],
           records' = records \/ records' = Kept(records, handles')
    PROVE  FilesInv' /\ LengthsRespected
<1>1. DOMAIN handles = 0 .. Slots - 1
    BY RecordsDomain
<1>2. /\ handles' = [s \in 0 .. Slots - 1 |-> handles'[s]]
      /\ \A s \in 0 .. Slots - 1 : handles'[s] \in {handles[s], value}
    BY <1>1
<1> QED BY <1>2, HandlesStep

(* A transfer or a seek moves one open record's position and may change    *)
(* its file's length.                                                      *)
LEMMA MoveStep ==
    ASSUME FilesInv, UNCHANGED <<entries, handles, replaced>>, NEW r \in Open,
           NEW position \in Nat, NEW written,
           records' = [records EXCEPT ![r] = [@ EXCEPT !.position = position, !.written = written]],
           files' \in Seq(FileStates), Len(files') = Len(files)
    PROVE  FilesInv'
<1>1. DiskIsSound' /\ Len(files) <= Len(files') /\ replaced \subseteq replaced'
    BY DEF FilesInv, DiskIsSound
<1>2. IsSequence(records') /\ Len(records') = Len(records) /\ DOMAIN records' = DOMAIN records
    <2>1. /\ records' = [q \in 1 .. Len(records) |-> records'[q]]
          /\ DOMAIN records' = DOMAIN records
        BY RecordsDomain
    <2> QED BY <2>1, RecordsDomain, FunctionIsSequence
<1>3. Open' = Open
    BY <1>2 DEF Open
<1>4. \A q \in Open : IsRecord(records[q]) /\ records[q].position \in Nat /\ q \in DOMAIN records
    BY RecordsDomain DEF FilesInv, HandlesAreSound
<1>5. \A q \in Open : q # r => records'[q] = records[q]
    BY <1>4
<1> DEFINE now == records'[r]
           old == records[r]
<1>6. now = [old EXCEPT !.position = position, !.written = written]
    BY <1>4
<1>7. /\ IsRecord(now) /\ now.position = position /\ now.file = old.file /\ now.path = old.path
      /\ now.access = old.access /\ now.denyWrite = old.denyWrite
    <2>1. IsRecord(old)
        BY <1>4
    <2> HIDE DEF now, old
    <2> QED BY <2>1, <1>6 DEF IsRecord
<1>8. handles' \in [0 .. Slots - 1 -> {Device} \cup 0 .. Len(records)]
    BY DEF FilesInv, HandlesAreSound
<1> QED BY <1>1, <1>2, <1>3, <1>4, <1>5, <1>7, <1>8, OpenStep DEF is_file

(* Opening a device binds a vacant handle to it, or fails.                  *)
LEMMA OpenDeviceStep ==
    ASSUME FilesInv, NEW spec, OpenDevice(spec)
    PROVE  FilesInv' /\ Contained
<1>1. CASE Fail
    BY <1>1, FailStep
<1>2. CASE ~Fail
    <2>1. /\ handles' = [handles EXCEPT ![vacant_handle] = Device]
          /\ UNCHANGED <<disk, places, records, replaced>> /\ Reply
        BY <1>2 DEF OpenDevice
    <2> QED BY <2>1, SlotStep DEF disk, Reply, Contained, FailureIsWhole
<1> QED BY <1>1, <1>2

(* A record that is insertable denies its writes to nobody open before.    *)
LEMMA InsertableDenies ==
    ASSUME NEW new, NEW readOnly, Insertable(new, readOnly)
    PROVE  \A r \in Open : records[r].file = new.file /\ records[r].denyWrite => ~can_write(new.access)
    BY DEF Insertable, conflicts_with

(* Opening a file inserts a record that conflicts with none, or fails.      *)
LEMMA OpenFileStep ==
    ASSUME FilesInv, NEW spec, NEW access, NEW sharing, OpenFile(spec, access, sharing)
    PROVE  FilesInv' /\ Contained
<1> DEFINE p == resolve(spec)
           f == entries[p]
           new == NewRecord(f, p, access, sharing)
<1>1. CASE NamesDevice(spec)
    BY <1>1, OpenDeviceStep DEF OpenFile
<1>2. CASE Fail
    BY <1>2, FailStep
<1>3. CASE ~NamesDevice(spec) /\ ~Fail
    <2>1. /\ is_file(p) /\ Insertable(new, files[f].readOnly) /\ Insert(new)
          /\ UNCHANGED <<disk, replaced>> /\ Reply
        BY <1>3 DEF OpenFile
    <2>2. f \in 1 .. Len(files) /\ p \in DOMAIN entries /\ Len(files) \in Nat
        BY <2>1 DEF is_file, Dir, FilesInv, DiskIsSound
    <2>3. IsRecord(new) /\ new.position = 0 /\ new.file = f /\ new.path = p
        BY DEF NewRecord, IsRecord
    <2> HIDE DEF new, p, f
    <2>4. DiskIsSound' /\ files' = files /\ entries' = entries /\ replaced' = replaced
        BY <2>1 DEF disk, FilesInv, DiskIsSound
    <2>5. FilesInv'
        BY <2>1, <2>2, <2>3, <2>4, InsertableDenies, InsertStep DEF f
    <2> QED BY <2>1, <2>4, <2>5 DEF Reply, Contained, LengthsRespected, FailureIsWhole
<1> QED BY <1>1, <1>2, <1>3

(* Creating or truncating a file inserts its record, or fails.              *)
LEMMA CreateFileStep ==
    ASSUME FilesInv, NEW spec, NEW attrs, NEW failIfExists, CreateFile(spec, attrs, failIfExists)
    PROVE  FilesInv' /\ Contained
<1> DEFINE p == resolve(spec)
           fresh == ~Exists(p)
           f == IF fresh THEN Len(files) + 1 ELSE entries[p]
           new == [NewRecord(f, p, "rw", "compatibility") EXCEPT !.written = TRUE]
           inserted == Insertable(new, FALSE)
<1>1. CASE OpenDevice(spec)
    BY <1>1, OpenDeviceStep
<1>2. CASE result' = "Err" /\ UNCHANGED <<disk, places, open, replaced>>
    BY <1>2, QuietStep DEF disk, Contained, FailureIsWhole
<1>3. CASE ~OpenDevice(spec) /\ ~(result' = "Err" /\ UNCHANGED <<disk, places, open, replaced>>)
    <2>1. /\ IF fresh THEN HasVacancy ELSE is_file(p)
          /\ entries' = Put(entries, p, f)
          /\ IF inserted
             THEN /\ Insert(new)
                  /\ files' = [g \in DOMAIN files \cup {f} |->
                       IF g = f THEN [len |-> 0, readOnly |-> READ_ONLY \in attrs] ELSE files[g]]
                  /\ result' = "Ok" /\ writer' = Len(records) + 1
             ELSE /\ files' = IF fresh THEN Append(files, [len |-> 0, readOnly |-> FALSE]) ELSE files
                  /\ result' = "Err" /\ UNCHANGED <<attributes, open>>
          /\ UNCHANGED <<places, replaced>>
        BY <1>3 DEF CreateFile, MayPublish
    <2>2. /\ Len(files) \in Nat /\ DOMAIN files = 1 .. Len(files)
          /\ \A g \in DOMAIN files : files[g] \in FileStates
        BY DEF FilesInv, DiskIsSound
    <2>3. /\ fresh => f = Len(files) + 1
          /\ ~fresh => f \in 1 .. Len(files) /\ f = entries[p] /\ p \in DOMAIN entries
          /\ fresh => p \notin DOMAIN entries
        BY <2>1 DEF Exists, is_file, Dir, FilesInv, DiskIsSound
    <2>4. /\ IsRecord(new) /\ new.position = 0 /\ new.file = f /\ new.path = p
          /\ new.access = "rw"
        <3> DEFINE rec == NewRecord(f, p, "rw", "compatibility")
        <3>1. IsRecord(rec) /\ rec.position = 0 /\ rec.file = f /\ rec.path = p /\ rec.access = "rw"
            BY DEF NewRecord, IsRecord
        <3>2. new = [rec EXCEPT !.written = TRUE]
            OBVIOUS
        <3> HIDE DEF rec, f, p, new
        <3> QED BY <3>1, <3>2 DEF IsRecord
    <2> HIDE DEF new, f, fresh, p
    <2>5. CASE inserted
        <3> DEFINE m == IF fresh THEN Len(files) + 1 ELSE Len(files)
        <3>1. m \in Nat /\ Len(files) <= m /\ f \in 1 .. m /\ DOMAIN files \cup {f} = 1 .. m
            BY <2>2, <2>3
        <3>2. files' \in [1 .. m -> FileStates]
            <4>1. [len |-> 0, readOnly |-> READ_ONLY \in attrs] \in FileStates
                BY DEF FileStates
            <4>2. \A g \in 1 .. m : g = f \/ g \in DOMAIN files
                BY <3>1
            <4> HIDE DEF m
            <4> QED BY <2>1, <2>2, <2>5, <3>1, <4>1, <4>2
        <3>3. files' \in Seq(FileStates) /\ Len(files') = m
            BY <3>1, <3>2
        <3>4. /\ entries' = [q \in DOMAIN entries' |-> entries'[q]]
              /\ DOMAIN entries' = {p} \cup DOMAIN entries /\ entries'[p] = f
              /\ \A q \in DOMAIN entries \ {p} : entries'[q] = entries[q]
            BY <2>1 DEF Put
        <3>5. \A q \in DOMAIN entries : q \in DOMAIN entries' /\ entries'[q] = entries[q]
            BY <2>3, <3>4
        <3>6. \A q \in DOMAIN entries' : entries'[q] \in 0 .. Len(files')
            BY <2>2, <3>1, <3>3, <3>4, <3>5 DEF FilesInv, DiskIsSound
        <3>7. DiskIsSound'
            BY <3>3, <3>4, <3>6 DEF DiskIsSound
        <3>8. \A r \in Open : records[r].file = new.file /\ records[r].denyWrite => ~can_write(new.access)
            BY <2>5, InsertableDenies
        <3>9. FilesInv'
            BY <2>1, <2>4, <2>5, <3>1, <3>3, <3>4, <3>5, <3>7, <3>8, InsertStep
        <3>10. LengthsRespected
            <4>1. \A g \in DOMAIN files : g # f => files'[g] = files[g]
                BY <2>1, <2>5
            <4>2. \A r \in Open : records[r].file = f => ~records[r].denyWrite
                BY <2>4, <3>8 DEF can_write
            <4> QED BY <4>1, <4>2 DEF LengthsRespected
        <3> QED BY <2>1, <2>5, <3>9, <3>10 DEF Contained, FailureIsWhole
    <2>6. CASE ~inserted
        <3>1. CASE fresh
            <4>1. \A r \in Open : records[r].file # f
                BY <2>2, <2>3, <3>1 DEF FilesInv, HandlesAreSound
            <4>2. inserted
                BY <2>1, <2>4, <3>1, <4>1 DEF Insertable, conflicts_with
            <4> QED BY <2>6, <4>2
        <3>2. CASE ~fresh
            <4>1. entries' = entries
                <5>1. /\ entries' = [q \in DOMAIN entries' |-> entries'[q]]
                      /\ DOMAIN entries' = {p} \cup DOMAIN entries /\ entries'[p] = f
                      /\ \A q \in DOMAIN entries \ {p} : entries'[q] = entries[q]
                    BY <2>1 DEF Put
                <5>2. entries = [q \in DOMAIN entries |-> entries[q]]
                    BY DEF FilesInv, DiskIsSound
                <5>3. DOMAIN entries' = DOMAIN entries /\ \A q \in DOMAIN entries : entries'[q] = entries[q]
                    BY <2>3, <3>2, <5>1
                <5> QED BY <5>1, <5>2, <5>3
            <4> QED BY <1>3, <2>1, <2>6, <3>2, <4>1 DEF disk
        <3> QED BY <3>1, <3>2
    <2> QED BY <2>5, <2>6
<1> QED BY <1>1, <1>2, <1>3

(* Transfers, seeks and the calls that rebind handles.                     *)
LEMMA TransferStep ==
    ASSUME FilesAssumption, FilesInv, NEW slot \in DOMAIN handles, NEW n \in Counts,
           Read(slot, n) \/ Write(slot, n)
             \/ \E origin \in {"start", "current", "end"} : Seek(slot, origin, n)
    PROVE  FilesInv' /\ Contained
<1> DEFINE r == handles[slot]
           at == records[r].position
<1>1. CASE Fail
    BY <1>1, FailStep
<1>0. CASE DeviceAnswers(slot)
    BY <1>0, QuietStep DEF DeviceAnswers, Reply, disk, Contained, FailureIsWhole
<1>2. CASE ~Fail /\ ~DeviceAnswers(slot) /\ IsFile(slot)
    <2>1. r \in Open /\ at \in Nat /\ records[r].file \in DOMAIN files /\ IsRecord(records[r])
        <3>1. r \in 1 .. Len(records)
            BY <1>2, RecordsDomain DEF IsFile, FilesInv, HandlesAreSound, Device
        <3>2. r \in Open
            BY <3>1, RecordsDomain DEF Open
        <3> QED BY <3>2 DEF FilesInv, HandlesAreSound, DiskIsSound
    <2>2. n \in Nat /\ Limit \in Nat \ {0} /\ Size(r) \in Nat
        <3>1. files[records[r].file] \in FileStates
            BY <2>1 DEF FilesInv, DiskIsSound
        <3>2. Size(r) \in Nat
            BY <3>1 DEF Size, FileStates
        <3> QED BY <3>2 DEF FilesAssumption
    <2>3. files \in Seq(FileStates)
        BY DEF FilesInv, DiskIsSound
    <2>4. ASSUME NEW position \in Nat, records' = Moved(r, position), Reply,
                 UNCHANGED <<disk, places, handles, replaced>>
          PROVE  FilesInv' /\ Contained
        <3>1. records' = [records EXCEPT ![r] =
                            [@ EXCEPT !.position = position, !.written = records[r].written]]
            <4> DEFINE rec == records[r]
            <4>1. IsRecord(rec) /\ r \in DOMAIN records
                BY <2>1, RecordsDomain
            <4>2. records' = [records EXCEPT ![r] = [rec EXCEPT !.position = position]]
                BY <2>4, <4>1 DEF Moved
            <4>3. [rec EXCEPT !.position = position]
                      = [rec EXCEPT !.position = position, !.written = rec.written]
                <5> HIDE DEF rec
                <5> QED BY <4>1 DEF IsRecord
            <4> QED BY <4>1, <4>2, <4>3
        <3>2. FilesInv'
            BY <2>1, <2>3, <2>4, <3>1, MoveStep DEF disk
        <3> QED BY <2>4, <3>2 DEF Contained, LengthsRespected, FailureIsWhole, Reply, disk
    <2>5. ASSUME Read(slot, n) PROVE FilesInv' /\ Contained
        <3> DEFINE count == IF at < Size(r) THEN Min({n, Size(r) - at}) ELSE 0
        <3>1. records' = Moved(r, at + count) /\ Reply /\ UNCHANGED <<disk, places, handles, replaced>>
            BY <1>2, <2>5 DEF Read
        <3>2. count \in Nat
            <4>1. CASE at < Size(r)
                <5>1. Size(r) - at \in Nat
                    BY <2>1, <2>2, <4>1
                <5>2. \E x \in {n, Size(r) - at} : \A y \in {n, Size(r) - at} : x =< y
                    BY <2>2, <5>1
                <5>3. Min({n, Size(r) - at}) \in {n, Size(r) - at}
                    BY <5>2 DEF Min
                <5> QED BY <2>2, <4>1, <5>1, <5>3
            <4> QED BY <4>1
        <3> HIDE DEF count
        <3>3. at + count \in Nat
            BY <2>1, <3>2
        <3> QED BY <2>4, <3>1, <3>3
    <2>6. ASSUME NEW origin \in {"start", "current", "end"}, Seek(slot, origin, n)
          PROVE  FilesInv' /\ Contained
        <3> DEFINE base == CASE origin = "start" -> 0 [] origin = "current" -> at [] origin = "end" -> Size(r)
        <3>1. /\ records' = Moved(r, (base + n) % Limit) /\ Reply
              /\ UNCHANGED <<disk, places, handles, replaced>>
            BY <1>2, <2>6 DEF Seek
        <3>2. base \in Nat
            BY <2>1, <2>2
        <3> HIDE DEF base
        <3>3. (base + n) % Limit \in Nat
            BY <2>2, <3>2
        <3> QED BY <2>4, <3>1, <3>3
    <2>7. ASSUME Write(slot, n) PROVE FilesInv' /\ Contained
        <3> DEFINE len == IF n = 0 THEN at ELSE Max({at + n, Size(r)})
                   f == records[r].file
        <3>1. /\ can_write(records[r].access)
              /\ files' = [files EXCEPT ![f].len = len]
              /\ records' = [records EXCEPT ![r].position = at + n, ![r].written = TRUE]
              /\ result' = "Ok" /\ writer' = r /\ UNCHANGED <<entries, handles, replaced>>
            BY <1>2, <2>7 DEF Write
        <3>2. len \in Nat
            <4>1. \E x \in {at + n, Size(r)} : \A y \in {at + n, Size(r)} : x >= y
                BY <2>1, <2>2
            <4>2. Max({at + n, Size(r)}) \in {at + n, Size(r)}
                BY <4>1 DEF Max
            <4> QED BY <2>1, <2>2, <4>2
        <3>3. files' \in Seq(FileStates) /\ Len(files') = Len(files)
            <4>0. f \in DOMAIN files /\ files[f] \in FileStates
                BY <2>1, <2>3
            <4>1. [files[f] EXCEPT !.len = len] \in FileStates
                <5> HIDE DEF len, f
                <5> QED BY <4>0, <3>2 DEF FileStates
            <4>2. files' = [files EXCEPT ![f] = [files[f] EXCEPT !.len = len]]
                BY <3>1, <4>0
            <4> HIDE DEF len, f
            <4> QED BY <2>3, <4>0, <4>1, <4>2
        <3>4. records' = [records EXCEPT ![r] = [@ EXCEPT !.position = at + n, !.written = TRUE]]
            BY <2>1, <3>1
        <3>5. at + n \in Nat
            BY <2>1, <2>2
        <3>6. FilesInv'
            <4>1. PICK written : written = TRUE
                OBVIOUS
            <4>2. records' = [records EXCEPT ![r] = [@ EXCEPT !.position = at + n, !.written = written]]
                BY <3>4, <4>1
            <4>3. UNCHANGED <<entries, handles, replaced>>
                BY <3>1
            <4>4. r \in Open
                BY <2>1
            <4> HIDE DEF len, f, at, r
            <4> DEFINE position == at + n
            <4>5. position \in Nat
                BY <3>5
            <4>6. records' = [records EXCEPT ![r] = [@ EXCEPT !.position = position, !.written = written]]
                BY <4>2
            <4> HIDE DEF position
            <4> QED BY <3>3, <4>3, <4>4, <4>5, <4>6, MoveStep
        <3>7. LengthsRespected
            <4> SUFFICES ASSUME NEW g \in DOMAIN files, files'[g].len # files[g].len,
                                NEW q \in Open, records[q].file = g, records[q].denyWrite
                         PROVE  writer' \in 1 .. q
                BY DEF LengthsRespected
            <4>1. g = f
                BY <2>1, <3>1
            <4>2. ~(q < r)
                BY <2>1, <3>1, <4>1 DEF FilesInv, SharingHolds
            <4> QED BY <2>1, <3>1, <4>2, RecordsDomain
        <3> QED BY <3>1, <3>6, <3>7 DEF Contained, FailureIsWhole
    <2> QED BY <2>5, <2>6, <2>7
<1>3. Fail \/ DeviceAnswers(slot) \/ IsFile(slot)
    BY DEF Read, Write, Seek
<1> QED BY <1>0, <1>1, <1>2, <1>3

(* Closing a handle, or forcing a duplicate onto one, rebinds that handle.  *)
LEMMA RebindStep ==
    ASSUME FilesInv, NEW slot, NEW value \in {Vacant} \cup {handles[t] : t \in 0 .. Slots - 1},
           Rebind(slot, value)
    PROVE  FilesInv' /\ Contained
    BY SlotStep DEF Rebind, Reply, Contained, FailureIsWhole

(* Every call on handles keeps the invariant and is contained.              *)
LEMMA HandleStep ==
    ASSUME FilesAssumption, FilesInv, HandleCalls
    PROVE  FilesInv' /\ Contained
<1>1. ASSUME NEW spec, NEW attrs, NEW fail, Create(spec, attrs, fail) PROVE FilesInv' /\ Contained
    BY <1>1, CreateFileStep DEF Create
<1>2. ASSUME NEW spec, NEW attrs, CreateTemporary(spec, attrs) PROVE FilesInv' /\ Contained
    <2>1. Fail \/ \E at : CreateFile(at, attrs, TRUE)
        BY <1>2 DEF CreateTemporary
    <2> QED BY <2>1, FailStep, CreateFileStep
<1>3. ASSUME NEW slot \in DOMAIN handles, Close(slot) PROVE FilesInv' /\ Contained
    BY <1>3, FailStep, RebindStep DEF Close
<1>4. ASSUME NEW slot \in DOMAIN handles, Commit(slot) PROVE FilesInv' /\ Contained
    BY <1>4, FailStep, QuietStep DEF Commit, Reply, Contained, FailureIsWhole
<1>5. ASSUME NEW slot \in DOMAIN handles, Duplicate(slot) PROVE FilesInv' /\ Contained
    <2>1. CASE Fail
        BY <2>1, FailStep
    <2>2. CASE ~Fail
        <3>1. /\ handles' = [handles EXCEPT ![vacant_handle] = handles[slot]]
              /\ UNCHANGED <<disk, records, replaced>> /\ Reply
            BY <1>5, <2>2 DEF Duplicate
        <3> QED BY <3>1, RecordsDomain, SlotStep DEF disk, Reply, Contained, FailureIsWhole
    <2> QED BY <2>1, <2>2
<1>6. ASSUME NEW slot \in DOMAIN handles, NEW onto \in DOMAIN handles, ForceDuplicate(slot, onto)
      PROVE FilesInv' /\ Contained
    <2>1. CASE Fail
        BY <2>1, FailStep
    <2>2. CASE Reply /\ UNCHANGED <<disk, places, open, replaced>>
        BY <2>2, QuietStep DEF disk, Reply, Contained, FailureIsWhole
    <2>3. CASE Rebind(onto, handles[slot])
        BY <2>3, RecordsDomain, RebindStep
    <2> QED BY <1>6, <2>1, <2>2, <2>3 DEF ForceDuplicate
<1>7. CASE Relaunch
    <2>1. /\ handles' = Standard /\ records' = Kept(records, handles')
          /\ Reply /\ UNCHANGED <<entries, files, replaced>>
        BY <1>7 DEF Relaunch
    <2>2. /\ handles' = [s \in 0 .. Slots - 1 |-> handles'[s]]
          /\ \A s \in 0 .. Slots - 1 : handles'[s] \in {Device, Vacant}
        BY <2>1 DEF Standard
    <2> QED BY <2>1, <2>2, HandlesStep DEF Reply, Contained, FailureIsWhole
<1> QED BY <1>1, <1>2, <1>3, <1>4, <1>5, <1>6, <1>7, OpenFileStep, TransferStep DEF HandleCalls

(* A step that changes names only is sound when it takes none from an open *)
(* file, unless the host replaces it.                                      *)
LEMMA EntriesStep ==
    ASSUME FilesInv, DiskIsSound', Len(files) <= Len(files'), UNCHANGED open,
           replaced \subseteq replaced',
           \A p \in DOMAIN entries :
             entries[p] # Dir /\ is_open(entries[p]) /\ ~(p \in DOMAIN entries' /\ entries'[p] = entries[p])
               => entries[p] \in replaced'
    PROVE  FilesInv'
<1>1. Open' = Open /\ records' = records /\ handles' = handles
    BY DEF Open, open
<1>2. /\ IsSequence(records') /\ Len(records') = Len(records)
      /\ handles' \in [0 .. Slots - 1 -> {Device} \cup 0 .. Len(records)]
      /\ \A r \in Open : IsRecord(records[r]) /\ records[r].position \in Nat
    BY <1>1 DEF FilesInv, HandlesAreSound
<1>3. \A r \in Open : is_file(records[r].path) /\ entries[records[r].path] = records[r].file =>
             \/ records[r].file \in replaced'
             \/ /\ records[r].path \in DOMAIN entries'
                /\ entries'[records[r].path] = records[r].file
    BY DEF is_file, is_open
<1> QED BY <1>1, <1>2, <1>3, OpenStep

(* Delete, rename, attribute and directory calls spare open names.          *)
LEMMA NameStep ==
    ASSUME FilesInv, NameCalls
    PROVE  FilesInv' /\ Contained
<1>1. ASSUME NEW spec, Delete(spec) \/ RemoveDirectory(spec) PROVE FilesInv' /\ Contained
    <2>1. CASE Fail
        BY <2>1, FailStep
    <2>2. CASE ~Fail
        <3> DEFINE p == resolve(spec)
        <3>1. /\ p \in DOMAIN entries /\ (entries[p] = Dir \/ ~is_open(entries[p]))
              /\ entries' = Without(entries, {p}) /\ Reply /\ UNCHANGED <<files, open, replaced>>
            BY <1>1, <2>2 DEF Delete, RemoveDirectory, is_file, is_dir, Unheld
        <3> HIDE DEF p
        <3>2. DiskIsSound' /\ Len(files) <= Len(files')
            BY <3>1 DEF FilesInv, DiskIsSound, Without
        <3>3. \A q \in DOMAIN entries : q # p => q \in DOMAIN entries' /\ entries'[q] = entries[q]
            BY <3>1 DEF Without
        <3>4. FilesInv'
            BY <3>1, <3>2, <3>3, EntriesStep
        <3> QED BY <3>1, <3>4 DEF Reply, Contained, FailureIsWhole, LengthsRespected
    <2> QED BY <2>1, <2>2
<1>2. ASSUME NEW spec, CreateDirectory(spec) PROVE FilesInv' /\ Contained
    <2>1. CASE Fail
        BY <2>1, FailStep
    <2>2. CASE ~Fail
        <3> DEFINE p == resolve(spec)
        <3>1. /\ p \notin DOMAIN entries
              /\ entries' = Put(entries, p, Dir) /\ Reply /\ UNCHANGED <<files, open, replaced>>
            BY <1>2, <2>2 DEF CreateDirectory, Exists
        <3> HIDE DEF p
        <3>2. DiskIsSound' /\ Len(files) <= Len(files')
            BY <3>1 DEF FilesInv, DiskIsSound, Put, Dir
        <3>3. \A q \in DOMAIN entries : q \in DOMAIN entries' /\ entries'[q] = entries[q]
            BY <3>1 DEF Put
        <3>4. FilesInv'
            BY <3>1, <3>2, <3>3, EntriesStep
        <3> QED BY <3>1, <3>4 DEF Reply, Contained, FailureIsWhole, LengthsRespected
    <2> QED BY <2>1, <2>2
<1>3. ASSUME NEW spec, ChangeDirectory(spec) PROVE FilesInv' /\ Contained
    BY <1>3, FailStep, QuietStep DEF ChangeDirectory, disk, Reply, Contained, FailureIsWhole
<1>4. ASSUME NEW from, NEW to, Rename(from, to) PROVE FilesInv' /\ Contained
    <2>1. CASE Fail
        BY <2>1, FailStep
    <2>2. CASE ~Fail
        <3> DEFINE p == resolve(from)
                   q == resolve(to)
        <3>1. /\ p \in DOMAIN entries /\ ~is_open(entries[p]) /\ q \notin DOMAIN entries
              /\ entries' = IF p \in DOMAIN entries
                            THEN Put(Without(entries, {p}), q, entries[p]) ELSE entries
              /\ Reply /\ UNCHANGED <<files, open, replaced>>
            BY <1>4, <2>2 DEF Rename, is_file, Unheld, Exists
        <3> HIDE DEF p, q
        <3>2. entries' = [k \in (DOMAIN entries \ {p}) \cup {q} |-> IF k = q THEN entries[p] ELSE entries[k]]
            BY <3>1 DEF Put, Without
        <3>3. DiskIsSound' /\ Len(files) <= Len(files')
            <4>1. \A k \in DOMAIN entries : entries[k] \in 0 .. Len(files)
                BY DEF FilesInv, DiskIsSound
            <4>2. \A k \in DOMAIN entries' : entries'[k] \in 0 .. Len(files)
                BY <3>1, <3>2, <4>1
            <4>3. entries' = [k \in DOMAIN entries' |-> entries'[k]]
                BY <3>2
            <4>4. files' = files
                BY <3>1
            <4> QED BY <4>2, <4>3, <4>4 DEF FilesInv, DiskIsSound
        <3>4. \A k \in DOMAIN entries : k # p => k \in DOMAIN entries' /\ entries'[k] = entries[k]
            BY <3>1, <3>2
        <3>5. FilesInv'
            BY <3>1, <3>3, <3>4, EntriesStep
        <3> QED BY <3>1, <3>5 DEF Reply, Contained, FailureIsWhole, LengthsRespected
    <2> QED BY <2>1, <2>2
<1>5. ASSUME NEW spec, NEW attrs, SetAttributes(spec, attrs) PROVE FilesInv' /\ Contained
    <2>1. CASE Fail
        BY <2>1, FailStep
    <2>2. CASE ~Fail
        <3> DEFINE f == entries[resolve(spec)]
        <3>1. /\ files' = files \/ (f \in 1 .. Len(files)
                                    /\ files' = [files EXCEPT ![f].readOnly = READ_ONLY \in attrs])
              /\ Reply /\ UNCHANGED <<entries, open, replaced>>
            <4>1. /\ resolve(spec) \in DOMAIN entries
                  /\ files' = IF is_dir(resolve(spec)) THEN files
                              ELSE [files EXCEPT ![f].readOnly = READ_ONLY \in attrs]
                  /\ Reply /\ UNCHANGED <<entries, open, replaced>>
                BY <1>5, <2>2 DEF SetAttributes, Exists
            <4>2. f \in 1 .. Len(files) \/ is_dir(resolve(spec))
                BY <4>1 DEF is_dir, Dir, FilesInv, DiskIsSound
            <4> QED BY <4>1, <4>2
        <3> HIDE DEF f
        <3>2. /\ files' \in Seq(FileStates) /\ Len(files') = Len(files)
              /\ \A g \in DOMAIN files : files'[g].len = files[g].len
            <4>1. files \in Seq(FileStates)
                BY DEF FilesInv, DiskIsSound
            <4>2. CASE f \in 1 .. Len(files) /\ files' = [files EXCEPT ![f].readOnly = READ_ONLY \in attrs]
                <5>1. PICK readOnly \in BOOLEAN : readOnly = (READ_ONLY \in attrs)
                    <6> WITNESS (READ_ONLY \in attrs) \in BOOLEAN
                    <6> QED OBVIOUS
                <5> DEFINE old == files[f]
                           now == [old EXCEPT !.readOnly = readOnly]
                <5>2. files[f] \in FileStates
                    BY <4>1, <4>2
                <5>3. files' = [files EXCEPT ![f] = now]
                    BY <4>2, <5>1
                <5>4. now \in FileStates /\ now.len = old.len
                    <6> HIDE DEF old
                    <6> QED BY <5>2 DEF FileStates, old
                <5> HIDE DEF now
                <5> QED BY <4>1, <4>2, <5>3, <5>4
            <4> QED BY <3>1, <4>1, <4>2
        <3>3. DiskIsSound' /\ Len(files) <= Len(files')
            BY <3>1, <3>2 DEF FilesInv, DiskIsSound
        <3>4. FilesInv'
            BY <3>1, <3>3, EntriesStep
        <3> QED BY <3>1, <3>2, <3>4 DEF Reply, Contained, FailureIsWhole, LengthsRespected
    <2> QED BY <2>1, <2>2
<1>6. ASSUME NEW d, SelectDrive(d) PROVE FilesInv' /\ Contained
    BY <1>6, QuietStep DEF SelectDrive, disk, Reply, Contained, FailureIsWhole
<1> QED BY <1>1, <1>2, <1>3, <1>4, <1>5, <1>6 DEF NameCalls

(* SetToSeq lists every element of a finite set.                           *)
LEMMA Listing ==
    ASSUME NEW S, IsFiniteSet(S)
    PROVE  /\ Len(SetToSeq(S)) \in Nat
           /\ SetToSeq(S) \in [1 .. Len(SetToSeq(S)) -> S]
           /\ \A x \in S : \E i \in 1 .. Len(SetToSeq(S)) : SetToSeq(S)[i] = x
<1> DEFINE D == 1 .. Cardinality(S)
<1>1. Cardinality(S) \in Nat /\ ExistsBijection(D, S)
    BY FS_CardinalityType
<1>2. PICK g \in [D -> S] : IsInjective(g)
    BY <1>1 DEF ExistsBijection, Bijection, Injection
<1>3. SetToSeq(S) \in [D -> S] /\ IsInjective(SetToSeq(S))
    BY <1>2 DEF SetToSeq
<1> DEFINE t == SetToSeq(S)
<1> HIDE DEF t
<1>4. t \in [D -> S] /\ IsInjective(t)
    BY <1>3 DEF t
<1>5. Len(t) = Cardinality(S)
    BY <1>1, <1>4
<1>6. IsFiniteSet(D) /\ Cardinality(D) = Cardinality(S)
    BY <1>1, FS_Interval
<1>7. t \in Injection(D, S)
    BY <1>4 DEF Injection
<1>8. t \in Surjection(D, S)
    BY <1>6, <1>7, FS_Injection
<1>9. \A x \in S : \E i \in D : t[i] = x
    BY <1>8 DEF Surjection
<1> QED BY <1>1, <1>4, <1>5, <1>9 DEF t

(* Mounting a tree replaces the files it displaces, open or not.            *)
LEMMA MountStep ==
    ASSUME FilesAssumption, FilesInv, NEW d, NEW tree \in Trees, Mount(d, tree)
    PROVE  FilesInv' /\ Contained
<1> DEFINE paths == SetToSeq(DOMAIN tree.files)
           n == Len(paths)
           At(rel) == [drive |-> d, rel |-> rel]
           added == [p \in {At(rel) : rel \in tree.dirs \cup DOMAIN tree.files} |->
                       IF p.rel \in tree.dirs THEN Dir
                       ELSE Len(files) + CHOOSE i \in 1 .. n : paths[i] = p.rel]
           new == [i \in 1 .. n |-> [len |-> tree.files[paths[i]], readOnly |-> FALSE]]
<1>1. /\ entries' = Over(added, Without(entries, OnDrive(d)))
      /\ files' = files \o new
      /\ replaced' = replaced \cup FilesOn(d) /\ Reply /\ UNCHANGED open
    BY DEF Mount
<1>2. /\ n \in Nat /\ paths \in [1 .. n -> DOMAIN tree.files]
      /\ \A x \in DOMAIN tree.files : \E i \in 1 .. n : paths[i] = x
    BY Listing DEF FilesAssumption
<1>3. \A x \in DOMAIN tree.files : tree.files[x] \in Nat
    BY DEF FilesAssumption
<1> HIDE DEF paths, n
<1>4. new \in Seq(FileStates) /\ Len(new) = n
    <2>1. new \in [1 .. n -> FileStates]
        BY <1>2, <1>3 DEF FileStates
    <2> HIDE DEF new
    <2> QED BY <1>2, <2>1
<1>5. \A p \in DOMAIN added : p.drive = d /\ added[p] \in 0 .. Len(files) + n
    <2>1. Len(files) \in Nat
        BY DEF FilesInv, DiskIsSound
    <2> SUFFICES ASSUME NEW rel \in tree.dirs \cup DOMAIN tree.files
                 PROVE  At(rel).drive = d /\ added[At(rel)] \in 0 .. Len(files) + n
        OBVIOUS
    <2>2. CASE rel \in tree.dirs
        BY <1>2, <2>1, <2>2 DEF Dir
    <2>3. CASE rel \notin tree.dirs
        <3>1. \E i \in 1 .. n : paths[i] = rel
            BY <1>2, <2>3
        <3>2. (CHOOSE i \in 1 .. n : paths[i] = rel) \in 1 .. n
            BY <3>1
        <3>3. added[At(rel)] = Len(files) + CHOOSE i \in 1 .. n : paths[i] = rel
            BY <2>3
        <3> QED BY <1>2, <2>1, <3>2, <3>3
    <2> QED BY <2>2, <2>3
<1> HIDE DEF added, new
<1>6. files \in Seq(FileStates) /\ \A p \in DOMAIN entries : entries[p] \in 0 .. Len(files)
    BY DEF FilesInv, DiskIsSound
<1>7. /\ files' \in Seq(FileStates) /\ Len(files') = Len(files) + n
      /\ \A g \in DOMAIN files : files'[g] = files[g]
    BY <1>1, <1>2, <1>4, <1>6
<1>8. /\ entries' = [p \in DOMAIN entries' |-> entries'[p]]
      /\ DOMAIN entries' = DOMAIN added \cup (DOMAIN entries \ OnDrive(d))
      /\ \A p \in DOMAIN added : entries'[p] = added[p]
      /\ \A p \in (DOMAIN entries \ OnDrive(d)) \ DOMAIN added : entries'[p] = entries[p]
    BY <1>1 DEF Over, Without
<1>9. DiskIsSound' /\ Len(files) <= Len(files')
    <2>1. \A p \in DOMAIN entries' : entries'[p] \in 0 .. Len(files')
        BY <1>2, <1>5, <1>6, <1>7, <1>8
    <2> QED BY <1>2, <1>6, <1>7, <1>8, <2>1 DEF DiskIsSound
<1>10. ASSUME NEW p \in DOMAIN entries, entries[p] # Dir, entries[p] \notin replaced'
       PROVE  p \in DOMAIN entries' /\ entries'[p] = entries[p]
    <2>1. p \notin OnDrive(d)
        BY <1>1, <1>10 DEF FilesOn
    <2>2. p \notin DOMAIN added
        BY <1>5, <2>1 DEF OnDrive
    <2> QED BY <1>8, <2>1, <2>2
<1>11. FilesInv'
    BY <1>1, <1>9, <1>10, EntriesStep
<1> QED BY <1>1, <1>7, <1>11 DEF Reply, Contained, FailureIsWhole, LengthsRespected

(* Mounting one file replaces the one it displaces, if any.                 *)
LEMMA MountFileStep ==
    ASSUME FilesInv, NEW spec, NEW len \in Nat, NEW readOnly \in BOOLEAN, MountFile(spec, len, readOnly)
    PROVE  FilesInv' /\ Contained
<1> DEFINE host == [spec EXCEPT !.rooted = TRUE, !.drive = IF @ = "" THEN BootDrive ELSE @]
           p == resolve(host)
           parents == {[p EXCEPT !.rel = SubSeq(@, 1, k)] : k \in 0 .. Len(p.rel) - 1}
           f == Len(files) + 1
           new == [len |-> len, readOnly |-> readOnly]
<1>1. CASE Fail
    BY <1>1, FailStep
<1>2. CASE ~Fail
    <2>1. /\ ~is_dir(p) /\ ~ \E q \in parents : is_file(q)
          /\ entries' = Put(Over([q \in parents |-> Dir], entries), p, f)
          /\ files' = Append(files, new)
          /\ replaced' = replaced \cup (IF Exists(p) THEN {entries[p]} ELSE {})
          /\ Reply /\ UNCHANGED open
        BY <1>2 DEF MountFile
    <2>2. new \in FileStates
        BY DEF FileStates
    <2> HIDE DEF p, parents, new
    <2>3. /\ files \in Seq(FileStates) /\ Len(files) \in Nat
          /\ \A q \in DOMAIN entries : entries[q] \in 0 .. Len(files)
        BY DEF FilesInv, DiskIsSound
    <2>4. /\ files' \in Seq(FileStates) /\ Len(files') = f /\ f \in Nat /\ Len(files) <= f
          /\ \A g \in DOMAIN files : files'[g] = files[g]
        BY <2>1, <2>2, <2>3
    <2>5. /\ entries' = [q \in DOMAIN entries' |-> entries'[q]]
          /\ DOMAIN entries' = parents \cup DOMAIN entries \cup {p}
          /\ entries'[p] = f
          /\ \A q \in parents \ {p} : entries'[q] = Dir
          /\ \A q \in DOMAIN entries \ (parents \cup {p}) : entries'[q] = entries[q]
        BY <2>1 DEF Put, Over
    <2>6. \A q \in DOMAIN entries' : entries'[q] \in 0 .. Len(files')
        BY <2>3, <2>4, <2>5 DEF Dir
    <2>7. DiskIsSound'
        BY <2>4, <2>5, <2>6 DEF DiskIsSound
    <2>8. ASSUME NEW q \in DOMAIN entries, entries[q] # Dir, entries[q] \notin replaced'
          PROVE  q \in DOMAIN entries' /\ entries'[q] = entries[q]
        <3>1. q # p
            BY <2>1, <2>8 DEF Exists
        <3>2. q \notin parents
            BY <2>1, <2>8 DEF is_file
        <3> QED BY <2>5, <3>1, <3>2
    <2>9. FilesInv'
        BY <2>1, <2>4, <2>7, <2>8, EntriesStep
    <2> QED BY <2>1, <2>4, <2>9 DEF Reply, Contained, FailureIsWhole, LengthsRespected
<1> QED BY <1>1, <1>2

(* A search leaves disk and handles alone.                                  *)
LEMMA SearchStep ==
    ASSUME FilesInv, SearchCalls
    PROVE  FilesInv' /\ Contained
<1>1. UNCHANGED <<disk, places, open, replaced>>
    <2>1. ASSUME NEW d, NEW spec, NEW pattern, NEW attrs, FindFirst(d, spec, pattern, attrs)
          PROVE  UNCHANGED <<disk, places, open, replaced>>
        BY <2>1 DEF FindFirst, Fail, Say
    <2>2. ASSUME NEW d, FindNext(d) PROVE UNCHANGED <<disk, places, open, replaced>>
        BY <2>2 DEF FindNext, Fail, Say
    <2>3. ASSUME NEW from, NEW to, CopyDta(from, to) PROVE UNCHANGED <<disk, places, open, replaced>>
        BY <2>3 DEF CopyDta
    <2> QED BY <2>1, <2>2, <2>3 DEF SearchCalls
<1> QED BY <1>1, QuietStep DEF disk, Contained, FailureIsWhole

(* Every call keeps the invariant and is contained.                        *)
LEMMA CallStep ==
    ASSUME FilesAssumption, FilesInv, Next
    PROVE  FilesInv' /\ Contained
<1>1. ASSUME NEW spec, NEW len \in Counts, NEW readOnly \in BOOLEAN, MountFile(spec, len, readOnly)
      PROVE  FilesInv' /\ Contained
    BY <1>1, MountFileStep DEF FilesAssumption
<1>2. HostCalls => FilesInv' /\ Contained
    BY <1>1, MountStep DEF HostCalls
<1> QED BY <1>2, HandleStep, NameStep, SearchStep DEF Next

(* It holds of a machine that has just booted.                             *)
LEMMA InitialFiles == ASSUME FilesAssumption, Init PROVE FilesInv
<1>1. DiskIsSound
    BY DEF Init, DiskIsSound, Dir
<1>2. Len(records) = 0 /\ IsSequence(records) /\ Open = {}
    BY DEF Init, IsSequence, Open
<1>3. handles \in [0 .. Slots - 1 -> {Device} \cup 0 .. Len(records)]
    BY <1>2 DEF Init, Standard, Vacant
<1> QED BY <1>1, <1>2, <1>3 DEF FilesInv, HandlesAreSound, OpenNamesLive, SharingHolds

(* Until its last handle closes, the path a file was opened by names it,   *)
(* unless the host replaced it there: delete and rename refuse a file that *)
(* is_open (files/handles.rs:52).                                          *)
THEOREM OpenNamesStay == ASSUME FilesAssumption PROVE Spec => []OpenNamesLive
<1>1. Init => FilesInv
    BY InitialFiles
<1>2. FilesInv /\ [Next]_vars => FilesInv'
    <2>1. FilesInv /\ UNCHANGED vars => FilesInv'
        BY QuietStep DEF vars, disk
    <2> QED BY <2>1, CallStep
<1>3. FilesInv => OpenNamesLive
    BY DEF FilesInv
<1> QED BY <1>1, <1>2, <1>3, PTL DEF Spec

(* While a record denies writing, only it and records opened before it     *)
(* change its file's length, and a call that reports an error has changed  *)
(* no entry, file, attribute or handle (files/file_handle.rs:55,           *)
(* files/create.rs:17).                                                    *)
THEOREM CallsStayContained ==
    ASSUME FilesAssumption PROVE Spec => DenyIsRespected /\ FailuresChangeNothing
<1>1. Init => FilesInv
    BY InitialFiles
<1>2. FilesInv /\ [Next]_vars => FilesInv'
    <2>1. FilesInv /\ UNCHANGED vars => FilesInv'
        BY QuietStep DEF vars, disk
    <2> QED BY <2>1, CallStep
<1>3. FilesInv /\ [Next]_vars => [LengthsRespected]_vars /\ [FailureIsWhole]_vars
    BY CallStep DEF Contained
<1> QED BY <1>1, <1>2, <1>3, PTL DEF Spec, DenyIsRespected, FailuresChangeNothing
=============================================================================
