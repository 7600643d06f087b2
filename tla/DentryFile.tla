------------------------------ MODULE DentryFile ------------------------------
(***************************************************************************)
(* The dentry files of the cloud disks: the children of a directory in a   *)
(* file of groups of slots, hashed into levels of buckets.  Level L has    *)
(* 2^L buckets of two groups; a name goes to the first level whose bucket  *)
(* has room for it, and the file grows by a level when none has.           *)
(*   utils/dentry/src/meta_file_clouddisk.cpp       (Kind "disk")          *)
(*   clouddiskservice/.../cloud_disk_service_metafile.cpp  ("service")     *)
(*                                                                         *)
(* The "disk" frees the slots of a removed name.  The "service" only marks *)
(* it, because the change log refers to names by their position.           *)
(*                                                                         *)
(* A call takes the mutex of the object its thread got from MetaFileMgr,   *)
(* copies a group, changes the copy and writes it back.  MetaFileMgr keeps *)
(* a limited number of objects, so that an object in use may be evicted    *)
(* and a second one made for the same file, with a mutex of its own.       *)
(***************************************************************************)
EXTENDS Integers, Sequences, FiniteSets

CONSTANTS
    Kind,         \* "disk" or "service"
    Names, Hash, SlotsOf,   \* names, DentryHash and GetDentrySlots of each
    Vals,         \* what an entry says of a file
    PerGroup,     \* DENTRY_PER_GROUP
    MaxLevel,     \* MAX_BUCKET_LEVEL, 63 in the code
    Tables,       \* directories
    Threads, Ops, \* threads and the calls they make
    MaxCalls, MaxFaults, MaxEvictions

VARIABLES
    table,        \* table[d]: the groups of the file
    object,       \* object[d]: which object MetaFileMgr has for it
    call,         \* call[t]: the call of thread t, or Idle
    dir,          \* dir[d]: what the file should say, <<name, val>>
    logged,       \* positions given to the change log
    torn,         \* two objects of one file were in use at once
    calls, faults

vars == <<table, object, call, dir, logged, torn, calls, faults>>

None == "none"
BucketBlocks == 2
Slot == 0..PerGroup-1
Blank == [bit |-> [p \in Slot |-> FALSE],
          nsl |-> [p \in Slot |-> [name |-> None, val |-> 0, valid |-> FALSE]]]
Idle == [pc |-> "idle"]

-----------------------------------------------------------------------------
(* Where the buckets of a level are.                                       *)
GetBucketByLevel(level) == 2^level
GetBucketaddr(level, off) == 2^level + off - 1
GetOverallBucket(level) == 2^(level+1) - 1
GetDcacheFileSize(level) == GetOverallBucket(level) * BucketBlocks
GetBidxFromLevel(level, n) ==
    BucketBlocks * GetBucketaddr(level, Hash[n] % GetBucketByLevel(level))

(* The first run of zero bits that is long enough.                         *)
NextWith(bit, b, from) ==
    CHOOSE p \in from..PerGroup :
        /\ p = PerGroup \/ bit[p] = b
        /\ \A q \in from..p-1 : bit[q] # b

RECURSIVE RoomFrom(_, _, _)
RoomFrom(bit, slots, start) ==
    LET zero == NextWith(bit, FALSE, start)
        end == NextWith(bit, TRUE, zero) IN
    IF zero >= PerGroup THEN PerGroup
    ELSE IF end - zero >= slots THEN zero
    ELSE IF end + 1 >= PerGroup THEN PerGroup
    ELSE RoomFrom(bit, slots, end + 1)

RECURSIVE RoomShort(_, _, _)
RoomShort(bit, slots, start) ==
    LET zero == NextWith(bit, FALSE, start)
        end == NextWith(bit, TRUE, zero) IN
    IF zero >= PerGroup THEN PerGroup
    ELSE IF end - zero + 1 >= slots THEN zero
    ELSE IF end + 1 >= PerGroup THEN PerGroup
    ELSE RoomShort(bit, slots, end + 1)

RoomTooShort(bit, slots) == RoomShort(bit, slots, 0)
RoomForFilename(bit, slots) == RoomFrom(bit, slots, 0)

(* FindInBlock walks from entry to entry, by the slots each one takes.     *)
RECURSIVE FindFrom(_, _, _, _)
FindFrom(g, n, valid, p) ==
    IF p >= PerGroup THEN PerGroup
    ELSE IF ~g.bit[p] \/ g.nsl[p].name = None THEN FindFrom(g, n, valid, p + 1)
    ELSE IF g.nsl[p].name = n /\ g.nsl[p].valid = valid THEN p
    ELSE FindFrom(g, n, valid, p + SlotsOf[g.nsl[p].name])

FindInBlock(g, n) == FindFrom(g, n, TRUE, 0)

(* FindDentryPage reads a group, none beyond the end of the file.          *)
Pages(tb, bidx) == {b \in bidx..bidx + BucketBlocks - 1 : b < Len(tb)}

Missing == [bidx |-> -1, pos |-> 0]

InLevel(tb, level, n) ==
    LET hits == {b \in Pages(tb, GetBidxFromLevel(level, n)) :
                     FindInBlock(tb[b+1], n) < PerGroup} IN
    IF hits = {} THEN Missing
    ELSE LET b == CHOOSE x \in hits : \A y \in hits : x <= y IN
         [bidx |-> b, pos |-> FindInBlock(tb[b+1], n)]

FindDentry(tb, n) ==
    LET levels == {l \in 0..MaxLevel-1 : InLevel(tb, l, n) # Missing} IN
    IF levels = {} THEN Missing
    ELSE InLevel(tb, CHOOSE l \in levels : \A m \in levels : l <= m, n)

(* HandleFileByFd lengthens the file by whole levels of empty groups.      *)
HandleFileByFd(tb, level, n) ==
    IF GetBidxFromLevel(level, n) + BucketBlocks > Len(tb)
    THEN tb \o [i \in 1..GetDcacheFileSize(level) - Len(tb) |-> Blank]
    ELSE tb

(* GetCreateInfo tries level after level: the file as it leaves it, and    *)
(* the place for the name, Missing when there is no space.                 *)
RECURSIVE CreateAt(_, _, _)
CreateAt(tb, level, n) ==
    LET grown == HandleFileByFd(tb, level, n)
        fit == {b \in Pages(grown, GetBidxFromLevel(level, n)) :
                    RoomForFilename(grown[b+1].bit, SlotsOf[n]) < PerGroup}
        b0 == CHOOSE b \in fit : \A c \in fit : b <= c IN
    IF level = MaxLevel THEN [tb |-> tb, at |-> Missing]
    ELSE IF fit = {} THEN CreateAt(grown, level + 1, n)
    ELSE [tb |-> grown,
          at |-> [bidx |-> b0, pos |-> RoomForFilename(grown[b0+1].bit, SlotsOf[n])]]

GetCreateInfo(tb, n) == CreateAt(tb, 0, n)

(* UpdateDentry, CreateDentry: the entry in its first slot, the others it  *)
(* takes without a name.                                                   *)
Covered(p, n) == p..p + SlotsOf[n] - 1

UpdateDentry(g, p, n, val) ==
    [bit |-> [q \in Slot |-> g.bit[q] \/ q \in Covered(p, n)],
     nsl |-> [q \in Slot |->
         IF q = p THEN [name |-> n, val |-> val, valid |-> TRUE]
         ELSE IF q \in Covered(p, n) THEN [g.nsl[q] EXCEPT !.name = None]
         ELSE g.nsl[q]]]

ClearSlots(g, p) ==
    [g EXCEPT !.bit = [q \in Slot |-> @[q] /\ q \notin Covered(p, g.nsl[p].name)]]

Invalidate(g, p) == [g EXCEPT !.nsl[p].valid = FALSE]

Removed(g, p) == IF Kind = "disk" THEN ClearSlots(g, p) ELSE Invalidate(g, p)

SetVal(g, p, val) == [g EXCEPT !.nsl[p].val = val]

-----------------------------------------------------------------------------
(* The calls: each is one or more steps that take and release the mutex.   *)
FirstStep(op) ==
    CASE op \in {"create", "save", "change", "drop"} -> "lookup"
      [] op = "rename" -> "create"
      [] op = "add" -> "create"
      [] op = "edit" -> "update"
      [] op = "unlink" -> "remove"
      [] op = "move" -> "remove"

(* DoLookupAndCreate, DoLookupAndUpdate, DoChildUpdate, DoLookupAndRemove, *)
DoLookupAndCreate(ok) == IF ok THEN "done" ELSE "create"
DoLookupAndUpdate(ok) == IF ok THEN "update" ELSE "create"
DoChildUpdate(ok) == IF ok THEN "update" ELSE "done"
DoLookupAndRemove(ok) == IF ok THEN "remove" ELSE "done"

(* and DoRename, which takes back the new name if the old one stays.       *)
DoRename(pc, ok) ==
    CASE pc = "create" -> IF ok THEN "remove" ELSE "done"
      [] pc = "remove" -> IF ok THEN "done" ELSE "undo"
      [] OTHER -> "done"

(* The service's rename is two events of the monitor, one for each name.   *)
MoveTo(pc, ok) == IF pc = "remove" /\ ok THEN "create" ELSE "done"

StepAfter(c, ok) ==
    CASE c.pc = "lookup" /\ c.op = "create" -> DoLookupAndCreate(ok)
      [] c.pc = "lookup" /\ c.op = "save" -> DoLookupAndUpdate(ok)
      [] c.pc = "lookup" /\ c.op = "change" -> DoChildUpdate(ok)
      [] c.pc = "lookup" /\ c.op = "drop" -> DoLookupAndRemove(ok)
      [] c.op = "rename" -> DoRename(c.pc, ok)
      [] c.op = "move" -> MoveTo(c.pc, ok)
      [] OTHER -> "done"

(* The directory and the name a step is about.                             *)
IsTarget(c) ==
    \/ c.op = "rename" /\ c.pc \in {"create", "undo"}
    \/ c.op = "move" /\ c.pc = "create"
Dir(c) == IF IsTarget(c) THEN c.dst ELSE c.src
Name(c) == IF IsTarget(c) THEN c.to ELSE c.from

Goes(t, ok) ==
    LET pc == StepAfter(call[t], ok) IN
    call' = [call EXCEPT ![t] =
        IF pc = "done" THEN Idle
        ELSE [call[t] EXCEPT !.pc = pc, !.held = 0, !.page = Blank]]

Start(t) ==
    /\ call[t].pc = "idle" /\ calls < MaxCalls
    /\ \E op \in Ops, d, e \in Tables, n, m \in Names, v \in Vals :
           /\ op \notin {"rename", "move"} => d = e /\ n = m
           /\ op \in {"rename", "move"} => <<d, n>> # <<e, m>>
           /\ op \in {"drop", "unlink"} => v = CHOOSE w \in Vals : TRUE
           /\ call' = [call EXCEPT ![t] =
                  [op |-> op, pc |-> FirstStep(op), src |-> d, from |-> n,
                   dst |-> e, to |-> m, val |-> v,
                   held |-> 0, bidx |-> 0, pos |-> 0, page |-> Blank]]
    /\ calls' = calls + 1
    /\ UNCHANGED <<table, object, dir, logged, torn, faults>>

Inside(u, d) == call[u].pc # "idle" /\ call[u].held # 0 /\ Dir(call[u]) = d

(* mtx_ of the object the thread has; another object is another mutex.     *)
MayEnter(t, d) == \A u \in Threads \ {t} : Inside(u, d) => call[u].held # object[d]

Enter(t, at, page) ==
    LET d == Dir(call[t]) IN
    /\ call' = [call EXCEPT ![t].held = object[d], ![t].bidx = at.bidx,
                            ![t].pos = at.pos, ![t].page = page]
    /\ torn' = (torn \/ \E u \in Threads \ {t} : Inside(u, d))

-----------------------------------------------------------------------------
(* DoLookup, and the steps that end before anything is written.            *)
DoLookup(t) ==
    LET c == call[t] IN
    /\ c.pc = "lookup" /\ MayEnter(t, Dir(c))
    /\ Goes(t, FindDentry(table[Dir(c)], Name(c)) # Missing)
    /\ UNCHANGED <<table, object, dir, logged, torn, calls, faults>>

(* DoCreate looks for the name first (EEXIST), then for room (ENOSPC).     *)
DoCreate(t) ==
    LET c == call[t]  d == Dir(c)  n == Name(c)  i == GetCreateInfo(table[d], n) IN
    /\ c.pc = "create" /\ c.held = 0 /\ MayEnter(t, d)
    /\ IF FindDentry(table[d], n) # Missing \/ SlotsOf[n] > PerGroup
       THEN Goes(t, FALSE) /\ UNCHANGED <<table, torn>>
       ELSE /\ table' = [table EXCEPT ![d] = i.tb]
            /\ IF i.at = Missing
               THEN Goes(t, FALSE) /\ UNCHANGED torn
               ELSE Enter(t, i.at, UpdateDentry(i.tb[i.at.bidx+1], i.at.pos, n, c.val))
    /\ UNCHANGED <<object, dir, logged, calls, faults>>

(* DoRemove, DoRenameOld and DoUpdate find the name and change its group.  *)
DoRemove(t) ==
    LET c == call[t]  d == Dir(c)  at == FindDentry(table[d], Name(c)) IN
    /\ c.pc \in {"remove", "undo"} /\ c.held = 0 /\ MayEnter(t, d)
    /\ IF at = Missing
       THEN Goes(t, FALSE) /\ UNCHANGED torn
       ELSE Enter(t, at, Removed(table[d][at.bidx+1], at.pos))
    /\ UNCHANGED <<table, object, dir, logged, calls, faults>>

DoUpdate(t) ==
    LET c == call[t]  d == Dir(c)  at == FindDentry(table[d], Name(c)) IN
    /\ c.pc = "update" /\ c.held = 0 /\ MayEnter(t, d)
    /\ IF at = Missing
       THEN Goes(t, FALSE) /\ UNCHANGED torn
       ELSE Enter(t, at, SetVal(table[d][at.bidx+1], at.pos, c.val))
    /\ UNCHANGED <<table, object, dir, logged, calls, faults>>

(* The call writes its copy of the group back and returns.                 *)
Without(d, n) == {x \in dir[d] : x[1] # n}

WriteFile(t) ==
    LET c == call[t]  d == Dir(c)  n == Name(c) IN
    /\ c.pc # "idle" /\ c.held # 0
    /\ table' = [table EXCEPT ![d][c.bidx+1] = c.page]
    /\ dir' = [dir EXCEPT ![d] = IF c.pc \in {"create", "update"}
                                 THEN Without(d, n) \cup {<<n, c.val>>}
                                 ELSE Without(d, n)]
    /\ logged' = IF Kind = "service" THEN logged \cup {<<d, c.bidx, c.pos, n>>}
                 ELSE logged
    /\ Goes(t, TRUE)
    /\ UNCHANGED <<object, torn, calls, faults>>

WriteFails(t) ==
    /\ call[t].pc # "idle" /\ call[t].held # 0 /\ faults < MaxFaults
    /\ faults' = faults + 1
    /\ Goes(t, FALSE)
    /\ UNCHANGED <<table, object, dir, logged, torn, calls>>

(* MetaFileMgr: an object leaves the list of those most recently used.     *)
Evict(d) ==
    /\ object[d] <= MaxEvictions
    /\ object' = [object EXCEPT ![d] = @ + 1]
    /\ UNCHANGED <<table, call, dir, logged, torn, calls, faults>>

-----------------------------------------------------------------------------
Init ==
    /\ table = [d \in Tables |-> <<>>]
    /\ object = [d \in Tables |-> 1]
    /\ call = [t \in Threads |-> Idle]
    /\ dir = [d \in Tables |-> {}]
    /\ logged = {} /\ torn = FALSE /\ calls = 0 /\ faults = 0

Next ==
    \/ \E t \in Threads : Start(t) \/ DoLookup(t) \/ DoCreate(t) \/ DoRemove(t)
                            \/ DoUpdate(t) \/ WriteFile(t) \/ WriteFails(t)
    \/ \E d \in Tables : Evict(d)

Spec == Init /\ [][Next]_vars

-----------------------------------------------------------------------------
TypeOK ==
    /\ \A d \in Tables :
           /\ \A i \in 1..Len(table[d]) :
                  /\ table[d][i].bit \in [Slot -> BOOLEAN]
                  /\ \A p \in Slot : table[d][i].nsl[p].name \in Names \cup {None}
           /\ Len(table[d]) \in {0} \cup {GetDcacheFileSize(l) : l \in 0..MaxLevel-1}
           /\ dir[d] \subseteq Names \X Vals
    /\ torn \in BOOLEAN /\ calls \in 0..MaxCalls /\ faults \in 0..MaxFaults

(* DecodeDentrys and LoadChildren: the entries a listing returns.          *)
LoadChildren(d) ==
    {<<i, p>> \in (1..Len(table[d])) \X Slot :
        /\ table[d][i].bit[p] /\ table[d][i].nsl[p].name # None
        /\ table[d][i].nsl[p].valid}

(* A dentry file says what was done to it: FindDentry finds every name     *)
(* created and not removed, with what was last written of it, and no other *)
(* name, whichever level it is at; and LoadChildren lists each name once.  *)
EntriesAreFound ==
    ~torn => \A d \in Tables :
        /\ \A n \in Names :
               LET at == FindDentry(table[d], n) IN
               {x \in dir[d] : x[1] = n} =
                   IF at = Missing THEN {}
                   ELSE {<<n, table[d][at.bidx+1].nsl[at.pos].val>>}
        /\ Cardinality(LoadChildren(d)) = Cardinality(dir[d])

(* DoLookupByOffset reads the slot whatever its bit and its mark say.      *)
DoLookupByOffset(d, bidx, pos) == table[d][bidx+1].nsl[pos]

(* A position the change log was given goes on meaning the same name, for  *)
(* DoLookupByOffset, after the name is removed and others are created.     *)
PositionsKeepTheirNames ==
    ~torn => \A x \in logged : DoLookupByOffset(x[1], x[2], x[3]).name = x[4]
=============================================================================
