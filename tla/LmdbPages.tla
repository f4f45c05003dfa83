------------------------------ MODULE LmdbPages ------------------------------
(***************************************************************************)
(* The page store of an LMDB write transaction: copy-on-write of pages,    *)
(* allocation from loose pages, from old free-list records or from the end *)
(* of the map, spilling of dirty pages, nested transactions, and the       *)
(* saving of the free list at commit (src/lib/lmdb/mdb.c 1868-3323).       *)
(*                                                                         *)
(* The trees are abstracted to the shape these functions tell apart.  The  *)
(* main tree is a root page whose kids[k] is the leaf page of key k, the   *)
(* freeDB is one page whose recs maps a transaction id to a set of pages.  *)
(* Page number 0 stands for P_INVALID as well as for meta page 0.          *)
(***************************************************************************)
EXTENDS Integers, FiniteSets, Sequences, SequencesExt, FiniteSetsExt

CONSTANTS Keys,        \* keys of the main tree
          MaxPg,       \* me_maxpg: number of pages of the map
          MaxReaders,  \* me_maxreaders: slots of the reader table
          SpillNeed,   \* estimated pages of one operation (i in page_spill)
          SpillCount,  \* dirty pages spilled at a time
          MaxFree1pg,  \* me_maxfree_1pg: page numbers in one freeDB record
          NoPid        \* mr_pid = 0

VARIABLES cache,       \* the map as every process sees it: metas and pages
          slots        \* the reader table

Blank == [kids |-> [k \in Keys |-> 0], val |-> 0, recs |-> <<>>]

\* A transaction of the stack of nested write transactions.  saved is the
\* parent's MDB_pgstate, kept by mdb_txn_begin for a child; log is a ghost, the
\* content the transaction should see.
NewFrame(root, free, next, room, saved, log) ==
    [root |-> root, free |-> free, next |-> next, dirty |-> <<>>,
     spill |-> {}, freepgs |-> {}, loose |-> <<>>, room |-> room,
     err |-> FALSE, saved |-> saved, log |-> log]

\* The writer's context x: the frames, innermost first, and what the
\* environment keeps for its one writer.  have is "me_pghead is not NULL", out
\* the spilled pages, which the step that spills them writes to the map.
NewContext(txnid, frame, oldest) ==
    [txnid |-> txnid, frames |-> <<frame>>, have |-> FALSE, head |-> {},
     last |-> 0, oldest |-> oldest, out |-> <<>>]

Top(x) == x.frames[1]

WithTop(x, f) == [x EXCEPT !.frames[1] = f]

Failed(x) == [x EXCEPT !.frames[1].err = TRUE]

SetFn(f, p, c) == [q \in DOMAIN f \cup {p} |-> IF q = p THEN c ELSE f[q]]

DropFn(f, S) == [q \in DOMAIN f \ S |-> f[q]]

SetPage(x, p, c) == [x EXCEPT !.frames[1].dirty = SetFn(@, p, c)]

Holders(x, p) ==
    SelectSeq(x.frames, LAMBDA f : p \in f.spill \cup DOMAIN f.dirty)

\* P_DIRTY of the page mdb_page_get would return.
FlaggedDirty(x, p) ==
    Holders(x, p) # <<>> /\ p \notin Holders(x, p)[1].spill

Mapped(x, p) == IF p \in DOMAIN x.out THEN x.out[p] ELSE cache.pg[p]

PageGet(x, p) ==
    IF FlaggedDirty(x, p) THEN Holders(x, p)[1].dirty[p] ELSE Mapped(x, p)

Recs(x) == IF Top(x).free = 0 THEN <<>> ELSE PageGet(x, Top(x).free).recs

\* Variant: without the scan of the reader table.
FindOldestNoScan(x) == x.txnid - 1

FindOldest(x) ==
    Min({x.txnid - 1} \cup
        {slots[i].txnid : i \in {j \in DOMAIN slots : slots[j].pid # NoPid}})

\* The loop of mdb_page_alloc that merges freeDB records into me_pghead: stop at
\* the first page, at the end of the freeDB or at a record too recent to use.
\* later is the set of records not yet used.
RECURSIVE Coalesce(_)

Merge(x, later) ==
    IF later = {} \/ x.oldest <= Min(later) THEN x
    ELSE Coalesce([x EXCEPT !.have = TRUE, !.last = Min(later),
                            !.head = Recs(x)[Min(later)]])

LookAgain(x, later) ==
    IF x.oldest <= x.last + 1 \/ (later # {} /\ x.oldest <= Min(later))
    THEN [x EXCEPT !.oldest = FindOldest(x)]
    ELSE x

Fetch(x, later) == Merge(LookAgain(x, later), later)

Coalesce(x) ==
    IF x.head # {} THEN x ELSE Fetch(x, {r \in DOMAIN Recs(x) : r > x.last})

Dirtied(x, pg) ==
    [x |-> [SetPage(x, pg, Blank) EXCEPT !.frames[1].room = @ - 1], pg |-> pg]

TakePage(x) ==
    IF x.head # {} THEN Dirtied([x EXCEPT !.head = @ \ {Min(@)}], Min(x.head))
    ELSE IF Top(x).next + 1 >= MaxPg THEN [x |-> Failed(x), pg |-> 0]
    ELSE Dirtied([x EXCEPT !.frames[1].next = @ + 1], Top(x).next)

PageAlloc(x) ==
    IF Top(x).loose # <<>>
    THEN [x |-> [x EXCEPT !.frames[1].loose = Tail(@)], pg |-> Head(Top(x).loose)]
    ELSE IF Top(x).room = 0 THEN [x |-> Failed(x), pg |-> 0]
    ELSE TakePage(Coalesce(x))

\* Fill the page a.pg of a successful allocation a.
Filled(a, c) == IF Top(a.x).err THEN a ELSE [a EXCEPT !.x = SetPage(@, a.pg, c)]

PageNew(x) == Filled(PageAlloc(x), Blank)

PageUnspill(x, p) ==
    IF Top(x).room = 0 THEN [x |-> Failed(x), pg |-> 0]
    ELSE [x |-> [SetPage(x, p, Mapped(x, p)) EXCEPT
                    !.frames[1].spill = @ \ {p}, !.frames[1].room = @ - 1],
          pg |-> p]

FreePage(x, p) == [x EXCEPT !.frames[1].freepgs = @ \cup {p}]

Copied(a, p, c) ==
    IF Top(a.x).err THEN a ELSE [Filled(a, c) EXCEPT !.x = FreePage(@, p)]

PageTouch(x, p) ==
    IF p \in DOMAIN Top(x).dirty THEN [x |-> x, pg |-> p]
    ELSE IF FlaggedDirty(x, p)
    THEN [x |-> SetPage(x, p, PageGet(x, p)), pg |-> p]
    ELSE IF Holders(x, p) # <<>> THEN PageUnspill(x, p)
    ELSE Copied(PageAlloc(x), p, PageGet(x, p))

PageLoose(x, p) ==
    IF FlaggedDirty(x, p) /\ (Len(x.frames) = 1 \/ p \in DOMAIN Top(x).dirty)
    THEN [x EXCEPT !.frames[1].loose = <<p>> \o @]
    ELSE FreePage(x, p)

\* Variant: without the test of the ancestors' spill lists.
SpillableTwice(x, path) ==
    DOMAIN Top(x).dirty \ (ToSet(Top(x).loose) \cup path \cup
                           {Top(x).root, Top(x).free})

\* Pages mdb_page_spill may write: not loose, not on the cursor's path, not a
\* dirty root, not already spilled by an ancestor.
Spillable(x, path) ==
    {p \in DOMAIN Top(x).dirty :
        /\ p \notin ToSet(Top(x).loose) \cup path
        /\ p \notin {Top(x).root, Top(x).free}
        /\ \A i \in 2..Len(x.frames) : p \notin x.frames[i].spill}

SpillPages(x, some) ==
    [x EXCEPT !.frames[1].dirty = DropFn(@, some),
              !.frames[1].spill = @ \cup some,
              !.frames[1].room = @ + Cardinality(some),
              !.out = [p \in some \cup DOMAIN @ |->
                          IF p \in some THEN Top(x).dirty[p] ELSE @[p]]]

Highest(S, n) == {p \in S : Cardinality({q \in S : q > p}) < n}

PageSpill(x, path) ==
    IF Top(x).room > SpillNeed THEN x
    ELSE SpillPages(x, Highest(Spillable(x, path), SpillCount))

Path(x, k) ==
    IF Top(x).root = 0 THEN {}
    ELSE {Top(x).root, PageGet(x, Top(x).root).kids[k]}

\* The root of the main tree, writable; r.pg is its page.
SetRoot(r) ==
    IF Top(r.x).err THEN r ELSE [r EXCEPT !.x.frames[1].root = r.pg]

WritableRoot(x) ==
    SetRoot(IF Top(x).root = 0 THEN PageNew(x) ELSE PageTouch(x, Top(x).root))

Kid(r, k) == PageGet(r.x, r.pg).kids[k]

SetKid(x, pg, k, kid) ==
    SetPage(x, pg, [PageGet(x, pg) EXCEPT !.kids[k] = kid])

PutLeaf(l, root, k, v) ==
    IF Top(l.x).err THEN l.x
    ELSE SetKid(SetPage(l.x, l.pg, [Blank EXCEPT !.val = v]), root, k, l.pg)

PutUnder(r, k, v) ==
    IF Top(r.x).err THEN r.x
    ELSE PutLeaf(IF Kid(r, k) = 0 THEN PageNew(r.x) ELSE PageTouch(r.x, Kid(r, k)),
                 r.pg, k, v)

\* A put of key k: spill if the dirty list is nearly full, touch or make the
\* root, then the leaf, and write both.
Put(x, k, v) == PutUnder(WritableRoot(PageSpill(x, Path(x, k))), k, v)

\* A root without nodes goes to mt_free_pgs although it is dirty, as
\* mdb_rebalance does.
Rebalanced(x, root) ==
    IF PageGet(x, root) # Blank THEN x
    ELSE [FreePage(x, root) EXCEPT !.frames[1].root = 0]

DelLeaf(l, root, k) ==
    IF Top(l.x).err THEN l.x
    ELSE Rebalanced(PageLoose(SetKid(l.x, root, k, 0), l.pg), root)

DelUnder(r, k) ==
    IF Top(r.x).err THEN r.x
    ELSE DelLeaf(PageTouch(r.x, Kid(r, k)), r.pg, k)

\* A delete of a key that is present: its leaf becomes loose.
Del(x, k) == DelUnder(WritableRoot(PageSpill(x, Path(x, k))), k)

-----------------------------------------------------------------------------
(* Saving the free list, mdb_freelist_save.                                *)

SetFree(t) == IF Top(t.x).err THEN t.x ELSE [t.x EXCEPT !.frames[1].free = t.pg]

FreeTouch(x) ==
    IF Top(x).free = 0 THEN x ELSE SetFree(PageTouch(x, Top(x).free))

SetRecs(x, recs) ==
    IF Top(x).err THEN x
    ELSE SetPage(x, Top(x).free, [Blank EXCEPT !.recs = recs])

\* mdb_cursor_put of a record with its page dirty, or on a new root page.
PutRec(x, id, pgs) == SetRecs(x, SetFn(Recs(x), id, pgs))

WritableFree(x) == IF Top(x).free = 0 THEN SetFree(PageNew(x)) ELSE FreeTouch(x)

FreePut(x, id, pgs) == PutRec(WritableFree(PageSpill(x, {})), id, pgs)

DelRec(x, id) ==
    IF Top(x).err THEN x
    ELSE IF DOMAIN Recs(x) = {id}
    THEN [FreePage(x, Top(x).free) EXCEPT !.frames[1].free = 0]
    ELSE SetRecs(x, DropFn(Recs(x), {id}))

FreeDel(x, id) == DelRec(FreeTouch(PageSpill(x, {})), id)

\* Loose pages join mt_free_pgs when there is no me_pghead to return them to.
FreeLoose(x) ==
    LET loose == ToSet(Top(x).loose)
    IN  IF x.have THEN x
        ELSE [x EXCEPT !.frames[1].freepgs = @ \cup loose,
                       !.frames[1].dirty = DropFn(@, loose),
                       !.frames[1].loose = <<>>]

\* One record {key = headId, length = headRoom} reserved for me_pghead.
Reserve(s, mop) ==
    LET another == s.total < mop /\ s.headRoom >= MaxFree1pg /\ s.headId > 1
        id == IF another THEN s.headId - 1 ELSE s.headId
        base == s.total - (IF another THEN 0 ELSE s.headRoom)
        want == mop - base
        part == want \div id
        room == IF want > MaxFree1pg /\ id > 1
                THEN part + (MaxFree1pg - (part % (MaxFree1pg + 1)))
                ELSE Max({want, 0})
    IN  [s EXCEPT !.x = FreePut(s.x, id, {}), !.headId = id, !.headRoom = room,
                  !.total = base + room, !.rooms = SetFn(@, id, room),
                  !.more = @ - (IF s.total >= mop THEN 1 ELSE 0)]

\* The loop "keep trying until it stabilizes": delete the records used up, save
\* the pages this transaction freed in one record, reserve room for me_pghead.
RECURSIVE Stabilize(_)

Deleted(s, first) ==
    [s EXCEPT !.x = FreeDel(@, first), !.pglast = first, !.headId = first,
              !.headRoom = 0, !.total = 0, !.rooms = DropFn(@, {first})]

SavedPgs(s, x) ==
    [s EXCEPT !.x = PutRec(x, x.txnid, Top(x).freepgs),
              !.freecnt = Cardinality(Top(x).freepgs)]

SaveFreePgs(s) ==
    SavedPgs(s, FreePut(IF s.freecnt = 0 THEN FreeTouch(s.x) ELSE s.x,
                        s.x.txnid, {}))

Settled(s, mop) == s.total = mop \/ (s.total > mop /\ s.more = 0)

MopLen(x) == Cardinality(x.head) + Len(Top(x).loose)

Stabilize(s) ==
    IF Top(s.x).err THEN s
    ELSE IF s.pglast < s.x.last THEN Stabilize(Deleted(s, Min(DOMAIN Recs(s.x))))
    ELSE IF s.freecnt < Cardinality(Top(s.x).freepgs) THEN Stabilize(SaveFreePgs(s))
    ELSE IF Settled(s, MopLen(s.x)) THEN s
    ELSE Stabilize(Reserve(s, MopLen(s.x)))

\* The reserved records, in key order, take the lowest page numbers first.
RECURSIVE Fill(_, _, _)
Fill(recs, rooms, head) ==
    LET id == Min(DOMAIN rooms)
        some == {p \in head : Cardinality({q \in head : q < p}) < rooms[id]}
    IN  IF head = {} \/ DOMAIN rooms = {} THEN recs
        ELSE Fill(SetFn(recs, id, some), DropFn(rooms, {id}), head \ some)

\* Loose pages left go back to me_pghead, which fills the reserved records.
FillReserved(x, rooms, head) ==
    IF Top(x).err \/ head = {} THEN x ELSE SetRecs(x, Fill(Recs(x), rooms, head))

Finish(s) == FillReserved(s.x, s.rooms, s.x.head \cup ToSet(Top(s.x).loose))

FreelistSave(x) ==
    Finish(Stabilize(
        [x |-> FreeLoose(IF x.have THEN FreeTouch(x) ELSE x), pglast |-> 0,
         headId |-> 0, headRoom |-> 0, total |-> 0, freecnt |-> 0, more |-> 1,
         rooms |-> <<>>]))
=============================================================================
