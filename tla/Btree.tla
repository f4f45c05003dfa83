-------------------------------- MODULE Btree --------------------------------
(***************************************************************************)
(* The operations of an LMDB write transaction on one database and on the  *)
(* cursors open on it (mdb_put, mdb_del, mdb_cursor_get, mdb_cursor_put,   *)
(* mdb_cursor_del in src/lib/lmdb/mdb.c), over the tree of BtreePages.     *)
(* Every operation runs to its end before the next: a write transaction    *)
(* and its cursors belong to one thread.  Sorted duplicates and overflow   *)
(* pages are left out; allocation always succeeds here, see LmdbTxn.       *)
(***************************************************************************)
EXTENDS BtreePages

CONSTANTS Cursors,     \* number of cursors the application opens
          Keys,        \* numbers from 1 on
          Scenarios    \* choices of sizes and operations, see MCBtree

VARIABLES t,           \* the tree and its cursors, see BtreePages
          entries,     \* md_entries
          map, at,     \* ghosts: what the tree and its cursors should be
          commits      \* transactions committed

vars == <<scen, t, entries, map, at, commits>>

CursorIds == 1..Cursors

OMap == INSTANCE OrderedMap

EmptyDb == [pages |-> <<>>, dirty |-> {}, root |-> 0, depth |-> 0, leafs |-> 0,
            branches |-> 0, cur |-> [c \in CursorIds |-> Unset],
            track |-> CursorIds, full |-> FALSE]

Init ==
    /\ scen \in Scenarios
    /\ t = EmptyDb
    /\ entries = 0
    /\ map = <<>>
    /\ at = [c \in CursorIds |-> OMap!Fresh]
    /\ commits = 0

-----------------------------------------------------------------------------
(* mdb_cursor_put and mdb_cursor_del as functions of the tree.             *)

\* A new root leaf page for an empty tree.
FirstLeaf(u, m, p) ==
    [AddPage(u, p, TRUE, <<>>) EXCEPT
        !.root = p, !.depth = @ + 1,
        !.cur[m] = [Push([@ EXCEPT !.snum = 0], p) EXCEPT !.init = TRUE]]

AddFix(u, m, insert) ==
    LET c == u.cur[m]
    IN  AdjustOthers(u, m, LAMBDA d :
            IF d.snum >= c.snum /\ d.pg[c.snum] = TopPg(c) /\ d.ki[c.snum] >= TopKi(c) /\ insert
            THEN [d EXCEPT !.ki[c.snum] = @ + 1] ELSE d)

\* The node goes to the cursor's page, split if there is no room.
Insert(u, m, n, insert, append) ==
    IF SizeLeft(u.pages[TopPg(u.cur[m])]) < n.v
    THEN PageSplit(u, m, n, (IF append THEN {"append"} ELSE {})
                            \cup (IF insert THEN {} ELSE {"replace"}))
    ELSE AddFix(NodeAdd(u, TopPg(u.cur[m]), TopKi(u.cur[m]), n), m, insert)

Store(u, m, n, exists, append) ==
    LET p == TopPg(u.cur[m])
        i == TopKi(u.cur[m])
    IN  IF ~exists THEN [Insert(u, m, n, TRUE, append) EXCEPT !.cur[m].init = TRUE]
        ELSE IF Node(u, p, i).v = n.v THEN u
        ELSE Insert(NodeDel(u, p, i), m, n, FALSE, append)

ClearDel(u, m) == [u EXCEPT !.cur[m].del = FALSE]

Seek(u, m, c) == ClearDel([u EXCEPT !.cur[m] = c], m)

\* The cursor on key k or where it belongs; with MDB_APPEND past the last key.
PutSeek(u, m, k, append) ==
    IF u.root = 0
    THEN [ok |-> FALSE, c |-> [u.cur[m] EXCEPT !.snum = 0, !.init = FALSE]]
    ELSE IF append THEN [ok |-> FALSE, c |-> PastLast(CursorLast(u, u.cur[m]).c)]
    ELSE CursorSet(u, u.cur[m], k, FALSE)

Writable(u, m) ==
    IF u.root = 0 THEN FirstLeaf(u, m, FreshPg(u)) ELSE CursorTouch(u, m)

PutAt(u, m, n, r, append) ==
    Store(Writable(Seek(u, m, r.c), m), m, n, r.ok, append)

CursorPut(u, m, n, append) == PutAt(u, m, n, PutSeek(u, m, n.k, append), append)

DelFix(u, m, l, p, i) ==
    AdjustOthers(u, m, LAMBDA c :
        IF ~c.init \/ c.snum < l \/ c.pg[l] # p THEN c
        ELSE IF c.ki[l] = i THEN [c EXCEPT !.del = TRUE]
        ELSE IF c.ki[l] > i THEN [c EXCEPT !.ki[l] = @ - 1]
        ELSE c)

\* After the rebalance: cursors past the end of the page go to the next one.
ToNextPage(u, c, mc) ==
    IF /\ c.init /\ c.snum >= mc.snum /\ c.pg[mc.snum] = TopPg(mc)
       /\ c.ki[mc.snum] >= Max({TopKi(mc), NumKeys(u, TopPg(mc))})
    THEN EofUnless(CursorSibling(u, c, TRUE)).c ELSE c

AllToNextPage(u, mc) ==
    AdjustOthers(u, 0, LAMBDA c : ToNextPage(u, c, mc))

PastEnd(u, m) ==
    IF u.cur[m].snum = 0 THEN [u EXCEPT !.cur[m].eof = TRUE]
    ELSE [AllToNextPage(u, u.cur[m]) EXCEPT !.cur[m].del = TRUE]

DelNode(u, m, c) ==
    PastEnd(Rebalance(DelFix(NodeDel(u, TopPg(c), TopKi(c)),
                             m, c.snum, TopPg(c), TopKi(c)), m), m)

DelTouched(u, m) == DelNode(u, m, u.cur[m])

CursorDel(u, m) == DelTouched(CursorTouch(u, m), m)

\* mdb_put and mdb_del work through a cursor of their own, tracked meanwhile.
Own == Cursors + 1

WithOwn(u) == Track([u EXCEPT !.cur = Append(@, Unset)], Own)

WithoutOwn(u) == Drop(Untrack(u, Own), Own)

-----------------------------------------------------------------------------
(* The operations.                                                         *)

AllKeys == DOMAIN scen.ksize

RECURSIVE Contents(_, _)

\* The leaf nodes below page p, in order.
Contents(u, p) ==
    IF p = 0 THEN <<>>
    ELSE IF u.pages[p].leaf THEN u.pages[p].nodes
    ELSE FlattenSeq([i \in DOMAIN u.pages[p].nodes |-> Contents(u, u.pages[p].nodes[i].pg)])

RECURSIVE Preorder(_, _)

Preorder(u, p) ==
    IF p = 0 THEN <<>>
    ELSE <<p>> \o FlattenSeq([i \in DOMAIN u.pages[p].nodes |->
                                 Preorder(u, u.pages[p].nodes[i].pg)])

\* Page numbers are only names: after an operation the pages of the tree are
\* numbered in order, and stack entries above snum, never read again, are cleared.
\* A lost cursor may drift behind its page; its index is bounded there.
Number(order, p) == Max({0} \cup {i \in DOMAIN order : order[i] = p})

MaxBehind == 1

Tidy(u, c, order) ==
    [c EXCEPT !.pg = [l \in Levels |-> IF l <= c.snum THEN Number(order, c.pg[l]) ELSE 0],
              !.ki = [l \in Levels |-> IF l > c.snum THEN 0
                                       ELSE Min({c.ki[l], NumKeys(u, c.pg[l]) + MaxBehind})]]

Renumbered(u, order) ==
    [u EXCEPT !.pages = [i \in DOMAIN order |->
                  [u.pages[order[i]] EXCEPT !.nodes = [j \in DOMAIN @ |->
                      [u.pages[order[i]].nodes[j] EXCEPT !.pg = Number(order, @)]]]],
              !.dirty = {Number(order, p) : p \in u.dirty \cap ToSet(order)},
              !.root = Number(order, @),
              !.cur = [c \in DOMAIN u.cur |-> Tidy(u, u.cur[c], order)]]

SetTree(u) == t' = Renumbered(u, Preorder(u, u.root))

Stored(k, v) ==
    /\ entries' = IF k \in DOMAIN map THEN entries ELSE entries + 1
    /\ OMap!Put(k, v)
    /\ UNCHANGED <<scen, commits>>

Erased(k) ==
    /\ entries' = entries - 1
    /\ OMap!Del(k)
    /\ UNCHANGED <<scen, commits>>

LeafNode(k, v) == [k |-> k, v |-> v, pg |-> 0]

\* mdb_put; a new key may be appended with MDB_APPEND.
Put(k, v, append) ==
    /\ append => \A j \in DOMAIN map : j < k
    /\ SetTree(WithoutOwn(CursorPut(WithOwn(t), Own, LeafNode(k, v), append)))
    /\ Stored(k, v)
    /\ UNCHANGED at

PutThrough(c, k, v) ==
    /\ SetTree(CursorPut(t, c, LeafNode(k, v), FALSE))
    /\ Stored(k, v)
    /\ at' = [at EXCEPT ![c] = OMap!On(k)]

\* mdb_del of a key that exists.
Del(k) ==
    /\ k \in DOMAIN map
    /\ SetTree(WithoutOwn(CursorDel([WithOwn(t) EXCEPT
                  !.cur[Own] = CursorSet(t, @, k, FALSE).c], Own)))
    /\ Erased(k)

InPage(c) == c.init /\ TopKi(c) < NumKeys(t, TopPg(c))

KeyAt(c) == Node(t, TopPg(c), TopKi(c)).k

DelThrough(c) ==
    /\ InPage(t.cur[c])
    /\ SetTree(CursorDel(t, c))
    /\ Erased(KeyAt(t.cur[c]))

\* The key a step to the right would read, if the cursor is past its page.
KeyAhead(r) == IF r.ok THEN KeyAt(r.c) ELSE OMap!End

Position(c) ==
    IF ~c.init THEN OMap!Fresh
    ELSE IF InPage(c) THEN [on |-> ~c.del, key |-> KeyAt(c)]
    ELSE OMap!Gap(KeyAhead(CursorSibling(t, c, TRUE)))

\* The end of mdb_cursor_get; keep tells whether failing leaves the cursor where
\* it was.  A lost cursor may step to an index that is past the last node.
Get(c, r, keep) ==
    /\ SetTree([t EXCEPT !.cur[c] = [r.c EXCEPT !.del = FALSE]])
    /\ at' = [at EXCEPT ![c] = IF IF r.ok THEN InPage(r.c) ELSE keep /\ at[c] # OMap!Lost
                               THEN Position([r.c EXCEPT !.del = FALSE]) ELSE OMap!Lost]
    /\ UNCHANGED <<scen, entries, map, commits>>

GetSet(c, k, range) == Get(c, CursorSet(t, t.cur[c], k, range), FALSE)

GetFirst(c) == Get(c, CursorFirst(t, t.cur[c]), TRUE)

GetLast(c) == Get(c, CursorLast(t, t.cur[c]), TRUE)

GetNext(c) == Get(c, CursorNext(t, t.cur[c]), TRUE)

GetPrev(c) == Get(c, CursorPrev(t, t.cur[c]), TRUE)

\* mdb_txn_commit: the cursors are closed, the pages no longer writable.
Commit ==
    /\ t.dirty # {}
    /\ commits < scen.commits
    /\ commits' = commits + 1
    /\ t' = [t EXCEPT !.dirty = {}, !.cur = [c \in CursorIds |-> Unset]]
    /\ OMap!Reset
    /\ UNCHANGED <<scen, entries, map>>

Next ==
    \/ \E k \in AllKeys : Del(k)
    \/ \E k \in AllKeys, v \in scen.values, append \in BOOLEAN : Put(k, v, append)
    \/ \E c \in scen.writers :
        \/ DelThrough(c)
        \/ \E k \in AllKeys, v \in scen.values : PutThrough(c, k, v)
    \/ \E c \in scen.readers :
        \/ GetFirst(c) \/ GetLast(c) \/ GetNext(c) \/ GetPrev(c)
        \/ \E k \in AllKeys, range \in BOOLEAN : GetSet(c, k, range)
    \/ Commit

Spec == Init /\ [][Next]_vars

-----------------------------------------------------------------------------
(* Properties.                                                             *)

RECURSIVE WellFormed(_, _, _, _)

\* A page at depth d whose keys lie in low..(high - 1).
WellFormed(p, d, low, high) ==
    LET s == t.pages[p].nodes
        bound(i) == IF i = 1 THEN low ELSE IF i > Len(s) THEN high ELSE s[i].k
    IN  IF t.pages[p].leaf
        THEN /\ d = t.depth /\ s # <<>>
             /\ \A i \in DOMAIN s : low <= s[i].k /\ s[i].k < high
             /\ \A i, j \in DOMAIN s : i < j => s[i].k < s[j].k
        ELSE /\ Len(s) > 1 /\ s[1].k = 0
             /\ \A i \in DOMAIN s : /\ bound(i) < bound(i + 1)
                                    /\ WellFormed(s[i].pg, d + 1, bound(i), bound(i + 1))

\* The tree is well formed after every operation: all leaves are at md_depth, keys
\* lie between their separators, no page is empty, no branch has a single child,
\* nothing overflowed a page, and the page and entry counts agree with the pages.
TreeOk ==
    /\ ~t.full
    /\ t.root # 0 => WellFormed(t.root, 1, 1, 1 + Max(AllKeys))
    /\ t.leafs = Cardinality({p \in DOMAIN t.pages : t.pages[p].leaf})
    /\ t.branches = Cardinality({p \in DOMAIN t.pages : ~t.pages[p].leaf})
    /\ entries = Len(Contents(t, t.root))

-----------------------------------------------------------------------------
(* The tree as an ordered map with cursors.                                *)

\* The tree holds the map: writes change it as they should, and page splits,
\* merges, moved nodes, new and collapsed roots and copied pages leave every other
\* cursor on its key, or in the gap where a deletion left it.
CursorsFollowMap ==
    /\ {<<n.k, n.v>> : n \in ToSet(Contents(t, t.root))} = {<<k, map[k]>> : k \in DOMAIN map}
    /\ \A c \in CursorIds : at[c] # OMap!Lost => Position(t.cur[c]) = at[c]

\* An operation with result r took the cursor to the position it should be at, or
\* reported that there is none.
Goes(r, p, failed) ==
    IF r.ok THEN InPage(r.c) /\ p = OMap!On(KeyAt(r.c)) ELSE p = failed

\* MDB_NEXT, MDB_PREV, MDB_SET and MDB_SET_RANGE take every cursor, wherever earlier
\* operations left it, to the key they should; a cursor lost by a failed search
\* still searches right, although MDB_SET starts from the page it is on.  A cursor
\* that reached the end answers MDB_NEXT with MDB_NOTFOUND while it is on the last
\* node of its page, even after another page was appended (mdb_cursor_next).
CursorsMoveRight ==
    \A c \in CursorIds :
        /\ \A k \in AllKeys :
            /\ Goes(CursorSet(t, t.cur[c], k, FALSE), OMap!Searched(k), OMap!Lost)
            /\ Goes(CursorSet(t, t.cur[c], k, TRUE), OMap!SearchedFrom(k), OMap!Lost)
        /\ at[c] # OMap!Lost =>
            /\ \/ Goes(CursorNext(t, t.cur[c]), OMap!Succeeding(at[c]), at[c])
               \/ t.cur[c].init /\ AtEof(t, t.cur[c])
            /\ Goes(CursorPrev(t, t.cur[c]), OMap!Preceding(at[c]),
                    OMap!OnOrElse(at[c].key, at[c]))
=============================================================================
