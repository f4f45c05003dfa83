----------------------------- MODULE BtreePages -----------------------------
(***************************************************************************)
(* The B+tree of one LMDB database inside a write transaction: searching,  *)
(* cursors, insertion with page splits, deletion with rebalancing, and the *)
(* adjustment of every other tracked cursor (src/lib/lmdb/mdb.c).          *)
(*                                                                         *)
(* t is the tree together with its cursors: t.pages maps a page number to  *)
(* [leaf, nodes], t.root is md_root (0 is P_INVALID), t.cur the cursors,   *)
(* t.track the ones listed in mt_cursors, t.dirty the writable pages and   *)
(* t.full records that mdb_node_add answered MDB_PAGE_FULL.  A node is     *)
(* [k, v, pg]: key (0 is the empty key of slot 0 of a branch), size of the *)
(* whole leaf node, child page.  Sizes are counted in units; an index ki   *)
(* counts from 0, the levels of a cursor's stack from 1 to snum.           *)
(***************************************************************************)
EXTENDS Integers, FiniteSets, Sequences, SequencesExt, FiniteSetsExt

CONSTANTS Stack,      \* CURSOR_STACK: levels a cursor can hold
          MaxPages    \* page numbers available

VARIABLE scen         \* [leafRoom, branchRoom, ksize, ...]: sizes, see Btree

Levels == 1..Stack

\* mdb_cursor_init.
Unset == [snum |-> 0, pg |-> [l \in Levels |-> 0], ki |-> [l \in Levels |-> 0],
          init |-> FALSE, eof |-> FALSE, del |-> FALSE]

KSize(k) == IF k = 0 THEN 0 ELSE scen.ksize[k]

NodeSize(leaf, n) == IF leaf THEN n.v ELSE KSize(n.k)

SumSizes(leaf, s) == FoldLeft(LAMBDA a, n : a + NodeSize(leaf, n), 0, s)

PageRoom(leaf) == IF leaf THEN scen.leafRoom ELSE scen.branchRoom

SizeLeft(p) == PageRoom(p.leaf) - SumSizes(p.leaf, p.nodes)

PageFill(p) == (1000 * SumSizes(p.leaf, p.nodes)) \div PageRoom(p.leaf)

NumKeys(t, p) == Len(t.pages[p].nodes)

Node(t, p, i) == t.pages[p].nodes[i + 1]

TopPg(c) == c.pg[c.snum]

TopKi(c) == c.ki[c.snum]

NodeAdd(t, p, i, n) ==
    [t EXCEPT !.full = @ \/ SizeLeft(t.pages[p]) < NodeSize(t.pages[p].leaf, n),
              !.pages[p].nodes = InsertAt(@, i + 1, n)]

NodeDel(t, p, i) == [t EXCEPT !.pages[p].nodes = RemoveAt(@, i + 1)]

FreshPg(t) == Min((1..MaxPages) \ DOMAIN t.pages)

\* mdb_page_new.
AddPage(t, p, leaf, nodes) ==
    [t EXCEPT !.pages = [q \in DOMAIN t.pages \cup {p} |->
                            IF q = p THEN [leaf |-> leaf, nodes |-> nodes] ELSE t.pages[q]],
              !.dirty = @ \cup {p},
              !.leafs = IF leaf THEN @ + 1 ELSE @,
              !.branches = IF leaf THEN @ ELSE @ + 1]

RemovePage(t, p) ==
    [t EXCEPT !.pages = [q \in DOMAIN t.pages \ {p} |-> t.pages[q]],
              !.dirty = @ \ {p},
              !.leafs = IF t.pages[p].leaf THEN @ - 1 ELSE @,
              !.branches = IF t.pages[p].leaf THEN @ ELSE @ - 1]

\* Apply F to every tracked cursor but m.
AdjustOthers(t, m, F(_)) ==
    FoldSet(LAMBDA i, u : [u EXCEPT !.cur[i] = F(t.cur[i])], t, t.track \ {m})

-----------------------------------------------------------------------------
(* Searching and moving.                                                   *)

RECURSIVE Bisect(_, _, _, _, _, _)

\* The loop of mdb_node_search; i is the last node compared, d the result.
Bisect(s, k, low, high, i, d) ==
    LET mid == (low + high) \div 2
    IN  IF low > high THEN [i |-> i, d |-> d]
        ELSE IF k > s[mid + 1].k THEN Bisect(s, k, mid + 1, high, mid, 1)
        ELSE IF k < s[mid + 1].k THEN Bisect(s, k, low, mid - 1, mid, -1)
        ELSE [i |-> mid, d |-> 0]

Found(b, n) ==
    [i |-> Max({b.i, 0}) + (IF b.d > 0 THEN 1 ELSE 0), exact |-> b.d = 0 /\ n > 0]

NodeSearch(p, k) ==
    Found(Bisect(p.nodes, k, IF p.leaf THEN 0 ELSE 1, Len(p.nodes) - 1, -1, 0),
          Len(p.nodes))

\* What a search looks for: a key, or one of
First == 0
Final == -1

FollowIndex(f, n) ==
    IF f.i >= n THEN n - 1 ELSE IF f.exact THEN f.i ELSE f.i - 1

Follow(p, k) ==
    IF k = First THEN 0
    ELSE IF k = Final THEN Len(p.nodes) - 1
    ELSE FollowIndex(NodeSearch(p, k), Len(p.nodes))

Push(c, p) ==
    [c EXCEPT !.snum = @ + 1, !.pg[c.snum + 1] = p, !.ki[c.snum + 1] = 0]

RECURSIVE SearchRoot(_, _, _)

Descend(t, c, k, i) ==
    IF k = Final /\ c.init /\ TopKi(c) = i
    THEN SearchRoot(t, [c EXCEPT !.snum = @ + 1], k)
    ELSE SearchRoot(t, Push([c EXCEPT !.ki[c.snum] = i], Node(t, TopPg(c), i).pg), k)

\* mdb_page_search_root; the stack below the root is reused when the search is
\* for the last page and the cursor already is there.
SearchRoot(t, c, k) ==
    IF t.pages[TopPg(c)].leaf THEN [c EXCEPT !.init = TRUE, !.eof = FALSE]
    ELSE Descend(t, c, k, Follow(t.pages[TopPg(c)], k))

\* mdb_page_search on a tree that is not empty.
PageSearch(t, c, k) ==
    SearchRoot(t, [c EXCEPT !.pg[1] = t.root, !.snum = 1], k)

RECURSIVE LowestKey(_, _)

\* The key mdb_page_search_lowest leads to.
LowestKey(t, p) ==
    IF t.pages[p].leaf THEN Node(t, p, 0).k ELSE LowestKey(t, Node(t, p, 0).pg)

RECURSIVE CursorSibling(_, _, _)

EnterSibling(t, c, p, right) ==
    [ok |-> TRUE,
     c |-> [Push(c, p) EXCEPT !.ki[c.snum + 1] = IF right THEN 0 ELSE NumKeys(t, p) - 1]]

StepAside(t, c, right) ==
    IF IF right THEN TopKi(c) + 1 >= NumKeys(t, TopPg(c)) ELSE TopKi(c) = 0
    THEN CursorSibling(t, c, right)
    ELSE [ok |-> TRUE, c |-> [c EXCEPT !.ki[c.snum] = IF right THEN @ + 1 ELSE @ - 1]]

EnterOrUndo(t, c, r, right) ==
    IF r.ok THEN EnterSibling(t, r.c, Node(t, TopPg(r.c), TopKi(r.c)).pg, right)
    ELSE [ok |-> FALSE, c |-> c]

\* A cursor without a sibling page is left as it was.
CursorSibling(t, c, right) ==
    IF c.snum < 2 THEN [ok |-> FALSE, c |-> c]
    ELSE EnterOrUndo(t, c, StepAside(t, [c EXCEPT !.snum = @ - 1], right), right)

AtEdge(t, c, k) ==
    IF ~c.init \/ c.snum > 1 THEN PageSearch(t, c, k) ELSE c

SetHere(c, i) ==
    [ok |-> TRUE, c |-> [c EXCEPT !.ki[c.snum] = i, !.init = TRUE, !.eof = FALSE]]

\* mdb_cursor_first, mdb_cursor_last.
CursorFirst(t, c) ==
    IF t.root = 0 THEN [ok |-> FALSE, c |-> c]
    ELSE SetHere(AtEdge(t, c, First), 0)

ToLast(t, c) ==
    [c EXCEPT !.init = TRUE, !.eof = TRUE, !.ki[c.snum] = NumKeys(t, TopPg(c)) - 1]

CursorLast(t, c) ==
    IF t.root = 0 THEN [ok |-> FALSE, c |-> c]
    ELSE [ok |-> TRUE, c |-> ToLast(t, AtEdge(t, c, Final))]

AtEof(t, c) == c.eof /\ TopKi(c) >= NumKeys(t, TopPg(c)) - 1

EofUnless(r) == IF r.ok THEN r ELSE [r EXCEPT !.c.eof = TRUE]

CursorNext(t, c) ==
    IF ~c.init THEN CursorFirst(t, c)
    ELSE IF AtEof(t, c) THEN [ok |-> FALSE, c |-> c]
    ELSE IF c.del THEN [ok |-> TRUE, c |-> [c EXCEPT !.eof = FALSE, !.del = FALSE]]
    ELSE IF TopKi(c) + 1 >= NumKeys(t, TopPg(c))
    THEN EofUnless(CursorSibling(t, [c EXCEPT !.eof = FALSE], TRUE))
    ELSE [ok |-> TRUE, c |-> [c EXCEPT !.eof = FALSE, !.ki[c.snum] = @ + 1]]

StepBack(t, c) ==
    IF TopKi(c) = 0 THEN CursorSibling(t, c, FALSE)
    ELSE [ok |-> TRUE, c |-> [c EXCEPT !.ki[c.snum] = @ - 1]]

PastLast(c) == [c EXCEPT !.ki[c.snum] = @ + 1]

CursorPrev(t, c) ==
    IF ~c.init /\ t.root = 0 THEN [ok |-> FALSE, c |-> c]
    ELSE StepBack(t, [(IF c.init THEN c ELSE PastLast(CursorLast(t, c).c))
                         EXCEPT !.eof = FALSE, !.del = FALSE])

\* The last part of mdb_cursor_set, from the leaf page found.
SetInLeaf(t, c, f, range) ==
    LET at == [c EXCEPT !.ki[c.snum] = f.i]
    IN  IF ~range /\ ~f.exact THEN [ok |-> FALSE, c |-> at]
        ELSE IF f.i >= NumKeys(t, TopPg(c)) THEN EofUnless(CursorSibling(t, at, TRUE))
        ELSE [ok |-> TRUE, c |-> [at EXCEPT !.init = TRUE, !.eof = FALSE]]

SetFromRoot(t, c, k, range) ==
    IF t.root = 0 THEN [ok |-> FALSE, c |-> c]
    ELSE LET d == PageSearch(t, c, k)
         IN  SetInLeaf(t, d, NodeSearch(t.pages[TopPg(d)], k), range)

NoRightParent(t, c) ==
    \A l \in 1..(c.snum - 1) : c.ki[l] >= NumKeys(t, c.pg[l]) - 1

\* mdb_cursor_set for MDB_SET and, with range, for MDB_SET_RANGE: an initialized
\* cursor first looks at its own page.
CursorSet(t, c, k, range) ==
    IF ~c.init THEN SetFromRoot(t, c, k, range)
    ELSE LET p == t.pages[TopPg(c)]
             n == Len(p.nodes)
         IN  IF n = 0 THEN [ok |-> FALSE, c |-> [c EXCEPT !.ki[c.snum] = 0]]
             ELSE IF k = p.nodes[1].k THEN SetHere(c, 0)
             ELSE IF k > p.nodes[1].k /\ n > 1 /\ k = p.nodes[n].k THEN SetHere(c, n - 1)
             ELSE IF k > p.nodes[1].k /\ n > 1 /\ k < p.nodes[n].k
             THEN IF TopKi(c) < n /\ k = Node(t, TopPg(c), TopKi(c)).k
                  THEN SetHere(c, TopKi(c))
                  ELSE SetInLeaf(t, [c EXCEPT !.eof = FALSE], NodeSearch(p, k), range)
             ELSE IF k > p.nodes[1].k /\ NoRightParent(t, c)
             THEN [ok |-> FALSE, c |-> [c EXCEPT !.ki[c.snum] = n]]
             ELSE IF c.snum = 1
             THEN [SetHere(c, 0) EXCEPT !.ok = range,
                                        !.c.eof = IF range THEN FALSE ELSE c.eof]
             ELSE SetFromRoot(t, c, k, range)

-----------------------------------------------------------------------------
(* Copy on write.                                                          *)

Repoint(t, m, l, p) ==
    IF l = 1 THEN [t EXCEPT !.root = p]
    ELSE [t EXCEPT !.pages[t.cur[m].pg[l - 1]].nodes[t.cur[m].ki[l - 1] + 1].pg = p]

Touched(t, m, l, mp, np) ==
    AdjustOthers([Repoint(AddPage(RemovePage(t, mp), np, t.pages[mp].leaf, t.pages[mp].nodes),
                          m, l, np) EXCEPT !.cur[m].pg[l] = np],
                 m, LAMBDA c : IF c.snum >= t.cur[m].snum /\ c.pg[l] = mp
                               THEN [c EXCEPT !.pg[l] = np] ELSE c)

\* mdb_page_touch of the page at level l of cursor m.
PageTouch(t, m, l) ==
    IF t.cur[m].pg[l] \in t.dirty THEN t
    ELSE Touched(t, m, l, t.cur[m].pg[l], FreshPg(t))

CursorTouch(t, m) ==
    FoldLeft(LAMBDA u, l : PageTouch(u, m, l), t, [l \in 1..t.cur[m].snum |-> l])

-----------------------------------------------------------------------------
(* mdb_page_split.  x collects its local variables: m the cursor, n its    *)
(* copy mn, mp and rp the left and right page, nx newindx, all the nodes   *)
(* with the new one, at the index where the right page begins.             *)

\* The cursor's stack moved down a level, for a new root p.
Deeper(c, p, upto) ==
    [c EXCEPT !.snum = @ + 1,
              !.pg = <<p>> \o SubSeq(@, 1, upto - 1) \o SubSeq(@, upto + 1, Stack),
              !.ki = <<0>> \o SubSeq(@, 1, upto - 1) \o SubSeq(@, upto + 1, Stack)]

NewRoot(t, m, pp) ==
    [AddPage(t, pp, FALSE, <<[k |-> 0, v |-> 0, pg |-> TopPg(t.cur[m])]>>) EXCEPT
        !.root = pp, !.depth = @ + 1, !.cur[m] = Deeper(@, pp, 2)]

\* Where to split so that both halves fit; the whole page is scanned, as the code
\* does when it has fewer nodes than keythresh.
SplitIndex(leaf, n, nx, all) ==
    LET half == (n + 1) \div 2
        k == IF nx >= n THEN n ELSE half + 1 + (IF leaf THEN 1 ELSE 0)
        over(i, j) == SumSizes(leaf, SubSeq(all, i + 1, j + 1)) > PageRoom(leaf)
    IN  IF nx <= half \/ nx >= n
        THEN Min({i \in 0..(k - 1) : i = k - 1 \/ over(0, i)})
        ELSE 1 + Max({i \in half..n : i = half \/ over(i, n)})

Up(c) == [c EXCEPT !.snum = @ - 1]

\* c takes the levels up to l of d.
TakeLevels(c, d, l) ==
    [c EXCEPT !.pg = SubSeq(d.pg, 1, l) \o SubSeq(@, l + 1, Stack),
              !.ki = SubSeq(d.ki, 1, l) \o SubSeq(@, l + 1, Stack)]

\* mc_ki of the parent no longer names the child: it moved with mn.
Displaced(t, c, d) ==
    LET l == c.snum - 1
    IN  d.pg[l] # c.pg[l] /\ c.ki[l] >= NumKeys(t, c.pg[l])

Reparent(t, c, d) ==
    LET l == c.snum - 1
    IN  IF ~Displaced(t, c, d) THEN c
        ELSE IF d.ki[l] > 0 THEN [TakeLevels(c, d, l) EXCEPT !.ki[l] = @ - 1]
        ELSE CursorSibling(t, TakeLevels(c, d, l), FALSE).c

RECURSIVE PageSplit(_, _, _, _)

Track(t, n) == [t EXCEPT !.track = @ \cup {n}]

Untrack(t, n) == [t EXCEPT !.track = @ \ {n}]

SplitParent(t, x, sep) ==
    Untrack(PageSplit(Track([t EXCEPT !.cur[x.n] = Up(@)], x.n), x.n, sep, {}), x.n)

Reparented(t, x) == [t EXCEPT !.cur[x.m] = Reparent(t, @, t.cur[x.n])]

\* The separator goes into the parent, which may itself be split.
InsertSeparator(t, x, sep) ==
    LET c == t.cur[x.n]
        l == t.cur[x.m].snum - 1
    IN  IF SizeLeft(t.pages[c.pg[l]]) < KSize(sep.k)
        THEN Reparented(SplitParent(t, x, sep), x)
        ELSE NodeAdd(t, c.pg[l], c.ki[l], sep)

\* A branch needs no key in its first slot.
Headless(leaf, s) == IF leaf \/ s = <<>> THEN s ELSE [s EXCEPT ![1].k = 0]

Divide(t, x) ==
    LET leaf == t.pages[x.mp].leaf
        left == Headless(leaf, SubSeq(x.all, 1, x.at))
        right == Headless(leaf, SubSeq(x.all, x.at + 1, Len(x.all)))
    IN  [t EXCEPT !.pages[x.mp].nodes = left, !.pages[x.rp].nodes = right,
                  !.full = @ \/ SumSizes(leaf, left) > PageRoom(leaf)
                             \/ SumSizes(leaf, right) > PageRoom(leaf)]

OntoRight(t, c, x) ==
    LET l == c.snum - 1
        d == [c EXCEPT !.pg[c.snum] = x.rp, !.ki[c.snum] = x.nx - x.at, !.ki[l] = @ + 1]
    IN  IF Displaced(t, d, t.cur[x.n]) THEN TakeLevels(d, t.cur[x.n], l) ELSE d

OntoAppended(c, d, x) ==
    [c EXCEPT !.pg[c.snum] = x.rp,
              !.ki = SubSeq(d.ki, 1, c.snum - 1) \o <<0>> \o SubSeq(@, c.snum + 1, Stack)]

PlaceCursor(t, x) ==
    IF "append" \in x.flags
    THEN [t EXCEPT !.cur[x.m] = OntoAppended(@, t.cur[x.n], x)]
    ELSE IF x.nx < x.at THEN t
    ELSE [t EXCEPT !.cur[x.m] = OntoRight(t, @, x)]

RootFixed(t, c, x) ==
    [Deeper(c, t.cur[x.m].pg[1], Stack) EXCEPT
        !.ki[1] = IF c.ki[1] >= NumKeys(t, x.mp) THEN 1 ELSE 0]

\* Variant: the cursor keeps the parent entry of the left page.
InSplitPageKeepsParent(t, c, x, l) ==
    LET i == c.ki[l] + (IF c.ki[l] >= x.nx /\ "replace" \notin x.flags THEN 1 ELSE 0)
    IN  IF i < NumKeys(t, x.mp) THEN [c EXCEPT !.ki[l] = i]
        ELSE [c EXCEPT !.pg[l] = x.rp, !.ki[l] = i - NumKeys(t, x.mp)]

InSplitPage(t, c, x, l) ==
    LET i == c.ki[l] + (IF c.ki[l] >= x.nx /\ "replace" \notin x.flags THEN 1 ELSE 0)
    IN  IF i < NumKeys(t, x.mp) THEN [c EXCEPT !.ki[l] = i]
        ELSE TakeLevels([c EXCEPT !.pg[l] = x.rp, !.ki[l] = i - NumKeys(t, x.mp)],
                        t.cur[x.n], l - 1)

SplitFix(t, c, x) ==
    LET l == t.cur[x.m].snum
        mc == t.cur[x.m]
    IN  IF c.snum >= l /\ c.pg[l] = x.mp THEN InSplitPage(t, c, x, l)
        ELSE IF ~x.did /\ c.snum >= l - 1 /\ c.pg[l - 1] = mc.pg[l - 1]
                /\ c.ki[l - 1] >= mc.ki[l - 1]
        THEN [c EXCEPT !.ki[l - 1] = @ + 1]
        ELSE c

FixAfterSplit(t, x) ==
    AdjustOthers(t, x.m, LAMBDA c :
        IF ~c.init \/ (x.grew /\ c.pg[1] # x.mp) THEN c
        ELSE SplitFix(t, IF x.grew THEN RootFixed(t, c, x) ELSE c, x))

Drop(t, n) == [t EXCEPT !.cur = SubSeq(@, 1, n - 1)]

SplitWith(t, x) ==
    Drop(FixAfterSplit(PlaceCursor(Divide(
        InsertSeparator(t, x, [k |-> x.all[x.at + 1].k, v |-> 0, pg |-> x.rp]),
        x), x), x), x.n)

\* did: the parent has no room for the separator, see InsertSeparator.
Prepared(t, x) ==
    SplitWith([t EXCEPT !.cur = Append(@, [t.cur[x.m] EXCEPT
                                  !.pg[t.cur[x.m].snum] = x.rp,
                                  !.ki[t.cur[x.m].snum - 1] = @ + 1])],
              [x EXCEPT !.did = SizeLeft(t.pages[t.cur[x.m].pg[t.cur[x.m].snum - 1]])
                                    < KSize(x.all[x.at + 1].k)])

Positioned(t, x, p) ==
    [x EXCEPT !.at = IF "append" \in x.flags THEN x.nx
                     ELSE SplitIndex(p.leaf, Len(p.nodes), x.nx, x.all)]

SplitAt(t, m, x) ==
    Prepared(IF x.grew THEN NewRoot(t, m, FreshPg(t)) ELSE t,
             Positioned(t, x, t.pages[x.mp]))

PageSplit(t, m, new, flags) ==
    LET mp == TopPg(t.cur[m])
        nx == TopKi(t.cur[m])
    IN  SplitAt(AddPage(t, FreshPg(t), t.pages[mp].leaf, <<>>), m,
                [m |-> m, n |-> Len(t.cur) + 1, mp |-> mp, rp |-> FreshPg(t), nx |-> nx,
                 all |-> InsertAt(t.pages[mp].nodes, nx + 1, new), at |-> 0,
                 grew |-> t.cur[m].snum = 1, did |-> FALSE, flags |-> flags])

-----------------------------------------------------------------------------
(* Deleting: mdb_update_key, mdb_node_move, mdb_page_merge, mdb_rebalance. *)

\* The key of the branch node cursor m is on; a longer key may split the page.
UpdateKey(t, m, k) ==
    LET p == TopPg(t.cur[m])
        i == TopKi(t.cur[m])
        delta == KSize(k) - KSize(Node(t, p, i).k)
    IN  IF delta > 0 /\ SizeLeft(t.pages[p]) < delta
        THEN PageSplit(NodeDel(t, p, i), m, [Node(t, p, i) EXCEPT !.k = k], {"replace"})
        ELSE [t EXCEPT !.pages[p].nodes[i + 1].k = k]

\* UpdateKey through a copy c of a cursor.
UpdateKeyAt(t, c, k, tracked) ==
    LET n == Len(t.cur) + 1
        u == [t EXCEPT !.cur = Append(@, c)]
    IN  Drop(Untrack(UpdateKey(IF tracked THEN Track(u, n) ELSE u, n, k), n), n)

\* The key of node i of page p, found below p if it is the empty one.
RealKey(t, p, i) ==
    IF i = 0 /\ ~t.pages[p].leaf THEN LowestKey(t, p) ELSE Node(t, p, i).k

KeyFirstSlot(t, d) ==
    IF ~t.pages[TopPg(d)].leaf /\ TopKi(d) = 0
    THEN UpdateKeyAt(t, d, LowestKey(t, TopPg(d)), FALSE)
    ELSE t

\* Other cursors when node i of page p moves to the right neighbour d.
MovedRight(c, l, s, d) ==
    LET b == IF c.pg[l] = d.pg[l] /\ c.ki[l] >= d.ki[l] THEN [c EXCEPT !.ki[l] = @ + 1] ELSE c
    IN  IF c.pg[l] = s.pg[l] /\ c.ki[l] = s.ki[l]
        THEN [b EXCEPT !.pg[l] = d.pg[l], !.ki[l] = d.ki[l], !.ki[l - 1] = @ + 1]
        ELSE b

MovedLeft(c, l, s, d) ==
    IF c.pg[l] # s.pg[l] THEN c
    ELSE IF c.ki[l] = 0
    THEN [c EXCEPT !.pg[l] = d.pg[l], !.ki[l] = d.ki[l], !.ki[l - 1] = @ - 1]
    ELSE [c EXCEPT !.ki[l] = @ - 1]

\* fromleft: the destination itself (m3 == cdst) keeps its index.
MoveFix(t, src, dst, fromleft) ==
    LET s == t.cur[src]
        d == t.cur[dst]
        l == s.snum
    IN  AdjustOthers(t, IF fromleft THEN dst ELSE src, LAMBDA c :
            IF ~c.init \/ c.snum < l THEN c
            ELSE IF fromleft THEN MovedRight(c, l, s, d) ELSE MovedLeft(c, l, s, d))

\* Variant: the separator is left as it was.
SeparateNot(t, m) == t

\* The separator of a page whose first node changed, and its empty first key.
Separate(t, m) ==
    LET c == t.cur[m]
        p == TopPg(c)
        k == Node(t, p, 0).k
        u == IF c.ki[c.snum - 1] # 0 THEN UpdateKeyAt(t, Up(c), k, TRUE) ELSE t
    IN  IF TopKi(c) # 0 THEN t
        ELSE IF t.pages[p].leaf THEN u
        ELSE [u EXCEPT !.pages[p].nodes[1].k = 0]

MoveNode(t, src, dst, n) ==
    NodeDel(NodeAdd(t, TopPg(t.cur[dst]), TopKi(t.cur[dst]), n),
            TopPg(t.cur[src]), TopKi(t.cur[src]))

Carry(t, src, dst) ==
    LET s == t.cur[src]
    IN  MoveNode(KeyFirstSlot(t, t.cur[dst]), src, dst,
                 [Node(t, TopPg(s), TopKi(s)) EXCEPT !.k = RealKey(t, TopPg(s), TopKi(s))])

NodeMove(t, src, dst, fromleft) ==
    Separate(Separate(MoveFix(Carry(
        PageTouch(PageTouch(t, src, t.cur[src].snum), dst, t.cur[dst].snum),
        src, dst), src, dst, fromleft), src), dst)

\* All nodes of src are appended to dst and src leaves its parent.
Absorb(t, src, dst) ==
    LET ps == TopPg(t.cur[src])
        pd == TopPg(t.cur[dst])
        pp == t.cur[src].pg[t.cur[src].snum - 1]
        i == t.cur[src].ki[t.cur[src].snum - 1]
        nodes == [j \in DOMAIN t.pages[ps].nodes |->
                     [t.pages[ps].nodes[j] EXCEPT !.k = RealKey(t, ps, j - 1)]]
        u == NodeDel([t EXCEPT !.pages[pd].nodes = @ \o nodes], pp, i)
    IN  [RemovePage(IF i = 0 THEN [u EXCEPT !.pages[pp].nodes[1].k = 0] ELSE u, ps) EXCEPT
            !.full = @ \/ SizeLeft(u.pages[pd]) < 0]

\* Variant: cursors on the page that was merged keep their index.
MergeFixKeepsIndex(t, src, dst, nkeys) ==
    LET l == t.cur[src].snum
    IN  AdjustOthers(t, src, LAMBDA c :
            IF c.snum >= l /\ c.pg[l] = TopPg(t.cur[src])
            THEN [c EXCEPT !.pg[l] = TopPg(t.cur[dst]),
                           !.ki[l - 1] = t.cur[dst].ki[l - 1]] ELSE c)

MergeFix(t, src, dst, nkeys) ==
    LET s == t.cur[src]
        d == t.cur[dst]
        l == s.snum
    IN  AdjustOthers(t, src, LAMBDA c :
            IF c.snum < l THEN c
            ELSE IF c.pg[l] = TopPg(s)
            THEN [c EXCEPT !.pg[l] = TopPg(d), !.ki[l] = @ + nkeys, !.ki[l - 1] = d.ki[l - 1]]
            ELSE IF c.pg[l - 1] = s.pg[l - 1] /\ c.ki[l - 1] > s.ki[l - 1]
            THEN [c EXCEPT !.ki[l - 1] = @ - 1]
            ELSE c)

RECURSIVE Rebalance(_, _)

\* Back to the level of dst, one higher if the root went away.
Return(t, dst, snum, depth) == [t EXCEPT !.cur[dst].snum = snum + (t.depth - depth)]

RebalanceParent(t, dst) ==
    Return(Rebalance([t EXCEPT !.cur[dst] = Up(@)], dst), dst, t.cur[dst].snum, t.depth)

Merge(t, src, dst) ==
    RebalanceParent(MergeFix(Absorb(t, src, dst), src, dst,
                             NumKeys(t, TopPg(t.cur[dst]))), dst)

PageMerge(t, src, dst) == Merge(PageTouch(t, dst, t.cur[dst].snum), src, dst)

\* The tree is empty.
EmptyTree(t, m) ==
    LET p == t.cur[m].pg[1]
        gone(c) == [c EXCEPT !.snum = 0, !.init = FALSE]
    IN  AdjustOthers([RemovePage(t, p) EXCEPT !.root = 0, !.depth = 0, !.leafs = 0,
                                              !.cur[m] = gone(@)],
                     m, LAMBDA c : IF c.init /\ c.pg[1] = p THEN gone(c) ELSE c)

Shallower(c, depth) ==
    [c EXCEPT !.pg = SubSeq(@, 2, depth + 1) \o SubSeq(@, depth + 1, Stack),
              !.ki = SubSeq(@, 2, depth + 1) \o SubSeq(@, depth + 1, Stack)]

\* A root with one child gives way to the child.
CollapseRoot(t, m) ==
    LET p == t.cur[m].pg[1]
        kid == Node(t, p, 0).pg
    IN  AdjustOthers([RemovePage(t, p) EXCEPT
                         !.root = kid, !.depth = @ - 1,
                         !.cur[m] = [Shallower(@, t.depth - 1) EXCEPT !.pg[1] = kid]],
                     m, LAMBDA c : IF c.init /\ c.pg[1] = p
                                   THEN Up(Shallower(c, t.depth - 1)) ELSE c)

RebalanceRoot(t, m) ==
    LET p == t.cur[m].pg[1]
    IN  IF NumKeys(t, p) = 0 THEN EmptyTree(t, m)
        ELSE IF ~t.pages[p].leaf /\ NumKeys(t, p) = 1 THEN CollapseRoot(t, m)
        ELSE t

MinKeys(p) == IF p.leaf THEN 1 ELSE 2

FillThreshold(p) == IF p.leaf THEN 250 ELSE 1

\* The neighbour mn of cursor c: the left page, or the right one of the first.
Neighbour(t, c) ==
    LET l == c.snum - 1
        left == c.ki[l] # 0
        i == IF left THEN c.ki[l] - 1 ELSE 1
        p == Node(t, c.pg[l], i).pg
    IN  [c EXCEPT !.ki[l] = i, !.pg[c.snum] = p,
                  !.ki[c.snum] = IF left THEN NumKeys(t, p) - 1 ELSE 0]

SetKi(t, m, i) == [t EXCEPT !.cur[m].ki[t.cur[m].snum] = i]

\* mdb_cursor_copy of the levels in use.
CursorCopy(t, m, n) ==
    [t EXCEPT !.cur[m] = [TakeLevels(@, t.cur[n], t.cur[n].snum) EXCEPT
        !.snum = t.cur[n].snum, !.init = t.cur[n].init,
        !.eof = t.cur[n].eof, !.del = t.cur[n].del]]

ClearEof(t, m) == [t EXCEPT !.cur[m].eof = FALSE]

MergeLeft(t, m, n, oldki) ==
    LET k == NumKeys(t, TopPg(t.cur[n]))
        u == SetKi(SetKi(t, m, 0), n, k)
    IN  SetKi(ClearEof(CursorCopy(Untrack(PageMerge(Track(u, n), m, n), n), m, n), m),
              m, oldki + k)

MergeRight(t, m, n, oldki) ==
    SetKi(ClearEof(PageMerge(SetKi(t, m, NumKeys(t, TopPg(t.cur[m]))), n, m), m), m, oldki)

Borrow(t, m, n, oldki, fromleft) ==
    SetKi(NodeMove(SetKi(t, m, IF fromleft THEN 0 ELSE NumKeys(t, TopPg(t.cur[m]))),
                   n, m, fromleft),
          m, IF fromleft THEN oldki + 1 ELSE oldki)

RebalanceWith(t, m, n, fromleft) ==
    LET p == t.pages[TopPg(t.cur[n])]
    IN  IF PageFill(p) >= FillThreshold(p) /\ Len(p.nodes) > MinKeys(p)
        THEN Borrow(t, m, n, TopKi(t.cur[m]), fromleft)
        ELSE IF fromleft THEN MergeLeft(t, m, n, TopKi(t.cur[m]))
        ELSE MergeRight(t, m, n, TopKi(t.cur[m]))

Rebalance(t, m) ==
    LET c == t.cur[m]
        p == t.pages[TopPg(c)]
    IN  IF PageFill(p) >= FillThreshold(p) /\ Len(p.nodes) >= MinKeys(p) THEN t
        ELSE IF c.snum < 2 THEN RebalanceRoot(t, m)
        ELSE Drop(RebalanceWith([t EXCEPT !.cur = Append(@, Neighbour(t, c))], m,
                                Len(t.cur) + 1, c.ki[c.snum - 1] # 0),
                  Len(t.cur) + 1)
=============================================================================
