------------------------------- MODULE LmdbTxn -------------------------------
(***************************************************************************)
(* LMDB's transactions over the page store of LmdbPages: lock-free readers *)
(* in a shared reader table, one writer at a time under the write mutex,   *)
(* the commit that writes pages, then one of two meta pages, then the      *)
(* transaction id, nested transactions, hot backup, the death of a process *)
(* and the crash of the machine (src/lib/lmdb/mdb.c 2703-3971, 9500-9600,  *)
(* 10225-10330).                                                           *)
(*                                                                         *)
(* A process has one thread, which reads, writes or takes a backup.  The   *)
(* value put under a key is a stamp of the transaction that puts it.       *)
(***************************************************************************)
EXTENDS LmdbPages

CONSTANTS Procs,      \* processes that have the environment open
          MaxTxn,     \* bound on transaction ids
          Scenarios   \* what the environment may do, one chosen in Init

VARIABLES disk,       \* the file as it is on stable storage
          unsynced,   \* writes to the file since it was last synced, in order
          mti,        \* mti_txnid of the lock file
          wmutex,     \* owner of the write mutex, or NoPid
          rd,         \* each process's read transaction
          wr,         \* the write transaction of wmutex
          oldest,     \* each process's me_pgoldest
          fatal,      \* processes whose environment has MDB_FATAL_ERROR
          dead,       \* processes that died
          bk,         \* the file a hot backup writes
          hist,       \* ghost: content committed under each transaction id
          scen,       \* the scenario
          faults      \* failures so far, at most scen.faults of kind scen.fault

vars == <<cache, slots, disk, unsynced, mti, wmutex, rd, wr, oldest, fatal,
          dead, bk, hist, scen, faults>>

\* What a reader's steps leave alone besides rd and slots, and a writer's
\* besides wr and oldest.
notRead == <<cache, disk, unsynced, mti, wmutex, wr, oldest, fatal, dead, bk,
             hist, scen, faults>>
notWrite == <<slots, disk, mti, rd, fatal, dead, bk, scen, faults>>

NoTxn == MaxTxn + 1     \* mr_txnid = (txnid_t)-1

EmptyView == [k \in Keys |-> 0]

View(store, root) ==
    [k \in Keys |-> IF root = 0 \/ store.pg[root].kids[k] = 0 THEN 0
                    ELSE store.pg[store.pg[root].kids[k]].val]

PickMeta(store) ==
    IF store.meta[0].txnid < store.meta[1].txnid THEN store.meta[1]
    ELSE store.meta[0]

\* mdb_env_init_meta: both meta pages of a new environment.  ver is a ghost:
\* the transaction whose trees the meta page names.
NewStore ==
    [meta |-> [m \in 0..1 |-> [root |-> 0, free |-> 0, last |-> 1, txnid |-> 0,
                               ver |-> 0]],
     pg |-> [p \in 2..MaxPg |-> Blank]]

NoRead == [pc |-> "none", slot |-> 0, txnid |-> 0, root |-> 0, next |-> 0,
           ver |-> 0]

NoWrite == [pc |-> "none", x |-> <<>>, todo |-> {}, ops |-> 0]

NoBackup == [pc |-> "none", store |-> NewStore, pos |-> 0]

Init ==
    /\ cache = NewStore
    /\ disk = NewStore
    /\ unsynced = <<>>
    /\ slots = [i \in 1..MaxReaders |-> [pid |-> NoPid, txnid |-> NoTxn]]
    /\ mti = 0
    /\ wmutex = NoPid
    /\ rd = [p \in Procs |-> NoRead]
    /\ wr = NoWrite
    /\ oldest = [p \in Procs |-> 0]
    /\ fatal = {}
    /\ dead = {}
    /\ bk = NoBackup
    /\ hist = [t \in 0..MaxTxn |-> EmptyView]
    /\ scen \in Scenarios
    /\ faults = 0

Running(p) == p \notin dead

\* A write to the file: [meta |-> m or -1, pg |-> page, c |-> new content].
Apply(store, w) ==
    IF w.meta >= 0 THEN [store EXCEPT !.meta[w.meta] = w.c]
    ELSE [store EXCEPT !.pg[w.pg] = w.c]

Nth(S, n) == CHOOSE p \in S : Cardinality({q \in S : q < p}) = n - 1

WritePages(f) ==
    [n \in 1..Cardinality(DOMAIN f) |->
        [meta |-> -1, pg |-> Nth(DOMAIN f, n), c |-> f[Nth(DOMAIN f, n)]]]

\* The writes matter only to a crash of the machine.
Unsynced(ws) == IF scen.fault = "crash" THEN unsynced \o ws ELSE unsynced

\* A fault of this kind happens.
Fault(kind) ==
    /\ scen.fault = kind
    /\ faults < scen.faults
    /\ faults' = faults + 1

-----------------------------------------------------------------------------
(* Read transactions, the MDB_TXN_RDONLY part of mdb_txn_renew0.           *)

\* Claim a free slot, under the reader mutex; it stays the thread's.
RdClaim(p) ==
    /\ Running(p) /\ p \in scen.readers /\ p \notin fatal
    /\ rd[p].pc = "none"
    /\ \E i \in DOMAIN slots :
        /\ slots[i].pid = NoPid
        /\ \A j \in 1..(i - 1) : slots[j].pid # NoPid
        /\ slots' = [slots EXCEPT ![i] = [pid |-> p, txnid |-> NoTxn]]
        /\ rd' = [rd EXCEPT ![p] = [@ EXCEPT !.pc = "idle", !.slot = i]]
    /\ UNCHANGED notRead

\* r->mr_txnid = ti->mti_txnid, the body of the retry loop.
RdStore(p) ==
    /\ Running(p) /\ p \notin fatal /\ wmutex # p
    /\ rd[p].pc \in {"idle", "retry"}
    /\ slots' = [slots EXCEPT ![rd[p].slot].txnid = mti]
    /\ rd' = [rd EXCEPT ![p].pc = "stored"]
    /\ UNCHANGED notRead

\* The condition of the retry loop, and mt_txnid.
RdCheck(p) ==
    /\ Running(p)
    /\ rd[p].pc = "stored"
    /\ LET t == slots[rd[p].slot].txnid
       IN  rd' = [rd EXCEPT ![p] = IF t = mti
                                   THEN [@ EXCEPT !.pc = "begun", !.txnid = t]
                                   ELSE [@ EXCEPT !.pc = "retry"]]
    /\ UNCHANGED <<slots, notRead>>

\* memcpy of mm_dbs from the meta page of mt_txnid.
RdDbs(p) ==
    /\ Running(p)
    /\ rd[p].pc = "begun"
    /\ LET m == cache.meta[rd[p].txnid % 2]
       IN  rd' = [rd EXCEPT ![p] = [@ EXCEPT !.pc = "dbs", !.root = m.root,
                                             !.ver = m.ver]]
    /\ UNCHANGED <<slots, notRead>>

\* mt_next_pgno, read after the copy of mm_dbs.
RdLast(p) ==
    /\ Running(p)
    /\ rd[p].pc = "dbs"
    /\ rd' = [rd EXCEPT ![p] =
                [@ EXCEPT !.pc = "open",
                          !.next = cache.meta[rd[p].txnid % 2].last + 1]]
    /\ UNCHANGED <<slots, notRead>>

\* mdb_txn_reset, or mdb_txn_abort of a reader: the slot stays claimed.
RdEnd(p) ==
    /\ Running(p)
    /\ rd[p].pc = "open"
    /\ slots' = [slots EXCEPT ![rd[p].slot].txnid = NoTxn]
    /\ rd' = [rd EXCEPT ![p] = [NoRead EXCEPT !.pc = "idle", !.slot = rd[p].slot]]
    /\ UNCHANGED notRead

\* mdb_env_reader_dest at the exit of the thread.
RdExit(p) ==
    /\ Running(p)
    /\ rd[p].pc = "idle"
    /\ slots' = [slots EXCEPT ![rd[p].slot].pid = NoPid]
    /\ rd' = [rd EXCEPT ![p] = NoRead]
    /\ UNCHANGED notRead

-----------------------------------------------------------------------------
(* Write transactions.                                                     *)

\* mdb_reader_check0: drop the slots of processes that died.
Checked(table) ==
    [i \in DOMAIN table |->
        IF table[i].pid \in dead THEN [table[i] EXCEPT !.pid = NoPid]
        ELSE table[i]]

\* When the owner of the mutex died, mdb_mutex_failed repairs mti_txnid from the
\* newer meta page, and the reader table.
MutexTxnid == IF wmutex = NoPid THEN mti ELSE PickMeta(cache).txnid

MutexSlots == IF wmutex = NoPid THEN slots ELSE Checked(slots)

\* mdb_txn_begin of a writer.
WrBegin(p) ==
    /\ Running(p) /\ p \in scen.writers /\ p \notin fatal
    /\ rd[p].pc \in {"none", "idle"}
    /\ wmutex \in {NoPid} \cup dead
    /\ LET t == MutexTxnid
           m == cache.meta[t % 2]
           f == NewFrame(m.root, m.free, m.last + 1, scen.room, <<>>, hist[m.ver])
       IN  /\ t < scen.txns
           /\ mti' = t
           /\ slots' = MutexSlots
           /\ wr' = [pc |-> "open", x |-> NewContext(t + 1, f, oldest[p]),
                     todo |-> {}, ops |-> 0]
    /\ wmutex' = p
    /\ UNCHANGED <<cache, disk, unsynced, rd, oldest, fatal, dead, bk, hist, scen, faults>>

Writing(p, pc) == Running(p) /\ wmutex = p /\ wr.pc = pc

Usable(p) == Writing(p, "open") /\ ~Top(wr.x).err

\* Bound on the operations of a transaction: one until transaction scen.busy.
MayOperate(p) ==
    Usable(p) /\ wr.ops < (IF wr.x.txnid < scen.busy THEN 1 ELSE scen.ops)

\* The end of an operation: spilled pages reach the map, me_pgoldest stays.
Operated(p, x, k, v) ==
    /\ wr' = [wr EXCEPT !.x = [x EXCEPT !.out = <<>>, !.frames[1].log[k] = v],
                        !.ops = @ + 1]
    /\ oldest' = [oldest EXCEPT ![p] = x.oldest]
    /\ cache' = FoldLeft(Apply, cache, WritePages(x.out))
    /\ unsynced' = Unsynced(WritePages(x.out))
    /\ UNCHANGED <<wmutex, hist, notWrite>>

WrPut(p, k) ==
    /\ MayOperate(p)
    /\ LET v == 2 * wr.x.txnid + Len(wr.x.frames) - 1
       IN  Operated(p, Put(wr.x, k, v), k, v)

WrDel(p, k) ==
    /\ MayOperate(p)
    /\ Top(wr.x).root # 0
    /\ PageGet(wr.x, Top(wr.x).root).kids[k] # 0
    /\ Operated(p, Del(wr.x, k), k, 0)

\* mdb_txn_begin with a parent: the child copies the parent's trees and room,
\* has lists of its own, and saves me_pghead and me_pglast.
ChildBegin(p) ==
    /\ MayOperate(p)
    /\ Len(wr.x.frames) <= scen.nest /\ wr.x.txnid >= scen.busy
    /\ LET f == Top(wr.x)
           pgstate == [have |-> wr.x.have, head |-> wr.x.head, last |-> wr.x.last]
           child == NewFrame(f.root, f.free, f.next, f.room, pgstate, f.log)
       IN  wr' = [wr EXCEPT !.x.frames = <<child>> \o @]
    /\ UNCHANGED <<cache, unsynced, wmutex, oldest, hist, notWrite>>

\* mdb_txn_commit of a child: its lists are merged into the parent's.
Merged(c, f) ==
    [c EXCEPT !.freepgs = @ \cup f.freepgs,
              !.loose = f.loose \o @,
              !.spill = (f.spill \ DOMAIN c.dirty) \cup @,
              !.dirty = [q \in (DOMAIN f.dirty \ c.spill) \cup DOMAIN @ |->
                            IF q \in DOMAIN @ THEN @[q] ELSE f.dirty[q]],
              !.saved = f.saved]

ChildCommit(p) ==
    /\ Usable(p)
    /\ Len(wr.x.frames) > 1
    /\ wr' = [wr EXCEPT !.x.frames =
                <<Merged(@[1], @[2])>> \o SubSeq(@, 3, Len(@))]
    /\ UNCHANGED <<cache, unsynced, wmutex, oldest, hist, notWrite>>

\* Variant: the saved MDB_pgstate is not restored.
ChildEndKeepsPgstate(p, failed) ==
    /\ Writing(p, "open")
    /\ Len(wr.x.frames) > 1
    /\ failed => Top(wr.x).err
    /\ LET x == [wr.x EXCEPT !.frames = Tail(@)]
       IN  wr' = [wr EXCEPT !.x = IF failed THEN Failed(x) ELSE x]
    /\ UNCHANGED <<cache, unsynced, wmutex, oldest, hist, notWrite>>

\* mdb_txn_commit of a failed child: it is aborted and its parent fails too.
\* mdb_txn_abort of a child: mdb_txn_end restores the saved MDB_pgstate.
ChildEnd(p, failed) ==
    /\ Writing(p, "open")
    /\ Len(wr.x.frames) > 1
    /\ failed => Top(wr.x).err
    /\ LET s == Top(wr.x).saved
           x == [wr.x EXCEPT !.frames = Tail(@), !.have = s.have,
                             !.head = s.head, !.last = s.last]
       IN  wr' = [wr EXCEPT !.x = IF failed THEN Failed(x) ELSE x]
    /\ UNCHANGED <<cache, unsynced, wmutex, oldest, hist, notWrite>>

\* mdb_txn_end of the outermost transaction, when nothing was committed.
Ended ==
    /\ wr' = NoWrite
    /\ wmutex' = NoPid
    /\ UNCHANGED <<cache, unsynced, oldest, hist, slots, disk, mti, rd, fatal,
                   dead, bk, scen>>

\* mdb_txn_abort, a commit that has nothing to write, or a commit of a failed
\* transaction.
WrAbort(p) == Writing(p, "open") /\ Ended /\ UNCHANGED faults

\* mdb_txn_commit up to the flush: the free list is saved, or saving fails and
\* the transaction is aborted.
SavedAs(p, x) ==
    /\ wr' = IF Top(x).err THEN NoWrite
             ELSE [wr EXCEPT !.pc = "flush", !.x = [x EXCEPT !.out = <<>>],
                             !.todo = DOMAIN Top(x).dirty \ ToSet(Top(x).loose)]
    /\ wmutex' = IF Top(x).err THEN NoPid ELSE p
    /\ oldest' = [oldest EXCEPT ![p] = x.oldest]
    /\ cache' = FoldLeft(Apply, cache, WritePages(x.out))
    /\ unsynced' = Unsynced(WritePages(x.out))

WrCommit(p) ==
    /\ Usable(p)
    /\ Len(wr.x.frames) = 1
    /\ DOMAIN Top(wr.x).dirty \cup Top(wr.x).spill # {}
    /\ SavedAs(p, FreelistSave(wr.x))
    /\ UNCHANGED <<hist, notWrite>>

\* mdb_page_flush writes the dirty list in page order.
WrFlush(p) ==
    /\ Writing(p, "flush")
    /\ wr.todo # {}
    /\ LET w == [meta |-> -1, pg |-> Min(wr.todo),
                 c |-> Top(wr.x).dirty[Min(wr.todo)]]
       IN  /\ cache' = Apply(cache, w)
           /\ unsynced' = Unsynced(<<w>>)
           /\ wr' = [wr EXCEPT !.todo = @ \ {w.pg}]
    /\ UNCHANGED <<wmutex, oldest, hist, notWrite>>

\* A write of a page, or the sync, fails: mdb_txn_commit aborts.
WrFlushFails(p) == Writing(p, "flush") /\ Ended /\ Fault("ioerror")

\* Variant: the pages are not synced before the meta page is written.
WrSyncSkipped(p) ==
    /\ Writing(p, "flush")
    /\ wr.todo = {}
    /\ wr' = [wr EXCEPT !.pc = "meta"]
    /\ UNCHANGED <<cache, unsynced, wmutex, oldest, hist, notWrite>>

\* mdb_env_sync(env, 0) does nothing under MDB_NOSYNC.
WrSync(p) ==
    /\ Writing(p, "flush")
    /\ wr.todo = {}
    /\ wr' = [wr EXCEPT !.pc = "meta"]
    /\ IF scen.sync = "nosync" THEN UNCHANGED <<disk, unsynced>>
       ELSE disk' = cache /\ unsynced' = <<>>
    /\ UNCHANGED <<cache, slots, mti, wmutex, rd, oldest, fatal, dead, bk, hist,
                   scen, faults>>

\* The pwrite of mdb_env_write_meta reaches the page cache in address order:
\* the trees first, then mm_last_pg and mm_txnid.
WrMeta(p) ==
    /\ Writing(p, "meta")
    /\ LET t == wr.x.txnid
           f == Top(wr.x)
       IN  /\ cache' = [cache EXCEPT !.meta[t % 2] =
                            [@ EXCEPT !.root = f.root, !.free = f.free, !.ver = t]]
           /\ hist' = [hist EXCEPT ![t] = f.log]
    /\ wr' = [wr EXCEPT !.pc = "tail"]
    /\ UNCHANGED <<unsynced, wmutex, oldest, notWrite>>

\* Variant: the meta page never goes through the O_DSYNC descriptor.
WrMetaTailAsync(p) ==
    /\ Writing(p, "tail")
    /\ LET t == wr.x.txnid
           m == [cache.meta[t % 2] EXCEPT !.last = Top(wr.x).next - 1, !.txnid = t]
           w == [meta |-> t % 2, pg |-> 0, c |-> m]
       IN  cache' = Apply(cache, w) /\ unsynced' = Unsynced(<<w>>)
    /\ wr' = [wr EXCEPT !.pc = "publish"]
    /\ UNCHANGED <<wmutex, oldest, hist, notWrite>>

\* The meta page goes through the O_DSYNC descriptor unless a flag says not to.
WrMetaTail(p) ==
    /\ Writing(p, "tail")
    /\ LET t == wr.x.txnid
           m == [cache.meta[t % 2] EXCEPT !.last = Top(wr.x).next - 1, !.txnid = t]
           w == [meta |-> t % 2, pg |-> 0, c |-> m]
       IN  /\ cache' = Apply(cache, w)
           /\ IF scen.sync = "sync"
              THEN disk' = Apply(disk, w) /\ UNCHANGED unsynced
              ELSE unsynced' = Unsynced(<<w>>) /\ UNCHANGED disk
    /\ wr' = [wr EXCEPT !.pc = "publish"]
    /\ UNCHANGED <<slots, mti, wmutex, rd, oldest, fatal, dead, bk, hist, scen, faults>>

\* mti_txnid = mt_txnid, then mdb_txn_end releases the mutex.
WrPublish(p) ==
    /\ Writing(p, "publish")
    /\ mti' = wr.x.txnid
    /\ wr' = NoWrite
    /\ wmutex' = NoPid
    /\ UNCHANGED <<cache, slots, disk, unsynced, rd, oldest, fatal, dead, bk,
                   hist, scen, faults>>

\* The write fails: old mm_last_pg and mm_txnid are written back over the new
\* trees and the environment is marked MDB_FATAL_ERROR.
WrMetaFails(p) ==
    /\ Fault("ioerror")
    /\ Writing(p, "tail")
    /\ LET m == wr.x.txnid % 2
       IN  unsynced' = Unsynced(<<[meta |-> m, pg |-> 0, c |-> cache.meta[m]]>>)
    /\ fatal' = fatal \cup {p}
    /\ wr' = NoWrite
    /\ wmutex' = NoPid
    /\ UNCHANGED <<cache, slots, disk, mti, rd, oldest, dead, bk, hist, scen>>

\* mdb_env_sync(env, 1), called by the application.
EnvSync(p) ==
    /\ Running(p) /\ scen.sync # "sync"
    /\ unsynced # <<>>
    /\ disk' = cache
    /\ unsynced' = <<>>
    /\ UNCHANGED <<cache, slots, mti, wmutex, rd, wr, oldest, fatal, dead, bk,
                   hist, scen, faults>>

\* mdb_reader_check, called by the application.
ReaderCheck(p) ==
    /\ Running(p)
    /\ Checked(slots) # slots
    /\ slots' = Checked(slots)
    /\ UNCHANGED <<rd, notRead>>

-----------------------------------------------------------------------------
(* Hot backup, mdb_env_copyfd0.                                            *)

\* Variant: the copy starts without a read transaction.
BkMetasNoRead(p) ==
    /\ Running(p) /\ Fault("backup")
    /\ rd[p].pc = "idle"
    /\ bk.pc = "none"
    /\ wmutex = NoPid
    /\ LET m == cache.meta[mti % 2]
       IN  rd' = [rd EXCEPT ![p] = [@ EXCEPT !.pc = "backup", !.root = m.root,
                                             !.next = m.last + 1, !.ver = m.ver]]
    /\ bk' = [NoBackup EXCEPT !.pc = "copy", !.store.meta = cache.meta, !.pos = 2]
    /\ UNCHANGED <<cache, slots, disk, unsynced, mti, wmutex, wr, oldest, fatal,
                   dead, hist, scen>>

\* Under the write mutex: begin the read transaction and copy the meta pages.
BkMetas(p) ==
    /\ Running(p) /\ Fault("backup")
    /\ rd[p].pc = "idle"
    /\ bk.pc = "none"
    /\ wmutex = NoPid
    /\ LET m == cache.meta[mti % 2]
       IN  /\ rd' = [rd EXCEPT ![p] =
                        [@ EXCEPT !.pc = "backup", !.txnid = mti, !.root = m.root,
                                  !.next = m.last + 1, !.ver = m.ver]]
           /\ slots' = [slots EXCEPT ![rd[p].slot].txnid = mti]
    /\ bk' = [NoBackup EXCEPT !.pc = "copy", !.store.meta = cache.meta, !.pos = 2]
    /\ UNCHANGED <<cache, disk, unsynced, mti, wmutex, wr, oldest, fatal, dead,
                   hist, scen>>

\* The pages up to mt_next_pgno, without a lock, then mdb_txn_abort.
BkPage(p) ==
    /\ Running(p)
    /\ rd[p].pc = "backup"
    /\ IF bk.pos < rd[p].next
       THEN /\ bk' = [bk EXCEPT !.store.pg[bk.pos] = cache.pg[bk.pos], !.pos = @ + 1]
            /\ UNCHANGED <<rd, slots>>
       ELSE /\ bk' = [bk EXCEPT !.pc = "done"]
            /\ rd' = [rd EXCEPT ![p] =
                         [NoRead EXCEPT !.pc = "idle", !.slot = rd[p].slot]]
            /\ slots' = [slots EXCEPT ![rd[p].slot].txnid = NoTxn]
    /\ UNCHANGED <<cache, disk, unsynced, mti, wmutex, wr, oldest, fatal, dead,
                   hist, scen, faults>>

-----------------------------------------------------------------------------
(* Deaths and crashes.                                                     *)

\* A process dies, not inside the pwrite of a meta page.  Its slot and the
\* mutex stay as they are in the lock file.
Kill(p) ==
    /\ Fault("kill")
    /\ Running(p)
    /\ ~(wmutex = p /\ wr.pc = "tail")
    /\ dead' = dead \cup {p}
    /\ rd' = [rd EXCEPT ![p] = NoRead]
    /\ wr' = IF wmutex = p THEN NoWrite ELSE wr
    /\ bk' = IF rd[p].pc = "backup" THEN NoBackup ELSE bk
    /\ UNCHANGED <<cache, slots, disk, unsynced, mti, wmutex, oldest, fatal,
                   hist, scen>>

\* The writes of unsynced that reached the disk: any of them, or a prefix when
\* the file system keeps the order of writes.
Survivors ==
    IF scen.ordered THEN {1..n : n \in 0..Len(unsynced)}
    ELSE SUBSET (1..Len(unsynced))

\* The machine crashes and the environment is opened again: the first opener
\* resets the lock file and takes mti_txnid from the newer meta page.
SystemCrash ==
    /\ Fault("crash")
    /\ \E S \in Survivors :
        LET kept == [i \in 1..Cardinality(S) |-> unsynced[Nth(S, i)]]
            store == FoldLeft(Apply, disk, kept)
        IN  /\ cache' = store
            /\ disk' = store
            /\ mti' = PickMeta(store).txnid
    /\ unsynced' = <<>>
    /\ slots' = [i \in DOMAIN slots |-> [pid |-> NoPid, txnid |-> NoTxn]]
    /\ wmutex' = NoPid
    /\ rd' = [p \in Procs |-> NoRead]
    /\ wr' = NoWrite
    /\ oldest' = [p \in Procs |-> 0]
    /\ fatal' = {}
    /\ dead' = {}
    /\ bk' = NoBackup
    /\ UNCHANGED <<hist, scen>>

Next ==
    \/ \E p \in Procs :
        \/ RdClaim(p) \/ RdStore(p) \/ RdCheck(p) \/ RdDbs(p) \/ RdLast(p)
        \/ RdEnd(p) \/ RdExit(p) \/ ReaderCheck(p)
        \/ WrBegin(p)
        \/ \E k \in Keys : WrPut(p, k) \/ WrDel(p, k)
        \/ ChildBegin(p) \/ ChildCommit(p)
        \/ \E failed \in BOOLEAN : ChildEnd(p, failed)
        \/ WrAbort(p) \/ WrCommit(p) \/ WrFlush(p) \/ WrFlushFails(p)
        \/ WrSync(p) \/ WrMeta(p) \/ WrMetaTail(p) \/ WrMetaFails(p)
        \/ WrPublish(p) \/ EnvSync(p) \/ BkMetas(p) \/ BkPage(p) \/ Kill(p)
    \/ SystemCrash

Spec == Init /\ [][Next]_vars

-----------------------------------------------------------------------------
(* Properties.                                                             *)

\* A reader sees one committed content of the database from the moment it has
\* copied the root of its tree until it ends, whatever writers commit, however
\* often they reuse freed pages, and however late it was between storing its
\* transaction id and reading the meta page (mdb_txn_renew0, mdb_find_oldest,
\* mdb_page_alloc).
SnapshotStable ==
    \A p \in Procs : rd[p].pc \in {"dbs", "open", "backup"} =>
        View(cache, rd[p].root) = hist[rd[p].ver]

\* What a get finds in the transaction of frame i, through the dirty and spilled
\* pages of its ancestors.
TxnView(i) ==
    LET x == [wr.x EXCEPT !.frames = SubSeq(@, i, Len(@))]
        kids == PageGet(x, Top(x).root).kids
    IN  [k \in Keys |-> IF Top(x).root = 0 \/ kids[k] = 0 THEN 0
                        ELSE PageGet(x, kids[k]).val]

\* A write transaction sees exactly its own puts and deletes and its ancestors',
\* and nothing a child does, spilling included, shows in its parent before the
\* child commits or after it aborts (mdb_page_touch, mdb_page_spill,
\* mdb_page_unspill, mdb_txn_commit, mdb_txn_end).
NestedViews ==
    wr.pc = "open" =>
        \A i \in DOMAIN wr.x.frames :
            wr.x.frames[i].err \/ TxnView(i) = wr.x.frames[i].log

TreePages(store, m) ==
    {m.root} \cup {store.pg[m.root].kids[k] : k \in Keys}

\* Every page up to mm_last_pg of the last committed snapshot is in exactly one
\* place: in the main tree, in the freeDB or in one freeDB record, so that no
\* page is lost or handed out twice (the comment on MDB_page; mdb_freelist_save).
PagesOnce ==
    LET m == PickMeta(cache)
        main == IF m.root = 0 THEN {} ELSE TreePages(cache, m) \ {0}
        free == IF m.free = 0 THEN {} ELSE {m.free}
        recs == IF m.free = 0 THEN <<>> ELSE cache.pg[m.free].recs
        ids == DOMAIN recs
    IN  /\ main \cup free \cup UNION {recs[i] : i \in ids} = 2..m.last
        /\ main \cap free = {}
        /\ \A i \in ids : recs[i] \cap (main \cup free) = {}
        /\ \A i, j \in ids : i # j => recs[i] \cap recs[j] = {}

\* The newest meta page always names a whole committed tree: after an aborted
\* or killed commit, and after a crash that lost writes, under MDB_NOSYNC only
\* if the file system keeps the order of writes (mdb_txn_commit,
\* mdb_env_write_meta, mdb_env_pick_meta).
NewestMetaIsWhole ==
    LET m == PickMeta(cache) IN View(cache, m.root) = hist[m.txnid]

\* A crash of the machine undoes nothing that was committed; the last commit at
\* most under MDB_NOMETASYNC (mdb_env_sync, mdb_env_write_meta).
CrashUndoesLittle ==
    [][\/ scen.sync = "nosync"
       \/ mti' >= mti - (IF scen.sync = "sync" THEN 0 ELSE 1)]_vars

\* The file of a finished hot backup opens as the content of its snapshot
\* (mdb_env_copyfd0).
BackupIsSnapshot ==
    LET m == PickMeta(bk.store)
    IN  bk.pc = "done" => View(bk.store, m.root) = hist[m.txnid]
=============================================================================
