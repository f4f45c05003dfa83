------------------------------ MODULE TrashDb -------------------------------
(***************************************************************************)
(* The transactions and the open databases of trashdb (src/db.c).          *)
(*                                                                         *)
(* A thread of the program holds at most one TrashTxn.  The environment    *)
(* has one list of OpenDb entries, shared by the threads; an entry names a *)
(* database and the LMDB handle it was opened with.  What LMDB keeps for   *)
(* the process is here as far as db.c depends on it: the write mutex and   *)
(* the transaction behind it, the table of handles (exported at commit,    *)
(* dropped at abort), and the reader slot of each thread, which holds one  *)
(* live read transaction because the environment is opened without         *)
(* MDB_NOTLS.  An entry's flags and its count of users, which the program  *)
(* writes and never reads, are left out.                                   *)
(*                                                                         *)
(* A failed assertion and a null pointer end the process, and it may be    *)
(* killed at any time; a new one starts from what the last commit left in  *)
(* the file.                                                               *)
(***************************************************************************)
EXTENDS Naturals, Sequences, FiniteSets

CONSTANTS
  Threads,      \* the threads that call db.c
  NameOrder,    \* the names of user databases, in key order
  Flags,        \* the flags open_db is called with
  NumDbs,       \* open_env's numdbs: user and metadata handles
  PoolCapacity, \* TXN_POOL_CAPACITY
  Bounds        \* bounds on a behaviour, one of which holds for it: processes
                \* started, and in one process begin_txn calls, entries of the
                \* list at which open_db is not called, and scheduler calls

VARIABLES
  file,     \* last commit: the databases and the records of METADATA
  wtxn,     \* the write transaction in progress (LMDB's write mutex)
  handles,  \* env->me_dbxs: the names of the exported handles
  oEnv,     \* "NULL", "open", or how the process ended
  dbs,      \* oEnv->dbs
  tts,      \* each thread's TrashTxn
  rdrPool,  \* each thread's pool of read transactions
  slot,     \* each thread's LMDB reader slot
  pc,       \* where the thread is in open_db
  arg,      \* the arguments of that call
  calls, starts,
  bound

dbvars == <<file, wtxn, handles, oEnv, dbs, tts, rdrPool, slot, pc, arg, calls, starts, bound>>

METADATA == "metadata"
Garbage == "garbage"        \* what is read through a name whose page was reused
Names == {NameOrder[i] : i \in DOMAIN NameOrder}
NULL == [none |-> TRUE]
NoPool == <<>>             \* a thread's pool is NULL or holds some transactions
Pool(n) == <<n>>
NoArg == [name |-> METADATA, flags |-> {}]
Plain == {}                 \* no flag

\* A new TrashTxn: its kind, TRASH_TXN_COMMIT, its entry of dbs (0 is NULL).
TrashTxn(rd) == [rd |-> rd, commit |-> FALSE, db |-> 0]

-----------------------------------------------------------------------------
(* LMDB, as db.c uses it.                                                  *)

\* A read transaction may begin or be renewed only while the thread's slot
\* has none (otherwise MDB_BAD_RSLOT).
SlotFree(t) == slot[t] # "live"

\* mdb_txn_begin for writing: a copy of the last commit, and its handles.
WriteTxn(t) == [owner |-> t, file |-> file, handles |-> handles, dirty |-> FALSE]

HandleOf(hs, name) == CHOOSE i \in DOMAIN hs : hs[i] = name
HasHandle(hs, name) == \E i \in DOMAIN hs : hs[i] = name

\* Whether mdb_dbi_open(w, name, flags) succeeds.
DbiOpens(w, name, create) ==
  \/ HasHandle(w.handles, name)
  \/ /\ Len(w.handles) < NumDbs
     /\ create \/ name \in DOMAIN w.file.dbs

\* What it leaves: a handle, and the database if it is new.
DbiOpen(w, name, flags) ==
  IF HasHandle(w.handles, name) THEN w
  ELSE IF name \in DOMAIN w.file.dbs THEN [w EXCEPT !.handles = Append(@, name)]
  ELSE [w EXCEPT !.handles = Append(@, name), !.dirty = TRUE,
                 !.file.dbs = [n \in DOMAIN @ \cup {name} |-> IF n = name THEN flags ELSE @[n]]]

\* mdb_put of the record of a database into METADATA.
PutRecord(w, name, flags) ==
  [w EXCEPT !.dirty = TRUE, !.file.rewritten = TRUE,
            !.file.records = [n \in DOMAIN @ \cup {name} |-> IF n = name THEN flags ELSE @[n]]]

\* mdb_txn_commit and mdb_dbis_update: only a dirty transaction makes a new
\* version.  A page that one version replaced may be reused by the version
\* after the next; age counts the versions since this process's start in
\* which METADATA's first page is a different one.
Aged(f) == [f EXCEPT !.age = IF f.rewritten /\ @ < 2 THEN @ + 1 ELSE @]
Committed(w) == IF w.dirty THEN Aged(w.file) ELSE file

-----------------------------------------------------------------------------
(* The list of open databases.                                             *)

\* db_match: entry i of the list has this name.
db_match(list, i, name) == i # 0 /\ list[i].name = name

\* The first entry of the list with the name, or 0.
FirstMatch(list, name) ==
  LET found == {i \in DOMAIN list : list[i].name = name}
  IN  IF found = {} THEN 0 ELSE CHOOSE i \in found : \A j \in found : i <= j

\* change_txn_db: the transaction it leaves.
change_txn_db(tt, list, name) ==
  LET i == FirstMatch(list, name)
  IN  IF db_match(list, tt.db, name) \/ i = 0 THEN tt ELSE [tt EXCEPT !.db = i]

\* internal_add_db: a new entry at the end, whether or not one has the name.
internal_add_db(list, name, id) ==
  Append(list, [name |-> name, id |-> id, paged |-> FALSE])

\* Names read from METADATA's page at start-up follow what the page becomes.
Rotted(list, rot) ==
  [i \in DOMAIN list |->
     IF rot /\ list[i].paged THEN [list[i] EXCEPT !.name = Garbage] ELSE list[i]]
MayRot(w) == {FALSE} \cup {w.dirty /\ w.file.age = 2}

\* Variant: TRASH_TXN_COMMIT is not set.
PutDoneNoCommit(tt) == tt

\* trash_put's effect on the transaction's actions.
PutDone(tt) == [tt EXCEPT !.commit = TRUE]

-----------------------------------------------------------------------------
(* Start and end of the process.                                           *)

Fresh(how) ==
  /\ oEnv' = how
  /\ wtxn' = NULL /\ handles' = <<>> /\ dbs' = <<>>
  /\ tts' = [t \in Threads |-> NULL]
  /\ rdrPool' = [t \in Threads |-> NoPool]
  /\ slot' = [t \in Threads |-> "none"]
  /\ pc' = [t \in Threads |-> "idle"] /\ arg' = [t \in Threads |-> NoArg]
  /\ calls' = 0

\* assert(...) that fails, or a null pointer: the process is gone, and with it
\* the write transaction; what was committed stays.
Ends(how) == Fresh(how) /\ UNCHANGED <<file, starts, bound>>

\* The process is killed.
Kill == oEnv = "open" /\ Ends("killed")

DbInit ==
  /\ file \in [dbs : {<<>>}, records : {<<>>}, rewritten : {FALSE}, age : {0}, dir : BOOLEAN]
  /\ wtxn = NULL /\ handles = <<>> /\ oEnv = "NULL" /\ dbs = <<>>
  /\ tts = [t \in Threads |-> NULL]
  /\ rdrPool = [t \in Threads |-> NoPool]
  /\ slot = [t \in Threads |-> "none"]
  /\ pc = [t \in Threads |-> "idle"] /\ arg = [t \in Threads |-> NoArg]
  /\ calls = 0 /\ starts = 0 /\ bound \in Bounds

\* Variant: the loop ends one record early.
ToOpenButLast(f) == LET s == SelectSeq(NameOrder, LAMBDA n : n \in DOMAIN f.records)
                    IN  IF s = <<>> THEN s ELSE SubSeq(s, 1, Len(s) - 1)

\* The records the cursor of init_metadata meets, in key order.
ToOpen(f) == SelectSeq(NameOrder, LAMBDA n : n \in DOMAIN f.records)

\* Start-up reads a name up to the first zero byte.  The key is not terminated
\* in the page, its record follows: without flags its first byte is zero.
NameRead(f, n) == IF f.records[n] = Plain THEN n ELSE Garbage

\* Every mdb_dbi_open of init_metadata succeeds.
StartOpens(f) ==
  /\ Len(ToOpen(f)) < NumDbs
  /\ \A n \in DOMAIN f.records : NameRead(f, n) \in DOMAIN f.dbs

\* open_env and init_metadata, by the only thread there is.  The directory of
\* the environment must exist: trash_mkdir makes its parents only.
open_env ==
  /\ oEnv # "open" /\ starts < bound.starts
  /\ starts' = starts + 1
  /\ IF file.dir /\ StartOpens(file)
     THEN LET names == ToOpen(file) IN
          /\ oEnv' = "open"
          /\ file' = [file EXCEPT !.rewritten = FALSE, !.age = 0,
                        !.dbs = [n \in DOMAIN @ \cup {METADATA} |->
                                   IF n = METADATA THEN Plain ELSE @[n]]]
          /\ handles' = <<METADATA>> \o names
          /\ dbs' = [i \in 1..(Len(names) + 1) |->
                       IF i = 1 THEN [name |-> METADATA, id |-> 1, paged |-> FALSE]
                       ELSE [name |-> names[i - 1], id |-> i, paged |-> TRUE]]
          /\ UNCHANGED <<wtxn, tts, rdrPool, slot, pc, arg, calls, bound>>
     ELSE Fresh("bad_start") /\ UNCHANGED <<file, bound>>

-----------------------------------------------------------------------------
(* begin_txn, change_txn_db, trash_put, return_txn.                        *)

Running(t) == oEnv = "open" /\ pc[t] = "idle"
InTxn(t) == Running(t) /\ tts[t] # NULL
BeginsTxn(t) == Running(t) /\ tts[t] = NULL /\ calls < bound.calls

\* The transaction tt of thread t turns to a database.
TurnsTo(t, tt, name) ==
  tts' = [tts EXCEPT ![t] = change_txn_db(tt, dbs, name)]

\* begin_txn(TRASH_WR_TXN): waits for LMDB's write mutex.
begin_txn_wr(t, name) ==
  /\ BeginsTxn(t) /\ wtxn = NULL
  /\ calls' = calls + 1
  /\ wtxn' = WriteTxn(t)
  /\ TurnsTo(t, TrashTxn(FALSE), name)
  /\ UNCHANGED <<file, handles, oEnv, dbs, rdrPool, slot, pc, arg, starts, bound>>

\* begin_txn(TRASH_RD_TXN): from the thread's pool, or a new one without pool,
\* for which LMDB's reader table has room: one slot a thread, and open_env is
\* given the number of threads.
begin_txn_rd(t, name) ==
  /\ BeginsTxn(t) /\ SlotFree(t)
  /\ IF rdrPool[t] = Pool(0) THEN Ends("no_reader")
     ELSE /\ calls' = calls + 1
          /\ rdrPool' = [rdrPool EXCEPT ![t] = IF @ = NoPool THEN @ ELSE Pool(@[1] - 1)]
          /\ slot' = [slot EXCEPT ![t] = "live"]
          /\ TurnsTo(t, TrashTxn(TRUE), name)
          /\ UNCHANGED <<file, wtxn, handles, oEnv, dbs, pc, arg, starts, bound>>

change_db(t, name) ==
  /\ InTxn(t)
  /\ TurnsTo(t, tts[t], name)
  /\ UNCHANGED <<file, wtxn, handles, oEnv, dbs, rdrPool, slot, pc, arg, calls, starts, bound>>

\* trash_put by a write transaction into its database (for a read transaction
\* it changes nothing).
trash_put(t) ==
  /\ InTxn(t) /\ ~tts[t].rd /\ tts[t].db # 0
  /\ tts' = [tts EXCEPT ![t] = PutDone(@)]
  /\ wtxn' = [wtxn EXCEPT !.dirty = TRUE,
                           !.file.rewritten = @ \/ dbs[tts[t].db].id = 1]
  /\ UNCHANGED <<file, handles, oEnv, dbs, rdrPool, slot, pc, arg, calls, starts, bound>>

\* Variant: a transaction that put nothing is not aborted.
WriteEndsHeld(commit) ==
  /\ wtxn' = IF commit THEN NULL ELSE wtxn
  /\ file' = IF commit THEN Committed(wtxn) ELSE file
  /\ handles' = IF commit THEN wtxn.handles ELSE handles

\* A write transaction ends: commit when something was put, abort otherwise.
WriteEnds(commit) ==
  /\ wtxn' = NULL
  /\ file' = IF commit THEN Committed(wtxn) ELSE file
  /\ handles' = IF commit THEN wtxn.handles ELSE handles

\* return_txn of a write transaction.  One that never found a database has put
\* nothing: it is aborted, and then its null db is dereferenced.
return_txn_wr(t) ==
  /\ InTxn(t) /\ ~tts[t].rd
  /\ IF tts[t].db = 0 THEN Ends("null")
     ELSE /\ WriteEnds(tts[t].commit)
          /\ \E rot \in MayRot(wtxn) :
               dbs' = Rotted(dbs, rot /\ tts[t].commit)
          /\ tts' = [tts EXCEPT ![t] = NULL]
          /\ UNCHANGED <<oEnv, rdrPool, slot, pc, arg, calls, starts, bound>>

\* return_txn of a read transaction: it is reset and goes back to the thread's
\* pool, or is aborted when the pool is full.  A thread without pool, and a
\* transaction without database, end in a null pointer.
return_txn_rd(t) ==
  /\ InTxn(t) /\ tts[t].rd
  /\ IF rdrPool[t] = NoPool \/ tts[t].db = 0 THEN Ends("null")
     ELSE /\ slot' = [slot EXCEPT ![t] = "idle"]
          /\ rdrPool' = [rdrPool EXCEPT ![t] = IF @[1] < PoolCapacity THEN Pool(@[1] + 1) ELSE @]
          /\ tts' = [tts EXCEPT ![t] = NULL]
          /\ UNCHANGED <<file, wtxn, handles, oEnv, dbs, pc, arg, calls, starts, bound>>

\* init_thread_local_readers: a cursor on METADATA takes a read transaction,
\* which stays live; then the pool is filled with transactions begun and reset
\* one after the other, each of which is asserted to begin.
CursorSlot(t) == "live"
init_thread_local_readers(t) ==
  /\ Running(t) /\ tts[t] = NULL
  /\ IF rdrPool[t] # NoPool THEN UNCHANGED dbvars
     ELSE IF CursorSlot(t) = "live" THEN Ends("bad_rslot")
     ELSE /\ rdrPool' = [rdrPool EXCEPT ![t] = Pool(PoolCapacity)]
          /\ slot' = [slot EXCEPT ![t] = "idle"]
          /\ UNCHANGED <<file, wtxn, handles, oEnv, dbs, tts, pc, arg, calls, starts, bound>>

-----------------------------------------------------------------------------
(* open_db.  Its look into METADATA is for the bare name, while records are *)
(* kept under "dbs:" and the name: it finds one only where a user has put a *)
(* key of that name into METADATA (lines 326-330), which the users here do  *)
(* not, so every call takes the way of a database opened for the first time. *)

OpensDb(t) == InTxn(t) /\ Len(dbs) < bound.opens

\* Variant: no record for a new database.
CreateNoRecord(w, name, flags) ==
  IF HasHandle(w.handles, name) THEN PutRecord(w, name, flags) ELSE DbiOpen(w, name, flags)

\* mdb_dbi_open with MDB_CREATE, then the record, in one write transaction.
Create(w, name, flags) == PutRecord(DbiOpen(w, name, flags), name, flags)

\* A caller that is writing: everything happens in its own transaction, which
\* its return_txn will commit, but the entry is in the list at once.
open_db_wr(t, name, flags) ==
  /\ OpensDb(t) /\ ~tts[t].rd
  /\ IF ~DbiOpens(wtxn, name, TRUE) THEN Ends("dbs_full")
     ELSE LET w == Create(wtxn, name, flags) IN
          /\ wtxn' = w
          /\ dbs' = internal_add_db(dbs, name, HandleOf(w.handles, name))
          /\ tts' = [tts EXCEPT ![t] = [PutDone(@) EXCEPT !.db = Len(dbs) + 1]]
          /\ UNCHANGED <<file, handles, oEnv, rdrPool, slot, pc, arg, calls, starts, bound>>

\* A caller that is reading: its transaction is reset but kept ...
open_db_rd(t, name, flags) ==
  /\ OpensDb(t) /\ tts[t].rd
  /\ TurnsTo(t, tts[t], METADATA)
  /\ slot' = [slot EXCEPT ![t] = "idle"]
  /\ pc' = [pc EXCEPT ![t] = "begin_wr"]
  /\ arg' = [arg EXCEPT ![t] = [name |-> name, flags |-> flags]]
  /\ UNCHANGED <<file, wtxn, handles, oEnv, dbs, rdrPool, calls, starts, bound>>

\* ... a write transaction is begun on METADATA, and creates the database ...
open_db_begin(t) ==
  /\ oEnv = "open" /\ pc[t] = "begin_wr" /\ wtxn = NULL
  /\ IF ~DbiOpens(WriteTxn(t), arg[t].name, TRUE) THEN Ends("dbs_full")
     ELSE /\ wtxn' = Create(WriteTxn(t), arg[t].name, arg[t].flags)
          /\ pc' = [pc EXCEPT ![t] = "commit"]
          /\ UNCHANGED <<file, handles, oEnv, dbs, tts, rdrPool, slot, arg, calls, starts, bound>>

\* ... it is committed, and the read transaction is renewed ...
open_db_commit(t) ==
  /\ oEnv = "open" /\ pc[t] = "commit"
  /\ WriteEnds(TRUE)
  /\ \E rot \in MayRot(wtxn) : dbs' = Rotted(dbs, rot)
  /\ slot' = [slot EXCEPT ![t] = "live"]
  /\ pc' = [pc EXCEPT ![t] = "add"]
  /\ UNCHANGED <<oEnv, tts, rdrPool, arg, calls, starts, bound>>

\* ... and the entry is added.
open_db_add(t) ==
  /\ oEnv = "open" /\ pc[t] = "add"
  /\ dbs' = internal_add_db(dbs, arg[t].name, HandleOf(handles, arg[t].name))
  /\ tts' = [tts EXCEPT ![t].db = Len(dbs) + 1]
  /\ pc' = [pc EXCEPT ![t] = "idle"] /\ arg' = [arg EXCEPT ![t] = NoArg]
  /\ UNCHANGED <<file, wtxn, handles, oEnv, rdrPool, slot, calls, starts, bound>>

DbNext ==
  \/ open_env
  \/ Kill
  \/ \E t \in Threads :
       \/ \E name \in Names : begin_txn_wr(t, name)
       \/ \E name \in Names : begin_txn_rd(t, name)
       \/ \E name \in Names \cup {METADATA} : change_db(t, name)
       \/ trash_put(t)
       \/ return_txn_wr(t)
       \/ return_txn_rd(t)
       \/ \E name \in Names, flags \in Flags : open_db_wr(t, name, flags)
       \/ \E name \in Names, flags \in Flags : open_db_rd(t, name, flags)
       \/ open_db_begin(t)
       \/ open_db_commit(t)
       \/ open_db_add(t)

\* The steps a thread takes by itself: those inside open_db, and the return of
\* a write transaction, on which the others wait.
Proceeds(t) ==
  open_db_begin(t) \/ open_db_commit(t) \/ open_db_add(t) \/ return_txn_wr(t)

-----------------------------------------------------------------------------
(* Properties.                                                             *)

\* Every database of the file has a record in METADATA and every record has
\* its database, whoever was killed where: open_db makes the two in one write
\* transaction (db.c 337 and 347), and start-up depends on it (db.c 465).
RegistryComplete == DOMAIN file.dbs \ {METADATA} = DOMAIN file.records

\* The handle of an entry of oEnv->dbs is LMDB's handle for that database.  It
\* is one that transactions begun now know, unless the transaction that opened
\* it is still being written: internal_add_db (db.c 358) runs before the commit
\* when the caller passed its own write transaction, and no abort may follow.
HandlesAgree ==
  oEnv = "open" =>
    /\ \A i \in DOMAIN dbs :
         \/ dbs[i].id \in DOMAIN handles /\ dbs[i].name \in {handles[dbs[i].id], Garbage}
         \/ /\ wtxn # NULL
            /\ dbs[i].id \in DOMAIN wtxn.handles /\ dbs[i].name = wtxn.handles[dbs[i].id]
            /\ tts[wtxn.owner].commit
    /\ \A t \in Threads : tts[t] # NULL /\ ~tts[t].rd /\ tts[t].db # 0 =>
                            dbs[tts[t].db].id \in DOMAIN wtxn.handles

\* A committed database can be reached: change_txn_db finds an entry with its
\* handle, by name, from start-up on (db.c 450-470), except between the commit
\* and the new entry of an open_db (db.c 351, 358), and unless the entry was
\* made at start-up, when its name is a pointer into a page of the file (db.c
\* 462, 524) that has been replaced and reused since.
CommittedIsFound ==
  oEnv = "open" =>
    \A name \in DOMAIN file.dbs :
      \/ \E i \in DOMAIN dbs : dbs[i].name = name /\ handles[dbs[i].id] = name
      \/ \E t \in Threads : pc[t] = "add" /\ arg[t].name = name
      \/ file.age = 2 /\ \E i \in DOMAIN dbs : dbs[i].paged /\ handles[dbs[i].id] = name

\* A thread's pool of read transactions can be filled: the transaction that
\* init_thread_local_readers asserts to begin (db.c 65) does begin.
ReaderPoolFills == oEnv # "bad_rslot"
=============================================================================
