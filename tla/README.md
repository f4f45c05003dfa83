# Verification of trashdb

TLA+ specifications of trashdb and of the parts of LMDB it rests on, TLC
configurations that check them on small instances, and TLAPS proofs for
instances of any size. Paths below are relative to the repository; line numbers
are those of `src/src/pool.c` unless another file is named.

## The system and its parts

trashdb is a key-value server over LMDB: an event loop accepts connections and
collects requests, a scheduler hands them to groups of worker threads, the
workers run LMDB transactions, and a logging thread writes the log.

| part | source | state | operations | here |
|---|---|---|---|---|
| thread pool | `src/src/pool.c` | the pool (groups, budget of threads, flags), per group a bounded queue, an idle and an active list, per thread a task and a state | `add_group`, `do_work`, `wait_pool`, `destroy_group`, `destroy_pool`; worker and manager threads | `Pool` |
| logger | `src/src/logger.c` | the list of records, two flags, the logging thread | `init_logger`, `close_logger`, `trash_log`; `log_func` | `Logger` |
| intrusive lists | `src/include/il.h` | links and a length | `list_append`, `item_remove`, `list_pop`, `list_rotate` | in `Pool`, `Logger` and `Requests` |
| scheduler | `src/src/cook.c` | the reader groups in rotation | `init_thread_groups`, `scheduler`, `cook_func` | `Requests` |
| transactions | `src/src/db.c` | the open databases, each thread's transaction and its pool of read transactions | `open_env`, `begin_txn`, `change_txn_db`, `trash_put`, `return_txn`, `open_db`, `init_thread_local_readers` | `TrashDb` |
| message buffer | `src/src/message.c` | start, end and capacity of a growing buffer | make, free, add and get bytes, resize | `TBuffer` |
| LMDB's transactions | `src/lib/lmdb/mdb.c` | the map, the file, the reader table, the write transaction and its nested ones | begin, put, delete, commit, abort, sync, backup, recovery | `LmdbPages`, `LmdbTxn` |
| LMDB's B+tree | `src/lib/lmdb/mdb.c` | pages of a tree and the cursors on it | put, delete, cursor moves | `BtreePages`, `Btree`, `OrderedMap` |
| connection buffers, server | `src/src/buffy.c`, `src/src/server.c`, `src/src/main.c` | | | not modelled, see below |
| utilities | `src/src/utilities.c` | none | wrappers of system calls | not modelled: I/O |

They interact in few places: the scheduler uses the pool's `do_work`, the
pool's tasks use the transactions, the transactions use LMDB, and everything
may log. What is hard to test:

* locks nest in both directions (thread then group in the worker, group then
  thread in `internal_destroy_group`, pool then group in the manager);
* `do_work` pops an idle thread, unlocks the group and only then gives the
  thread its work;
* one condition variable serves the manager and `wait_pool`;
* counters that describe lists (`activeThrds.len`, `groups.len`,
  `groupsWaiting`, `totalThrds`) are maintained by hand, some of them in
  another critical section than the list;
* groups are destroyed while works are queued, handed over or running;
* databases are opened by several threads, and the process may end between the
  creation, the commit and the entry in the list;
* LMDB's readers take no lock while writers reuse pages, and its files must be
  good after any crash;
* every change of a B+tree moves nodes under the cursors that are open on it.

`PROJECT.json` lists these hazards with their lines.

## Modules

| module | content |
|---|---|
| `Pool` | the pool: state, one action per critical section, `Next`, `Spec` |
| `WorkLedger` | the abstract specification: a work is accepted, started and finished, each once |
| `PoolProperties` | type invariant, safety, action properties, refinement, fairness, liveness |
| `MCPool`, `MCPoolLive` | arguments, calls and symmetry of the TLC instances; the two usages of the pool in the liveness run |
| `PoolTypeLemmas`, `PoolCallProofs`, `PoolTypeProofs` | proof of type correctness: shared lemmas and the inductive invariant; the steps of the API; worker, manager and the theorem |
| `PoolProofs` | proof of the exclusion of queue and idle list |
| `Logger`, `LoggerProofs` | the logger with its properties; proofs that records are kept in order and flushed |
| `TrashDb` | transactions and open databases, with the part of LMDB's handles and reader slots they depend on; their properties |
| `Requests` | the scheduler, and its composition with `TrashDb` |
| `TBuffer` | the message buffer on integers of fixed width |
| `MCTrash` | the instance of these three |
| `LmdbPages` | the page store of a write transaction, as functions of its context |
| `LmdbTxn`, `MCLmdbTxn` | readers, writer, commit, backup, faults; their properties; the scenarios of the instance |
| `BtreePages` | the B+tree and its cursors, as functions of the tree |
| `OrderedMap` | the abstract specification: an ordered map with cursors |
| `Btree`, `MCBtree` | the operations on a database and its cursors, their properties; the scenarios of the instance |

Definitions whose comment says "Variant" are faulty forms of the definition
that follows them (a dropped guard, a missing signal, a swapped order). No
specification uses them; putting one in place of its neighbour shows which
property notices the fault. `PROJECT.json` pairs each property of each passing
run with such a variant.

### How `Pool` corresponds to `pool.c`

The processes are client threads, workers `<<g, i>>` (the i-th `TThread` of
group g) and managers (named after the group whose `add_group` started them).
The variables are the fields of `struct TPool`, `TGroup` and `TThread`, a
program counter and the locals of each call, and four ghosts.

* *Critical sections.* Code between a lock and its unlock is one step, enabled
  when the mutex is free. Where the holder blocks inside (a second mutex, a
  join) the section is split and the mutex is held between the steps: the
  worker holds `mutexThrd` at `fetch` and `notify`, the manager and
  `wait_pool` hold `mutexPool` during their scan, `internal_destroy_group`
  holds `mutexGrp` while it wakes idle threads, and `destroy_pool` holds
  `mutexPool` throughout its loop.
* *Condition variables* are the set of sleepers. A signal wakes any one of
  them, a sleeper may wake spuriously, the manager's wait may time out.
* *Lists.* The idle list and the queue are sequences. The active list is a set
  (its order is never used) with its `len` apart, because lines 556 and 641
  change `len` by hand. `groups` is a sequence with `groups.len` apart, because
  `destroy_group` unlinks at line 337 and counts at line 343.
* *Integers.* `totalThrds` and the subtraction of line 245 are unsigned
  (`% UIntMod`); `groupsWaiting` is signed and may become negative.
* *Health.* `internal_health_check` compares `4 * len` with `capacity` instead
  of the float ratio with 0.25, which is the same for lengths below 2^24.
* *Tasks* are works with an identity. While a task runs it may call `do_work`
  on its own group (`TaskSubmits`).
* *Caller's obligations.* A handle is used only after `add_group` returned it
  and before somebody destroys it; a group is destroyed once, and not while
  another client is inside a call on it; nobody uses a pool that is being
  destroyed. The ghosts `tgStatus` and `tpStatus` express this. A work that is
  refused (`GROUP_FULL`, `POOL_ERROR`) may be submitted again.
* *Left out.* Failing allocations and thread creation end in `assert`. No code
  sets `HARD_KILL` or `GROUP_CLEAN` on a group (lines 604 and 609) and no code
  reads `thrdMin`.

### How `Logger` corresponds to `logger.c`

One step per critical section of `logMutex`, which is free or, after the
`break` of line 210, held for good by the ended thread. `flags`, `logs` and the
logging thread's state are the static variables; `written` is the file.
`init_logger` may fail to open the file and may be called again after
`close_logger`; it is called when nobody is inside the logger. A record is a
model value; its formatting is left out, and so is a failing `pthread_create`.

### How `TrashDb` and `Requests` correspond to `db.c` and `cook.c`

* *State.* `dbs` is `oEnv->dbs`, `tts` the `TrashTxn` of each thread, `rdrPool`
  its thread-local pool. `file` is what the last commit left: the databases with
  their flags, and the records of the database METADATA. `wtxn`, `handles` and
  `slot` are LMDB's write transaction, its table of handles (exported at commit,
  dropped at abort) and the thread's reader slot, translated from `mdb_dbi_open`,
  `mdb_txn_renew0` and `mdb_dbis_update`.
* *Steps.* `open_db` of a writing caller is one step, since the caller holds the
  write mutex. That of a reading caller is four: the read transaction is reset;
  a write transaction is begun and creates the database and its record; it is
  committed; the entry is added. `change_txn_db` is one step although it locks
  twice, because entries are never removed or changed. The steps assume room in
  LMDB's reader table, which `open_env` sizes by the number of threads.
* *Names.* `open_db` looks up the bare name (line 309 of `db.c`) but stores
  `dbs:` and the name (line 345), so the lookup never succeeds, although a
  comment says "If the db flags are in the metadata db, then those will be used"
  (line 283); the branch for a record that is found (lines 326-330) would need a
  user's key in METADATA, which nothing in the repository writes. Start-up reads a name as a string from a page in which it is not
  terminated: what follows is its record, whose first byte is zero only when the
  flags are (`NameRead`). The pointers stay in use; once METADATA's page has been
  replaced and reused (`age`) they may read as something else. `MayRot` lets that
  happen as early as LMDB could reuse the page; it may also never happen.
* *Ends of the process.* A failed assertion, a null pointer, or `Kill` at any
  time. The next `open_env` starts from `file`.
* *Caller's obligations.* A thread has one transaction at a time and returns it;
  names are literals, which outlive the calls.
* *Left out.* An entry's `count` and flags are written and never read. `count`
  does not follow the users: `change_txn_db` does not count the old database
  down, and `open_db` does not count at all. `envLock` is used without being
  initialised, and line 594 allocates the size of a pointer for a `TrashTxn`; the
  model takes both to be harmless (glibc's smallest block has room for a
  `TrashTxn`, and a block of zeros is an unlocked mutex). Failing allocations are left out.
* *Requests.* `do_work` answers as in `Pool`: the group takes the work or is full.
  The list of reader groups has its `len` apart from its links. A thread of the
  pool that takes the work executes `cook_func`, that is
  `init_thread_local_readers`; see `db_reader_pool` for what that does. Because
  it ends the process, the branches of `begin_txn` and `return_txn` for a thread
  that has a pool are modelled but not reached.

### How `TBuffer` corresponds to `message.c`

The indices and the capacity with the integers of the code: `availSpace` modulo
2^16, the first doubling modulo 2^32, the later ones in `size_t`. The instance
uses 16 and 64 for the two moduli. The bytes are left out. An addition may also
end in the code's `assert(0)`, in a doubling loop that does not end (capacity 0)
or past the end of the buffer, which `how` records.

### How `LmdbPages` and `LmdbTxn` correspond to `mdb.c`

* *Store.* `cache` is the shared map: two meta pages and the data pages. `disk`
  is the file on stable storage and `unsynced` the writes in between, in order.
* *Trees.* The main tree is a root with a leaf page per key, the freeDB is one
  page of records from transaction ids to sets of pages. That is what the page
  store needs: a page is touched on a path from a root, freed, reused, spilled.
  `BtreePages` has the real tree.
* *The writer.* A write transaction's context `x` is the stack of nested
  transactions with their dirty lists, spill lists, loose and freed pages, and
  the writer's part of the environment (`me_pghead`, `me_pglast`, `me_pgoldest`).
  `mdb_page_alloc`, `mdb_page_touch`, `mdb_page_spill`, `mdb_page_unspill`,
  `mdb_freelist_save` are functions of `x`. Commit is one step up to the flush,
  then one per page written, the sync, the meta page in two parts (trees first,
  then `mm_last_pg` and `mm_txnid`), and the publication of the id.
* *Readers* take five steps: claim a slot, store the id, check it, copy the
  trees, read the last page number. Memory is sequentially consistent.
* *Faults.* The scenario says which may happen: a process dies (anywhere except
  inside the `pwrite` of a meta page), the machine crashes and any subset of the
  unsynced writes survives (a prefix if the file system keeps their order), or a
  write fails (and a second writer goes on after it). A lock left by a dead owner is repaired as in
  `mdb_mutex_failed`; after a crash the lock file is set up anew.
* *Left out.* `MDB_WRITEMAP`, `MDB_NOTLS`, overflow pages, a map that grows, the
  compacting copy.

### How `BtreePages`, `Btree` and `OrderedMap` correspond to `mdb.c`

A page is a sequence of nodes with a size; a cursor is its stack of pages and
indices with its flags `C_INITIALIZED`, `C_EOF` and `C_DEL`. The functions have
the names and the case distinctions of the code (`NodeSearch`, `PageSplit`,
`NodeMove`, `PageMerge`, `Rebalance`, `CursorNext`...); a loop over `mt_cursors`
is `AdjustOthers`. An operation is one step, because a write transaction and its
cursors belong to one thread. After each, pages are renumbered in tree order,
since page numbers are only names.

`OrderedMap` says what the operations should do: a cursor is on a key or in the
gap before one, writes do not move other cursors, deletion leaves a gap.
`Btree` keeps its state as ghosts (`map`, `at`), takes its step with every
operation, and `CursorsFollowMap` is the refinement mapping as an invariant:
the contents of the tree are the map and every cursor's position is the abstract
one. `CursorsMoveRight` says that from each of these states the next move of each
cursor answers what the map would.

Two things the ordered map does not promise, because the code does not do them.
A cursor whose search failed may be anywhere (`Lost`) and should only be
searched with again: `MDB_PREV` from there may read behind the last node of a
page. And a cursor that has met the end answers `MDB_NEXT` with `MDB_NOTFOUND`
also when another key has been appended since (`AtEof`).

Left out: sorted duplicates, `LEAF2` and overflow pages, `MDB_CURRENT`, and
failing allocation (it is in `LmdbPages`). The split point is found by the scan
the code uses for pages with few keys.

## Runs

Runs that pass:

| run | instance | what it shows |
|---|---|---|
| `pool_core` | 2 clients that submit, one of which also waits; 1 group, dynamic from 1 to 3 threads or fixed; 3 works; `destroy_pool`, or `destroy_group` of the fixed group | `TypeOK`; no work is queued while a thread is idle (`QueueIdleExclusion`); a thread that `do_work` has popped is still parked when it is reached (`HandOverToParked`); `wait` is assigned before it is read (`FetchesRunning`); lists and counters agree (`ListsAgree`); a freed group is not touched, not even by a `wait_pool` scan (`FreedIsQuiet`); every accepted work runs exactly once, also when the queue is full and refuses some (`LedgerSpec`, refinement of `WorkLedger`); what was queued is executed when `wait_pool` returns (`WaitDrainsQueues`) |
| `pool_groups` | 1 client, 2 groups, 2 works, tasks that submit, `wait_pool`, `destroy_group` | a freed group is not touched, nobody waits in a circle (`NoWaitCycle`), `groupsWaiting` is the number of reports to come from the two groups (`WaitAccounting`); `LedgerSpec` and `WaitDrainsQueues` with tasks that submit |
| `pool_live` | 1 group growing from 1 to 2 threads, 2 works, fairness; a client waits while another submits and destroys the pool, or tasks submit and the group is destroyed | `wait_pool` returns (`WaitReturns`), the manager answers (`ManagerAnswers`), `destroy_pool` and `destroy_group` return (`DestroyPoolReturns`, `DestroyGroupReturns`), accepted works are executed (`AcceptedIsExecuted`) |
| `logger` | 2 threads, 2 records, 3 accepted, 2 starts, fairness | `TypeOK`; accepted records reach the file in order (`WrittenInOrder`) and before `close_logger` returns (`ClosedIsFlushed`), which it does (`CloseReturns`) |
| `lmdb_txn` | 2 processes, 2 keys, 10 pages, 5 transactions, nine scenarios | a reader's snapshot does not change (`SnapshotStable`); nested transactions see their own writes and their ancestors' (`NestedViews`); every page is in use or free, once (`PagesOnce`); the newest meta page names a whole commit whatever failed (`NewestMetaIsWhole`), a crash undoes no commit, or only the last under `MDB_NOMETASYNC` (`CrashUndoesLittle`); a hot backup is a snapshot (`BackupIsSnapshot`) |
| `lmdb_btree` | 2 cursors, up to 6 keys and 3 levels, four scenarios | the tree stays well formed (`TreeOk`); it and its cursors are an ordered map (`CursorsFollowMap`, `CursorsMoveRight`) |
| `trash` | 2 threads, 2 names, 3 handles, 2 starts; 3 reader groups and 5 requests; a buffer; fairness | databases and records agree in every file (`RegistryComplete`); listed handles are LMDB's (`HandlesAgree`); a committed database is found (`CommittedIsFound`); `open_db` returns (`OpenDbReturns`); a chunk no longer than the buffer fits after `resize_tbuff` (`ShortChunksFit`) |

Runs in which the code does not do what its comments say. Each ends in a
counterexample to one property:

| run | property | what happens |
|---|---|---|
| `pool_destroy_deadlock` | `NoWaitCycle` | `destroy_pool` joins a worker while holding the `mutexPool` its task waits for |
| `pool_overbooked` | `PoolWithinMax` | `mutexPool` is released between the check of the available threads (lines 245-253) and their reservation (line 317): with room for two threads, two clients both get a group of two |
| `logger_no_wakeup` | `AcceptedIsWritten` | the length is tested after the append, so the logging thread is never signalled |
| `db_reader_pool` | `ReaderPoolFills` | the cursor's read transaction occupies the thread's reader slot, so none of the pool's can begin |
| `scheduler_drops` | `ScheduledIsPlaced` | `list_rotate` takes one off the list's `len` and never puts it back, so after as many works as there are reader groups `scheduler` tries none and drops the work |

### Conditions

Some properties hold under conditions only, and the passing runs state them by
the calls they let the clients make:

* `NoWaitCycle` needs that no task is inside `do_work` when the pool is
  destroyed (`pool_destroy_deadlock`).
* `WaitReturns` needs one waiter and no overlapping `destroy_group`, which
  unlinks the group (line 337) before it counts it out (line 343): `wait_pool` in
  between expects a report of a group it does not visit. Two waiters overwrite
  each other's `groupsWaiting`, which may then pass 0 without a broadcast
  (line 649).
* `wait_pool` waits for queues: a task that was taken from its queue before may
  still run when it returns, although its comment says "Wait till all jobs are
  finished." (line 150).
* The pool's budget is kept exactly only when a fixed group has min = max:
  `add_group` takes max (line 317), while such a group has `thrdMax` = min
  (line 267), which is what `destroy_group` gives back.
* There is one manager as long as the pool never becomes empty: the next
  `add_group` (line 310) starts another one, and the first is never joined.
* `WaitAccounting` needs one waiter and no overlapping `destroy_group`, for the
  reason given for `WaitReturns`. `WaitDrainsQueues` needs one waiter; it holds
  with an overlapping `destroy_group` (`pool_core`).
* A `trash_log` call returns unless it comes after the logging thread has
  ended: the `break` of line 210 of `logger.c` leaves `logMutex` locked, so
  the call blocks and does not get to return `LOG_ERROR`.
* Start-up fails in two cases, both modelled. A missing directory: `trash_mkdir`
  makes the parents only. And a database opened with flags: the name read at
  start-up runs into its record, and the `assert` of line 465 of `db.c` ends the
  process.
* `CommittedIsFound` has an exception: an entry made at start-up whose page was
  reused. What such a name then reads as is not covered by any property.
* A read transaction of a thread without pool, and any transaction that never
  found its database, must not be given to `return_txn`: it dereferences NULL.
* `ShortChunksFit` is limited to chunks no longer than the capacity: `needed` is
  compared with the chunk and not with what the buffer holds already (line 89 of
  `message.c`), so a longer chunk may end past the buffer (`how`).
* `NewestMetaIsWhole` needs, under `MDB_NOSYNC`, a file system that keeps the
  order of writes. trashdb opens its environment with `MDB_NOSYNC` and
  `MDB_NOMETASYNC`, so it depends on that.
* `SnapshotStable` is about a reader's tree. The last page number it reads after
  (`mt_next_pgno`) may already be that of a later transaction, if the meta page is
  rewritten meanwhile; it is only ever an upper bound for the check of page numbers.

### Bounds

* Two clients suffice for every race between two calls; workers, manager and
  tasks are further processes. Three threads in a group let one be idle, one
  execute and one be created. Two groups let one be destroyed while the other
  works, and let two reports to a waiter cross.
* The queue's capacity is `max * QSizeMult`. With `QSizeMult` 1 a fixed group
  with a maximum of two and three works (`pool_core`) lets the queue fill and
  refuse works; with `QSizeMult` 3 and a maximum of two (`pool_groups`) one
  queued work is "moderate" health and two are "poor".
* Two instances limit which calls are made together, and no step inside a call:
  in `pool_core` `destroy_group` is called on a fixed group only (the constraint
  `FixedGroupsGo`; growing groups are destroyed in `pool_groups`), and a behaviour
  of `pool_live` has either a waiter and `destroy_pool` or tasks that submit and
  `destroy_group` (`Usages`).
* A handle is used for one group only: a freed group does not come back, so the
  number of `add_group` calls is bounded by `Groups`, and that of accepted
  works by `Works`. Nothing else is bounded.
* `UIntMod` is 16: larger than every legal value, small enough to show a wrap.
* `MaxLogs` and `MaxInits` bound accepted records and starts of the logger.
* Works are interchangeable (symmetry). The liveness runs use no symmetry.
* `lmdb_txn`: five transactions let freed pages be reused, and freed again, while
  a reader is late; two keys let one page be kept while the other is
  replaced; `SpillNeed`, `SpillCount` and the room of the dirty list make a
  transaction of four operations spill; `MaxFree1pg` of 2 makes the free list take
  several records. A scenario allows one kind of fault, once.
* `lmdb_btree`: leaves hold two nodes of the larger size and branches three
  children or a few more, so that six keys make a tree of three levels and splits
  and merges recurse. Keys of
  two sizes let a replaced separator split its parent. `MaxBehind` bounds the index
  of a lost cursor.
* `trash`: two threads, because what matters is one thread between two steps of
  `open_db` while another acts; two starts, because start-up reads what the one
  before wrote; three handles for METADATA and two names. Some behaviours have
  requests, some a message and the others neither: the parts share no state.

### Fairness

Every step of a worker, of the manager and inside a call is strongly fair:
threads are scheduled, tasks return, and a mutex that is released again and
again is obtained in the end, because its other users sleep between their
uses. The expiry of the manager's timed wait is weakly fair, since time passes.
Clients need not call anything, and spurious wakeups need not happen. The
logger needs weak fairness only. In `trash` a thread takes the next step inside
`open_db`, and returns its write transaction in the end, as its callers must;
LMDB's write mutex is granted to a thread for which it stays free (weak fairness).

## Proofs

| theorem | statement |
|---|---|
| `TypeCorrect` (`PoolTypeProofs`) | `Spec => []TypeOK`: all fields and locals of the pool stay in range; a group never has more threads than the maximum its `thrds` array was allocated for (`BudgetInv`) |
| `QueueExcludesIdle` (`PoolProofs`) | `Spec => []QueueIdleExclusion` |
| `LogsInOrder` (`LoggerProofs`) | `Spec => []WrittenInOrder` |
| `CloseFlushes` (`LoggerProofs`) | `Spec => []ClosedIsFlushed` |

They hold for every value of the constants that satisfies `PoolAssumption`,
`ProcsAssumption` (clients, workers and managers are distinct; the sizes are
positive and fit in an unsigned int) and `LoggerAssumption`.

*Pool.* `TypeOK` is not inductive: that `add_group` fills an array of the right
size depends on the arguments it checked one critical section earlier, and
that a hand-over stores a work in a thread depends on the locals of `do_work`.
The inductive invariant `IInv` adds what each label says of its locals
(`FrameInv`, `ArgInv`, `TaskInv`). `BudgetInv`, the part of `TypeOK` that
bounds a group's threads by `thrdMax`, makes the unsigned subtraction of lines
714 and 719 exact. The proof has a lemma per action. Most actions move one process, so
what such a step does to the labels and the locals is proved once, in `Moves`,
`Keeps` and the lemmas about them. `QueueIdleExclusion` is inductive relative
to `IInv`: only six actions change a queue or an idle list, and each either
finds the other one empty or only makes one of the two shorter.

*Logger.* The invariant adds to `TypeOK` and `WrittenInOrder` that a closed
logger has an ended thread, that an ended thread leaves the list empty, and
that an open logger has `OPEN_Q` set. The last is needed because a restart
keeps `CLOSE_Q`.

Model-checked only: the liveness properties (fairness is beyond the prover), the
refinement of `WorkLedger`, `HandOverToParked`, `FetchesRunning`, `ListsAgree`,
`FreedIsQuiet`, `NoWaitCycle`, `WaitAccounting`, `WaitDrainsQueues`, and the properties of `TrashDb`, `Requests`, `TBuffer`
and the modules of LMDB. Those of LMDB use recursive operators on trees and
lists, about which the prover cannot reason.

## Not modelled

* `buffy.c` uses fields of `struct TrashData` (`msg`, `sendBuff`, `partialMsg`,
  `remainingMsg`) that the structure does not have, and `server.c` calls a list
  interface that `il.h` replaced. Neither compiles, so there is no behaviour to
  translate.
* `main.c` and `utilities.c`: start-up, wrappers of system calls, formatting.
* `midl.c`: sorted arrays of page numbers; the models use sets in their place.
* Of LMDB: sorted duplicates, overflow pages, `MDB_WRITEMAP`, the compacting copy,
  `mdb_drop`, opening an environment (except its recovery), and the command-line
  tools.
* Failing allocations of trashdb, which end in `assert`.

## Open

Proofs: `FetchesRunning` and `HandOverToParked` (invariant: threads above
`numThrds` are unborn, idle entries are distinct and parked, a worker at `fetch`
has no task), then `ListsAgree`, the refinement of `WorkLedger`, `WaitAccounting`
for one waiter, `ShortChunksFit` and `RegistryComplete`.
