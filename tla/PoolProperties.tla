--------------------------- MODULE PoolProperties ---------------------------
(***************************************************************************)
(* What the thread pool promises.  Each property names the code of         *)
(* src/src/pool.c that it is about.                                        *)
(***************************************************************************)
EXTENDS Pool, FiniteSetsExt

(***************************************************************************)
(* Type correctness.                                                       *)
(***************************************************************************)
ClientLabels ==
  {"ready", "ag_check", "ag_build", "ag_publish", "dw_grp", "dw_thrd",
   "dw_pool", "wp_scan", "wp_wait", "dg_unlink", "dg_close", "dg_wake",
   "dg_join", "dg_finish", "dp_lock", "dp_join", "dp_pop"}
ThreadLabels ==
  {"unborn", "top", "exec", "fetch", "notify", "idle", "exit", "dead",
   "dw_grp", "dw_thrd", "dw_pool"}
ManagerLabels == {"unborn", "m_check", "m_scan", "m_done"}

GroupFlags == {"GROUP_CLOSE", "SOFT_KILL", "GROUP_WAIT"}

PoolTypes ==
  /\ mutexPool \in Procs \cup {None}
  /\ condPool \subseteq Clients \cup Managers
  /\ poolState \in {"running", "idle", "dead"}
  /\ poolFlags \subseteq {"POOL_WAITING", "HARD_KILL"}
  /\ totalThrds \in 0..(UIntMod - 1)
  /\ groups \in Seq(Groups)
  /\ groupsLen \in Int
  /\ groupsWaiting \in Int
  /\ manager \in Managers \cup {None}

GrpTypes ==
  /\ mutexGrp \in [Groups -> Clients \cup {None}]
  /\ flags \in [Groups -> SUBSET GroupFlags]
  /\ q \in [Groups -> Seq(Works)]
  /\ capacity \in [Groups -> Nat]
  /\ idleThrds \in [Groups -> Seq(Threads)]
  /\ activeThrds \in [Groups -> SUBSET Threads]
  /\ activeLen \in [Groups -> Int]
  /\ thrdMax \in [Groups -> 0..ThrdBound]
  /\ numThrds \in [Groups -> 0..ThrdBound]

ThrdTypes ==
  /\ mutexThrd \in [Threads -> Threads \cup {None}]
  /\ condThrd \subseteq Threads
  /\ thrdState \in [Threads -> {"running", "idle"}]
  /\ currTask \in [Threads -> Works \cup {None}]

PcTypes ==
  /\ pc \in [Procs -> ClientLabels \cup ThreadLabels \cup ManagerLabels]
  /\ \A c \in Clients : pc[c] \in ClientLabels
  /\ \A t \in Threads : pc[t] \in ThreadLabels
  /\ \A m \in Managers : pc[m] \in ManagerLabels

Frames == [call : Ops \cup {"none"}, grp : Groups \cup {None},
           work : Works \cup {None}, thrd : Threads \cup {None}]

LocalTypes ==
  /\ frame \in [Callers -> Frames]
  /\ arg \in [Clients -> GroupArgsType]
  /\ todo \in [Clients \cup Managers -> Seq(Groups)]
  /\ timedOut \in [Managers -> BOOLEAN]

GhostTypes ==
  /\ tgStatus \in [Groups -> {"none", "building", "live", "doomed", "freed"}]
  /\ tpStatus \in {"live", "doomed", "freed"}
  /\ done \subseteq Works
  /\ awaited \in [Clients -> SUBSET Works]

\* A group has at most thrdMax threads.
BudgetInv == \A g \in Groups : numThrds[g] <= thrdMax[g]

\* Every field of struct TPool, TGroup and TThread, and every local of a
\* call, stays in its range: in particular a group never has more threads
\* than its max, for which its thrds array was allocated (line 259).
TypeOK ==
  /\ PoolTypes /\ GrpTypes /\ ThrdTypes /\ PcTypes /\ LocalTypes /\ GhostTypes
  /\ BudgetInv

-----------------------------------------------------------------------------
(***************************************************************************)
(* Groups, queues and threads.                                             *)
(***************************************************************************)
\* No work waits in a queue while a thread of the group is idle: do_work
\* queues only when list_pop(&tg->idleThrds) fails (line 402), and a worker
\* goes idle only after q_fetch has failed under the same lock (line 618).
QueueIdleExclusion ==
  \A g \in Groups : q[g] = <<>> \/ idleThrds[g] = <<>>

\* A thread in the idle list, or popped from it by a do_work call that has
\* not reached it yet (lines 420-425), is parked: its state is idle, it has
\* no task, and it is in the wait loop of line 655 or about to enter it.  So
\* do_work never overwrites a task (line 426), and never hands two works to
\* the same thread.
Parked(t) ==
  /\ thrdState[t] = "idle"
  /\ currTask[t] = None
  /\ pc[t] \in {"notify", "idle"}
HandOverToParked ==
  /\ \A g \in Groups : \A i \in 1..Len(idleThrds[g]) : Parked(idleThrds[g][i])
  /\ \A p \in Callers : pc[p] = "dw_thrd" =>
       /\ Parked(frame[p].thrd)
       /\ \A g \in Groups : \A i \in 1..Len(idleThrds[g]) :
            idleThrds[g][i] # frame[p].thrd
       /\ \A r \in Callers \ {p} :
            pc[r] = "dw_thrd" => frame[r].thrd # frame[p].thrd

\* A worker that has found no task runs on with state == running, so the
\* local `wait` read at line 646 has been assigned at line 636, and a thread
\* that terminates is not idle: the assert(0) of line 559 is not reached.
FetchesRunning ==
  \A t \in Threads : pc[t] \in {"fetch", "exit"} => thrdState[t] = "running"

\* Every thread of a group is in exactly one of its two lists from its
\* creation to internal_destroy_thread, and activeThrds.len, which lines 556
\* and 641 maintain by hand, counts the active list.  wait_pool's "last
\* active thread" test (line 636) rests on it.
ListsAgree ==
  \A g \in Groups :
    /\ activeLen[g] = Cardinality(activeThrds[g])
    /\ \A i \in 1..ThrdBound :
         LET t == <<g, i>>
             inIdle == Cardinality({j \in 1..Len(idleThrds[g]) :
                                      idleThrds[g][j] = t})
             inActive == IF t \in activeThrds[g] THEN 1 ELSE 0
         IN  inIdle + inActive =
               IF i <= numThrds[g] /\ pc[t] # "dead" THEN 1 ELSE 0

\* A freed group is quiet: its queue is empty, its threads have all
\* terminated, and nobody is inside a call on it or about to wake one of its
\* threads (lines 507-540, 214 and 347).
FreedIsQuiet ==
  \A g \in Groups : tgStatus[g] = "freed" =>
    /\ q[g] = <<>>
    /\ \A i \in 1..ThrdBound :
         /\ pc[<<g, i>>] \in {"unborn", "dead"}
         /\ currTask[<<g, i>>] = None
    /\ \A p \in Callers : frame[p].grp # g
    /\ \A p \in Clients \cup Managers :
         \A i \in 1..Len(todo[p]) : todo[p][i] # g

\* "max number of threads that the pool can contain" (line 44): the threads
\* of all groups together are never more than init_pool's maxThrds.  It does
\* not hold: add_group releases mutexPool between the check of the available
\* threads (line 245) and their reservation (line 317), so that two calls may
\* both be granted the same threads.
PoolWithinMax ==
  MapThenSumSet(LAMBDA g : numThrds[g],
                {g \in Groups : tgStatus[g] # "freed"}) <= MaxThrds

-----------------------------------------------------------------------------
(***************************************************************************)
(* Works.  The ledger of WorkLedger.tla: a work accepted by do_work is     *)
(* started once and finished once, and is never lost or run twice.         *)
(***************************************************************************)
Ledger == INSTANCE WorkLedger WITH pending <- Pending, running <- Running,
                                   finished <- done

\* The pool implements the ledger: whatever the interleaving of do_work, the
\* workers' q_fetch (618) and the manager's q_fetch (729), each accepted work
\* is executed exactly once, and none is dropped.
LedgerSpec == Ledger!Spec

-----------------------------------------------------------------------------
(***************************************************************************)
(* Waits-for: process p is blocked until process r moves.                  *)
(***************************************************************************)
WantsPool(p) ==
  \/ pc[p] \in {"ag_check", "ag_publish", "dw_pool", "notify", "dg_unlink",
                "dg_finish", "dp_lock"}
  \/ pc[p] \in {"m_check", "wp_wait"} /\ p \notin condPool
WantsGrp(p) ==
  IF pc[p] \in {"dw_grp", "dg_close"} THEN {frame[p].grp}
  ELSE IF pc[p] \in {"fetch", "exit"} THEN {p[1]}
  ELSE IF pc[p] \in {"m_scan", "wp_scan"} /\ todo[p] # <<>>
       THEN {Head(todo[p])}
  ELSE {}
WantsThrd(p) ==
  IF pc[p] = "dw_thrd" THEN {frame[p].thrd}
  ELSE IF pc[p] = "dg_wake" /\ idleThrds[frame[p].grp] # <<>>
       THEN {Head(idleThrds[frame[p].grp])}
  ELSE IF pc[p] \in {"top", "exec"} \/ (pc[p] = "idle" /\ p \notin condThrd)
       THEN {p}
  ELSE {}
Joins(p) ==
  IF pc[p] = "dg_join"
  THEN {t \in Threads : /\ t[1] = frame[p].grp
                        /\ t[2] <= numThrds[t[1]]
                        /\ pc[t] # "dead"}
  ELSE IF pc[p] = "dp_join" /\ pc[manager] # "m_done" THEN {manager}
  ELSE {}
WaitsFor(p) ==
  (   (IF WantsPool(p) THEN {mutexPool} ELSE {})
    \cup {mutexGrp[g] : g \in WantsGrp(p)}
    \cup {mutexThrd[t] : t \in WantsThrd(p)}
    \cup Joins(p)) \ {None}

\* No set of processes, each blocked on a mutex that another member holds or
\* on the join of another member: the claim of the lock-order comments at
\* lines 501-503 and 600-602.
NoWaitCycle ==
  LET Blocked == {p \in Procs : WaitsFor(p) # {}}
  IN  \A D \in SUBSET Blocked \ {{}} : \E p \in D : WaitsFor(p) \cap D = {}

-----------------------------------------------------------------------------
(***************************************************************************)
(* wait_pool.                                                              *)
(***************************************************************************)
\* While one wait_pool call waits, groupsWaiting is the number of groups
\* whose GROUP_WAIT flag is still set plus the workers that have cleared one
\* and not yet reported it (lines 638 and 648), so the last report wakes the
\* waiter.
WaitAccounting ==
  \A c \in Clients : pc[c] = "wp_wait" =>
    groupsWaiting = Cardinality({g \in Groups : "GROUP_WAIT" \in flags[g]})
                    + Cardinality({t \in Threads : pc[t] = "notify"})

WaitReturned(c) == pc[c] \in {"wp_scan", "wp_wait"} /\ pc'[c] = "ready"

\* When wait_pool returns, every work it found in a queue has been executed.
WaitDrainsQueues ==
  [][\A c \in Clients : WaitReturned(c) => awaited[c] \subseteq done]_vars

-----------------------------------------------------------------------------
(***************************************************************************)
(* Liveness.  Every step inside a call, of a worker and of the manager is  *)
(* taken if it is enabled again and again: threads run, tasks return, and  *)
(* a mutex that is released again and again is eventually obtained (its    *)
(* contenders sleep between uses: the manager for up to five seconds, a    *)
(* worker until it is signalled).  The manager's wait times out.  Clients  *)
(* need not call anything, and spurious wakeups need not happen.           *)
(***************************************************************************)
Fairness ==
  /\ \A c \in Clients : SF_vars(ClientStep(c))
  /\ \A t \in Threads : SF_vars(WorkerStep(t)) /\ SF_vars(WorkerFinish(t))
  /\ \A m \in Managers : SF_vars(ManagerStep(m)) /\ WF_vars(MgrTimeout(m))

FairSpec == Spec /\ Fairness

\* Every accepted work is executed, also when its group is destroyed
\* meanwhile: SOFT_KILL stops a worker only once the queue is empty (624).
AcceptedIsExecuted == \A w \in Works : w \in Pending ~> w \in done

\* wait_pool returns to each client that calls it: the last report brings
\* groupsWaiting to 0 and wakes the waiter (lines 649-652), although the
\* manager sleeps on the same condition variable.
Waiters == {c \in Clients : "wait_pool" \in ClientOps[c]}
WaitReturns ==
  \A c \in Waiters : pc[c] \in {"wp_scan", "wp_wait"} ~> pc[c] = "ready"

\* A do_work call that found the group not well is answered by a run of the
\* manager (line 743), although a wait_pool call may consume its signal, or
\* make the manager go back to sleep (line 690); unless the pool is destroyed.
ManagerAnswers ==
  poolState = "running" ~> poolState = "idle" \/ tpStatus # "live"

\* destroy_group returns: every idle thread is woken, and every thread
\* reaches its end and is joined.
DestroyGroupReturns ==
  \A g \in Groups :
    (\E c \in Clients : frame[c].call = "destroy_group" /\ frame[c].grp = g)
      ~> tgStatus[g] = "freed"

\* destroy_pool returns: the manager gets its HARD_KILL although it shares
\* condPool with wait_pool, and every group is torn down.
DestroyPoolReturns == tpStatus = "doomed" ~> tpStatus = "freed"

=============================================================================
