-------------------------------- MODULE Pool --------------------------------
(***************************************************************************)
(* The thread pool of src/src/pool.c: a pool (TPool) of groups (TGroup),   *)
(* each with a bounded work queue and its own worker threads (TThread),    *)
(* and a manager thread that grows a group whose queue is filling up.      *)
(*                                                                         *)
(* The processes are the client threads that call the API, the workers,    *)
(* and the manager threads.  A step is a critical section: a section that  *)
(* takes one mutex, touches what the mutex protects and releases it is one *)
(* atomic step, enabled when the mutex is free; a mutex that is held while *)
(* its holder blocks on something else (another mutex, a join) stays held  *)
(* in the state between the two steps.  A condition variable is the set of *)
(* the processes asleep on it; a signal wakes any one of them, and a       *)
(* sleeper may also wake spuriously.                                       *)
(***************************************************************************)
EXTENDS Integers, Sequences, FiniteSets

CONSTANTS
  Clients,      \* application threads that call the pool's functions
  Groups,       \* TGroup handles that add_group may return
  Works,        \* Work items
  None,         \* NULL, and the owner of a mutex that nobody holds
  MaxThrds,     \* the maxThrds argument of init_pool
  GroupArgs,    \* the [min, max, flags] arguments add_group is called with
  ThrdBound,    \* the largest max in GroupArgs
  QSizeMult,    \* Q_SIZE_MULT (100 in pool.c)
  UIntMod,      \* number of values of unsigned int (2^32 in the build)
  ClientOps,    \* the functions each client may call
  TaskSubmits   \* whether a running task may call do_work on its own group

Threads  == Groups \X (1..ThrdBound)   \* the i-th TThread made for a group
Managers == Groups    \* a manager is named after the group that started it
Callers  == Clients \cup Threads
Procs    == Callers \cup Managers

Ops == {"add_group", "destroy_group", "do_work", "wait_pool", "destroy_pool"}

GroupArgsType ==
  [min : 0..ThrdBound, max : 0..ThrdBound,
   flags : {"GROUP_FIXED", "GROUP_DYNAMIC"}]

ASSUME PoolAssumption ==
  /\ MaxThrds \in Nat \ {0}
  /\ ThrdBound \in Nat \ {0}
  /\ QSizeMult \in Nat \ {0}
  /\ UIntMod \in Nat \ {0}
  /\ MaxThrds < UIntMod
  /\ ThrdBound < UIntMod
  /\ GroupArgs \subseteq GroupArgsType
  /\ ClientOps \in [Clients -> SUBSET Ops]
  /\ TaskSubmits \in BOOLEAN

\* Clients, workers and managers are different processes, none of them NULL.
ASSUME ProcsAssumption ==
  /\ Clients \cap Threads = {}
  /\ Clients \cap Managers = {}
  /\ Threads \cap Managers = {}
  /\ None \notin Procs \cup Works

VARIABLES
  \* struct TPool
  mutexPool, condPool, poolState, poolFlags, totalThrds,
  groups, groupsLen, groupsWaiting, manager,
  \* struct TGroup, by group; activeThrds.len is kept by hand in the code
  mutexGrp, flags, q, capacity, idleThrds, activeThrds, activeLen,
  thrdMax, numThrds,
  \* struct TThread, by thread
  mutexThrd, condThrd, thrdState, currTask,
  \* control: where a process is, and the locals of the call it is in
  pc, frame, arg, todo, timedOut,
  \* ghosts: which handles a caller may use, which works have been executed,
  \* and which works each wait_pool call found in a queue
  tgStatus, tpStatus, done, awaited

poolVars == <<mutexPool, condPool, poolState, poolFlags, totalThrds,
              groups, groupsLen, groupsWaiting, manager>>
grpVars  == <<mutexGrp, flags, q, capacity, idleThrds, activeThrds,
              activeLen, thrdMax, numThrds>>
thrdVars == <<mutexThrd, condThrd, thrdState, currTask>>
ghosts   == <<tgStatus, tpStatus, done, awaited>>
vars     == <<poolVars, grpVars, thrdVars, pc, frame, arg, todo, timedOut,
              ghosts>>

-----------------------------------------------------------------------------
(***************************************************************************)
(* Where the works are.                                                    *)
(***************************************************************************)
Queued(w)  == \E g \in Groups : \E i \in 1..Len(q[g]) : q[g][i] = w

\* Handed to an idle thread by do_work, which has not reached the thread yet.
InHand(w)  == \E p \in Callers : frame[p].work = w /\ pc[p] = "dw_thrd"

\* The states of a worker whose currTask is being executed: the task itself
\* runs, or the task is inside a do_work call of its own.
ExecStates == {"exec", "dw_grp", "dw_pool", "dw_thrd"}

Running == {w \in Works :
              \E t \in Threads : currTask[t] = w /\ pc[t] \in ExecStates}
Pending == {w \in Works :
              \/ Queued(w)
              \/ InHand(w)
              \/ \E t \in Threads : currTask[t] = w /\ pc[t] \notin ExecStates}

\* A Work that its caller still owns: not yet submitted, or refused.
Unowned(w) ==
  /\ w \notin Pending \cup Running \cup done
  /\ \A p \in Callers : frame[p].work # w

-----------------------------------------------------------------------------
(***************************************************************************)
(* Helpers.                                                                *)
(***************************************************************************)
NoFrame == [call |-> "none", grp |-> None, work |-> None, thrd |-> None]

NoArg == [min |-> 0, max |-> 0, flags |-> "GROUP_FIXED"]

Goto(p, label) == pc' = [pc EXCEPT ![p] = label]

\* A call returns to the client's code, or to the task that made it.
Return(p) ==
  /\ pc' = [pc EXCEPT ![p] = IF p \in Clients THEN "ready" ELSE "exec"]
  /\ frame' = [frame EXCEPT ![p] = NoFrame]

\* Definitions marked "Variant" are faulty forms of the one that follows
\* them.  Next does not use them; they show which property notices the fault.

\* pthread_cond_signal(&tp->condPool): wakes one sleeper, if there is one.
SignalPool ==
  IF condPool = {} THEN UNCHANGED condPool
                   ELSE \E p \in condPool : condPool' = condPool \ {p}

\* pthread_cond_signal(&tt->condThrd): only the thread itself sleeps there.
\* Variant: the signal is left out.
SignalThrdForgotten(t) == UNCHANGED condThrd

SignalThrd(t) == condThrd' = condThrd \ {t}

q_full(g) == Len(q[g]) = capacity[g]

\* The queue after q_append, which refuses a work when it is full.
q_append(g, w) == IF q_full(g) THEN q[g] ELSE Append(q[g], w)

\* do_work's two tests under mutexGrp: is the group closed, and does
\* list_pop(&tg->idleThrds) return NULL?
Closed(g) == "GROUP_CLOSE" \in flags[g]

\* Variant: queue whenever some thread is active.
NoIdleIfActive(g) == activeLen[g] > 0

NoIdle(g) == idleThrds[g] = <<>>

\* list_append(&tg->activeThrds, ...), which counts, and the way out of the
\* active list: item_remove, which does not, and activeThrds.len--.
EnterActive(g, t) ==
  /\ activeThrds' = [activeThrds EXCEPT ![g] = @ \cup {t}]
  /\ activeLen' = [activeLen EXCEPT ![g] = @ + 1]

\* Variant: only the item_remove.
LeaveActiveUncounted(g, t) ==
  /\ activeThrds' = [activeThrds EXCEPT ![g] = @ \ {t}]
  /\ UNCHANGED activeLen

LeaveActive(g, t) ==
  /\ activeThrds' = [activeThrds EXCEPT ![g] = @ \ {t}]
  /\ activeLen' = [activeLen EXCEPT ![g] = @ - 1]

\* Is the worker going idle the last active one?  The test comes before
\* activeThrds.len--.  Variants: after it, and no test.
LastActiveAfterwards(g) == activeLen[g] = 0

LastActiveUntested(g) == TRUE

LastActive(g) == activeLen[g] = 1

\* The condition of the loop around pthread_cond_wait(&tt->condThrd).
\* Variant: an if instead of the loop.
StaysAsleepOnce(t) == FALSE

StaysAsleep(t) == thrdState[t] = "idle"

\* item_remove: the list s without its element e.  An item that is in no list
\* is linked to itself, and removing it changes nothing.
Unlink(s, e) ==
  IF \E j \in 1..Len(s) : s[j] = e
  THEN LET i == CHOOSE j \in 1..Len(s) : s[j] = e
       IN  SubSeq(s, 1, i - 1) \o SubSeq(s, i + 1, Len(s))
  ELSE s

\* internal_health_check of a queue of n works: len/capacity against 0.25.
internal_health_check(n, cap) ==
  IF n = 0 THEN "well"
           ELSE IF 4 * n < cap THEN "moderate" ELSE "poor"

\* How many threads the manager adds to group g.
\* Variant: the existing ones are not subtracted.
addThrdsToMax(g) == IF q[g] = <<>> THEN 0 ELSE thrdMax[g]

addThrds(g) ==
  LET health == internal_health_check(Len(q[g]), capacity[g])
      room   == (thrdMax[g] - numThrds[g]) % UIntMod
  IN  IF health = "well" THEN 0
                         ELSE IF health = "moderate" THEN room \div 2 ELSE room

\* What q_fetch returns for the k-th new thread: the k-th work, or NULL.
\* Variant: the fetched work is not stored in the new thread.
FirstTaskDropped(ts, k) == None

FirstTask(ts, k) == IF k <= Len(ts) THEN ts[k] ELSE None

\* The state internal_create_thread gives a thread.  Variant: idle.
BirthStateIdle == "idle"

BirthState == "running"

\* internal_create_thread and pthread_create for the n threads of group g
\* after number base, with the works in the sequence ts as first tasks.
CreateThreads(g, n, base, ts) ==
  LET new == {<<g, base + i>> : i \in 1..n}
  IN  /\ thrdState' = [t \in Threads |->
                         IF t \in new THEN BirthState ELSE thrdState[t]]
      /\ currTask' = [t \in Threads |->
                        IF t \in new THEN FirstTask(ts, t[2] - base) ELSE currTask[t]]
      /\ activeThrds' = [activeThrds EXCEPT ![g] = @ \cup new]
      /\ activeLen' = [activeLen EXCEPT ![g] = @ + n]
      /\ numThrds' = [numThrds EXCEPT ![g] = base + n]

\* The new threads start at the top of worker_thread_function.
StartThreads(f, g, n, base) ==
  [p \in Procs |->
     IF p \in {<<g, base + i>> : i \in 1..n} THEN "top" ELSE f[p]]

-----------------------------------------------------------------------------
(***************************************************************************)
(* init_pool has returned a pool; no group has been added.                 *)
(***************************************************************************)
Init ==
  /\ mutexPool = None
  /\ condPool = {}
  /\ poolState = "dead"
  /\ poolFlags = {}
  /\ totalThrds = 0
  /\ groups = <<>>
  /\ groupsLen = 0
  /\ groupsWaiting = 0
  /\ manager = None
  /\ mutexGrp = [g \in Groups |-> None]
  /\ flags = [g \in Groups |-> {}]
  /\ q = [g \in Groups |-> <<>>]
  /\ capacity = [g \in Groups |-> 0]
  /\ idleThrds = [g \in Groups |-> <<>>]
  /\ activeThrds = [g \in Groups |-> {}]
  /\ activeLen = [g \in Groups |-> 0]
  /\ thrdMax = [g \in Groups |-> 0]
  /\ numThrds = [g \in Groups |-> 0]
  /\ mutexThrd = [t \in Threads |-> None]
  /\ condThrd = {}
  /\ thrdState = [t \in Threads |-> "running"]
  /\ currTask = [t \in Threads |-> None]
  /\ pc = [p \in Procs |-> IF p \in Clients THEN "ready" ELSE "unborn"]
  /\ frame = [p \in Callers |-> NoFrame]
  /\ arg = [c \in Clients |-> NoArg]
  /\ todo = [p \in Clients \cup Managers |-> <<>>]
  /\ timedOut = [m \in Managers |-> FALSE]
  /\ tgStatus = [g \in Groups |-> "none"]
  /\ tpStatus = "live"
  /\ done = {}
  /\ awaited = [c \in Clients |-> {}]

\* A client between two calls starts one that it may make.
MayCall(c, op) ==
  /\ pc[c] = "ready"
  /\ op \in ClientOps[c]
  /\ tpStatus = "live"

-----------------------------------------------------------------------------
(***************************************************************************)
(* add_group.                                                              *)
(***************************************************************************)
CallAddGroup(c, g, a) ==
  /\ MayCall(c, "add_group")
  /\ tgStatus[g] = "none"
  /\ tgStatus' = [tgStatus EXCEPT ![g] = "building"]
  /\ arg' = [arg EXCEPT ![c] = a]
  /\ frame' = [frame EXCEPT ![c] = [NoFrame EXCEPT !.call = "add_group",
                                                   !.grp = g]]
  /\ Goto(c, "ag_check")
  /\ UNCHANGED <<poolVars, grpVars, thrdVars, todo, timedOut, tpStatus, done,
                 awaited>>

\* The arguments after min is raised to 1 and max cut to what is available.
Clamped(a) ==
  LET avail == (MaxThrds - totalThrds) % UIntMod
  IN  [min |-> IF a.min = 0 THEN 1 ELSE a.min,
       max |-> IF avail < a.max THEN avail ELSE a.max,
       flags |-> a.flags]

\* The first critical section: totalThrds is read, and nothing reserved.
AddGroupCheck(c) ==
  LET a == Clamped(arg[c])
      g == frame[c].grp
      refused == a.max = 0 \/ a.min > a.max
  IN  /\ pc[c] = "ag_check"
      /\ mutexPool = None
      /\ arg' = [arg EXCEPT ![c] = IF refused THEN NoArg ELSE a]
      /\ tgStatus' = [tgStatus EXCEPT ![g] =
                        IF refused THEN "none" ELSE "building"]
      /\ IF refused THEN Return(c)
                    ELSE Goto(c, "ag_build") /\ UNCHANGED frame
      /\ UNCHANGED <<poolVars, grpVars, thrdVars, todo, timedOut, tpStatus,
                     done, awaited>>

\* The group is filled in and its min first threads are created.
AddGroupBuild(c) ==
  LET a == arg[c]
      g == frame[c].grp
      fixed == a.flags = "GROUP_FIXED" \/ a.min = a.max
  IN  /\ pc[c] = "ag_build"
      /\ thrdMax' = [thrdMax EXCEPT ![g] = IF fixed THEN a.min ELSE a.max]
      /\ capacity' = [capacity EXCEPT ![g] = a.max * QSizeMult]
      /\ flags' = [flags EXCEPT ![g] = {}]
      /\ CreateThreads(g, a.min, 0, <<>>)
      /\ pc' = [StartThreads(pc, g, a.min, 0) EXCEPT ![c] = "ag_publish"]
      /\ UNCHANGED <<poolVars, mutexGrp, q, idleThrds, mutexThrd, condThrd,
                     frame, arg, todo, timedOut, ghosts>>

\* The second critical section: the first group starts the manager, the
\* group enters the list and its threads are counted.
AddGroupPublish(c) ==
  LET g == frame[c].grp
      first == groupsLen = 0
  IN  /\ pc[c] = "ag_publish"
      /\ mutexPool = None
      /\ poolState' = IF first THEN "idle" ELSE poolState
      /\ manager' = IF first THEN g ELSE manager
      /\ pc' = [pc EXCEPT ![g] = IF first THEN "m_check" ELSE @,
                          ![c] = "ready"]
      /\ groups' = Append(groups, g)
      /\ groupsLen' = groupsLen + 1
      /\ totalThrds' = (totalThrds + arg[c].max) % UIntMod
      /\ tgStatus' = [tgStatus EXCEPT ![g] = "live"]
      /\ frame' = [frame EXCEPT ![c] = NoFrame]
      /\ arg' = [arg EXCEPT ![c] = NoArg]
      /\ UNCHANGED <<mutexPool, condPool, poolFlags, groupsWaiting, grpVars,
                     thrdVars, todo, timedOut, tpStatus, done, awaited>>

-----------------------------------------------------------------------------
(***************************************************************************)
(* do_work, called by a client or by a running task.                       *)
(***************************************************************************)
CallDoWork(p, g, w) ==
  /\ \/ p \in Clients /\ MayCall(p, "do_work") /\ tgStatus[g] = "live"
     \/ p \in Threads /\ pc[p] = "exec" /\ TaskSubmits /\ p[1] = g
  /\ Unowned(w)
  /\ frame' = [frame EXCEPT ![p] = [call |-> "do_work", grp |-> g,
                                    work |-> w, thrd |-> None]]
  /\ Goto(p, "dw_grp")
  /\ UNCHANGED <<poolVars, grpVars, thrdVars, arg, todo, timedOut, ghosts>>

\* The group is closed: POOL_ERROR.
DoWorkClosed(p) ==
  LET g == frame[p].grp
  IN  /\ pc[p] = "dw_grp"
      /\ mutexGrp[g] = None
      /\ Closed(g)
      /\ Return(p)
      /\ UNCHANGED <<poolVars, grpVars, thrdVars, arg, todo, timedOut, ghosts>>

\* No thread is idle: queue the work, or refuse it with GROUP_FULL.
DoWorkQueue(p) ==
  LET g == frame[p].grp
      after == q_append(g, frame[p].work)
  IN  /\ pc[p] = "dw_grp"
      /\ mutexGrp[g] = None
      /\ ~Closed(g)
      /\ NoIdle(g)
      /\ q' = [q EXCEPT ![g] = after]
      /\ IF internal_health_check(Len(after), capacity[g]) = "well"
         THEN Return(p)
         ELSE /\ Goto(p, "dw_pool")
              /\ frame' = [frame EXCEPT ![p].work =
                              IF q_full(g) THEN @ ELSE None]
      /\ UNCHANGED <<poolVars, mutexGrp, flags, capacity, idleThrds,
                     activeThrds, activeLen, thrdMax, numThrds, thrdVars, arg,
                     todo, timedOut, ghosts>>

\* An idle thread is moved to the active list; the group lock is released
\* before the thread is reached.
DoWorkPopIdle(p) ==
  LET g == frame[p].grp
      t == Head(idleThrds[g])
  IN  /\ pc[p] = "dw_grp"
      /\ mutexGrp[g] = None
      /\ ~Closed(g)
      /\ ~NoIdle(g)
      /\ idleThrds' = [idleThrds EXCEPT ![g] = Tail(@)]
      /\ EnterActive(g, t)
      /\ frame' = [frame EXCEPT ![p].thrd = t]
      /\ Goto(p, "dw_thrd")
      /\ UNCHANGED <<poolVars, mutexGrp, flags, q, capacity, thrdMax, numThrds,
                     thrdVars, arg, todo, timedOut, ghosts>>

\* The thread gets its task and is woken.
DoWorkHand(p) ==
  LET t == frame[p].thrd
  IN  /\ pc[p] = "dw_thrd"
      /\ mutexThrd[t] = None
      /\ currTask' = [currTask EXCEPT ![t] = frame[p].work]
      /\ thrdState' = [thrdState EXCEPT ![t] = "running"]
      /\ SignalThrd(t)
      /\ Return(p)
      /\ UNCHANGED <<poolVars, grpVars, mutexThrd, arg, todo, timedOut, ghosts>>

\* The group is not well: the manager is told to run.
DoWorkSignal(p) ==
  /\ pc[p] = "dw_pool"
  /\ mutexPool = None
  /\ poolState' = "running"
  /\ SignalPool
  /\ Return(p)
  /\ UNCHANGED <<mutexPool, poolFlags, totalThrds, groups, groupsLen,
                 groupsWaiting, manager, grpVars, thrdVars, arg, todo,
                 timedOut, ghosts>>

-----------------------------------------------------------------------------
(***************************************************************************)
(* worker_thread_function and internal_destroy_thread.  The flags          *)
(* HARD_KILL and GROUP_CLEAN of a group are tested by the code but never   *)
(* set on one, so their branches have no step here.                        *)
(***************************************************************************)
\* mutexThrd is taken; with a task it is released again and the task starts.
WorkerTop(t) ==
  /\ pc[t] = "top"
  /\ mutexThrd[t] = None
  /\ IF currTask[t] # None
     THEN Goto(t, "exec") /\ UNCHANGED mutexThrd
     ELSE Goto(t, "fetch") /\ mutexThrd' = [mutexThrd EXCEPT ![t] = t]
  /\ UNCHANGED <<poolVars, grpVars, condThrd, thrdState, currTask, frame, arg,
                 todo, timedOut, ghosts>>

\* The task returns; mutexThrd is taken and the Work freed.
WorkerFinish(t) ==
  /\ pc[t] = "exec"
  /\ mutexThrd[t] = None
  /\ done' = done \cup {currTask[t]}
  /\ currTask' = [currTask EXCEPT ![t] = None]
  /\ mutexThrd' = [mutexThrd EXCEPT ![t] = t]
  /\ Goto(t, "fetch")
  /\ UNCHANGED <<poolVars, grpVars, condThrd, thrdState, frame, arg, todo,
                 timedOut, tgStatus, tpStatus, awaited>>

\* A worker leaves the loop when nothing is left to fetch and the group is
\* being destroyed.  Variant: without looking at the queue.
SoftKilledAtOnce(g) == "SOFT_KILL" \in flags[g]

SoftKilled(g) == q[g] = <<>> /\ "SOFT_KILL" \in flags[g]

\* Under the thread's own lock the group is locked and a work fetched.
WorkerFetch(t) ==
  LET g == t[1]
  IN  /\ pc[t] = "fetch"
      /\ mutexGrp[g] = None
      /\ q[g] # <<>>
      /\ currTask' = [currTask EXCEPT ![t] = Head(q[g])]
      /\ q' = [q EXCEPT ![g] = Tail(@)]
      /\ mutexThrd' = [mutexThrd EXCEPT ![t] = None]
      /\ Goto(t, "exec")
      /\ UNCHANGED <<poolVars, mutexGrp, flags, capacity, idleThrds,
                     activeThrds, activeLen, thrdMax, numThrds, condThrd,
                     thrdState, frame, arg, todo, timedOut, ghosts>>

WorkerSoftKill(t) ==
  LET g == t[1]
  IN  /\ pc[t] = "fetch"
      /\ mutexGrp[g] = None
      /\ SoftKilled(g)
      /\ mutexThrd' = [mutexThrd EXCEPT ![t] = None]
      /\ Goto(t, "exit")
      /\ UNCHANGED <<poolVars, grpVars, condThrd, thrdState, currTask, frame,
                     arg, todo, timedOut, ghosts>>

\* Nothing to fetch: the thread moves to the idle list.  The last active
\* thread of a group that wait_pool waits for goes on to notify the pool,
\* still holding mutexThrd; any other falls asleep on condThrd.
WorkerIdle(t) ==
  LET g == t[1]
      wait == "GROUP_WAIT" \in flags[g] /\ LastActive(g)
  IN  /\ pc[t] = "fetch"
      /\ mutexGrp[g] = None
      /\ q[g] = <<>>
      /\ "SOFT_KILL" \notin flags[g]
      /\ thrdState[t] = "running"
      /\ thrdState' = [thrdState EXCEPT ![t] = "idle"]
      /\ LeaveActive(g, t)
      /\ idleThrds' = [idleThrds EXCEPT ![g] = Append(@, t)]
      /\ flags' = [flags EXCEPT ![g] =
                     IF wait THEN @ \ {"GROUP_WAIT"} ELSE @]
      /\ IF wait
         THEN Goto(t, "notify") /\ UNCHANGED <<mutexThrd, condThrd>>
         ELSE /\ Goto(t, "idle")
              /\ mutexThrd' = [mutexThrd EXCEPT ![t] = None]
              /\ condThrd' = condThrd \cup {t}
      /\ UNCHANGED <<poolVars, mutexGrp, q, capacity, thrdMax, numThrds,
                     currTask, frame, arg, todo, timedOut, ghosts>>

\* groupsWaiting is decremented; at zero all sleepers on condPool wake.
WorkerNotify(t) ==
  /\ pc[t] = "notify"
  /\ mutexPool = None
  /\ groupsWaiting' = groupsWaiting - 1
  /\ condPool' = IF groupsWaiting = 1 THEN {} ELSE condPool
  /\ Goto(t, "idle")
  /\ mutexThrd' = [mutexThrd EXCEPT ![t] = None]
  /\ condThrd' = condThrd \cup {t}
  /\ UNCHANGED <<mutexPool, poolState, poolFlags, totalThrds, groups,
                 groupsLen, manager, grpVars, thrdState, currTask, frame, arg,
                 todo, timedOut, ghosts>>

\* A woken thread takes mutexThrd back and looks at its state again.
WorkerWake(t) ==
  /\ pc[t] = "idle"
  /\ t \notin condThrd
  /\ mutexThrd[t] = None
  /\ IF StaysAsleep(t)
     THEN condThrd' = condThrd \cup {t} /\ UNCHANGED pc
     ELSE Goto(t, "top") /\ UNCHANGED condThrd
  /\ UNCHANGED <<poolVars, grpVars, mutexThrd, thrdState, currTask, frame, arg,
                 todo, timedOut, ghosts>>

\* internal_destroy_thread.
WorkerExit(t) ==
  LET g == t[1]
  IN  /\ pc[t] = "exit"
      /\ mutexGrp[g] = None
      /\ LeaveActive(g, t)
      /\ Goto(t, "dead")
      /\ UNCHANGED <<poolVars, mutexGrp, flags, q, capacity, idleThrds,
                     thrdMax, numThrds, thrdVars, frame, arg, todo, timedOut,
                     ghosts>>

\* A sleeper on condThrd may return from pthread_cond_wait without a signal.
SpuriousThrd(t) ==
  /\ t \in condThrd
  /\ condThrd' = condThrd \ {t}
  /\ UNCHANGED <<poolVars, grpVars, mutexThrd, thrdState, currTask, pc, frame,
                 arg, todo, timedOut, ghosts>>

-----------------------------------------------------------------------------
(***************************************************************************)
(* manager_thread_function.                                                *)
(***************************************************************************)
MgrMustSleep(m) ==
  \/ ~(timedOut[m] \/ poolState = "running")
  \/ "POOL_WAITING" \in poolFlags

\* The manager, awake, has mutexPool: the loop condition sends it (back) to
\* pthread_cond_timedwait.
MgrSleep(m) ==
  /\ pc[m] = "m_check"
  /\ m \notin condPool
  /\ mutexPool = None
  /\ MgrMustSleep(m)
  /\ condPool' = condPool \cup {m}
  /\ timedOut' = [timedOut EXCEPT ![m] = FALSE]
  /\ UNCHANGED <<mutexPool, poolState, poolFlags, totalThrds, groups,
                 groupsLen, groupsWaiting, manager, grpVars, thrdVars, pc,
                 frame, arg, todo, ghosts>>

\* The five seconds are over.  Variant: pthread_cond_wait, with no timeout.
MgrNoTimeout(m) == FALSE

MgrTimeout(m) ==
  /\ m \in condPool
  /\ condPool' = condPool \ {m}
  /\ timedOut' = [timedOut EXCEPT ![m] = TRUE]
  /\ UNCHANGED <<mutexPool, poolState, poolFlags, totalThrds, groups,
                 groupsLen, groupsWaiting, manager, grpVars, thrdVars, pc,
                 frame, arg, todo, ghosts>>

\* Out of the wait loop with HARD_KILL set.
MgrQuit(m) ==
  /\ pc[m] = "m_check"
  /\ m \notin condPool
  /\ mutexPool = None
  /\ ~MgrMustSleep(m)
  /\ "HARD_KILL" \in poolFlags
  /\ Goto(m, "m_done")
  /\ UNCHANGED <<poolVars, grpVars, thrdVars, frame, arg, todo, timedOut,
                 ghosts>>

\* Out of the wait loop: the groups are visited under mutexPool.
MgrBegin(m) ==
  /\ pc[m] = "m_check"
  /\ m \notin condPool
  /\ mutexPool = None
  /\ ~MgrMustSleep(m)
  /\ "HARD_KILL" \notin poolFlags
  /\ mutexPool' = m
  /\ todo' = [todo EXCEPT ![m] = groups]
  /\ Goto(m, "m_scan")
  /\ UNCHANGED <<condPool, poolState, poolFlags, totalThrds, groups, groupsLen,
                 groupsWaiting, manager, grpVars, thrdVars, frame, arg,
                 timedOut, ghosts>>

\* One group: its health decides how many threads are added, each starting
\* with a work from the queue while there is one.
MgrGroup(m) ==
  LET g == Head(todo[m])
      n == addThrds(g)
      taken == IF n < Len(q[g]) THEN n ELSE Len(q[g])
  IN  /\ pc[m] = "m_scan"
      /\ todo[m] # <<>>
      /\ mutexGrp[g] = None
      /\ CreateThreads(g, n, numThrds[g], SubSeq(q[g], 1, taken))
      /\ pc' = StartThreads(pc, g, n, numThrds[g])
      /\ q' = [q EXCEPT ![g] = SubSeq(@, taken + 1, Len(@))]
      /\ todo' = [todo EXCEPT ![m] = Tail(@)]
      /\ UNCHANGED <<poolVars, mutexGrp, flags, capacity, idleThrds, thrdMax,
                     mutexThrd, condThrd, frame, arg, timedOut, ghosts>>

MgrEnd(m) ==
  /\ pc[m] = "m_scan"
  /\ todo[m] = <<>>
  /\ poolState' = "idle"
  /\ mutexPool' = None
  /\ timedOut' = [timedOut EXCEPT ![m] = FALSE]
  /\ Goto(m, "m_check")
  /\ UNCHANGED <<condPool, poolFlags, totalThrds, groups, groupsLen,
                 groupsWaiting, manager, grpVars, thrdVars, frame, arg, todo,
                 ghosts>>

\* A sleeper on condPool may return from its wait without a signal.
SpuriousPool(p) ==
  /\ p \in condPool
  /\ condPool' = condPool \ {p}
  /\ UNCHANGED <<mutexPool, poolState, poolFlags, totalThrds, groups,
                 groupsLen, groupsWaiting, manager, grpVars, thrdVars, pc,
                 frame, arg, todo, timedOut, ghosts>>

-----------------------------------------------------------------------------
(***************************************************************************)
(* wait_pool and internal_wait_helper.                                     *)
(***************************************************************************)
CallWaitPool(c) ==
  /\ MayCall(c, "wait_pool")
  /\ mutexPool = None
  /\ mutexPool' = c
  /\ groupsWaiting' = groupsLen
  /\ todo' = [todo EXCEPT ![c] = groups]
  /\ awaited' = [awaited EXCEPT ![c] = {}]
  /\ Goto(c, "wp_scan")
  /\ UNCHANGED <<condPool, poolState, poolFlags, totalThrds, groups, groupsLen,
                 manager, grpVars, thrdVars, frame, arg, timedOut, tgStatus,
                 tpStatus, done>>

\* A group whose queue is not empty is flagged.  Variant: any group is.
internal_wait_helper_any(g) ==
  flags' = [flags EXCEPT ![g] = @ \cup {"GROUP_WAIT"}]

internal_wait_helper(g) ==
  flags' = [flags EXCEPT ![g] =
              IF q[g] = <<>> THEN @ ELSE @ \cup {"GROUP_WAIT"}]

\* One group: with an empty queue it is not waited for.
WaitPoolGroup(c) ==
  LET g == Head(todo[c])
  IN  /\ pc[c] = "wp_scan"
      /\ todo[c] # <<>>
      /\ mutexGrp[g] = None
      /\ todo' = [todo EXCEPT ![c] = Tail(@)]
      /\ internal_wait_helper(g)
      /\ groupsWaiting' = IF q[g] = <<>> THEN groupsWaiting - 1
                                         ELSE groupsWaiting
      /\ awaited' = [awaited EXCEPT ![c] =
                       @ \cup {q[g][i] : i \in 1..Len(q[g])}]
      /\ UNCHANGED <<mutexPool, condPool, poolState, poolFlags, totalThrds,
                     groups, groupsLen, manager, mutexGrp, q, capacity,
                     idleThrds, activeThrds, activeLen, thrdMax, numThrds,
                     thrdVars, pc, frame, arg, timedOut, tgStatus, tpStatus,
                     done>>

\* All groups visited: POOL_WAITING is set and the first test of the wait
\* loop is made.
WaitPoolEnter(c) ==
  /\ pc[c] = "wp_scan"
  /\ todo[c] = <<>>
  /\ mutexPool' = None
  /\ IF groupsWaiting > 0
     THEN /\ poolFlags' = poolFlags \cup {"POOL_WAITING"}
          /\ condPool' = condPool \cup {c}
          /\ Goto(c, "wp_wait")
     ELSE /\ poolFlags' = poolFlags \ {"POOL_WAITING"}
          /\ Goto(c, "ready")
          /\ UNCHANGED condPool
  /\ UNCHANGED <<poolState, totalThrds, groups, groupsLen, groupsWaiting,
                 manager, grpVars, thrdVars, frame, arg, todo, timedOut,
                 ghosts>>

\* The waiter, awake, has mutexPool again and tests groupsWaiting.
WaitPoolWake(c) ==
  /\ pc[c] = "wp_wait"
  /\ c \notin condPool
  /\ mutexPool = None
  /\ IF groupsWaiting > 0
     THEN condPool' = condPool \cup {c} /\ UNCHANGED <<poolFlags, pc>>
     ELSE /\ poolFlags' = poolFlags \ {"POOL_WAITING"}
          /\ Goto(c, "ready")
          /\ UNCHANGED condPool
  /\ UNCHANGED <<mutexPool, poolState, totalThrds, groups, groupsLen,
                 groupsWaiting, manager, grpVars, thrdVars, frame, arg, todo,
                 timedOut, ghosts>>

-----------------------------------------------------------------------------
(***************************************************************************)
(* destroy_group, destroy_pool and internal_destroy_group.                 *)
(***************************************************************************)
\* The caller gives its handle up: no other client is using the group.
CallDestroyGroup(c, g) ==
  /\ MayCall(c, "destroy_group")
  /\ tgStatus[g] = "live"
  /\ \A d \in Clients : frame[d].grp # g
  /\ tgStatus' = [tgStatus EXCEPT ![g] = "doomed"]
  /\ frame' = [frame EXCEPT ![c] = [NoFrame EXCEPT !.call = "destroy_group",
                                                   !.grp = g]]
  /\ Goto(c, "dg_unlink")
  /\ UNCHANGED <<poolVars, grpVars, thrdVars, arg, todo, timedOut, tpStatus,
                 done, awaited>>

\* item_remove, which leaves groups.len as it is.
\* Variant: mutexPool is kept, the way destroy_pool keeps it.
DestroyGroupUnlinkHolding(c) ==
  /\ pc[c] = "dg_unlink"
  /\ mutexPool = None
  /\ mutexPool' = c
  /\ groups' = Unlink(groups, frame[c].grp)
  /\ Goto(c, "dg_close")
  /\ UNCHANGED <<condPool, poolState, poolFlags, totalThrds, groupsLen,
                 groupsWaiting, manager, grpVars, thrdVars, frame, arg, todo,
                 timedOut, ghosts>>

DestroyGroupUnlink(c) ==
  /\ pc[c] = "dg_unlink"
  /\ mutexPool = None
  /\ groups' = Unlink(groups, frame[c].grp)
  /\ Goto(c, "dg_close")
  /\ UNCHANGED <<mutexPool, condPool, poolState, poolFlags, totalThrds,
                 groupsLen, groupsWaiting, manager, grpVars, thrdVars, frame,
                 arg, todo, timedOut, ghosts>>

\* internal_destroy_group: mutexGrp is held from here ...
CloseGroup(c) ==
  LET g == frame[c].grp
  IN  /\ pc[c] = "dg_close"
      /\ mutexGrp[g] = None
      /\ mutexGrp' = [mutexGrp EXCEPT ![g] = c]
      /\ flags' = [flags EXCEPT ![g] = @ \cup {"GROUP_CLOSE", "SOFT_KILL"}]
      /\ Goto(c, "dg_wake")
      /\ UNCHANGED <<poolVars, q, capacity, idleThrds, activeThrds, activeLen,
                     thrdMax, numThrds, thrdVars, frame, arg, todo, timedOut,
                     ghosts>>

\* ... while each idle thread is moved to the active list and woken ...
CloseWakeIdle(c) ==
  LET g == frame[c].grp
      t == Head(idleThrds[g])
  IN  /\ pc[c] = "dg_wake"
      /\ idleThrds[g] # <<>>
      /\ mutexThrd[t] = None
      /\ idleThrds' = [idleThrds EXCEPT ![g] = Tail(@)]
      /\ EnterActive(g, t)
      /\ thrdState' = [thrdState EXCEPT ![t] = "running"]
      /\ SignalThrd(t)
      /\ UNCHANGED <<poolVars, mutexGrp, flags, q, capacity, thrdMax, numThrds,
                     mutexThrd, currTask, pc, frame, arg, todo, timedOut,
                     ghosts>>

\* ... to here.
CloseUnlock(c) ==
  LET g == frame[c].grp
  IN  /\ pc[c] = "dg_wake"
      /\ idleThrds[g] = <<>>
      /\ mutexGrp' = [mutexGrp EXCEPT ![g] = None]
      /\ Goto(c, "dg_join")
      /\ UNCHANGED <<poolVars, flags, q, capacity, idleThrds, activeThrds,
                     activeLen, thrdMax, numThrds, thrdVars, frame, arg, todo,
                     timedOut, ghosts>>

\* The joins of internal_destroy_group.  Variant: one thread too few.
AllJoinedButLast(g) == \A i \in 1..(numThrds[g] - 1) : pc[<<g, i>>] = "dead"

AllJoined(g) == \A i \in 1..numThrds[g] : pc[<<g, i>>] = "dead"

\* All threads joined.  destroy_group still has to correct the pool's counts.
DestroyGroupJoin(c) ==
  /\ pc[c] = "dg_join"
  /\ frame[c].call = "destroy_group"
  /\ AllJoined(frame[c].grp)
  /\ Goto(c, "dg_finish")
  /\ UNCHANGED <<poolVars, grpVars, thrdVars, frame, arg, todo, timedOut,
                 ghosts>>

DestroyGroupFinish(c) ==
  LET g == frame[c].grp
  IN  /\ pc[c] = "dg_finish"
      /\ mutexPool = None
      /\ groupsLen' = groupsLen - 1
      /\ totalThrds' = (totalThrds - thrdMax[g]) % UIntMod
      /\ tgStatus' = [tgStatus EXCEPT ![g] = "freed"]
      /\ Return(c)
      /\ UNCHANGED <<mutexPool, condPool, poolState, poolFlags, groups,
                     groupsWaiting, manager, grpVars, thrdVars, arg, todo,
                     timedOut, tpStatus, done, awaited>>

\* The caller gives the pool up: no other client is inside a call.
CallDestroyPool(c) ==
  /\ MayCall(c, "destroy_pool")
  /\ \A d \in Clients : pc[d] = "ready"
  /\ tpStatus' = "doomed"
  /\ tgStatus' = [g \in Groups |->
                    IF tgStatus[g] = "live" THEN "doomed" ELSE tgStatus[g]]
  /\ frame' = [frame EXCEPT ![c].call = "destroy_pool"]
  /\ Goto(c, "dp_lock")
  /\ UNCHANGED <<poolVars, grpVars, thrdVars, arg, todo, timedOut, done,
                 awaited>>

\* The manager, if one was started, is told to die.  Variant: the wrong flag.
KillFlagSoft == "SOFT_KILL"

KillFlag == "HARD_KILL"

DestroyPoolKill(c) ==
  /\ pc[c] = "dp_lock"
  /\ mutexPool = None
  /\ poolState # "dead"
  /\ poolFlags' = poolFlags \cup {KillFlag}
  /\ poolState' = "running"
  /\ SignalPool
  /\ Goto(c, "dp_join")
  /\ UNCHANGED <<mutexPool, totalThrds, groups, groupsLen, groupsWaiting,
                 manager, grpVars, thrdVars, frame, arg, todo, timedOut,
                 ghosts>>

\* mutexPool is taken, after the join when there was a manager, and held
\* until the pool is freed.
DestroyPoolLock(c) ==
  /\ \/ pc[c] = "dp_lock" /\ poolState = "dead"
     \/ pc[c] = "dp_join" /\ pc[manager] = "m_done"
  /\ mutexPool = None
  /\ mutexPool' = c
  /\ Goto(c, "dp_pop")
  /\ UNCHANGED <<condPool, poolState, poolFlags, totalThrds, groups, groupsLen,
                 groupsWaiting, manager, grpVars, thrdVars, frame, arg, todo,
                 timedOut, ghosts>>

DestroyPoolPop(c) ==
  /\ pc[c] = "dp_pop"
  /\ groupsLen # 0
  /\ groups # <<>>
  /\ groups' = Tail(groups)
  /\ groupsLen' = groupsLen - 1
  /\ frame' = [frame EXCEPT ![c].grp = Head(groups)]
  /\ Goto(c, "dg_close")
  /\ UNCHANGED <<mutexPool, condPool, poolState, poolFlags, totalThrds,
                 groupsWaiting, manager, grpVars, thrdVars, arg, todo,
                 timedOut, ghosts>>

DestroyPoolJoin(c) ==
  LET g == frame[c].grp
  IN  /\ pc[c] = "dg_join"
      /\ frame[c].call = "destroy_pool"
      /\ AllJoined(g)
      /\ totalThrds' = (totalThrds - thrdMax[g]) % UIntMod
      /\ tgStatus' = [tgStatus EXCEPT ![g] = "freed"]
      /\ frame' = [frame EXCEPT ![c].grp = None]
      /\ Goto(c, "dp_pop")
      /\ UNCHANGED <<mutexPool, condPool, poolState, poolFlags, groups,
                     groupsLen, groupsWaiting, manager, grpVars, thrdVars, arg,
                     todo, timedOut, tpStatus, done, awaited>>

DestroyPoolFree(c) ==
  /\ pc[c] = "dp_pop"
  /\ groupsLen = 0
  /\ mutexPool' = None
  /\ tpStatus' = "freed"
  /\ Return(c)
  /\ UNCHANGED <<condPool, poolState, poolFlags, totalThrds, groups, groupsLen,
                 groupsWaiting, manager, grpVars, thrdVars, arg, todo,
                 timedOut, tgStatus, done, awaited>>

-----------------------------------------------------------------------------
(***************************************************************************)
(* The specification.                                                      *)
(***************************************************************************)
\* The steps inside a call.
AddGroup(c) == AddGroupCheck(c) \/ AddGroupBuild(c) \/ AddGroupPublish(c)

DoWork(p) ==
  \/ DoWorkClosed(p) \/ DoWorkQueue(p) \/ DoWorkPopIdle(p)
  \/ DoWorkHand(p) \/ DoWorkSignal(p)

WaitPool(c) == WaitPoolGroup(c) \/ WaitPoolEnter(c) \/ WaitPoolWake(c)

DestroyGroup(c) ==
  \/ DestroyGroupUnlink(c) \/ CloseGroup(c) \/ CloseWakeIdle(c)
  \/ CloseUnlock(c) \/ DestroyGroupJoin(c) \/ DestroyGroupFinish(c)

DestroyPool(c) ==
  \/ DestroyPoolKill(c) \/ DestroyPoolLock(c) \/ DestroyPoolPop(c)
  \/ DestroyPoolJoin(c) \/ DestroyPoolFree(c)

Client(c) ==
  \/ \E g \in Groups, a \in GroupArgs : CallAddGroup(c, g, a)
  \/ \E g \in Groups, w \in Works : CallDoWork(c, g, w)
  \/ \E g \in Groups : CallDestroyGroup(c, g)
  \/ CallWaitPool(c)
  \/ CallDestroyPool(c)

ClientStep(c) ==
  AddGroup(c) \/ DoWork(c) \/ WaitPool(c) \/ DestroyGroup(c) \/ DestroyPool(c)

WorkerStep(t) ==
  \/ WorkerTop(t) \/ WorkerFinish(t) \/ WorkerFetch(t) \/ WorkerSoftKill(t)
  \/ WorkerIdle(t) \/ WorkerNotify(t) \/ WorkerWake(t) \/ WorkerExit(t)
  \/ DoWork(t)

ManagerStep(m) ==
  MgrSleep(m) \/ MgrQuit(m) \/ MgrBegin(m) \/ MgrGroup(m) \/ MgrEnd(m)

\* The pool is gone and nothing is left to do.
Terminated == tpStatus = "freed" /\ UNCHANGED vars

Next ==
  \/ \E c \in Clients : Client(c) \/ ClientStep(c)
  \/ \E t \in Threads : \/ WorkerStep(t)
                        \/ SpuriousThrd(t)
                        \/ \E w \in Works : CallDoWork(t, t[1], w)
  \/ \E m \in Managers : ManagerStep(m) \/ MgrTimeout(m)
  \/ \E p \in Clients \cup Managers : SpuriousPool(p)
  \/ Terminated

Spec == Init /\ [][Next]_vars

=============================================================================
