--------------------------- MODULE PoolTypeProofs ---------------------------
(***************************************************************************)
(* Type correctness of the pool, for any number of clients, groups,        *)
(* threads and works: the steps of the workers and the managers keep the   *)
(* inductive invariant too, so every step does.                            *)
(***************************************************************************)
EXTENDS PoolCallProofs

\* The worker keeps the invariant at the top of its loop.
LEMMA WorkerTopStep ==
  ASSUME IInv, NEW t \in Threads, WorkerTop(t)
  PROVE  IInv'
<1> USE DEF IInv, TypeOK, ControlInv
<1>1. PoolTypes' /\ GrpTypes' /\ BudgetInv' /\ LocalTypes' /\ GhostTypes'
  BY PoolSame, GrpSame, LocalSame, GhostSame DEF WorkerTop
<1>2. ThrdTypes'
  BY DEF ThrdTypes, WorkerTop
<1>3. ControlInv'
  <2>1. \E l \in {"exec", "fetch"} : Keeps(t, l)
    BY ProcsAssumption DEF Keeps, WorkerTop, Goto, ThreadLabels, GrpLabels,
       thrdVars, ExecStates, ThrdTypes
  <2>2. QED
    BY <2>1, CallerKeeps DEF Callers
<1>4. QED
  BY <1>1, <1>2, <1>3

\* So does the end of a task.
LEMMA WorkerFinishStep ==
  ASSUME IInv, NEW t \in Threads, WorkerFinish(t)
  PROVE  IInv'
<1> USE DEF IInv, TypeOK, ControlInv
<1>1. PoolTypes' /\ GrpTypes' /\ BudgetInv' /\ LocalTypes'
  BY PoolSame, GrpSame, LocalSame DEF WorkerFinish
<1>2. ThrdTypes'
  BY DEF ThrdTypes, WorkerFinish
<1>3. GhostTypes'
  BY DEF GhostTypes, WorkerFinish, TaskInv, ExecStates
<1>4. ControlInv'
  <2>1. Moves(t, "fetch")
    BY ProcsAssumption DEF Moves, WorkerFinish, Goto, ThreadLabels,
       GrpLabels, thrdVars, ExecStates, ThrdTypes
  <2>2. QED
    BY <2>1, CallerMoves DEF Callers
<1>5. QED
  BY <1>1, <1>2, <1>3, <1>4

\* So does the fetch of the next work.
LEMMA WorkerFetchStep ==
  ASSUME IInv, NEW t \in Threads, WorkerFetch(t)
  PROVE  IInv'
<1> USE DEF IInv, TypeOK, ControlInv
<1>1. PoolTypes' /\ LocalTypes' /\ GhostTypes'
  BY PoolSame, LocalSame, GhostSame DEF WorkerFetch
<1>2. GrpTypes'
  <2>1. t[1] \in Groups
    BY ThreadGroup
  <2>2. Tail(q[t[1]]) \in Seq(Works)
    BY <2>1 DEF GrpTypes, WorkerFetch
  <2>3. q' \in [Groups -> Seq(Works)]
    BY <2>1, <2>2 DEF GrpTypes, WorkerFetch
  <2>4. QED
    BY <2>3 DEF GrpTypes, WorkerFetch
<1>3. BudgetInv'
  BY DEF BudgetInv, WorkerFetch
<1>4. ThrdTypes'
  BY ThreadGroup DEF ThrdTypes, WorkerFetch, GrpTypes
<1>5. ControlInv'
  <2>1. Head(q[t[1]]) \in Works
    BY ThreadGroup DEF WorkerFetch, GrpTypes
  <2>2. Moves(t, "exec")
    BY <2>1, ProcsAssumption DEF Moves, WorkerFetch, Goto, ThrdTypes,
       ThreadLabels, GrpLabels
  <2>3. QED
    BY <2>2, CallerMoves DEF Callers
<1>6. QED
  BY <1>1, <1>2, <1>3, <1>4, <1>5

\* So does the exit of the loop on SOFT_KILL.
LEMMA WorkerSoftKillStep ==
  ASSUME IInv, NEW t \in Threads, WorkerSoftKill(t)
  PROVE  IInv'
<1> USE DEF IInv, TypeOK, ControlInv
<1>1. PoolTypes' /\ GrpTypes' /\ BudgetInv' /\ LocalTypes' /\ GhostTypes'
  BY PoolSame, GrpSame, LocalSame, GhostSame DEF WorkerSoftKill
<1>2. ThrdTypes'
  BY DEF ThrdTypes, WorkerSoftKill
<1>3. ControlInv'
  <2>1. Keeps(t, "exit")
    BY ProcsAssumption DEF Keeps, WorkerSoftKill, Goto, ThreadLabels,
       GrpLabels, thrdVars, ExecStates
  <2>2. QED
    BY <2>1, CallerKeeps DEF Callers
<1>4. QED
  BY <1>1, <1>2, <1>3

\* So does the move to the idle list.
LEMMA WorkerIdleStep ==
  ASSUME IInv, NEW t \in Threads, WorkerIdle(t)
  PROVE  IInv'
<1> USE DEF IInv, TypeOK, ControlInv
<1>1. PoolTypes' /\ LocalTypes' /\ GhostTypes'
  BY PoolSame, LocalSame, GhostSame DEF WorkerIdle
<1>2. GrpTypes'
  <2> DEFINE g == t[1]
  <2>1. g \in Groups
    BY ThreadGroup
  <2>2. /\ LeaveActive(g, t)
        /\ idleThrds' = [idleThrds EXCEPT ![g] = Append(idleThrds[g], t)]
        /\ \E f \in {flags[g], flags[g] \ {"GROUP_WAIT"}} :
             flags' = [flags EXCEPT ![g] = f]
        /\ UNCHANGED <<mutexGrp, q, capacity, thrdMax, numThrds>>
    BY Zenon DEF WorkerIdle
  <2> HIDE DEF g
  <2>3. flags' \in [Groups -> SUBSET GroupFlags]
    BY <2>1, <2>2 DEF GrpTypes
  <2>4. idleThrds' \in [Groups -> Seq(Threads)]
    BY <2>1, <2>2 DEF GrpTypes
  <2>5. /\ activeThrds' \in [Groups -> SUBSET Threads]
        /\ activeLen' \in [Groups -> Int]
    BY <2>1, <2>2 DEF GrpTypes, LeaveActive
  <2>6. QED
    BY <2>2, <2>3, <2>4, <2>5 DEF GrpTypes
<1>3. BudgetInv'
  BY DEF BudgetInv, WorkerIdle
<1>4. ThrdTypes'
  BY DEF ThrdTypes, WorkerIdle
<1>5. ControlInv'
  <2>1. \E l \in {"notify", "idle"} : Keeps(t, l)
    BY ProcsAssumption DEF Keeps, WorkerIdle, Goto, ThreadLabels, GrpLabels,
       thrdVars, ExecStates
  <2>2. QED
    BY <2>1, CallerKeeps DEF Callers
<1>6. QED
  BY <1>1, <1>2, <1>3, <1>4, <1>5

\* So does the report to the waiters.
LEMMA WorkerNotifyStep ==
  ASSUME IInv, NEW t \in Threads, WorkerNotify(t)
  PROVE  IInv'
<1> USE DEF IInv, TypeOK, ControlInv
<1>1. GrpTypes' /\ BudgetInv' /\ LocalTypes' /\ GhostTypes'
  BY GrpSame, LocalSame, GhostSame DEF WorkerNotify
<1>2. PoolTypes'
  BY ProcsAssumption DEF PoolTypes, Procs, Callers, WorkerNotify
<1>3. ThrdTypes'
  BY DEF ThrdTypes, WorkerNotify
<1>4. ControlInv'
  <2>1. Keeps(t, "idle")
    BY ProcsAssumption DEF Keeps, WorkerNotify, Goto, ThreadLabels,
       GrpLabels, thrdVars, ExecStates
  <2>2. QED
    BY <2>1, CallerKeeps DEF Callers
<1>5. QED
  BY <1>1, <1>2, <1>3, <1>4

\* So does the wake-up with a task.
LEMMA WorkerWakeStep ==
  ASSUME IInv, NEW t \in Threads, WorkerWake(t)
  PROVE  IInv'
<1> USE DEF IInv, TypeOK, ControlInv
<1>1. PoolTypes' /\ GrpTypes' /\ BudgetInv' /\ LocalTypes' /\ GhostTypes'
  BY PoolSame, GrpSame, LocalSame, GhostSame DEF WorkerWake
<1>2. ThrdTypes'
  BY DEF ThrdTypes, WorkerWake
<1>3. ControlInv'
  <2>1. CASE UNCHANGED pc
    BY <2>1, NobodyMoves DEF WorkerWake, thrdVars
  <2>2. CASE ~UNCHANGED pc
    <3>1. Keeps(t, "top")
      BY <2>2, ProcsAssumption DEF Keeps, WorkerWake, Goto, ThreadLabels,
         GrpLabels, ExecStates, thrdVars
    <3>2. QED
      BY <3>1, CallerKeeps DEF Callers
  <2>3. QED
    BY <2>1, <2>2
<1>4. QED
  BY <1>1, <1>2, <1>3

\* So does the end of the thread.
LEMMA WorkerExitStep ==
  ASSUME IInv, NEW t \in Threads, WorkerExit(t)
  PROVE  IInv'
<1> USE DEF IInv, TypeOK, ControlInv
<1>1. PoolTypes' /\ ThrdTypes' /\ LocalTypes' /\ GhostTypes'
  BY PoolSame, ThrdSame, LocalSame, GhostSame DEF WorkerExit
<1>2. GrpTypes'
  <2>1. LeaveActive(t[1], t)
    BY DEF WorkerExit
  <2>2. /\ activeThrds' \in [Groups -> SUBSET Threads]
        /\ activeLen' \in [Groups -> Int]
    BY <2>1, ThreadGroup DEF GrpTypes, LeaveActive
  <2>3. QED
    BY <2>2 DEF GrpTypes, WorkerExit
<1>3. BudgetInv'
  BY DEF BudgetInv, WorkerExit
<1>4. ControlInv'
  <2>1. Keeps(t, "dead")
    BY ProcsAssumption DEF Keeps, WorkerExit, Goto, ThreadLabels, GrpLabels,
       thrdVars, ExecStates
  <2>2. QED
    BY <2>1, CallerKeeps DEF Callers
<1>5. QED
  BY <1>1, <1>2, <1>3, <1>4

\* So does a spurious wake-up of a worker.
LEMMA SpuriousThrdStep ==
  ASSUME IInv, NEW t \in Threads, SpuriousThrd(t)
  PROVE  IInv'
<1> USE DEF IInv, TypeOK, ControlInv
<1>1. PoolTypes' /\ GrpTypes' /\ BudgetInv' /\ LocalTypes' /\ GhostTypes'
  BY PoolSame, GrpSame, LocalSame, GhostSame DEF SpuriousThrd
<1>2. ThrdTypes'
  BY DEF ThrdTypes, SpuriousThrd
<1>3. ControlInv'
  BY NobodyMoves DEF SpuriousThrd
<1>4. QED
  BY <1>1, <1>2, <1>3

\* The manager keeps the invariant when it goes to sleep.
LEMMA MgrSleepStep ==
  ASSUME IInv, NEW m \in Managers, MgrSleep(m)
  PROVE  IInv'
<1> USE DEF IInv, TypeOK, ControlInv
<1>1. GrpTypes' /\ BudgetInv' /\ ThrdTypes' /\ GhostTypes'
  BY GrpSame, ThrdSame, GhostSame DEF MgrSleep
<1>2. PoolTypes'
  BY ProcsAssumption DEF PoolTypes, Procs, Callers, MgrSleep
<1>3. LocalTypes'
  BY DEF LocalTypes, Callers, MgrSleep
<1>4. ControlInv'
  BY NobodyMoves DEF MgrSleep, thrdVars
<1>5. QED
  BY <1>1, <1>2, <1>3, <1>4

\* So does the expiry of its timed wait.
LEMMA MgrTimeoutStep ==
  ASSUME IInv, NEW m \in Managers, MgrTimeout(m)
  PROVE  IInv'
<1> USE DEF IInv, TypeOK, ControlInv
<1>1. GrpTypes' /\ BudgetInv' /\ ThrdTypes' /\ GhostTypes'
  BY GrpSame, ThrdSame, GhostSame DEF MgrTimeout
<1>2. PoolTypes'
  BY ProcsAssumption DEF PoolTypes, Procs, Callers, MgrTimeout
<1>3. LocalTypes'
  BY DEF LocalTypes, Callers, MgrTimeout
<1>4. ControlInv'
  BY NobodyMoves DEF MgrTimeout, thrdVars
<1>5. QED
  BY <1>1, <1>2, <1>3, <1>4

\* So does its exit on the kill flag.
LEMMA MgrQuitStep ==
  ASSUME IInv, NEW m \in Managers, MgrQuit(m)
  PROVE  IInv'
<1> USE DEF IInv, TypeOK, ControlInv
<1>1. PoolTypes' /\ GrpTypes' /\ BudgetInv' /\ ThrdTypes' /\ LocalTypes' /\
     GhostTypes'
  BY PoolSame, GrpSame, ThrdSame, LocalSame, GhostSame DEF MgrQuit
<1>2. ControlInv'
  BY Zenon, ManagerMoves DEF MgrQuit, Goto, ManagerLabels, thrdVars
<1>3. QED
  BY <1>1, <1>2

\* So does the start of a round over the groups.
LEMMA MgrBeginStep ==
  ASSUME IInv, NEW m \in Managers, MgrBegin(m)
  PROVE  IInv'
<1> USE DEF IInv, TypeOK, ControlInv
<1>1. GrpTypes' /\ BudgetInv' /\ ThrdTypes' /\ GhostTypes'
  BY GrpSame, ThrdSame, GhostSame DEF MgrBegin
<1>2. PoolTypes'
  BY ProcsAssumption DEF PoolTypes, Procs, Callers, MgrBegin
<1>3. LocalTypes'
  BY DEF LocalTypes, Callers, MgrBegin, PoolTypes
<1>4. ControlInv'
  BY Zenon, ManagerMoves DEF MgrBegin, Goto, ManagerLabels, thrdVars
<1>5. QED
  BY <1>1, <1>2, <1>3, <1>4

\* So does the end of a round.
LEMMA MgrEndStep ==
  ASSUME IInv, NEW m \in Managers, MgrEnd(m)
  PROVE  IInv'
<1> USE DEF IInv, TypeOK, ControlInv
<1>1. GrpTypes' /\ BudgetInv' /\ ThrdTypes' /\ GhostTypes'
  BY GrpSame, ThrdSame, GhostSame DEF MgrEnd
<1>2. PoolTypes'
  BY ProcsAssumption DEF PoolTypes, Procs, Callers, MgrEnd
<1>3. LocalTypes'
  BY DEF LocalTypes, Callers, MgrEnd
<1>4. ControlInv'
  BY Zenon, ManagerMoves DEF MgrEnd, Goto, ManagerLabels, thrdVars
<1>5. QED
  BY <1>1, <1>2, <1>3, <1>4

\* So does a spurious wake-up on the pool's condition.
LEMMA SpuriousPoolStep ==
  ASSUME IInv, NEW p \in Clients \cup Managers, SpuriousPool(p)
  PROVE  IInv'
<1> USE DEF IInv, TypeOK, ControlInv
<1>1. GrpTypes' /\ BudgetInv' /\ ThrdTypes' /\ LocalTypes' /\ GhostTypes'
  BY GrpSame, ThrdSame, LocalSame, GhostSame DEF SpuriousPool
<1>2. PoolTypes'
  BY ProcsAssumption DEF PoolTypes, Procs, Callers, SpuriousPool
<1>3. ControlInv'
  BY NobodyMoves DEF SpuriousPool, thrdVars
<1>4. QED
  BY <1>1, <1>2, <1>3

\* So does the growth of one group: the new threads fit in its array.
LEMMA MgrGroupStep ==
  ASSUME IInv, NEW m \in Managers, MgrGroup(m)
  PROVE  IInv'
<1> USE DEF IInv, TypeOK
<1> DEFINE g == Head(todo[m])
           n == addThrds(g)
           taken == IF n < Len(q[g]) THEN n ELSE Len(q[g])
           ts == SubSeq(q[g], 1, taken)
           rest == SubSeq(q[g], taken + 1, Len(q[g]))
           base == numThrds[g]
           started == StartThreads(pc, g, n, base)
<1>1. g \in Groups /\ Tail(todo[m]) \in Seq(Groups)
  <2>1. todo[m] \in Seq(Groups)
    BY SMTT(30) DEF LocalTypes
  <2>2. todo[m] # <<>>
    BY Zenon DEF MgrGroup
  <2>3. QED
    BY <2>1, <2>2
<1>2. /\ n \in Nat /\ base \in Nat
      /\ base + n <= thrdMax[g] /\ thrdMax[g] <= ThrdBound
  <2> HIDE DEF g
  <2>1. n \in Nat /\ base + n <= thrdMax[g]
    BY <1>1, AddThrdsFits
  <2>2. base \in 0..ThrdBound /\ thrdMax[g] \in 0..ThrdBound
    BY <1>1 DEF GrpTypes
  <2>3. QED
    BY <2>1, <2>2, PoolAssumption
<1>3. /\ CreateThreads(g, n, base, ts)
      /\ pc' = started
      /\ q' = [q EXCEPT ![g] = rest]
      /\ todo' = [todo EXCEPT ![m] = Tail(todo[m])]
  BY Zenon DEF MgrGroup
<1>4. q[g] \in Seq(Works)
  BY <1>1 DEF GrpTypes
<1> HIDE DEF n, base
<1>5. ts \in Seq(Works) /\ rest \in Seq(Works)
  BY <1>2, <1>4
<1> HIDE DEF g, ts, rest
<1>6. /\ thrdState' \in [Threads -> {"running", "idle"}]
      /\ currTask' \in [Threads -> Works \cup {None}]
      /\ activeThrds' \in [Groups -> SUBSET Threads]
      /\ activeLen' \in [Groups -> Int]
      /\ numThrds' = [numThrds EXCEPT ![g] = base + n]
  <2>1. base + n <= ThrdBound
    BY <1>1, <1>2, PoolAssumption DEF GrpTypes
  <2>2. QED
    BY <1>1, <1>2, <1>3, <1>5, <2>1, CreateThreadsTypes
<1>7. /\ started \in [Procs -> ClientLabels \cup ThreadLabels \cup ManagerLabels]
      /\ \A p \in Procs : \/ started[p] = pc[p]
                          \/ started[p] = "top" /\ p \in Threads
  <2>1. base + n <= ThrdBound
    BY <1>1, <1>2, PoolAssumption DEF GrpTypes
  <2>2. QED
    BY SMTT(30), <1>1, <1>2, <2>1, StartThreadsTypes
<1> HIDE DEF started
<1>8. PoolTypes' /\ GhostTypes'
  BY DEF PoolTypes, GhostTypes, MgrGroup, poolVars, ghosts
<1>9. GrpTypes'
  <2>0. base + n \in 0..ThrdBound
    BY <1>1, <1>2, PoolAssumption DEF GrpTypes
  <2>1. numThrds' \in [Groups -> 0..ThrdBound]
    BY <1>1, <1>6, <2>0 DEF GrpTypes
  <2>2. q' \in [Groups -> Seq(Works)]
    BY SMTT(30), <1>1, <1>3, <1>5 DEF GrpTypes
  <2>3. UNCHANGED <<mutexGrp, flags, capacity, idleThrds, thrdMax>>
    BY DEF MgrGroup
  <2>4. QED
    BY <1>6, <2>1, <2>2, <2>3 DEF GrpTypes
<1>10. ThrdTypes'
  BY Zenon, <1>6 DEF ThrdTypes, MgrGroup
<1>11. PcTypes'
  BY <1>3, <1>7, ProcsAssumption
     DEF PcTypes, Procs, Callers, ClientLabels, ThreadLabels, ManagerLabels
<1>12. LocalTypes'
  BY ZenonT(30), <1>1, <1>3 DEF LocalTypes, MgrGroup
<1>13. UNCHANGED <<frame, arg, thrdMax>>
  BY Zenon DEF MgrGroup
<1>14. FrameInv'
  BY ZenonT(30), <1>3, <1>7, <1>13, ProcsAssumption
     DEF FrameInv, GrpLabels, Procs, Callers
<1>15. ArgInv'
  BY ZenonT(30), <1>3, <1>7, <1>13, ProcsAssumption DEF ArgInv, Procs, Callers
<1>16. TaskInv'
  <2> SUFFICES ASSUME NEW t \in Threads, pc'[t] \in ExecStates
               PROVE  currTask'[t] \in Works
    BY DEF TaskInv
  <2>1. t \in Procs
    BY DEF Procs, Callers
  <2>2. t \notin {<<g, base + i>> : i \in 1..n}
    BY ZenonT(30), <1>3, <2>1 DEF started, StartThreads, ExecStates
  <2>3. currTask'[t] = currTask[t] /\ pc[t] \in ExecStates
    BY <1>3, <2>1, <2>2 DEF CreateThreads, started, StartThreads
  <2>4. QED
    BY <2>3 DEF TaskInv
<1>17. BudgetInv'
  BY <1>1, <1>2, <1>6, <1>13 DEF BudgetInv, GrpTypes
<1>18. QED
  BY <1>8, <1>9, <1>10, <1>11, <1>12, <1>14, <1>15, <1>16, <1>17

-----------------------------------------------------------------------------
\* The invariant holds when init_pool has returned.
LEMMA InitIInv == Init => IInv
<1> SUFFICES ASSUME Init PROVE IInv
  OBVIOUS
<1> USE DEF Init
<1>1. PoolTypes
  BY PoolAssumption DEF PoolTypes
<1>2. GrpTypes
  BY PoolAssumption DEF GrpTypes
<1>3. ThrdTypes
  BY DEF ThrdTypes
<1>4. PcTypes
  BY SMTT(30), ProcsAssumption
     DEF PcTypes, Procs, Callers, ClientLabels, ThreadLabels, ManagerLabels
<1>5. LocalTypes
  BY PoolAssumption
     DEF LocalTypes, NoFrame, Frames, NoArg, GroupArgsType
<1>6. GhostTypes
  BY DEF GhostTypes
<1>7. FrameInv /\ ArgInv /\ TaskInv
  BY Zenon, ProcsAssumption
     DEF FrameInv, ArgInv, TaskInv, GrpLabels, ExecStates, Procs, Callers
<1>8. BudgetInv
  BY DEF BudgetInv
<1>9. QED
  BY <1>1, <1>2, <1>3, <1>4, <1>5, <1>6, <1>7, <1>8 DEF IInv, TypeOK

\* Doing nothing preserves the invariant.
LEMMA StutterIInv == IInv /\ UNCHANGED vars => IInv'
<1> SUFFICES ASSUME IInv, UNCHANGED vars PROVE IInv'
  OBVIOUS
<1> USE DEF IInv, TypeOK, vars, poolVars, grpVars, thrdVars, ghosts
<1>1. PoolTypes' /\ GrpTypes' /\ ThrdTypes' /\ PcTypes'
  BY DEF PoolTypes, GrpTypes, ThrdTypes, PcTypes
<1>2. LocalTypes' /\ GhostTypes' /\ FrameInv' /\ ArgInv' /\ TaskInv' /\ BudgetInv'
  BY Zenon DEF LocalTypes, GhostTypes, FrameInv, ArgInv, TaskInv, BudgetInv
<1>3. QED
  BY <1>1, <1>2

\* Every step preserves the invariant.
LEMMA NextIInv == IInv /\ [Next]_vars => IInv'
<1> SUFFICES ASSUME IInv, [Next]_vars PROVE IInv'
  OBVIOUS
<1>1. ASSUME NEW c \in Clients, Client(c) PROVE IInv'
  BY <1>1, CallAddGroupStep, CallDoWorkStep, CallDestroyGroupStep,
     CallWaitPoolStep, CallDestroyPoolStep DEF Client, Callers
<1>2. ASSUME NEW p \in Callers, DoWork(p) PROVE IInv'
  BY <1>2, DoWorkClosedStep, DoWorkQueueStep, DoWorkPopIdleStep,
     DoWorkHandStep, DoWorkSignalStep DEF DoWork
<1>3. ASSUME NEW c \in Clients, ClientStep(c) PROVE IInv'
  <2>1. CASE AddGroup(c)
    BY <2>1, AddGroupCheckStep, AddGroupBuildStep, AddGroupPublishStep
       DEF AddGroup
  <2>2. CASE DoWork(c)
    BY <1>2, <2>2 DEF Callers
  <2>3. CASE WaitPool(c)
    BY <2>3, WaitPoolGroupStep, WaitPoolEnterStep, WaitPoolWakeStep
       DEF WaitPool
  <2>4. CASE DestroyGroup(c)
    BY <2>4, DestroyGroupUnlinkStep, CloseGroupStep, CloseWakeIdleStep,
       CloseUnlockStep, DestroyGroupJoinStep, DestroyGroupFinishStep
       DEF DestroyGroup
  <2>5. CASE DestroyPool(c)
    BY <2>5, DestroyPoolKillStep, DestroyPoolLockStep, DestroyPoolPopStep,
       DestroyPoolJoinStep, DestroyPoolFreeStep DEF DestroyPool
  <2>6. QED
    BY <1>3, <2>1, <2>2, <2>3, <2>4, <2>5 DEF ClientStep
<1>4. ASSUME NEW t \in Threads, WorkerStep(t) PROVE IInv'
  <2>1. CASE DoWork(t)
    BY <1>2, <2>1 DEF Callers
  <2>2. CASE ~DoWork(t)
    BY <1>4, <2>2, WorkerTopStep, WorkerFinishStep, WorkerFetchStep,
       WorkerSoftKillStep, WorkerIdleStep, WorkerNotifyStep, WorkerWakeStep,
       WorkerExitStep DEF WorkerStep
  <2>3. QED
    BY <2>1, <2>2
<1>5. ASSUME NEW t \in Threads, NEW w \in Works, CallDoWork(t, t[1], w)
      PROVE  IInv'
  BY <1>5, CallDoWorkStep, ThreadGroup DEF Callers
<1>6. ASSUME NEW m \in Managers, ManagerStep(m) PROVE IInv'
  BY <1>6, MgrSleepStep, MgrQuitStep, MgrBeginStep, MgrGroupStep, MgrEndStep
     DEF ManagerStep
<1>7. QED
  BY <1>1, <1>3, <1>4, <1>5, <1>6, SpuriousThrdStep, MgrTimeoutStep,
     SpuriousPoolStep, StutterIInv DEF Next, Terminated

\* Type correctness: in every reachable state of a pool of any size all the
\* fields and locals are in range; no group outgrows its thrds array.
THEOREM TypeCorrect == Spec => []TypeOK
<1>1. IInv => TypeOK
  BY DEF IInv
<1>2. QED
  BY InitIInv, NextIInv, <1>1, PTL DEF Spec

=============================================================================
