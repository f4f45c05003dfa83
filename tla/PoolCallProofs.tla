--------------------------- MODULE PoolCallProofs ---------------------------
(***************************************************************************)
(* The pool's functions keep the inductive invariant of type correctness:  *)
(* one lemma per step of a call.                                           *)
(***************************************************************************)
EXTENDS PoolTypeLemmas

\* A call of add_group keeps the invariant: it only records its arguments.
LEMMA CallAddGroupStep ==
  ASSUME IInv, NEW c \in Clients, NEW g \in Groups, NEW a \in GroupArgs,
     CallAddGroup(c, g, a)
  PROVE  IInv'
<1> USE DEF IInv, TypeOK, ControlInv
<1>1. PoolTypes' /\ GrpTypes' /\ BudgetInv' /\ ThrdTypes'
  BY PoolSame, GrpSame, ThrdSame DEF CallAddGroup
<1>2. LocalTypes'
  BY Zenon, PoolAssumption DEF LocalTypes, Callers, CallAddGroup, NoFrame, Frames,
     Ops
<1>3. GhostTypes'
  BY DEF GhostTypes, CallAddGroup
<1>4. ControlInv'
  <2>1. Moves(c, "ag_check")
    BY ProcsAssumption DEF Moves, CallAddGroup, Goto, ClientLabels,
       GrpLabels, thrdVars, LocalTypes, Callers, NoFrame
  <2>2. QED
    BY <2>1, CallerMoves DEF Callers
<1>5. QED
  BY <1>1, <1>2, <1>3, <1>4

\* So does the check of the arguments against what is left of the pool.
LEMMA AddGroupCheckStep ==
  ASSUME IInv, NEW c \in Clients, AddGroupCheck(c)
  PROVE  IInv'
<1> USE DEF IInv, TypeOK, ControlInv
<1>1. PoolTypes' /\ GrpTypes' /\ BudgetInv' /\ ThrdTypes'
  BY PoolSame, GrpSame, ThrdSame DEF AddGroupCheck
<1>2. LocalTypes'
  <2>1. Clamped(arg[c]) \in GroupArgsType
    BY ClampedFits DEF LocalTypes, PoolTypes
  <2>2. NoArg \in GroupArgsType /\ NoFrame \in Frames
    BY PoolAssumption DEF NoArg, GroupArgsType, NoFrame, Frames
  <2>3. /\ arg' \in [Clients -> GroupArgsType]
        /\ UNCHANGED <<todo, timedOut>>
    BY <2>1, <2>2 DEF AddGroupCheck, LocalTypes
  <2>4. frame' \in [Callers -> Frames]
    BY Zenon, <2>2 DEF AddGroupCheck, LocalTypes, Return
  <2>5. QED
    BY <2>3, <2>4 DEF LocalTypes
<1>3. GhostTypes'
  BY Zenon DEF GhostTypes, AddGroupCheck
<1>4. ControlInv'
  <2> DEFINE a == Clamped(arg[c])
  <2>1. a.min \in Nat /\ a.max \in Nat /\ 1 <= a.min
    BY ClampedFits DEF LocalTypes, PoolTypes, GroupArgsType
  <2>2. CASE a.max = 0 \/ a.min > a.max
    <3>1. Moves(c, "ready")
      BY <2>2, ProcsAssumption DEF Moves, AddGroupCheck, Return, LocalTypes,
         Callers, ClientLabels, GrpLabels, thrdVars
    <3>2. QED
      BY <3>1, CallerMoves DEF Callers
  <2>3. CASE ~(a.max = 0 \/ a.min > a.max)
    <3>1. /\ arg' = [arg EXCEPT ![c] = a] /\ UNCHANGED <<frame, currTask>>
          /\ pc[c] = "ag_check" /\ pc' = [pc EXCEPT ![c] = "ag_build"]
      BY <2>3 DEF AddGroupCheck, Goto, thrdVars
    <3>2. a.min <= a.max
      BY <2>1, <2>3
    <3>3. frame[c].grp \in Groups
      BY <3>1 DEF FrameInv, GrpLabels
    <3> HIDE DEF a
    <3>4. Moves(c, "ag_build")
      BY <2>1, <3>1, <3>2, <3>3, ProcsAssumption
         DEF Moves, LocalTypes, Callers, ClientLabels, GrpLabels
    <3>5. QED
      BY <3>4, CallerMoves DEF Callers
  <2>4. QED
    BY <2>2, <2>3
<1>5. QED
  BY <1>1, <1>2, <1>3, <1>4

\* So does the creation of the group with its first min threads.
LEMMA AddGroupBuildStep ==
  ASSUME IInv, NEW c \in Clients, AddGroupBuild(c)
  PROVE  IInv'
<1> USE DEF IInv, TypeOK
<1> DEFINE g == frame[c].grp
           a == arg[c]
           started == StartThreads(pc, g, a.min, 0)
<1>1. /\ g \in Groups
      /\ a \in GroupArgsType
      /\ a.min \in Nat /\ a.max \in Nat
      /\ 1 <= a.min /\ a.min <= a.max /\ a.max <= ThrdBound
      /\ pc[c] = "ag_build"
  BY PoolAssumption
     DEF FrameInv, ArgInv, GrpLabels, LocalTypes, GroupArgsType, AddGroupBuild
<1>2. \E hi \in {a.min, a.max} : thrdMax' = [thrdMax EXCEPT ![g] = hi]
  BY Zenon DEF AddGroupBuild
<1>3. /\ capacity' = [capacity EXCEPT ![g] = a.max * QSizeMult]
      /\ flags' = [flags EXCEPT ![g] = {}]
      /\ CreateThreads(g, a.min, 0, <<>>)
      /\ pc' = [started EXCEPT ![c] = "ag_publish"]
  BY DEF AddGroupBuild
<1>4. a.max * QSizeMult \in Nat
  BY <1>1, PoolAssumption
<1> HIDE DEF g, a
<1>5. /\ thrdState' \in [Threads -> {"running", "idle"}]
      /\ currTask' \in [Threads -> Works \cup {None}]
      /\ activeThrds' \in [Groups -> SUBSET Threads]
      /\ activeLen' \in [Groups -> Int]
      /\ numThrds' = [numThrds EXCEPT ![g] = 0 + a.min]
  <2>1. 0 + a.min <= ThrdBound /\ 0 \in Nat /\ <<>> \in Seq(Works)
    BY <1>1, PoolAssumption
  <2>2. QED
    BY Zenon, <1>1, <1>3, <2>1, CreateThreadsTypes
<1>6. /\ started \in [Procs -> ClientLabels \cup ThreadLabels \cup ManagerLabels]
      /\ \A p \in Procs : \/ started[p] = pc[p]
                          \/ started[p] = "top" /\ p \in Threads
  BY <1>1, StartThreadsTypes, PoolAssumption
<1> HIDE DEF started
<1>7. PoolTypes' /\ LocalTypes' /\ GhostTypes'
  BY DEF PoolTypes, LocalTypes, GhostTypes, AddGroupBuild, poolVars, ghosts
<1>8. GrpTypes'
  <2>1. thrdMax' \in [Groups -> 0..ThrdBound]
    BY <1>1, <1>2, PoolAssumption DEF GrpTypes
  <2>2. numThrds' \in [Groups -> 0..ThrdBound]
    BY <1>1, <1>5, PoolAssumption DEF GrpTypes
  <2>3. capacity' \in [Groups -> Nat] /\ flags' \in [Groups -> SUBSET GroupFlags]
    BY <1>1, <1>3, <1>4 DEF GrpTypes
  <2>4. UNCHANGED <<mutexGrp, q, idleThrds>>
    BY DEF AddGroupBuild
  <2>5. QED
    BY <1>5, <2>1, <2>2, <2>3, <2>4 DEF GrpTypes
<1>9. ThrdTypes'
  BY <1>5 DEF ThrdTypes, AddGroupBuild
<1>10. PcTypes'
  BY <1>3, <1>6, ProcsAssumption
     DEF PcTypes, Procs, Callers, ClientLabels, ThreadLabels, ManagerLabels
<1>11. UNCHANGED <<frame, arg>>
  BY DEF AddGroupBuild
<1>12. FrameInv'
  BY <1>1, <1>3, <1>6, <1>11, ProcsAssumption
     DEF FrameInv, GrpLabels, Procs, Callers
<1>13. ArgInv'
  BY <1>1, <1>3, <1>6, <1>11, ProcsAssumption DEF ArgInv, Procs, Callers
<1>14. TaskInv'
  <2> SUFFICES ASSUME NEW t \in Threads, pc'[t] \in ExecStates
               PROVE  currTask'[t] \in Works
    BY DEF TaskInv
  <2>1. t \in Procs /\ t # c
    BY ProcsAssumption DEF Procs, Callers
  <2>2. t \notin {<<g, 0 + i>> : i \in 1..a.min}
    BY <1>3, <1>6, <2>1 DEF started, StartThreads, ExecStates
  <2>3. currTask'[t] = currTask[t] /\ pc[t] \in ExecStates
    BY <1>3, <2>1, <2>2 DEF CreateThreads, started, StartThreads
  <2>4. QED
    BY <2>3 DEF TaskInv
<1>15. BudgetInv'
  BY <1>1, <1>2, <1>5 DEF BudgetInv, GrpTypes
<1>16. QED
  BY <1>7, <1>8, <1>9, <1>10, <1>12, <1>13, <1>14, <1>15

\* So does the publication of the group and of its share of the pool.
LEMMA AddGroupPublishStep ==
  ASSUME IInv, NEW c \in Clients, AddGroupPublish(c)
  PROVE  IInv'
<1> USE DEF IInv, TypeOK, ControlInv
<1>1. GrpTypes' /\ BudgetInv' /\ ThrdTypes'
  BY GrpSame, ThrdSame DEF AddGroupPublish
<1>2. PoolTypes'
  <2>1. frame[c].grp \in Groups
    BY DEF FrameInv, GrpLabels, AddGroupPublish
  <2>2. arg[c].max \in Nat /\ totalThrds \in Nat
    BY DEF LocalTypes, GroupArgsType, PoolTypes
  <2>3. (totalThrds + arg[c].max) % UIntMod \in 0..(UIntMod - 1)
    <3>1. totalThrds + arg[c].max \in Int
      BY <2>2
    <3>2. QED
      BY <3>1, UIntRange
  <2>4. QED
    BY <2>1, <2>3 DEF PoolTypes, AddGroupPublish, Managers
<1>3. LocalTypes'
  BY PoolAssumption DEF LocalTypes, Callers, AddGroupPublish, NoFrame,
     Frames, Ops, NoArg, GroupArgsType
<1>4. GhostTypes'
  BY Zenon DEF GhostTypes, AddGroupPublish
<1>5. ControlInv'
  <2> DEFINE g == frame[c].grp
  <2>1. g \in Managers /\ c \notin Managers /\ c \notin Threads
    BY ProcsAssumption
       DEF FrameInv, GrpLabels, AddGroupPublish, Managers, Procs, Callers
  <2>2. PICK l \in {"m_check", pc[g]} :
          pc' = [pc EXCEPT ![g] = l, ![c] = "ready"]
    BY ZenonT(30) DEF AddGroupPublish
  <2>3. UNCHANGED currTask
    BY DEF AddGroupPublish, thrdVars
  <2>4. /\ \A r \in Callers : r # c => frame'[r] = frame[r]
        /\ \A d \in Clients : d # c => arg'[d] = arg[d]
    BY DEF AddGroupPublish, LocalTypes
  <2> HIDE DEF g
  <2>5. PcTypes'
    BY <2>1, <2>2, ProcsAssumption
       DEF PcTypes, Procs, Callers, ClientLabels, ThreadLabels, ManagerLabels
  <2>6. /\ \A r \in Callers : r # c => pc'[r] = pc[r]
        /\ pc'[c] = "ready"
    BY <2>1, <2>2, ProcsAssumption DEF PcTypes, Procs, Callers
  <2>7. FrameInv'
    BY <2>4, <2>6 DEF FrameInv, Callers, GrpLabels
  <2>8. ArgInv' /\ TaskInv'
    BY <2>3, <2>4, <2>6, ProcsAssumption DEF ArgInv, TaskInv, Callers
  <2>9. QED
    BY <2>5, <2>7, <2>8
<1>6. QED
  BY <1>1, <1>2, <1>3, <1>4, <1>5

\* A call of do_work keeps the invariant.
LEMMA CallDoWorkStep ==
  ASSUME IInv, NEW p \in Callers, NEW g \in Groups, NEW w \in Works,
     CallDoWork(p, g, w)
  PROVE  IInv'
<1> USE DEF IInv, TypeOK, ControlInv
<1>1. PoolTypes' /\ GrpTypes' /\ BudgetInv' /\ ThrdTypes' /\ GhostTypes'
  BY PoolSame, GrpSame, ThrdSame, GhostSame DEF CallDoWork
<1>2. LocalTypes'
  BY DEF LocalTypes, Callers, CallDoWork, NoFrame, Frames, Ops
<1>3. ControlInv'
  <2>1. Moves(p, "dw_grp")
    BY ProcsAssumption DEF Moves, CallDoWork, Goto, ClientLabels,
       ThreadLabels, GrpLabels, thrdVars, LocalTypes, Callers, MayCall,
       TaskInv, ExecStates
  <2>2. QED
    BY SMTT(30), <2>1, CallerMoves
<1>4. QED
  BY <1>1, <1>2, <1>3

\* So does the early return of do_work on a closed group.
LEMMA DoWorkClosedStep ==
  ASSUME IInv, NEW p \in Callers, DoWorkClosed(p)
  PROVE  IInv'
<1> USE DEF IInv, TypeOK, ControlInv
<1>1. PoolTypes' /\ GrpTypes' /\ BudgetInv' /\ ThrdTypes' /\ GhostTypes'
  BY PoolSame, GrpSame, ThrdSame, GhostSame DEF DoWorkClosed
<1>2. ControlInv' /\ LocalTypes'
  BY ReturnMoves DEF DoWorkClosed, ExecStates, thrdVars
<1>3. QED
  BY <1>1, <1>2

\* So does the append to the queue, full or not.
LEMMA DoWorkQueueStep ==
  ASSUME IInv, NEW p \in Callers, DoWorkQueue(p)
  PROVE  IInv'
<1> USE DEF IInv, TypeOK, ControlInv
<1>1. PoolTypes' /\ ThrdTypes' /\ GhostTypes'
  BY PoolSame, ThrdSame, GhostSame DEF DoWorkQueue
<1>2. GrpTypes'
  BY DEF GrpTypes, DoWorkQueue, q_append, FrameInv, Callers
<1>3. BudgetInv'
  BY DEF BudgetInv, DoWorkQueue
<1>4. LocalTypes'
  <2>1. CASE frame' = [frame EXCEPT ![p] = NoFrame]
    BY <2>1 DEF LocalTypes, DoWorkQueue, NoFrame, Frames
  <2>2. CASE \E w \in {frame[p].work, None} :
               frame' = [frame EXCEPT ![p].work = w]
    <3>1. PICK w \in {frame[p].work, None} :
            frame' = [frame EXCEPT ![p].work = w]
      BY Zenon, <2>2
    <3>2. w \in Works \cup {None}
      BY DEF LocalTypes, Frames
    <3>3. [frame[p] EXCEPT !.work = w] \in Frames
      BY Zenon, <3>2 DEF LocalTypes, Frames
    <3>4. QED
      BY <3>1, <3>3 DEF LocalTypes, DoWorkQueue
  <2>3. QED
    BY <2>1, <2>2 DEF DoWorkQueue, Return
<1>5. ControlInv'
  <2>1. CASE Return(p)
    BY <2>1, ReturnMoves DEF DoWorkQueue, ExecStates, thrdVars
  <2>2. CASE ~Return(p)
    <3>1. /\ pc' = [pc EXCEPT ![p] = "dw_pool"] /\ pc[p] = "dw_grp"
          /\ \A r \in Callers : r # p => frame'[r] = frame[r]
          /\ UNCHANGED <<arg, currTask>>
      BY <2>2 DEF DoWorkQueue, Goto, LocalTypes, thrdVars
    <3>2. Moves(p, "dw_pool")
      BY <3>1, ProcsAssumption DEF Moves, ClientLabels, ThreadLabels,
         GrpLabels, ExecStates, TaskInv
    <3>3. QED
      BY <3>2, CallerMoves
  <2>3. QED
    BY <2>1, <2>2
<1>6. QED
  BY <1>1, <1>2, <1>3, <1>4, <1>5

\* So does the move of a thread from the idle list to the active one.
LEMMA DoWorkPopIdleStep ==
  ASSUME IInv, NEW p \in Callers, DoWorkPopIdle(p)
  PROVE  IInv'
<1> USE DEF IInv, TypeOK, ControlInv
<1>1. PoolTypes' /\ ThrdTypes' /\ GhostTypes'
  BY PoolSame, ThrdSame, GhostSame DEF DoWorkPopIdle
<1>2. GrpTypes'
  BY DEF GrpTypes, DoWorkPopIdle, EnterActive, FrameInv, Callers, NoIdle
<1>3. BudgetInv'
  BY DEF BudgetInv, DoWorkPopIdle
<1>4. LocalTypes'
  <2> DEFINE t == Head(idleThrds[frame[p].grp])
  <2>1. t \in Threads
    BY DEF DoWorkPopIdle, FrameInv, GrpTypes, NoIdle
  <2>2. frame' = [frame EXCEPT ![p].thrd = t]
    BY DEF DoWorkPopIdle
  <2> HIDE DEF t
  <2>3. [frame[p] EXCEPT !.thrd = t] \in Frames
    BY Zenon, <2>1 DEF LocalTypes, Frames
  <2>4. QED
    BY Zenon, <2>2, <2>3 DEF LocalTypes, DoWorkPopIdle
<1>5. ControlInv'
  <2> DEFINE t == Head(idleThrds[frame[p].grp])
  <2>1. /\ frame[p].grp \in Groups /\ frame[p].work \in Works
        /\ pc[p] = "dw_grp"
    BY DEF DoWorkPopIdle, FrameInv
  <2>2. t \in Threads
    BY <2>1 DEF DoWorkPopIdle, GrpTypes, NoIdle
  <2>3. /\ frame' = [frame EXCEPT ![p].thrd = t]
        /\ pc' = [pc EXCEPT ![p] = "dw_thrd"]
        /\ UNCHANGED <<arg, currTask>>
    BY DEF DoWorkPopIdle, Goto, thrdVars
  <2> HIDE DEF t
  <2>4. frame[p] \in Frames
    BY DEF LocalTypes
  <2>5. /\ frame'[p].thrd \in Threads /\ frame'[p].work \in Works
        /\ \A r \in Callers : r # p => frame'[r] = frame[r]
    BY <2>1, <2>2, <2>3, <2>4 DEF LocalTypes, Frames
  <2>6. Moves(p, "dw_thrd")
    BY <2>1, <2>3, <2>5, ProcsAssumption DEF Moves, ClientLabels,
       ThreadLabels, GrpLabels, ExecStates, TaskInv
  <2>7. QED
    BY <2>6, CallerMoves
<1>6. QED
  BY <1>1, <1>2, <1>3, <1>4, <1>5

\* So does the hand-over of the work to that thread.
LEMMA DoWorkHandStep ==
  ASSUME IInv, NEW p \in Callers, DoWorkHand(p)
  PROVE  IInv'
<1> USE DEF IInv, TypeOK, ControlInv
<1>1. PoolTypes' /\ GrpTypes' /\ BudgetInv' /\ GhostTypes'
  BY PoolSame, GrpSame, GhostSame DEF DoWorkHand
<1>2. ThrdTypes'
  BY DEF ThrdTypes, DoWorkHand, SignalThrd, FrameInv, Callers
<1>3. ControlInv' /\ LocalTypes'
  BY ReturnMoves DEF DoWorkHand, ExecStates, ThrdTypes, FrameInv
<1>4. QED
  BY <1>1, <1>2, <1>3

\* So does the signal to the manager.
LEMMA DoWorkSignalStep ==
  ASSUME IInv, NEW p \in Callers, DoWorkSignal(p)
  PROVE  IInv'
<1> USE DEF IInv, TypeOK, ControlInv
<1>1. GrpTypes' /\ BudgetInv' /\ ThrdTypes' /\ GhostTypes'
  BY GrpSame, ThrdSame, GhostSame DEF DoWorkSignal
<1>2. PoolTypes'
  BY Zenon, ProcsAssumption DEF PoolTypes, Procs, Callers, DoWorkSignal, SignalPool
<1>3. ControlInv' /\ LocalTypes'
  BY Zenon, ReturnMoves DEF DoWorkSignal, ExecStates, thrdVars
<1>4. QED
  BY <1>1, <1>2, <1>3

\* A call of wait_pool keeps the invariant.
LEMMA CallWaitPoolStep ==
  ASSUME IInv, NEW c \in Clients, CallWaitPool(c)
  PROVE  IInv'
<1> USE DEF IInv, TypeOK, ControlInv
<1>1. GrpTypes' /\ BudgetInv' /\ ThrdTypes'
  BY GrpSame, ThrdSame DEF CallWaitPool
<1>2. PoolTypes'
  BY ProcsAssumption DEF PoolTypes, Procs, Callers, CallWaitPool
<1>3. LocalTypes'
  BY DEF LocalTypes, Callers, CallWaitPool, PoolTypes
<1>4. GhostTypes'
  BY DEF GhostTypes, CallWaitPool
<1>5. ControlInv'
  <2>1. Keeps(c, "wp_scan")
    BY Zenon, ProcsAssumption DEF Keeps, CallWaitPool, Goto, ClientLabels,
       GrpLabels, thrdVars
  <2>2. QED
    BY <2>1, CallerKeeps DEF Callers
<1>6. QED
  BY <1>1, <1>2, <1>3, <1>4, <1>5

\* So does the visit of one group.
LEMMA WaitPoolGroupStep ==
  ASSUME IInv, NEW c \in Clients, WaitPoolGroup(c)
  PROVE  IInv'
<1> USE DEF IInv, TypeOK, ControlInv
<1>1. ThrdTypes'
  BY ZenonT(30), ThrdSame DEF WaitPoolGroup
<1>2. PoolTypes'
  BY ProcsAssumption DEF PoolTypes, Procs, Callers, WaitPoolGroup
<1>3. GrpTypes'
  BY Zenon DEF GrpTypes, WaitPoolGroup, internal_wait_helper, GroupFlags
<1>4. BudgetInv'
  BY SMTT(30) DEF BudgetInv, WaitPoolGroup
<1>5. LocalTypes'
  BY DEF LocalTypes, Callers, WaitPoolGroup
<1>6. GhostTypes'
  <2> DEFINE g == Head(todo[c])
  <2>1. g \in Groups
    BY DEF WaitPoolGroup, LocalTypes
  <2>2. {q[g][i] : i \in 1..Len(q[g])} \subseteq Works
    BY <2>1 DEF GrpTypes
  <2> HIDE DEF g
  <2>3. awaited' = [awaited EXCEPT ![c] = @ \cup {q[g][i] : i \in 1..Len(q[g])}]
    BY DEF WaitPoolGroup, g
  <2>4. awaited' \in [Clients -> SUBSET Works]
    BY <2>2, <2>3 DEF GhostTypes
  <2>5. QED
    BY <2>4 DEF GhostTypes, WaitPoolGroup
<1>7. ControlInv'
  BY NobodyMoves DEF WaitPoolGroup, thrdVars
<1>8. QED
  BY <1>1, <1>2, <1>3, <1>4, <1>5, <1>6, <1>7

\* So does the first test of groupsWaiting.
LEMMA WaitPoolEnterStep ==
  ASSUME IInv, NEW c \in Clients, WaitPoolEnter(c)
  PROVE  IInv'
<1> USE DEF IInv, TypeOK, ControlInv
<1>1. GrpTypes' /\ BudgetInv' /\ ThrdTypes' /\ LocalTypes' /\ GhostTypes'
  BY GrpSame, ThrdSame, LocalSame, GhostSame DEF WaitPoolEnter
<1>2. PoolTypes'
  BY Zenon, ProcsAssumption DEF PoolTypes, Procs, Callers, WaitPoolEnter
<1>3. ControlInv'
  <2>1. \E l \in {"wp_wait", "ready"} : Keeps(c, l)
    BY ProcsAssumption DEF Keeps, WaitPoolEnter, Goto, ClientLabels,
       GrpLabels, thrdVars
  <2>2. QED
    BY <2>1, CallerKeeps DEF Callers
<1>4. QED
  BY <1>1, <1>2, <1>3

\* So does every later one, after a wake-up.
LEMMA WaitPoolWakeStep ==
  ASSUME IInv, NEW c \in Clients, WaitPoolWake(c)
  PROVE  IInv'
<1> USE DEF IInv, TypeOK, ControlInv
<1>1. GrpTypes' /\ BudgetInv' /\ ThrdTypes' /\ LocalTypes' /\ GhostTypes'
  BY GrpSame, ThrdSame, LocalSame, GhostSame DEF WaitPoolWake
<1>2. PoolTypes'
  BY Zenon, ProcsAssumption DEF PoolTypes, Procs, Callers, WaitPoolWake
<1>3. ControlInv'
  <2>1. CASE UNCHANGED pc
    BY <2>1, NobodyMoves DEF WaitPoolWake, thrdVars
  <2>2. CASE ~UNCHANGED pc
    <3>1. Keeps(c, "ready")
      BY Zenon, <2>2, ProcsAssumption DEF Keeps, WaitPoolWake, Goto, ClientLabels,
         GrpLabels, ExecStates, thrdVars
    <3>2. QED
      BY <3>1, CallerKeeps DEF Callers
  <2>3. QED
    BY <2>1, <2>2
<1>4. QED
  BY <1>1, <1>2, <1>3

\* A call of destroy_group keeps the invariant.
LEMMA CallDestroyGroupStep ==
  ASSUME IInv, NEW c \in Clients, NEW g \in Groups, CallDestroyGroup(c, g)
  PROVE  IInv'
<1> USE DEF IInv, TypeOK, ControlInv
<1>1. PoolTypes' /\ GrpTypes' /\ BudgetInv' /\ ThrdTypes'
  BY PoolSame, GrpSame, ThrdSame DEF CallDestroyGroup
<1>2. LocalTypes'
  BY Zenon DEF LocalTypes, Callers, CallDestroyGroup, NoFrame, Frames, Ops
<1>3. GhostTypes'
  BY DEF GhostTypes, CallDestroyGroup
<1>4. ControlInv'
  <2>1. Moves(c, "dg_unlink")
    BY SMTT(30), ProcsAssumption DEF Moves, CallDestroyGroup, Goto, ClientLabels,
       GrpLabels, thrdVars, LocalTypes, Callers, NoFrame
  <2>2. QED
    BY <2>1, CallerMoves DEF Callers
<1>5. QED
  BY <1>1, <1>2, <1>3, <1>4

\* So does the removal of the group from the pool.
LEMMA DestroyGroupUnlinkStep ==
  ASSUME IInv, NEW c \in Clients, DestroyGroupUnlink(c)
  PROVE  IInv'
<1> USE DEF IInv, TypeOK, ControlInv
<1>1. GrpTypes' /\ BudgetInv' /\ ThrdTypes' /\ LocalTypes' /\ GhostTypes'
  BY ZenonT(30), GrpSame, ThrdSame, LocalSame, GhostSame DEF DestroyGroupUnlink
<1>2. PoolTypes'
  BY ProcsAssumption, UnlinkType DEF PoolTypes, Procs, Callers,
     DestroyGroupUnlink
<1>3. ControlInv'
  <2>1. Keeps(c, "dg_close")
    BY Zenon, ProcsAssumption DEF Keeps, DestroyGroupUnlink, Goto, ClientLabels,
       GrpLabels, thrdVars
  <2>2. QED
    BY SMTT(30), <2>1, CallerKeeps DEF Callers
<1>4. QED
  BY <1>1, <1>2, <1>3

\* So does the setting of SOFT_KILL by internal_destroy_group.
LEMMA CloseGroupStep ==
  ASSUME IInv, NEW c \in Clients, CloseGroup(c)
  PROVE  IInv'
<1> USE DEF IInv, TypeOK, ControlInv
<1>1. PoolTypes' /\ ThrdTypes' /\ LocalTypes' /\ GhostTypes'
  BY PoolSame, ThrdSame, LocalSame, GhostSame DEF CloseGroup
<1>2. GrpTypes'
  BY Zenon DEF GrpTypes, CloseGroup, GroupFlags
<1>3. BudgetInv'
  BY DEF BudgetInv, CloseGroup
<1>4. ControlInv'
  <2>1. Keeps(c, "dg_wake")
    BY ProcsAssumption DEF Keeps, CloseGroup, Goto, ClientLabels, GrpLabels,
       thrdVars
  <2>2. QED
    BY <2>1, CallerKeeps DEF Callers
<1>5. QED
  BY <1>1, <1>2, <1>3, <1>4

\* So does the wake-up of one idle thread.
LEMMA CloseWakeIdleStep ==
  ASSUME IInv, NEW c \in Clients, CloseWakeIdle(c)
  PROVE  IInv'
<1> USE DEF IInv, TypeOK, ControlInv
<1>1. PoolTypes' /\ LocalTypes' /\ GhostTypes'
  BY PoolSame, LocalSame, GhostSame DEF CloseWakeIdle
<1>2. GrpTypes'
  <2> DEFINE g == frame[c].grp
             t == Head(idleThrds[g])
  <2>1. g \in Groups
    BY DEF FrameInv, GrpLabels, CloseWakeIdle
  <2>2. t \in Threads /\ Tail(idleThrds[g]) \in Seq(Threads)
    <3>1. idleThrds[g] \in Seq(Threads)
      BY SMTT(30), <2>1 DEF GrpTypes
    <3>2. idleThrds[g] # <<>>
      BY DEF CloseWakeIdle
    <3> HIDE DEF g
    <3>3. QED
      BY <3>1, <3>2
  <2>3. /\ idleThrds' = [idleThrds EXCEPT ![g] = Tail(idleThrds[g])]
        /\ EnterActive(g, t)
        /\ UNCHANGED <<mutexGrp, flags, q, capacity, thrdMax, numThrds>>
    BY Zenon DEF CloseWakeIdle
  <2> HIDE DEF g, t
  <2>4. QED
    BY SMTT(30), <2>1, <2>2, <2>3 DEF GrpTypes, EnterActive
<1>3. BudgetInv'
  BY Zenon DEF BudgetInv, CloseWakeIdle
<1>4. ThrdTypes'
  BY Zenon DEF ThrdTypes, CloseWakeIdle, SignalThrd
<1>5. ControlInv'
  BY ZenonT(30), NobodyMoves DEF CloseWakeIdle
<1>6. QED
  BY SMTT(30), <1>1, <1>2, <1>3, <1>4, <1>5

\* So does the unlock that lets the threads run to their end.
LEMMA CloseUnlockStep ==
  ASSUME IInv, NEW c \in Clients, CloseUnlock(c)
  PROVE  IInv'
<1> USE DEF IInv, TypeOK, ControlInv
<1>1. PoolTypes' /\ ThrdTypes' /\ LocalTypes' /\ GhostTypes'
  BY PoolSame, ThrdSame, LocalSame, GhostSame DEF CloseUnlock
<1>2. GrpTypes'
  BY Zenon DEF GrpTypes, CloseUnlock
<1>3. BudgetInv'
  BY Zenon DEF BudgetInv, CloseUnlock
<1>4. ControlInv'
  <2>1. Keeps(c, "dg_join")
    BY ProcsAssumption DEF Keeps, CloseUnlock, Goto, ClientLabels, GrpLabels,
       thrdVars
  <2>2. QED
    BY <2>1, CallerKeeps DEF Callers
<1>5. QED
  BY <1>1, <1>2, <1>3, <1>4

\* So does the end of the last join, which frees the group.
LEMMA DestroyGroupJoinStep ==
  ASSUME IInv, NEW c \in Clients, DestroyGroupJoin(c)
  PROVE  IInv'
<1> USE DEF IInv, TypeOK, ControlInv
<1>1. PoolTypes' /\ GrpTypes' /\ BudgetInv' /\ ThrdTypes' /\ LocalTypes' /\
     GhostTypes'
  BY PoolSame, GrpSame, ThrdSame, LocalSame, GhostSame DEF DestroyGroupJoin
<1>2. ControlInv'
  <2>1. Keeps(c, "dg_finish")
    BY ProcsAssumption DEF Keeps, DestroyGroupJoin, Goto, ClientLabels,
       GrpLabels, thrdVars
  <2>2. QED
    BY SMTT(30), <2>1, CallerKeeps DEF Callers
<1>3. QED
  BY <1>1, <1>2

\* So does the return of the group's share to the pool.
LEMMA DestroyGroupFinishStep ==
  ASSUME IInv, NEW c \in Clients, DestroyGroupFinish(c)
  PROVE  IInv'
<1> USE DEF IInv, TypeOK, ControlInv
<1>1. GrpTypes' /\ BudgetInv' /\ ThrdTypes'
  BY SMTT(30), GrpSame, ThrdSame DEF DestroyGroupFinish
<1>2. PoolTypes'
  <2>1. thrdMax[frame[c].grp] \in Nat
    <3>1. frame[c].grp \in Groups
      BY DEF FrameInv, GrpLabels, DestroyGroupFinish
    <3>2. thrdMax[frame[c].grp] \in 0..ThrdBound
      BY <3>1 DEF GrpTypes
    <3>3. QED
      BY SMTT(30), <3>2
  <2>2. (totalThrds - thrdMax[frame[c].grp]) % UIntMod \in 0..(UIntMod - 1)
    <3>1. totalThrds - thrdMax[frame[c].grp] \in Int
      BY <2>1, PoolAssumption DEF PoolTypes
    <3>2. QED
      BY SMTT(30), <3>1, UIntRange
  <2>3. QED
    BY <2>2 DEF PoolTypes, DestroyGroupFinish
<1>3. GhostTypes'
  BY Zenon DEF GhostTypes, DestroyGroupFinish
<1>4. ControlInv' /\ LocalTypes'
  BY Zenon, ReturnMoves, ProcsAssumption DEF DestroyGroupFinish, Callers, thrdVars
<1>5. QED
  BY <1>1, <1>2, <1>3, <1>4

\* A call of destroy_pool keeps the invariant.
LEMMA CallDestroyPoolStep ==
  ASSUME IInv, NEW c \in Clients, CallDestroyPool(c)
  PROVE  IInv'
<1> USE DEF IInv, TypeOK, ControlInv
<1>1. PoolTypes' /\ GrpTypes' /\ BudgetInv' /\ ThrdTypes'
  BY PoolSame, GrpSame, ThrdSame DEF CallDestroyPool
<1>2. LocalTypes'
  BY ZenonT(30) DEF LocalTypes, Callers, CallDestroyPool, NoFrame, Frames, Ops
<1>3. GhostTypes'
  BY DEF GhostTypes, CallDestroyPool
<1>4. ControlInv'
  <2>1. Moves(c, "dp_lock")
    BY ProcsAssumption DEF Moves, CallDestroyPool, Goto, ClientLabels,
       GrpLabels, thrdVars, LocalTypes, Callers
  <2>2. QED
    BY <2>1, CallerMoves DEF Callers
<1>5. QED
  BY <1>1, <1>2, <1>3, <1>4

\* So does the kill flag.
LEMMA DestroyPoolKillStep ==
  ASSUME IInv, NEW c \in Clients, DestroyPoolKill(c)
  PROVE  IInv'
<1> USE DEF IInv, TypeOK, ControlInv
<1>1. GrpTypes' /\ BudgetInv' /\ ThrdTypes' /\ LocalTypes' /\ GhostTypes'
  BY SMTT(30), GrpSame, ThrdSame, LocalSame, GhostSame DEF DestroyPoolKill
<1>2. PoolTypes'
  BY ProcsAssumption DEF PoolTypes, Procs, Callers, DestroyPoolKill,
     SignalPool, KillFlag
<1>3. ControlInv'
  <2>1. Keeps(c, "dp_join")
    BY ProcsAssumption DEF Keeps, DestroyPoolKill, Goto, ClientLabels,
       GrpLabels, thrdVars
  <2>2. QED
    BY SMTT(30), <2>1, CallerKeeps DEF Callers
<1>4. QED
  BY <1>1, <1>2, <1>3

\* So does the join of the manager and the lock of the pool.
LEMMA DestroyPoolLockStep ==
  ASSUME IInv, NEW c \in Clients, DestroyPoolLock(c)
  PROVE  IInv'
<1> USE DEF IInv, TypeOK, ControlInv
<1>1. GrpTypes' /\ BudgetInv' /\ ThrdTypes' /\ LocalTypes' /\ GhostTypes'
  BY SMTT(30), GrpSame, ThrdSame, LocalSame, GhostSame DEF DestroyPoolLock
<1>2. PoolTypes'
  BY ProcsAssumption DEF PoolTypes, Procs, Callers, DestroyPoolLock
<1>3. ControlInv'
  <2>1. Keeps(c, "dp_pop")
    BY Zenon, ProcsAssumption DEF Keeps, DestroyPoolLock, Goto, ClientLabels,
       GrpLabels, thrdVars
  <2>2. QED
    BY <2>1, CallerKeeps DEF Callers
<1>4. QED
  BY <1>1, <1>2, <1>3

\* So does the pop of the next group.
LEMMA DestroyPoolPopStep ==
  ASSUME IInv, NEW c \in Clients, DestroyPoolPop(c)
  PROVE  IInv'
<1> USE DEF IInv, TypeOK, ControlInv
<1>1. GrpTypes' /\ BudgetInv' /\ ThrdTypes' /\ GhostTypes'
  BY GrpSame, ThrdSame, GhostSame DEF DestroyPoolPop
<1>2. PoolTypes'
  BY ProcsAssumption DEF PoolTypes, Procs, Callers, DestroyPoolPop
<1>3. LocalTypes'
  <2>1. Head(groups) \in Groups
    BY DEF DestroyPoolPop, PoolTypes
  <2>2. frame' \in [Callers -> Frames]
    BY ZenonT(30), <2>1 DEF DestroyPoolPop, LocalTypes, Frames
  <2>3. QED
    BY <2>2 DEF LocalTypes, DestroyPoolPop
<1>4. ControlInv'
  <2>1. Head(groups) \in Groups
    BY DEF DestroyPoolPop, PoolTypes
  <2>2. frame' = [frame EXCEPT ![c].grp = Head(groups)] /\ frame[c] \in Frames
    BY DEF DestroyPoolPop, LocalTypes, Callers
  <2>3. frame'[c].grp \in Groups
    BY <2>1, <2>2 DEF LocalTypes, Frames, Callers
  <2>4. Moves(c, "dg_close")
    BY <2>2, <2>3, ProcsAssumption DEF Moves, DestroyPoolPop, Goto,
       LocalTypes, Callers, ClientLabels, GrpLabels, thrdVars
  <2>5. QED
    BY <2>4, CallerMoves DEF Callers
<1>5. QED
  BY <1>1, <1>2, <1>3, <1>4

\* So does the end of that group's joins.
LEMMA DestroyPoolJoinStep ==
  ASSUME IInv, NEW c \in Clients, DestroyPoolJoin(c)
  PROVE  IInv'
<1> USE DEF IInv, TypeOK, ControlInv
<1>1. GrpTypes' /\ BudgetInv' /\ ThrdTypes'
  BY GrpSame, ThrdSame DEF DestroyPoolJoin
<1>2. PoolTypes'
  <2>1. thrdMax[frame[c].grp] \in Nat
    <3>1. frame[c].grp \in Groups
      BY DEF FrameInv, GrpLabels, DestroyPoolJoin
    <3>2. thrdMax[frame[c].grp] \in 0..ThrdBound
      BY <3>1 DEF GrpTypes
    <3>3. QED
      BY <3>2
  <2>2. (totalThrds - thrdMax[frame[c].grp]) % UIntMod \in 0..(UIntMod - 1)
    <3>1. totalThrds - thrdMax[frame[c].grp] \in Int
      BY <2>1, PoolAssumption DEF PoolTypes
    <3>2. QED
      BY <3>1, UIntRange
  <2>3. QED
    BY <2>2 DEF PoolTypes, DestroyPoolJoin
<1>3. LocalTypes'
  BY ZenonT(30) DEF LocalTypes, Callers, DestroyPoolJoin, NoFrame, Frames, Ops
<1>4. GhostTypes'
  BY Zenon DEF GhostTypes, DestroyPoolJoin
<1>5. ControlInv'
  <2>1. Moves(c, "dp_pop")
    BY ProcsAssumption DEF Moves, DestroyPoolJoin, Goto, ClientLabels,
       GrpLabels, thrdVars, LocalTypes, Callers
  <2>2. QED
    BY <2>1, CallerMoves DEF Callers
<1>6. QED
  BY <1>1, <1>2, <1>3, <1>4, <1>5

\* So does the release of the pool.
LEMMA DestroyPoolFreeStep ==
  ASSUME IInv, NEW c \in Clients, DestroyPoolFree(c)
  PROVE  IInv'
<1> USE DEF IInv, TypeOK, ControlInv
<1>1. GrpTypes' /\ BudgetInv' /\ ThrdTypes'
  BY GrpSame, ThrdSame DEF DestroyPoolFree
<1>2. PoolTypes'
  BY ProcsAssumption DEF PoolTypes, Procs, Callers, DestroyPoolFree
<1>3. GhostTypes'
  BY DEF GhostTypes, DestroyPoolFree
<1>4. ControlInv' /\ LocalTypes'
  BY ReturnMoves, ProcsAssumption DEF DestroyPoolFree, Callers, thrdVars
<1>5. QED
  BY <1>1, <1>2, <1>3, <1>4

=============================================================================
