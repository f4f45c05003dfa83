----------------------------- MODULE PoolProofs -----------------------------
(***************************************************************************)
(* Safety of the pool, for any number of clients, groups, threads and      *)
(* works.                                                                  *)
(***************************************************************************)
EXTENDS PoolTypeProofs

(***************************************************************************)
(* No work waits in a queue while a thread of its group is idle.           *)
(***************************************************************************)
\* Six actions change a queue or an idle list; every other step leaves both.
ChangesQueueOrIdle ==
  \/ \E p \in Callers : DoWorkQueue(p) \/ DoWorkPopIdle(p)
  \/ \E t \in Threads : WorkerFetch(t) \/ WorkerIdle(t)
  \/ \E m \in Managers : MgrGroup(m)
  \/ \E c \in Clients : CloseWakeIdle(c)

\* The steps of the other actions, client by client and thread by thread.
LEMMA OtherStepsKeepQueueAndIdle ==
  ASSUME [Next]_vars, ~ChangesQueueOrIdle
  PROVE  UNCHANGED <<q, idleThrds>>
<1> USE DEF grpVars
<1>1. ASSUME NEW c \in Clients, Client(c) PROVE UNCHANGED <<q, idleThrds>>
  BY <1>1 DEF Client, CallAddGroup, CallDoWork, CallDestroyGroup,
              CallWaitPool, CallDestroyPool
<1>2. ASSUME NEW p \in Callers, DoWork(p) PROVE UNCHANGED <<q, idleThrds>>
  BY <1>2 DEF ChangesQueueOrIdle, DoWork, DoWorkClosed, DoWorkHand,
              DoWorkSignal
<1>3. ASSUME NEW c \in Clients, ClientStep(c) PROVE UNCHANGED <<q, idleThrds>>
  <2>1. CASE AddGroup(c)
    BY <2>1 DEF AddGroup, AddGroupCheck, AddGroupBuild, AddGroupPublish
  <2>2. CASE DoWork(c)
    BY <1>2, <2>2 DEF Callers
  <2>3. CASE WaitPool(c)
    BY <2>3 DEF WaitPool, WaitPoolGroup, WaitPoolEnter, WaitPoolWake
  <2>4. CASE DestroyGroup(c)
    BY <2>4 DEF ChangesQueueOrIdle, DestroyGroup, DestroyGroupUnlink,
                CloseGroup, CloseUnlock, DestroyGroupJoin, DestroyGroupFinish
  <2>5. CASE DestroyPool(c)
    BY <2>5 DEF DestroyPool, DestroyPoolKill, DestroyPoolLock,
                DestroyPoolPop, DestroyPoolJoin, DestroyPoolFree
  <2>6. QED
    BY <1>3, <2>1, <2>2, <2>3, <2>4, <2>5 DEF ClientStep
<1>4. ASSUME NEW t \in Threads, WorkerStep(t) PROVE UNCHANGED <<q, idleThrds>>
  <2>1. CASE DoWork(t)
    BY <1>2, <2>1 DEF Callers
  <2>2. CASE ~DoWork(t)
    BY <1>4, <2>2 DEF ChangesQueueOrIdle, WorkerStep, WorkerTop,
                      WorkerFinish, WorkerSoftKill, WorkerNotify, WorkerWake,
                      WorkerExit
  <2>3. QED
    BY <2>1, <2>2
<1>5. ASSUME NEW m \in Managers, ManagerStep(m) PROVE UNCHANGED <<q, idleThrds>>
  BY <1>5 DEF ChangesQueueOrIdle, ManagerStep, MgrSleep, MgrQuit, MgrBegin,
              MgrEnd
<1>6. ASSUME NEW t \in Threads,
             SpuriousThrd(t) \/ \E w \in Works : CallDoWork(t, t[1], w)
      PROVE  UNCHANGED <<q, idleThrds>>
  BY <1>6 DEF SpuriousThrd, CallDoWork
<1>7. ASSUME NEW p \in Clients \cup Managers, MgrTimeout(p) \/ SpuriousPool(p)
      PROVE  UNCHANGED <<q, idleThrds>>
  BY <1>7 DEF MgrTimeout, SpuriousPool
<1>8. QED
  BY <1>1, <1>3, <1>4, <1>5, <1>6, <1>7 DEF Next, Terminated, vars

\* do_work queues a work only when the idle list is empty.
LEMMA DoWorkQueueExcludes ==
  ASSUME IInv, QueueIdleExclusion, NEW p \in Callers, DoWorkQueue(p)
  PROVE  QueueIdleExclusion'
<1>1. /\ idleThrds' = idleThrds
      /\ idleThrds[frame[p].grp] = <<>>
      /\ \A g \in Groups : g # frame[p].grp => q'[g] = q[g]
  BY DEF DoWorkQueue, NoIdle, IInv, TypeOK, GrpTypes
<1>2. QED
  BY <1>1 DEF QueueIdleExclusion

\* do_work takes a thread off the idle list only when the queue is empty.
LEMMA DoWorkPopIdleExcludes ==
  ASSUME IInv, QueueIdleExclusion, NEW p \in Callers, DoWorkPopIdle(p)
  PROVE  QueueIdleExclusion'
<1>1. /\ q' = q
      /\ idleThrds[frame[p].grp] # <<>>
      /\ \A g \in Groups : g # frame[p].grp => idleThrds'[g] = idleThrds[g]
  BY DEF DoWorkPopIdle, NoIdle, IInv, TypeOK, GrpTypes
<1>2. QED
  BY <1>1 DEF QueueIdleExclusion

\* internal_destroy_group empties the idle list.
LEMMA CloseWakeIdleExcludes ==
  ASSUME IInv, QueueIdleExclusion, NEW c \in Clients, CloseWakeIdle(c)
  PROVE  QueueIdleExclusion'
<1>1. /\ q' = q
      /\ idleThrds[frame[c].grp] # <<>>
      /\ \A g \in Groups : g # frame[c].grp => idleThrds'[g] = idleThrds[g]
  BY DEF CloseWakeIdle, IInv, TypeOK, GrpTypes
<1>2. QED
  BY <1>1 DEF QueueIdleExclusion

\* A worker that fetches finds a queue that is not empty.
LEMMA WorkerFetchExcludes ==
  ASSUME IInv, QueueIdleExclusion, NEW t \in Threads, WorkerFetch(t)
  PROVE  QueueIdleExclusion'
<1>1. /\ idleThrds' = idleThrds
      /\ q[t[1]] # <<>>
      /\ \A g \in Groups : g # t[1] => q'[g] = q[g]
  BY DEF WorkerFetch, IInv, TypeOK, GrpTypes
<1>2. QED
  BY <1>1 DEF QueueIdleExclusion

\* A worker goes idle only when the queue is empty.
LEMMA WorkerIdleExcludes ==
  ASSUME IInv, QueueIdleExclusion, NEW t \in Threads, WorkerIdle(t)
  PROVE  QueueIdleExclusion'
<1>1. /\ q' = q
      /\ q[t[1]] = <<>>
      /\ \A g \in Groups : g # t[1] => idleThrds'[g] = idleThrds[g]
  BY DEF WorkerIdle, IInv, TypeOK, GrpTypes
<1>2. QED
  BY <1>1 DEF QueueIdleExclusion

\* The manager only takes works out of queues.
LEMMA MgrGroupExcludes ==
  ASSUME IInv, QueueIdleExclusion, NEW m \in Managers, MgrGroup(m)
  PROVE  QueueIdleExclusion'
<1> DEFINE h == Head(todo[m])
           n == addThrds(h)
           taken == IF n < Len(q[h]) THEN n ELSE Len(q[h])
<1>1. /\ idleThrds' = idleThrds
      /\ q' = [q EXCEPT ![h] = SubSeq(q[h], taken + 1, Len(q[h]))]
  BY DEF MgrGroup
<1>2. h \in Groups
  BY DEF MgrGroup, IInv, TypeOK, LocalTypes
<1>3. n \in Nat /\ q[h] \in Seq(Works)
  <2> HIDE DEF h
  <2>1. QED
    BY <1>2, AddThrdsFits DEF IInv, TypeOK, GrpTypes
<1> HIDE DEF n, h
<1>4. q[h] = <<>> => SubSeq(q[h], taken + 1, Len(q[h])) = <<>>
  BY <1>3
<1>5. \A g \in Groups : q[g] = <<>> => q'[g] = <<>>
  BY <1>1, <1>2, <1>4 DEF IInv, TypeOK, GrpTypes
<1>6. QED
  BY <1>1, <1>5 DEF QueueIdleExclusion

\* In every reachable state of a pool of any size, a group with works in its
\* queue has no idle thread (do_work, line 402; worker, line 618).
THEOREM QueueExcludesIdle == Spec => []QueueIdleExclusion
<1>1. Init => QueueIdleExclusion
  BY DEF Init, QueueIdleExclusion
<1>2. IInv /\ QueueIdleExclusion /\ [Next]_vars => QueueIdleExclusion'
  <2> SUFFICES ASSUME IInv, QueueIdleExclusion, [Next]_vars
               PROVE  QueueIdleExclusion'
    OBVIOUS
  <2>1. CASE ChangesQueueOrIdle
    BY <2>1, DoWorkQueueExcludes, DoWorkPopIdleExcludes, WorkerFetchExcludes,
       WorkerIdleExcludes, MgrGroupExcludes, CloseWakeIdleExcludes
       DEF ChangesQueueOrIdle
  <2>2. CASE ~ChangesQueueOrIdle
    BY <2>2, OtherStepsKeepQueueAndIdle DEF QueueIdleExclusion
  <2>3. QED
    BY <2>1, <2>2
<1>3. QED
  BY InitIInv, NextIInv, <1>1, <1>2, PTL DEF Spec

=============================================================================
