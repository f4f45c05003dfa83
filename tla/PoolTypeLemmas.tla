--------------------------- MODULE PoolTypeLemmas ---------------------------
(***************************************************************************)
(* What the proofs about the pool share: lemmas about the operators of     *)
(* Pool, the inductive invariant of type correctness, and what a step that *)
(* moves one process keeps of it.                                          *)
(***************************************************************************)
EXTENDS PoolProperties, TLAPS

(***************************************************************************)
(* Lemmas about the operators.                                             *)
(***************************************************************************)
\* A remainder is in the range of its modulus.
LEMMA ModRange ==
  ASSUME NEW a \in Int, NEW n \in Nat \ {0}
  PROVE  a % n \in 0..(n - 1)
  OBVIOUS

\* The same for unsigned int.
LEMMA UIntRange ==
  ASSUME NEW a \in Int
  PROVE  a % UIntMod \in 0..(UIntMod - 1) /\ a % UIntMod \in Nat
<1>1. UIntMod \in Nat \ {0}
  BY PoolAssumption
<1>2. QED
  BY <1>1, ModRange

\* A value that fits is not changed.
LEMMA ModSmall ==
  ASSUME NEW n \in Nat \ {0}, NEW a \in 0..(n - 1)
  PROVE  a % n = a
  OBVIOUS

\* Removing an item from a list leaves a list of the same items.
LEMMA UnlinkType ==
  ASSUME NEW S, NEW s \in Seq(S), NEW e
  PROVE  Unlink(s, e) \in Seq(S)
<1>1. CASE ~ \E j \in 1..Len(s) : s[j] = e
  BY <1>1 DEF Unlink
<1>2. CASE \E j \in 1..Len(s) : s[j] = e
  <2> DEFINE i == CHOOSE j \in 1..Len(s) : s[j] = e
  <2>1. i \in 1..Len(s)
    BY <1>2
  <2> HIDE DEF i
  <2>2. SubSeq(s, 1, i - 1) \in Seq(S) /\ SubSeq(s, i + 1, Len(s)) \in Seq(S)
    BY <2>1
  <2>3. QED
    BY <1>2, <2>2 DEF Unlink, i
<1>3. QED
  BY <1>1, <1>2

\* add_group's arguments stay in range when they are adjusted.
LEMMA ClampedFits ==
  ASSUME NEW a \in GroupArgsType, totalThrds \in 0..(UIntMod - 1)
  PROVE  Clamped(a) \in GroupArgsType /\ 1 <= Clamped(a).min
<1> DEFINE avail == (MaxThrds - totalThrds) % UIntMod
<1>1. avail \in Nat
  BY UIntRange, PoolAssumption
<1> HIDE DEF avail
<1>2. Clamped(a) = [min |-> IF a.min = 0 THEN 1 ELSE a.min,
                    max |-> IF avail < a.max THEN avail ELSE a.max,
                    flags |-> a.flags]
  BY DEF Clamped, avail
<1>3. QED
  BY <1>1, <1>2, PoolAssumption DEF GroupArgsType

\* A thread belongs to a group.
LEMMA ThreadGroup == \A t \in Threads : t[1] \in Groups
  BY DEF Threads

-----------------------------------------------------------------------------
(***************************************************************************)
(* The inductive invariant: TypeOK, and what each label says of the locals *)
(* of the call that has reached it.                                        *)
(***************************************************************************)
GrpLabels ==
  {"ag_check", "ag_build", "ag_publish", "dg_unlink", "dg_close", "dg_wake",
   "dg_join", "dg_finish"}

\* A call that works on a group has one, and do_work has its work and, once
\* it has popped one, its thread.
FrameInv ==
  /\ \A c \in Clients : pc[c] \in GrpLabels => frame[c].grp \in Groups
  /\ \A p \in Callers : pc[p] = "dw_grp" =>
       frame[p].grp \in Groups /\ frame[p].work \in Works
  /\ \A p \in Callers : pc[p] = "dw_thrd" =>
       frame[p].thrd \in Threads /\ frame[p].work \in Works

\* Past its first critical section, add_group has 1 <= min <= max.
ArgInv ==
  \A c \in Clients : pc[c] \in {"ag_build", "ag_publish"} =>
    1 <= arg[c].min /\ arg[c].min <= arg[c].max

\* A worker that executes has a task.
TaskInv == \A t \in Threads : pc[t] \in ExecStates => currTask[t] \in Works

IInv == TypeOK /\ FrameInv /\ ArgInv /\ TaskInv

-----------------------------------------------------------------------------
(***************************************************************************)
(* Steps that leave a part of the state alone keep its types.              *)
(***************************************************************************)
\* The fields of the pool.
LEMMA PoolSame == PoolTypes /\ UNCHANGED poolVars => PoolTypes'
  BY DEF PoolTypes, poolVars

\* The fields of the groups.
LEMMA GrpSame ==
  GrpTypes /\ BudgetInv /\ UNCHANGED grpVars => GrpTypes' /\ BudgetInv'
  BY DEF GrpTypes, BudgetInv, grpVars

\* The fields of the threads.
LEMMA ThrdSame == ThrdTypes /\ UNCHANGED thrdVars => ThrdTypes'
  BY DEF ThrdTypes, thrdVars

\* The locals of the calls.
LEMMA LocalSame ==
  LocalTypes /\ UNCHANGED <<frame, arg, todo, timedOut>> => LocalTypes'
  BY DEF LocalTypes

\* The ghosts.
LEMMA GhostSame == GhostTypes /\ UNCHANGED ghosts => GhostTypes'
  BY DEF GhostTypes, ghosts

-----------------------------------------------------------------------------
(***************************************************************************)
(* Steps that move one process.  What they keep of the labels and of the   *)
(* locals that go with them is proved once, here.                          *)
(***************************************************************************)
ControlInv == PcTypes /\ FrameInv /\ ArgInv /\ TaskInv

\* Process p goes to label l, with whatever locals that label asks for.
Moves(p, l) ==
  /\ pc' = [pc EXCEPT ![p] = l]
  /\ p \in Clients => l \in ClientLabels
  /\ p \in Threads => l \in ThreadLabels
  /\ \A r \in Callers : r # p => frame'[r] = frame[r]
  /\ \A d \in Clients : d # p => arg'[d] = arg[d]
  /\ \A t \in Threads : t # p => currTask'[t] \in {currTask[t]} \cup Works
  /\ l \in GrpLabels => frame'[p].grp \in Groups
  /\ l = "dw_grp" => frame'[p].grp \in Groups /\ frame'[p].work \in Works
  /\ l = "dw_thrd" => frame'[p].thrd \in Threads /\ frame'[p].work \in Works
  /\ l \in {"ag_build", "ag_publish"} =>
       1 <= arg'[p].min /\ arg'[p].min <= arg'[p].max
  /\ p \in Threads /\ l \in ExecStates => currTask'[p] \in Works

\* Process p goes to label l, and its locals stay what they were.
Keeps(p, l) ==
  /\ pc' = [pc EXCEPT ![p] = l]
  /\ UNCHANGED <<frame, arg, currTask>>
  /\ p \in Clients => l \in ClientLabels
  /\ p \in Threads => l \in ThreadLabels
  /\ l \notin {"dw_grp", "dw_thrd", "ag_build", "ag_publish"}
  /\ l \in GrpLabels => pc[p] \in GrpLabels
  /\ p \in Threads /\ l \in ExecStates => currTask[p] \in Works

\* Such a move keeps the control part of the invariant.
LEMMA CallerMoves ==
  ASSUME ControlInv, NEW p \in Callers, NEW l, Moves(p, l)
  PROVE  ControlInv'
<1> USE DEF ControlInv
<1>1. PcTypes'
  BY ProcsAssumption DEF Moves, PcTypes, Procs, Callers
<1>2. /\ \A r \in Callers : r # p => pc'[r] = pc[r]
      /\ pc'[p] = l
  BY DEF Moves, PcTypes, Procs
<1>3. FrameInv'
  BY <1>2 DEF Moves, FrameInv, Callers
<1>4. ArgInv'
  BY <1>2 DEF Moves, ArgInv, Callers
<1>5. TaskInv'
  BY <1>2 DEF Moves, TaskInv, Callers
<1>6. QED
  BY <1>1, <1>3, <1>4, <1>5

\* So does one with the locals unchanged.
LEMMA CallerKeeps ==
  ASSUME ControlInv, NEW p \in Callers, NEW l, Keeps(p, l)
  PROVE  ControlInv'
<1> USE DEF ControlInv
<1>1. PcTypes'
  BY ProcsAssumption DEF Keeps, PcTypes, Procs, Callers
<1>2. /\ \A r \in Callers : r # p => pc'[r] = pc[r]
      /\ pc'[p] = l
  BY DEF Keeps, PcTypes, Procs
<1>3. FrameInv'
  BY <1>2, ProcsAssumption DEF Keeps, FrameInv, Callers, PcTypes, GrpLabels
<1>4. ArgInv'
  BY <1>2 DEF Keeps, ArgInv, Callers
<1>5. TaskInv'
  BY <1>2 DEF Keeps, TaskInv, Callers
<1>6. QED
  BY <1>1, <1>3, <1>4, <1>5

\* A manager has no such locals.
LEMMA ManagerMoves ==
  ASSUME ControlInv, NEW m \in Managers, NEW l \in ManagerLabels,
         pc' = [pc EXCEPT ![m] = l], UNCHANGED <<frame, arg, currTask>>
  PROVE  ControlInv'
<1> USE DEF ControlInv
<1>1. PcTypes'
  BY ProcsAssumption DEF PcTypes, Procs, Callers
<1>2. \A r \in Callers : pc'[r] = pc[r]
  BY ProcsAssumption DEF PcTypes, Procs, Callers
<1>3. FrameInv' /\ ArgInv' /\ TaskInv'
  BY <1>2 DEF FrameInv, ArgInv, TaskInv, Callers
<1>4. QED
  BY <1>1, <1>3

\* Nobody moves.
LEMMA NobodyMoves ==
  ControlInv /\ UNCHANGED <<pc, frame, arg, currTask>> => ControlInv'
  BY DEF ControlInv, PcTypes, FrameInv, ArgInv, TaskInv

\* A call returns.
LEMMA ReturnMoves ==
  ASSUME ControlInv, LocalTypes, NEW p \in Callers, Return(p),
         UNCHANGED <<arg, todo, timedOut>>,
         p \in Threads => pc[p] \in ExecStates,
         \A t \in Threads : currTask'[t] \in {currTask[t]} \cup Works
  PROVE  ControlInv' /\ LocalTypes'
<1> USE DEF ControlInv
<1>1. NoFrame \in Frames
  BY DEF NoFrame, Frames
<1>2. LocalTypes'
  BY <1>1 DEF LocalTypes, Return
<1>3. CASE p \in Clients
  <2>1. Moves(p, "ready")
    BY <1>3, ProcsAssumption
       DEF Moves, Return, LocalTypes, Callers, ClientLabels, GrpLabels
  <2>2. QED
    BY <1>2, <2>1, CallerMoves
<1>4. CASE p \in Threads
  <2>1. Moves(p, "exec")
    BY <1>4, ProcsAssumption
       DEF Moves, Return, LocalTypes, Callers, ThreadLabels, GrpLabels, TaskInv
  <2>2. QED
    BY <1>2, <2>1, CallerMoves
<1>5. QED
  BY <1>3, <1>4 DEF Callers

-----------------------------------------------------------------------------
(***************************************************************************)
(* The creation of threads.                                                *)
(***************************************************************************)
\* The threads created for a group are threads of the group; they get a
\* task or none, and enter the active list.
LEMMA CreateThreadsTypes ==
  ASSUME GrpTypes, ThrdTypes,
         NEW g \in Groups, NEW n \in Nat, NEW base \in Nat,
         NEW ts \in Seq(Works), base + n <= ThrdBound,
         CreateThreads(g, n, base, ts)
  PROVE  /\ thrdState' \in [Threads -> {"running", "idle"}]
         /\ currTask' \in [Threads -> Works \cup {None}]
         /\ activeThrds' \in [Groups -> SUBSET Threads]
         /\ activeLen' \in [Groups -> Int]
         /\ numThrds' = [numThrds EXCEPT ![g] = base + n]
<1> DEFINE new == {<<g, base + i>> : i \in 1..n}
<1>1. new \subseteq Threads
  BY PoolAssumption DEF Threads
<1>2. \A t \in new : FirstTask(ts, t[2] - base) \in Works \cup {None}
  <2> TAKE t \in new
  <2>1. PICK i \in 1..n : t = <<g, base + i>>
    OBVIOUS
  <2>2. t[2] - base = i
    BY <2>1
  <2>3. QED
    BY <2>2 DEF FirstTask
<1> HIDE DEF new
<1>3. /\ thrdState' = [t \in Threads |->
                         IF t \in new THEN BirthState ELSE thrdState[t]]
      /\ currTask' = [t \in Threads |-> IF t \in new
                                        THEN FirstTask(ts, t[2] - base)
                                        ELSE currTask[t]]
      /\ activeThrds' = [activeThrds EXCEPT ![g] = @ \cup new]
      /\ activeLen' = [activeLen EXCEPT ![g] = @ + n]
      /\ numThrds' = [numThrds EXCEPT ![g] = base + n]
  BY DEF CreateThreads, new
<1>4. thrdState' \in [Threads -> {"running", "idle"}]
  BY <1>3 DEF ThrdTypes, BirthState
<1>5. currTask' \in [Threads -> Works \cup {None}]
  BY <1>2, <1>3 DEF ThrdTypes
<1>6. activeThrds' \in [Groups -> SUBSET Threads]
  BY <1>1, <1>3 DEF GrpTypes
<1>7. activeLen' \in [Groups -> Int]
  BY <1>3 DEF GrpTypes
<1>8. QED
  BY <1>3, <1>4, <1>5, <1>6, <1>7

\* Starting threads moves them to "top" and nobody else.
LEMMA StartThreadsTypes ==
  ASSUME PcTypes, NEW g \in Groups, NEW n \in Nat, NEW base \in Nat,
         base + n <= ThrdBound
  PROVE  /\ StartThreads(pc, g, n, base) \in
              [Procs -> ClientLabels \cup ThreadLabels \cup ManagerLabels]
         /\ \A p \in Procs : \/ StartThreads(pc, g, n, base)[p] = pc[p]
                             \/ /\ StartThreads(pc, g, n, base)[p] = "top"
                                /\ p \in Threads
<1> DEFINE new == {<<g, base + i>> : i \in 1..n}
<1>1. new \subseteq Threads
  BY PoolAssumption DEF Threads
<1>2. StartThreads(pc, g, n, base) =
        [p \in Procs |-> IF p \in new THEN "top" ELSE pc[p]]
  BY DEF StartThreads
<1> HIDE DEF new
<1>3. QED
  BY <1>1, <1>2 DEF PcTypes, ThreadLabels

\* The manager never adds more threads than the group has room for.
LEMMA AddThrdsFits ==
  ASSUME GrpTypes, BudgetInv, NEW g \in Groups
  PROVE  addThrds(g) \in Nat /\ numThrds[g] + addThrds(g) <= thrdMax[g]
<1> DEFINE room == thrdMax[g] - numThrds[g]
<1>1. room \in 0..(UIntMod - 1) /\ room \in Nat
  BY PoolAssumption DEF GrpTypes, BudgetInv
<1>2. room % UIntMod = room
  BY <1>1, ModSmall, PoolAssumption
<1>3. addThrds(g) \in {0, room \div 2, room}
  BY <1>2 DEF addThrds
<1>4. room \div 2 \in Nat /\ room \div 2 <= room
  BY <1>1
<1>5. numThrds[g] \in Nat /\ thrdMax[g] \in Nat
  BY PoolAssumption DEF GrpTypes
<1>6. QED
  BY <1>1, <1>3, <1>4, <1>5

=============================================================================
