------------------------------ MODULE Requests ------------------------------
(***************************************************************************)
(* The scheduler of requests (src/cook.c) over the databases.  scheduler() *)
(* hands a work to the first reader group, in rotation, that is not full;  *)
(* a thread of the pool later executes it, which is cook_func.  The pool   *)
(* answers do_work as module Pool specifies it; here a group may be full   *)
(* at any call.                                                            *)
(***************************************************************************)
EXTENDS TrashDb, SequencesExt

CONSTANTS
  RdrGroups     \* the reader groups, in the order of init_thread_groups

VARIABLES
  rdrs,         \* the list of reader groups: its links and its len
  queued,       \* works that groups accepted and no thread has taken
  accepted,     \* works accepted so far in this process
  works         \* calls of scheduler() so far in this process

cookvars == <<rdrs, queued, accepted, works>>
vars == <<dbvars, cookvars>>

\* init_thread_groups.
Groups == [items |-> RdrGroups, len |-> Len(RdrGroups)]
CookFresh == rdrs' = Groups /\ queued' = 0 /\ accepted' = 0 /\ works' = 0

\* list_rotate: list_pop takes the first item and one off len, item_append puts
\* the item behind the last one and leaves len.
list_rotate(l) == [items |-> Append(Tail(l.items), Head(l.items)), len |-> l.len - 1]

\* The list after n rotations.
Rotated(l, n) == FoldLeft(LAMBDA m, i : list_rotate(m), l, [i \in 1..n |-> i])

\* The loop of scheduler() tries the i-th group (from 0) while i < rdrs.len.
Tries(l, i) == i < Rotated(l, i).len

\* scheduler(): full is the number of groups that refuse before one accepts.
\* When the loop runs out, nobody has the work.
scheduler(full) ==
  /\ oEnv = "open" /\ works < bound.works
  /\ works' = works + 1
  /\ \A i \in 0..(full - 1) : Tries(rdrs, i)
  /\ LET taken == Tries(rdrs, full) IN
     /\ rdrs' = Rotated(rdrs, IF taken THEN full + 1 ELSE full)
     /\ queued' = IF taken THEN queued + 1 ELSE queued
     /\ accepted' = IF taken THEN accepted + 1 ELSE accepted
  /\ UNCHANGED dbvars

\* A thread of the pool takes a work and executes cook_func.
cook_func(t) ==
  /\ queued > 0
  /\ init_thread_local_readers(t)
  /\ IF oEnv' = "open" THEN queued' = queued - 1 /\ UNCHANGED <<rdrs, accepted, works>>
     ELSE CookFresh

Init ==
  /\ DbInit
  /\ rdrs = Groups /\ queued = 0 /\ accepted = 0 /\ works = 0

\* A step of db.c; the scheduler's state goes with the process.
DbStep == DbNext /\ IF oEnv' = "open" THEN UNCHANGED cookvars ELSE CookFresh

Next ==
  \/ DbStep
  \/ \E full \in 0..Len(RdrGroups) : scheduler(full)
  \/ \E t \in Threads : cook_func(t)

Spec == Init /\ [][Next]_vars

\* Threads take the steps that nothing outside db.c decides, and return their
\* write transactions.  LMDB's mutex is granted to a thread for which it stays
\* free, which is all that a pthread mutex promises.
Fairness == \A t \in Threads : WF_vars(Proceeds(t) /\ Next)
FairSpec == Spec /\ Fairness

\* A thread that has called open_db returns from it (or its process ends), also
\* when it had to wait for the writer: no thread keeps LMDB's write mutex after
\* return_txn, and a thread that waits for it holds nothing another one needs.
OpenDbReturns == \A t \in Threads : pc[t] # "idle" ~> pc[t] = "idle"

\* "the func that will be called in the thread function" (pool.c 368) is the
\* cook_func that scheduler() puts into its work (cook.c 71), and the loop of
\* line 73 goes on while groups answer GROUP_FULL: as long as one of the reader
\* groups is not full, a work that scheduler() made is given to a group, and so
\* executed.  It is not: list_rotate takes one off the list's len and never puts
\* it back (il.h 67-68), so the loop tries fewer groups with every work.
ScheduledIsPlaced ==
  [][\A full \in 0..(Len(RdrGroups) - 1) :
       scheduler(full) => accepted' = accepted + 1]_vars
=============================================================================
