------------------------------- MODULE Logger -------------------------------
(***************************************************************************)
(* The logger of src/src/logger.c: threads append log records to a list    *)
(* under logMutex, and one logging thread writes them to the log file.     *)
(*                                                                         *)
(* As in Pool, a critical section is one step that is enabled when the     *)
(* mutex is free.  One section does not end: the logging thread leaves its *)
(* loop by a break that skips the unlock.                                  *)
(***************************************************************************)
EXTENDS Naturals, Sequences

CONSTANTS
  Loggers,   \* threads that call trash_log
  Msgs,      \* log records
  MaxLogs,   \* bound on the records accepted (for model checking)
  MaxInits   \* bound on the calls of init_logger (for model checking)

ASSUME LoggerAssumption == MaxLogs \in Nat /\ MaxInits \in Nat

VARIABLES
  logMutex,    \* free, or held by the logging thread
  flags,       \* the static flags
  logs,        \* the list of records not yet written
  logThread,   \* none, awake, asleep on logCond, or exited
  status,      \* the caller's view: which of init and close has been called
  pc,          \* whether a thread is inside trash_log
  msg,         \* its record
  accepted,    \* ghost: the records trash_log accepted, in order
  written,     \* the records in the log file, in order
  inits        \* how often init_logger was called

vars == <<logMutex, flags, logs, logThread, status, pc, msg, accepted,
          written, inits>>

Init ==
  /\ logMutex = "free"
  /\ flags = {}
  /\ logs = <<>>
  /\ logThread = "none"
  /\ status = "down"
  /\ pc = [p \in Loggers |-> "out"]
  /\ msg \in [Loggers -> Msgs]
  /\ accepted = <<>>
  /\ written = <<>>
  /\ inits = 0

-----------------------------------------------------------------------------
\* init_logger is called when nobody uses the logger, also after a close.
MayInit ==
  /\ status \in {"down", "failed", "closed"}
  /\ \A p \in Loggers : pc[p] = "out"
  /\ inits < MaxInits

\* The file is opened, at the first attempt or after its directory was made.
init_logger ==
  /\ MayInit
  /\ logs' = <<>>
  /\ logMutex' = "free"
  /\ flags' = flags \cup {"OPEN_Q"}
  /\ logThread' = "awake"
  /\ status' = "up"
  /\ inits' = inits + 1
  /\ UNCHANGED <<pc, msg, accepted, written>>

\* Both attempts fail: TRASH_ERROR, with the list and the mutex initialised.
init_logger_fails ==
  /\ MayInit
  /\ logs' = <<>>
  /\ logMutex' = "free"
  /\ status' = "failed"
  /\ inits' = inits + 1
  /\ UNCHANGED <<flags, logThread, pc, msg, accepted, written>>

\* Definitions marked "Variant" are faulty forms of the one that follows
\* them.  Next does not use them; they show which property notices the fault.

\* close_logger's pthread_cond_signal.  Variant: left out.
ThreadNotSignalled == logThread

ThreadSignalled == IF logThread = "asleep" THEN "awake" ELSE logThread

\* The flags of a closed queue.  Variant: OPEN_Q is masked out, no more.
ClosedFlagsMasked == flags \ {"OPEN_Q"}

ClosedFlags == {"CLOSE_Q"}

\* close_logger: the queue is closed and the logging thread signalled ...
close_logger ==
  /\ status = "up"
  /\ logMutex = "free"
  /\ flags' = ClosedFlags
  /\ logThread' = ThreadSignalled
  /\ status' = "closing"
  /\ UNCHANGED <<logMutex, logs, pc, msg, accepted, written, inits>>

\* ... and joined.  The mutex is destroyed in whatever state it is.
close_logger_join ==
  /\ status = "closing"
  /\ logThread = "exited"
  /\ status' = "closed"
  /\ UNCHANGED <<logMutex, flags, logs, logThread, pc, msg, accepted, written,
                 inits>>

-----------------------------------------------------------------------------
\* trash_log: the record is made before logMutex is locked.
trash_log(p, m) ==
  /\ pc[p] = "out"
  /\ status \in {"up", "closing", "failed"}
  /\ Len(accepted) < MaxLogs
  /\ pc' = [pc EXCEPT ![p] = "lock"]
  /\ msg' = [msg EXCEPT ![p] = m]
  /\ UNCHANGED <<logMutex, flags, logs, logThread, status, accepted, written,
                 inits>>

\* Is the queue closed for new records?
Refusing == "OPEN_Q" \notin flags

\* The condition of the signal, tested after list_append.
WakesThread(list) == Len(list) < 1

trash_log_refused(p) ==
  /\ pc[p] = "lock"
  /\ logMutex = "free"
  /\ Refusing
  /\ pc' = [pc EXCEPT ![p] = "out"]
  /\ UNCHANGED <<logMutex, flags, logs, logThread, status, msg, accepted,
                 written, inits>>

trash_log_append(p) ==
  /\ pc[p] = "lock"
  /\ logMutex = "free"
  /\ ~Refusing
  /\ logs' = Append(logs, msg[p])
  /\ accepted' = Append(accepted, msg[p])
  /\ logThread' = IF WakesThread(logs') THEN ThreadSignalled ELSE logThread
  /\ pc' = [pc EXCEPT ![p] = "out"]
  /\ UNCHANGED <<logMutex, flags, status, msg, written, inits>>

-----------------------------------------------------------------------------
(***************************************************************************)
(* log_func, the logging thread.                                           *)
(***************************************************************************)
\* Nothing to write and the queue is open: pthread_cond_wait.
log_func_sleep ==
  /\ logThread = "awake"
  /\ logMutex = "free"
  /\ logs = <<>>
  /\ "OPEN_Q" \in flags
  /\ logThread' = "asleep"
  /\ UNCHANGED <<logMutex, flags, logs, status, pc, msg, accepted, written,
                 inits>>

\* pthread_cond_wait may return without a signal.
log_func_spurious ==
  /\ logThread = "asleep"
  /\ logThread' = "awake"
  /\ UNCHANGED <<logMutex, flags, logs, status, pc, msg, accepted, written,
                 inits>>

\* The test that ends the thread.  Variant: the length is not tested.
LastTurnUntested == "OPEN_Q" \notin flags /\ "CLOSE_Q" \in flags

LastTurn == logs = <<>> /\ "OPEN_Q" \notin flags /\ "CLOSE_Q" \in flags

\* The break: logMutex stays locked.
log_func_exit ==
  /\ logThread = "awake"
  /\ logMutex = "free"
  /\ LastTurn
  /\ logMutex' = "logThread"
  /\ logThread' = "exited"
  /\ UNCHANGED <<flags, logs, status, pc, msg, accepted, written, inits>>

\* The record list_pop takes.  Variant: the newest.
NextRecordNewest == logs[Len(logs)]

NextRecord == Head(logs)

\* A record is written and flushed under logMutex.
log_func_write ==
  /\ logThread = "awake"
  /\ logMutex = "free"
  /\ logs # <<>>
  /\ written' = Append(written, NextRecord)
  /\ logs' = Tail(logs)
  /\ UNCHANGED <<logMutex, flags, logThread, status, pc, msg, accepted, inits>>

-----------------------------------------------------------------------------
LogThreadStep == log_func_sleep \/ log_func_exit \/ log_func_write

LoggerStep(p) == trash_log_refused(p) \/ trash_log_append(p)

\* The logger is closed, or was not opened, and is not used any more.
Terminated == status \in {"closed", "failed"} /\ UNCHANGED vars

Next ==
  \/ init_logger \/ init_logger_fails
  \/ close_logger \/ close_logger_join
  \/ \E p \in Loggers : \/ \E m \in Msgs : trash_log(p, m)
                        \/ LoggerStep(p)
  \/ LogThreadStep \/ log_func_spurious
  \/ Terminated

Spec == Init /\ [][Next]_vars

-----------------------------------------------------------------------------
(***************************************************************************)
(* Properties.                                                             *)
(***************************************************************************)
\* The static variables of logger.c and the callers' locals are in range; an
\* initialised logger is open or closed.  So the logging thread, which pops
\* without looking again (line 214), never pops an empty list.
TypeOK ==
  /\ logMutex \in {"free", "logThread"}
  /\ flags \subseteq {"OPEN_Q", "CLOSE_Q"}
  /\ logs \in Seq(Msgs)
  /\ logThread \in {"none", "awake", "asleep", "exited"}
  /\ logThread # "none" => flags # {}
  /\ status \in {"down", "failed", "up", "closing", "closed"}
  /\ pc \in [Loggers -> {"out", "lock"}]
  /\ msg \in [Loggers -> Msgs]
  /\ accepted \in Seq(Msgs)
  /\ written \in Seq(Msgs)
  /\ inits \in Nat

\* The file holds a prefix of the records trash_log accepted, in the order in
\* which it accepted them, and the list holds exactly the rest: no record is
\* lost, duplicated or reordered, also when the logger is closed and started
\* again (init_list at line 49 throws nothing away).
WrittenInOrder == accepted = written \o logs

\* "Finishes flushing remaining logs." (line 87): when close_logger returns,
\* every accepted record is in the file.
ClosedIsFlushed == status = "closed" => written = accepted

\* Threads run: the logging thread takes its steps when it can, and a thread
\* inside trash_log or close_logger goes on when it can.  Nobody has to call
\* anything, and spurious wakeups need not happen.
Fairness ==
  /\ WF_vars(LogThreadStep)
  /\ WF_vars(close_logger_join)
  /\ \A p \in Loggers : WF_vars(LoggerStep(p))

FairSpec == Spec /\ Fairness

\* close_logger returns: its signal reaches a sleeping thread, and the thread
\* ends once it has written everything (lines 96, 99 and 209).
CloseReturns == status = "closing" ~> status = "closed"

\* "data is flushed immediately" (line 191), and a record that finds the list
\* empty wakes the thread (line 139): an accepted record reaches the file.
AcceptedIsWritten ==
  \A n \in 1..MaxLogs : Len(accepted) >= n ~> Len(written) >= n

=============================================================================
