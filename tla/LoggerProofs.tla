---------------------------- MODULE LoggerProofs ----------------------------
(***************************************************************************)
(* The logger keeps every accepted record, in order, for any number of     *)
(* threads, records, and calls of init_logger and close_logger.            *)
(***************************************************************************)
EXTENDS Logger, SequenceTheorems, TLAPS

\* A logger that is not up has no record left, and its thread, once it has
\* ended, left none: the only thread that appends is one that saw OPEN_Q.
ShutInv ==
  /\ status \in {"down", "failed", "closed"} =>
       logs = <<>> /\ "OPEN_Q" \notin flags
  /\ logThread = "exited" => logs = <<>> /\ "OPEN_Q" \notin flags
  /\ status = "closing" => "OPEN_Q" \notin flags
  /\ status = "up" => logThread \in {"awake", "asleep"} /\ "OPEN_Q" \in flags

LInv == TypeOK /\ ShutInv /\ WrittenInOrder

\* Appending the same record on both sides keeps the order.
LEMMA AppendKeepsOrder ==
  ASSUME NEW s \in Seq(Msgs), NEW r \in Seq(Msgs), NEW m \in Msgs
  PROVE  Append(s \o r, m) = s \o Append(r, m)
  OBVIOUS

\* Moving the head of the list to the end of the file keeps the order.
LEMMA MoveKeepsOrder ==
  ASSUME NEW s \in Seq(Msgs), NEW r \in Seq(Msgs), r # <<>>
  PROVE  Append(s, Head(r)) \o Tail(r) = s \o r
<1> DEFINE lhs == Append(s, Head(r)) \o Tail(r)
<1>1. /\ Head(r) \in Msgs /\ Tail(r) \in Seq(Msgs) /\ Len(r) \in Nat
      /\ Len(Tail(r)) = Len(r) - 1 /\ Head(r) = r[1]
      /\ \A i \in 1..(Len(r) - 1) : Tail(r)[i] = r[i + 1]
  BY HeadTailProperties
<1>2. lhs \in Seq(Msgs) /\ (s \o r) \in Seq(Msgs)
  BY <1>1
<1>3. Len(lhs) = Len(s \o r)
  BY <1>1
<1>4. ASSUME NEW i \in 1..Len(lhs) PROVE lhs[i] = (s \o r)[i]
  BY <1>1, <1>3
<1>5. QED
  BY <1>2, <1>3, <1>4, SeqEqual

\* Each step preserves the invariant.
LEMMA NextLInv ==
  ASSUME LInv, [Next]_vars
  PROVE  LInv'
<1> USE DEF LInv
<1>1. CASE init_logger
  <2>1. TypeOK'
    BY <1>1, SMTT(30) DEF init_logger, MayInit, TypeOK
  <2>2. ShutInv'
    BY <1>1, SMTT(30) DEF init_logger, MayInit, ShutInv, TypeOK
  <2>3. logs = <<>>
    BY <1>1 DEF init_logger, MayInit, ShutInv
  <2>4. WrittenInOrder'
    BY <1>1, <2>3, Zenon DEF init_logger, WrittenInOrder
  <2>5. QED
    BY <2>1, <2>2, <2>4
<1>2. CASE init_logger_fails
  BY <1>2 DEF init_logger_fails, MayInit, TypeOK, ShutInv, WrittenInOrder
<1>3. CASE close_logger
  BY <1>3 DEF close_logger, ClosedFlags, ThreadSignalled, TypeOK, ShutInv,
              WrittenInOrder
<1>4. CASE close_logger_join
  BY <1>4 DEF close_logger_join, TypeOK, ShutInv, WrittenInOrder
<1>5. ASSUME NEW p \in Loggers, NEW m \in Msgs, trash_log(p, m)
      PROVE  LInv'
  BY <1>5 DEF trash_log, TypeOK, ShutInv, WrittenInOrder
<1>6. ASSUME NEW p \in Loggers, trash_log_refused(p)
      PROVE  LInv'
  BY <1>6 DEF trash_log_refused, TypeOK, ShutInv, WrittenInOrder
<1>7. ASSUME NEW p \in Loggers, trash_log_append(p)
      PROVE  LInv'
  <2>1. msg[p] \in Msgs
    BY DEF TypeOK
  <2>2. TypeOK' /\ ShutInv'
    BY <1>7, <2>1, SMTT(30) DEF trash_log_append, Refusing, ThreadSignalled,
                                TypeOK, ShutInv
  <2>3. WrittenInOrder'
    BY <1>7, <2>1, AppendKeepsOrder, ZenonT(30) DEF trash_log_append, TypeOK,
                                                    WrittenInOrder
  <2>4. QED
    BY <2>2, <2>3
<1>8. CASE log_func_sleep
  BY <1>8 DEF log_func_sleep, TypeOK, ShutInv, WrittenInOrder
<1>9. CASE log_func_spurious
  BY <1>9 DEF log_func_spurious, TypeOK, ShutInv, WrittenInOrder
<1>10. CASE log_func_exit
  BY <1>10 DEF log_func_exit, LastTurn, TypeOK, ShutInv, WrittenInOrder
<1>11. CASE log_func_write
  <2>1. TypeOK' /\ ShutInv'
    BY <1>11, SMTT(30) DEF log_func_write, NextRecord, TypeOK, ShutInv
  <2>2. WrittenInOrder'
    BY <1>11, MoveKeepsOrder, SMTT(30) DEF log_func_write, NextRecord, TypeOK,
                                           WrittenInOrder
  <2>3. QED
    BY <2>1, <2>2
<1>12. CASE UNCHANGED vars
  BY <1>12 DEF vars, TypeOK, ShutInv, WrittenInOrder
<1>13. QED
  BY <1>1, <1>2, <1>3, <1>4, <1>5, <1>6, <1>7, <1>8, <1>9, <1>10, <1>11,
     <1>12 DEF Next, LoggerStep, LogThreadStep, Terminated

\* The invariant holds before the first init_logger.
LEMMA InitLInv == Init => LInv
  BY DEF Init, LInv, TypeOK, ShutInv, WrittenInOrder

\* No accepted record is ever lost, duplicated or reordered (trash_log and
\* log_func, any interleaving, across restarts of the logger).
THEOREM LogsInOrder == Spec => []WrittenInOrder
<1>1. LInv => WrittenInOrder
  BY DEF LInv
<1>2. QED
  BY InitLInv, NextLInv, <1>1, PTL DEF Spec

\* When close_logger has returned, the file holds every accepted record.
THEOREM CloseFlushes == Spec => []ClosedIsFlushed
<1>1. LInv => ClosedIsFlushed
  BY DEF LInv, TypeOK, ShutInv, WrittenInOrder, ClosedIsFlushed
<1>2. QED
  BY InitLInv, NextLInv, <1>1, PTL DEF Spec

=============================================================================
