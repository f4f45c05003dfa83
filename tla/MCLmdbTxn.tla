----------------------------- MODULE MCLmdbTxn -----------------------------
(***************************************************************************)
(* Instances of LmdbTxn for TLC.  A scenario says who reads and writes,    *)
(* how deep transactions nest, which fault may happen and how often, how   *)
(* the environment was opened, whether the file system keeps the order of  *)
(* writes, the last transaction id, the room of the dirty list, and the    *)
(* operations of a transaction (one before transaction busy).              *)
(***************************************************************************)
EXTENDS LmdbTxn, TLC

CONSTANTS p1, p2

\* One process reads while another commits five transactions.
ReadersAndWriter ==
    [readers |-> {p1}, writers |-> {p2}, nest |-> 0, fault |-> "none",
     faults |-> 1, sync |-> "sync", ordered |-> FALSE, txns |-> 5, room |-> 9,
     ops |-> 2, busy |-> 0]

\* The fourth transaction has a child; there are old free-list records to use.
Nested ==
    [ReadersAndWriter EXCEPT !.readers = {}, !.nest = 1, !.txns = 4, !.room = 3,
                             !.ops = 3, !.busy = 4]

\* A parent and its child dirty more pages than the dirty list holds.
Spilled == [Nested EXCEPT !.txns = 1, !.ops = 4, !.busy = 1]

Faulty(kind) == [ReadersAndWriter EXCEPT !.fault = kind, !.ops = 1]

KilledProcess ==
    [Faulty("kill") EXCEPT !.writers = {p1, p2}, !.txns = 4]

\* A write fails; the process that wrote cannot go on, the other one can.
FailedWrite == [Faulty("ioerror") EXCEPT !.writers = {p1, p2}]

\* The machine crashes; the environment was opened with these sync flags.
Crashing(sync, ordered) ==
    [Faulty("crash") EXCEPT !.readers = {}, !.txns = 4, !.sync = sync,
                            !.ordered = ordered]

AllScenarios ==
    {ReadersAndWriter, Nested, Spilled, KilledProcess, Faulty("backup"),
     FailedWrite, Crashing("sync", FALSE), Crashing("nometa", FALSE),
     Crashing("nosync", TRUE)}

KeySymmetry == Permutations(Keys)
=============================================================================
