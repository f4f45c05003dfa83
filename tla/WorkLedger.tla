----------------------------- MODULE WorkLedger -----------------------------
(***************************************************************************)
(* What a thread pool promises about works, and nothing else: a work is    *)
(* accepted once, then started once, then finished once.                   *)
(***************************************************************************)
CONSTANT Works

VARIABLES pending, running, finished

ledger == <<pending, running, finished>>

Init ==
  /\ pending = {}
  /\ running = {}
  /\ finished = {}

Accept(w) ==
  /\ w \notin pending \cup running \cup finished
  /\ pending' = pending \cup {w}
  /\ UNCHANGED <<running, finished>>

Start(w) ==
  /\ w \in pending
  /\ pending' = pending \ {w}
  /\ running' = running \cup {w}
  /\ UNCHANGED finished

Finish(w) ==
  /\ w \in running
  /\ running' = running \ {w}
  /\ finished' = finished \cup {w}
  /\ UNCHANGED pending

Next == \E w \in Works : Accept(w) \/ Start(w) \/ Finish(w)

Spec == Init /\ [][Next]_ledger

=============================================================================
