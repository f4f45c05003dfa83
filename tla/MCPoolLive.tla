----------------------------- MODULE MCPoolLive -----------------------------
(***************************************************************************)
(* The instance for the pool's liveness.  A behaviour follows one of two   *)
(* usages: one client waits for the pool and the other one destroys it; or *)
(* tasks submit works, and their group is destroyed under them.  A usage   *)
(* restricts the calls that are made, never a step inside a call.          *)
(***************************************************************************)
EXTENDS MCPool

VARIABLE usage

Usages ==
  {[calls |-> {"add_group", "do_work", "wait_pool", "destroy_pool"}, tasks |-> FALSE],
   [calls |-> {"add_group", "do_work", "destroy_group"}, tasks |-> TRUE]}

CallOf(c) == IF pc[c] \in {"wp_scan", "wp_wait"} THEN "wait_pool" ELSE frame[c].call

Follows(u) ==
  /\ \A c \in Clients : CallOf(c) \in u.calls \cup {"none"}
  /\ u.tasks \/ \A t \in Threads : frame[t].call = "none"

LiveInit == Init /\ usage \in Usages
LiveNext == Next /\ UNCHANGED usage /\ Follows(usage)'
LiveSpec == LiveInit /\ [][LiveNext]_<<vars, usage>> /\ Fairness

=============================================================================
