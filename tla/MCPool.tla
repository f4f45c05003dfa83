------------------------------- MODULE MCPool -------------------------------
(***************************************************************************)
(* Instances of the pool for TLC: the arguments add_group is called with,  *)
(* the calls each client makes, and the symmetry of the safety runs.       *)
(***************************************************************************)
EXTENDS PoolProperties, TLC

CONSTANTS c1, c2    \* the clients, when they do not make the same calls

dynamic(lo, hi) == [min |-> lo, max |-> hi, flags |-> "GROUP_DYNAMIC"]
fixed(lo, hi)   == [min |-> lo, max |-> hi, flags |-> "GROUP_FIXED"]

TwoAtOnce  == {fixed(2, 2)}
OneToTwo   == {dynamic(1, 2)}
UpToThree  == {dynamic(0, 3), fixed(1, 2)}

EveryClient(ops) == [c \in Clients |-> ops]

WorkThenDestroyPool == EveryClient({"add_group", "do_work", "destroy_pool"})
AddGroupsOnly       == EveryClient({"add_group"})
GroupsComeAndGo     ==
  EveryClient({"add_group", "do_work", "wait_pool", "destroy_group"})

\* c1 makes the calls first, every other client those of others.
Shared(first, others) == [c \in Clients |-> IF c = c1 THEN first ELSE others]

WorkAndWait ==
  Shared({"do_work", "wait_pool"},
         {"add_group", "do_work", "destroy_group", "destroy_pool"})

\* pool_core: destroy_group is called on groups that do not grow; a group that
\* grows goes with the pool.
FixedGroupsGo ==
  \A c \in Clients : frame[c].call = "destroy_group" => thrdMax[frame[c].grp] = 1

WaitAndDestroy ==
  Shared({"wait_pool"},
         {"add_group", "do_work", "destroy_group", "destroy_pool"})

WorksSymmetry == Permutations(Works)

=============================================================================
