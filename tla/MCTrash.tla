------------------------------ MODULE MCTrash -------------------------------
(***************************************************************************)
(* Instances for TLC of requests over databases, and of the message        *)
(* buffer.  The two share nothing, so a behaviour has steps of one of them *)
(* only; its bound says of which.                                          *)
(***************************************************************************)
EXTENDS Requests, TBuffer, TLC

NamesAB == <<"a", "b">>
SomeFlags == {{}, {"MDB_DUPSORT"}}
ThreeGroups == <<"g1", "g2", "g3">>

\* Databases opened by two processes, without requests; more requests than
\* reader groups, with little else; and a message.
ThreeBounds == {[starts |-> 2, calls |-> 3, opens |-> 3, works |-> 0, message |-> FALSE],
                [starts |-> 2, calls |-> 1, opens |-> 2, works |-> 5, message |-> FALSE],
                [starts |-> 0, calls |-> 0, opens |-> 0, works |-> 0, message |-> TRUE]}

TrashInit == Init /\ TbInit
TrashNext ==
  \/ Next /\ UNCHANGED tbvars
  \/ bound.message /\ TbNext /\ UNCHANGED vars

TrashSpec == TrashInit /\ [][TrashNext]_<<vars, tbvars>> /\ Fairness
=============================================================================
