------------------------------- MODULE MCBtree -------------------------------
(* Small pages: a leaf holds two nodes of size 2, a branch three children,   *)
(* so that six keys make a tree of three levels.                             *)
EXTENDS Btree

\* One cursor reads while keys come and go in a deep tree; its separators differ in
\* size, so that replacing one may split the branch.
LongKeys == [leafRoom |-> 5, branchRoom |-> 4, ksize |-> <<1, 2, 1, 2, 1, 2>>,
             values |-> {2}, readers |-> {1}, writers |-> {}, commits |-> 0]

\* Values change their size.
Resized == [LongKeys EXCEPT !.leafRoom = 4, !.ksize = [k \in 1..3 |-> 1], !.values = {1, 2}]

\* Both cursors write.
Writers == [LongKeys EXCEPT !.ksize = [k \in 1..3 |-> 1], !.readers = {2}, !.writers = {1, 2}]

\* Pages of an earlier transaction are copied before they are changed.
Committed == [LongKeys EXCEPT !.branchRoom = 2, !.ksize = [k \in 1..4 |-> 1], !.writers = {1}, !.commits = 1]

AllScenarios == {LongKeys, Resized, Writers, Committed}
=============================================================================
