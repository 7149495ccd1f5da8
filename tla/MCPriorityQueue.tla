-------------------------- MODULE MCPriorityQueue --------------------------
(* Small instances of PriorityQueue for TLC.  Two ids are made for the same *)
(* task, so that pushes can collide on the hash without colliding on the id. *)
EXTENDS PriorityQueue, TLC

CONSTANTS i1, i2, i3, h1, h2, t1, t2

OneTask == {i1, i2}
ThreeIds == {i1, i2, i3}
TwoHashes == {h1, h2}
TwoPriorities == {1, 2}

HashOf == [i \in Ids |-> IF i \in {i1, i2} THEN h1 ELSE h2]

\* The populators' pushes: the hash is filled in.
HashedItems == {p \in Item : p.hash = create_hash[p.id]}

\* The pushes of clients that may leave the hash out.
AnyItems == {p \in Item : p.hash \in {None, create_hash[p.id]}}

\* The second id of h1, and pushes without a hash, with a priority of their own.
MixedItems == {p \in AnyItems :
  p.id = i1 \/ (p.hash # None /\ p.priority = (IF p.id = i2 THEN 1 ELSE 2))}

\* The threads do the same work.
ThreadSymmetry == Permutations({t1, t2})

NoFilter == {Hashes}
FilterOnHash == {Hashes, {h1}}
=============================================================================
