------------------------------- MODULE MCTree -------------------------------
(* The tree over the token and the registry: one DAO, trees of depth 1 and 2,
   a root history short enough to be evicted from. *)
EXTENDS MembershipTree

\* Neither contract reads members_can_propose, and no operation of the tree reads
\* aliases or the enumeration list: aliases, and addresses listed twice, are
\* explored before there is a tree.
Apart ==
  \A d \in DaoId :
    /\ dao_exists(d) => members_can_propose(d)
    /\ tree_initialized(d) =>
         /\ \A a \in Address : alias[d][a] = None
         /\ Len(member_list[d]) = Cardinality(members[d])

Symmetry == Permutations(Address) \cup Permutations(Leaf \ {Zero})
=============================================================================
