------------------------------ MODULE MCVoting ------------------------------
(* One DAO, two addresses, a tree of two leaves.  Two of the three commitments
   share a secret (the same identity with another salt).  The field is F_3, and
   a nullifier n is also tried as n + 3, the other number that verifies; one
   identity's nullifier on the first proposal is the other's on the second. *)
EXTENDS Voting
CONSTANTS c1, c2, c3

MCSecretOf(c) == IF c = c3 THEN 2 ELSE 1
MCNullifierOf(s, d, p) == IF p = 1 THEN s ELSE 3 - s
MCSecret == {1, 2}
MCU256 == {0, 1, 2, 4}

\* What MCTree explores is fixed here: the DAO was created by a create_and_init
\* transaction, nobody having used its id before, it is open, its members may
\* propose, and the list names nobody twice.
Settings ==
  \A d \in DaoId :
    IF dao_exists(d)
    THEN /\ is_membership_open(d)
         /\ members_can_propose(d)
         /\ tree_initialized(d)
         /\ get_admin(d) = member_list[d][1]
         /\ Len(member_list[d]) = Cardinality(members[d])
    ELSE members[d] = {} /\ ~tree_initialized(d) /\ vks[d] = << >>

\* The members change around one proposal under one key ...
OnePoll ==
  \A d \in DaoId :
    /\ Len(proposals[d]) <= 1 /\ vk_version(d) <= 1 /\ now = 0
    /\ \A p \in DOMAIN proposals[d] :
         proposals[d][p].end_time = 0 /\ proposals[d][p].state = "Active"

\* ... or keys and time change around two proposals of a DAO with one member, who
\* stays: every operation reads and writes one proposal only, so that one
\* combination of mode and deadline is enough for the second.
OneMember ==
  \A d \in DaoId :
    /\ Cardinality(members[d]) <= 1 /\ revoked[d] = {}
    /\ tree_initialized(d) =>
         /\ DOMAIN tree[d].leaf_index \subseteq {c3}
         /\ DOMAIN tree[d].member_leaf_index \subseteq members[d]
    /\ Len(proposals[d]) > 1 =>
         proposals[d][2].vote_mode = "Trailing" /\ proposals[d][2].end_time = 1

Instance == Settings /\ (OnePoll \/ OneMember)

MCSpec == Init /\ [][Next /\ Instance']_vars

Symmetry ==
  Permutations(Address) \cup Permutations({c1, c2}) \cup Permutations(VoteCircuitVk)
=============================================================================
