----------------------------- MODULE MCComments -----------------------------
(* One DAO and one proposal, two identities and up to two comments.  Votes
   change nothing a comment reads, so behaviours without them are enough. *)
EXTENDS Comments
CONSTANTS c1, c2

MCSecretOf(c) == IF c = c1 THEN 1 ELSE 2
MCNullifierOf(s, d, p) == s
MCSecret == {1, 2}
MCU256 == 0 .. 4

Settings ==
  /\ ballots = {}
  /\ \A d \in DaoId :
       IF dao_exists(d)
       THEN /\ is_membership_open(d)
            /\ members_can_propose(d)
            /\ tree_initialized(d)
            /\ get_admin(d) = member_list[d][1]
            /\ Len(member_list[d]) = Cardinality(members[d])
            /\ daos[d].metadata_cid = None
            /\ \A p \in DOMAIN proposals[d] :
                 proposals[d][p].content_cid = 0 /\ proposals[d][p].state = "Active"
       ELSE members[d] = {} /\ ~tree_initialized(d) /\ vks[d] = << >>

\* In a thread one comment at most is edited or deleted, and a text that was
\* never edited is 63.
Changes ==
  \A thread \in Threads :
    LET cs == comments[thread[1]][thread[2]]
        edited(id) == cs[id].revision_cids # << >>
    IN  /\ \A i, j \in DOMAIN cs :
             (edited(i) \/ is_deleted(cs[i])) /\ (edited(j) \/ is_deleted(cs[j])) => i = j
        /\ \A id \in DOMAIN cs : ~edited(id) => cs[id].content_cid = 63

\* Comments and removals read each other's state in one place only, the root check
\* of a new anonymous comment: a thread that is short is enough for it.
ShortAfterRemoval ==
  \A thread \in Threads :
    revoked[thread[1]] # {} => Len(comments[thread[1]][thread[2]]) < MaxComments

Symmetry == Permutations(Address)
=============================================================================
