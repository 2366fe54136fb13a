------------------------------ MODULE Comments ------------------------------
(***************************************************************************)
(* The comments contract over the voting system: threads of public and     *)
(* anonymous comments on each proposal.  An anonymous comment is proved    *)
(* with the vote circuit and keeps the nullifier, which is how its author  *)
(* edits or deletes it later.  Timestamps are left out, no check reads     *)
(* them.                                                                   *)
(***************************************************************************)
EXTENDS Voting

CONSTANTS
  MAX_REVISIONS,  \* 50 in the code
  MaxComments     \* bound of the model: comments per proposal

\* No address or number is Option::None, and Poseidon has no collisions.
ASSUME CommentsAssumption ==
  /\ MAX_REVISIONS \in Nat
  /\ MaxComments \in Nat
  /\ None \notin Address
  /\ None \notin Nat
  /\ \A s, t \in Secret, d \in DaoId, p \in 1 .. MaxProposals :
       nullifier_of(s, d, p) = nullifier_of(t, d, p) => s = t

VARIABLES
  comments,  \* comments[d][p][id]; CommentCount(d, p) is its length
  hands      \* history: hands[d][p][id] is who wrote, edited or withdrew it

comments_vars == <<comments, hands>>
all_vars == <<vars, comments_vars>>

CommentId == 1 .. MaxComments

ByAddress(a) == <<"address", a>>
BySecret(s) == <<"secret", s>>

get_vk(d) == vks[d][vk_version(d)]
comment_exists(d, p, id) == id \in DOMAIN comments[d][p]
parent_exists(d, p, parent) == parent = None \/ comment_exists(d, p, parent)

\* Mutant of validate_root_eligibility: removals do not invalidate roots.
EligibleDespiteRemoval(d, p, root) ==
  LET proposal == proposals[d][p]
  IN  IF proposal.vote_mode = "Fixed" THEN root = proposal.eligible_root
      ELSE /\ root_ok(tree[d], root)
           /\ ~(root_idx(tree[d], root) < proposal.earliest_root_index)

\* This contract's own copy of the root check of vote.
validate_root_eligibility(d, p, root) ==
  LET proposal == proposals[d][p]
  IN  IF proposal.vote_mode = "Fixed" THEN root = proposal.eligible_root
      ELSE /\ root_ok(tree[d], root)
           /\ ~(root_idx(tree[d], root) < proposal.earliest_root_index)
           /\ ~(root_idx(tree[d], root) < tree[d].min_valid_root_idx)

\* The vote circuit under the DAO's newest key, not the proposal's.
proves(d, p, nullifier, root, proof) ==
  /\ vk_version(d) > 0
  /\ verify_groth16(get_vk(d), proof, root, nullifier, d, p)

(***************************************************************************)
(* Writing.                                                                *)
(***************************************************************************)
post(d, p, author, nullifier, content_cid, parent, hand) ==
  /\ Len(comments[d][p]) < MaxComments
  /\ comments' = [comments EXCEPT ![d][p] = Append(@,
       [ author        |-> author,
         nullifier     |-> nullifier,
         content_cid   |-> content_cid,
         parent_id     |-> parent,
         revision_cids |-> << >>,
         deleted_by    |-> "None" ])]
  /\ hands' = [hands EXCEPT ![d][p] = Append(@, {hand})]

\* Mutant of add_comment: any parent is accepted.
AddToAnyParent(d, p, content_cid, parent, author) ==
  /\ content_cid <= MAX_CID_LEN
  /\ has(d, author)
  /\ proposal_exists(d, p)
  /\ post(d, p, author, None, content_cid, parent, ByAddress(author))

add_comment(d, p, content_cid, parent, author) ==
  /\ content_cid <= MAX_CID_LEN
  /\ has(d, author)
  /\ proposal_exists(d, p)
  /\ parent_exists(d, p, parent)
  /\ post(d, p, author, None, content_cid, parent, ByAddress(author))

\* Mutant of add_anonymous_comment: a zero nullifier and one out of the field
\* are accepted.
AddUnreduced(d, p, content_cid, parent, nullifier, root, proof) ==
  /\ content_cid <= MAX_CID_LEN
  /\ parent_exists(d, p, parent)
  /\ proposal_exists(d, p)
  /\ validate_root_eligibility(d, p, root)
  /\ proves(d, p, nullifier, root, proof)
  /\ post(d, p, None, nullifier, content_cid, parent, BySecret(secret_of(proof.leaf)))

\* Nullifiers are not tracked: an identity may comment any number of times.
add_anonymous_comment(d, p, content_cid, parent, nullifier, root, proof) ==
  /\ in_field(nullifier)
  /\ nullifier # 0
  /\ content_cid <= MAX_CID_LEN
  /\ parent_exists(d, p, parent)
  /\ proposal_exists(d, p)
  /\ validate_root_eligibility(d, p, root)
  /\ proves(d, p, nullifier, root, proof)
  /\ post(d, p, None, nullifier, content_cid, parent, BySecret(secret_of(proof.leaf)))

(***************************************************************************)
(* Editing and deleting.  Neither asks for membership any more, nor whether *)
(* the proof's root is one of the DAO's.                                   *)
(***************************************************************************)
is_deleted(comment) == comment.deleted_by # "None"

touch(d, p, id, hand) == hands' = [hands EXCEPT ![d][p][id] = @ \cup {hand}]

\* The replaced text is kept while there is room for it, and lost afterwards.
revise(d, p, id, new_content_cid) ==
  LET old == comments[d][p][id]
      kept == IF Len(old.revision_cids) < MAX_REVISIONS
              THEN Append(old.revision_cids, old.content_cid) ELSE old.revision_cids
  IN  comments' = [comments EXCEPT ![d][p][id] =
        [old EXCEPT !.revision_cids = kept, !.content_cid = new_content_cid]]

edit_comment(d, p, id, new_content_cid, author) ==
  /\ new_content_cid <= MAX_CID_LEN
  /\ comment_exists(d, p, id)
  /\ ~is_deleted(comments[d][p][id])
  /\ comments[d][p][id].author = author
  /\ revise(d, p, id, new_content_cid)
  /\ touch(d, p, id, ByAddress(author))

\* Mutant of edit_anonymous_comment: the nullifier is not compared.
EditAnyAnonymous(d, p, id, new_content_cid, nullifier, root, proof) ==
  /\ in_field(nullifier)
  /\ new_content_cid <= MAX_CID_LEN
  /\ comment_exists(d, p, id)
  /\ ~is_deleted(comments[d][p][id])
  /\ comments[d][p][id].nullifier # None
  /\ proves(d, p, nullifier, root, proof)
  /\ revise(d, p, id, new_content_cid)
  /\ touch(d, p, id, BySecret(secret_of(proof.leaf)))

edit_anonymous_comment(d, p, id, new_content_cid, nullifier, root, proof) ==
  /\ in_field(nullifier)
  /\ new_content_cid <= MAX_CID_LEN
  /\ comment_exists(d, p, id)
  /\ ~is_deleted(comments[d][p][id])
  /\ comments[d][p][id].nullifier = nullifier
  /\ proves(d, p, nullifier, root, proof)
  /\ revise(d, p, id, new_content_cid)
  /\ touch(d, p, id, BySecret(secret_of(proof.leaf)))

\* Deleting keeps the record and its text; deleting what is deleted returns
\* without effect, before ownership is looked at.
withdraw(d, p, id, by) ==
  comments' = [comments EXCEPT ![d][p][id] = [comments[d][p][id] EXCEPT !.deleted_by = by]]

delete_comment(d, p, id, author) ==
  /\ comment_exists(d, p, id)
  /\ ~is_deleted(comments[d][p][id])
  /\ comments[d][p][id].author = author
  /\ withdraw(d, p, id, "User")
  /\ touch(d, p, id, ByAddress(author))

delete_anonymous_comment(d, p, id, nullifier, root, proof) ==
  /\ in_field(nullifier)
  /\ comment_exists(d, p, id)
  /\ ~is_deleted(comments[d][p][id])
  /\ comments[d][p][id].nullifier = nullifier
  /\ proves(d, p, nullifier, root, proof)
  /\ withdraw(d, p, id, "User")
  /\ touch(d, p, id, BySecret(secret_of(proof.leaf)))

\* Mutant of admin_delete_comment: a deleted comment is deleted again.
AdminDeleteAgain(d, p, id, admin) ==
  /\ assert_admin(d, admin)
  /\ comment_exists(d, p, id)
  /\ withdraw(d, p, id, "Admin")
  /\ UNCHANGED hands

admin_delete_comment(d, p, id, admin) ==
  /\ assert_admin(d, admin)
  /\ comment_exists(d, p, id)
  /\ ~is_deleted(comments[d][p][id])
  /\ withdraw(d, p, id, "Admin")
  /\ UNCHANGED hands

(***************************************************************************)
(* Transactions.  An eligible root is a root of the tree.  Where the root   *)
(* is not checked the prover may fold any path to any root; nothing else     *)
(* reads it, so a root over its own leaf alone stands for all of them.       *)
(***************************************************************************)
own_root(leaf) == [i \in 1 .. capacity[MaxTreeDepth] |-> leaf]

PublicComment ==
  \E d \in DaoId, p \in ProposalId, a \in Address :
    \/ \E cid \in Cid, parent \in {None} \cup CommentId : add_comment(d, p, cid, parent, a)
    \/ \E id \in CommentId, cid \in Cid : edit_comment(d, p, id, cid, a)
    \/ \E id \in CommentId : delete_comment(d, p, id, a)
    \/ \E id \in CommentId : admin_delete_comment(d, p, id, a)

AnonymousComment ==
  \E d \in DaoId, p \in ProposalId, n \in U256, leaf \in Leaf \ {Zero}, vk \in Vk :
    LET proof == [vk |-> vk, leaf |-> leaf]
    IN  \/ \E cid \in Cid, parent \in {None} \cup CommentId :
             /\ proposal_exists(d, p)
             /\ \E root \in DOMAIN tree[d].root_index :
                  add_anonymous_comment(d, p, cid, parent, n, root, proof)
        \/ \E id \in CommentId, cid \in Cid :
             edit_anonymous_comment(d, p, id, cid, n, own_root(leaf), proof)
        \/ \E id \in CommentId :
             delete_anonymous_comment(d, p, id, n, own_root(leaf), proof)

CommentsInit ==
  /\ comments = [d \in DaoId |-> [p \in ProposalId |-> << >>]]
  /\ hands = [d \in DaoId |-> [p \in ProposalId |-> << >>]]

CommentsNext ==
  \/ Next /\ UNCHANGED comments_vars
  \/ (PublicComment \/ AnonymousComment) /\ UNCHANGED vars

AllInit == Init /\ CommentsInit

CommentsSpec == AllInit /\ [][CommentsNext]_all_vars

(***************************************************************************)
(* Properties.                                                             *)
(***************************************************************************)
Threads == DaoId \X ProposalId

Content == {cid \in Cid : cid <= MAX_CID_LEN}

CommentInfo == [ author        : Address \cup {None},
                 nullifier     : (1 .. FieldModulus - 1) \cup {None},
                 content_cid   : Content,
                 parent_id     : CommentId \cup {None},
                 revision_cids : Seq(Content),
                 deleted_by    : {"None", "User", "Admin"} ]

CommentOK(comment) ==
  comment \in CommentInfo /\ Len(comment.revision_cids) <= MAX_REVISIONS

CommentTypeOK ==
  \A thread \in Threads :
    LET cs == comments[thread[1]][thread[2]]
    IN  /\ IsSequence(cs)
        /\ Len(cs) <= MaxComments
        /\ \A id \in DOMAIN cs : CommentOK(cs[id])
        /\ DOMAIN hands[thread[1]][thread[2]] = DOMAIN cs

\* Comments exist only on proposals that exist, and a reply's parent is an
\* earlier comment of the same thread, deleted or not: the parent links form
\* trees, with no orphan and no cycle for a client to trip over.
ThreadsAreTrees ==
  \A thread \in Threads :
    LET cs == comments[thread[1]][thread[2]]
    IN  /\ cs # << >> => proposal_exists(thread[1], thread[2])
        /\ \A id \in DOMAIN cs : cs[id].parent_id # None =>
             cs[id].parent_id \in DOMAIN cs /\ cs[id].parent_id < id

\* The comment's author field or nullifier names the one hand on it.
WrittenBy(d, p, comment, hand) ==
  \/ /\ comment.author # None
     /\ comment.nullifier = None
     /\ hand = {ByAddress(comment.author)}
  \/ /\ comment.author = None
     /\ \E s \in Secret :
          comment.nullifier = nullifier_of(s, d, p) /\ hand = {BySecret(s)}

\* Only the author ever changes or withdraws a comment: the address of a public
\* one, and of an anonymous one the identity secret behind its nullifier, with
\* whatever leaf, root and key the later proof was made.
OneAuthorPerComment ==
  \A thread \in Threads :
    \A id \in DOMAIN comments[thread[1]][thread[2]] :
      WrittenBy(thread[1], thread[2], comments[thread[1]][thread[2]][id],
                hands[thread[1]][thread[2]][id])

\* "matches voting contract logic": the two contracts' separate root checks
\* agree on every root the DAO ever had, through evictions, recurring roots and
\* removals; who may vote and who may comment anonymously cannot drift apart.
CommentRootsMatchVoting ==
  \A poll \in Polls : \A root \in DOMAIN tree[poll[1]].root_index :
    validate_root_eligibility(poll[1], poll[2], root)
      <=> root_eligible(poll[1], poll[2], root)

CommentStays(old, new) ==
  /\ <<new.author, new.nullifier, new.parent_id>>
       = <<old.author, old.nullifier, old.parent_id>>
  /\ is_deleted(old) => new = old
  /\ new.content_cid # old.content_cid =>
       \/ new.revision_cids = Append(old.revision_cids, old.content_cid)
       \/ Len(old.revision_cids) = MAX_REVISIONS

CommentsStay ==
  \A thread \in Threads :
    LET old == comments[thread[1]][thread[2]]
        new == comments'[thread[1]][thread[2]]
    IN  \A id \in DOMAIN old : id \in DOMAIN new /\ CommentStays(old[id], new[id])

\* A comment never loses its place, its author or its parent; deletion is final,
\* keeps the text, and who deleted it first stays on record; an edited text goes
\* to the revisions until MAX_REVISIONS of them are kept.
CommentsArePermanent == [][CommentsStay]_all_vars
=============================================================================
