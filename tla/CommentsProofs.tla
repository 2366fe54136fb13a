--------------------------- MODULE CommentsProofs ---------------------------
(***************************************************************************)
(* Theorems about Comments, for every value of its constants.              *)
(***************************************************************************)
EXTENDS Comments, VotingProofs

(***************************************************************************)
(* The comments contract only reads the voting system.                     *)
(***************************************************************************)

\* A transaction of the comments contract is a stutter of the voting system: with
\* comments the system still does what Voting specifies, and every theorem about
\* Voting holds of it.
THEOREM CommentsImplementVoting == CommentsSpec => Spec
<1>1. AllInit => Init
  BY DEF AllInit
<1>2. [CommentsNext]_all_vars => [Next]_vars
  BY DEF CommentsNext, all_vars
<1> QED
  BY <1>1, <1>2, PTL DEF CommentsSpec, Spec

\* A proposal that exists goes on existing.
LEMMA ProposalsStay ==
  ASSUME SystemInv, [Next]_vars, NEW d \in DaoId, NEW p, proposal_exists(d, p)
  PROVE  proposal_exists(d, p)'
<1>1. CASE Next
  <2>1. ResultsStay
    BY <1>1, ResultsStayStep
  <2> QED
    BY <2>1 DEF ResultsStay, proposal_exists
<1>2. CASE UNCHANGED vars
  BY <1>2 DEF vars, voting_vars, proposal_exists
<1> QED
  BY <1>1, <1>2

(***************************************************************************)
(* The invariant: a thread and the hands on it are sequences of the same    *)
(* length, and each comment is well formed, replies to an earlier one and   *)
(* bears the mark of its author.                                           *)
(***************************************************************************)
CommentFacts(d, p, id, comment, hand) ==
  /\ CommentOK(comment)
  /\ comment.parent_id # None => comment.parent_id \in 1 .. id - 1
  /\ WrittenBy(d, p, comment, hand)

ThreadFacts(d, p, cs, hs) ==
  /\ IsSequence(cs)
  /\ IsSequence(hs)
  /\ Len(hs) = Len(cs)
  /\ Len(cs) <= MaxComments
  /\ \A id \in DOMAIN cs : CommentFacts(d, p, id, cs[id], hs[id])

CommentsInv ==
  /\ DOMAIN comments = DaoId
  /\ DOMAIN hands = DaoId
  /\ \A d \in DaoId : DOMAIN comments[d] = ProposalId /\ DOMAIN hands[d] = ProposalId
  /\ \A d \in DaoId, p \in ProposalId :
       /\ ThreadFacts(d, p, comments[d][p], hands[d][p])
       /\ comments[d][p] # << >> => proposal_exists(d, p)

\* What the invariant says of one thread.
LEMMA ThreadShape ==
  ASSUME CommentsInv, NEW d \in DaoId, NEW p \in ProposalId
  PROVE  /\ IsSequence(comments[d][p])
         /\ IsSequence(hands[d][p])
         /\ Len(comments[d][p]) \in Nat
         /\ Len(comments[d][p]) <= MaxComments
         /\ DOMAIN comments[d][p] = 1 .. Len(comments[d][p])
         /\ DOMAIN hands[d][p] = DOMAIN comments[d][p]
         /\ Len(hands[d][p]) = Len(comments[d][p])
<1>1. ThreadFacts(d, p, comments[d][p], hands[d][p])
  BY DEF CommentsInv
<1> QED
  BY <1>1, SequenceDomain DEF ThreadFacts

\* There are no comments to begin with.
LEMMA CommentsInitInv ==
  ASSUME CommentsInit
  PROVE  CommentsInv
<1>1. << >> \in Seq({}) /\ Len(<< >>) = 0 /\ DOMAIN << >> = {}
  BY EmptySeq
<1>2. IsSequence(<< >>)
  BY <1>1, SequenceOver
<1>3. \A d, p : ThreadFacts(d, p, << >>, << >>)
  BY <1>1, <1>2, CommentsAssumption DEF ThreadFacts
<1> QED
  BY <1>3 DEF CommentsInit, CommentsInv

(***************************************************************************)
(* Steps.                                                                  *)
(***************************************************************************)

\* The hands on one thread become hs, those on the others stay.
HandsBecome(d, p, hs) ==
  /\ DOMAIN hands' = DaoId
  /\ \A e \in DaoId : DOMAIN hands'[e] = ProposalId
  /\ \A e \in DaoId, q \in ProposalId :
       hands'[e][q] = IF e = d /\ q = p THEN hs ELSE hands[e][q]

\* Whoever may write to one thread, the others are left alone.
LEMMA ThreadStep ==
  ASSUME CommentsInv, NEW d \in DaoId, NEW p \in ProposalId, proposal_exists(d, p),
         NEW cs, NEW hs, ThreadFacts(d, p, cs, hs),
         \A id \in DOMAIN comments[d][p] :
           id \in DOMAIN cs /\ CommentStays(comments[d][p][id], cs[id]),
         comments' = [comments EXCEPT ![d][p] = cs], HandsBecome(d, p, hs),
         UNCHANGED proposals
  PROVE  CommentsInv' /\ CommentsStay
<1>1. /\ DOMAIN comments' = DaoId
      /\ DOMAIN hands' = DaoId
      /\ \A e \in DaoId : DOMAIN comments'[e] = ProposalId /\ DOMAIN hands'[e] = ProposalId
  BY DEF CommentsInv, HandsBecome
<1>2. \A e \in DaoId, q \in ProposalId :
        /\ comments'[e][q] = IF e = d /\ q = p THEN cs ELSE comments[e][q]
        /\ hands'[e][q] = IF e = d /\ q = p THEN hs ELSE hands[e][q]
  BY DEF CommentsInv, HandsBecome
<1>3. \A e \in DaoId, q \in ProposalId :
        /\ ThreadFacts(e, q, comments'[e][q], hands'[e][q])
        /\ comments'[e][q] # << >> => proposal_exists(e, q)
  BY <1>2 DEF CommentsInv
<1>4. CommentsInv'
  <2>1. ASSUME NEW e \in DaoId, NEW q \in ProposalId
        PROVE  ThreadFacts(e, q, comments[e][q], hands[e][q])'
    BY <1>3
    DEF ThreadFacts, IsSequence, Elements, CommentFacts, CommentOK, WrittenBy
  <2>2. ASSUME NEW e \in DaoId, NEW q \in ProposalId
        PROVE  (comments[e][q] # << >> => proposal_exists(e, q))'
    BY <1>3 DEF proposal_exists
  <2> QED
    BY <1>1, <2>1, <2>2 DEF CommentsInv
<1>5. CommentsStay
  <2> SUFFICES ASSUME NEW thread \in Threads,
                      NEW id \in DOMAIN comments[thread[1]][thread[2]]
               PROVE  LET old == comments[thread[1]][thread[2]]
                          new == comments'[thread[1]][thread[2]]
                      IN  id \in DOMAIN new /\ CommentStays(old[id], new[id])
    BY DEF CommentsStay
  <2>1. thread[1] \in DaoId /\ thread[2] \in ProposalId
    BY DEF Threads
  <2>2. CASE thread[1] = d /\ thread[2] = p
    BY <1>2, <2>1, <2>2
  <2>3. CASE ~(thread[1] = d /\ thread[2] = p)
    <3>1. comments'[thread[1]][thread[2]] = comments[thread[1]][thread[2]]
      BY <1>2, <2>1, <2>3
    <3> QED
      BY <3>1 DEF CommentStays
  <2> QED
    BY <2>2, <2>3
<1> QED
  BY <1>4, <1>5

\* A new comment at the end of a thread.
LEMMA PostStep ==
  ASSUME CommentsInv, NEW d \in DaoId, NEW p \in ProposalId, proposal_exists(d, p),
         NEW new, NEW hand,
         CommentFacts(d, p, Len(comments[d][p]) + 1, new, hand),
         Len(comments[d][p]) < MaxComments,
         comments' = [comments EXCEPT ![d][p] = Append(@, new)],
         hands' = [hands EXCEPT ![d][p] = Append(@, hand)],
         UNCHANGED proposals
  PROVE  CommentsInv' /\ CommentsStay
<1> DEFINE cs == comments[d][p]
           hs == hands[d][p]
           n == Len(cs)
<1>1. /\ IsSequence(cs) /\ IsSequence(hs) /\ n \in Nat /\ Len(hs) = n
      /\ DOMAIN cs = 1 .. n /\ DOMAIN hs = 1 .. n
      /\ \A id \in 1 .. n : CommentFacts(d, p, id, cs[id], hs[id])
  BY ThreadShape DEF CommentsInv, ThreadFacts
<1>2. /\ IsSequence(Append(cs, new)) /\ IsSequence(Append(hs, hand))
      /\ Len(Append(cs, new)) = n + 1 /\ Len(Append(hs, hand)) = n + 1
      /\ Append(cs, new)[n + 1] = new /\ Append(hs, hand)[n + 1] = hand
      /\ \A id \in 1 .. n : Append(cs, new)[id] = cs[id] /\ Append(hs, hand)[id] = hs[id]
  BY <1>1, AppendSequence
<1>3. DOMAIN Append(cs, new) = 1 .. n + 1
  BY <1>2, SequenceDomain
<1> DEFINE ds == Append(cs, new)
           gs == Append(hs, hand)
<1>4. comments' = [comments EXCEPT ![d][p] = ds] /\ HandsBecome(d, p, gs)
  BY DEF CommentsInv, HandsBecome
<1> HIDE DEF ds, gs
<1>5. ThreadFacts(d, p, ds, gs)
  <2>1. ASSUME NEW id \in 1 .. n + 1
        PROVE  CommentFacts(d, p, id, ds[id], gs[id])
    <3>1. CASE id \in 1 .. n
      BY <1>1, <1>2, <3>1 DEF ds, gs
    <3>2. CASE id = n + 1
      BY <1>2, <3>2 DEF ds, gs
    <3> QED
      BY <1>1, <3>1, <3>2
  <2>2. /\ IsSequence(ds) /\ IsSequence(gs)
        /\ Len(ds) = n + 1 /\ Len(gs) = n + 1 /\ DOMAIN ds = 1 .. n + 1
    BY <1>2, <1>3 DEF ds, gs
  <2>3. n + 1 <= MaxComments
    BY <1>1, CommentsAssumption
  <2> QED
    BY <2>1, <2>2, <2>3 DEF ThreadFacts
<1>6. \A id \in DOMAIN comments[d][p] :
        id \in DOMAIN ds /\ CommentStays(comments[d][p][id], ds[id])
  BY <1>1, <1>2, <1>3 DEF CommentStays, ds
<1> QED
  BY <1>4, <1>5, <1>6, ThreadStep

\* A comment replaced in its place; the hands on the thread stay.
LEMMA ChangeStep ==
  ASSUME CommentsInv, NEW d \in DaoId, NEW p \in ProposalId,
         NEW id \in DOMAIN comments[d][p], NEW new,
         CommentFacts(d, p, id, new, hands[d][p][id]),
         CommentStays(comments[d][p][id], new),
         comments' = [comments EXCEPT ![d][p][id] = new],
         HandsBecome(d, p, hands[d][p]),
         UNCHANGED proposals
  PROVE  CommentsInv' /\ CommentsStay
<1> DEFINE cs == comments[d][p]
           hs == hands[d][p]
           ds == [cs EXCEPT ![id] = new]
<1>1. /\ IsSequence(cs) /\ DOMAIN cs = 1 .. Len(cs) /\ Len(cs) \in Nat
      /\ id \in DOMAIN cs /\ cs # << >>
      /\ ThreadFacts(d, p, cs, hs)
      /\ proposal_exists(d, p)
  BY ThreadShape DEF CommentsInv
<1>2. comments' = [comments EXCEPT ![d][p] = ds]
  OBVIOUS
<1>3. IsSequence(ds) /\ Len(ds) = Len(cs)
  <2>1. IsSequence(cs) /\ id \in DOMAIN cs
    BY <1>1
  <2> HIDE DEF cs
  <2> QED
    BY <2>1, ExceptSequence DEF ds
<1>4. DOMAIN ds = DOMAIN cs /\ \A i \in DOMAIN cs : ds[i] = IF i = id THEN new ELSE cs[i]
  BY <1>1
<1> HIDE DEF cs, hs, ds
<1>5. ThreadFacts(d, p, ds, hs)
  BY <1>1, <1>3, <1>4 DEF ThreadFacts, cs, hs
<1>6. \A i \in DOMAIN cs : i \in DOMAIN ds /\ CommentStays(cs[i], ds[i])
  BY <1>1, <1>4 DEF CommentStays, cs
<1> QED
  BY <1>1, <1>2, <1>5, <1>6, ThreadStep DEF cs, hs

(***************************************************************************)
(* The entry points.                                                       *)
(***************************************************************************)

\* The field check again: the nullifier of an accepted proof is the one its
\* secret has on the proposal.
LEMMA ProverHasNullifier ==
  ASSUME NEW d \in DaoId, NEW p \in ProposalId, NEW n \in U256, NEW leaf \in Leaf \ {Zero},
         NEW vk, NEW root, in_field(n), proves(d, p, n, root, [vk |-> vk, leaf |-> leaf])
  PROVE  /\ secret_of(leaf) \in Secret
         /\ n = nullifier_of(secret_of(leaf), d, p)
         /\ n \in 1 .. FieldModulus - 1
<1>1. /\ n \in Nat /\ n < FieldModulus
      /\ nullifier_of(secret_of(leaf), d, p) = n % FieldModulus
      /\ secret_of(leaf) \in Secret
  BY VotingAssumption DEF in_field, proves, verify_groth16
<1>2. n % FieldModulus = n
  BY <1>1, VotingAssumption
<1> QED
  BY <1>1, <1>2, VotingAssumption DEF ProposalId

\* post appends a comment, by whichever of its two kinds of author.
LEMMA PostedStep ==
  ASSUME CommentsInv, NEW d \in DaoId, NEW p \in ProposalId, proposal_exists(d, p),
         NEW author \in Address \cup {None},
         NEW nullifier \in (1 .. FieldModulus - 1) \cup {None},
         NEW cid \in Cid, cid <= MAX_CID_LEN,
         NEW parent \in {None} \cup CommentId, parent_exists(d, p, parent),
         NEW hand, post(d, p, author, nullifier, cid, parent, hand),
         \/ author # None /\ nullifier = None /\ hand = ByAddress(author)
         \/ /\ author = None
            /\ \E s \in Secret : nullifier = nullifier_of(s, d, p) /\ hand = BySecret(s),
         UNCHANGED proposals
  PROVE  CommentsInv' /\ CommentsStay
<1> DEFINE new == [ author        |-> author,
                    nullifier     |-> nullifier,
                    content_cid   |-> cid,
                    parent_id     |-> parent,
                    revision_cids |-> << >>,
                    deleted_by    |-> "None" ]
<1>1. /\ Len(comments[d][p]) < MaxComments
      /\ comments' = [comments EXCEPT ![d][p] = Append(@, new)]
      /\ hands' = [hands EXCEPT ![d][p] = Append(@, {hand})]
  BY DEF post
<1>2. CommentOK(new)
  <2>1. << >> \in Seq(Content) /\ Len(<< >>) = 0 /\ cid \in Content
    BY EmptySeq DEF Content
  <2>2. new \in CommentInfo
    BY <2>1 DEF CommentInfo
  <2> QED
    BY <2>1, <2>2, CommentsAssumption DEF CommentOK
<1>3. parent # None => parent \in 1 .. (Len(comments[d][p]) + 1) - 1
  BY ThreadShape DEF parent_exists, comment_exists
<1>4. WrittenBy(d, p, new, {hand})
  BY DEF WrittenBy
<1>5. CommentFacts(d, p, Len(comments[d][p]) + 1, new, {hand})
  BY <1>2, <1>3, <1>4 DEF CommentFacts
<1> HIDE DEF new
<1> QED
  BY <1>1, <1>5, PostStep

\* add_comment: the author is an address.
LEMMA AddCommentStep ==
  ASSUME CommentsInv, NEW d \in DaoId, NEW p \in ProposalId, NEW a \in Address,
         NEW cid \in Cid, NEW parent \in {None} \cup CommentId,
         add_comment(d, p, cid, parent, a), UNCHANGED proposals
  PROVE  CommentsInv' /\ CommentsStay
<1>1. a # None
  BY CommentsAssumption
<1> QED
  BY <1>1, PostedStep DEF add_comment

\* add_anonymous_comment: the author is the secret behind the nullifier.
LEMMA AddAnonymousStep ==
  ASSUME CommentsInv, NEW d \in DaoId, NEW p \in ProposalId, NEW n \in U256,
         NEW leaf \in Leaf \ {Zero}, NEW vk \in Vk, NEW root,
         NEW cid \in Cid, NEW parent \in {None} \cup CommentId,
         add_anonymous_comment(d, p, cid, parent, n, root, [vk |-> vk, leaf |-> leaf]),
         UNCHANGED proposals
  PROVE  CommentsInv' /\ CommentsStay
<1>1. /\ in_field(n) /\ cid <= MAX_CID_LEN
      /\ parent_exists(d, p, parent) /\ proposal_exists(d, p)
      /\ proves(d, p, n, root, [vk |-> vk, leaf |-> leaf])
      /\ post(d, p, None, n, cid, parent, BySecret(secret_of(leaf)))
  BY DEF add_anonymous_comment
<1>2. /\ secret_of(leaf) \in Secret
      /\ n = nullifier_of(secret_of(leaf), d, p)
      /\ n \in 1 .. FieldModulus - 1
  BY <1>1, ProverHasNullifier
<1> QED
  BY <1>1, <1>2, PostedStep

\* A hand that is the only one already leaves the hands as they are.
LEMMA SameHand ==
  ASSUME CommentsInv, NEW d \in DaoId, NEW p \in ProposalId, NEW id \in DOMAIN comments[d][p],
         NEW hand, hands[d][p][id] = {hand}, touch(d, p, id, hand)
  PROVE  HandsBecome(d, p, hands[d][p])
<1> DEFINE hs == hands[d][p]
<1>1. IsSequence(hs) /\ id \in DOMAIN hs
  BY ThreadShape
<1>2. [hs EXCEPT ![id] = @ \cup {hand}] = hs
  <2>1. hs[id] \cup {hand} = hs[id]
    OBVIOUS
  <2> HIDE DEF hs
  <2>2. hs \in [DOMAIN hs -> Elements(hs)]
    BY <1>1, LenProperties DEF IsSequence
  <2> QED
    BY <1>1, <2>1, <2>2
<1>3. hands' = [hands EXCEPT ![d][p] = [hs EXCEPT ![id] = @ \cup {hand}]]
  BY DEF touch
<1> HIDE DEF hs
<1>4. hands' = [hands EXCEPT ![d][p] = hs]
  BY <1>2, <1>3
<1> QED
  BY <1>4 DEF CommentsInv, HandsBecome, hs

\* The author field names the hand on a public comment, and the nullifier the one
\* on an anonymous comment: no other secret has it.
LEMMA AuthorsHand ==
  ASSUME CommentsInv, NEW d \in DaoId, NEW p \in ProposalId, NEW id \in DOMAIN comments[d][p]
  PROVE  /\ \A a \in Address :
              comments[d][p][id].author = a => hands[d][p][id] = {ByAddress(a)}
         /\ \A s \in Secret :
              comments[d][p][id].nullifier = nullifier_of(s, d, p)
                => hands[d][p][id] = {BySecret(s)}
<1> DEFINE comment == comments[d][p][id]
           hand == hands[d][p][id]
<1>1. WrittenBy(d, p, comment, hand)
  BY DEF CommentsInv, ThreadFacts, CommentFacts
<1> HIDE DEF comment, hand
<1>2. ASSUME NEW a \in Address, comment.author = a
      PROVE  hand = {ByAddress(a)}
  BY <1>1, <1>2, CommentsAssumption DEF WrittenBy
<1>3. ASSUME NEW s \in Secret, comment.nullifier = nullifier_of(s, d, p)
      PROVE  hand = {BySecret(s)}
  <2>1. comment.nullifier # None
    BY <1>3, VotingAssumption, CommentsAssumption DEF ProposalId
  <2>2. PICK t \in Secret : comment.nullifier = nullifier_of(t, d, p) /\ hand = {BySecret(t)}
    BY <1>1, <2>1 DEF WrittenBy
  <2>3. s = t
    BY <1>3, <2>2, CommentsAssumption DEF ProposalId
  <2> QED
    BY <2>2, <2>3
<1> QED
  BY <1>2, <1>3 DEF comment, hand

\* revise replaces the text of a comment that is not deleted.
LEMMA RevisedStep ==
  ASSUME CommentsInv, NEW d \in DaoId, NEW p \in ProposalId, NEW id \in DOMAIN comments[d][p],
         NEW cid \in Cid, cid <= MAX_CID_LEN, ~is_deleted(comments[d][p][id]),
         revise(d, p, id, cid), HandsBecome(d, p, hands[d][p]), UNCHANGED proposals
  PROVE  CommentsInv' /\ CommentsStay
<1> DEFINE old == comments[d][p][id]
           kept == IF Len(old.revision_cids) < MAX_REVISIONS
                   THEN Append(old.revision_cids, old.content_cid) ELSE old.revision_cids
           new == [old EXCEPT !.revision_cids = kept, !.content_cid = cid]
<1>1. comments' = [comments EXCEPT ![d][p][id] = new]
  BY DEF revise
<1>2. CommentFacts(d, p, id, old, hands[d][p][id]) /\ ~is_deleted(old)
  BY DEF CommentsInv, ThreadFacts
<1> HIDE DEF old
<1>3. /\ old \in CommentInfo /\ old.content_cid \in Content
      /\ old.revision_cids \in Seq(Content) /\ Len(old.revision_cids) <= MAX_REVISIONS
  BY <1>2 DEF CommentFacts, CommentOK, CommentInfo
<1>4. kept \in Seq(Content) /\ Len(kept) <= MAX_REVISIONS
  BY <1>3, CommentsAssumption, AppendProperties, LenProperties
<1>5. /\ kept = Append(old.revision_cids, old.content_cid)
         \/ Len(old.revision_cids) = MAX_REVISIONS
  BY <1>3, CommentsAssumption, LenProperties
<1> HIDE DEF kept
<1>6. /\ new \in CommentInfo
      /\ new.revision_cids = kept
      /\ new.author = old.author /\ new.nullifier = old.nullifier
      /\ new.parent_id = old.parent_id
  BY <1>3, <1>4 DEF CommentInfo, Content
<1> HIDE DEF new
<1>7. CommentFacts(d, p, id, new, hands[d][p][id])
  BY <1>2, <1>4, <1>6 DEF CommentFacts, CommentOK, WrittenBy
<1>8. CommentStays(old, new)
  BY <1>2, <1>5, <1>6 DEF CommentStays
<1> QED
  BY <1>1, <1>7, <1>8, ChangeStep DEF old

\* withdraw marks a comment that is not deleted as deleted.
LEMMA WithdrawnStep ==
  ASSUME CommentsInv, NEW d \in DaoId, NEW p \in ProposalId, NEW id \in DOMAIN comments[d][p],
         NEW by \in {"User", "Admin"}, ~is_deleted(comments[d][p][id]),
         withdraw(d, p, id, by), HandsBecome(d, p, hands[d][p]), UNCHANGED proposals
  PROVE  CommentsInv' /\ CommentsStay
<1> DEFINE old == comments[d][p][id]
           new == [old EXCEPT !.deleted_by = by]
<1>1. comments' = [comments EXCEPT ![d][p][id] = new]
  BY DEF withdraw
<1>2. CommentFacts(d, p, id, old, hands[d][p][id]) /\ ~is_deleted(old)
  BY DEF CommentsInv, ThreadFacts
<1> HIDE DEF old
<1>3. old \in CommentInfo /\ Len(old.revision_cids) <= MAX_REVISIONS
  BY <1>2 DEF CommentFacts, CommentOK
<1>4. /\ new \in CommentInfo
      /\ new.revision_cids = old.revision_cids /\ new.content_cid = old.content_cid
      /\ new.author = old.author /\ new.nullifier = old.nullifier
      /\ new.parent_id = old.parent_id
  BY <1>3 DEF CommentInfo
<1> HIDE DEF new
<1>5. CommentFacts(d, p, id, new, hands[d][p][id])
  BY <1>2, <1>3, <1>4 DEF CommentFacts, CommentOK, WrittenBy
<1>6. CommentStays(old, new)
  BY <1>2, <1>4 DEF CommentStays
<1> QED
  BY <1>1, <1>5, <1>6, ChangeStep DEF old

\* edit_comment and delete_comment: the author is an address.
LEMMA AuthorStep ==
  ASSUME CommentsInv, NEW d \in DaoId, NEW p \in ProposalId, NEW a \in Address, NEW id,
         \/ \E cid \in Cid : edit_comment(d, p, id, cid, a)
         \/ delete_comment(d, p, id, a),
         UNCHANGED proposals
  PROVE  CommentsInv' /\ CommentsStay
<1>1. /\ id \in DOMAIN comments[d][p] /\ ~is_deleted(comments[d][p][id])
      /\ comments[d][p][id].author = a
      /\ touch(d, p, id, ByAddress(a))
      /\ \/ \E cid \in Cid : cid <= MAX_CID_LEN /\ revise(d, p, id, cid)
         \/ withdraw(d, p, id, "User")
  BY DEF edit_comment, delete_comment, comment_exists
<1>2. HandsBecome(d, p, hands[d][p])
  BY <1>1, AuthorsHand, SameHand
<1> QED
  BY <1>1, <1>2, RevisedStep, WithdrawnStep

\* edit_anonymous_comment and delete_anonymous_comment: the prover is the author,
\* for nobody else's secret gives the comment's nullifier.
LEMMA AnonymousAuthorStep ==
  ASSUME CommentsInv, NEW d \in DaoId, NEW p \in ProposalId, NEW n \in U256,
         NEW leaf \in Leaf \ {Zero}, NEW vk \in Vk, NEW root, NEW id,
         \/ \E cid \in Cid :
              edit_anonymous_comment(d, p, id, cid, n, root, [vk |-> vk, leaf |-> leaf])
         \/ delete_anonymous_comment(d, p, id, n, root, [vk |-> vk, leaf |-> leaf]),
         UNCHANGED proposals
  PROVE  CommentsInv' /\ CommentsStay
<1> DEFINE s == secret_of(leaf)
<1>1. /\ id \in DOMAIN comments[d][p] /\ ~is_deleted(comments[d][p][id])
      /\ comments[d][p][id].nullifier = n
      /\ in_field(n) /\ proves(d, p, n, root, [vk |-> vk, leaf |-> leaf])
      /\ touch(d, p, id, BySecret(s))
      /\ \/ \E cid \in Cid : cid <= MAX_CID_LEN /\ revise(d, p, id, cid)
         \/ withdraw(d, p, id, "User")
  BY DEF edit_anonymous_comment, delete_anonymous_comment, comment_exists
<1>2. s \in Secret /\ n = nullifier_of(s, d, p)
  BY <1>1, ProverHasNullifier
<1> HIDE DEF s
<1>3. HandsBecome(d, p, hands[d][p])
  BY <1>1, <1>2, AuthorsHand, SameHand
<1> QED
  BY <1>1, <1>3, RevisedStep, WithdrawnStep

\* admin_delete_comment leaves the hands alone: moderation is not authorship.
LEMMA AdminStep ==
  ASSUME CommentsInv, NEW d \in DaoId, NEW p \in ProposalId, NEW a, NEW id,
         admin_delete_comment(d, p, id, a), UNCHANGED proposals
  PROVE  CommentsInv' /\ CommentsStay
<1>1. /\ id \in DOMAIN comments[d][p] /\ ~is_deleted(comments[d][p][id])
      /\ withdraw(d, p, id, "Admin") /\ hands' = hands
  BY DEF admin_delete_comment, comment_exists
<1>2. HandsBecome(d, p, hands[d][p])
  BY <1>1 DEF CommentsInv, HandsBecome
<1> QED
  BY <1>1, <1>2, WithdrawnStep

\* Every transaction of the comments contract.
LEMMA CommentTransactionStep ==
  ASSUME CommentsInv, PublicComment \/ AnonymousComment, UNCHANGED proposals
  PROVE  CommentsInv' /\ CommentsStay
<1>1. CASE PublicComment
  <2>1. PICK d \in DaoId, p \in ProposalId, a \in Address :
          \/ \E cid \in Cid, parent \in {None} \cup CommentId : add_comment(d, p, cid, parent, a)
          \/ \E id \in CommentId, cid \in Cid : edit_comment(d, p, id, cid, a)
          \/ \E id \in CommentId : delete_comment(d, p, id, a)
          \/ \E id \in CommentId : admin_delete_comment(d, p, id, a)
    BY <1>1 DEF PublicComment
  <2> QED
    BY <2>1, AddCommentStep, AuthorStep, AdminStep
<1>2. CASE AnonymousComment
  <2>1. PICK d \in DaoId, p \in ProposalId, n \in U256, leaf \in Leaf \ {Zero}, vk \in Vk :
          \/ \E cid \in Cid, parent \in {None} \cup CommentId :
               /\ proposal_exists(d, p)
               /\ \E root \in DOMAIN tree[d].root_index :
                    add_anonymous_comment(d, p, cid, parent, n, root, [vk |-> vk, leaf |-> leaf])
          \/ \E id \in CommentId, cid \in Cid :
               edit_anonymous_comment(d, p, id, cid, n, own_root(leaf), [vk |-> vk, leaf |-> leaf])
          \/ \E id \in CommentId :
               delete_anonymous_comment(d, p, id, n, own_root(leaf), [vk |-> vk, leaf |-> leaf])
    BY <1>2 DEF AnonymousComment
  <2> DEFINE proof == [vk |-> vk, leaf |-> leaf]
  <2>2. ASSUME NEW cid \in Cid, NEW parent \in {None} \cup CommentId,
               NEW root \in DOMAIN tree[d].root_index,
               add_anonymous_comment(d, p, cid, parent, n, root, proof)
        PROVE  CommentsInv' /\ CommentsStay
    BY <2>2, AddAnonymousStep
  <2>3. ASSUME NEW id,
               \/ \E cid \in Cid :
                    edit_anonymous_comment(d, p, id, cid, n, own_root(leaf), proof)
               \/ delete_anonymous_comment(d, p, id, n, own_root(leaf), proof)
        PROVE  CommentsInv' /\ CommentsStay
    BY <2>3, AnonymousAuthorStep
  <2> QED
    BY <2>1, <2>2, <2>3
<1> QED
  BY <1>1, <1>2

\* A transaction of the voting system only makes proposals exist.
LEMMA CommentsStutter ==
  ASSUME SystemInv, CommentsInv, [Next]_vars, UNCHANGED comments_vars
  PROVE  CommentsInv' /\ CommentsStay
<1>1. UNCHANGED <<comments, hands>>
  BY DEF comments_vars
<1>2. CommentsInv'
  <2>1. ASSUME NEW d \in DaoId, NEW p \in ProposalId
        PROVE  ThreadFacts(d, p, comments[d][p], hands[d][p])'
    <3>1. ThreadFacts(d, p, comments'[d][p], hands'[d][p])
      BY <1>1 DEF CommentsInv
    <3> QED
      BY <3>1 DEF ThreadFacts, IsSequence, Elements, CommentFacts, CommentOK, WrittenBy
  <2>2. ASSUME NEW d \in DaoId, NEW p \in ProposalId, comments'[d][p] # << >>
        PROVE  proposal_exists(d, p)'
    BY <1>1, <2>2, ProposalsStay DEF CommentsInv
  <2> QED
    BY <1>1, <2>1, <2>2 DEF CommentsInv
<1>3. CommentsStay
  BY <1>1 DEF CommentsStay, CommentStays
<1> QED
  BY <1>2, <1>3

(***************************************************************************)
(* The theorems of the comments contract.                                  *)
(***************************************************************************)

\* The invariant, which holds together with that of the voting system.
THEOREM CommentsInvariant == CommentsSpec => [](SystemInv /\ CommentsInv)
<1>1. AllInit => CommentsInv
  BY CommentsInitInv DEF AllInit
<1>2. SystemInv /\ CommentsInv /\ [CommentsNext]_all_vars => CommentsInv'
  <2> SUFFICES ASSUME SystemInv, CommentsInv, [CommentsNext]_all_vars
               PROVE  CommentsInv'
    OBVIOUS
  <2>1. CASE [Next]_vars /\ UNCHANGED comments_vars
    BY <2>1, CommentsStutter
  <2>2. CASE (PublicComment \/ AnonymousComment) /\ UNCHANGED vars
    BY <2>2, CommentTransactionStep DEF vars, voting_vars
  <2> QED
    BY <2>1, <2>2 DEF CommentsNext, all_vars
<1>3. CommentsSpec => []SystemInv
  BY CommentsImplementVoting, SystemInvariant, PTL
<1> QED
  BY <1>1, <1>2, <1>3, PTL DEF CommentsSpec

\* Comments keep their type, within MAX_REVISIONS, and their history beside them.
THEOREM CommentTypeCorrect == CommentsSpec => []CommentTypeOK
<1>1. CommentsInv => CommentTypeOK
  BY ThreadShape DEF CommentTypeOK, Threads, CommentsInv, ThreadFacts, CommentFacts
<1> QED
  BY <1>1, CommentsInvariant, PTL

\* Parent links form trees on proposals that exist, however comments, deletions
\* and the steps of the voting system interleave.
THEOREM ThreadsAreTreesAlways == CommentsSpec => []ThreadsAreTrees
<1>1. CommentsInv => ThreadsAreTrees
  <2> SUFFICES ASSUME CommentsInv, NEW d \in DaoId, NEW p \in ProposalId,
                      NEW id \in DOMAIN comments[d][p],
                      comments[d][p][id].parent_id # None
               PROVE  /\ comments[d][p][id].parent_id \in DOMAIN comments[d][p]
                      /\ comments[d][p][id].parent_id < id
    BY DEF ThreadsAreTrees, Threads, CommentsInv
  <2>1. comments[d][p][id].parent_id \in 1 .. id - 1
    BY DEF CommentsInv, ThreadFacts, CommentFacts
  <2> QED
    BY <2>1, ThreadShape
<1> QED
  BY <1>1, CommentsInvariant, PTL

\* Whoever edits or withdraws a comment is the one who wrote it: the address, or
\* the identity secret behind the nullifier, under any leaf, root and key.
THEOREM OneAuthorPerCommentAlways == CommentsSpec => []OneAuthorPerComment
<1>1. CommentsInv => OneAuthorPerComment
  BY DEF OneAuthorPerComment, Threads, CommentsInv, ThreadFacts, CommentFacts
<1> QED
  BY <1>1, CommentsInvariant, PTL

\* No step moves a comment, changes its author or parent, undoes a deletion or
\* loses a text while revisions are kept.
THEOREM CommentsArePermanentAlways == CommentsSpec => CommentsArePermanent
<1>1. SystemInv /\ CommentsInv /\ [CommentsNext]_all_vars => [CommentsStay]_all_vars
  <2> SUFFICES ASSUME SystemInv, CommentsInv, CommentsNext
               PROVE  CommentsStay
    OBVIOUS
  <2>1. CASE Next /\ UNCHANGED comments_vars
    BY <2>1, CommentsStutter
  <2>2. CASE (PublicComment \/ AnonymousComment) /\ UNCHANGED vars
    BY <2>2, CommentTransactionStep DEF vars, voting_vars
  <2> QED
    BY <2>1, <2>2 DEF CommentsNext
<1> QED
  BY <1>1, CommentsInvariant, PTL DEF CommentsSpec, CommentsArePermanent

(***************************************************************************)
(* The two root checks.                                                    *)
(***************************************************************************)

\* Nothing but integers is compared, so a check that is refused below a bound
\* and one that is passed at it are the same.
LEMMA RootChecksAgree ==
  ASSUME VotingInv, ElectorateInv
  PROVE  CommentRootsMatchVoting
<1> SUFFICES ASSUME NEW d \in DaoId, NEW p \in DOMAIN proposals[d],
                    NEW root \in DOMAIN tree[d].root_index
             PROVE  validate_root_eligibility(d, p, root) <=> root_eligible(d, p, root)
  BY DEF CommentRootsMatchVoting, Polls, proposal_exists
<1>1. proposals[d][p].vote_mode \in {"Fixed", "Trailing"}
  BY DEF VotingInv, VotingTypeOK, ProposalOK
<1>2. /\ proposals[d][p].earliest_root_index \in Nat
      /\ TreeInv(tree[d])
  BY DEF ElectorateInv, RollOK
<1>3. tree[d].root_index[root] \in Nat /\ tree[d].min_valid_root_idx \in Nat
  BY <1>2 DEF TreeInv, TreeShape, TreeOK
<1>4. /\ root_idx(tree[d], root) \in Nat
      /\ ~(root_idx(tree[d], root) < proposals[d][p].earliest_root_index)
           <=> root_idx(tree[d], root) >= proposals[d][p].earliest_root_index
      /\ ~(root_idx(tree[d], root) < tree[d].min_valid_root_idx)
           <=> root_idx(tree[d], root) >= tree[d].min_valid_root_idx
  BY <1>2, <1>3 DEF root_idx
<1> QED
  BY <1>1, <1>4 DEF validate_root_eligibility, root_eligible

\* The comments contract admits exactly the roots the voting contract admits, for
\* every proposal and every root of its DAO, at every point of every history.
THEOREM CommentRootsMatchVotingAlways == CommentsSpec => []CommentRootsMatchVoting
<1>1. ElectionInv => CommentRootsMatchVoting
  BY RootChecksAgree DEF ElectionInv, SystemInv
<1> QED
  BY <1>1, CommentsImplementVoting, ElectionInvariant, PTL
=============================================================================
