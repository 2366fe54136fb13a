---------------------------- MODULE MemberClient ----------------------------
(***************************************************************************)
(* The frontend over the ledger: what the members' pages do in place of the *)
(* arbitrary transactions of Voting.  A wallet's signature yields the same  *)
(* credentials every time; what localStorage keeps of them besides is the   *)
(* leaf index, for some hours.  Each await of a handler is a step, between  *)
(* which other members' transactions take effect; a call may fail and the   *)
(* answer to a transaction may get lost.  Whether a page shows an           *)
(* administrator's buttons is read as it is now.  How a vote gets from the   *)
(* browser to the ledger is in Relayer.                                    *)
(***************************************************************************)
EXTENDS Voting

CONSTANTS
  Dao,               \* the DAO whose pages are open
  commitment_of(_),  \* the commitment made from an address's signature for Dao
  ZKey,              \* the key /circuits/vote_final.zkey proves under
  Form,              \* what CreateDAOForm may be submitted with
  Choice,            \* the buttons of the voting dialog: TRUE for yes
  Voter,             \* members who vote and comment, and who keep trying to
  MaxFailures        \* bound of the model: failed calls and lost answers

ASSUME ClientAssumption ==
  /\ Dao \in DaoId
  /\ \A a \in Address : commitment_of(a) \in Leaf \ {Zero}
  /\ ZKey \in VoteCircuitVk
  /\ MaxTreeDepth \in Depth
  /\ \A s \in Secret, p \in ProposalId : nullifier_of(s, Dao, p) \in U256
  /\ Form \subseteq [ name : Text, creator : Address, membership_open : BOOLEAN,
                     members_can_propose : BOOLEAN ]
  /\ Choice \subseteq BOOLEAN
  /\ Voter \subseteq Address
  /\ MaxFailures \in Nat

VARIABLES
  credentials,  \* credentials[a]: the leafIndex a's localStorage holds for Dao, or None
  page,         \* what a's page believes of its member
  task,         \* the handler a's page is running, and its local variables
  failures      \* number of calls that failed and answers that got lost so far

client_vars == <<credentials, page, task, failures>>
all_vars == <<vars, client_vars>>

Idle == [ at |-> "idle", what |-> None, poll |-> None, choice |-> None,
          index |-> None, root |-> None, member |-> None ]

Resting(a) == task[a].at \in {"idle", "removed", "not_present"}
begin(a, t) == Resting(a) /\ task' = [task EXCEPT ![a] = t]
go_on(a, at) == task' = [task EXCEPT ![a].at = at]
finish(a) == task' = [task EXCEPT ![a] = Idle]

\* A failure, and the choice between an answer that arrives and one that does not.
fail == failures < MaxFailures /\ failures' = failures + 1
answered(next, lost) == (next /\ UNCHANGED failures) \/ (lost /\ fail)

\* A transaction of one contract leaves the others alone.
sbt_only == UNCHANGED <<registry_vars, tree_vars, voting_vars, now>>
registry_only == UNCHANGED <<sbt_vars, tree_vars, voting_vars, now>>
tree_only == UNCHANGED <<registry_vars, sbt_vars, voting_vars, now>>
voting_only == UNCHANGED <<lower_vars, now>>

(***************************************************************************)
(* Loading a page, and the credentials kept in localStorage.               *)
(***************************************************************************)
openPage(a) ==
  /\ Resting(a)
  /\ page' = [page EXCEPT ![a] = [ hasMembership |-> has(Dao, a),
                                   isRegistered  |-> credentials[a] # None ]]
  /\ UNCHANGED <<vars, credentials, task, failures>>

\* The cached index is compared with get_leaf_index; an error counts as "no".
checkRegistrationStatus(a) ==
  /\ Resting(a)
  /\ answered(
       page' = [page EXCEPT ![a].isRegistered =
                  /\ credentials[a] # None
                  /\ commitment_of(a) \in DOMAIN tree[Dao].leaf_index
                  /\ tree[Dao].leaf_index[commitment_of(a)] = credentials[a]],
       page' = [page EXCEPT ![a].isRegistered = FALSE])
  /\ UNCHANGED <<vars, credentials, task>>

\* CREDENTIAL_CACHE_TTL_MS has passed.
expire(a) ==
  /\ credentials[a] # None
  /\ credentials' = [credentials EXCEPT ![a] = None]
  /\ UNCHANGED <<vars, page, task, failures>>

\* An awaited call throws: the handler shows the error and ends.
call_fails(a) ==
  /\ ~Resting(a)
  /\ fail
  /\ finish(a)
  /\ UNCHANGED <<vars, credentials, page>>

(***************************************************************************)
(* Registering: the transaction, then get_leaf_index.                      *)
(***************************************************************************)
handleRegisterForVoting(a) ==
  /\ page[a].hasMembership /\ ~page[a].isRegistered
  /\ begin(a, [Idle EXCEPT !.at = "register"])
  /\ UNCHANGED <<vars, credentials, page, failures>>

commitment_exists(a) == has(Dao, a) /\ commitment_of(a) \in DOMAIN tree[Dao].leaf_index
registrable(a) == has(Dao, a) /\ can_register(tree[Dao], commitment_of(a), a)

\* Mutant of recover: error #5 is an error like any other.
RecoverNever(a) == commitment_exists(a) /\ finish(a)

\* Error #5, CommitmentExists: an earlier registration, whose answer was lost or
\* whose credentials were, is taken up.
recover(a) == commitment_exists(a) /\ go_on(a, "leaf_index")

\* DAODashboard and ProposalPage send register_with_caller, PublicVotes sends
\* self_register, which has the same effect.
sendRegistration(a) ==
  /\ task[a].at = "register"
  /\ \/ /\ register_with_caller(Dao, commitment_of(a), a) \/ self_register(Dao, commitment_of(a), a)
        /\ answered(go_on(a, "leaf_index"), finish(a))
        /\ tree_only
     \/ /\ recover(a) \/ (~registrable(a) /\ ~commitment_exists(a) /\ finish(a))
        /\ UNCHANGED <<vars, failures>>
  /\ UNCHANGED <<credentials, page>>

\* Mutant of storeZKCredentials: the parameter leafIndex keeps its default.
StoreDefaultIndex(a, leafIndex) == credentials' = [credentials EXCEPT ![a] = 0]

storeZKCredentials(a, leafIndex) == credentials' = [credentials EXCEPT ![a] = leafIndex]

storeRegistration(a) ==
  /\ task[a].at = "leaf_index"
  /\ storeZKCredentials(a, tree[Dao].leaf_index[commitment_of(a)])
  /\ page' = [page EXCEPT ![a].isRegistered = TRUE]
  /\ finish(a)
  /\ UNCHANGED <<vars, failures>>

(***************************************************************************)
(* Voting and commenting anonymously.  The buttons of ProposalPage ask its  *)
(* flag, those of ProposalCard ask localStorage; hasVoted, FALSE until it    *)
(* is known, only hides them.                                              *)
(***************************************************************************)
handleVote(a, p, choice) ==
  /\ proposal_exists(Dao, p)
  /\ proposals[Dao][p].end_time = 0 \/ now <= proposals[Dao][p].end_time
  /\ page[a].hasMembership /\ (page[a].isRegistered \/ credentials[a] # None)
  /\ begin(a, [Idle EXCEPT !.at = "credentials", !.what = "vote", !.poll = p, !.choice = choice])
  /\ UNCHANGED <<vars, credentials, page, failures>>

\* CommentForm, with the box "anonymous" ticked.
handleSubmit(a, p) ==
  /\ proposal_exists(Dao, p)
  /\ page[a].hasMembership /\ page[a].isRegistered
  /\ begin(a, [Idle EXCEPT !.at = "credentials", !.what = "comment", !.poll = p])
  /\ UNCHANGED <<vars, credentials, page, failures>>

proposal_of(a) == proposals[Dao][task[a].poll]

\* Mutant of proving_root: a Trailing proposal's vote is proved against its snapshot.
ProvingRootEligible(a, index) ==
  task' = [task EXCEPT ![a].index = index, ![a].at = "path", ![a].root = proposal_of(a).eligible_root]

\* The snapshot for a Fixed proposal and for every comment; else the current root,
\* which has to be fetched.
proving_root(a, index) ==
  task' = [task EXCEPT
    ![a].index = index,
    ![a].at = IF task[a].what = "vote" /\ proposal_of(a).vote_mode = "Trailing" THEN "root" ELSE "path",
    ![a].root = proposal_of(a).eligible_root]

\* From the cache, or regenerated from the wallet's signature and get_leaf_index.
loadCredentials(a) ==
  /\ task[a].at = "credentials"
  /\ IF credentials[a] # None
     THEN proving_root(a, credentials[a]) /\ UNCHANGED credentials
     ELSE IF commitment_of(a) \in DOMAIN tree[Dao].leaf_index
     THEN LET leafIndex == tree[Dao].leaf_index[commitment_of(a)]
          IN  storeZKCredentials(a, leafIndex) /\ proving_root(a, leafIndex)
     ELSE finish(a) /\ UNCHANGED credentials
  /\ UNCHANGED <<vars, page, failures>>

fetchCurrentRoot(a) ==
  /\ task[a].at = "root"
  /\ task' = [task EXCEPT ![a].at = "path", ![a].root = current_root(tree[Dao])]
  /\ UNCHANGED <<vars, credentials, page, failures>>

\* getMerklePath and generateVoteProof.  The circuit's assertion fails when the path
\* does not lead to the root, which the dialog explains by the mode.
getMerklePath(a) ==
  /\ task[a].at = "path"
  /\ IF fold_path(commitment_of(a), get_merkle_path(tree[Dao], task[a].index)) = task[a].root
     THEN go_on(a, "submit")
     ELSE IF task[a].what = "vote" /\ proposal_of(a).vote_mode = "Fixed"
     THEN task' = [task EXCEPT ![a] = [Idle EXCEPT !.at = "not_present", !.poll = task[a].poll]]
     ELSE finish(a)
  /\ UNCHANGED <<vars, credentials, page, failures>>

nullifier(a) == nullifier_of(secret_of(commitment_of(a)), Dao, task[a].poll)

\* What the relayer's simulation finds out, the proof being right.
acceptable(a) ==
  /\ ~nullifier_used(Dao, task[a].poll, nullifier(a))
  /\ proposal_of(a).state = "Active"
  /\ proposal_of(a).end_time = 0 \/ now <= proposal_of(a).end_time
  /\ root_eligible(Dao, task[a].poll, task[a].root)
  /\ get_vk_by_version(Dao, proposal_of(a).vk_version) = ZKey

submitVote(a) ==
  /\ task[a].at = "submit" /\ task[a].what = "vote"
  /\ \/ /\ vote(Dao, task[a].poll, task[a].choice, nullifier(a), task[a].root,
                [vk |-> ZKey, leaf |-> commitment_of(a)])
        /\ answered(finish(a), finish(a))
        /\ voting_only
     \/ /\ ~acceptable(a)
        /\ finish(a)
        /\ UNCHANGED <<vars, failures>>
  /\ UNCHANGED <<credentials, page>>

\* The comments contract is modelled in Comments.
submitComment(a) ==
  /\ task[a].at = "submit" /\ task[a].what = "comment"
  /\ finish(a)
  /\ UNCHANGED <<vars, credentials, page, failures>>

(***************************************************************************)
(* Joining, leaving, and the pages of the administrator.  A handler whose   *)
(* only step is one transaction is one action; a transaction that is refused *)
(* changes nothing.                                                        *)
(***************************************************************************)
handleCreateDao(form) ==
  /\ create_and_init_dao_no_reg(form.name, form.creator, form.membership_open,
                                form.members_can_propose, None, MaxTreeDepth, ZKey)
  /\ UNCHANGED <<now, client_vars>>

handleJoinDao(a) ==
  /\ Resting(a)
  /\ ~page[a].hasMembership
  /\ self_join(Dao, a, None)
  /\ answered(page' = [page EXCEPT ![a].hasMembership = TRUE], UNCHANGED page)
  /\ sbt_only
  /\ UNCHANGED <<credentials, task>>

handleLeaveConfirm(a) ==
  /\ Resting(a)
  /\ has(Dao, a) /\ get_admin(Dao) # a
  /\ leave(Dao, a)
  /\ sbt_only
  /\ UNCHANGED client_vars

handleMintSBT(a, to) ==
  /\ Resting(a)
  /\ mint(Dao, to, a, None)
  /\ sbt_only
  /\ UNCHANGED client_vars

\* Two transactions: revoke, then remove_member.
handleRemoveMemberConfirm(a, m) ==
  /\ m # get_admin(Dao)
  /\ Resting(a)
  /\ answered(begin(a, [Idle EXCEPT !.at = "remove", !.member = m]), UNCHANGED task)
  /\ revoke(Dao, m, a)
  /\ sbt_only
  /\ UNCHANGED <<credentials, page>>

removable(a, m) ==
  /\ get_admin(Dao) = a
  /\ m \in DOMAIN tree[Dao].member_leaf_index
  /\ tree[Dao].leaf_value[tree[Dao].member_leaf_index[m]] # Zero

removeFromTree(a) ==
  /\ task[a].at = "remove"
  /\ \/ /\ remove_member(Dao, task[a].member, a)
        /\ answered(task' = [task EXCEPT ![a] = [Idle EXCEPT !.at = "removed"]], finish(a))
        /\ UNCHANGED <<registry_vars, voting_vars, now>>
     \/ /\ ~removable(a, task[a].member)
        /\ finish(a)
        /\ UNCHANGED <<vars, failures>>
  /\ UNCHANGED <<credentials, page>>

\* DAOSettings.
handleToggleMembership(a) ==
  /\ Resting(a)
  /\ set_membership_open(Dao, ~is_membership_open(Dao), a)
  /\ registry_only
  /\ UNCHANGED client_vars

\* With "no deadline", so that time need not pass here.
handleCreateProposal(a, title, content_cid, vote_mode) ==
  /\ Resting(a)
  /\ create_proposal_with_version(Dao, title, content_cid, 0, a, vote_mode, None)
  /\ voting_only
  /\ UNCHANGED client_vars

ClientInit ==
  /\ Init
  /\ credentials = [a \in Address |-> None]
  /\ page = [a \in Address |-> [hasMembership |-> FALSE, isRegistered |-> FALSE]]
  /\ task = [a \in Address |-> Idle]
  /\ failures = 0

\* The steps of a handler that has begun.
TaskStep(a) ==
  \/ call_fails(a)
  \/ sendRegistration(a) \/ storeRegistration(a)
  \/ loadCredentials(a) \/ fetchCurrentRoot(a) \/ getMerklePath(a)
  \/ submitVote(a) \/ submitComment(a)
  \/ removeFromTree(a)

MemberStep(a) ==
  \/ openPage(a) \/ checkRegistrationStatus(a) \/ expire(a)
  \/ TaskStep(a)
  \/ handleRegisterForVoting(a)
  \/ /\ a \in Voter
     /\ \E p \in ProposalId : handleSubmit(a, p) \/ \E choice \in Choice : handleVote(a, p, choice)
  \/ handleJoinDao(a) \/ handleLeaveConfirm(a)
  \/ \E m \in Address :
       handleMintSBT(a, m) \/ handleRemoveMemberConfirm(a, m)
  \/ handleToggleMembership(a)
  \/ \E title \in Text, cid \in Cid \cup {0}, mode \in {"Fixed", "Trailing"} :
       handleCreateProposal(a, title, cid, mode)

ClientNext ==
  \/ \E form \in Form : handleCreateDao(form)
  \/ dao_exists(Dao) /\ \E a \in Address : MemberStep(a)

ClientSpec == ClientInit /\ [][ClientNext]_all_vars

\* Awaited calls settle, and a voter keeps using the page: loads it when it is out
\* of date, registers when it offers to, votes when it lets him.
ClientFairness ==
  /\ \A a \in Address : WF_all_vars(TaskStep(a))
  /\ \A a \in Voter :
       /\ SF_all_vars(openPage(a) /\ page[a].hasMembership # has(Dao, a))
       /\ SF_all_vars(handleRegisterForVoting(a))
       /\ SF_all_vars(\E p \in ProposalId, choice \in Choice : handleVote(a, p, choice))

FairClientSpec == ClientSpec /\ ClientFairness

(***************************************************************************)
(* Properties.                                                             *)
(***************************************************************************)
live(a) == is_live(Dao, commitment_of(a))

\* Besides the types: the leaf index in localStorage, which nothing checks before a
\* proof is made from it, is the one of the member's own commitment.
ClientTypeOK ==
  /\ failures \in 0 .. MaxFailures
  /\ DOMAIN page = Address
  /\ \A a \in Address :
       /\ page[a] \in [hasMembership : BOOLEAN, isRegistered : BOOLEAN]
       /\ task[a].at \in {"idle", "register", "leaf_index", "credentials", "root", "path",
                          "submit", "not_present", "remove", "removed"}
       /\ credentials[a] # None =>
            /\ commitment_of(a) \in DOMAIN tree[Dao].leaf_index
            /\ tree[Dao].leaf_index[commitment_of(a)] = credentials[a]

\* "Successfully removed (SBT revoked + tree updated)": when the page says so both
\* are true, although the two transactions are apart and the member may join again,
\* vote or register in between.
RemovalTakesBoth ==
  [][\A a, m \in Address :
       /\ task[a].at = "remove" /\ task[a].member = m
       /\ task'[a].at = "removed"
       => ~has(Dao, m)' /\ ~live(m)']_all_vars

\* A member who keeps trying gets registered, whatever was lost on the way: the answer
\* to the registration, the leaf index after it, or the credentials kept afterwards.
RegistrationSettles ==
  \A a \in Voter :
    dao_exists(Dao) /\ has(Dao, a) ~>
      \/ page[a].isRegistered
      \/ ~has(Dao, a)
      \/ tree[Dao].next_leaf_index = capacity[tree[Dao].depth]

\* "Trailing mode: Use current root (allows new members to vote)": a live member who
\* keeps trying is counted in the end, although the root and the path are fetched apart
\* and others register in between; unless somebody is removed from the tree.
TrailingVoterVotes ==
  \A a \in Voter, p \in ProposalId :
    dao_exists(Dao) /\ proposal_exists(Dao, p) /\ proposals[Dao][p].vote_mode = "Trailing"
      /\ has(Dao, a) /\ live(a) ~>
        \/ \E b \in BallotsIn(Dao, p) : b.leaf = commitment_of(a)
        \/ ~has(Dao, a)
        \/ tree[Dao].min_valid_root_idx > 0

\* The dialog, when the proof cannot be made: "Only members who were present when the
\* proposal was created can vote on it".  Claimed here: a member who is told so was not
\* in the snapshot.  The code refutes it: the path is the one of the current tree,
\* which any later registration changes.
ToldAbsentWasAbsent ==
  \A a \in Address : task[a].at = "not_present" =>
    ~Included(proposals[Dao][task[a].poll].eligible_root, commitment_of(a))
=============================================================================
