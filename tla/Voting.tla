------------------------------- MODULE Voting -------------------------------
(***************************************************************************)
(* The voting contract over the tree, the token and the registry, and the  *)
(* registry's create_and_init transactions, which call all of them.  This  *)
(* is the whole voting system as one ledger: Next interleaves transactions *)
(* of any address on any DAO with the passing of ledger time.              *)
(*                                                                         *)
(* Groth16 and Poseidon are idealised: a proof verifies exactly when its   *)
(* prover knew a witness for the public signals, reduced modulo the scalar *)
(* field, under the same key.                                              *)
(***************************************************************************)
EXTENDS MembershipTree

CONSTANTS
  U256,               \* nullifiers passed to vote
  FieldModulus,       \* BN254_FR_MODULUS, the scalar field order r
  Secret,             \* identity secrets
  secret_of(_),       \* the secret behind a commitment Poseidon(secret, salt)
  nullifier_of(_, _, _),  \* Poseidon(secret, dao, proposal)
  Vk,                 \* verification keys passed to set_vk
  VoteCircuitVk,      \* those whose ic has VOTE_CIRCUIT_IC_LEN points
  MaxProposals,       \* bound of the model: proposals per DAO
  MaxVks,             \* bound of the model: keys set per DAO
  MaxTime             \* bound of the model: ledger time

ASSUME VotingAssumption ==
  /\ U256 \subseteq Nat
  /\ FieldModulus \in Nat \ {0}
  /\ \A c \in Leaf \ {Zero} : secret_of(c) \in Secret
  /\ \A s \in Secret, d \in DaoId, p \in 1 .. MaxProposals :
       nullifier_of(s, d, p) \in 1 .. FieldModulus - 1
  /\ VoteCircuitVk \subseteq Vk
  /\ MaxProposals \in Nat
  /\ MaxVks \in Nat
  /\ MaxTime \in Nat

VARIABLES
  proposals,   \* proposals[d][p]; ProposalCount(d) is Len(proposals[d])
  nullifiers,  \* Nullifier(d, p, n) keys that are set, as triples
  vks,         \* vks[d][v] is VkByVersion(d, v); VkVersion(d) is Len(vks[d])
  now,         \* ledger timestamp
  ballots      \* history: the accepted votes, with the witness behind each

voting_vars == <<proposals, nullifiers, vks, ballots>>
lower_vars == <<registry_vars, sbt_vars, tree_vars>>
vars == <<lower_vars, voting_vars, now>>

MAX_TITLE_LEN == 100
MAX_CID_LEN == 64
ProposalId == 1 .. MaxProposals

(***************************************************************************)
(* Verification keys.                                                      *)
(***************************************************************************)
hash_vk(vk) == <<"sha256", vk>>
vk_version(d) == Len(vks[d])
get_vk_by_version(d, v) == vks[d][v]

\* Mutant of set_vk_from_registry: the newest version is overwritten.
SetVkInPlace(d, vk) ==
  /\ vk \in VoteCircuitVk
  /\ vk_version(d) < MaxVks
  /\ vks' = [vks EXCEPT ![d] = IF @ = << >> THEN <<vk>>
                               ELSE [@ EXCEPT ![Len(@)] = vk]]
  /\ UNCHANGED <<proposals, nullifiers, ballots>>

\* validate_vk, bump_vk_version and the store under the new version.  VotingKey,
\* which only ever repeats the newest version, is left out.  Anyone may call it.
set_vk_from_registry(d, vk) ==
  /\ vk \in VoteCircuitVk
  /\ vk_version(d) < MaxVks
  /\ vks' = [vks EXCEPT ![d] = Append(@, vk)]
  /\ UNCHANGED <<proposals, nullifiers, ballots>>

set_vk(d, vk, admin) ==
  /\ assert_admin(d, admin)
  /\ set_vk_from_registry(d, vk)

(***************************************************************************)
(* Proposals.                                                              *)
(***************************************************************************)
proposal_exists(d, p) == p \in DOMAIN proposals[d]

\* create_proposal passes version None, create_proposal_with_vk_version a number.
create_proposal_with_version(d, title, content_cid, end_time, creator, vote_mode, version) ==
  /\ title <= MAX_TITLE_LEN
  /\ content_cid <= MAX_CID_LEN
  /\ has(d, creator)
  /\ dao_exists(d)
  /\ members_can_propose(d) \/ creator = get_admin(d)
  /\ end_time = 0 \/ end_time > now
  /\ vk_version(d) > 0
  /\ tree_initialized(d)
  /\ Len(proposals[d]) < MaxProposals
  /\ LET selected == IF version = None THEN vk_version(d) ELSE version
     IN  /\ selected \in 1 .. vk_version(d)
         /\ proposals' = [proposals EXCEPT ![d] = Append(@,
              [ title               |-> title,
                content_cid         |-> content_cid,
                yes_votes           |-> 0,
                no_votes            |-> 0,
                end_time            |-> end_time,
                state               |-> "Active",
                vk_hash             |-> hash_vk(get_vk_by_version(d, selected)),
                vk_version          |-> selected,
                eligible_root       |-> current_root(tree[d]),
                vote_mode           |-> vote_mode,
                earliest_root_index |-> curr_idx(tree[d]) ])]
  /\ UNCHANGED <<nullifiers, vks, ballots>>

\* The root check by vote mode.  Public signals out of the field are refused
\* before it; a root is a Poseidon output, and any other number is neither a
\* snapshot nor in the history.
root_eligible(d, p, root) ==
  LET proposal == proposals[d][p]
  IN  CASE proposal.vote_mode = "Fixed" -> root = proposal.eligible_root
        [] proposal.vote_mode = "Trailing" ->
             /\ root_ok(tree[d], root)
             /\ root_idx(tree[d], root) >= proposal.earliest_root_index
             /\ root_idx(tree[d], root) >= tree[d].min_valid_root_idx

in_field(n) == n < FieldModulus
nullifier_used(d, p, n) == <<d, p, n>> \in nullifiers

\* vote.circom for the witness behind commitment c, under key vk: the scalar
\* multiplications of the verifier reduce the nullifier modulo r.
verify_groth16(vk, proof, root, nullifier, d, p) ==
  /\ proof.vk = vk
  /\ Included(root, proof.leaf)
  /\ nullifier_of(secret_of(proof.leaf), d, p) = nullifier % FieldModulus

is_live(d, c) == \E i \in DOMAIN tree[d].leaf_value : tree[d].leaf_value[i] = c

\* Mark the nullifier and count the vote.
cast(d, p, choice, nullifier, proof) ==
  /\ nullifiers' = nullifiers \cup {<<d, p, nullifier>>}
  /\ proposals' = IF choice THEN [proposals EXCEPT ![d][p].yes_votes = @ + 1]
                            ELSE [proposals EXCEPT ![d][p].no_votes = @ + 1]
  /\ ballots' = ballots \cup {[ dao |-> d, proposal |-> p, nullifier |-> nullifier,
                                leaf |-> proof.leaf, choice |-> choice,
                                live |-> is_live(d, proof.leaf) ]}
  /\ UNCHANGED vks

\* Mutant of vote: the nullifier is not checked against the field modulus.
VoteUnreduced(d, p, choice, nullifier, root, proof) ==
  /\ nullifier # 0
  /\ ~nullifier_used(d, p, nullifier)
  /\ proposal_exists(d, p)
  /\ proposals[d][p].state = "Active"
  /\ proposals[d][p].end_time = 0 \/ now <= proposals[d][p].end_time
  /\ root_eligible(d, p, root)
  /\ LET vk == get_vk_by_version(d, proposals[d][p].vk_version)
     IN  /\ hash_vk(vk) = proposals[d][p].vk_hash
         /\ verify_groth16(vk, proof, root, nullifier, d, p)
  /\ cast(d, p, choice, nullifier, proof)

\* Mutant of vote: a used nullifier is accepted.
VoteAgain(d, p, choice, nullifier, root, proof) ==
  /\ in_field(nullifier)
  /\ nullifier # 0
  /\ proposal_exists(d, p)
  /\ proposals[d][p].state = "Active"
  /\ proposals[d][p].end_time = 0 \/ now <= proposals[d][p].end_time
  /\ root_eligible(d, p, root)
  /\ LET vk == get_vk_by_version(d, proposals[d][p].vk_version)
     IN  /\ hash_vk(vk) = proposals[d][p].vk_hash
         /\ verify_groth16(vk, proof, root, nullifier, d, p)
  /\ cast(d, p, choice, nullifier, proof)

\* Mutant of vote: the deadline is not checked.
VoteLate(d, p, choice, nullifier, root, proof) ==
  /\ in_field(nullifier)
  /\ nullifier # 0
  /\ ~nullifier_used(d, p, nullifier)
  /\ proposal_exists(d, p)
  /\ proposals[d][p].state = "Active"
  /\ root_eligible(d, p, root)
  /\ LET vk == get_vk_by_version(d, proposals[d][p].vk_version)
     IN  /\ hash_vk(vk) = proposals[d][p].vk_hash
         /\ verify_groth16(vk, proof, root, nullifier, d, p)
  /\ cast(d, p, choice, nullifier, proof)

\* Mutant of vote: any root of the history is accepted, whatever the mode.
VoteAnyRoot(d, p, choice, nullifier, root, proof) ==
  /\ in_field(nullifier)
  /\ nullifier # 0
  /\ ~nullifier_used(d, p, nullifier)
  /\ proposal_exists(d, p)
  /\ proposals[d][p].state = "Active"
  /\ proposals[d][p].end_time = 0 \/ now <= proposals[d][p].end_time
  /\ root_ok(tree[d], root)
  /\ LET vk == get_vk_by_version(d, proposals[d][p].vk_version)
     IN  /\ hash_vk(vk) = proposals[d][p].vk_hash
         /\ verify_groth16(vk, proof, root, nullifier, d, p)
  /\ cast(d, p, choice, nullifier, proof)

vote(d, p, choice, nullifier, root, proof) ==
  /\ in_field(nullifier)
  /\ nullifier # 0
  /\ ~nullifier_used(d, p, nullifier)
  /\ proposal_exists(d, p)
  /\ proposals[d][p].state = "Active"
  /\ proposals[d][p].end_time = 0 \/ now <= proposals[d][p].end_time
  /\ root_eligible(d, p, root)
  /\ LET vk == get_vk_by_version(d, proposals[d][p].vk_version)
     IN  /\ hash_vk(vk) = proposals[d][p].vk_hash
         /\ verify_groth16(vk, proof, root, nullifier, d, p)
  /\ cast(d, p, choice, nullifier, proof)

\* Mutant of close_proposal: an archived proposal is closed again.
CloseAnyState(d, p, admin) ==
  /\ assert_admin(d, admin)
  /\ proposal_exists(d, p)
  /\ proposals' = [proposals EXCEPT ![d][p].state = "Closed"]
  /\ UNCHANGED <<nullifiers, vks, ballots>>

close_proposal(d, p, admin) ==
  /\ assert_admin(d, admin)
  /\ proposal_exists(d, p)
  /\ proposals[d][p].state # "Archived"
  /\ proposals' = [proposals EXCEPT ![d][p].state = "Closed"]
  /\ UNCHANGED <<nullifiers, vks, ballots>>

archive_proposal(d, p, admin) ==
  /\ assert_admin(d, admin)
  /\ proposal_exists(d, p)
  /\ proposals[d][p].state # "Active"
  /\ proposals' = [proposals EXCEPT ![d][p].state = "Archived"]
  /\ UNCHANGED <<nullifiers, vks, ballots>>

(***************************************************************************)
(* The registry's one-transaction DAO creation.  Each of the entry points  *)
(* it calls is also a transaction of its own, which anyone may send before *)
(* or after: a creation fails when one of them finds its work done.        *)
(***************************************************************************)
create_and_init_dao_no_reg(name, creator, open, can_propose, cid, depth, vk) ==
  /\ create_dao(name, creator, open, can_propose, cid)
  /\ mint_from_registry(next_dao_id, creator)
  /\ init_tree_from_registry(next_dao_id, depth)
  /\ set_vk_from_registry(next_dao_id, vk)

create_and_init_dao(name, creator, open, can_propose, depth, commitment, vk) ==
  /\ create_dao(name, creator, open, can_propose, None)
  /\ mint_from_registry(next_dao_id, creator)
  /\ init_and_register_from_registry(next_dao_id, depth, commitment, creator)
  /\ set_vk_from_registry(next_dao_id, vk)

CreateAndInit ==
  \E name \in Text, creator \in Address, open, can_propose \in BOOLEAN,
     depth \in Depth, vk \in Vk :
    \/ \E cid \in Cid \cup {None} :
         create_and_init_dao_no_reg(name, creator, open, can_propose, cid, depth, vk)
    \/ \E c \in Leaf :
         create_and_init_dao(name, creator, open, can_propose, depth, c, vk)

Vote ==
  \E d \in DaoId, p \in ProposalId :
    /\ proposal_exists(d, p)
    /\ \E choice \in BOOLEAN, n \in U256, leaf \in Leaf \ {Zero}, vk \in Vk,
          root \in DOMAIN tree[d].root_index :
         vote(d, p, choice, n, root, [vk |-> vk, leaf |-> leaf])

VotingTransaction ==
  \/ \E d \in DaoId, vk \in Vk : set_vk_from_registry(d, vk)
  \/ \E d \in DaoId, a \in Address :
       \/ \E vk \in Vk : set_vk(d, vk, a)
       \/ \E title \in Text, cid \in Cid \cup {0}, end_time \in 0 .. MaxTime,
             mode \in {"Fixed", "Trailing"}, version \in {None} \cup 0 .. MaxVks :
            create_proposal_with_version(d, title, cid, end_time, a, mode, version)
       \/ \E p \in ProposalId : close_proposal(d, p, a)
       \/ \E p \in ProposalId : archive_proposal(d, p, a)
  \/ Vote

LedgerClose == now < MaxTime /\ now' = now + 1 /\ UNCHANGED <<lower_vars, voting_vars>>

VotingInit ==
  /\ proposals = [d \in DaoId |-> << >>]
  /\ nullifiers = {}
  /\ vks = [d \in DaoId |-> << >>]
  /\ now = 0
  /\ ballots = {}

Init == LowerInit /\ VotingInit

Next ==
  \/ TreeNext /\ UNCHANGED <<voting_vars, now>>
  \/ VotingTransaction /\ UNCHANGED <<lower_vars, now>>
  \/ CreateAndInit /\ UNCHANGED now
  \/ LedgerClose

Spec == Init /\ [][Next]_vars

(***************************************************************************)
(* Properties.                                                             *)
(***************************************************************************)
Polls == {poll \in DaoId \X ProposalId : proposal_exists(poll[1], poll[2])}
BallotsIn(d, p) == {b \in ballots : b.dao = d /\ b.proposal = p}
Voters(d, p) == {secret_of(b.leaf) : b \in BallotsIn(d, p)}

ProposalOK(d, proposal) ==
  /\ proposal.yes_votes \in Nat
  /\ proposal.no_votes \in Nat
  /\ proposal.end_time \in 0 .. MaxTime
  /\ proposal.state \in {"Active", "Closed", "Archived"}
  /\ proposal.vote_mode \in {"Fixed", "Trailing"}
  /\ proposal.vk_version \in DOMAIN vks[d]

\* A sequence, whatever its elements are.
Elements(s) == {s[i] : i \in DOMAIN s}
IsSequence(s) == s \in Seq(Elements(s))

Ballot == [ dao : DaoId, proposal : ProposalId, nullifier : 1 .. FieldModulus - 1,
            leaf : Leaf \ {Zero}, choice : BOOLEAN, live : BOOLEAN ]

VotingTypeOK ==
  /\ DOMAIN proposals = DaoId
  /\ \A d \in DaoId :
       /\ IsSequence(proposals[d])
       /\ Len(proposals[d]) \in 0 .. MaxProposals
       /\ \A p \in DOMAIN proposals[d] : ProposalOK(d, proposals[d][p])
  /\ nullifiers \subseteq DaoId \X ProposalId \X (1 .. FieldModulus - 1)
  /\ vks \in [DaoId -> Seq(VoteCircuitVk)]
  /\ now \in 0 .. MaxTime
  /\ ballots \subseteq Ballot

\* The counters get_results returns count the ballots that were accepted, and
\* the nullifiers marked for a proposal are theirs: no vote is counted twice,
\* none is lost, and a nullifier of one proposal or DAO spends none in another.
TallyMatchesBallots ==
  \A poll \in Polls :
    LET d == poll[1]  p == poll[2]
        yes == {b \in BallotsIn(d, p) : b.choice}
    IN  /\ proposals[d][p].yes_votes = Cardinality(yes)
        /\ proposals[d][p].no_votes = Cardinality(BallotsIn(d, p) \ yes)
        /\ {n \in 1 .. FieldModulus - 1 : nullifier_used(d, p, n)}
             = {b.nullifier : b \in BallotsIn(d, p)}

\* "prevents double voting": an identity secret has at most one ballot per
\* proposal, even when it stands behind several leaves and even though the
\* verifier reduces a nullifier modulo r while storage does not.
OneBallotPerSecret ==
  \A a, b \in ballots :
    /\ a.dao = b.dao
    /\ a.proposal = b.proposal
    /\ secret_of(a.leaf) = secret_of(b.leaf)
    => a = b

\* A Fixed proposal is decided by the snapshot taken when it was created:
\* whatever is registered, removed or reinstated afterwards, there are never
\* more votes than commitments in the snapshot, all of them from it.
FixedElectorate ==
  \A poll \in Polls :
    LET proposal == proposals[poll[1]][poll[2]]
        snapshot == {proposal.eligible_root[i] : i \in DOMAIN proposal.eligible_root}
    IN  proposal.vote_mode = "Fixed" =>
          /\ {b.leaf : b \in BallotsIn(poll[1], poll[2])} \subseteq snapshot
          /\ proposal.yes_votes + proposal.no_votes <= Cardinality(snapshot \ {Zero})

\* "prevents VK changes from invalidating in-flight votes": the key a proposal
\* was created under is still the one stored for its version, so the VkChanged
\* branch of vote is never taken, however often the admin sets a new key.
VkPinned ==
  \A poll \in Polls :
    LET proposal == proposals[poll[1]][poll[2]]
    IN  hash_vk(get_vk_by_version(poll[1], proposal.vk_version)) = proposal.vk_hash

\* While a Trailing proposal is open the current root is eligible for it, after
\* any registrations, evictions and removals: a live member with an up-to-date
\* path in a tree of the circuit's depth can always be counted.
TrailingStaysVotable ==
  \A poll \in Polls :
    LET d == poll[1]
    IN  proposals[d][poll[2]].vote_mode = "Trailing" =>
          /\ root_eligible(d, poll[2], current_root(tree[d]))
          /\ tree[d].depth = MaxTreeDepth =>
               \A i \in Positions(tree[d].depth) :
                 tree[d].leaf_value[i] # Zero =>
                   Included(current_root(tree[d]), tree[d].leaf_value[i])

(***************************************************************************)
(* The refinement of Election: a poll is a proposal, a voter is an identity *)
(* secret, and the roll of a Fixed proposal is its snapshot.                *)
(***************************************************************************)
AllPolls == DaoId \X ProposalId

poll_phase(d, p) == IF proposal_exists(d, p) THEN proposals[d][p].state ELSE "None"

poll_roll(d, p) ==
  IF ~proposal_exists(d, p) THEN {}
  ELSE IF proposals[d][p].vote_mode = "Trailing" THEN Secret
  ELSE LET snapshot == proposals[d][p].eligible_root
       IN  {secret_of(c) : c \in {snapshot[i] : i \in DOMAIN snapshot} \ {Zero}}

poll_votes(d, p) ==
  [s \in Secret |->
     IF s \notin Voters(d, p) THEN "none"
     ELSE IF \E b \in BallotsIn(d, p) : secret_of(b.leaf) = s /\ b.choice
     THEN "yes" ELSE "no"]

poll_tally(d, p) ==
  IF proposal_exists(d, p)
  THEN [yes |-> proposals[d][p].yes_votes, no |-> proposals[d][p].no_votes]
  ELSE [yes |-> 0, no |-> 0]

Promise == INSTANCE Election WITH
  Poll  <- AllPolls,
  Voter <- Secret,
  phase <- [poll \in AllPolls |-> poll_phase(poll[1], poll[2])],
  roll  <- [poll \in AllPolls |-> poll_roll(poll[1], poll[2])],
  votes <- [poll \in AllPolls |-> poll_votes(poll[1], poll[2])],
  tally <- [poll \in AllPolls |-> poll_tally(poll[1], poll[2])]

\* The voting system implements Election: through every interleaving of
\* registrations, removals, key changes and votes, a Fixed roll stays what it was
\* at creation, a secret is counted once and the published tally is the count.
ImplementsElection == Promise!ElectionSpec

Snapshot(proposal) ==
  << proposal.title, proposal.content_cid, proposal.end_time,
     proposal.vk_hash, proposal.vk_version,
     proposal.eligible_root, proposal.vote_mode, proposal.earliest_root_index >>

ResultsStay ==
  \A d \in DaoId : \A p \in DOMAIN proposals[d] :
    LET old == proposals[d][p]
        new == proposals'[d][p]
        open == old.state = "Active" /\ (old.end_time = 0 \/ now <= old.end_time)
    IN  /\ p \in DOMAIN proposals'[d]
        /\ Snapshot(new) = Snapshot(old)
        /\ <<new.yes_votes, new.no_votes>> # <<old.yes_votes, old.no_votes>> =>
             /\ open
             /\ new.yes_votes + new.no_votes = old.yes_votes + old.no_votes + 1
        /\ new.state = old.state
           \/ <<old.state, new.state>>
                \in {<<"Active", "Closed">>, <<"Closed", "Archived">>}

\* A proposal's snapshot never changes, its state only advances, and its
\* counters move only by one vote at a time while it is Active and the deadline
\* has not passed: a result that was final stays final.
ResultsAreFinal == [][ResultsStay]_vars

\* A comment in vote: the check against min_root "ensures revoked members cannot
\* vote even on old proposals using their pre-revocation proofs".  Claimed here:
\* a ballot on a Trailing proposal comes from a leaf that is live when it is
\* cast.  The code refutes it, a later registration having restored the leaf.
TrailingBallotsAreLive ==
  \A b \in ballots : proposals[b.dao][b.proposal].vote_mode = "Trailing" => b.live
=============================================================================
