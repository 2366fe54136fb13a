---------------------------- MODULE VotingProofs ----------------------------
(***************************************************************************)
(* Theorems about Voting, for every value of its constants.                *)
(***************************************************************************)
EXTENDS Voting, TreeProofs, FiniteSetTheorems

(***************************************************************************)
(* Sequences whose elements have no common type (a proposal holds a root): *)
(* a sequence is one over the set of its own elements.                     *)
(***************************************************************************)
\* A sequence's domain is 1 .. Len.
LEMMA SequenceDomain ==
  ASSUME NEW s, IsSequence(s)
  PROVE  Len(s) \in Nat /\ DOMAIN s = 1 .. Len(s)
BY DEF IsSequence

\* A sequence over any set is a sequence.
LEMMA SequenceOver ==
  ASSUME NEW S, NEW s \in Seq(S)
  PROVE  IsSequence(s)
<1>1. Len(s) \in Nat /\ DOMAIN s = 1 .. Len(s) /\ s \in [1 .. Len(s) -> S]
  BY LenProperties
<1>2. \A i \in 1 .. Len(s) : s[i] \in Elements(s)
  BY <1>1 DEF Elements
<1>3. s \in [1 .. Len(s) -> Elements(s)]
  BY <1>1, <1>2
<1>4. s \in Seq(Elements(s))
  BY <1>1, <1>3, SeqDef
<1> QED
  BY <1>4 DEF IsSequence

\* Append adds one element at the end and keeps the others.
LEMMA AppendSequence ==
  ASSUME NEW s, IsSequence(s), NEW e
  PROVE  /\ IsSequence(Append(s, e))
         /\ Len(Append(s, e)) = Len(s) + 1
         /\ Append(s, e)[Len(s) + 1] = e
         /\ \A i \in 1 .. Len(s) : Append(s, e)[i] = s[i]
<1>1. PICK S : s \in Seq(S) /\ e \in S
  <2>1. s \in Seq(Elements(s) \cup {e})
    BY DEF IsSequence
  <2> QED
    BY <2>1
<1>2. Append(s, e) \in Seq(S)
  BY <1>1
<1>3. /\ Len(Append(s, e)) = Len(s) + 1
      /\ Append(s, e)[Len(s) + 1] = e
      /\ \A i \in 1 .. Len(s) : Append(s, e)[i] = s[i]
  BY <1>1
<1> QED
  BY <1>2, <1>3, SequenceOver

\* Replacing an element keeps the length and the other elements.
LEMMA ExceptSequence ==
  ASSUME NEW s, IsSequence(s), NEW p \in DOMAIN s, NEW e
  PROVE  /\ IsSequence([s EXCEPT ![p] = e])
         /\ Len([s EXCEPT ![p] = e]) = Len(s)
         /\ [s EXCEPT ![p] = e][p] = e
         /\ \A i \in DOMAIN s \ {p} : [s EXCEPT ![p] = e][i] = s[i]
<1>1. PICK S : s \in Seq(S) /\ e \in S
  <2>1. s \in Seq(Elements(s) \cup {e})
    BY DEF IsSequence
  <2> QED
    BY <2>1
<1>2. [s EXCEPT ![p] = e] \in Seq(S)
  BY <1>1
<1>3. /\ Len([s EXCEPT ![p] = e]) = Len(s)
      /\ [s EXCEPT ![p] = e][p] = e
      /\ \A i \in DOMAIN s \ {p} : [s EXCEPT ![p] = e][i] = s[i]
  BY <1>1
<1> QED
  BY <1>2, <1>3, SequenceOver

(***************************************************************************)
(* Registry and token under the whole system's steps.                      *)
(***************************************************************************)

\* create_and_init takes the next id and mints its creator's token.
LEMMA CreateAndMintStep ==
  ASSUME RegistryAndSbtInv, NEW name \in Text, NEW a \in Address, NEW open \in BOOLEAN,
         NEW can_propose \in BOOLEAN, NEW cid \in Cid \cup {None},
         create_dao(name, a, open, can_propose, cid),
         mint_from_registry(next_dao_id, a)
  PROVE  RegistryAndSbtInv' /\ EntriesStay /\ ListStep /\ next_dao_id \in DaoId
<1>1. RegistryNext
  BY DEF RegistryNext
<1>2. RegistryTypeOK' /\ Len(daos) \in Nat /\ Len(daos') = Len(daos) + 1
  <2>1. RegistryTypeOK'
    BY <1>1, RegistryStep DEF RegistryAndSbtInv
  <2> DEFINE info == [ admin |-> a, name |-> name, membership_open |-> open,
                       members_can_propose |-> can_propose, metadata_cid |-> cid ]
  <2>2. info \in DaoInfo /\ daos' = Append(daos, info)
    BY DEF create_dao, DaoInfo
  <2> HIDE DEF info
  <2> QED
    BY <2>1, <2>2, AppendProperties, LenProperties DEF RegistryTypeOK, RegistryAndSbtInv
<1>3. next_dao_id \in DaoId
  BY <1>2, RegistryAssumption DEF create_dao, next_dao_id, DaoId
<1>4. SbtInv' /\ EntriesStay /\ ListStep
  BY <1>3, RegistryMintStep DEF RegistryAndSbtInv
<1> QED
  BY <1>2, <1>3, <1>4 DEF RegistryAndSbtInv

\* Creating and initialising a DAO in one transaction is a creation, a first mint
\* and a first verification key.
LEMMA CreateAndInitStep ==
  ASSUME RegistryAndSbtInv, CreateAndInit
  PROVE  /\ RegistryAndSbtInv' /\ EntriesStay /\ ListStep
         /\ next_dao_id \in DaoId
         /\ \E vk \in Vk : set_vk_from_registry(next_dao_id, vk)
<1>1. PICK name \in Text, a \in Address, open \in BOOLEAN, can_propose \in BOOLEAN,
           vk \in Vk :
        \/ \E depth \in Depth, cid \in Cid \cup {None} :
             create_and_init_dao_no_reg(name, a, open, can_propose, cid, depth, vk)
        \/ \E depth \in Depth, c \in Leaf :
             create_and_init_dao(name, a, open, can_propose, depth, c, vk)
  BY DEF CreateAndInit
<1>2. PICK cid \in Cid \cup {None} : create_dao(name, a, open, can_propose, cid)
  BY <1>1 DEF create_and_init_dao_no_reg, create_and_init_dao
<1>3. mint_from_registry(next_dao_id, a) /\ set_vk_from_registry(next_dao_id, vk)
  BY <1>1 DEF create_and_init_dao_no_reg, create_and_init_dao
<1> QED
  BY <1>2, <1>3, CreateAndMintStep

\* Whatever a transaction of the system does, registry and token keep their invariant.
LEMMA LowerStep ==
  ASSUME RegistryAndSbtInv, Next
  PROVE  RegistryAndSbtInv' /\ EntriesStay /\ ListStep
<1>1. ASSUME UNCHANGED <<registry_vars, sbt_vars>>
      PROVE  RegistryAndSbtInv' /\ EntriesStay /\ ListStep
  BY <1>1, RegistryAndSbtStutter, SbtStutter DEF RegistryAndSbtInv
<1>2. CASE SbtNext
  BY <1>2, SbtNextStep DEF RegistryAndSbtInv
<1>3. CASE TreeTransaction /\ UNCHANGED registry_vars
  <2>1. CASE UNCHANGED sbt_vars
    BY <1>1, <1>3, <2>1
  <2>2. CASE \E d \in DaoId, a, admin \in Address : remove_member(d, a, admin)
    <3>1. PICK d \in DaoId, a \in Address : set_revoked(d, a)
      BY <2>2 DEF remove_member, revoke
    <3>2. SbtInv' /\ EntriesStay /\ ListStep
      BY <3>1, SetRevokedStep DEF RegistryAndSbtInv
    <3> QED
      BY <1>3, <3>2 DEF RegistryAndSbtInv, registry_vars, RegistryTypeOK
  <2> QED
    BY <1>3, <2>1, <2>2 DEF TreeTransaction
<1>4. CASE CreateAndInit
  BY <1>4, CreateAndInitStep
<1> QED
  BY <1>1, <1>2, <1>3, <1>4 DEF Next, TreeNext, LedgerClose, lower_vars

(***************************************************************************)
(* What a step may do to the voting contract's state.                      *)
(***************************************************************************)
CreatesProposal(d) ==
  \E title \in Text, cid \in Cid \cup {0}, end_time \in 0 .. MaxTime, a \in Address,
     mode \in {"Fixed", "Trailing"}, version \in {None} \cup 0 .. MaxVks :
    create_proposal_with_version(d, title, cid, end_time, a, mode, version)

EndsProposal(d, p) ==
  \E a \in Address : close_proposal(d, p, a) \/ archive_proposal(d, p, a)

Votes(d, p) ==
  \E choice \in BOOLEAN, n \in U256, leaf \in Leaf \ {Zero}, vk \in Vk :
  \E root \in DOMAIN tree[d].root_index :
    vote(d, p, choice, n, root, [vk |-> vk, leaf |-> leaf])

VotingStep ==
  \/ UNCHANGED voting_vars
  \/ \E d \in DaoId, vk \in Vk : set_vk_from_registry(d, vk)
  \/ \E d \in DaoId : CreatesProposal(d)
  \/ \E d \in DaoId, p \in ProposalId : EndsProposal(d, p) \/ Votes(d, p)

\* A step of the system is one of five kinds to the voting contract, and time only
\* passes in a step of its own.
LEMMA NextVotingStep ==
  ASSUME RegistryAndSbtInv, Next
  PROVE  /\ VotingStep
         /\ \/ now' = now
            \/ now < MaxTime /\ now' = now + 1 /\ UNCHANGED voting_vars
<1>1. CASE TreeNext /\ UNCHANGED <<voting_vars, now>>
  BY <1>1 DEF VotingStep
<1>2. CASE VotingTransaction /\ UNCHANGED <<lower_vars, now>>
  <2>1. ASSUME NEW d \in DaoId, NEW a \in Address, NEW vk \in Vk, set_vk(d, vk, a)
        PROVE  VotingStep
    BY <2>1 DEF VotingStep, set_vk
  <2>2. ASSUME NEW d \in DaoId, NEW a \in Address,
               NEW title \in Text, NEW cid \in Cid \cup {0}, NEW end_time \in 0 .. MaxTime,
               NEW mode \in {"Fixed", "Trailing"}, NEW version \in {None} \cup 0 .. MaxVks,
               create_proposal_with_version(d, title, cid, end_time, a, mode, version)
        PROVE  VotingStep
    BY <2>2 DEF VotingStep, CreatesProposal
  <2>3. ASSUME NEW d \in DaoId, NEW a \in Address, NEW p \in ProposalId,
               close_proposal(d, p, a) \/ archive_proposal(d, p, a)
        PROVE  VotingStep
    BY <2>3 DEF VotingStep, EndsProposal
  <2>4. ASSUME Vote
        PROVE  VotingStep
    BY <2>4 DEF VotingStep, Vote, Votes
  <2>5. VotingStep
    BY <1>2, <2>1, <2>2, <2>3, <2>4 DEF VotingTransaction, VotingStep
  <2> QED
    BY <1>2, <2>5
<1>3. CASE CreateAndInit /\ UNCHANGED now
  BY <1>3, CreateAndInitStep DEF VotingStep
<1>4. CASE LedgerClose
  BY <1>4 DEF LedgerClose, VotingStep
<1> QED
  BY <1>1, <1>2, <1>3, <1>4 DEF Next

(***************************************************************************)
(* The voting invariant.  VotingTypeOK and VkPinned are close to inductive *)
(* by themselves; one ballot per secret is not: it needs that every ballot *)
(* used the one nullifier its secret has in its proposal, and that the     *)
(* nullifiers marked are exactly those of the ballots.                     *)
(***************************************************************************)
BallotsUseTheirNullifier ==
  \A b \in ballots :
    /\ b.nullifier = nullifier_of(secret_of(b.leaf), b.dao, b.proposal)
    /\ proposal_exists(b.dao, b.proposal)

NullifiersAreBallots ==
  nullifiers = {<<b.dao, b.proposal, b.nullifier>> : b \in ballots}

BallotsDiffer ==
  \A a, b \in ballots :
    <<a.dao, a.proposal, a.nullifier>> = <<b.dao, b.proposal, b.nullifier>> => a = b

VotingInv ==
  /\ VotingTypeOK
  /\ VkPinned
  /\ BallotsUseTheirNullifier
  /\ NullifiersAreBallots
  /\ BallotsDiffer

\* A proposal stored under an id that exists, or under the next one.
LEMMA ProposalsType ==
  ASSUME VotingTypeOK, NEW d \in DaoId
  PROVE  /\ IsSequence(proposals[d])
         /\ Len(proposals[d]) \in 0 .. MaxProposals
         /\ DOMAIN proposals[d] = 1 .. Len(proposals[d])
         /\ DOMAIN proposals[d] \subseteq ProposalId
         /\ vks[d] \in Seq(VoteCircuitVk)
         /\ DOMAIN vks[d] = 1 .. Len(vks[d])
         /\ Len(vks[d]) \in Nat
<1>1. IsSequence(proposals[d]) /\ Len(proposals[d]) \in 0 .. MaxProposals
  BY DEF VotingTypeOK
<1>2. DOMAIN proposals[d] = 1 .. Len(proposals[d])
  BY <1>1, SequenceDomain
<1>3. vks[d] \in Seq(VoteCircuitVk)
  BY DEF VotingTypeOK
<1> QED
  BY <1>1, <1>2, <1>3, LenProperties, VotingAssumption DEF ProposalId

\* Nothing has been proposed and nobody has voted.
LEMMA VotingInitInv ==
  ASSUME VotingInit
  PROVE  VotingInv
<1>1. VotingTypeOK
  <2>1. IsSequence(<< >>) /\ Len(<< >>) = 0 /\ DOMAIN << >> = {}
    <3>1. << >> \in Seq({}) /\ Len(<< >>) = 0 /\ DOMAIN << >> = {}
      BY EmptySeq
    <3> QED
      BY <3>1, SequenceOver
  <2> QED
    BY <2>1, VotingAssumption DEF VotingInit, VotingTypeOK
<1>2. VkPinned
  BY DEF VotingInit, VkPinned, Polls, proposal_exists
<1>3. BallotsUseTheirNullifier /\ NullifiersAreBallots /\ BallotsDiffer
  BY DEF VotingInit, BallotsUseTheirNullifier, NullifiersAreBallots, BallotsDiffer
<1> QED
  BY <1>1, <1>2, <1>3 DEF VotingInv

(***************************************************************************)
(* One lemma per kind of step.                                             *)
(***************************************************************************)
\* No ballot: every tally stays, a new proposal has none.
TalliesStay ==
  /\ ballots' = ballots
  /\ \A d \in DaoId : \A p \in DOMAIN proposals'[d] :
       LET new == proposals'[d][p]
       IN  IF p \in DOMAIN proposals[d]
           THEN /\ new.yes_votes = proposals[d][p].yes_votes
                /\ new.no_votes = proposals[d][p].no_votes
           ELSE new.yes_votes = 0 /\ new.no_votes = 0

\* One ballot more, counted where it belongs and nowhere else.
CountsBallot(ballot) ==
  /\ ballot \in Ballot
  /\ ballot \notin ballots
  /\ ballots' = ballots \cup {ballot}
  /\ \A d \in DaoId : \A p \in DOMAIN proposals'[d] :
       LET old == proposals[d][p]
           new == proposals'[d][p]
           here == ballot.dao = d /\ ballot.proposal = p
       IN  /\ p \in DOMAIN proposals[d]
           /\ new.yes_votes = IF here /\ ballot.choice THEN old.yes_votes + 1
                                                      ELSE old.yes_votes
           /\ new.no_votes = IF here /\ ~ballot.choice THEN old.no_votes + 1
                                                      ELSE old.no_votes

\* A new key version leaves the versions proposals are pinned to alone.
LEMMA SetVkStep ==
  ASSUME VotingInv, NEW d \in DaoId, NEW vk \in Vk, set_vk_from_registry(d, vk),
         now' \in 0 .. MaxTime
  PROVE  VotingInv' /\ ResultsStay /\ TalliesStay
<1>1. /\ vk \in VoteCircuitVk
      /\ vks' = [vks EXCEPT ![d] = Append(@, vk)]
      /\ UNCHANGED <<proposals, nullifiers, ballots>>
  BY DEF set_vk_from_registry
<1>2. /\ vks[d] \in Seq(VoteCircuitVk)
      /\ Append(vks[d], vk) \in Seq(VoteCircuitVk)
      /\ DOMAIN vks[d] \subseteq DOMAIN Append(vks[d], vk)
      /\ \A v \in DOMAIN vks[d] : Append(vks[d], vk)[v] = vks[d][v]
  BY <1>1, AppendProperties, LenProperties DEF VotingInv, VotingTypeOK
<1>3. /\ vks' \in [DaoId -> Seq(VoteCircuitVk)]
      /\ \A e \in DaoId : /\ DOMAIN vks[e] \subseteq DOMAIN vks'[e]
                         /\ \A v \in DOMAIN vks[e] : vks'[e][v] = vks[e][v]
  BY <1>1, <1>2 DEF VotingInv, VotingTypeOK
<1>4. VotingTypeOK'
  <2>1. ASSUME NEW e \in DaoId, NEW p \in DOMAIN proposals[e]
        PROVE  ProposalOK(e, proposals[e][p])'
    BY <1>1, <1>3, <2>1 DEF VotingInv, VotingTypeOK, ProposalOK
  <2> QED
    BY <1>1, <1>3, <2>1 DEF VotingInv, VotingTypeOK
<1>5. VkPinned'
  <2> SUFFICES ASSUME NEW poll \in Polls'
               PROVE  LET proposal == proposals'[poll[1]][poll[2]]
                      IN  hash_vk(vks'[poll[1]][proposal.vk_version]) = proposal.vk_hash
    BY DEF VkPinned, get_vk_by_version
  <2>1. poll \in Polls /\ poll[1] \in DaoId /\ poll[2] \in DOMAIN proposals[poll[1]]
    BY <1>1 DEF Polls, proposal_exists
  <2>2. proposals[poll[1]][poll[2]].vk_version \in DOMAIN vks[poll[1]]
    BY <2>1 DEF VotingInv, VotingTypeOK, ProposalOK
  <2> QED
    BY <1>1, <1>3, <2>1, <2>2 DEF VotingInv, VkPinned, get_vk_by_version
<1>6. BallotsUseTheirNullifier' /\ NullifiersAreBallots' /\ BallotsDiffer'
  BY <1>1 DEF VotingInv, BallotsUseTheirNullifier, NullifiersAreBallots, BallotsDiffer,
              proposal_exists
<1>7. ResultsStay
  <2>1. ASSUME NEW e \in DaoId, NEW q \in DOMAIN proposals[e]
        PROVE  q \in DOMAIN proposals'[e] /\ proposals'[e][q] = proposals[e][q]
    BY <1>1, <2>1
  <2> QED
    BY <2>1 DEF ResultsStay, Snapshot
<1>8. TalliesStay
  BY <1>1 DEF TalliesStay
<1> QED
  BY <1>4, <1>5, <1>6, <1>7, <1>8 DEF VotingInv

ProposalsOK ==
  /\ DOMAIN proposals = DaoId
  /\ \A d \in DaoId :
       /\ IsSequence(proposals[d])
       /\ Len(proposals[d]) \in 0 .. MaxProposals
       /\ \A p \in DOMAIN proposals[d] : ProposalOK(d, proposals[d][p])

\* Appending a proposal that is pinned to a stored key.
LEMMA AppendProposal ==
  ASSUME VotingInv, NEW d \in DaoId, NEW new, ProposalOK(d, new),
         hash_vk(vks[d][new.vk_version]) = new.vk_hash,
         Len(proposals[d]) < MaxProposals,
         proposals' = [proposals EXCEPT ![d] = Append(@, new)],
         vks' = vks
  PROVE  /\ ProposalsOK' /\ VkPinned'
         /\ \A e \in DaoId : \A p \in DOMAIN proposals[e] :
              p \in DOMAIN proposals'[e] /\ proposals'[e][p] = proposals[e][p]
         /\ \A e \in DaoId : \A p \in DOMAIN proposals'[e] \ DOMAIN proposals[e] :
              proposals'[e][p] = new
<1> DEFINE s == proposals[d]
           t == Append(s, new)
<1>1. /\ IsSequence(s) /\ DOMAIN s = 1 .. Len(s) /\ Len(s) \in 0 .. MaxProposals
      /\ DOMAIN proposals = DaoId
  BY ProposalsType DEF VotingInv, VotingTypeOK
<1>2. /\ IsSequence(t) /\ Len(t) = Len(s) + 1 /\ t[Len(s) + 1] = new
      /\ \A i \in 1 .. Len(s) : t[i] = s[i]
  BY <1>1, AppendSequence
<1>3. DOMAIN t = 1 .. Len(s) + 1
  BY <1>2, SequenceDomain
<1> HIDE DEF t
<1>4. /\ DOMAIN proposals' = DaoId
      /\ \A e \in DaoId : proposals'[e] = IF e = d THEN t ELSE proposals[e]
  BY <1>1 DEF t
<1>5. \A e \in DaoId : \A p \in DOMAIN proposals[e] :
        p \in DOMAIN proposals'[e] /\ proposals'[e][p] = proposals[e][p]
  BY <1>1, <1>2, <1>3, <1>4
<1>6. \A e \in DaoId : \A p \in DOMAIN proposals'[e] :
        \/ p \in DOMAIN proposals[e] /\ proposals'[e][p] = proposals[e][p]
        \/ e = d /\ proposals'[e][p] = new
  BY <1>1, <1>2, <1>3, <1>4
<1>7. ProposalsOK'
  <2>1. ASSUME NEW e \in DaoId, NEW p \in DOMAIN proposals'[e]
        PROVE  ProposalOK(e, proposals[e][p])'
    BY <1>6, <2>1 DEF VotingInv, VotingTypeOK, ProposalOK
  <2>2. \A e \in DaoId :
          /\ IsSequence(proposals'[e])
          /\ Len(proposals'[e]) \in 0 .. MaxProposals
    BY <1>1, <1>2, <1>4, VotingAssumption DEF VotingInv, VotingTypeOK
  <2>3. \A e \in DaoId : IsSequence(proposals[e])'
    BY <2>2 DEF IsSequence, Elements
  <2> QED
    BY <1>4, <2>1, <2>2, <2>3 DEF ProposalsOK
<1>8. VkPinned'
  <2> SUFFICES ASSUME NEW poll \in Polls'
               PROVE  LET proposal == proposals'[poll[1]][poll[2]]
                      IN  hash_vk(vks[poll[1]][proposal.vk_version]) = proposal.vk_hash
    BY DEF VkPinned, get_vk_by_version
  <2>1. poll \in DaoId \X ProposalId /\ poll[2] \in DOMAIN proposals'[poll[1]]
    BY DEF Polls, proposal_exists
  <2>2. CASE poll[2] \in DOMAIN proposals[poll[1]]
    BY <1>5, <2>1, <2>2 DEF VotingInv, VkPinned, get_vk_by_version, Polls, proposal_exists
  <2>3. CASE poll[2] \notin DOMAIN proposals[poll[1]]
    BY <1>6, <2>1, <2>3
  <2> QED
    BY <2>2, <2>3
<1>9. \A e \in DaoId : \A p \in DOMAIN proposals'[e] \ DOMAIN proposals[e] :
        proposals'[e][p] = new
  BY <1>6
<1> QED
  BY <1>5, <1>7, <1>8, <1>9

\* Replacing a proposal by one that is pinned to the same key.
LEMMA ReplaceProposal ==
  ASSUME VotingInv, NEW d \in DaoId, NEW p \in DOMAIN proposals[d],
         NEW new, ProposalOK(d, new),
         new.vk_version = proposals[d][p].vk_version,
         new.vk_hash = proposals[d][p].vk_hash,
         proposals' = [proposals EXCEPT ![d][p] = new],
         vks' = vks
  PROVE  /\ ProposalsOK' /\ VkPinned'
         /\ \A e \in DaoId : DOMAIN proposals'[e] = DOMAIN proposals[e]
         /\ \A e \in DaoId : \A q \in DOMAIN proposals[e] :
              proposals'[e][q] = IF e = d /\ q = p THEN new ELSE proposals[e][q]
<1> DEFINE s == proposals[d]
           t == [s EXCEPT ![p] = new]
<1>1. /\ IsSequence(s) /\ DOMAIN s = 1 .. Len(s) /\ Len(s) \in 0 .. MaxProposals
      /\ DOMAIN proposals = DaoId
  BY ProposalsType DEF VotingInv, VotingTypeOK
<1>2. /\ IsSequence(t) /\ Len(t) = Len(s) /\ DOMAIN t = DOMAIN s
      /\ \A i \in DOMAIN s : t[i] = IF i = p THEN new ELSE s[i]
  <2>1. IsSequence(t) /\ Len(t) = Len(s)
    <3>1. p \in DOMAIN s
      OBVIOUS
    <3> HIDE DEF s
    <3> QED
      BY <1>1, <3>1, ExceptSequence DEF t
  <2> QED
    BY <1>1, <2>1
<1> HIDE DEF t
<1>3. /\ DOMAIN proposals' = DaoId
      /\ \A e \in DaoId : proposals'[e] = IF e = d THEN t ELSE proposals[e]
  BY <1>1 DEF t
<1>4. /\ \A e \in DaoId : DOMAIN proposals'[e] = DOMAIN proposals[e]
      /\ \A e \in DaoId : \A q \in DOMAIN proposals[e] :
           proposals'[e][q] = IF e = d /\ q = p THEN new ELSE proposals[e][q]
  BY <1>2, <1>3
<1>5. ProposalsOK'
  <2>1. ASSUME NEW e \in DaoId, NEW q \in DOMAIN proposals'[e]
        PROVE  ProposalOK(e, proposals[e][q])'
    BY <1>4, <2>1 DEF VotingInv, VotingTypeOK, ProposalOK
  <2>2. \A e \in DaoId :
          /\ IsSequence(proposals'[e])
          /\ Len(proposals'[e]) \in 0 .. MaxProposals
    BY <1>1, <1>2, <1>3 DEF VotingInv, VotingTypeOK
  <2>3. \A e \in DaoId : IsSequence(proposals[e])'
    BY <2>2 DEF IsSequence, Elements
  <2> QED
    BY <1>3, <2>1, <2>2, <2>3 DEF ProposalsOK
<1>6. VkPinned'
  BY <1>4 DEF VotingInv, VkPinned, get_vk_by_version, Polls, proposal_exists
<1> QED
  BY <1>4, <1>5, <1>6

\* A new proposal is pinned to a stored key and starts without votes.
LEMMA CreateProposalStep ==
  ASSUME VotingInv, NEW d \in DaoId, CreatesProposal(d), now' \in 0 .. MaxTime
  PROVE  VotingInv' /\ ResultsStay /\ TalliesStay
<1>1. PICK title \in Text, cid \in Cid \cup {0}, end_time \in 0 .. MaxTime, a \in Address,
           mode \in {"Fixed", "Trailing"}, version \in {None} \cup 0 .. MaxVks :
        create_proposal_with_version(d, title, cid, end_time, a, mode, version)
  BY DEF CreatesProposal
<1> DEFINE selected == IF version = None THEN vk_version(d) ELSE version
           new == [ title               |-> title,
                    content_cid         |-> cid,
                    yes_votes           |-> 0,
                    no_votes            |-> 0,
                    end_time            |-> end_time,
                    state               |-> "Active",
                    vk_hash             |-> hash_vk(get_vk_by_version(d, selected)),
                    vk_version          |-> selected,
                    eligible_root       |-> current_root(tree[d]),
                    vote_mode           |-> mode,
                    earliest_root_index |-> curr_idx(tree[d]) ]
<1>2. /\ proposals' = [proposals EXCEPT ![d] = Append(@, new)]
      /\ Len(proposals[d]) < MaxProposals
      /\ selected \in 1 .. vk_version(d)
      /\ UNCHANGED <<nullifiers, vks, ballots>>
  BY <1>1 DEF create_proposal_with_version
<1>3. /\ ProposalOK(d, new) /\ hash_vk(vks[d][new.vk_version]) = new.vk_hash
      /\ new.yes_votes = 0 /\ new.no_votes = 0
  <2>1. selected \in DOMAIN vks[d]
    BY <1>2, ProposalsType DEF vk_version, VotingInv
  <2> HIDE DEF selected
  <2> QED
    BY <2>1 DEF ProposalOK, get_vk_by_version
<1> HIDE DEF new
<1>4. /\ ProposalsOK' /\ VkPinned'
      /\ \A e \in DaoId : \A p \in DOMAIN proposals[e] :
           p \in DOMAIN proposals'[e] /\ proposals'[e][p] = proposals[e][p]
      /\ \A e \in DaoId : \A p \in DOMAIN proposals'[e] \ DOMAIN proposals[e] :
           proposals'[e][p] = new
  BY <1>2, <1>3, AppendProposal
<1>5. VotingTypeOK'
  BY <1>2, <1>4 DEF VotingInv, VotingTypeOK, ProposalsOK
<1>6. BallotsUseTheirNullifier' /\ NullifiersAreBallots' /\ BallotsDiffer'
  BY <1>2, <1>4 DEF VotingInv, VotingTypeOK, Ballot, BallotsUseTheirNullifier,
                    NullifiersAreBallots, BallotsDiffer, proposal_exists
<1>7. ResultsStay
  <2>1. ASSUME NEW e \in DaoId, NEW q \in DOMAIN proposals[e]
        PROVE  q \in DOMAIN proposals'[e] /\ proposals'[e][q] = proposals[e][q]
    BY <1>4, <2>1
  <2> QED
    BY <2>1 DEF ResultsStay, Snapshot
<1>8. TalliesStay
  BY <1>2, <1>3, <1>4 DEF TalliesStay
<1> QED
  BY <1>4, <1>5, <1>6, <1>7, <1>8 DEF VotingInv

\* Closing and archiving advance a state and touch no counter or snapshot.
LEMMA EndProposalStep ==
  ASSUME VotingInv, NEW d \in DaoId, NEW p \in ProposalId, EndsProposal(d, p),
         now' \in 0 .. MaxTime
  PROVE  VotingInv' /\ ResultsStay /\ TalliesStay
<1>1. PICK state \in {"Closed", "Archived"} :
        /\ p \in DOMAIN proposals[d]
        /\ proposals' = [proposals EXCEPT ![d][p].state = state]
        /\ UNCHANGED <<nullifiers, vks, ballots>>
        /\ \/ state = "Closed" /\ proposals[d][p].state # "Archived"
           \/ state = "Archived" /\ proposals[d][p].state # "Active"
  BY DEF EndsProposal, close_proposal, archive_proposal, proposal_exists
<1> DEFINE old == proposals[d][p]
           new == [old EXCEPT !.state = state]
<1>2. proposals' = [proposals EXCEPT ![d][p] = new]
  BY <1>1
<1>3. /\ ProposalOK(d, new)
      /\ new.vk_version = proposals[d][p].vk_version
      /\ new.vk_hash = proposals[d][p].vk_hash
  BY <1>1 DEF VotingInv, VotingTypeOK, ProposalOK
<1>4. /\ new.yes_votes = old.yes_votes
      /\ new.no_votes = old.no_votes
      /\ Snapshot(new) = Snapshot(old)
      /\ \/ new.state = old.state
         \/ <<old.state, new.state>>
              \in {<<"Active", "Closed">>, <<"Closed", "Archived">>}
  BY <1>1 DEF Snapshot, VotingInv, VotingTypeOK, ProposalOK
<1> HIDE DEF new
<1>5. /\ ProposalsOK' /\ VkPinned'
      /\ \A e \in DaoId : DOMAIN proposals'[e] = DOMAIN proposals[e]
      /\ \A e \in DaoId : \A q \in DOMAIN proposals[e] :
           proposals'[e][q] = IF e = d /\ q = p THEN new ELSE proposals[e][q]
  <2>1. ProposalsOK' /\ VkPinned'
    BY <1>1, <1>2, <1>3, ReplaceProposal
  <2>2. \A e \in DaoId : DOMAIN proposals'[e] = DOMAIN proposals[e]
    BY <1>1, <1>2, <1>3, ReplaceProposal
  <2>3. \A e \in DaoId : \A q \in DOMAIN proposals[e] :
          proposals'[e][q] = IF e = d /\ q = p THEN new ELSE proposals[e][q]
    BY <1>2 DEF VotingInv, VotingTypeOK
  <2> QED
    BY <2>1, <2>2, <2>3
<1>6. VotingTypeOK'
  BY <1>1, <1>5 DEF VotingInv, VotingTypeOK, ProposalsOK
<1>7. BallotsUseTheirNullifier' /\ NullifiersAreBallots' /\ BallotsDiffer'
  BY <1>1, <1>5 DEF VotingInv, VotingTypeOK, Ballot, BallotsUseTheirNullifier,
                    NullifiersAreBallots, BallotsDiffer, proposal_exists
<1>8. ResultsStay
  BY <1>4, <1>5 DEF ResultsStay, Snapshot
<1>9. TalliesStay
  BY <1>1, <1>4, <1>5 DEF TalliesStay
<1> QED
  BY <1>5, <1>6, <1>7, <1>8, <1>9 DEF VotingInv

\* The heart of the argument: the field check makes the nullifier stored the one
\* the circuit computed, so a ballot that differs is of another secret.
LEMMA VoteStep ==
  ASSUME VotingInv, NEW d \in DaoId, NEW p \in ProposalId, Votes(d, p),
         now' \in 0 .. MaxTime
  PROVE  VotingInv' /\ ResultsStay /\ \E ballot : CountsBallot(ballot)
<1>1. PICK choice \in BOOLEAN, n \in U256, leaf \in Leaf \ {Zero}, vk \in Vk,
           root \in DOMAIN tree[d].root_index :
        vote(d, p, choice, n, root, [vk |-> vk, leaf |-> leaf])
  BY DEF Votes
<1> DEFINE ballot == [ dao |-> d, proposal |-> p, nullifier |-> n, leaf |-> leaf,
                       choice |-> choice, live |-> is_live(d, leaf) ]
           old == proposals[d][p]
           new == IF choice THEN [old EXCEPT !.yes_votes = @ + 1]
                            ELSE [old EXCEPT !.no_votes = @ + 1]
<1>2. /\ p \in DOMAIN proposals[d]
      /\ <<d, p, n>> \notin nullifiers
      /\ nullifiers' = nullifiers \cup {<<d, p, n>>}
      /\ ballots' = ballots \cup {ballot}
      /\ vks' = vks
  BY <1>1 DEF vote, cast, proposal_exists, nullifier_used
<1>3. n \in 1 .. FieldModulus - 1 /\ n = nullifier_of(secret_of(leaf), d, p)
  <2>1. /\ n \in Nat /\ n # 0 /\ n < FieldModulus
        /\ nullifier_of(secret_of(leaf), d, p) = n % FieldModulus
    BY <1>1, VotingAssumption DEF vote, in_field, verify_groth16
  <2>2. n % FieldModulus = n
    BY <2>1, VotingAssumption
  <2> QED
    BY <2>1, <2>2, VotingAssumption
<1>4. proposals' = [proposals EXCEPT ![d][p] = new]
  BY <1>1 DEF vote, cast
<1>5. /\ ProposalOK(d, new)
      /\ new.vk_version = old.vk_version
      /\ new.vk_hash = old.vk_hash
      /\ Snapshot(new) = Snapshot(old)
      /\ new.state = old.state
      /\ new.yes_votes = IF choice THEN old.yes_votes + 1 ELSE old.yes_votes
      /\ new.no_votes = IF choice THEN old.no_votes ELSE old.no_votes + 1
      /\ new.yes_votes + new.no_votes = old.yes_votes + old.no_votes + 1
  <2>1. ProposalOK(d, old)
    BY <1>2 DEF VotingInv, VotingTypeOK
  <2> HIDE DEF old
  <2>2. CASE choice
    BY <2>1, <2>2 DEF ProposalOK, Snapshot
  <2>3. CASE ~choice
    BY <2>1, <2>3 DEF ProposalOK, Snapshot
  <2> QED
    BY <2>2, <2>3
<1> HIDE DEF new
<1>6. /\ ProposalsOK' /\ VkPinned'
      /\ \A e \in DaoId : DOMAIN proposals'[e] = DOMAIN proposals[e]
      /\ \A e \in DaoId : \A q \in DOMAIN proposals[e] :
           proposals'[e][q] = IF e = d /\ q = p THEN new ELSE proposals[e][q]
  <2>1. ProposalsOK' /\ VkPinned'
    BY <1>2, <1>4, <1>5, ReplaceProposal
  <2>2. \A e \in DaoId : DOMAIN proposals'[e] = DOMAIN proposals[e]
    BY <1>2, <1>4, <1>5, ReplaceProposal
  <2>3. \A e \in DaoId : \A q \in DOMAIN proposals[e] :
          proposals'[e][q] = IF e = d /\ q = p THEN new ELSE proposals[e][q]
    BY <1>2, <1>4, <1>5 DEF VotingInv, VotingTypeOK
  <2> QED
    BY <2>1, <2>2, <2>3
<1>7. ballot \in Ballot
  BY <1>3 DEF Ballot, is_live
<1>8. VotingTypeOK'
  BY <1>2, <1>3, <1>6, <1>7 DEF VotingInv, VotingTypeOK, ProposalsOK
<1>9. BallotsUseTheirNullifier'
  BY <1>2, <1>3, <1>6, <1>7
  DEF VotingInv, VotingTypeOK, Ballot, BallotsUseTheirNullifier, proposal_exists
<1>10. NullifiersAreBallots'
  <2>1. <<ballot.dao, ballot.proposal, ballot.nullifier>> = <<d, p, n>>
    OBVIOUS
  <2> HIDE DEF ballot
  <2>2. nullifiers = {<<b.dao, b.proposal, b.nullifier>> : b \in ballots}
    BY DEF VotingInv, NullifiersAreBallots
  <2>3. nullifiers' = {<<b.dao, b.proposal, b.nullifier>> : b \in ballots'}
    BY <1>2, <2>1, <2>2
  <2> QED
    BY <2>3 DEF NullifiersAreBallots
<1>11. BallotsDiffer'
  BY <1>2 DEF VotingInv, NullifiersAreBallots, BallotsDiffer
<1>12. ResultsStay
  <2>1. old.state = "Active" /\ (old.end_time = 0 \/ now <= old.end_time)
    BY <1>1 DEF vote
  <2> QED
    BY <1>5, <1>6, <2>1 DEF ResultsStay, Snapshot
<1>13. CountsBallot(ballot)
  <2>1. ballot \notin ballots
    BY <1>2 DEF VotingInv, NullifiersAreBallots
  <2>2. ballot.dao = d /\ ballot.proposal = p /\ ballot.choice = choice
    OBVIOUS
  <2> HIDE DEF ballot
  <2> QED
    BY <1>2, <1>5, <1>6, <1>7, <2>1, <2>2 DEF CountsBallot
<1> QED
  BY <1>6, <1>8, <1>9, <1>10, <1>11, <1>12, <1>13 DEF VotingInv

(***************************************************************************)
(* The invariant of the whole system.                                      *)
(***************************************************************************)
SystemInv == RegistryAndSbtInv /\ VotingInv

\* The constructors establish the invariant of the system.
LEMMA SystemInitInv == Init => SystemInv
BY SbtInitInv, VotingInitInv DEF Init, LowerInit, MembershipInit, SystemInv, RegistryAndSbtInv

\* A step of registry, token, tree or clock leaves the voting invariant alone.
LEMMA VotingStutter ==
  ASSUME VotingInv, UNCHANGED voting_vars, now' \in 0 .. MaxTime
  PROVE  VotingInv' /\ ResultsStay /\ TalliesStay
<1>1. UNCHANGED <<proposals, nullifiers, vks, ballots>>
  BY DEF voting_vars
<1>2. VotingTypeOK'
  <2>1. \A d \in DaoId : IsSequence(proposals[d])'
    BY <1>1 DEF VotingInv, VotingTypeOK, IsSequence, Elements
  <2>2. \A d \in DaoId : \A p \in DOMAIN proposals[d] : ProposalOK(d, proposals[d][p])'
    BY <1>1 DEF VotingInv, VotingTypeOK, ProposalOK
  <2> QED
    BY <1>1, <2>1, <2>2 DEF VotingInv, VotingTypeOK
<1>3. VkPinned'
  BY <1>1 DEF VotingInv, VkPinned, Polls, proposal_exists, get_vk_by_version
<1>4. BallotsUseTheirNullifier' /\ NullifiersAreBallots' /\ BallotsDiffer'
  BY <1>1 DEF VotingInv, BallotsUseTheirNullifier, NullifiersAreBallots, BallotsDiffer,
              proposal_exists
<1>5. ResultsStay
  <2>1. ASSUME NEW e \in DaoId, NEW q \in DOMAIN proposals[e]
        PROVE  q \in DOMAIN proposals'[e] /\ proposals'[e][q] = proposals[e][q]
    BY <1>1, <2>1
  <2> QED
    BY <2>1 DEF ResultsStay, Snapshot
<1>6. TalliesStay
  BY <1>1 DEF TalliesStay
<1> QED
  BY <1>2, <1>3, <1>4, <1>5, <1>6 DEF VotingInv

\* Every transaction of every contract preserves the invariant of the system.
LEMMA SystemNextInv ==
  ASSUME SystemInv, [Next]_vars
  PROVE  SystemInv'
<1>1. CASE Next
  <2>1. RegistryAndSbtInv'
    BY <1>1, LowerStep DEF SystemInv
  <2>2. VotingStep /\ now' \in 0 .. MaxTime
    BY <1>1, NextVotingStep, VotingAssumption DEF SystemInv, VotingInv, VotingTypeOK
  <2>3. VotingInv'
    BY <2>2, VotingStutter, SetVkStep, CreateProposalStep, EndProposalStep, VoteStep
    DEF SystemInv, VotingStep
  <2> QED
    BY <2>1, <2>3 DEF SystemInv
<1>2. CASE UNCHANGED vars
  <2>1. UNCHANGED <<registry_vars, sbt_vars, voting_vars, now>>
    BY <1>2 DEF vars, lower_vars
  <2>2. now' \in 0 .. MaxTime
    BY <2>1 DEF SystemInv, VotingInv, VotingTypeOK
  <2> QED
    BY <2>1, <2>2, RegistryAndSbtStutter, VotingStutter DEF SystemInv
<1> QED
  BY <1>1, <1>2

\* The invariant of the whole voting system: types, pinned keys, ballots tied to
\* their nullifiers, and the token's list.  The theorems below follow from it.
THEOREM SystemInvariant == Spec => []SystemInv
<1>1. Init => SystemInv
  BY SystemInitInv
<1>2. SystemInv /\ [Next]_vars => SystemInv'
  BY SystemNextInv
<1> QED
  BY <1>1, <1>2, PTL DEF Spec

(***************************************************************************)
(* The tally.  TallyMatchesBallots has a part that follows from VotingInv  *)
(* (the nullifiers of a proposal are those of its ballots) and a part that *)
(* is inductive with the finiteness of the ballots (the counters).         *)
(***************************************************************************)
YesBallots(d, p) == {b \in BallotsIn(d, p) : b.choice}
NoBallots(d, p) == BallotsIn(d, p) \ YesBallots(d, p)

TallyInv ==
  /\ IsFiniteSet(ballots)
  /\ \A d \in DaoId : \A p \in DOMAIN proposals[d] :
       /\ proposals[d][p].yes_votes = Cardinality(YesBallots(d, p))
       /\ proposals[d][p].no_votes = Cardinality(NoBallots(d, p))

\* Without ballots every count is of the empty set.
LEMMA TallyInitInv == VotingInit => TallyInv
BY FS_EmptySet DEF VotingInit, TallyInv

\* A ballot only exists for a proposal that does.
LEMMA TallyStayStep ==
  ASSUME VotingInv, TallyInv, TalliesStay
  PROVE  TallyInv'
<1>1. ballots' = ballots
  BY DEF TalliesStay
<1>2. ASSUME NEW d \in DaoId, NEW p \in DOMAIN proposals'[d]
      PROVE  /\ proposals'[d][p].yes_votes = Cardinality(YesBallots(d, p))
             /\ proposals'[d][p].no_votes = Cardinality(NoBallots(d, p))
  <2>1. CASE p \in DOMAIN proposals[d]
    BY <1>2, <2>1 DEF TalliesStay, TallyInv
  <2>2. CASE p \notin DOMAIN proposals[d]
    <3>1. proposals'[d][p].yes_votes = 0 /\ proposals'[d][p].no_votes = 0
      BY <1>2, <2>2 DEF TalliesStay
    <3>2. BallotsIn(d, p) = {}
      BY <2>2 DEF VotingInv, BallotsUseTheirNullifier, proposal_exists, BallotsIn
    <3>3. YesBallots(d, p) = {} /\ NoBallots(d, p) = {}
      BY <3>2 DEF YesBallots, NoBallots
    <3> QED
      BY <3>1, <3>3, FS_EmptySet
  <2> QED
    BY <2>1, <2>2
<1> QED
  BY <1>1, <1>2 DEF TallyInv, YesBallots, NoBallots, BallotsIn

\* An accepted vote adds its ballot to one of the two sets a counter counts.
LEMMA TallyCountStep ==
  ASSUME TallyInv, VotingInv, NEW ballot, CountsBallot(ballot)
  PROVE  TallyInv'
<1>1. /\ ballots' = ballots \cup {ballot}
      /\ ballot \notin ballots
      /\ ballot.choice \in BOOLEAN
  BY DEF CountsBallot, Ballot
<1>2. IsFiniteSet(ballots')
  BY <1>1, FS_AddElement DEF TallyInv
<1>3. ASSUME NEW d \in DaoId, NEW p \in DOMAIN proposals'[d]
      PROVE  /\ proposals'[d][p].yes_votes = Cardinality(YesBallots(d, p)')
             /\ proposals'[d][p].no_votes = Cardinality(NoBallots(d, p)')
  <2> DEFINE here == ballot.dao = d /\ ballot.proposal = p
             Y == YesBallots(d, p)
             N == NoBallots(d, p)
  <2>1. /\ p \in DOMAIN proposals[d]
        /\ proposals'[d][p].yes_votes
             = IF here /\ ballot.choice THEN Cardinality(Y) + 1 ELSE Cardinality(Y)
        /\ proposals'[d][p].no_votes
             = IF here /\ ~ballot.choice THEN Cardinality(N) + 1 ELSE Cardinality(N)
    BY <1>3 DEF CountsBallot, TallyInv
  <2>2. /\ IsFiniteSet(Y) /\ ballot \notin Y
        /\ IsFiniteSet(N) /\ ballot \notin N
    <3>1. Y \subseteq ballots /\ N \subseteq ballots
      BY DEF YesBallots, NoBallots, BallotsIn
    <3> QED
      BY <1>1, <3>1, FS_Subset DEF TallyInv
  <2>3. /\ YesBallots(d, p)' = IF here /\ ballot.choice THEN Y \cup {ballot} ELSE Y
        /\ NoBallots(d, p)' = IF here /\ ~ballot.choice THEN N \cup {ballot} ELSE N
    BY <1>1 DEF YesBallots, NoBallots, BallotsIn
  <2>4. /\ Cardinality(Y \cup {ballot}) = Cardinality(Y) + 1
        /\ Cardinality(N \cup {ballot}) = Cardinality(N) + 1
    BY <2>2, FS_AddElement
  <2> QED
    BY <2>1, <2>3, <2>4
<1> QED
  BY <1>2, <1>3 DEF TallyInv

\* The counters with the nullifier invariant are the whole tally.
LEMMA TallyHolds == VotingInv /\ TallyInv => TallyMatchesBallots
<1> SUFFICES ASSUME VotingInv, TallyInv, NEW poll \in Polls
             PROVE  LET d == poll[1]  p == poll[2]
                        yes == {b \in BallotsIn(d, p) : b.choice}
                    IN  /\ proposals[d][p].yes_votes = Cardinality(yes)
                        /\ proposals[d][p].no_votes = Cardinality(BallotsIn(d, p) \ yes)
                        /\ {n \in 1 .. FieldModulus - 1 : nullifier_used(d, p, n)}
                             = {b.nullifier : b \in BallotsIn(d, p)}
  BY DEF TallyMatchesBallots
<1> DEFINE d == poll[1]
           p == poll[2]
<1>1. d \in DaoId /\ p \in DOMAIN proposals[d]
  BY DEF Polls, proposal_exists
<1>2. /\ proposals[d][p].yes_votes = Cardinality(YesBallots(d, p))
      /\ proposals[d][p].no_votes = Cardinality(NoBallots(d, p))
  BY <1>1 DEF TallyInv
<1>3. {n \in 1 .. FieldModulus - 1 : nullifier_used(d, p, n)}
       = {b.nullifier : b \in BallotsIn(d, p)}
  <2>1. \A n : <<d, p, n>> \in nullifiers
                 <=> \E b \in ballots : b.dao = d /\ b.proposal = p /\ b.nullifier = n
    BY DEF VotingInv, NullifiersAreBallots
  <2>2. \A b \in ballots : b.nullifier \in 1 .. FieldModulus - 1
    BY DEF VotingInv, VotingTypeOK, Ballot
  <2> HIDE DEF d, p
  <2> QED
    BY <2>1, <2>2 DEF nullifier_used, BallotsIn
<1> QED
  BY <1>2, <1>3 DEF YesBallots, NoBallots

(***************************************************************************)
(* The theorems of the voting system.                                      *)
(***************************************************************************)

\* The state of registry, token and voting contract keeps its type through
\* every transaction of every address.
THEOREM VotingTypeCorrect == Spec => [](SbtTypeOK /\ VotingTypeOK)
<1>1. SystemInv => SbtTypeOK /\ VotingTypeOK
  BY DEF SystemInv, RegistryAndSbtInv, SbtInv, TokenTypeOK, SbtTypeOK, VotingInv
<1> QED
  BY <1>1, SystemInvariant, PTL

\* "prevents double voting": however votes interleave with registrations,
\* removals, reinstatements and key changes, an identity secret has at most one
\* ballot per proposal, and the reduction modulo r cannot give it a second.
THEOREM OneBallotPerSecretAlways == Spec => []OneBallotPerSecret
<1>1. SystemInv => OneBallotPerSecret
  BY DEF SystemInv, VotingInv, BallotsUseTheirNullifier, BallotsDiffer, OneBallotPerSecret
<1> QED
  BY <1>1, SystemInvariant, PTL

\* The counters of a proposal are the numbers of its yes and no ballots, and its
\* nullifiers are theirs, in every state of every behaviour.
THEOREM TallyMatchesBallotsAlways == Spec => []TallyMatchesBallots
<1>1. Init => TallyInv
  BY TallyInitInv DEF Init
<1>2. SystemInv /\ TallyInv /\ [Next]_vars => TallyInv'
  <2> SUFFICES ASSUME SystemInv, TallyInv, [Next]_vars
               PROVE  TallyInv'
    OBVIOUS
  <2>1. (VotingStep \/ UNCHANGED voting_vars) /\ now' \in 0 .. MaxTime
    BY NextVotingStep, VotingAssumption
    DEF SystemInv, VotingInv, VotingTypeOK, vars
  <2>2. TalliesStay \/ \E ballot : CountsBallot(ballot)
    BY <2>1, VotingStutter, SetVkStep, CreateProposalStep, EndProposalStep, VoteStep
    DEF SystemInv, VotingStep
  <2> QED
    BY <2>2, TallyStayStep, TallyCountStep DEF SystemInv
<1>3. SystemInv /\ TallyInv => TallyMatchesBallots
  BY TallyHolds DEF SystemInv
<1> QED
  BY <1>1, <1>2, <1>3, SystemInvariant, PTL DEF Spec

\* The key a proposal was created under is still the one stored for its version,
\* however often the admin sets a new key: vote never panics with VkChanged.
THEOREM VkPinnedAlways == Spec => []VkPinned
<1>1. SystemInv => VkPinned
  BY DEF SystemInv, VotingInv
<1> QED
  BY <1>1, SystemInvariant, PTL

\* No transaction touches what is final of a proposal.
LEMMA ResultsStayStep ==
  ASSUME SystemInv, Next
  PROVE  ResultsStay
<1>1. VotingStep /\ now' \in 0 .. MaxTime
  BY NextVotingStep, VotingAssumption DEF SystemInv, VotingInv, VotingTypeOK
<1> QED
  BY <1>1, VotingStutter, SetVkStep, CreateProposalStep, EndProposalStep, VoteStep
  DEF SystemInv, VotingStep

\* A proposal's snapshot never changes, its state only advances and a counter
\* moves only by one vote, on an Active proposal before its deadline.
THEOREM ResultsAreFinalAlways == Spec => ResultsAreFinal
<1>1. SystemInv /\ [Next]_vars => [ResultsStay]_vars
  BY ResultsStayStep
<1> QED
  BY <1>1, SystemInvariant, PTL DEF Spec, ResultsAreFinal

(***************************************************************************)
(* The electorate.  FixedElectorate and TrailingStaysVotable relate        *)
(* proposals to the tree: the tree of a proposal exists and its newest     *)
(* index only grows, a snapshot is a root of it, and every ballot on a     *)
(* Fixed proposal comes from the snapshot.                                 *)
(***************************************************************************)

\* A new proposal takes its snapshot from an existing tree; no other appears.
ProposalsBegin ==
  \A d \in DaoId : \A p \in DOMAIN proposals'[d] \ DOMAIN proposals[d] :
    /\ tree_initialized(d)
    /\ proposals'[d][p].eligible_root = current_root(tree[d])
    /\ proposals'[d][p].earliest_root_index = curr_idx(tree[d])

\* The leaf is on the roll of the ballot's proposal.
FromRoll(b) ==
  /\ b.proposal \in DOMAIN proposals[b.dao]
  /\ LET proposal == proposals[b.dao][b.proposal]
     IN  proposal.vote_mode = "Fixed" => b.leaf \in Elements(proposal.eligible_root)

\* Only create_proposal makes a proposal.
LEMMA ProposalsBeginStep ==
  ASSUME VotingInv, VotingStep, now' \in 0 .. MaxTime
  PROVE  ProposalsBegin
<1>1. DOMAIN proposals = DaoId
  BY DEF VotingInv, VotingTypeOK
<1>2. CASE UNCHANGED voting_vars
  BY <1>2 DEF voting_vars, ProposalsBegin
<1>3. CASE \E d \in DaoId, vk \in Vk : set_vk_from_registry(d, vk)
  BY <1>3 DEF set_vk_from_registry, ProposalsBegin
<1>4. CASE \E d \in DaoId : CreatesProposal(d)
  <2>1. PICK d \in DaoId : CreatesProposal(d)
    BY <1>4
  <2>2. PICK new :
          /\ tree_initialized(d)
          /\ new.eligible_root = current_root(tree[d])
          /\ new.earliest_root_index = curr_idx(tree[d])
          /\ proposals' = [proposals EXCEPT ![d] = Append(@, new)]
    <3>1. PICK title \in Text, cid \in Cid \cup {0}, end_time \in 0 .. MaxTime, a \in Address,
               mode \in {"Fixed", "Trailing"}, version \in {None} \cup 0 .. MaxVks :
            create_proposal_with_version(d, title, cid, end_time, a, mode, version)
      BY <2>1 DEF CreatesProposal
    <3> DEFINE selected == IF version = None THEN vk_version(d) ELSE version
               proposal == [ title               |-> title,
                             content_cid         |-> cid,
                             yes_votes           |-> 0,
                             no_votes            |-> 0,
                             end_time            |-> end_time,
                             state               |-> "Active",
                             vk_hash             |-> hash_vk(get_vk_by_version(d, selected)),
                             vk_version          |-> selected,
                             eligible_root       |-> current_root(tree[d]),
                             vote_mode           |-> mode,
                             earliest_root_index |-> curr_idx(tree[d]) ]
    <3>2. tree_initialized(d) /\ proposals' = [proposals EXCEPT ![d] = Append(@, proposal)]
      BY <3>1 DEF create_proposal_with_version
    <3>3. /\ proposal.eligible_root = current_root(tree[d])
          /\ proposal.earliest_root_index = curr_idx(tree[d])
      OBVIOUS
    <3> HIDE DEF proposal
    <3> QED
      BY <3>2, <3>3
  <2> DEFINE s == proposals[d]
  <2>3. IsSequence(s)
    BY DEF VotingInv, VotingTypeOK
  <2>4. /\ IsSequence(Append(s, new)) /\ Len(Append(s, new)) = Len(s) + 1
        /\ Append(s, new)[Len(s) + 1] = new
        /\ Len(s) \in Nat /\ DOMAIN s = 1 .. Len(s)
    BY <2>3, AppendSequence, SequenceDomain
  <2>5. DOMAIN Append(s, new) = 1 .. Len(s) + 1
    BY <2>4, SequenceDomain
  <2>6. \A p \in DOMAIN Append(s, new) \ DOMAIN s : Append(s, new)[p] = new
    BY <2>4, <2>5
  <2>7. /\ proposals'[d] = Append(s, new)
        /\ \A e \in DaoId \ {d} : proposals'[e] = proposals[e]
    BY <1>1, <2>2
  <2> QED
    BY <2>2, <2>6, <2>7 DEF ProposalsBegin
<1>5. CASE \E d \in DaoId, p \in ProposalId : EndsProposal(d, p)
  <2>1. PICK d \in DaoId, p \in ProposalId, state \in {"Closed", "Archived"} :
          proposals' = [proposals EXCEPT ![d][p].state = state]
    BY <1>5 DEF EndsProposal, close_proposal, archive_proposal
  <2>2. \A e \in DaoId : DOMAIN proposals'[e] = DOMAIN proposals[e]
    BY <1>1, <2>1
  <2> QED
    BY <2>2 DEF ProposalsBegin
<1>6. CASE \E d \in DaoId, p \in ProposalId : Votes(d, p)
  <2>1. PICK d \in DaoId, p \in ProposalId : Votes(d, p)
    BY <1>6
  <2>2. PICK ballot : CountsBallot(ballot)
    BY <2>1, VoteStep DEF VotingInv, VotingTypeOK
  <2> QED
    BY <2>2 DEF ProposalsBegin, CountsBallot
<1> QED
  BY <1>2, <1>3, <1>4, <1>5, <1>6 DEF VotingStep

\* Every new ballot comes from the roll of its proposal.
LEMMA BallotsFromRoll ==
  ASSUME VotingInv, VotingStep
  PROVE  \A b \in ballots' \ ballots : FromRoll(b)
<1>1. CASE UNCHANGED ballots
  BY <1>1
<1>2. CASE \E d \in DaoId, p \in ProposalId : Votes(d, p)
  <2>1. PICK d \in DaoId, p \in ProposalId : Votes(d, p)
    BY <1>2
  <2>2. PICK choice \in BOOLEAN, n \in U256, leaf \in Leaf \ {Zero}, vk \in Vk,
             root \in DOMAIN tree[d].root_index :
          vote(d, p, choice, n, root, [vk |-> vk, leaf |-> leaf])
    BY <2>1 DEF Votes
  <2> DEFINE ballot == [ dao |-> d, proposal |-> p, nullifier |-> n, leaf |-> leaf,
                         choice |-> choice, live |-> is_live(d, leaf) ]
  <2>3. /\ p \in DOMAIN proposals[d]
        /\ root_eligible(d, p, root)
        /\ Included(root, leaf)
        /\ ballots' = ballots \cup {ballot}
    BY <2>2 DEF vote, cast, proposal_exists, verify_groth16
  <2>4. proposals[d][p].vote_mode = "Fixed" => leaf \in Elements(proposals[d][p].eligible_root)
    BY <2>3 DEF root_eligible, Included, Elements
  <2>5. FromRoll(ballot)
    BY <2>3, <2>4 DEF FromRoll
  <2> QED
    BY <2>3, <2>5
<1> QED
  <2>1. UNCHANGED voting_vars => UNCHANGED ballots
    BY DEF voting_vars
  <2>2. (\E d \in DaoId, vk \in Vk : set_vk_from_registry(d, vk)) => UNCHANGED ballots
    BY DEF set_vk_from_registry
  <2>3. (\E d \in DaoId : CreatesProposal(d)) => UNCHANGED ballots
    BY DEF CreatesProposal, create_proposal_with_version
  <2>4. (\E d \in DaoId, p \in ProposalId : EndsProposal(d, p)) => UNCHANGED ballots
    BY DEF EndsProposal, close_proposal, archive_proposal
  <2> QED
    BY <1>1, <1>2, <2>1, <2>2, <2>3, <2>4 DEF VotingStep

\* The trees under the steps of the whole system.
LEMMA SystemTreesStep ==
  ASSUME RegistryAndSbtInv, TreesOK, [Next]_vars
  PROVE  TreesStep
<1>1. CASE UNCHANGED tree_vars
  BY <1>1, TreesUntouched
<1>2. CASE TreeTransaction
  BY <1>2, TreeTransactionStep
<1>3. CASE CreateAndInit
  <2>1. \E a \in Address, depth \in Depth :
          \/ init_tree_from_registry(next_dao_id, depth)
          \/ \E c \in Leaf : init_and_register_from_registry(next_dao_id, depth, c, a)
    BY <1>3 DEF CreateAndInit, create_and_init_dao_no_reg, create_and_init_dao
  <2>2. next_dao_id \in DaoId
    BY <1>3, CreateAndInitStep
  <2> QED
    BY <2>1, <2>2, InitTreeStep, InitAndRegisterStep
<1> QED
  BY <1>1, <1>2, <1>3 DEF Next, TreeNext, LedgerClose, lower_vars, vars

\* What relates a proposal to its DAO's tree and its ballots to its snapshot.
RollOK(d, p) ==
  LET proposal == proposals[d][p]
  IN  /\ TreeInv(tree[d])
      /\ IsFiniteSet(Elements(proposal.eligible_root))
      /\ proposal.earliest_root_index \in Nat
      /\ proposal.earliest_root_index <= curr_idx(tree[d])
      /\ \A b \in BallotsIn(d, p) : FromRoll(b)

ElectorateInv == \A d \in DaoId : \A p \in DOMAIN proposals[d] : RollOK(d, p)

\* No proposal has an electorate yet.
LEMMA ElectorateInit == VotingInit => ElectorateInv
BY DEF VotingInit, ElectorateInv

\* The values in a root are finitely many.
LEMMA RootValuesFinite ==
  ASSUME NEW t, TreeInv(t)
  PROVE  IsFiniteSet(Elements(current_root(t)))
<1> DEFINE root == current_root(t)
<1>1. root \in NodeValues(t.depth) /\ capacity[t.depth] \in Nat
  BY CurrentRootFacts, ShapeFacts DEF TreeInv
<1>2. root \in [1 .. capacity[t.depth] -> LeafValues]
  BY <1>1 DEF NodeValues
<1>3. IsFiniteSet(1 .. capacity[t.depth])
  BY <1>1, FS_Interval
<1> HIDE DEF root
<1>4. root \in Surjection(1 .. capacity[t.depth], Elements(root))
  BY <1>2 DEF Surjection, Elements
<1>5. IsFiniteSet(Elements(root))
  BY <1>3, <1>4, FS_Surjection
<1> QED
  BY <1>5 DEF root

\* What the step of the whole system keeps of every electorate.
LEMMA ElectorateStep ==
  ASSUME VotingInv, TreesOK, ElectorateInv, TreesStep,
         ResultsStay, ProposalsBegin, \A b \in ballots' \ ballots : FromRoll(b)
  PROVE  ElectorateInv'
<1> SUFFICES ASSUME NEW d \in DaoId, NEW p \in DOMAIN proposals'[d]
             PROVE  RollOK(d, p)'
  BY DEF ElectorateInv
<1>1. MayBecome(tree[d], tree'[d])
  BY DEF TreesStep
<1>2. CASE p \in DOMAIN proposals[d]
  <2> DEFINE old == proposals[d][p]
             new == proposals'[d][p]
  <2>1. RollOK(d, p)
    BY <1>2 DEF ElectorateInv
  <2>2. Snapshot(new) = Snapshot(old)
    BY <1>2 DEF ResultsStay
  <2>3. /\ new.eligible_root = old.eligible_root
        /\ new.vote_mode = old.vote_mode
        /\ new.earliest_root_index = old.earliest_root_index
    BY <2>2 DEF Snapshot
  <2>4. /\ TreeInv(tree'[d]) /\ curr_idx(tree[d]) <= curr_idx(tree'[d])
        /\ curr_idx(tree[d]) \in Nat /\ curr_idx(tree'[d]) \in Nat
    BY <1>1, <2>1, TreeGrows, CurrentRootFacts DEF RollOK
  <2>5. /\ new.earliest_root_index \in Nat
        /\ new.earliest_root_index <= curr_idx(tree'[d])
        /\ IsFiniteSet(Elements(new.eligible_root))
    BY <2>1, <2>3, <2>4 DEF RollOK
  <2>6. ASSUME NEW b \in ballots', b.dao = d, b.proposal = p
        PROVE  new.vote_mode = "Fixed" => b.leaf \in Elements(new.eligible_root)
    <3>1. FromRoll(b)
      BY <1>2, <2>1, <2>6 DEF RollOK, BallotsIn
    <3> QED
      BY <2>3, <2>6, <3>1 DEF FromRoll
  <2>7. p \in DOMAIN proposals'[d]
    OBVIOUS
  <2> QED
    BY <2>4, <2>5, <2>6, <2>7 DEF RollOK, BallotsIn, FromRoll
<1>3. CASE p \notin DOMAIN proposals[d]
  <2> DEFINE new == proposals'[d][p]
  <2>1. /\ tree[d] # NoTree
        /\ new.eligible_root = current_root(tree[d])
        /\ new.earliest_root_index = curr_idx(tree[d])
    BY <1>3 DEF ProposalsBegin, tree_initialized
  <2>2. TreeInv(tree[d])
    BY <2>1 DEF TreesOK, Trees, tree_initialized
  <2>3. /\ TreeInv(tree'[d]) /\ curr_idx(tree[d]) <= curr_idx(tree'[d])
        /\ curr_idx(tree[d]) \in Nat
    BY <1>1, <2>2, TreeGrows, CurrentRootFacts
  <2>4. IsFiniteSet(Elements(new.eligible_root))
    BY <2>1, <2>2, RootValuesFinite
  <2>5. \A b \in ballots' : ~(b.dao = d /\ b.proposal = p)
    BY <1>3 DEF VotingInv, BallotsUseTheirNullifier, proposal_exists, FromRoll
  <2> QED
    BY <2>1, <2>3, <2>4, <2>5 DEF RollOK, BallotsIn
<1> QED
  BY <1>2, <1>3

(***************************************************************************)
(* A Fixed proposal counts each leaf of its snapshot once.                 *)
(***************************************************************************)
\* Ballots name distinct leaves of the snapshot, so there are no more of them
\* than it has members.
LEMMA FixedHolds ==
  ASSUME VotingInv, TallyInv, ElectorateInv
  PROVE  FixedElectorate
<1> SUFFICES ASSUME NEW d \in DaoId, NEW p \in DOMAIN proposals[d],
                    proposals[d][p].vote_mode = "Fixed"
             PROVE  LET proposal == proposals[d][p]
                        snapshot == Elements(proposal.eligible_root)
                    IN  /\ {b.leaf : b \in BallotsIn(d, p)} \subseteq snapshot
                        /\ proposal.yes_votes + proposal.no_votes
                             <= Cardinality(snapshot \ {Zero})
  BY DEF FixedElectorate, Polls, proposal_exists, Elements
<1> DEFINE snapshot == Elements(proposals[d][p].eligible_root)
           B == BallotsIn(d, p)
           Y == YesBallots(d, p)
           N == NoBallots(d, p)
           f == [b \in B |-> b.leaf]
<1>1. RollOK(d, p)
  BY DEF ElectorateInv
<1>2. \A b \in B : b.leaf \in snapshot
  BY <1>1 DEF RollOK, FromRoll, BallotsIn
<1>3. \A b \in B : b.leaf # Zero
  BY DEF VotingInv, VotingTypeOK, Ballot, BallotsIn
<1>4. IsFiniteSet(snapshot \ {Zero})
  BY <1>1, FS_Subset DEF RollOK
<1>5. \A a, b \in B : a.leaf = b.leaf => a = b
  BY DEF VotingInv, BallotsUseTheirNullifier, BallotsDiffer, BallotsIn
<1>6. IsFiniteSet(B)
  BY FS_Subset DEF TallyInv, BallotsIn
<1>7. /\ Y \cup N = B /\ Y \cap N = {} /\ IsFiniteSet(Y) /\ IsFiniteSet(N)
  BY <1>6, FS_Subset DEF YesBallots, NoBallots
<1> HIDE DEF snapshot, B, Y, N
<1>8. f \in Injection(B, snapshot \ {Zero})
  BY <1>2, <1>3, <1>5 DEF Injection, IsInjective
<1>9. Cardinality(B) <= Cardinality(snapshot \ {Zero})
  BY <1>4, <1>8, FS_Injection
<1>10. Cardinality(B) = Cardinality(Y) + Cardinality(N)
  <2>1. Cardinality(Y \cup N) = Cardinality(Y) + Cardinality(N) - Cardinality(Y \cap N)
    BY <1>7, FS_Union
  <2>2. Cardinality(Y \cap N) = 0
    BY <1>7, FS_EmptySet
  <2>3. Cardinality(Y) \in Nat /\ Cardinality(N) \in Nat
    BY <1>7, FS_CardinalityType
  <2>4. Cardinality(Y \cup N) = Cardinality(B)
    BY <1>7
  <2> QED
    BY <2>1, <2>2, <2>3, <2>4
<1>11. proposals[d][p].yes_votes = Cardinality(Y) /\ proposals[d][p].no_votes = Cardinality(N)
  BY DEF TallyInv, Y, N
<1> QED
  BY <1>2, <1>9, <1>10, <1>11 DEF snapshot, B

\* The current root is eligible for every Trailing proposal, and includes every
\* live leaf when the tree has the circuit's depth.
LEMMA TrailingHolds ==
  ASSUME ElectorateInv
  PROVE  TrailingStaysVotable
<1> SUFFICES ASSUME NEW d \in DaoId, NEW p \in DOMAIN proposals[d],
                    proposals[d][p].vote_mode = "Trailing"
             PROVE  /\ root_eligible(d, p, current_root(tree[d]))
                    /\ tree[d].depth = MaxTreeDepth =>
                         \A i \in Positions(tree[d].depth) :
                           tree[d].leaf_value[i] # Zero =>
                             Included(current_root(tree[d]), tree[d].leaf_value[i])
  BY DEF TrailingStaysVotable, Polls, proposal_exists
<1> DEFINE t == tree[d]
<1>1. RollOK(d, p)
  BY DEF ElectorateInv
<1>2. TreeInv(t) /\ TreeShape(t)
  BY <1>1 DEF RollOK, TreeInv
<1>3. root_eligible(d, p, current_root(t))
  <2>1. Accepted(t, current_root(t))
    BY <1>2, CurrentRootFacts
  <2>2. /\ proposals[d][p].earliest_root_index \in Nat
        /\ curr_idx(t) \in Nat
        /\ proposals[d][p].earliest_root_index <= root_idx(t, current_root(t))
    BY <1>1, <1>2, CurrentRootFacts DEF RollOK, curr_idx
  <2> QED
    BY <2>1, <2>2 DEF root_eligible, Accepted, curr_idx
<1>4. ASSUME t.depth = MaxTreeDepth, NEW i \in Positions(t.depth), t.leaf_value[i] # Zero
      PROVE  Included(current_root(t), t.leaf_value[i])
  <2>1. /\ t.depth \in 0 .. MaxTreeDepth /\ i \in Nat /\ capacity[t.depth] \in Nat
    BY <1>2, ShapeFacts
  <2>2. NodeCovers(current_root(t), t.depth, 0, LiveOrRegistered(t))
    BY <1>2 DEF TreeInv, HashesCover
  <2>3. /\ current_root(t)[i + 1] \in LiveOrRegistered(t)[i]
        /\ current_root(t) \in [1 .. capacity[t.depth] -> LeafValues]
        /\ i + 1 \in 1 .. capacity[t.depth]
    BY <2>1, <2>2, RootLeaf
  <2>4. LiveOrRegistered(t)[i] = {t.leaf_value[i]}
    BY <1>4, <2>1 DEF LiveOrRegistered, Stored
  <2>5. Len(current_root(t)) = capacity[t.depth]
    BY <2>1, <2>3
  <2> QED
    BY <1>4, <2>3, <2>4, <2>5 DEF Included
<1> QED
  BY <1>3, <1>4

(***************************************************************************)
(* The theorems about electorates.                                         *)
(***************************************************************************)
ElectionInv == SystemInv /\ TallyInv /\ TreesOK /\ ElectorateInv

\* What a step does to the voting contract, for the two lemmas below.
LEMMA ElectionNextFacts ==
  ASSUME SystemInv, TreesOK, [Next]_vars
  PROVE  /\ SystemInv' /\ TreesStep /\ ResultsStay /\ ProposalsBegin
         /\ \A b \in ballots' \ ballots : FromRoll(b)
         /\ TalliesStay \/ \E ballot : CountsBallot(ballot)
<1>1. VotingInv /\ RegistryAndSbtInv
  BY DEF SystemInv
<1>2. VotingStep /\ now' \in 0 .. MaxTime
  <2>1. CASE Next
    BY <1>1, <2>1, NextVotingStep, VotingAssumption DEF VotingInv, VotingTypeOK
  <2>2. CASE UNCHANGED vars
    BY <1>1, <2>2 DEF vars, VotingStep, VotingInv, VotingTypeOK
  <2> QED
    BY <2>1, <2>2
<1>3. ResultsStay /\ (TalliesStay \/ \E ballot : CountsBallot(ballot))
  BY <1>1, <1>2, VotingStutter, SetVkStep, CreateProposalStep, EndProposalStep, VoteStep
  DEF VotingStep
<1> QED
  BY <1>1, <1>2, <1>3, SystemNextInv, SystemTreesStep, ProposalsBeginStep, BallotsFromRoll

\* Every step keeps the invariant of votes and trees.
LEMMA ElectionStep ==
  ASSUME ElectionInv, [Next]_vars
  PROVE  ElectionInv'
<1>1. SystemInv /\ TallyInv /\ TreesOK /\ ElectorateInv /\ VotingInv
  BY DEF ElectionInv, SystemInv
<1>2. /\ SystemInv' /\ TreesStep /\ ResultsStay /\ ProposalsBegin
      /\ \A b \in ballots' \ ballots : FromRoll(b)
      /\ TalliesStay \/ \E ballot : CountsBallot(ballot)
  BY <1>1, ElectionNextFacts
<1>3. TallyInv'
  BY <1>1, <1>2, TallyStayStep, TallyCountStep
<1>4. TreesOK'
  BY <1>1, <1>2, TreesNextInv
<1>5. ElectorateInv'
  BY <1>1, <1>2, ElectorateStep
<1> QED
  BY <1>2, <1>3, <1>4, <1>5 DEF ElectionInv

\* The inductive invariant of votes and trees together.
THEOREM ElectionInvariant == Spec => []ElectionInv
<1>1. Init => ElectionInv
  BY SystemInitInv, TallyInitInv, TreesInit, ElectorateInit
  DEF Init, LowerInit, ElectionInv
<1>2. ElectionInv /\ [Next]_vars => ElectionInv'
  BY ElectionStep
<1> QED
  BY <1>1, <1>2, PTL DEF Spec

\* On a Fixed proposal only members of the snapshot are counted, each at most once,
\* however the tree changes after the proposal was created.
THEOREM FixedElectorateAlways == Spec => []FixedElectorate
<1>1. ElectionInv => FixedElectorate
  BY FixedHolds DEF ElectionInv, SystemInv
<1> QED
  BY <1>1, ElectionInvariant, PTL

\* A live member with an up-to-date path can be counted on an open Trailing proposal,
\* after any registrations, evictions and removals.
THEOREM TrailingStaysVotableAlways == Spec => []TrailingStaysVotable
<1>1. ElectionInv => TrailingStaysVotable
  BY TrailingHolds DEF ElectionInv
<1> QED
  BY <1>1, ElectionInvariant, PTL

\* The tree keeps its promises inside the whole system, where the registry creates
\* trees with their first registration in one transaction.
THEOREM TreesInVoting ==
  Spec => [](/\ OneMemberPerLeaf
             /\ RootsVouchForRegistered
             /\ LiveLeavesInCurrentRoot
             /\ CurrentRootIsNewest
             /\ PathsVerifyUntilRemoval)
<1>1. ElectionInv => /\ OneMemberPerLeaf
                     /\ RootsVouchForRegistered
                     /\ LiveLeavesInCurrentRoot
                     /\ CurrentRootIsNewest
                     /\ PathsVerifyUntilRemoval
  BY TreesFacts DEF ElectionInv
<1> QED
  BY <1>1, ElectionInvariant, PTL

\* A removal takes effect at once and for good, entries of members stay and the list
\* follows them, whichever transactions of the other contracts run in between.
THEOREM RemovalsInVoting ==
  Spec => /\ RemovalTakesEffect
          /\ RemovedCommitmentStaysOut
          /\ EntriesArePermanent
          /\ ListFollowsEntries
<1>1. ElectionInv /\ [Next]_vars => [RemovalLeavesNoRoot]_tree_spec_vars
  BY SystemTreesStep, TreesStepFacts DEF ElectionInv, SystemInv
<1>2. ElectionInv /\ [Next]_vars => [NoCommitmentReturns]_tree_spec_vars
  BY SystemTreesStep, TreesStepFacts DEF ElectionInv, SystemInv
<1>3. ElectionInv /\ [Next]_vars => [EntriesStay /\ ListStep]_<<registry_vars, sbt_vars>>
  <2> SUFFICES ASSUME ElectionInv, [Next]_vars
               PROVE  [EntriesStay /\ ListStep]_<<registry_vars, sbt_vars>>
    OBVIOUS
  <2>1. RegistryAndSbtInv
    BY DEF ElectionInv, SystemInv
  <2>2. CASE Next
    BY <2>1, <2>2, LowerStep
  <2>3. CASE UNCHANGED vars
    BY <2>3 DEF vars, lower_vars
  <2> QED
    BY <2>2, <2>3
<1> QED
  BY <1>1, <1>2, <1>3, ElectionInvariant, PTL
     DEF Spec, RemovalTakesEffect, RemovedCommitmentStaysOut, EntriesArePermanent,
         ListFollowsEntries

(***************************************************************************)
(* The refinement of Election.  ElectionInv is what it needs: that ballots *)
(* of one poll have different secrets and that a counter counts them make  *)
(* a counted vote a Cast, and that a ballot's leaf is in the snapshot puts *)
(* its voter on the roll.                                                  *)
(***************************************************************************)
PhaseNow == [poll \in AllPolls |-> poll_phase(poll[1], poll[2])]
RollNow  == [poll \in AllPolls |-> poll_roll(poll[1], poll[2])]
VotesNow == [poll \in AllPolls |-> poll_votes(poll[1], poll[2])]
TallyNow == [poll \in AllPolls |-> poll_tally(poll[1], poll[2])]

\* A step that opens one poll with some roll.
LEMMA PromiseOpens ==
  ASSUME NEW poll \in AllPolls, NEW electorate \in SUBSET Secret,
         PhaseNow[poll] = "None",
         PhaseNow' = [PhaseNow EXCEPT ![poll] = "Active"],
         RollNow' = [RollNow EXCEPT ![poll] = electorate],
         VotesNow' = VotesNow, TallyNow' = TallyNow
  PROVE  Promise!ElectionNext
<1>1. Promise!Open(poll)
  BY DEF Promise!Open, PhaseNow, RollNow, VotesNow, TallyNow
<1> QED
  BY <1>1 DEF Promise!ElectionNext

\* A step that counts one vote.
LEMMA PromiseCasts ==
  ASSUME NEW poll \in AllPolls, NEW s \in Secret, NEW choice \in {"yes", "no"},
         PhaseNow[poll] = "Active", s \in RollNow[poll], VotesNow[poll][s] = "none",
         VotesNow' = [VotesNow EXCEPT ![poll][s] = choice],
         TallyNow' = [TallyNow EXCEPT ![poll] = Promise!Count(VotesNow'[poll])],
         PhaseNow' = PhaseNow, RollNow' = RollNow
  PROVE  Promise!ElectionNext
<1>1. Promise!Cast(poll, s, choice)
  BY DEF Promise!Cast, PhaseNow, RollNow, VotesNow, TallyNow
<1> QED
  BY <1>1 DEF Promise!ElectionNext

\* A step that closes or archives a poll.
LEMMA PromiseEnds ==
  ASSUME NEW poll \in AllPolls,
         \/ /\ PhaseNow[poll] = "Active"
            /\ PhaseNow' = [PhaseNow EXCEPT ![poll] = "Closed"]
         \/ /\ PhaseNow[poll] = "Closed"
            /\ PhaseNow' = [PhaseNow EXCEPT ![poll] = "Archived"],
         RollNow' = RollNow, VotesNow' = VotesNow, TallyNow' = TallyNow
  PROVE  Promise!ElectionNext
<1>1. Promise!Close(poll) \/ Promise!Archive(poll)
  BY DEF Promise!Close, Promise!Archive, PhaseNow, RollNow, VotesNow, TallyNow
<1> QED
  BY <1>1 DEF Promise!ElectionNext

\* Election counts with its own instance of Cardinality, which is the same function.
LEMMA PromiseCardinality ==
  ASSUME NEW S
  PROVE  Promise!Cardinality(S) = Cardinality(S)
BY DEF Promise!Cardinality, Cardinality

\* Nothing is open, and nobody has voted.
LEMMA PromiseInit == Init => Promise!ElectionInit
<1> SUFFICES ASSUME Init PROVE Promise!ElectionInit
  OBVIOUS
<1>1. ASSUME NEW poll \in AllPolls
      PROVE  /\ poll_phase(poll[1], poll[2]) = "None"
             /\ poll_roll(poll[1], poll[2]) = {}
             /\ poll_votes(poll[1], poll[2]) = Promise!NoVotes
             /\ poll_tally(poll[1], poll[2]) = [yes |-> 0, no |-> 0]
  <2>1. poll[1] \in DaoId /\ poll[2] \in ProposalId
    BY DEF AllPolls
  <2>2. proposals[poll[1]] = << >> /\ ballots = {}
    BY <2>1 DEF Init, VotingInit
  <2>3. ~proposal_exists(poll[1], poll[2])
    BY <2>2 DEF proposal_exists
  <2>4. Voters(poll[1], poll[2]) = {}
    BY <2>2 DEF Voters, BallotsIn
  <2> QED
    BY <2>3, <2>4 DEF poll_phase, poll_roll, poll_votes, poll_tally, Promise!NoVotes
<1>2. Promise!Count(Promise!NoVotes) = [yes |-> 0, no |-> 0]
  <2>1. /\ {x \in Secret : Promise!NoVotes[x] = "yes"} = {}
        /\ {x \in Secret : Promise!NoVotes[x] = "no"} = {}
    BY DEF Promise!NoVotes
  <2> QED
    BY <2>1, PromiseCardinality, FS_EmptySet DEF Promise!Count
<1> QED
  BY <1>1, <1>2 DEF Promise!ElectionInit

\* A function that is one to one on a finite set maps it to one of the same size.
LEMMA ImageCardinality ==
  ASSUME NEW S, IsFiniteSet(S), NEW T, NEW f \in [S -> T],
         \A x, y \in S : f[x] = f[y] => x = y,
         \A z \in T : \E x \in S : f[x] = z
  PROVE  Cardinality(T) = Cardinality(S)
<1>1. f \in Bijection(S, T)
  BY DEF Bijection, Injection, Surjection, IsInjective
<1>2. ExistsBijection(S, T)
  BY <1>1 DEF ExistsBijection
<1> QED
  BY <1>2, FS_Bijection

\* Behind every ballot is an identity secret.
LEMMA BallotSecret ==
  ASSUME VotingTypeOK, NEW b \in ballots
  PROVE  secret_of(b.leaf) \in Secret
BY VotingAssumption DEF VotingTypeOK, Ballot

\* What a poll publishes is Election's count of its votes.
TalliesAreCounts ==
  \A d \in DaoId, p \in ProposalId : Promise!Count(poll_votes(d, p)) = poll_tally(d, p)

\* The counters of a proposal count the secrets that voted: one ballot each.
LEMMA TallyIsCount == VotingInv /\ TallyInv => TalliesAreCounts
<1> SUFFICES ASSUME VotingInv, TallyInv, NEW d \in DaoId, NEW p \in ProposalId
             PROVE  Promise!Count(poll_votes(d, p)) = poll_tally(d, p)
  BY DEF TalliesAreCounts
<1> DEFINE B == BallotsIn(d, p)
           Y == YesBallots(d, p)
           N == NoBallots(d, p)
           v == poll_votes(d, p)
           X == {s \in Secret : v[s] = "yes"}
           Z == {s \in Secret : v[s] = "no"}
<1>1. \A a, b \in B : secret_of(a.leaf) = secret_of(b.leaf) => a = b
  BY DEF VotingInv, BallotsUseTheirNullifier, BallotsDiffer, BallotsIn
<1>2. \A b \in B : secret_of(b.leaf) \in Secret
  BY BallotSecret DEF VotingInv, BallotsIn
<1>3. \A s \in Secret : v[s] = IF s \notin Voters(d, p) THEN "none"
                               ELSE IF \E b \in B : secret_of(b.leaf) = s /\ b.choice
                               THEN "yes" ELSE "no"
  BY DEF poll_votes
<1>4. \A s : s \in Voters(d, p) <=> \E b \in B : secret_of(b.leaf) = s
  BY DEF Voters
<1>5. IsFiniteSet(Y) /\ IsFiniteSet(N)
  BY FS_Subset DEF TallyInv, BallotsIn, YesBallots, NoBallots
<1>6. Y = {b \in B : b.choice} /\ N = B \ Y
  BY DEF YesBallots, NoBallots
<1>7. X = {secret_of(b.leaf) : b \in Y}
  <2> HIDE DEF B, Y, N, v
  <2> QED
    BY <1>1, <1>2, <1>3, <1>4, <1>6
<1>8. Z = {secret_of(b.leaf) : b \in N}
  <2> HIDE DEF B, Y, N, v
  <2> QED
    BY <1>1, <1>2, <1>3, <1>4, <1>6
<1> HIDE DEF B, Y, N, v, X, Z
<1>9. Cardinality(X) = Cardinality(Y)
  <2> DEFINE f == [b \in Y |-> secret_of(b.leaf)]
  <2>1. f \in [Y -> X] /\ \A z \in X : \E x \in Y : f[x] = z
    BY <1>7
  <2>2. \A x, y \in Y : f[x] = f[y] => x = y
    BY <1>1, <1>6
  <2> HIDE DEF f
  <2> QED
    BY <1>5, <2>1, <2>2, ImageCardinality
<1>10. Cardinality(Z) = Cardinality(N)
  <2> DEFINE f == [b \in N |-> secret_of(b.leaf)]
  <2>1. f \in [N -> Z] /\ \A z \in Z : \E x \in N : f[x] = z
    BY <1>8
  <2>2. \A x, y \in N : f[x] = f[y] => x = y
    BY <1>1, <1>6
  <2> HIDE DEF f
  <2> QED
    BY <1>5, <2>1, <2>2, ImageCardinality
<1>11. poll_tally(d, p) = [yes |-> Cardinality(Y), no |-> Cardinality(N)]
  <2>1. CASE proposal_exists(d, p)
    BY <2>1 DEF poll_tally, proposal_exists, TallyInv, Y, N
  <2>2. CASE ~proposal_exists(d, p)
    <3>1. B = {}
      BY <2>2 DEF VotingInv, BallotsUseTheirNullifier, B, BallotsIn
    <3>2. Y = {} /\ N = {}
      BY <3>1, <1>6
    <3> QED
      BY <2>2, <3>2, FS_EmptySet DEF poll_tally
  <2> QED
    BY <2>1, <2>2
<1>12. Promise!Count(v) = [yes |-> Cardinality(X), no |-> Cardinality(Z)]
  <2>1. /\ Promise!Cardinality(X) = Cardinality(X)
        /\ Promise!Cardinality(Z) = Cardinality(Z)
    BY PromiseCardinality
  <2> QED
    BY <2>1 DEF Promise!Count, X, Z
<1> QED
  BY <1>9, <1>10, <1>11, <1>12 DEF v

(***************************************************************************)
(* What a step does to the phases and the ballots of the polls.            *)
(***************************************************************************)
PollKept(d, p) ==
  /\ p \in DOMAIN proposals'[d] <=> p \in DOMAIN proposals[d]
  /\ p \in DOMAIN proposals[d] => proposals'[d][p].state = proposals[d][p].state

PollOpens(d, p) ==
  /\ p \notin DOMAIN proposals[d]
  /\ p \in DOMAIN proposals'[d]
  /\ proposals'[d][p].state = "Active"
  /\ ballots' = ballots

PollEnds(d, p) ==
  /\ p \in DOMAIN proposals[d] \cap DOMAIN proposals'[d]
  /\ <<proposals[d][p].state, proposals'[d][p].state>>
       \in {<<"Active", "Closed">>, <<"Closed", "Archived">>}
  /\ ballots' = ballots

PollCounts(d, p) ==
  /\ PollKept(d, p)
  /\ p \in DOMAIN proposals[d]
  /\ proposals[d][p].state = "Active"
  /\ \E ballot \in Ballot :
       /\ ballot.dao = d
       /\ ballot.proposal = p
       /\ ballot \notin ballots
       /\ ballots' = ballots \cup {ballot}

PollsStep ==
  \/ /\ \A d \in DaoId, p \in ProposalId : PollKept(d, p)
     /\ ballots' = ballots
  \/ \E d \in DaoId, p \in ProposalId :
       /\ PollOpens(d, p) \/ PollEnds(d, p) \/ PollCounts(d, p)
       /\ \A e \in DaoId, q \in ProposalId : <<e, q>> # <<d, p>> => PollKept(e, q)

\* A transaction opens, ends or counts a vote on at most one proposal.
LEMMA PollsStepFacts ==
  ASSUME VotingInv, VotingStep
  PROVE  PollsStep
<1>1. DOMAIN proposals = DaoId
  BY DEF VotingInv, VotingTypeOK
<1>2. CASE UNCHANGED voting_vars
  BY <1>2 DEF voting_vars, PollsStep, PollKept
<1>3. CASE \E d \in DaoId, vk \in Vk : set_vk_from_registry(d, vk)
  BY <1>3 DEF set_vk_from_registry, PollsStep, PollKept
<1>4. CASE \E d \in DaoId : CreatesProposal(d)
  <2>1. PICK d \in DaoId : CreatesProposal(d)
    BY <1>4
  <2>2. PICK new : /\ new.state = "Active"
                   /\ Len(proposals[d]) < MaxProposals
                   /\ proposals' = [proposals EXCEPT ![d] = Append(@, new)]
                   /\ ballots' = ballots
    <3>1. PICK title \in Text, cid \in Cid \cup {0}, end_time \in 0 .. MaxTime, a \in Address,
               mode \in {"Fixed", "Trailing"}, version \in {None} \cup 0 .. MaxVks :
            create_proposal_with_version(d, title, cid, end_time, a, mode, version)
      BY <2>1 DEF CreatesProposal
    <3> DEFINE selected == IF version = None THEN vk_version(d) ELSE version
               proposal == [ title               |-> title,
                             content_cid         |-> cid,
                             yes_votes           |-> 0,
                             no_votes            |-> 0,
                             end_time            |-> end_time,
                             state               |-> "Active",
                             vk_hash             |-> hash_vk(get_vk_by_version(d, selected)),
                             vk_version          |-> selected,
                             eligible_root       |-> current_root(tree[d]),
                             vote_mode           |-> mode,
                             earliest_root_index |-> curr_idx(tree[d]) ]
    <3>2. /\ proposals' = [proposals EXCEPT ![d] = Append(@, proposal)]
          /\ Len(proposals[d]) < MaxProposals
          /\ ballots' = ballots
      BY <3>1 DEF create_proposal_with_version
    <3>3. proposal.state = "Active"
      OBVIOUS
    <3> HIDE DEF proposal
    <3> QED
      BY <3>2, <3>3
  <2> DEFINE s == proposals[d]
             p == Len(s) + 1
  <2>3. /\ IsSequence(Append(s, new)) /\ Len(Append(s, new)) = Len(s) + 1
        /\ Append(s, new)[Len(s) + 1] = new
        /\ \A i \in 1 .. Len(s) : Append(s, new)[i] = s[i]
        /\ Len(s) \in 0 .. MaxProposals /\ DOMAIN s = 1 .. Len(s)
    BY ProposalsType, AppendSequence DEF VotingInv
  <2>4. DOMAIN Append(s, new) = 1 .. Len(s) + 1
    BY <2>3, SequenceDomain
  <2>5. /\ proposals'[d] = Append(s, new)
        /\ \A e \in DaoId \ {d} : proposals'[e] = proposals[e]
    BY <1>1, <2>2
  <2>6. p \in ProposalId /\ p \notin DOMAIN s /\ p \in DOMAIN proposals'[d]
    BY <2>2, <2>3, <2>4, <2>5, VotingAssumption DEF ProposalId
  <2>7. PollOpens(d, p)
    BY <2>2, <2>3, <2>5, <2>6 DEF PollOpens
  <2>8. ASSUME NEW e \in DaoId, NEW q \in ProposalId, <<e, q>> # <<d, p>>
        PROVE  PollKept(e, q)
    <3>1. CASE e = d
      <4>1. q \in 1 .. Len(s) + 1 <=> q \in 1 .. Len(s)
        BY <2>3, <2>8, <3>1, VotingAssumption DEF ProposalId
      <4> HIDE DEF p, s
      <4> QED
        BY <2>3, <2>4, <2>5, <3>1, <4>1 DEF PollKept, s
    <3>2. CASE e # d
      BY <2>5, <3>2 DEF PollKept
    <3> QED
      BY <3>1, <3>2
  <2> HIDE DEF p
  <2> QED
    BY <2>6, <2>7, <2>8 DEF PollsStep
<1>5. CASE \E d \in DaoId, p \in ProposalId : EndsProposal(d, p)
  <2>1. PICK d \in DaoId, p \in ProposalId, state \in {"Closed", "Archived"} :
          /\ p \in DOMAIN proposals[d]
          /\ proposals' = [proposals EXCEPT ![d][p].state = state]
          /\ ballots' = ballots
          /\ \/ state = "Closed" /\ proposals[d][p].state # "Archived"
             \/ state = "Archived" /\ proposals[d][p].state # "Active"
    BY <1>5 DEF EndsProposal, close_proposal, archive_proposal, proposal_exists
  <2>2. /\ \A e \in DaoId : DOMAIN proposals'[e] = DOMAIN proposals[e]
        /\ \A e \in DaoId, q \in ProposalId : <<e, q>> # <<d, p>> =>
             proposals'[e][q] = proposals[e][q]
    BY <1>1, <2>1
  <2>3. \A e \in DaoId, q \in ProposalId : <<e, q>> # <<d, p>> => PollKept(e, q)
    BY <2>2 DEF PollKept
  <2>4. ProposalOK(d, proposals[d][p])
    BY <2>1 DEF VotingInv, VotingTypeOK
  <2>5. proposals'[d][p] = [proposals[d][p] EXCEPT !.state = state]
    BY <1>1, <2>1
  <2>6. PollKept(d, p) \/ PollEnds(d, p)
    <3>1. proposals'[d][p].state \in {state, proposals[d][p].state}
      BY <2>5
    <3>2. proposals'[d][p].state = state \/ PollKept(d, p)
      BY <2>2, <3>1 DEF PollKept
    <3> QED
      BY <2>1, <2>2, <2>4, <3>2 DEF PollKept, PollEnds, ProposalOK
  <2> QED
    BY <2>1, <2>3, <2>6 DEF PollsStep
<1>6. CASE \E d \in DaoId, p \in ProposalId : Votes(d, p)
  <2>1. PICK d \in DaoId, p \in ProposalId : Votes(d, p)
    BY <1>6
  <2>2. PICK choice \in BOOLEAN, n \in U256, leaf \in Leaf \ {Zero}, vk \in Vk,
             root \in DOMAIN tree[d].root_index :
          vote(d, p, choice, n, root, [vk |-> vk, leaf |-> leaf])
    BY <2>1 DEF Votes
  <2> DEFINE ballot == [ dao |-> d, proposal |-> p, nullifier |-> n, leaf |-> leaf,
                         choice |-> choice, live |-> is_live(d, leaf) ]
  <2>3. /\ p \in DOMAIN proposals[d]
        /\ proposals[d][p].state = "Active"
        /\ <<d, p, n>> \notin nullifiers
        /\ ballots' = ballots \cup {ballot}
        /\ proposals' = IF choice THEN [proposals EXCEPT ![d][p].yes_votes = @ + 1]
                                  ELSE [proposals EXCEPT ![d][p].no_votes = @ + 1]
    BY <2>2 DEF vote, cast, proposal_exists, nullifier_used
  <2>4. ballot \in Ballot
    <3>1. n \in 1 .. FieldModulus - 1
      BY <2>2, VotingAssumption DEF vote, in_field
    <3> QED
      BY <3>1 DEF Ballot, is_live
  <2>5. ballot \notin ballots
    BY <2>3 DEF VotingInv, NullifiersAreBallots
  <2>6. ballot.dao = d /\ ballot.proposal = p
    OBVIOUS
  <2> HIDE DEF ballot
  <2>7. /\ \A e \in DaoId : DOMAIN proposals'[e] = DOMAIN proposals[e]
        /\ \A e \in DaoId, q \in ProposalId : <<e, q>> # <<d, p>> =>
             proposals'[e][q] = proposals[e][q]
    BY <1>1, <2>3
  <2>8. proposals'[d][p].state = proposals[d][p].state
    <3>1. CASE choice
      BY <1>1, <2>3, <3>1
    <3>2. CASE ~choice
      BY <1>1, <2>3, <3>2
    <3> QED
      BY <3>1, <3>2
  <2>9. PollCounts(d, p)
    BY <2>3, <2>4, <2>5, <2>6, <2>7, <2>8 DEF PollCounts, PollKept
  <2>10. \A e \in DaoId, q \in ProposalId : <<e, q>> # <<d, p>> => PollKept(e, q)
    BY <2>7 DEF PollKept
  <2> QED
    BY <2>9, <2>10 DEF PollsStep
<1> QED
  BY <1>2, <1>3, <1>4, <1>5, <1>6 DEF VotingStep

\* A roll is set when the poll opens and never changes.
LEMMA RollsStay ==
  ASSUME ResultsStay, NEW d \in DaoId, NEW p \in ProposalId,
         p \in DOMAIN proposals[d] \/ p \notin DOMAIN proposals'[d]
  PROVE  poll_roll(d, p)' = poll_roll(d, p)
<1>1. CASE p \in DOMAIN proposals[d]
  <2>1. p \in DOMAIN proposals'[d] /\ Snapshot(proposals'[d][p]) = Snapshot(proposals[d][p])
    BY <1>1 DEF ResultsStay
  <2>2. /\ proposals'[d][p].eligible_root = proposals[d][p].eligible_root
        /\ proposals'[d][p].vote_mode = proposals[d][p].vote_mode
    BY <2>1 DEF Snapshot
  <2> QED
    BY <1>1, <2>1, <2>2 DEF poll_roll, proposal_exists
<1>2. CASE p \notin DOMAIN proposals[d]
  BY <1>2 DEF poll_roll, proposal_exists, ResultsStay
<1> QED
  BY <1>1, <1>2

\* Every leaf of a root that is registered has an identity secret.
LEMMA RollIsOfSecrets ==
  ASSUME TreesOK, ProposalsBegin, NEW d \in DaoId,
         NEW p \in DOMAIN proposals'[d] \ DOMAIN proposals[d]
  PROVE  poll_roll(d, p)' \subseteq Secret
<1> DEFINE root == current_root(tree[d])
<1>1. tree_initialized(d) /\ proposals'[d][p].eligible_root = root
  BY DEF ProposalsBegin
<1>2. TreeInv(tree[d])
  BY <1>1 DEF TreesOK, Trees, tree_initialized
<1>3. root \in [1 .. capacity[tree[d].depth] -> LeafValues]
  BY <1>2, CurrentRootFacts DEF NodeValues
<1> HIDE DEF root
<1>4. \A i \in DOMAIN root : root[i] # Zero => secret_of(root[i]) \in Secret
  BY <1>3, VotingAssumption DEF LeafValues
<1> QED
  BY <1>1, <1>4 DEF poll_roll, proposal_exists

\* Votes and tally of a poll without a new ballot stay.
LEMMA VotesStay ==
  ASSUME VotingInv, TallyInv, VotingInv', TallyInv', NEW d \in DaoId, NEW p \in ProposalId,
         BallotsIn(d, p)' = BallotsIn(d, p)
  PROVE  /\ poll_votes(d, p)' = poll_votes(d, p)
         /\ poll_tally(d, p)' = poll_tally(d, p)
<1>1. poll_votes(d, p)' = poll_votes(d, p)
  BY DEF poll_votes, Voters
<1>2. TalliesAreCounts
  BY TallyIsCount
<1>3. TalliesAreCounts'
  BY TallyIsCount, PTL
<1>4. /\ Promise!Count(poll_votes(d, p)) = poll_tally(d, p)
      /\ Promise!Count(poll_votes(d, p)') = poll_tally(d, p)'
  BY <1>2, <1>3 DEF TalliesAreCounts
<1> QED
  BY <1>1, <1>4

\* One ballot more is one voter more, who had not voted in that poll.
LEMMA VoteIsNew ==
  ASSUME VotingInv, VotingInv', NEW ballot \in Ballot, ballot \notin ballots,
         ballots' = ballots \cup {ballot}
  PROVE  LET d == ballot.dao  p == ballot.proposal  s == secret_of(ballot.leaf)
             choice == IF ballot.choice THEN "yes" ELSE "no"
         IN  /\ s \in Secret
             /\ poll_votes(d, p)[s] = "none"
             /\ poll_votes(d, p)' = [poll_votes(d, p) EXCEPT ![s] = choice]
<1> DEFINE d == ballot.dao
           p == ballot.proposal
           s == secret_of(ballot.leaf)
           choice == IF ballot.choice THEN "yes" ELSE "no"
           B == BallotsIn(d, p)
           C == BallotsIn(d, p)'
<1>1. s \in Secret
  BY BallotSecret, VotingAssumption DEF Ballot
<1>2. C = B \cup {ballot} /\ ballot \notin B
  BY DEF BallotsIn
<1>3. \A a, b \in C : secret_of(a.leaf) = secret_of(b.leaf) => a = b
  BY DEF VotingInv, BallotsUseTheirNullifier, BallotsDiffer, BallotsIn
<1>4. \A b \in B : secret_of(b.leaf) # s
  BY <1>2, <1>3
<1>5. poll_votes(d, p) =
        [x \in Secret |-> IF ~\E b \in B : secret_of(b.leaf) = x THEN "none"
                          ELSE IF \E b \in B : secret_of(b.leaf) = x /\ b.choice
                          THEN "yes" ELSE "no"]
  BY DEF poll_votes, Voters
<1>6. poll_votes(d, p)' =
        [x \in Secret |-> IF ~\E b \in C : secret_of(b.leaf) = x THEN "none"
                          ELSE IF \E b \in C : secret_of(b.leaf) = x /\ b.choice
                          THEN "yes" ELSE "no"]
  BY DEF poll_votes, Voters
<1> DEFINE v == poll_votes(d, p)
           w == poll_votes(d, p)'
<1>7. \A x \in Secret : x # s => w[x] = v[x]
  <2> HIDE DEF B, C, d, p
  <2> QED
    BY <1>2, <1>5, <1>6
<1>8. w[s] = choice /\ v[s] = "none"
  <2> HIDE DEF B, C, d, p
  <2>1. v[s] = "none"
    BY <1>1, <1>4, <1>5
  <2>2. \E b \in C : secret_of(b.leaf) = s
    BY <1>2
  <2>3. (\E b \in C : secret_of(b.leaf) = s /\ b.choice) <=> ballot.choice
    BY <1>2, <1>4
  <2>4. w[s] = choice
    BY <1>1, <1>6, <2>2, <2>3
  <2> QED
    BY <2>1, <2>4
<1>9. DOMAIN v = Secret /\ DOMAIN w = Secret /\ w = [x \in Secret |-> w[x]] /\ v = [x \in Secret |-> v[x]]
  BY <1>5, <1>6
<1>10. w = [v EXCEPT ![s] = choice]
  <2> HIDE DEF v, w, choice
  <2> QED
    BY <1>1, <1>7, <1>8, <1>9
<1> QED
  BY <1>1, <1>8, <1>10

\* Every step of the voting system is a step of Election or leaves its state alone.
LEMMA PromiseStep ==
  ASSUME ElectionInv, ElectionInv', PollsStep, ResultsStay, ProposalsBegin,
         \A b \in ballots' \ ballots : FromRoll(b)
  PROVE  Promise!ElectionNext \/ UNCHANGED <<PhaseNow, RollNow, VotesNow, TallyNow>>
<1>1. /\ VotingInv /\ TallyInv /\ TreesOK
      /\ VotingInv' /\ TallyInv'
  BY DEF ElectionInv, SystemInv
<1>2. ASSUME NEW e \in DaoId, NEW q \in ProposalId, PollKept(e, q)
      PROVE  /\ poll_phase(e, q)' = poll_phase(e, q)
             /\ poll_roll(e, q)' = poll_roll(e, q)
  BY <1>2, RollsStay DEF PollKept, poll_phase, proposal_exists
<1>3. ASSUME NEW e \in DaoId, NEW q \in ProposalId, BallotsIn(e, q)' = BallotsIn(e, q)
      PROVE  /\ poll_votes(e, q)' = poll_votes(e, q)
             /\ poll_tally(e, q)' = poll_tally(e, q)
  BY <1>1, <1>3, VotesStay
<1>4. CASE /\ \A d \in DaoId, p \in ProposalId : PollKept(d, p)
           /\ ballots' = ballots
  <2>1. ASSUME NEW poll \in AllPolls
        PROVE  /\ poll_phase(poll[1], poll[2])' = poll_phase(poll[1], poll[2])
               /\ poll_roll(poll[1], poll[2])' = poll_roll(poll[1], poll[2])
               /\ poll_votes(poll[1], poll[2])' = poll_votes(poll[1], poll[2])
               /\ poll_tally(poll[1], poll[2])' = poll_tally(poll[1], poll[2])
    <3>1. poll[1] \in DaoId /\ poll[2] \in ProposalId
      BY DEF AllPolls
    <3>2. BallotsIn(poll[1], poll[2])' = BallotsIn(poll[1], poll[2])
      BY <1>4 DEF BallotsIn
    <3> QED
      BY <1>2, <1>3, <1>4, <3>1, <3>2
  <2> QED
    BY <2>1 DEF PhaseNow, RollNow, VotesNow, TallyNow
<1>5. ASSUME NEW d \in DaoId, NEW p \in ProposalId,
             PollOpens(d, p) \/ PollEnds(d, p) \/ PollCounts(d, p),
             \A e \in DaoId, q \in ProposalId : <<e, q>> # <<d, p>> => PollKept(e, q)
      PROVE  Promise!ElectionNext
  <2> DEFINE here == <<d, p>>
  <2>1. here \in AllPolls
    BY DEF AllPolls
  <2>2. ASSUME NEW poll \in AllPolls, poll # here
        PROVE  /\ PhaseNow'[poll] = PhaseNow[poll]
               /\ RollNow'[poll] = RollNow[poll]
    <3>1. poll[1] \in DaoId /\ poll[2] \in ProposalId /\ <<poll[1], poll[2]>> # <<d, p>>
      BY <2>2 DEF AllPolls
    <3>2. PollKept(poll[1], poll[2])
      BY <1>5, <3>1
    <3> QED
      BY <1>2, <3>1, <3>2 DEF PhaseNow, RollNow
  <2>3. ASSUME NEW poll \in AllPolls, BallotsIn(poll[1], poll[2])' = BallotsIn(poll[1], poll[2])
        PROVE  VotesNow'[poll] = VotesNow[poll] /\ TallyNow'[poll] = TallyNow[poll]
    <3>1. poll[1] \in DaoId /\ poll[2] \in ProposalId
      BY DEF AllPolls
    <3> QED
      BY <1>3, <2>3, <3>1 DEF VotesNow, TallyNow
  <2>4. /\ PhaseNow[here] = poll_phase(d, p) /\ PhaseNow'[here] = poll_phase(d, p)'
        /\ RollNow[here] = poll_roll(d, p) /\ RollNow'[here] = poll_roll(d, p)'
        /\ VotesNow[here] = poll_votes(d, p) /\ VotesNow'[here] = poll_votes(d, p)'
        /\ TallyNow[here] = poll_tally(d, p) /\ TallyNow'[here] = poll_tally(d, p)'
    BY <2>1 DEF PhaseNow, RollNow, VotesNow, TallyNow
  <2>5. /\ PhaseNow = [poll \in AllPolls |-> PhaseNow[poll]]
        /\ RollNow = [poll \in AllPolls |-> RollNow[poll]]
        /\ VotesNow = [poll \in AllPolls |-> VotesNow[poll]]
        /\ TallyNow = [poll \in AllPolls |-> TallyNow[poll]]
    BY DEF PhaseNow, RollNow, VotesNow, TallyNow
  <2>6. /\ PhaseNow' = [poll \in AllPolls |-> PhaseNow'[poll]]
        /\ RollNow' = [poll \in AllPolls |-> RollNow'[poll]]
        /\ VotesNow' = [poll \in AllPolls |-> VotesNow'[poll]]
        /\ TallyNow' = [poll \in AllPolls |-> TallyNow'[poll]]
    BY DEF PhaseNow, RollNow, VotesNow, TallyNow
  <2>7. ballots' = ballots => VotesNow' = VotesNow /\ TallyNow' = TallyNow
    <3> SUFFICES ASSUME ballots' = ballots
                 PROVE  VotesNow' = VotesNow /\ TallyNow' = TallyNow
      OBVIOUS
    <3>1. ASSUME NEW poll \in AllPolls
          PROVE  VotesNow'[poll] = VotesNow[poll] /\ TallyNow'[poll] = TallyNow[poll]
      BY <2>3 DEF BallotsIn
    <3> QED
      BY <2>5, <2>6, <3>1
  <2> HIDE DEF here
  <2>8. CASE PollOpens(d, p)
    <3>1. PhaseNow[here] = "None" /\ PhaseNow'[here] = "Active" /\ ballots' = ballots
      BY <2>4, <2>8 DEF PollOpens, poll_phase, proposal_exists
    <3>2. RollNow'[here] \in SUBSET Secret
      BY <1>1, <2>4, <2>8, RollIsOfSecrets DEF PollOpens
    <3>3. PhaseNow' = [PhaseNow EXCEPT ![here] = "Active"]
      BY <2>1, <2>2, <2>5, <2>6, <3>1
    <3>4. RollNow' = [RollNow EXCEPT ![here] = RollNow'[here]]
      BY <2>1, <2>2, <2>5, <2>6
    <3> QED
      BY <2>1, <2>7, <3>1, <3>2, <3>3, <3>4, PromiseOpens
  <2>9. CASE PollEnds(d, p)
    <3>1. /\ ballots' = ballots
          /\ \/ PhaseNow[here] = "Active" /\ PhaseNow'[here] = "Closed"
             \/ PhaseNow[here] = "Closed" /\ PhaseNow'[here] = "Archived"
      BY <2>4, <2>9 DEF PollEnds, poll_phase, proposal_exists
    <3>2. PhaseNow' = [PhaseNow EXCEPT ![here] = PhaseNow'[here]]
      BY <2>1, <2>2, <2>5, <2>6
    <3>3. RollNow'[here] = RollNow[here]
      BY <2>4, <2>9, RollsStay DEF PollEnds
    <3>4. RollNow' = RollNow
      BY <2>2, <2>5, <2>6, <3>3
    <3> QED
      BY <2>1, <2>7, <3>1, <3>2, <3>4, PromiseEnds
  <2>10. CASE PollCounts(d, p)
    <3>1. PICK ballot \in Ballot :
            /\ ballot.dao = d
            /\ ballot.proposal = p
            /\ ballot \notin ballots
            /\ ballots' = ballots \cup {ballot}
      BY <2>10 DEF PollCounts
    <3> DEFINE s == secret_of(ballot.leaf)
               choice == IF ballot.choice THEN "yes" ELSE "no"
    <3>2. /\ s \in Secret
          /\ poll_votes(d, p)[s] = "none"
          /\ poll_votes(d, p)' = [poll_votes(d, p) EXCEPT ![s] = choice]
      BY <1>1, <3>1, VoteIsNew
    <3>3. PhaseNow' = PhaseNow /\ RollNow' = RollNow
      <4>1. PhaseNow'[here] = PhaseNow[here] /\ RollNow'[here] = RollNow[here]
        BY <1>2, <2>4, <2>10 DEF PollCounts
      <4> QED
        BY <2>2, <2>5, <2>6, <4>1
    <3>4. PhaseNow[here] = "Active"
      BY <2>4, <2>10 DEF PollCounts, poll_phase, proposal_exists
    <3>5. s \in RollNow[here]
      <4>1. FromRoll(ballot)
        BY <3>1
      <4>2. ballot.leaf # Zero
        BY DEF Ballot
      <4>3. p \in DOMAIN proposals[d] /\ proposals[d][p].vote_mode \in {"Fixed", "Trailing"}
        BY <1>1, <2>10 DEF PollCounts, VotingInv, VotingTypeOK, ProposalOK
      <4>4. CASE proposals[d][p].vote_mode = "Trailing"
        BY <2>4, <3>2, <4>3, <4>4 DEF poll_roll, proposal_exists
      <4>5. CASE proposals[d][p].vote_mode = "Fixed"
        BY <2>4, <3>1, <4>1, <4>2, <4>3, <4>5
        DEF FromRoll, Elements, poll_roll, proposal_exists
      <4> QED
        BY <4>3, <4>4, <4>5
    <3>6. ASSUME NEW poll \in AllPolls, poll # here
          PROVE  VotesNow'[poll] = VotesNow[poll] /\ TallyNow'[poll] = TallyNow[poll]
      <4>1. <<poll[1], poll[2]>> # <<d, p>>
        BY <3>6 DEF AllPolls, here
      <4>2. BallotsIn(poll[1], poll[2])' = BallotsIn(poll[1], poll[2])
        BY <3>1, <4>1 DEF BallotsIn
      <4> QED
        BY <2>3, <4>2
    <3>7. VotesNow' = [VotesNow EXCEPT ![here][s] = choice]
      BY <2>1, <2>4, <2>5, <2>6, <3>2, <3>6
    <3>8. TallyNow' = [TallyNow EXCEPT ![here] = Promise!Count(VotesNow'[here])]
      <4>1. TalliesAreCounts'
        BY <1>1, TallyIsCount, PTL
      <4>2. TallyNow'[here] = Promise!Count(VotesNow'[here])
        BY <2>4, <4>1 DEF TalliesAreCounts
      <4> QED
        BY <2>1, <2>5, <2>6, <3>6, <4>2
    <3>9. choice \in {"yes", "no"} /\ VotesNow[here][s] = "none"
      BY <2>4, <3>2
    <3> HIDE DEF s, choice
    <3> QED
      BY <2>1, <3>2, <3>3, <3>4, <3>5, <3>7, <3>8, <3>9, PromiseCasts
  <2> QED
    BY <1>5, <2>8, <2>9, <2>10
<1> QED
  BY <1>4, <1>5 DEF PollsStep

\* The voting system implements Election: through registrations, removals, new keys,
\* proposals and votes in any order, a roll stays what it was when its poll opened,
\* a secret is counted at most once and the published tally is the count of the votes.
THEOREM ImplementsElectionAlways == Spec => ImplementsElection
<1>1. ElectionInv /\ ElectionInv' /\ [Next]_vars
        => [Promise!ElectionNext]_(Promise!election_vars)
  <2> SUFFICES ASSUME ElectionInv, ElectionInv', [Next]_vars
               PROVE  Promise!ElectionNext \/ UNCHANGED Promise!election_vars
    OBVIOUS
  <2>1. SystemInv /\ TreesOK /\ VotingInv /\ RegistryAndSbtInv
    BY DEF ElectionInv, SystemInv
  <2>2. /\ ResultsStay /\ ProposalsBegin
        /\ \A b \in ballots' \ ballots : FromRoll(b)
    BY <2>1, ElectionNextFacts
  <2>3. VotingStep
    BY <2>1, NextVotingStep DEF vars, VotingStep
  <2>4. PollsStep
    BY <2>1, <2>3, PollsStepFacts
  <2>5. Promise!ElectionNext \/ UNCHANGED <<PhaseNow, RollNow, VotesNow, TallyNow>>
    BY <2>2, <2>4, PromiseStep
  <2> QED
    BY <2>5 DEF Promise!election_vars, PhaseNow, RollNow, VotesNow, TallyNow
<1> QED
  BY <1>1, ElectionInvariant, PromiseInit, PTL DEF Spec, ImplementsElection, Promise!ElectionSpec
=============================================================================
