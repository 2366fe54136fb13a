---------------------------- MODULE ClientProofs ----------------------------
(***************************************************************************)
(* Theorems about MemberClient, for every value of its constants.          *)
(***************************************************************************)
EXTENDS MemberClient, VotingProofs

(***************************************************************************)
(* The invariant.  A page acts on what it read some steps before: what      *)
(* makes that sound is that the contracts never take back a commitment's    *)
(* index, a root's index or a proposal, and that a member's own leaf is the *)
(* one of the commitment its page derives from the wallet.                  *)
(***************************************************************************)
TaskFields == {"at", "what", "poll", "choice", "index", "root", "member"}
Stops == {"idle", "register", "leaf_index", "credentials", "root", "path", "submit",
          "not_present", "remove", "removed"}

\* A handler t of a's page, over the tree u and the proposals ps of the DAO.
TaskOK(a, t, u, ps) ==
  /\ DOMAIN t = TaskFields
  /\ t.at \in Stops
  /\ t.at = "leaf_index" => commitment_of(a) \in DOMAIN u.leaf_index
  /\ t.at \in {"credentials", "root", "path", "submit"} =>
       /\ t.poll \in ps
       /\ t.what = "vote" => t.choice \in BOOLEAN
  /\ t.at \in {"path", "submit"} => t.root \in DOMAIN u.root_index
  /\ t.at = "remove" => t.member \in Address

\* A cached leaf index x of a, over the tree u.
CredentialOK(a, x, u) ==
  x # None => commitment_of(a) \in DOMAIN u.leaf_index /\ u.leaf_index[commitment_of(a)] = x

\* A member's leaf is the one of the commitment its wallet signs for.
MembersOwnLeaf(u) ==
  \A m \in DOMAIN u.member_leaf_index :
    /\ commitment_of(m) \in DOMAIN u.leaf_index
    /\ u.leaf_index[commitment_of(m)] = u.member_leaf_index[m]

PageOK(x) == x \in [hasMembership : BOOLEAN, isRegistered : BOOLEAN]

SnapshotsKnown ==
  \A p \in DOMAIN proposals[Dao] :
    proposals[Dao][p].eligible_root \in DOMAIN tree[Dao].root_index

PagesInv ==
  /\ failures \in 0 .. MaxFailures
  /\ DOMAIN page = Address /\ DOMAIN task = Address /\ DOMAIN credentials = Address
  /\ \A a \in Address :
       /\ PageOK(page[a])
       /\ TaskOK(a, task[a], tree[Dao], DOMAIN proposals[Dao])
       /\ CredentialOK(a, credentials[a], tree[Dao])
  /\ dao_exists(Dao) => tree_initialized(Dao) /\ MembersOwnLeaf(tree[Dao])
  /\ ~dao_exists(Dao) => \A a \in Address : task[a] = Idle /\ credentials[a] = None
  /\ SnapshotsKnown

\* What the contracts never take back.
Grows(t, u) ==
  /\ \A c \in DOMAIN t.leaf_index :
       c \in DOMAIN u.leaf_index /\ u.leaf_index[c] = t.leaf_index[c]
  /\ DOMAIN t.root_index \subseteq DOMAIN u.root_index

\* A handler that goes on waiting stays sound while the contracts move.
LEMMA TaskKept ==
  ASSUME NEW a, NEW t, NEW u, NEW ps, TaskOK(a, t, u, ps),
         NEW v, Grows(u, v), NEW qs, ps \subseteq qs
  PROVE  TaskOK(a, t, v, qs)
BY DEF TaskOK, Grows

\* So does a cached leaf index.
LEMMA CredentialKept ==
  ASSUME NEW a, NEW x, NEW u, CredentialOK(a, x, u), NEW v, Grows(u, v)
  PROVE  CredentialOK(a, x, v)
BY DEF CredentialOK, Grows

\* An idle handler claims nothing of tree or proposals.
LEMMA IdleOK ==
  ASSUME NEW a, NEW u, NEW ps
  PROVE  TaskOK(a, Idle, u, ps)
BY DEF TaskOK, Idle, TaskFields, Stops

(***************************************************************************)
(* The trees.                                                              *)
(***************************************************************************)
\* No transaction drops a commitment's index or a root's.
LEMMA TreeEntriesStay ==
  ASSUME NEW t, TreeInv(t), NEW u, MayBecome(t, u)
  PROVE  Grows(t, u)
<1>1. TreeShape(t) /\ DOMAIN t = TreeFields /\ t # NoTree
  BY TreeGrows DEF TreeInv, TreeShape
<1>2. CASE Untouched(t, u)
  BY <1>2 DEF Untouched, Grows
<1>3. CASE Registers(t, u)
  <2>1. PICK c \in Leaf, m \in Address : can_register(t, c, m) /\ u = registered(t, c, m)
    BY <1>3 DEF Registers
  <2>2. Registration(t, c, m, u)
    BY <1>1, <2>1, RegisteredFields
  <2>3. PICK root : /\ u.leaf_index = put(t.leaf_index, c, t.next_leaf_index)
                    /\ u.root_index = put(t.root_index, root, t.next_root_index)
    BY <2>2 DEF Registration
  <2>4. c \notin DOMAIN t.leaf_index
    BY <2>1 DEF can_register
  <2> QED
    BY <2>3, <2>4 DEF Grows, put
<1>4. CASE Removes(t, u)
  <2>1. PICK i : u = removed(t, i)
    BY <1>4 DEF Removes
  <2>2. Removal(t, i, u)
    BY <1>1, <2>1, RemovedFields
  <2>3. PICK root : /\ u.leaf_index = t.leaf_index
                    /\ u.root_index = put(t.root_index, root, t.next_root_index)
    BY <2>2 DEF Removal
  <2> QED
    BY <2>3 DEF Grows, put
<1>5. CASE Reinstates(t, u)
  <2>1. PICK m : u = reinstated(t, m)
    BY <1>5 DEF Reinstates
  <2>2. u.leaf_index = t.leaf_index /\ u.root_index = t.root_index
    BY <1>1, <2>1, ReinstatedFields
  <2> QED
    BY <2>2 DEF Grows
<1>6. ~Begins(t, u)
  BY <1>1 DEF Begins
<1> QED
  BY <1>2, <1>3, <1>4, <1>5, <1>6 DEF MayBecome

\* What the pages of one DAO do to its tree: members register the commitments
\* their wallets sign for, an administrator removes.
PagesTreeStep(t, u) ==
  \/ u = t
  \/ \E a \in Address :
       /\ can_register(t, commitment_of(a), a)
       /\ u = registered(t, commitment_of(a), a)
  \/ \E i : u = removed(t, i)

\* Each member's leaf stays the one of its own commitment.
LEMMA MembersOwnLeafStep ==
  ASSUME NEW t, DOMAIN t = TreeFields, MembersOwnLeaf(t), NEW u, PagesTreeStep(t, u)
  PROVE  MembersOwnLeaf(u)
<1>1. CASE u = t
  BY <1>1
<1>2. CASE \E a \in Address : /\ can_register(t, commitment_of(a), a)
                              /\ u = registered(t, commitment_of(a), a)
  <2>1. PICK a \in Address : /\ can_register(t, commitment_of(a), a)
                             /\ u = registered(t, commitment_of(a), a)
    BY <1>2
  <2>2. Registration(t, commitment_of(a), a, u)
    BY <2>1, RegisteredFields
  <2>3. /\ u.leaf_index = put(t.leaf_index, commitment_of(a), t.next_leaf_index)
        /\ u.member_leaf_index = put(t.member_leaf_index, a, t.next_leaf_index)
    BY <2>2 DEF Registration
  <2>4. commitment_of(a) \notin DOMAIN t.leaf_index
    BY <2>1 DEF can_register
  <2> QED
    BY <2>3, <2>4 DEF MembersOwnLeaf, put
<1>3. CASE \E i : u = removed(t, i)
  <2>1. PICK i : u = removed(t, i)
    BY <1>3
  <2>2. Removal(t, i, u)
    BY <2>1, RemovedFields
  <2>3. u.leaf_index = t.leaf_index /\ u.member_leaf_index = t.member_leaf_index
    BY <2>2 DEF Removal
  <2> QED
    BY <2>3 DEF MembersOwnLeaf
<1> QED
  BY <1>1, <1>2, <1>3 DEF PagesTreeStep

(***************************************************************************)
(* What a page's step does to the ledger.                                  *)
(***************************************************************************)
RegistersItself(a) ==
  /\ \/ register_with_caller(Dao, commitment_of(a), a)
     \/ self_register(Dao, commitment_of(a), a)
  /\ tree_only

RemovesMember(a, m) ==
  remove_member(Dao, m, a) /\ UNCHANGED <<registry_vars, voting_vars, now>>

LedgerStep(a) ==
  \/ UNCHANGED vars
  \/ RegistersItself(a)
  \/ \E m \in Address : RemovesMember(a, m)
  \/ SbtTransaction /\ sbt_only
  \/ set_membership_open(Dao, ~is_membership_open(Dao), a) /\ registry_only
  \/ VotingTransaction /\ voting_only

\* A vote a page sends is one anybody might send.
LEMMA SubmitVoteIsVote ==
  ASSUME PagesInv, VotingTypeOK, NEW a \in Address, task[a].at = "submit", task[a].what = "vote",
         vote(Dao, task[a].poll, task[a].choice, nullifier(a), task[a].root,
              [vk |-> ZKey, leaf |-> commitment_of(a)])
  PROVE  Vote
<1> DEFINE p == task[a].poll
           root == task[a].root
<1>1. TaskOK(a, task[a], tree[Dao], DOMAIN proposals[Dao])
  BY DEF PagesInv
<1>2. /\ p \in DOMAIN proposals[Dao]
      /\ task[a].choice \in BOOLEAN
      /\ root \in DOMAIN tree[Dao].root_index
  BY <1>1 DEF TaskOK
<1>3. Dao \in DaoId /\ commitment_of(a) \in Leaf \ {Zero} /\ ZKey \in Vk
  BY ClientAssumption, VotingAssumption
<1>4. p \in ProposalId
  BY <1>2, <1>3, ProposalsType
<1>5. nullifier(a) \in U256
  BY <1>3, <1>4, ClientAssumption, VotingAssumption DEF nullifier
<1> QED
  BY <1>2, <1>3, <1>4, <1>5 DEF Vote, proposal_exists

\* Every step of a page is a transaction of its address, or none at all.
LEMMA MemberLedgerStep ==
  ASSUME PagesInv, VotingTypeOK, NEW a \in Address, MemberStep(a)
  PROVE  LedgerStep(a)
<1>0. Dao \in DaoId
  BY ClientAssumption
<1>1. CASE sendRegistration(a)
  BY <1>1 DEF sendRegistration, RegistersItself, LedgerStep
<1>2. CASE submitVote(a)
  <2>1. \/ UNCHANGED vars
        \/ /\ task[a].at = "submit" /\ task[a].what = "vote"
           /\ vote(Dao, task[a].poll, task[a].choice, nullifier(a), task[a].root,
                   [vk |-> ZKey, leaf |-> commitment_of(a)])
           /\ voting_only
    BY <1>2 DEF submitVote
  <2>2. \/ UNCHANGED vars
        \/ Vote /\ voting_only
    BY <2>1, SubmitVoteIsVote
  <2> QED
    BY <2>2 DEF LedgerStep, VotingTransaction
<1>3. CASE removeFromTree(a)
  <2>1. task[a].at = "remove" /\ TaskOK(a, task[a], tree[Dao], DOMAIN proposals[Dao])
    BY <1>3 DEF PagesInv, removeFromTree
  <2>2. task[a].member \in Address
    BY <2>1 DEF TaskOK
  <2>3. UNCHANGED vars \/ RemovesMember(a, task[a].member)
    BY <1>3 DEF removeFromTree, RemovesMember
  <2> QED
    BY <2>2, <2>3 DEF LedgerStep
<1>4. CASE handleJoinDao(a)
  <2>1. self_join(Dao, a, None) /\ sbt_only
    BY <1>4 DEF handleJoinDao
  <2> QED
    BY <1>0, <2>1 DEF LedgerStep, SbtTransaction
<1>5. CASE handleLeaveConfirm(a)
  <2>1. leave(Dao, a) /\ sbt_only
    BY <1>5 DEF handleLeaveConfirm
  <2> QED
    BY <1>0, <2>1 DEF LedgerStep, SbtTransaction
<1>6. CASE \E m \in Address : handleMintSBT(a, m) \/ handleRemoveMemberConfirm(a, m)
  <2>1. PICK m \in Address : (mint(Dao, m, a, None) \/ revoke(Dao, m, a)) /\ sbt_only
    BY <1>6 DEF handleMintSBT, handleRemoveMemberConfirm
  <2> QED
    BY <1>0, <2>1 DEF LedgerStep, SbtTransaction
<1>7. CASE handleToggleMembership(a)
  BY <1>7 DEF handleToggleMembership, LedgerStep
<1>8. CASE \E title \in Text, cid \in Cid \cup {0}, mode \in {"Fixed", "Trailing"} :
             handleCreateProposal(a, title, cid, mode)
  <2>1. PICK title \in Text, cid \in Cid \cup {0}, mode \in {"Fixed", "Trailing"} :
          /\ create_proposal_with_version(Dao, title, cid, 0, a, mode, None)
          /\ voting_only
    BY <1>8 DEF handleCreateProposal
  <2>2. 0 \in 0 .. MaxTime
    BY VotingAssumption
  <2> QED
    BY <1>0, <2>1, <2>2 DEF LedgerStep, VotingTransaction
<1>9. CASE openPage(a) \/ checkRegistrationStatus(a) \/ expire(a) \/ handleRegisterForVoting(a)
  BY <1>9 DEF openPage, checkRegistrationStatus, expire, handleRegisterForVoting, LedgerStep
<1>10. CASE call_fails(a) \/ storeRegistration(a) \/ loadCredentials(a) \/ fetchCurrentRoot(a)
            \/ getMerklePath(a) \/ submitComment(a)
  BY <1>10
  DEF call_fails, storeRegistration, loadCredentials, fetchCurrentRoot, getMerklePath,
      submitComment, LedgerStep
<1>11. CASE \E p \in ProposalId :
              handleSubmit(a, p) \/ \E choice \in Choice : handleVote(a, p, choice)
  BY <1>11 DEF handleSubmit, handleVote, LedgerStep
<1> QED
  BY <1>1, <1>2, <1>3, <1>4, <1>5, <1>6, <1>7, <1>8, <1>9, <1>10, <1>11
  DEF MemberStep, TaskStep

\* And so a step of the voting system.
LEMMA LedgerStepIsNext ==
  ASSUME NEW a \in Address, LedgerStep(a)
  PROVE  [Next]_vars
<1>0. Dao \in DaoId /\ commitment_of(a) \in Leaf
  BY ClientAssumption
<1>1. CASE UNCHANGED vars
  BY <1>1
<1>2. CASE RegistersItself(a)
  <2>1. TreeTransaction /\ UNCHANGED <<registry_vars, voting_vars, now>>
    BY <1>0, <1>2 DEF RegistersItself, tree_only, TreeTransaction
  <2> QED
    BY <2>1 DEF Next, TreeNext
<1>3. CASE \E m \in Address : RemovesMember(a, m)
  <2>1. TreeTransaction /\ UNCHANGED <<registry_vars, voting_vars, now>>
    BY <1>0, <1>3 DEF RemovesMember, TreeTransaction
  <2> QED
    BY <2>1 DEF Next, TreeNext
<1>4. CASE SbtTransaction /\ sbt_only
  BY <1>4 DEF sbt_only, SbtNext, TreeNext, Next
<1>5. CASE set_membership_open(Dao, ~is_membership_open(Dao), a) /\ registry_only
  <2>1. RegistryNext
    BY <1>0, <1>5 DEF RegistryNext
  <2> QED
    BY <1>5, <2>1 DEF registry_only, SbtNext, TreeNext, Next
<1>6. CASE VotingTransaction /\ voting_only
  BY <1>6 DEF voting_only, Next
<1> QED
  BY <1>1, <1>2, <1>3, <1>4, <1>5, <1>6 DEF LedgerStep

\* Creating a DAO by the form is one of the creations the system allows.
LEMMA CreateDaoIsNext ==
  ASSUME NEW form \in Form, handleCreateDao(form)
  PROVE  Next /\ UNCHANGED client_vars
<1>1. /\ form.name \in Text /\ form.creator \in Address
      /\ form.membership_open \in BOOLEAN /\ form.members_can_propose \in BOOLEAN
      /\ MaxTreeDepth \in Depth /\ ZKey \in Vk
  BY ClientAssumption, VotingAssumption
<1>2. /\ create_and_init_dao_no_reg(form.name, form.creator, form.membership_open,
                                    form.members_can_propose, None, MaxTreeDepth, ZKey)
      /\ UNCHANGED <<now, client_vars>>
  BY DEF handleCreateDao
<1>3. CreateAndInit
  BY <1>1, <1>2 DEF CreateAndInit
<1> QED
  BY <1>2, <1>3 DEF Next

\* A page's step does to the tree what PagesTreeStep says, and no DAO goes away.
LEMMA LedgerStepTree ==
  ASSUME RegistryAndSbtInv, DOMAIN tree = DaoId, NEW a \in Address, LedgerStep(a)
  PROVE  PagesTreeStep(tree[Dao], tree'[Dao]) /\ (dao_exists(Dao) => dao_exists(Dao)')
<1>0. Dao \in DaoId /\ (UNCHANGED registry_vars => (dao_exists(Dao) <=> dao_exists(Dao)'))
  BY ClientAssumption DEF registry_vars, dao_exists
<1>1. CASE RegistersItself(a)
  <2>1. /\ can_register(tree[Dao], commitment_of(a), a)
        /\ tree' = [tree EXCEPT ![Dao] = registered(tree[Dao], commitment_of(a), a)]
        /\ UNCHANGED registry_vars
    BY <1>1 DEF RegistersItself, tree_only, register_with_caller, self_register, register
  <2>2. tree'[Dao] = registered(tree[Dao], commitment_of(a), a)
    BY <1>0, <2>1
  <2> QED
    BY <1>0, <2>1, <2>2 DEF PagesTreeStep
<1>2. CASE \E m \in Address : RemovesMember(a, m)
  <2>1. PICK m \in Address : RemovesMember(a, m)
    BY <1>2
  <2>2. PICK i : tree' = [tree EXCEPT ![Dao] = removed(tree[Dao], i)]
    BY <2>1 DEF RemovesMember, remove_member, removed
  <2>3. tree'[Dao] = removed(tree[Dao], i) /\ UNCHANGED registry_vars
    BY <1>0, <2>1, <2>2 DEF RemovesMember
  <2> QED
    BY <1>0, <2>3 DEF PagesTreeStep
<1>3. CASE \/ UNCHANGED vars
           \/ SbtTransaction /\ sbt_only
           \/ VotingTransaction /\ voting_only
  <2>1. UNCHANGED <<registry_vars, tree_vars>>
    BY <1>3 DEF vars, lower_vars, sbt_only, voting_only, SbtTransaction
  <2> QED
    BY <1>0, <2>1 DEF tree_vars, PagesTreeStep
<1>4. CASE set_membership_open(Dao, ~is_membership_open(Dao), a) /\ registry_only
  <2>1. /\ UNCHANGED tree_vars
        /\ daos' = [daos EXCEPT ![Dao].membership_open = ~is_membership_open(Dao)]
    BY <1>4 DEF registry_only, set_membership_open
  <2>2. daos \in Seq(DaoInfo)
    BY DEF RegistryAndSbtInv, RegistryTypeOK
  <2>3. Len(daos') = Len(daos)
    BY <2>1, <2>2
  <2> QED
    BY <2>1, <2>3 DEF tree_vars, PagesTreeStep, dao_exists
<1> QED
  BY <1>1, <1>2, <1>3, <1>4 DEF LedgerStep

(***************************************************************************)
(* What a page's step does to the pages.                                   *)
(***************************************************************************)
TaskBecomes(a, t) ==
  DOMAIN task' = Address /\ task'[a] = t /\ \A b \in Address \ {a} : task'[b] = task[b]

\* The four ways a handler begins, goes on and ends.
LEMMA TaskMoves ==
  ASSUME DOMAIN task = Address, NEW a \in Address
  PROVE  /\ \A t : begin(a, t) => TaskBecomes(a, t)
         /\ \A at : go_on(a, at) => TaskBecomes(a, [task[a] EXCEPT !.at = at])
         /\ finish(a) => TaskBecomes(a, Idle)
         /\ UNCHANGED task => TaskBecomes(a, task[a])
BY DEF begin, go_on, finish, TaskBecomes

\* A handler that has just begun to vote or comment is sound.
LEMMA BegunOK ==
  ASSUME NEW a, NEW u, NEW ps, NEW p \in ps, NEW choice \in BOOLEAN
  PROVE  /\ TaskOK(a, [Idle EXCEPT !.at = "credentials", !.what = "vote", !.poll = p,
                                   !.choice = choice], u, ps)
         /\ TaskOK(a, [Idle EXCEPT !.at = "credentials", !.what = "comment", !.poll = p], u, ps)
<1>1. TaskOK(a, [Idle EXCEPT !.at = "credentials", !.what = "vote", !.poll = p,
                             !.choice = choice], u, ps)
  BY DEF TaskOK, Idle, TaskFields, Stops
<1>2. TaskOK(a, [Idle EXCEPT !.at = "credentials", !.what = "comment", !.poll = p], u, ps)
  BY DEF TaskOK, Idle, TaskFields, Stops
<1> QED
  BY <1>1, <1>2

\* Registering, removing and being told claim nothing of tree or proposals.
LEMMA SimpleTaskOK ==
  ASSUME NEW a, NEW u, NEW ps, NEW p, NEW m \in Address
  PROVE  /\ TaskOK(a, [Idle EXCEPT !.at = "register"], u, ps)
         /\ TaskOK(a, [Idle EXCEPT !.at = "not_present", !.poll = p], u, ps)
         /\ TaskOK(a, [Idle EXCEPT !.at = "remove", !.member = m], u, ps)
         /\ TaskOK(a, [Idle EXCEPT !.at = "removed"], u, ps)
<1>1. TaskOK(a, [Idle EXCEPT !.at = "register"], u, ps)
  BY DEF TaskOK, Idle, TaskFields, Stops
<1>2. TaskOK(a, [Idle EXCEPT !.at = "not_present", !.poll = p], u, ps)
  BY DEF TaskOK, Idle, TaskFields, Stops
<1>3. TaskOK(a, [Idle EXCEPT !.at = "remove", !.member = m], u, ps)
  BY DEF TaskOK, Idle, TaskFields, Stops
<1>4. TaskOK(a, [Idle EXCEPT !.at = "removed"], u, ps)
  BY DEF TaskOK, Idle, TaskFields, Stops
<1> QED
  BY <1>1, <1>2, <1>3, <1>4

\* The root a proof is made against is one the tree has had.
LEMMA ProvingRootOK ==
  ASSUME PagesInv, NEW a \in Address, task[a].at = "credentials", NEW index,
         proving_root(a, index)
  PROVE  \E t : TaskBecomes(a, t) /\ TaskOK(a, t, tree[Dao], DOMAIN proposals[Dao])
<1> DEFINE at == IF task[a].what = "vote" /\ proposal_of(a).vote_mode = "Trailing"
                 THEN "root" ELSE "path"
           root == proposal_of(a).eligible_root
           t == [task[a] EXCEPT !.index = index, !.at = at, !.root = root]
<1>1. TaskOK(a, task[a], tree[Dao], DOMAIN proposals[Dao]) /\ DOMAIN task = Address
  BY DEF PagesInv
<1>2. task[a].poll \in DOMAIN proposals[Dao]
  BY <1>1 DEF TaskOK
<1>3. root \in DOMAIN tree[Dao].root_index
  BY <1>2 DEF PagesInv, SnapshotsKnown, proposal_of
<1>4. at \in {"root", "path"}
  OBVIOUS
<1>5. task' = [task EXCEPT ![a].index = index, ![a].at = at, ![a].root = root]
  BY DEF proving_root
<1> HIDE DEF at, root
<1>6. TaskBecomes(a, t)
  BY <1>1, <1>5 DEF TaskBecomes
<1>7. /\ DOMAIN t = TaskFields /\ t.at = at /\ t.root = root
      /\ t.poll = task[a].poll /\ t.what = task[a].what /\ t.choice = task[a].choice
  BY <1>1 DEF TaskOK, TaskFields
<1> HIDE DEF t
<1>8. TaskOK(a, t, tree[Dao], DOMAIN proposals[Dao])
  BY <1>1, <1>3, <1>4, <1>7 DEF TaskOK, Stops
<1> QED
  BY <1>6, <1>8

\* A registration that went through, or went through before, is known to the tree.
LEMMA RegistrationKnown ==
  ASSUME DOMAIN tree = DaoId, tree_initialized(Dao), TreeInv(tree[Dao]),
         NEW a \in Address, sendRegistration(a), NEW u, u = tree'[Dao]
  PROVE  \/ finish(a)
         \/ go_on(a, "leaf_index") /\ commitment_of(a) \in DOMAIN u.leaf_index
<1>0. Dao \in DaoId
  BY ClientAssumption
<1>1. CASE register_with_caller(Dao, commitment_of(a), a)
             \/ self_register(Dao, commitment_of(a), a)
  <2>1. tree' = [tree EXCEPT ![Dao] = registered(tree[Dao], commitment_of(a), a)]
    BY <1>1 DEF register_with_caller, self_register, register
  <2>2. u = registered(tree[Dao], commitment_of(a), a)
    BY <1>0, <2>1
  <2>3. DOMAIN tree[Dao] = TreeFields
    BY DEF TreeInv, TreeShape
  <2>4. Registration(tree[Dao], commitment_of(a), a, u)
    BY <2>2, <2>3, RegisteredFields
  <2>5. commitment_of(a) \in DOMAIN u.leaf_index
    BY <2>4 DEF Registration, put
  <2> QED
    BY <1>1, <2>5 DEF sendRegistration, answered, recover
<1>2. CASE UNCHANGED vars /\ recover(a)
  BY <1>2 DEF recover, commitment_exists, vars, lower_vars, tree_vars
<1> QED
  BY <1>1, <1>2 DEF sendRegistration

\* A vote sent, or refused, ends the handler.
LEMMA SubmitEnds ==
  ASSUME NEW a \in Address, submitVote(a)
  PROVE  finish(a)
BY DEF submitVote, answered

\* A page's step leaves the others' handlers alone and its own sound, over the tree
\* and the proposals as they are before it.
LEMMA MemberTaskStep ==
  ASSUME PagesInv, DOMAIN tree = DaoId, tree_initialized(Dao), TreeInv(tree[Dao]),
         NEW a \in Address, MemberStep(a),
         NEW u, u = tree'[Dao], NEW qs, Grows(tree[Dao], u), DOMAIN proposals[Dao] \subseteq qs
  PROVE  \E t : TaskBecomes(a, t) /\ TaskOK(a, t, u, qs)
<1> DEFINE v == tree[Dao]
           ps == DOMAIN proposals[Dao]
           Sound(w, rs) == \E t : TaskBecomes(a, t) /\ TaskOK(a, t, w, rs)
<1>1. TaskOK(a, task[a], v, ps) /\ DOMAIN task = Address
  BY DEF PagesInv
<1>2. Sound(v, ps) => Sound(u, qs)
  BY TaskKept
<1>3. UNCHANGED task => Sound(v, ps)
  BY <1>1, TaskMoves
<1>4. finish(a) => Sound(v, ps)
  BY <1>1, TaskMoves, IdleOK
<1>5. CASE UNCHANGED task
  BY <1>2, <1>3, <1>5
<1>6. CASE finish(a)
  BY <1>2, <1>4, <1>6
<1>7. CASE handleRegisterForVoting(a)
  <2>1. begin(a, [Idle EXCEPT !.at = "register"])
    BY <1>7 DEF handleRegisterForVoting
  <2> QED
    BY <1>1, <2>1, TaskMoves, SimpleTaskOK
<1>8. CASE sendRegistration(a)
  <2>1. CASE go_on(a, "leaf_index") /\ commitment_of(a) \in DOMAIN u.leaf_index
    <3> DEFINE t == [task[a] EXCEPT !.at = "leaf_index"]
    <3>1. TaskBecomes(a, t)
      BY <1>1, <2>1, TaskMoves
    <3>2. DOMAIN t = TaskFields /\ t.at = "leaf_index"
      BY <1>1 DEF TaskOK, TaskFields
    <3> HIDE DEF t
    <3>3. TaskOK(a, t, u, qs)
      BY <2>1, <3>2 DEF TaskOK, Stops
    <3> QED
      BY <3>1, <3>3
  <2>2. finish(a) \/ (go_on(a, "leaf_index") /\ commitment_of(a) \in DOMAIN u.leaf_index)
    BY <1>8, RegistrationKnown
  <2> QED
    BY <1>6, <2>1, <2>2
<1>9. CASE \E p \in ProposalId :
             handleSubmit(a, p) \/ \E choice \in Choice : handleVote(a, p, choice)
  <2>1. PICK p \in ps, choice \in BOOLEAN :
          \/ begin(a, [Idle EXCEPT !.at = "credentials", !.what = "vote", !.poll = p,
                                   !.choice = choice])
          \/ begin(a, [Idle EXCEPT !.at = "credentials", !.what = "comment", !.poll = p])
    BY <1>9, ClientAssumption DEF handleSubmit, handleVote, proposal_exists
  <2>2. Sound(v, ps)
    BY <1>1, <2>1, TaskMoves, BegunOK
  <2> QED
    BY <1>2, <2>2
<1>10. CASE loadCredentials(a)
  <2>1. finish(a) \/ (task[a].at = "credentials" /\ \E index : proving_root(a, index))
    BY <1>10 DEF loadCredentials
  <2>2. Sound(v, ps)
    BY <1>4, <2>1, ProvingRootOK
  <2> QED
    BY <1>2, <2>2
<1>11. CASE fetchCurrentRoot(a)
  <2> DEFINE root == current_root(v)
             t == [task[a] EXCEPT !.at = "path", !.root = root]
  <2>1. task[a].at = "root" /\ root \in DOMAIN v.root_index
    BY <1>11, CurrentRootFacts DEF fetchCurrentRoot
  <2>2. task' = [task EXCEPT ![a].at = "path", ![a].root = root]
    BY <1>11 DEF fetchCurrentRoot
  <2> HIDE DEF root
  <2>3. TaskBecomes(a, t)
    BY <1>1, <2>2 DEF TaskBecomes
  <2>4. /\ DOMAIN t = TaskFields /\ t.at = "path" /\ t.root = root
        /\ t.poll = task[a].poll /\ t.what = task[a].what /\ t.choice = task[a].choice
    BY <1>1 DEF TaskOK, TaskFields
  <2> HIDE DEF t
  <2>5. TaskOK(a, t, v, ps)
    BY <1>1, <2>1, <2>4 DEF TaskOK, Stops
  <2> QED
    BY <1>2, <2>3, <2>5
<1>12. CASE getMerklePath(a)
  <2>1. CASE go_on(a, "submit") /\ task[a].at = "path"
    <3> DEFINE t == [task[a] EXCEPT !.at = "submit"]
    <3>1. TaskBecomes(a, t)
      BY <1>1, <2>1, TaskMoves
    <3>2. /\ DOMAIN t = TaskFields /\ t.at = "submit" /\ t.root = task[a].root
          /\ t.poll = task[a].poll /\ t.what = task[a].what /\ t.choice = task[a].choice
      BY <1>1 DEF TaskOK, TaskFields
    <3> HIDE DEF t
    <3>3. TaskOK(a, t, v, ps)
      BY <1>1, <2>1, <3>2 DEF TaskOK, Stops
    <3> QED
      BY <1>2, <3>1, <3>3
  <2>2. CASE \E p : task' = [task EXCEPT ![a] = [Idle EXCEPT !.at = "not_present", !.poll = p]]
    <3>1. PICK p : TaskBecomes(a, [Idle EXCEPT !.at = "not_present", !.poll = p])
      BY <1>1, <2>2 DEF TaskBecomes
    <3> QED
      BY <3>1, SimpleTaskOK
  <2> QED
    BY <1>6, <1>12, <2>1, <2>2 DEF getMerklePath
<1>13. CASE removeFromTree(a)
  <2>1. CASE task' = [task EXCEPT ![a] = [Idle EXCEPT !.at = "removed"]]
    <3>1. TaskBecomes(a, [Idle EXCEPT !.at = "removed"])
      BY <1>1, <2>1 DEF TaskBecomes
    <3> QED
      BY <3>1, SimpleTaskOK
  <2> QED
    BY <1>6, <1>13, <2>1 DEF removeFromTree, answered
<1>14. CASE \E m \in Address : handleMintSBT(a, m) \/ handleRemoveMemberConfirm(a, m)
  <2>1. PICK m \in Address : \/ UNCHANGED task
                             \/ begin(a, [Idle EXCEPT !.at = "remove", !.member = m])
    BY <1>14 DEF handleMintSBT, handleRemoveMemberConfirm, client_vars, answered
  <2> QED
    BY <1>1, <1>5, <2>1, TaskMoves, SimpleTaskOK
<1>15. CASE call_fails(a) \/ storeRegistration(a) \/ submitComment(a)
  BY <1>6, <1>15 DEF call_fails, storeRegistration, submitComment
<1>16. CASE submitVote(a)
  BY <1>6, <1>16, SubmitEnds
<1>17. CASE \/ openPage(a) \/ checkRegistrationStatus(a) \/ expire(a)
            \/ handleJoinDao(a) \/ handleLeaveConfirm(a) \/ handleToggleMembership(a)
            \/ \E title \in Text, cid \in Cid \cup {0}, mode \in {"Fixed", "Trailing"} :
                 handleCreateProposal(a, title, cid, mode)
  BY <1>5, <1>17
  DEF openPage, checkRegistrationStatus, expire, handleJoinDao, handleLeaveConfirm,
      handleToggleMembership, handleCreateProposal, client_vars
<1> QED
  BY <1>7, <1>8, <1>9, <1>10, <1>11, <1>12, <1>13, <1>14, <1>15, <1>16, <1>17
  DEF MemberStep, TaskStep

\* What is cached is the index of the member's own commitment, as the tree has it.
LEMMA MemberCredentialStep ==
  ASSUME PagesInv, NEW a \in Address, MemberStep(a),
         NEW u, u = tree'[Dao], Grows(tree[Dao], u)
  PROVE  /\ DOMAIN credentials' = Address
         /\ \A b \in Address : CredentialOK(b, credentials'[b], u)
<1> DEFINE v == tree[Dao]
           own == v.leaf_index[commitment_of(a)]
<1>1. DOMAIN credentials = Address /\ \A b \in Address : CredentialOK(b, credentials[b], v)
  BY DEF PagesInv
<1>2. CASE UNCHANGED credentials
  BY <1>1, <1>2, CredentialKept
<1>3. CASE credentials' = [credentials EXCEPT ![a] = None]
  <2>1. \A b \in Address : CredentialOK(b, credentials'[b], v)
    BY <1>1, <1>3 DEF CredentialOK
  <2> QED
    BY <1>1, <1>3, <2>1, CredentialKept
<1>4. CASE storeZKCredentials(a, own) /\ commitment_of(a) \in DOMAIN v.leaf_index
  <2>1. credentials' = [credentials EXCEPT ![a] = own]
    BY <1>4 DEF storeZKCredentials
  <2>2. CredentialOK(a, own, v)
    BY <1>4 DEF CredentialOK
  <2>3. \A b \in Address : CredentialOK(b, credentials'[b], v)
    BY <1>1, <2>1, <2>2
  <2> QED
    BY <1>1, <2>1, <2>3, CredentialKept
<1>5. CASE storeRegistration(a)
  <2>1. TaskOK(a, task[a], v, DOMAIN proposals[Dao])
    BY DEF PagesInv
  <2> QED
    BY <1>4, <1>5, <2>1 DEF storeRegistration, TaskOK
<1>6. CASE loadCredentials(a)
  BY <1>2, <1>4, <1>6 DEF loadCredentials
<1>7. CASE expire(a)
  BY <1>3, <1>7 DEF expire
<1>8. CASE \/ openPage(a) \/ checkRegistrationStatus(a) \/ handleRegisterForVoting(a)
           \/ call_fails(a) \/ sendRegistration(a) \/ fetchCurrentRoot(a) \/ getMerklePath(a)
           \/ submitVote(a) \/ submitComment(a) \/ removeFromTree(a)
  BY <1>2, <1>8
  DEF openPage, checkRegistrationStatus, handleRegisterForVoting, call_fails, sendRegistration,
      fetchCurrentRoot, getMerklePath, submitVote, submitComment, removeFromTree
<1>9. CASE \E p \in ProposalId :
             handleSubmit(a, p) \/ \E choice \in Choice : handleVote(a, p, choice)
  BY <1>2, <1>9 DEF handleSubmit, handleVote
<1>10. CASE handleJoinDao(a) \/ handleLeaveConfirm(a) \/ handleToggleMembership(a)
  BY <1>2, <1>10 DEF handleJoinDao, handleLeaveConfirm, handleToggleMembership, client_vars
<1>11. CASE \E m \in Address : handleMintSBT(a, m) \/ handleRemoveMemberConfirm(a, m)
  BY <1>2, <1>11 DEF handleMintSBT, handleRemoveMemberConfirm, client_vars
<1>12. CASE \E title \in Text, cid \in Cid \cup {0}, mode \in {"Fixed", "Trailing"} :
              handleCreateProposal(a, title, cid, mode)
  BY <1>2, <1>12 DEF handleCreateProposal, client_vars
<1> QED
  BY <1>5, <1>6, <1>7, <1>8, <1>9, <1>10, <1>11, <1>12 DEF MemberStep, TaskStep

\* A page believes something definite, and failures are counted up to their bound.
LEMMA MemberPageStep ==
  ASSUME PagesInv, NEW a \in Address, MemberStep(a)
  PROVE  /\ DOMAIN page' = Address
         /\ \A b \in Address : PageOK(page'[b])
         /\ failures' \in 0 .. MaxFailures
<1> DEFINE PagesOK == DOMAIN page' = Address /\ \A b \in Address : PageOK(page'[b])
<1>1. DOMAIN page = Address /\ \A b \in Address : PageOK(page[b])
  BY DEF PagesInv
<1>2. failures \in 0 .. MaxFailures /\ MaxFailures \in Nat
  BY ClientAssumption DEF PagesInv
<1>3. UNCHANGED failures \/ fail => failures' \in 0 .. MaxFailures
  BY <1>2 DEF fail
<1>4. UNCHANGED page => PagesOK
  BY <1>1
<1>5. ASSUME NEW believed \in BOOLEAN
      PROVE  /\ page' = [page EXCEPT ![a].hasMembership = believed] => PagesOK
             /\ page' = [page EXCEPT ![a].isRegistered = believed] => PagesOK
  BY <1>1, <1>5 DEF PageOK
<1>6. CASE openPage(a)
  <2>1. /\ PageOK([hasMembership |-> has(Dao, a), isRegistered |-> credentials[a] # None])
        /\ page' = [page EXCEPT ![a] = [hasMembership |-> has(Dao, a),
                                        isRegistered  |-> credentials[a] # None]]
    BY <1>6 DEF openPage, PageOK, has
  <2> QED
    BY <1>1, <1>3, <1>6, <2>1 DEF openPage
<1>7. CASE checkRegistrationStatus(a)
  <2> DEFINE same == /\ credentials[a] # None
                     /\ commitment_of(a) \in DOMAIN tree[Dao].leaf_index
                     /\ tree[Dao].leaf_index[commitment_of(a)] = credentials[a]
  <2>1. /\ \/ page' = [page EXCEPT ![a].isRegistered = same]
           \/ page' = [page EXCEPT ![a].isRegistered = FALSE]
        /\ UNCHANGED failures \/ fail
    BY <1>7 DEF checkRegistrationStatus, answered
  <2>2. same \in BOOLEAN
    OBVIOUS
  <2> HIDE DEF same
  <2> QED
    BY <1>3, <1>5, <2>1, <2>2
<1>8. CASE storeRegistration(a)
  BY <1>3, <1>5, <1>8 DEF storeRegistration
<1>9. CASE handleJoinDao(a)
  BY <1>3, <1>4, <1>5, <1>9 DEF handleJoinDao, answered
<1>10. CASE \/ expire(a) \/ handleRegisterForVoting(a) \/ call_fails(a)
            \/ loadCredentials(a) \/ fetchCurrentRoot(a) \/ getMerklePath(a) \/ submitComment(a)
  BY <1>3, <1>4, <1>10
  DEF expire, handleRegisterForVoting, call_fails, loadCredentials, fetchCurrentRoot,
      getMerklePath, submitComment
<1>11. CASE sendRegistration(a)
  BY <1>3, <1>4, <1>11 DEF sendRegistration, answered
<1>12. CASE submitVote(a)
  BY <1>3, <1>4, <1>12 DEF submitVote, answered
<1>13. CASE removeFromTree(a)
  BY <1>3, <1>4, <1>13 DEF removeFromTree, answered
<1>14. CASE \E p \in ProposalId :
              handleSubmit(a, p) \/ \E choice \in Choice : handleVote(a, p, choice)
  BY <1>3, <1>4, <1>14 DEF handleSubmit, handleVote
<1>15. CASE handleLeaveConfirm(a) \/ handleToggleMembership(a)
  BY <1>3, <1>4, <1>15 DEF handleLeaveConfirm, handleToggleMembership, client_vars
<1>16. CASE \E m \in Address : handleMintSBT(a, m) \/ handleRemoveMemberConfirm(a, m)
  BY <1>3, <1>4, <1>16 DEF handleMintSBT, handleRemoveMemberConfirm, client_vars, answered
<1>17. CASE \E title \in Text, cid \in Cid \cup {0}, mode \in {"Fixed", "Trailing"} :
              handleCreateProposal(a, title, cid, mode)
  BY <1>3, <1>4, <1>17 DEF handleCreateProposal, client_vars
<1> QED
  BY <1>6, <1>7, <1>8, <1>9, <1>10, <1>11, <1>12, <1>13, <1>14, <1>15, <1>16, <1>17
  DEF MemberStep, TaskStep

(***************************************************************************)
(* The invariant of pages and ledger.                                      *)
(***************************************************************************)
ClientInv == ElectionInv /\ PagesInv

\* Nothing has been loaded.
LEMMA PagesInit ==
  ASSUME ClientInit
  PROVE  PagesInv
<1>1. ~dao_exists(Dao)
  <2>1. daos = << >> /\ Len(<< >>) = 0
    BY EmptySeq DEF ClientInit, Init, LowerInit, MembershipInit, RegistryInit
  <2> QED
    BY <2>1, ClientAssumption DEF dao_exists, DaoId
<1>2. DOMAIN proposals[Dao] = {}
  <2>1. proposals[Dao] = << >>
    BY ClientAssumption DEF ClientInit, Init, VotingInit
  <2> QED
    BY <2>1, EmptySeq
<1>3. SnapshotsKnown
  BY <1>2 DEF SnapshotsKnown
<1>4. \A a \in Address : task[a] = Idle /\ credentials[a] = None
  BY DEF ClientInit
<1>5. \A a \in Address : /\ TaskOK(a, task[a], tree[Dao], DOMAIN proposals[Dao])
                         /\ CredentialOK(a, credentials[a], tree[Dao])
  BY <1>4, IdleOK DEF CredentialOK
<1>6. /\ failures \in 0 .. MaxFailures
      /\ DOMAIN page = Address /\ DOMAIN task = Address /\ DOMAIN credentials = Address
      /\ \A a \in Address : PageOK(page[a])
  BY ClientAssumption DEF ClientInit, PageOK
<1> QED
  BY <1>1, <1>3, <1>4, <1>5, <1>6 DEF PagesInv

\* Snapshots stay known: the tree of a proposal exists, and keeps its roots' indices.
LEMMA SnapshotsStayKnown ==
  ASSUME VotingInv, ElectorateInv, TreesStep, ResultsStay, ProposalsBegin, SnapshotsKnown,
         tree_initialized(Dao) => TreeInv(tree[Dao])
  PROVE  SnapshotsKnown'
<1>0. Dao \in DaoId
  BY ClientAssumption
<1> SUFFICES ASSUME NEW p \in DOMAIN proposals'[Dao]
             PROVE  proposals'[Dao][p].eligible_root \in DOMAIN tree'[Dao].root_index
  BY DEF SnapshotsKnown
<1>1. MayBecome(tree[Dao], tree'[Dao])
  BY <1>0 DEF TreesStep
<1>2. CASE p \in DOMAIN proposals[Dao]
  <2>1. TreeInv(tree[Dao])
    BY <1>0, <1>2 DEF ElectorateInv, RollOK
  <2>2. Snapshot(proposals'[Dao][p]) = Snapshot(proposals[Dao][p])
    BY <1>0, <1>2 DEF ResultsStay
  <2>3. proposals'[Dao][p].eligible_root = proposals[Dao][p].eligible_root
    BY <2>2 DEF Snapshot
  <2> QED
    BY <1>1, <1>2, <2>1, <2>3, TreeEntriesStay DEF SnapshotsKnown, Grows
<1>3. CASE p \notin DOMAIN proposals[Dao]
  <2>1. /\ tree_initialized(Dao)
        /\ proposals'[Dao][p].eligible_root = current_root(tree[Dao])
    BY <1>0, <1>3 DEF ProposalsBegin
  <2> QED
    BY <1>1, <2>1, CurrentRootFacts, TreeEntriesStay DEF Grows
<1> QED
  BY <1>2, <1>3

\* What a DAO's creation does to the tree of Dao: nothing, or it is Dao that begins.
LEMMA CreateDaoTree ==
  ASSUME RegistryAndSbtInv, TreesOK, NEW form \in Form, handleCreateDao(form)
  PROVE  IF dao_exists(Dao) \/ ~dao_exists(Dao)'
         THEN (dao_exists(Dao) <=> dao_exists(Dao)') /\ (dao_exists(Dao) => tree'[Dao] = tree[Dao])
         ELSE tree'[Dao] = empty_tree(MaxTreeDepth) /\ MaxTreeDepth \in 1 .. MaxTreeDepth
<1>1. /\ tree' = [tree EXCEPT ![next_dao_id] = empty_tree(MaxTreeDepth)]
      /\ MaxTreeDepth \in 1 .. MaxTreeDepth
      /\ create_dao(form.name, form.creator, form.membership_open,
                    form.members_can_propose, None)
  BY DEF handleCreateDao, create_and_init_dao_no_reg, init_tree_from_registry
<1>2. /\ Dao \in DaoId /\ MaxDaos \in Nat /\ Len(daos) \in Nat /\ Len(daos') = Len(daos) + 1
      /\ DOMAIN tree = DaoId
  <2>1. PICK info : daos' = Append(daos, info)
    BY <1>1 DEF create_dao
  <2>2. daos \in Seq(DaoInfo)
    BY DEF RegistryAndSbtInv, RegistryTypeOK
  <2>3. IsSequence(daos)
    BY <2>2, SequenceOver
  <2>4. Len(daos) \in Nat /\ Len(daos') = Len(daos) + 1
    BY <2>1, <2>3, AppendSequence, SequenceDomain
  <2> QED
    BY <2>4, ClientAssumption, RegistryAssumption DEF TreesOK
<1>3. CASE Dao = next_dao_id
  <2>1. ~dao_exists(Dao) /\ dao_exists(Dao)'
    BY <1>2, <1>3 DEF dao_exists, next_dao_id, DaoId
  <2>2. tree'[Dao] = empty_tree(MaxTreeDepth)
    BY <1>1, <1>2, <1>3
  <2> QED
    BY <1>1, <2>1, <2>2
<1>4. CASE Dao # next_dao_id
  <2>1. dao_exists(Dao) <=> dao_exists(Dao)'
    BY <1>2, <1>4 DEF dao_exists, next_dao_id, DaoId
  <2>2. tree'[Dao] = tree[Dao]
    BY <1>1, <1>2, <1>4
  <2> QED
    BY <2>1, <2>2
<1> QED
  BY <1>3, <1>4

\* Creating a DAO leaves the pages alone; those of Dao begin with an empty tree.
LEMMA CreateDaoPages ==
  ASSUME RegistryAndSbtInv, TreesOK, PagesInv, NEW form \in Form, handleCreateDao(form),
         SnapshotsKnown', DOMAIN proposals[Dao] \subseteq DOMAIN proposals'[Dao]
  PROVE  PagesInv'
<1>1. UNCHANGED <<credentials, page, task, failures>>
  BY DEF handleCreateDao, client_vars
<1>2. CASE dao_exists(Dao)
  <2>1. dao_exists(Dao)' /\ tree'[Dao] = tree[Dao]
    BY <1>2, CreateDaoTree
  <2>2. Grows(tree[Dao], tree[Dao])
    BY DEF Grows
  <2>3. \A a \in Address : TaskOK(a, task[a], tree[Dao], DOMAIN proposals'[Dao])
    BY <2>2, TaskKept DEF PagesInv
  <2> QED
    BY <1>1, <1>2, <2>1, <2>3 DEF PagesInv, tree_initialized
<1>3. CASE ~dao_exists(Dao)
  <2>1. \A a \in Address : task[a] = Idle /\ credentials[a] = None
    BY <1>3 DEF PagesInv
  <2>2. \A a \in Address : /\ TaskOK(a, task[a], tree'[Dao], DOMAIN proposals'[Dao])
                           /\ CredentialOK(a, credentials[a], tree'[Dao])
    BY <2>1, IdleOK DEF CredentialOK
  <2>3. dao_exists(Dao)' => tree'[Dao] # NoTree /\ MembersOwnLeaf(tree'[Dao])
    <3> SUFFICES ASSUME dao_exists(Dao)'
                 PROVE  tree'[Dao] # NoTree /\ MembersOwnLeaf(tree'[Dao])
      OBVIOUS
    <3>1. tree'[Dao] = empty_tree(MaxTreeDepth) /\ MaxTreeDepth \in 1 .. MaxTreeDepth
      BY <1>3, CreateDaoTree
    <3>2. TreeInv(tree'[Dao]) /\ MayBecome(tree'[Dao], tree'[Dao])
      BY <3>1, EmptyTreeInv DEF MayBecome, Untouched
    <3>3. DOMAIN tree'[Dao].member_leaf_index = {}
      <4>1. empty_tree(MaxTreeDepth).member_leaf_index = << >>
        BY DEF empty_tree
      <4> QED
        BY <3>1, <4>1, EmptySeq
    <3> QED
      BY <3>2, <3>3, TreeGrows DEF MembersOwnLeaf
  <2> QED
    BY <1>1, <2>1, <2>2, <2>3 DEF PagesInv, tree_initialized
<1> QED
  BY <1>2, <1>3

\* A page's step keeps the invariant.
LEMMA MemberPages ==
  ASSUME RegistryAndSbtInv, TreesOK, VotingTypeOK, PagesInv, dao_exists(Dao), TreesStep,
         NEW a \in Address, MemberStep(a),
         SnapshotsKnown', DOMAIN proposals[Dao] \subseteq DOMAIN proposals'[Dao]
  PROVE  PagesInv'
<1>0. Dao \in DaoId /\ DOMAIN tree = DaoId /\ DOMAIN task = Address
  BY ClientAssumption DEF TreesOK, PagesInv
<1>1. tree_initialized(Dao) /\ MembersOwnLeaf(tree[Dao])
  BY DEF PagesInv
<1>2. TreeInv(tree[Dao]) /\ DOMAIN tree[Dao] = TreeFields
  BY <1>0, <1>1 DEF TreesOK, Trees, TreeInv, TreeShape
<1>3. MayBecome(tree[Dao], tree'[Dao])
  BY <1>0 DEF TreesStep
<1>4. Grows(tree[Dao], tree'[Dao]) /\ tree'[Dao] # NoTree
  BY <1>2, <1>3, TreeEntriesStay, TreeGrows
<1>5. PagesTreeStep(tree[Dao], tree'[Dao]) /\ dao_exists(Dao)'
  BY <1>0, MemberLedgerStep, LedgerStepTree
<1>6. MembersOwnLeaf(tree'[Dao])
  BY <1>1, <1>2, <1>5, MembersOwnLeafStep
<1>7. /\ DOMAIN credentials' = Address
      /\ \A b \in Address : CredentialOK(b, credentials'[b], tree'[Dao])
  BY <1>4, MemberCredentialStep
<1>8. /\ DOMAIN page' = Address
      /\ \A b \in Address : PageOK(page'[b])
      /\ failures' \in 0 .. MaxFailures
  BY MemberPageStep
<1>9. PICK t : TaskBecomes(a, t) /\ TaskOK(a, t, tree'[Dao], DOMAIN proposals'[Dao])
  BY <1>0, <1>1, <1>2, <1>4, MemberTaskStep
<1>10. /\ DOMAIN task' = Address
       /\ \A b \in Address : TaskOK(b, task'[b], tree'[Dao], DOMAIN proposals'[Dao])
  <2>1. \A b \in Address : TaskOK(b, task[b], tree'[Dao], DOMAIN proposals'[Dao])
    BY <1>4, TaskKept DEF PagesInv
  <2> QED
    BY <1>9, <2>1 DEF TaskBecomes
<1> QED
  BY <1>4, <1>5, <1>6, <1>7, <1>8, <1>10 DEF PagesInv, tree_initialized

\* Every step of pages and ledger is a step of the voting system.
LEMMA ClientStepIsNext ==
  ASSUME ClientInv, [ClientNext]_all_vars
  PROVE  [Next]_vars
<1>1. PagesInv /\ VotingTypeOK
  BY DEF ClientInv, ElectionInv, SystemInv, VotingInv
<1>2. CASE \E form \in Form : handleCreateDao(form)
  BY <1>2, CreateDaoIsNext
<1>3. CASE \E a \in Address : MemberStep(a)
  BY <1>1, <1>3, MemberLedgerStep, LedgerStepIsNext
<1>4. CASE UNCHANGED all_vars
  BY <1>4 DEF all_vars
<1> QED
  BY <1>2, <1>3, <1>4 DEF ClientNext

\* Nothing changes.
LEMMA PagesStutter ==
  ASSUME PagesInv, UNCHANGED all_vars
  PROVE  PagesInv'
<1>1. UNCHANGED <<credentials, page, task, failures, tree, proposals, daos>>
  BY DEF all_vars, client_vars, vars, lower_vars, voting_vars, tree_vars, registry_vars
<1> QED
  BY <1>1 DEF PagesInv, SnapshotsKnown, dao_exists, tree_initialized

\* Every step keeps the invariant.
LEMMA ClientNextInv ==
  ASSUME ClientInv, [ClientNext]_all_vars, ElectionInv'
  PROVE  ClientInv'
<1>1. /\ SystemInv /\ RegistryAndSbtInv /\ VotingInv /\ VotingTypeOK /\ TreesOK
      /\ ElectorateInv /\ PagesInv
  BY DEF ClientInv, ElectionInv, SystemInv, VotingInv
<1>2. TreesStep /\ ResultsStay /\ ProposalsBegin
  BY <1>1, ClientStepIsNext, ElectionNextFacts
<1>3. tree_initialized(Dao) => TreeInv(tree[Dao])
  BY <1>1, ClientAssumption DEF TreesOK, Trees
<1>4. SnapshotsKnown'
  BY <1>1, <1>2, <1>3, SnapshotsStayKnown DEF PagesInv
<1>5. DOMAIN proposals[Dao] \subseteq DOMAIN proposals'[Dao]
  BY <1>2, ClientAssumption DEF ResultsStay
<1>6. CASE \E form \in Form : handleCreateDao(form)
  BY <1>1, <1>4, <1>5, <1>6, CreateDaoPages DEF ClientInv
<1>7. CASE dao_exists(Dao) /\ \E a \in Address : MemberStep(a)
  BY <1>1, <1>2, <1>4, <1>5, <1>7, MemberPages DEF ClientInv
<1>8. CASE UNCHANGED all_vars
  BY <1>1, <1>8, PagesStutter DEF ClientInv
<1> QED
  BY <1>6, <1>7, <1>8 DEF ClientNext

(***************************************************************************)
(* The theorems.                                                           *)
(***************************************************************************)

\* The inductive invariant of pages and ledger together.
THEOREM ClientInvariant == ClientSpec => []ClientInv
<1>1. ClientInit => ClientInv
  <2>1. Init => ElectionInv
    BY SystemInitInv, TallyInitInv, TreesInit, ElectorateInit
    DEF Init, LowerInit, ElectionInv
  <2> QED
    BY <2>1, PagesInit DEF ClientInit, ClientInv
<1>2. ClientInv /\ [ClientNext]_all_vars => ClientInv'
  <2> SUFFICES ASSUME ClientInv, [ClientNext]_all_vars
               PROVE  ClientInv'
    OBVIOUS
  <2>1. ElectionInv /\ [Next]_vars
    BY ClientStepIsNext DEF ClientInv
  <2>2. ElectionInv'
    BY <2>1, ElectionStep
  <2> QED
    BY <2>2, ClientNextInv
<1> QED
  BY <1>1, <1>2, PTL DEF ClientSpec

\* Whatever the pages do is something the voting system allows: with members' pages in
\* place of arbitrary transactions every theorem about Voting holds.
THEOREM ClientImplementsVoting == ClientSpec => Spec
<1>1. ClientInit => Init
  BY DEF ClientInit
<1>2. ClientInv /\ [ClientNext]_all_vars => [Next]_vars
  BY ClientStepIsNext
<1> QED
  BY <1>1, <1>2, ClientInvariant, PTL DEF ClientSpec, Spec

\* Pages keep their types, and a leaf index in localStorage is always the one the tree
\* has for the member's own commitment, so that no proof is made from another's path.
THEOREM ClientTypeCorrect == ClientSpec => []ClientTypeOK
<1>1. ClientInv => ClientTypeOK
  BY DEF ClientInv, PagesInv, ClientTypeOK, TaskOK, Stops, CredentialOK, PageOK
<1> QED
  BY <1>1, ClientInvariant, PTL

(***************************************************************************)
(* Removal.  The page's claim needs that the leaf remove_member zeroes is   *)
(* the only one that could hold the member's commitment: the leaf of a      *)
(* commitment is its index (LeavesOK), and the member's own leaf is the one *)
(* of its own commitment (MembersOwnLeaf).                                  *)
(***************************************************************************)

\* "removed" is only reached by the transaction that removes.
LEMMA OnlyRemovalRemoves ==
  ASSUME PagesInv, NEW b \in Address, MemberStep(b), NEW a \in Address,
         task[a].at = "remove", task'[a].at = "removed"
  PROVE  remove_member(Dao, task[a].member, a)
<1>1. DOMAIN task = Address /\ DOMAIN task[b] = TaskFields
  BY DEF PagesInv, TaskOK
<1>2. ASSUME task'[a] = task[a] \/ task'[a] = Idle
      PROVE  FALSE
  BY <1>2 DEF Idle
<1>3. ASSUME NEW t, TaskBecomes(b, t), a # b
      PROVE  FALSE
  BY <1>2, <1>3 DEF TaskBecomes
<1>4. Resting(b) => a # b
  BY DEF Resting
<1>5. ASSUME NEW t, begin(b, t)
      PROVE  FALSE
  BY <1>1, <1>3, <1>4, <1>5, TaskMoves DEF begin
<1>6. ASSUME finish(b)
      PROVE  FALSE
  BY <1>1, <1>2, <1>3, <1>6, TaskMoves DEF TaskBecomes
<1>7. ASSUME NEW at, go_on(b, at), task[b].at # "remove"
      PROVE  FALSE
  BY <1>1, <1>3, <1>7, TaskMoves
<1>8. ASSUME UNCHANGED task
      PROVE  FALSE
  BY <1>2, <1>8
<1>9. CASE removeFromTree(b)
  <2>1. a = b \/ (TaskBecomes(b, [Idle EXCEPT !.at = "removed"]) /\ a # b)
    BY <1>1, <1>6, <1>9 DEF removeFromTree, answered, TaskBecomes
  <2> QED
    BY <1>3, <1>6, <1>9, <2>1 DEF removeFromTree
<1>10. CASE loadCredentials(b)
  <2>1. task[b].at = "credentials" /\ \E index : proving_root(b, index)
    BY <1>6, <1>10 DEF loadCredentials
  <2>2. PICK t : TaskBecomes(b, t)
    BY <2>1, ProvingRootOK
  <2> QED
    BY <1>3, <2>1, <2>2
<1>11. CASE fetchCurrentRoot(b)
  <2>1. task[b].at = "root" /\ \E t : TaskBecomes(b, t)
    BY <1>1, <1>11 DEF fetchCurrentRoot, TaskBecomes
  <2> QED
    BY <1>3, <2>1
<1>12. CASE getMerklePath(b)
  <2>1. task[b].at = "path" /\ \E t : TaskBecomes(b, t)
    <3>1. \/ finish(b) \/ go_on(b, "submit")
          \/ \E t : task' = [task EXCEPT ![b] = t]
      BY <1>12 DEF getMerklePath
    <3> QED
      BY <1>1, <1>12, <3>1, TaskMoves DEF TaskBecomes, getMerklePath
  <2> QED
    BY <1>3, <2>1
<1>13. CASE sendRegistration(b)
  BY <1>6, <1>7, <1>13 DEF sendRegistration, answered, recover
<1>14. CASE call_fails(b) \/ storeRegistration(b) \/ submitComment(b)
  BY <1>6, <1>14 DEF call_fails, storeRegistration, submitComment
<1>15. CASE submitVote(b)
  BY <1>6, <1>15, SubmitEnds
<1>16. CASE handleRegisterForVoting(b)
  BY <1>5, <1>16 DEF handleRegisterForVoting
<1>17. CASE \E p \in ProposalId :
              handleSubmit(b, p) \/ \E choice \in Choice : handleVote(b, p, choice)
  BY <1>5, <1>17 DEF handleSubmit, handleVote
<1>18. CASE \E m \in Address : handleMintSBT(b, m) \/ handleRemoveMemberConfirm(b, m)
  BY <1>5, <1>8, <1>18 DEF handleMintSBT, handleRemoveMemberConfirm, client_vars, answered
<1>19. CASE \/ openPage(b) \/ checkRegistrationStatus(b) \/ expire(b)
            \/ handleJoinDao(b) \/ handleLeaveConfirm(b) \/ handleToggleMembership(b)
            \/ \E title \in Text, cid \in Cid \cup {0}, mode \in {"Fixed", "Trailing"} :
                 handleCreateProposal(b, title, cid, mode)
  BY <1>8, <1>19
  DEF openPage, checkRegistrationStatus, expire, handleJoinDao, handleLeaveConfirm,
      handleToggleMembership, handleCreateProposal, client_vars
<1> QED
  BY <1>9, <1>10, <1>11, <1>12, <1>13, <1>14, <1>15, <1>16, <1>17, <1>18, <1>19
  DEF MemberStep, TaskStep

\* A removal zeroes the leaf of the member's own commitment, and no other holds it.
LEMMA RemovedIsGone ==
  ASSUME NEW t, TreeInv(t), MembersOwnLeaf(t), NEW m \in DOMAIN t.member_leaf_index,
         commitment_of(m) # Zero, NEW u, u = removed(t, t.member_leaf_index[m])
  PROVE  \A i \in DOMAIN u.leaf_value : u.leaf_value[i] # commitment_of(m)
<1> DEFINE j == t.member_leaf_index[m]
<1>1. DOMAIN t = TreeFields /\ LeavesOK(t) /\ t.leaf_value \in [Positions(t.depth) -> LeafValues]
  BY DEF TreeInv, TreeShape, TreeOK
<1>2. u.leaf_value = [t.leaf_value EXCEPT ![j] = Zero]
  <2> HIDE DEF j
  <2>1. Removal(t, j, u)
    BY <1>1, RemovedFields DEF j
  <2> QED
    BY <2>1 DEF Removal
<1>3. t.leaf_index[commitment_of(m)] = j
  BY DEF MembersOwnLeaf
<1>4. \A i \in Positions(t.depth) : t.leaf_value[i] = commitment_of(m) => i = j
  BY <1>1, <1>3 DEF LeavesOK
<1> HIDE DEF j
<1> QED
  BY <1>1, <1>2, <1>4

\* When the page says that a member was removed, the token is revoked and the leaf is
\* gone, whatever happened between the two transactions.
THEOREM RemovalTakesBothAlways == ClientSpec => RemovalTakesBoth
<1> DEFINE Taken == \A a, m \in Address :
                      /\ task[a].at = "remove" /\ task[a].member = m
                      /\ task'[a].at = "removed"
                      => ~has(Dao, m)' /\ ~live(m)'
<1>1. ClientInv /\ [ClientNext]_all_vars => Taken
  <2> SUFFICES ASSUME ClientInv, [ClientNext]_all_vars, NEW a \in Address, NEW m \in Address,
                      task[a].at = "remove", task[a].member = m, task'[a].at = "removed"
               PROVE  ~has(Dao, m)' /\ ~live(m)'
    OBVIOUS
  <2>1. PagesInv /\ TreesOK /\ RegistryAndSbtInv
    BY DEF ClientInv, ElectionInv, SystemInv
  <2>2. dao_exists(Dao) /\ \E b \in Address : MemberStep(b)
    <3>1. task' # task
      OBVIOUS
    <3>2. ~UNCHANGED all_vars
      BY <3>1 DEF all_vars, client_vars
    <3>3. ~\E form \in Form : handleCreateDao(form)
      BY <3>1 DEF handleCreateDao, client_vars
    <3> QED
      BY <3>2, <3>3 DEF ClientNext
  <2>3. remove_member(Dao, m, a)
    BY <2>1, <2>2, OnlyRemovalRemoves
  <2>4. ~has(Dao, m)'
    <3>1. revoked' = [revoked EXCEPT ![Dao] = @ \cup {m}]
      BY <2>3 DEF remove_member, revoke, set_revoked
    <3>2. DOMAIN revoked = DaoId /\ Dao \in DaoId
      BY <2>1, ClientAssumption DEF RegistryAndSbtInv, SbtInv, TokenTypeOK
    <3>3. m \in revoked'[Dao]
      BY <3>1, <3>2
    <3> QED
      BY <3>3 DEF has
  <2>5. ~live(m)'
    <3>1. /\ m \in DOMAIN tree[Dao].member_leaf_index
          /\ tree' = [tree EXCEPT ![Dao] = removed(tree[Dao], tree[Dao].member_leaf_index[m])]
      BY <2>3 DEF remove_member, removed
    <3>2. /\ TreeInv(tree[Dao]) /\ MembersOwnLeaf(tree[Dao]) /\ commitment_of(m) # Zero
          /\ Dao \in DaoId /\ DOMAIN tree = DaoId
      BY <2>1, <2>2, ClientAssumption DEF PagesInv, TreesOK, Trees
    <3>3. tree'[Dao] = removed(tree[Dao], tree[Dao].member_leaf_index[m])
      BY <3>1, <3>2
    <3>4. \A i \in DOMAIN tree'[Dao].leaf_value : tree'[Dao].leaf_value[i] # commitment_of(m)
      BY <3>1, <3>2, <3>3, RemovedIsGone
    <3> QED
      BY <3>4 DEF live, is_live
  <2> QED
    BY <2>4, <2>5
<1> QED
  BY <1>1, ClientInvariant, PTL DEF ClientSpec, RemovalTakesBoth
=============================================================================
