# ZKVote: a TLA+ model of anonymous DAO voting

This directory models the protocol of ZKVote, an anonymous voting system for
DAOs on Soroban: five Rust contracts, a zero-knowledge circuit, a relaying and
indexing backend and a browser client. The modules are translated from the
source; `PROJECT.json` maps every definition to the lines it stands for.

## The system

| Component | State | Operations | Who calls whom |
|---|---|---|---|
| `contracts/dao-registry` | one `DaoInfo` per DAO, a counter | create, transfer admin, set name / CID / open / proposal mode, one-transaction DAO creation | called by all other contracts for `get_admin`, `dao_exists`, ...; its `create_and_init_*` calls token, tree and voting |
| `contracts/membership-sbt` | Member and Revoked flags, aliases, the enumeration list | mint, mint_from_registry, revoke, leave, self_join, update_alias | called by tree, voting, comments for `has`, by tree for `revoke` |
| `contracts/membership-tree` | incremental Merkle tree per DAO: filled subtrees, nodes, leaves, a FIFO of 30 roots, root indices, the smallest index valid after a removal | init_tree, register_with_caller, self_register, remove_member, reinstate_member; init_tree_from_registry, register_from_registry | called by voting and comments for `root_ok`, `root_idx`, `min_root`, `current_root` |
| `contracts/voting` | proposals, nullifiers, versioned verification keys | set_vk, set_vk_from_registry, create_proposal(_with_vk_version), vote, close, archive | called by comments for proposal eligibility and the key |
| `contracts/comments` | comments per proposal | add / edit / delete, public and anonymous; admin delete | |
| `contracts/zkvote-groth16`, `circuits/*.circom` | none | field checks, Groth16 verification; the relation the proof is about | linked into voting and comments |
| `backend/src/services/indexer.ts`, `db.ts` | SQLite events, `lastLedger` cursor | poll, notify, verify pending, manual and synthetic rows, migrate a JSON file, start, stop | asks the RPC node; called by the REST routes and the sync |
| `backend/src/services/sync.ts`, `routes/daos.ts` | the `daos` table, member and admin caches | periodic and triggered sync | RPC node; started by timers and REST routes |
| `backend/src/routes/voting.ts`, `comments.ts`, `services/stellar.ts` | relayer account's sequence number | read account, simulate, send, wait | called by `relayerFetch`; RPC node |
| `frontend/src/lib/api.ts` | connection state, backoff | try, time out, retry, check health | relayer |
| `frontend/src` (`VoteModal.tsx`, `CommentForm.tsx`, `lib/zk.ts`, `lib/merkletree.ts`) | cached credentials and leaf index | derive credentials, read root and path, prove, submit | contracts, relayer |
| `frontend/src/components` (pages) | what a page believes of its member | create, join, leave, register, mint, remove, settings, propose | contracts, signed by the wallet |

What is hard about it: every contract call is an atomic transaction, but any
address may interleave any transaction with any other, and three contracts keep
overlapping facts (a member's token, leaf and commitment; a root and its index;
a proposal's snapshot). Roots are evicted, recur and are invalidated by
removals. The verifier reduces numbers modulo the field order and storage does
not. Off chain, reads of several contracts are not atomic, polling loses or
repeats events, and requests time out while their transactions succeed.

What makes each component correct:

* token: permanent entries, a list that names those who have one and nobody else, and
  that does not grow when a token is given back;
* tree: a leaf belongs to one member; roots vouch only for registered
  commitments; the current root is always the newest; removal takes effect;
* voting: one ballot per identity, an exact tally, a fixed electorate where one
  was promised, a key and a snapshot that never move, final results;
* comments: replies form trees, only the author edits, deletion is final, and
  commenting is open to exactly the roots that voting is;
* indexer: a verified row's transaction succeeded, a restart loses nothing and
  repeats nothing, and what a client announces settles;
* sync: a cached member list has no holes, whatever page failed, and the caches come
  to agree with the contracts;
* relayer: success is shown only for a vote that was counted, every call ends, and a
  voter who keeps trying is counted, though all handlers share one account;
* client: the cached leaf index is the member's own, a registration whose answer got
  lost is taken up, a removal that is reported took both its effects, and a live
  member gets a Trailing vote through between other members' registrations.

## The modules

* `DaoRegistry` - `daos`, one action per entry point. A panic rolls a
  transaction back, so an entry point is an action whose guard is the
  conjunction of its checks; `require_auth` is the address parameter, and an
  entry point without it is open to everybody, whatever its comment says of the caller
  (`mint_from_registry`, `init_tree_from_registry`, `register_from_registry`,
  `set_vk_from_registry`: a transaction of their own, for any id, besides their part in
  the creation of a DAO).
* `MembershipSbt` (extends it) - `members`, `revoked`, `member_list`, `alias`.
  `grant` is what `mint` and `self_join` share.
* `MembershipTree` (extends it) - `tree[d]`, a record with one field per storage
  key. A node's hash is the vector of leaves below it: `hash_pair` is
  concatenation. For a collision-free hash nothing is lost, and a root shows
  which commitments it vouches for. `insert_leaf`, `update_leaf` and
  `get_merkle_path` are the contract's three algorithms, each with the caches it
  reads and writes; `fold_path` and `Included` are the circuit's side. Their loops
  over levels are recursive functions: `ancestors` (the node above a leaf at each
  level), `insertion_path` and `path_hashes` (the hashes each loop computes on its way
  up), `capacity` (2^k); `put` is a write of one storage key.
  `registrant` is a history variable: who registered a commitment.
* `Voting` (extends it) - `proposals`, `nullifiers`, `vks`, ledger time `now`, and
  the history `ballots` of accepted votes with the witness behind each. Its `Next`
  is the whole voting system: any transaction of any layer, the one-transaction
  DAO creation, and time. A proof is a record of the key it was made for and the
  leaf whose secret its prover knows; `verify_groth16` is the circuit's relation
  with the nullifier reduced modulo `FieldModulus`.
* `Election` - what voting promises, without trees, proofs or keys: a poll with an
  electoral roll, one vote per voter, a tally. `Voting` instantiates it with a
  refinement mapping (`Promise`): polls are proposals, voters are identity
  secrets, the roll of a Fixed proposal is its snapshot, everybody may be on a
  Trailing one's.
* `Comments` (extends `Voting`) - `comments`, and the history `hands` of who
  wrote, edited or withdrew each. It has the contract's own copy of the root
  check. Edits and deletes accept a proof for any root: `own_root`.
* `EventIndexer` - apart from the contracts: `rows` and `cursor` are the database,
  `pc` and the locals the indexer's one chain of awaits, each await a step;
  `ledger`, `included`, `failed` the chain as the RPC node reports it, possibly
  late. `notifyEvent` is the route, running between any two steps, and `Crash` the
  end of the process, of which only the database remains. `addManualEvent` and
  `ensureDaoCreateEvent` are the other writers of rows; `migrateFromJson` takes an
  older version's file (`json`) over at a start, and repeats it when the rename after
  it did not happen. `missed` is a history variable: events that a failing call or a
  full page left out.
* `DaoSync` (extends `MembershipSbt`, the two contracts it copies) - `daos_table` and
  `daosSyncTime` are the database, `daoMembersCache` and `daoAdminsCache` the memory;
  each `sync[s]` and `scan[m]` is one run of `syncDaosFromContract` or
  `syncAllMemberships` with its locals, and several run at once because timers and
  routes start them without looking. `DaoInfo` has no `creator` and no
  `member_count`, which the sync asks for by name: `field` gives the defaults, so that
  the admin cache stays empty and `role` never says "admin".
* `Relayer` - a vote from `VoteModal` to the ledger. `modal[c]` is the browser's call
  with its attempt, `handler[h]` a run of `POST /vote` with the sequence number it has
  read (`current`: still unused), `mempool` the account's one pending transaction. A
  handler goes on after its browser gave up, and a transaction after its handler did.
* `MemberClient` (extends `Voting`) - the pages in place of `Voting`'s arbitrary
  transactions: `task[a]` is the handler a's page is running and its locals, `page[a]`
  the flags its buttons ask, `credentials[a]` what `localStorage` holds. A handler of
  several awaits is several actions; a transaction's answer may get lost (`answered`).
* `MCTree`, `MCVoting`, `MCComments`, `MCIndexer`, `MCSync`, `MCRelayer`, `MCClient` -
  the instances TLC checks.
* `MembershipProofs`, `TreeProofs`, `VotingProofs`, each extending the one before it,
  `CommentsProofs` and `ClientProofs`, which extend the last, `SyncProofs`, which extends
  the first, `RelayerProofs` and `IndexerProofs` - theorems.

Abstractions: strings are their lengths (the code only compares lengths);
timestamps no check reads are left out; storage TTL and resource budgets are not
modelled. Not modelled at all: point arithmetic, paging of getters, events.

## The runs

Every bound is a constant: `MaxDaos`, `MaxListed` (a DAO's list, as `mint_from_registry`
fills it), `MaxRoots` (roots pushed per tree), `MaxProposals`, `MaxVks`, `MaxTime`, `MaxComments`, `MaxLedger`, `MaxNotified`,
`MaxCrashes`, `Manual`, `Sync`, `Scan`, `MaxChanges`, `MaxFailures`, `MaxRestarts`,
`Handler`, `MaxOthers`, next to the code's own `MaxTreeDepth`, `MaxRootHistory`,
`MAX_REVISIONS`, `PageLimit`, `VerifyLimit`, `BATCH_SIZE`, `MaxRetries`, which the
runs make small so that they are reached.

| Run | Instance | What it shows |
|---|---|---|
| `tree` | 2 members with an alias, names at and over the limit, 4 commitments and the zero leaf, depths 0 to 3 tried (1 and 2 allowed), history 3, 6 roots, lists of up to 3 | the token's list and entries through every order of mint, revoke, leave, join, also before the DAO exists; leaf ownership, roots, indices, paths, removal; eviction and a recurring root both happen |
| `voting` | 2 members, 3 commitments of 2 identities, 2 leaves, history 2, 4 roots, field of 3 with nullifiers up to 4, 2 proposals, 2 valid keys and an invalid one, 2 ticks of time | double votes (also by n + r), Fixed electorates, Trailing eligibility, deadlines, closing, archiving, key rotation, refinement of `Election` |
| `comments` | 2 members of 2 identities, 2 comments, 1 revision kept | threads, authorship, deletion, root eligibility |
| `indexer` | 2 contracts, 2 transactions, 3 events, 2 ledgers, with and without an older file, 1 manual hash, pages and rounds of 1, 1 death of the process | verified rows' transactions succeeded, restarts lose nothing, pending rows settle |
| `sync` | 2 DAOs (1 at the start), 2 accounts, 2 syncs and a scan at once, pages of 1, 2 transactions, 1 failing call, 1 restart | cached lists have no holes, caches catch up |
| `relayer` | 1 voter, 2 handlers at once, 2 attempts, 1 transaction of another request | success is true, calls end, the voter is counted |
| `client` | 2 members, a tree of 2 leaves, history 2, 4 roots, 1 proposal, 1 failing call or lost answer | credentials, removal, registration, Trailing votes |
| `stale_path` | as `tree`, depth 2, 4 roots | disagreement 1 below |
| `trailing_removal` | as `voting` | disagreement 2 |
| `snapshot` | as `client`, without fairness | disagreement 3 |
| `pending` | as `indexer`, 1 ledger, no crash, no older file | disagreement 4 |
| `notified` | as `indexer`, without fairness | disagreement 5 |

The `tree` run explores the registry, the token and the tree: what anybody may do to an
id before its DAO exists, every setting, every admin. Aliases and addresses listed
twice occur there before there is a tree, which reads neither (`Apart`). The `voting` run
starts from what that leaves (`Settings`): a DAO created whole on an id nobody used,
open, whose members may propose, whose first member is the admin and whose list names
nobody twice. Everybody may still register a commitment or set a key. Its instance is
two (`Instance`): the members change around one proposal under one key (`OnePoll`), or
keys and time change around two proposals of a DAO with one member (`OneMember`), the
second of one mode and deadline. An operation reads one proposal and one tree, and
nothing of the tree depends on keys or time. (`Apart` is a constraint on the
states explored, `Instance` one on the steps of the run's specification, `MCSpec`.)

Two leaves are enough for siblings on both sides, depth 2 (in `tree`) for inner nodes;
two identities and two leaves of one identity are what a double vote needs; a history
of two or three is evicted from within the bounds. The field of 3 has the numbers 1 and
2 for two identities, and a nullifier n is also offered as n + 3 (the 4 is 1's) or as 0.
The `comments` run adds that votes are not cast (no comment reads them), that one comment
per thread is changed, and that a thread is full only while nobody is removed
(`ShortAfterRemoval`): the combinations left out repeat those explored. Symmetry is over
addresses, commitments of equal secrets and keys.

In `indexer`, pages and rounds of one are full as soon as there are two events or
two pending rows; one death, at any await, meets every state of cursor and table,
and what a second one meets is again such a state.

In `sync`, pages of one are all full but the last, two syncs overlap in every order,
and the only transactions of the registry are a second DAO and the opening or closing
of the first (`MCChange`), which is what a row can be out of date about. In `relayer`
one voter is enough: another voter's transaction is to it what `other_request` is, a
use of the sequence number, and its own earlier attempts are the handlers it competes
with. In `client` the two members' registrations are each other's interference; a
third would repeat it.

The model of the contracts alone is of safety: who sends a transaction, and whether
anyone does, is up to the users, so no fairness is assumed and no liveness claimed of
the contracts. What progress needs is stated as safety instead:
`TrailingStaysVotable` says that an up-to-date proof is never refused. Deadlock
checking is on in every run; users may always change a setting.

`EventIndexer` has liveness. `Fairness` says that the process goes on (its event
loop runs the next continuation and its timer fires; it is started again after a
death) and that each call of the node returns or fails; both are `WF`. `SF` of
`getTransaction(tx)` says that a transaction asked for again and again is answered
for in the end, which is what a node that lags but is up gives within the time it
keeps transactions. Without it `PendingSettles` would only say that a failing node
goes on failing. The chain need not advance, and clients need not announce.

`DaoSync`'s `Fairness`: the process is started again, the timers go on firing (`SF` of
`syncAllMemberships`, because a scan that a notification starts may hold its slot in
the model when the timer would fire) and every call to the node settles, if only by
`callWithTimeout`. `CachesCatchUp` needs no more: the bounds on transactions and
failures say "once they stop".

`Relayer` keeps two things apart. `CodeFairness` is the code's: timers run out and
awaited calls settle; `EveryCallSettles` needs only that. `Perseverance` is an
assumption about the voter and the network: the voter submits again, and calls and
transactions that are tried again and again do not fail each time. It is what
`EveryVoterIsCounted` is conditional on, and what it leaves to be shown is that retries
of one vote and the requests of others cannot keep refusing each other for ever.

`MemberClient`'s `ClientFairness`: awaited calls settle (`WF` of `TaskStep`), and a
voter loads the page when it is out of date, registers and votes when the page lets
him (`SF`, because other tasks of the same page come in between). `RegistrationSettles`
ends early when the member is out of the DAO or the tree is full, `TrailingVoterVotes` when
he is, or when anybody was ever removed from the tree: after a removal served paths
stop leading to the root (disagreement 1), and no perseverance helps.

### What disagrees with the code's own comments and messages

1. `stale_path`: `get_merkle_path` "reads stored node hashes directly [...] instead of
   reconstructing subtrees" and `pathElements[i]` "is the sibling hash at level i"
   (`membership-tree/src/lib.rs:598`). `insert_leaf` takes left siblings from
   `FilledSubtrees`, which `update_leaf` does not maintain: register a, remove a,
   register b, and the new root contains a again, while the nodes served do not. The
   new member's path does not lead to the current root, and `remove_member`'s "zeros
   the leaf in the Merkle tree, preventing proofs against new roots" (line 681) does
   not hold.
2. `trailing_removal`: the check against `min_root` "ensures revoked members
   cannot vote even on old proposals" (`voting/src/lib.rs:679`). The new root of 1
   is newer than the removal, so a's vote on a Trailing proposal counts.
3. `snapshot`: "You joined the DAO after this proposal was created. Only members who
   were present when the proposal was created can vote on it" (`VoteModal.tsx:250`).
   The dialog proves a path of the current tree against the snapshot root, so that any
   registration after the proposal's creation has this said to members of the snapshot,
   who cannot vote any more from this client. The contract would accept a proof made
   from the snapshot's tree, but nothing serves paths of an earlier tree.
4. `pending`: a notification "is stored as pending and verified against the chain"
   (`indexer.ts:400`). A round looks at the oldest pending rows up to a limit
   (`getUnverifiedEvents`, `db.ts:373`), and a row whose transaction is never found
   stays pending for ever: ten of them and no later notification is looked at.
5. `notified`: "The relayer will verify the event on-chain before trusting it"
   (`frontend/src/lib/api.ts:210`). `verifyEventOnChain` asks whether the announced
   transaction succeeded, and marks every row with its hash; it does not read what the
   transaction emitted, and compares neither DAO, type nor data with it. What it
   verifies need not have happened as an event: the page announces
   `membership_mode_changed`, and `set_membership_open` emits none.

Seen while modelling, and not a run's question. The `*_from_registry` entry points are
"called by the registry contract" (`membership-sbt/src/lib.rs:165`) and the registry "is
trusted to have already verified SBT ownership" (`membership-tree/src/lib.rs:273`), but
nothing checks who calls. So `mint_from_registry` lists an address again that left or was
revoked, which stays revoked (that an address is listed once is therefore no property
here); a commitment may be registered for an address without a token, or for one that
would have registered another; a tree or a token may exist under an id before the DAO,
whose creation in one transaction then fails if it needs to make them; and the key new
proposals use may be anybody's. `validate_vk` looks at the shape of a key only
(`VoteCircuitVk`), and the model takes a key of the right shape to be one of the vote
circuit: `OneBallotPerSecret` and the other properties of voting rest on that.

Also: a member who voted, was removed,
reinstated and minted again can register a commitment of another secret and vote on
the same Trailing proposal again, although the dialog says "Each member can only vote
once per proposal." (what holds is one ballot per secret); a member who leaves without the admin's
`remove_member` stays a live leaf; after a removal and a new mint the page takes
"commitment exists" for a successful recovery and shows the member as registered,
though the leaf is zero; `CommentForm` proves against the eligible root even on
Trailing proposals, so later members cannot comment anonymously; the frontend's
notification types are none of those that trigger a membership scan; an admin is
offered the delete button on others' comments, which calls `delete_comment` and is
refused (`Comment.tsx:113`).

`PendingSettles`, which holds, has that as one exception. The other is in the table's
key: `UNIQUE(dao_id, ledger, tx_hash, type)` does not apply while `ledger` is NULL,
so a notification repeated, or announced under the type of the polled event, is a
second row, and the `UPDATE` that would verify it breaks the constraint.
`NothingLostByRestart` excepts the events in `missed`: the code advances its cursor
over them and never asks again.

## What is proved

Every invariant and every action property that a passing run checks is a theorem too,
and so is the refinement of `Election`: they hold for any number of DAOs, addresses,
commitments, proposals, transactions and steps, trees of any depth, and histories,
pages, rounds and retries of any size. The runs' liveness properties and the five
disagreements stay with TLC.

The named assumptions are the only ones: strings have lengths and limits are numbers
(`RegistryAssumption`, `SbtAssumption`, `TreeAssumption`); `None` is nobody's name; every
commitment has a secret, and a nullifier is a number in 1 .. r - 1 (`VotingAssumption`);
no two secrets share one (`CommentsAssumption`); every wallet derives a commitment that is not
the zero leaf, and nullifiers fit in a U256 (`ClientAssumption`); a handler serves one
browser (`RelayerAssumption`); batches are not empty (`SyncAssumption`); a transaction
emits at most one event of a kind in a DAO, there are finitely many events, hashes made
up by the backend are of no transaction, and an older version's file ends at a ledger of
the chain (`IndexerAssumption`).

* `MembershipProofs`: types, `ListFollowsEntriesAlways`, `EntriesArePermanentAlways`
  for the token over the registry. `SbtInv` adds `FlagsNeedEntry`: who is revoked or has
  an alias has an entry. That is why `mint` and `self_join` may recognise a returning
  member by the entry, and why the list, which enumerates the entries, need not grow for
  one. `mint_from_registry` asks for neither and clears no flag.
* `TreeProofs`: all of `tree`'s properties. None of them is inductive, because the new root
  is computed from caches that earlier operations left. `HashesCover(t, May)` says of
  every hash an operation may read (stored nodes, the left siblings kept for the next
  insertion, the root) that at each leaf position it has a value out of `May`, and
  `insert_leaf` and `update_leaf` preserve it level by level for any `May` that allows
  what they write. `TreeInv` has it three times, once for each strength that survives:
  roots of the history only hold what was registered (`Registered`:
  `RootsVouchForRegistered`); current hashes hold live leaves where they are and at
  worst a stale commitment where a leaf was zeroed (`LiveOrRegistered`:
  `LiveLeavesInCurrentRoot`, in spite of disagreement 1); and until the first removal
  they hold the stored leaves exactly (`Stored`: `PathsVerifyUntilRemoval`). With it
  go the leaf's one member, and that the current root has the largest index.
* `VotingProofs`: `SystemInvariant` for the full system specification `Spec`, and from it
  types, `OneBallotPerSecretAlways`, `TallyMatchesBallotsAlways`, `VkPinnedAlways`,
  `ResultsAreFinalAlways`. `OneBallotPerSecret` is not inductive: the
  invariant adds that a ballot's nullifier is the one the circuit computes
  (`BallotsUseTheirNullifier`, which is where the field check is needed), that the
  marked nullifiers are those of the ballots, and that two ballots differ in them.
  The tally needs the finiteness of `ballots` as well. `ElectionInv` adds the trees and,
  per proposal, `RollOK`: its tree exists, its start index is one the tree had,
  and each ballot of a Fixed proposal has its leaf in the snapshot. From it come
  `FixedElectorateAlways` (the ballots of a snapshot have different leaves of it, hence
  the bound on their number), `TrailingStaysVotableAlways` (the current root is accepted
  because it is the newest, after any evictions and removals), `TreesInVoting` and
  `RemovalsInVoting` (the theorems of tree and token inside the whole system) and `ImplementsElectionAlways`: each step opens,
  casts, closes or archives exactly one poll of `Election`, or none.
* `CommentsProofs`: `CommentsImplementVoting` (`CommentsSpec => Spec`: a comment
  is a stutter of the voting system, so every theorem above holds with comments),
  types, `ThreadsAreTreesAlways`, `OneAuthorPerCommentAlways`,
  `CommentsArePermanentAlways`, `CommentRootsMatchVotingAlways`. The invariant states
  for each thread that it and its history are sequences of one length and that
  comment `id` is well formed, replies to one of `1 .. id - 1` and bears its
  author's mark; that a thread's proposal goes on existing comes from
  `ResultsStay`. Authorship of anonymous comments needs the field check again
  (the proof's nullifier is the stored one, not one congruent to it) and the
  injectivity of `nullifier_of` in the secret. The two contracts' root checks are
  written differently and agree because root indices are numbers and a proposal's start
  index is one, which `ElectionInv` says.
* `ClientProofs`: `ClientImplementsVoting` (`ClientSpec => Spec`: what the pages send are
  transactions of the voting system, so its theorems hold with these clients),
  `ClientTypeCorrect`, which includes that a cached leaf index is its member's own, and
  `RemovalTakesBothAlways`. `PagesInv` says of each handler, at each await, what of the
  values it read is still true (a registered commitment, a root with an index, a
  proposal that exists), and it is kept because contracts never take those back (`Grows`).
  That a member's leaf is of the commitment its wallet derives holds because only the
  pages register here.
* `RelayerProofs`: types and `ConfirmedIsRecordedAlways`. The choice is handed from
  browser to handler to transaction to contract, and `RelayerInv` states the agreement
  of each pair for all handlers at once, those whose browser has gone on to another
  attempt included: such a handler still carries a choice its voter made, and what
  an attempt reports is of the choice the browser shows.
* `SyncProofs`: types and `RosterIsPrefixAlways`, over the contracts' own invariant. A scan's
  page is appended to what earlier pages found, and contracts append between them:
  `ScanInv` says that what was found is what the list, as it is now, enumerates up to the
  offset, whichever pages of other scans failed.
* `IndexerProofs`: types, `VerifiedTransactionsSucceededAlways`,
  `NothingLostByRestartAlways`, `IndexOnlyGrowsAlways`. The cursor is safe because of what the poll has done before it
  is stored: `PolledInv` says that events in the range of the contracts already
  asked are in the table or were missed, `FileInv` the same of the file of an
  older version up to the file's cursor, which is what allows it to be migrated twice.
  `Kept` states once what the insertions, the update and the deletion have in common:
  a row stays, verified rows unchanged, unless its transaction failed. For the update
  that needs `VerifiedTransactionsSucceeded`: it writes to verified rows too, and writes the
  ledger they have.

The provers cannot instantiate the library's induction schemes, so induction over numbers
is the least element of a set of counterexamples (`LeastElement`, `SetInduction`,
`IntervalInduction`, `BoundedInduction`), and a recursive function is handled by showing
that one with its equations exists (`FiniteRecursion`, `WalkExists`). What remains with TLC:

* liveness: `PendingSettles`, `CachesCatchUp`, `EveryCallSettles`, `EveryVoterIsCounted`,
  `RegistrationSettles`, `TrailingVoterVotes`. They rest on fairness and `ENABLED`,
  which the provers do not treat;
* the disagreements, which are counterexamples of instances.

## Not modelled

* `zkvote-groth16`'s point arithmetic and parsing, the circuits' constraints beyond the
  relation they prove, and `comment.circom`, which no contract verifies.
* In `MemberClient`: transfer of the admin role (with it the instance no longer
  finishes in minutes, and no property is about it), the proposal-mode setting, profile
  and alias editing, the edit and delete buttons of comments, and deadlines: proposals
  are created without one.
* In `Relayer`: the comment routes' own contract calls. A comment is not idempotent as
  a vote is (nothing marks it used), so a retry after a late success posts it twice;
  that needs no model to see.
* The HTTP shell (validation, authentication, rate limits as such, IPFS), scripts and
  deployment, and most of `frontend/src` by its lines: rendering, documentation pages,
  styles, query caches and generated bindings, which keep no state a property here
  would be about. The share of the TypeScript the map covers stays small for that
  reason; the Rust contracts are covered nearly whole.

## The plan

1. (done) Registry, token, tree, voting, the abstract election, comments; token,
   voting and comments theorems.
2. (done) `EventIndexer`: poll cursor, page limit, per-contract failure,
   notifications, verification, manual and synthetic rows, migration, death, restart.
3. (done) `MemberClient` over `Voting`: credentials cache, separate reads of root and
   path, registration, removal, submission; `Relayer`: sequence numbers, timeouts, late
   success, retries.
4. (done) `DaoSync`: overlapping syncs, failing pages, restarts.
5. (done) Theorems: the tree's invariant and properties, electorates, the step simulation of
   `Election`, the comments' root check, and the safety of indexer, sync, relayer and
   client.
6. `ClientImplementsVoting` for the comments pages (`MemberClient` over `Comments`); the
   safety half of the liveness properties (that the states they wait in have no way
   out but the one intended), as action properties that can be proved.
