------------------------------ MODULE DaoSync ------------------------------
(***************************************************************************)
(* The backend's copies of the registry and of the member lists, over the  *)
(* two contracts they copy.  syncDaosFromContract reads the DAO count, then *)
(* one DAO per call, and writes the daos table at the end;                 *)
(* syncDaoMembership pages through a member list and then replaces the     *)
(* cached set.  Timers and routes start them without looking whether an     *)
(* earlier one is still running, so several run at once, each with its own  *)
(* snapshot.  An await is a step; what runs between two of them is one     *)
(* step.  The table survives a restart, the caches do not.                 *)
(***************************************************************************)
EXTENDS MembershipSbt

CONSTANTS
  Sync,         \* DAO syncs that may be in flight at once: bound of the model
  Scan,         \* membership syncs in flight at once: bound of the model
  BATCH_SIZE,   \* members per page, 50 in the code
  MaxChanges,   \* bound of the model: transactions on the two contracts
  MaxFailures,  \* bound of the model: calls to the node that fail
  MaxRestarts   \* bound of the model: restarts of the backend

ASSUME SyncAssumption ==
  /\ BATCH_SIZE \in Nat \ {0}
  /\ {MaxChanges, MaxFailures, MaxRestarts} \subseteq Nat
  /\ None \notin Nat

VARIABLES
  daos_table,       \* SQLite: the cached row of each DAO, None before there is one,
  daosSyncTime,     \* and whether a sync has ever been recorded
  daoMembersCache,  \* memory: the members of each DAO, None before a scan ended,
  daoAdminsCache,   \* and its admin's address, or None
  sync,             \* the DAO syncs
  scan,             \* the membership syncs
  up,               \* whether the process runs
  changes, failures, restarts

contract_vars == <<registry_vars, sbt_vars>>
db_vars == <<daos_table, daosSyncTime>>
cache_vars == <<daoMembersCache, daoAdminsCache>>
bound_vars == <<changes, failures, restarts>>
sync_vars == <<db_vars, cache_vars, sync, scan, up, bound_vars>>
vars == <<contract_vars, sync_vars>>

(***************************************************************************)
(* Rows.                                                                   *)
(***************************************************************************)
\* What the sync keeps of a DaoInfo.  It asks for fields by name, and a struct
\* without the field gives the default: DaoInfo has an admin but no creator and no
\* member_count.
field(info, name, default) == IF name \in DOMAIN info THEN info[name] ELSE default

dao_row(info) ==
  [ name                |-> info.name,
    creator             |-> field(info, "creator", None),
    membership_open     |-> info.membership_open,
    members_can_propose |-> info.members_can_propose,
    metadata_cid        |-> info.metadata_cid,
    member_count        |-> field(info, "member_count", 0) ]

\* Mutant of upsertDaos: INSERT OR IGNORE, so a cached row is never updated.
UpsertIgnores(rows) ==
  daos_table' = [d \in DaoId |-> IF daos_table[d] = None THEN rows[d] ELSE daos_table[d]]

\* INSERT ... ON CONFLICT(id) DO UPDATE of every DAO fetched, in one transaction.
upsertDaos(rows) ==
  daos_table' = [d \in DaoId |-> IF rows[d] = None THEN daos_table[d] ELSE rows[d]]

getAllCachedDaos == {d \in DaoId : daos_table[d] # None}

(***************************************************************************)
(* DAO sync.                                                               *)
(***************************************************************************)
no_rows == [d \in DaoId |-> None]
IdleSync == [at |-> "idle", count |-> 0, i |-> 0, fetched |-> no_rows]

\* startDaoSync at start-up, its timer, or POST /daos/sync.
startDaoSync(s) ==
  /\ up
  /\ sync[s].at = "idle"
  /\ sync' = [sync EXCEPT ![s].at = "count"]
  /\ UNCHANGED <<contract_vars, db_vars, cache_vars, scan, up, bound_vars>>

dao_count(s) ==
  /\ sync[s].at = "count"
  /\ sync' = [sync EXCEPT ![s] = IF daos = << >> THEN IdleSync
                                 ELSE [@ EXCEPT !.at = "dao", !.count = Len(daos), !.i = 1]]
  /\ daosSyncTime' = (daosSyncTime \/ daos = << >>)
  /\ UNCHANGED <<contract_vars, daos_table, cache_vars, scan, up, bound_vars>>

\* The count cannot be read, or getAccount throws: the sync ends and records nothing.
dao_count_fails(s) ==
  /\ sync[s].at = "count"
  /\ failures < MaxFailures
  /\ failures' = failures + 1
  /\ sync' = [sync EXCEPT ![s] = IdleSync]
  /\ UNCHANGED <<contract_vars, db_vars, cache_vars, scan, up, changes, restarts>>

\* Mutant of next_dao: one DAO more than the count is asked for.
NextDaoPastCount(s, fetched) ==
  IF sync[s].i <= sync[s].count
  THEN /\ sync' = [sync EXCEPT ![s].i = @ + 1, ![s].fetched = fetched]
       /\ UNCHANGED db_vars
  ELSE /\ upsertDaos(fetched)
       /\ daosSyncTime' = TRUE
       /\ sync' = [sync EXCEPT ![s] = IdleSync]

\* After DAO i: the next one, or, after the last, the table and the sync time.  The
\* dao_create rows it ensures then are EventIndexer's.
next_dao(s, fetched) ==
  IF sync[s].i < sync[s].count
  THEN /\ sync' = [sync EXCEPT ![s].i = @ + 1, ![s].fetched = fetched]
       /\ UNCHANGED db_vars
  ELSE /\ upsertDaos(fetched)
       /\ daosSyncTime' = TRUE
       /\ sync' = [sync EXCEPT ![s] = IdleSync]

get_dao(s) ==
  /\ sync[s].at = "dao"
  /\ LET i == sync[s].i IN next_dao(s, [sync[s].fetched EXCEPT ![i] = dao_row(daos[i])])
  /\ UNCHANGED <<contract_vars, cache_vars, scan, up, bound_vars>>

\* A DAO that cannot be read is left out of this sync, and the others are stored.
get_dao_fails(s) ==
  /\ sync[s].at = "dao"
  /\ failures < MaxFailures
  /\ failures' = failures + 1
  /\ next_dao(s, sync[s].fetched)
  /\ UNCHANGED <<contract_vars, cache_vars, scan, up, changes, restarts>>

(***************************************************************************)
(* Membership sync.                                                        *)
(***************************************************************************)
IdleScan == [todo |-> {}, offset |-> 0, found |-> {}]

\* DAOs are scanned in the order of the table, ORDER BY id.
current(m) == CHOOSE d \in scan[m].todo : \A e \in scan[m].todo : d <= e

\* syncAllMemberships, started by its timer: admins first, then one scan after the
\* other of the DAOs cached now.
syncAllMemberships(m) ==
  /\ up
  /\ scan[m].todo = {}
  /\ getAllCachedDaos # {}
  /\ daoAdminsCache' = [d \in DaoId |->
       IF daos_table[d] # None /\ daos_table[d].creator # None THEN daos_table[d].creator
                                                              ELSE daoAdminsCache[d]]
  /\ scan' = [scan EXCEPT ![m].todo = getAllCachedDaos]
  /\ UNCHANGED <<contract_vars, db_vars, daoMembersCache, sync, up, bound_vars>>

membershipEvents == {"sbt_mint", "sbt_revoke", "member_join", "member_leave", "self_join"}

\* POST /events/notify with a type that triggers a scan of its DAO; the row the
\* notification leaves is EventIndexer's.
triggerDaoMembershipSync(m, d, type) ==
  /\ up
  /\ type \in membershipEvents
  /\ scan[m].todo = {}
  /\ scan' = [scan EXCEPT ![m].todo = {d}]
  /\ UNCHANGED <<contract_vars, db_vars, cache_vars, sync, up, bound_vars>>

\* The contract's page: MemberAtIndex from offset on, at most limit of them.
get_members(d, offset, limit) ==
  LET last == IF offset + limit < Len(member_list[d]) THEN offset + limit
                                                      ELSE Len(member_list[d])
  IN  SubSeq(member_list[d], offset + 1, last)

next_scan(m) == [todo |-> scan[m].todo \ {current(m)}, offset |-> 0, found |-> {}]

\* Mutant of read_page: the whole batch is skipped when a page is short, and the
\* scan goes on.
ReadPageAlwaysAdvances(m, page) ==
  LET d == current(m)
      found == scan[m].found \cup {page[i] : i \in DOMAIN page}
  IN  IF scan[m].offset < Len(member_list[d])
      THEN /\ scan' = [scan EXCEPT ![m].offset = @ + BATCH_SIZE, ![m].found = found]
           /\ UNCHANGED daoMembersCache
      ELSE /\ daoMembersCache' = [daoMembersCache EXCEPT ![d] = found]
           /\ scan' = [scan EXCEPT ![m] = next_scan(m)]

\* A full page asks for another; a shorter one ends the scan, which replaces the
\* cached set and goes on with the next DAO.
read_page(m, page) ==
  LET d == current(m)
      found == scan[m].found \cup {page[i] : i \in DOMAIN page}
  IN  IF Len(page) = BATCH_SIZE
      THEN /\ scan' = [scan EXCEPT ![m].offset = @ + Len(page), ![m].found = found]
           /\ UNCHANGED daoMembersCache
      ELSE /\ daoMembersCache' = [daoMembersCache EXCEPT ![d] = found]
           /\ scan' = [scan EXCEPT ![m] = next_scan(m)]

members_page(m) ==
  /\ scan[m].todo # {}
  /\ read_page(m, get_members(current(m), scan[m].offset, BATCH_SIZE))
  /\ UNCHANGED <<contract_vars, db_vars, daoAdminsCache, sync, up, bound_vars>>

\* A simulation that answers with an error ends the scan as an empty page does.
members_page_refused(m) ==
  /\ scan[m].todo # {}
  /\ failures < MaxFailures
  /\ failures' = failures + 1
  /\ read_page(m, << >>)
  /\ UNCHANGED <<contract_vars, db_vars, daoAdminsCache, sync, up, changes, restarts>>

\* A call that throws or times out leaves the cached set as it is.
members_page_throws(m) ==
  /\ scan[m].todo # {}
  /\ failures < MaxFailures
  /\ failures' = failures + 1
  /\ scan' = [scan EXCEPT ![m] = next_scan(m)]
  /\ UNCHANGED <<contract_vars, db_vars, cache_vars, sync, up, changes, restarts>>

(***************************************************************************)
(* The process, and the contracts.                                         *)
(***************************************************************************)
shutdown ==
  /\ up
  /\ restarts < MaxRestarts
  /\ restarts' = restarts + 1
  /\ up' = FALSE
  /\ sync' = [s \in Sync |-> IdleSync]
  /\ scan' = [m \in Scan |-> IdleScan]
  /\ daoMembersCache' = no_rows
  /\ daoAdminsCache' = no_rows
  /\ UNCHANGED <<contract_vars, db_vars, changes, failures>>

listen ==
  /\ ~up
  /\ up' = TRUE
  /\ UNCHANGED <<contract_vars, db_vars, cache_vars, sync, scan, bound_vars>>

ContractTransaction ==
  /\ changes < MaxChanges
  /\ changes' = changes + 1
  /\ SbtNext
  /\ UNCHANGED <<db_vars, cache_vars, sync, scan, up, failures, restarts>>

SyncInit ==
  /\ daos_table = no_rows
  /\ daosSyncTime = FALSE
  /\ daoMembersCache = no_rows
  /\ daoAdminsCache = no_rows
  /\ sync = [s \in Sync |-> IdleSync]
  /\ scan = [m \in Scan |-> IdleScan]
  /\ up = TRUE
  /\ changes = 0 /\ failures = 0 /\ restarts = 0

Init == MembershipInit /\ SyncInit

DaoSyncStep(s) == dao_count(s) \/ dao_count_fails(s) \/ get_dao(s) \/ get_dao_fails(s)

ScanStep(m) == members_page(m) \/ members_page_refused(m) \/ members_page_throws(m)

\* What clients announce: the types of the API's documentation and those the
\* frontend sends.
NotifiedType == {"sbt_mint", "member_added"}

Next ==
  \/ ContractTransaction
  \/ \E s \in Sync : startDaoSync(s) \/ DaoSyncStep(s)
  \/ \E m \in Scan :
       \/ syncAllMemberships(m)
       \/ ScanStep(m)
       \/ \E d \in DaoId, type \in NotifiedType : triggerDaoMembershipSync(m, d, type)
  \/ shutdown
  \/ listen

Spec == Init /\ [][Next]_vars

\* Timers keep firing, however many scans notifications start meanwhile, and every
\* call to the node settles, if only by its timeout.
Fairness ==
  /\ WF_vars(listen)
  /\ \A s \in Sync : WF_vars(startDaoSync(s)) /\ WF_vars(DaoSyncStep(s))
  /\ \A m \in Scan : SF_vars(syncAllMemberships(m)) /\ WF_vars(ScanStep(m))

FairSpec == Spec /\ Fairness

(***************************************************************************)
(* GET /daos?user=                                                         *)
(***************************************************************************)
role(d, user) ==
  LET admin == IF daoAdminsCache[d] # None THEN daoAdminsCache[d] ELSE daos_table[d].creator
  IN  CASE admin = user -> "admin"
        [] admin # user /\ daoMembersCache[d] # None /\ user \in daoMembersCache[d] -> "member"
        [] OTHER -> None

(***************************************************************************)
(* Properties.                                                             *)
(***************************************************************************)
DaoRow == [ name : ValidName, creator : Address \cup {None}, membership_open : BOOLEAN,
            members_can_propose : BOOLEAN, metadata_cid : ValidCid, member_count : Nat ]

Rows == [DaoId -> DaoRow \cup {None}]

DaoSyncState == [ at : {"idle", "count", "dao"}, count : Nat, i : Nat, fetched : Rows ]

ScanState == [ todo : SUBSET DaoId, offset : Nat, found : SUBSET Address ]

SyncTypeOK ==
  /\ SbtTypeOK
  /\ daos_table \in Rows
  /\ \A d \in DaoId : daos_table[d] # None => dao_exists(d)
  /\ daosSyncTime \in BOOLEAN /\ up \in BOOLEAN
  /\ daoMembersCache \in [DaoId -> (SUBSET Address) \cup {None}]
  /\ daoAdminsCache \in [DaoId -> Address \cup {None}]
  /\ sync \in [Sync -> DaoSyncState]
  /\ \A s \in Sync : sync[s].at = "dao" => sync[s].i \in 1 .. sync[s].count /\ sync[s].count <= Len(daos)
  /\ scan \in [Scan -> ScanState]
  /\ \A m \in Scan : scan[m].todo # {} => scan[m].offset <= Len(member_list[current(m)])

enumerated(d, n) == {member_list[d][i] : i \in 1 .. n}

\* A member list is read page by page while members are minted, revoked and come
\* back, and scans of the same DAO overwrite each other.  Whatever page fails, the
\* cached set is an initial part of the contract's list: nobody is missing from it
\* who was enumerated before somebody in it.
RosterIsPrefix ==
  \A d \in DaoId : daoMembersCache[d] # None =>
    \E n \in 0 .. Len(member_list[d]) : daoMembersCache[d] = enumerated(d, n)

Mirrored ==
  \A d \in 1 .. Len(daos) :
    /\ daos_table[d] = dao_row(daos[d])
    /\ daoMembersCache[d] = enumerated(d, Len(member_list[d]))

\* Once the contracts stop changing and calls stop failing, the table and every
\* cached member set come to agree with the contracts and stay so, whatever
\* snapshots slower syncs still carry, and after a restart too.
CachesCatchUp == <>[]Mirrored
=============================================================================
