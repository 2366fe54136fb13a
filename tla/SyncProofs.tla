----------------------------- MODULE SyncProofs -----------------------------
(***************************************************************************)
(* Theorems about DaoSync, for every value of its constants: any number of *)
(* syncs and scans in flight, any page size, any list of members.          *)
(***************************************************************************)
EXTENDS DaoSync, MembershipProofs

(***************************************************************************)
(* The inductive invariant.  Syncs and scans see the contracts at several  *)
(* times.  That a DAO once counted stays, and that a member list only      *)
(* grows at its end, makes what they saw true for ever: a row is a row of  *)
(* an existing DAO, and what a scan has found is what the list, as it is   *)
(* now, enumerates up to the scan's offset.                                *)
(***************************************************************************)
TableInv ==
  /\ daos_table \in Rows
  /\ \A d \in DaoId : daos_table[d] # None => dao_exists(d)
  /\ daosSyncTime \in BOOLEAN

FetchInv ==
  /\ sync \in [Sync -> DaoSyncState]
  /\ \A s \in Sync :
       /\ sync[s].at = "dao" => /\ sync[s].i \in 1 .. sync[s].count
                                /\ sync[s].count <= Len(daos)
       /\ \A d \in DaoId : sync[s].fetched[d] # None => dao_exists(d)

CacheInv ==
  /\ daoMembersCache \in [DaoId -> (SUBSET Address) \cup {None}]
  /\ RosterIsPrefix
  /\ daoAdminsCache \in [DaoId -> Address \cup {None}]

ScanInv ==
  /\ scan \in [Scan -> ScanState]
  /\ \A m \in Scan : scan[m].todo # {} =>
       /\ scan[m].offset <= Len(member_list[current(m)])
       /\ scan[m].found = enumerated(current(m), scan[m].offset)
  /\ \A m \in Scan : scan[m].todo = {} => scan[m].offset = 0 /\ scan[m].found = {}

SyncInv ==
  /\ RegistryAndSbtInv
  /\ TableInv
  /\ FetchInv
  /\ CacheInv
  /\ ScanInv
  /\ up \in BOOLEAN

(***************************************************************************)
(* What the copies are made of.                                            *)
(***************************************************************************)
\* A DaoInfo has no field creator and no field member_count, so a row has the defaults.
LEMMA RowType ==
  ASSUME NEW info \in DaoInfo
  PROVE  dao_row(info) \in DaoRow
<1>1. "creator" \notin DOMAIN info /\ "member_count" \notin DOMAIN info
  BY DEF DaoInfo
<1> QED
  BY <1>1 DEF dao_row, field, DaoRow, DaoInfo

\* A set of DAOs that is not empty has a first one in the table's order.
LEMMA CurrentDao ==
  ASSUME NEW m \in Scan, scan[m].todo \in SUBSET DaoId, scan[m].todo # {}
  PROVE  current(m) \in scan[m].todo /\ current(m) \in DaoId
<1>1. scan[m].todo \in SUBSET Nat
  BY DEF DaoId
<1>2. \E d \in scan[m].todo : \A e \in scan[m].todo : d <= e
  BY <1>1, LeastElement
<1> QED
  BY <1>2 DEF current

\* A list that only grows at its end keeps what it enumerated.
LEMMA EnumeratedStays ==
  ASSUME TokenTypeOK, TokenTypeOK', EntriesStay, NEW d \in DaoId,
         NEW n \in 0 .. Len(member_list[d])
  PROVE  n <= Len(member_list'[d]) /\ enumerated(d, n)' = enumerated(d, n)
<1>1. /\ DOMAIN member_list[d] = 1 .. Len(member_list[d]) /\ Len(member_list[d]) \in Nat
      /\ DOMAIN member_list'[d] = 1 .. Len(member_list'[d]) /\ Len(member_list'[d]) \in Nat
  BY LenProperties DEF TokenTypeOK
<1>2. \A i \in 1 .. n : i \in 1 .. Len(member_list'[d]) /\ member_list'[d][i] = member_list[d][i]
  <2>1. \A i \in DOMAIN member_list[d] :
          i \in DOMAIN member_list'[d] /\ member_list'[d][i] = member_list[d][i]
    BY DEF EntriesStay
  <2>2. \A i \in 1 .. n : i \in DOMAIN member_list[d]
    BY <1>1
  <2> QED
    BY <1>1, <2>1, <2>2
<1>3. n <= Len(member_list'[d])
  BY <1>1, <1>2
<1>4. enumerated(d, n)' = {member_list'[d][i] : i \in 1 .. n}
  BY DEF enumerated
<1> QED
  BY <1>2, <1>3, <1>4 DEF enumerated

\* A page holds the part of the list between the offset and the offset plus its length.
LEMMA PageContent ==
  ASSUME TokenTypeOK, NEW d \in DaoId, NEW n \in 0 .. Len(member_list[d])
  PROVE  LET page == get_members(d, n, BATCH_SIZE)
         IN  /\ n + Len(page) \in 0 .. Len(member_list[d])
             /\ Len(page) \in Nat
             /\ enumerated(d, n) \cup {page[i] : i \in DOMAIN page}
                  = enumerated(d, n + Len(page))
<1> DEFINE s == member_list[d]
           last == IF n + BATCH_SIZE < Len(s) THEN n + BATCH_SIZE ELSE Len(s)
           page == SubSeq(s, n + 1, last)
<1>1. s \in Seq(Address) /\ DOMAIN s = 1 .. Len(s) /\ Len(s) \in Nat
      /\ \A i \in 1 .. Len(s) : s[i] \in Address
  BY LenProperties DEF TokenTypeOK
<1>2. last \in n .. Len(s)
  BY <1>1, SyncAssumption
<1> HIDE DEF last, s
<1>3. /\ page \in Seq(Address)
      /\ Len(page) = last - n
      /\ \A i \in 1 .. last - n : page[i] = s[n + i]
  BY <1>1, <1>2, SubSeqProperties
<1>4. DOMAIN page = 1 .. last - n
  BY <1>3, LenProperties
<1> HIDE DEF page
<1>5. {page[i] : i \in DOMAIN page} = {s[i] : i \in n + 1 .. last}
  <2>1. \A i \in 1 .. last - n : page[i] = s[n + i] /\ n + i \in n + 1 .. last
    BY <1>2, <1>3
  <2>2. \A i \in n + 1 .. last : i - n \in 1 .. last - n /\ page[i - n] = s[i]
    BY <1>1, <1>2, <1>3
  <2> QED
    BY <1>4, <2>1, <2>2
<1>6. {s[i] : i \in 1 .. n} \cup {s[i] : i \in n + 1 .. last} = {s[i] : i \in 1 .. last}
  BY <1>1, <1>2
<1>7. enumerated(d, n) = {s[i] : i \in 1 .. n} /\ enumerated(d, last) = {s[i] : i \in 1 .. last}
  BY DEF enumerated, s
<1>8. get_members(d, n, BATCH_SIZE) = page /\ n + Len(page) = last /\ Len(page) \in Nat
  BY <1>1, <1>2, <1>3 DEF get_members, page, last, s
<1>9. /\ n + Len(page) \in 0 .. Len(s)
      /\ Len(page) \in Nat
      /\ enumerated(d, n) \cup {page[i] : i \in DOMAIN page} = enumerated(d, n + Len(page))
  <2>1. last \in 0 .. Len(s)
    BY <1>1, <1>2
  <2> QED
    BY <1>5, <1>6, <1>7, <1>8, <2>1
<1> QED
  BY <1>8, <1>9 DEF s

(***************************************************************************)
(* Steps.                                                                  *)
(***************************************************************************)
LEMMA SyncInitInv ==
  ASSUME Init
  PROVE  SyncInv
<1>1. RegistryAndSbtInv
  BY SbtInitInv DEF Init, MembershipInit, RegistryAndSbtInv
<1>2. no_rows \in Rows /\ \A d \in DaoId : no_rows[d] = None
  BY DEF no_rows, Rows
<1>3. TableInv
  BY <1>2 DEF Init, SyncInit, TableInv
<1>4. FetchInv
  <2>1. IdleSync \in DaoSyncState /\ IdleSync.at = "idle" /\ IdleSync.fetched = no_rows
    BY <1>2 DEF IdleSync, DaoSyncState
  <2>2. \A s \in Sync : sync[s] = IdleSync
    BY DEF Init, SyncInit
  <2> QED
    BY <1>2, <2>1, <2>2 DEF Init, SyncInit, FetchInv
<1>5. CacheInv
  <2>1. /\ no_rows \in [DaoId -> (SUBSET Address) \cup {None}]
        /\ no_rows \in [DaoId -> Address \cup {None}]
    BY DEF no_rows
  <2>2. daoMembersCache = no_rows /\ daoAdminsCache = no_rows
    BY DEF Init, SyncInit
  <2>3. RosterIsPrefix
    BY <1>2, <2>2 DEF RosterIsPrefix
  <2> QED
    BY <2>1, <2>2, <2>3 DEF CacheInv
<1>6. ScanInv
  <2>1. /\ IdleScan \in ScanState /\ IdleScan.todo = {}
        /\ IdleScan.offset = 0 /\ IdleScan.found = {}
    BY DEF IdleScan, ScanState
  <2>2. scan = [m \in Scan |-> IdleScan]
    BY DEF Init, SyncInit
  <2> HIDE DEF IdleScan
  <2> QED
    BY <2>1, <2>2 DEF ScanInv
<1> QED
  BY <1>1, <1>3, <1>4, <1>5, <1>6 DEF SyncInv, Init, SyncInit

\* The contracts move on under the copies.
LEMMA ContractStep ==
  ASSUME SyncInv, ContractTransaction
  PROVE  SyncInv'
<1>1. RegistryAndSbtInv' /\ EntriesStay
  BY SbtNextStep DEF SyncInv, RegistryAndSbtInv, ContractTransaction
<1>2. Len(daos) \in Nat /\ Len(daos') \in Nat /\ Len(daos) <= Len(daos')
  <2>1. Len(daos) \in Nat /\ Len(daos') \in Nat
    BY <1>1, LenProperties DEF SyncInv, RegistryAndSbtInv, RegistryTypeOK
  <2>2. CASE RegistryNext
    BY <2>1, <2>2, RegistryStep DEF SyncInv, RegistryAndSbtInv
  <2>3. CASE UNCHANGED registry_vars
    BY <2>1, <2>3 DEF registry_vars
  <2> QED
    BY <2>2, <2>3 DEF ContractTransaction, SbtNext
<1>3. \A d : dao_exists(d) => dao_exists(d)'
  BY <1>2 DEF dao_exists
<1>4. /\ UNCHANGED <<daos_table, daosSyncTime, daoMembersCache, daoAdminsCache, sync, scan, up>>
      /\ TokenTypeOK /\ TokenTypeOK'
  BY <1>1 DEF ContractTransaction, db_vars, cache_vars, SyncInv, RegistryAndSbtInv, SbtInv
<1>5. TableInv'
  BY <1>3, <1>4 DEF SyncInv, TableInv
<1>6. FetchInv'
  <2>1. ASSUME NEW s \in Sync, sync[s].at = "dao"
        PROVE  sync[s].count <= Len(daos')
    <3>1. sync[s].count \in Nat /\ sync[s].count <= Len(daos)
      BY <2>1 DEF SyncInv, FetchInv, DaoSyncState
    <3> QED
      BY <1>2, <3>1
  <2> QED
    BY <1>3, <1>4, <2>1 DEF SyncInv, FetchInv
<1>7. CacheInv'
  <2>1. ASSUME NEW d \in DaoId, daoMembersCache[d] # None
        PROVE  \E n \in 0 .. Len(member_list'[d]) : daoMembersCache[d] = enumerated(d, n)'
    <3>1. PICK n \in 0 .. Len(member_list[d]) : daoMembersCache[d] = enumerated(d, n)
      BY <2>1 DEF SyncInv, CacheInv, RosterIsPrefix
    <3>2. n \in 0 .. Len(member_list'[d]) /\ enumerated(d, n)' = enumerated(d, n)
      <4>1. Len(member_list'[d]) \in Nat
        BY <1>4, LenProperties DEF TokenTypeOK
      <4> QED
        BY <1>1, <1>4, <4>1, EnumeratedStays
    <3> QED
      BY <3>1, <3>2
  <2>2. RosterIsPrefix'
    BY <1>4, <2>1 DEF RosterIsPrefix
  <2> QED
    BY <1>4, <2>2 DEF SyncInv, CacheInv
<1>8. ScanInv'
  <2>1. ASSUME NEW m \in Scan, scan[m].todo # {}
        PROVE  /\ current(m)' = current(m)
               /\ scan[m].offset <= Len(member_list'[current(m)])
               /\ enumerated(current(m), scan[m].offset)'
                    = enumerated(current(m), scan[m].offset)
    <3>1. current(m)' = current(m)
      BY <1>4 DEF current
    <3>2. current(m) \in DaoId
      BY <2>1, CurrentDao DEF SyncInv, ScanInv, ScanState
    <3>3. scan[m].offset \in Nat /\ scan[m].offset <= Len(member_list[current(m)])
      BY <2>1 DEF SyncInv, ScanInv, ScanState
    <3>4. \A d \in DaoId, n \in Nat : n <= Len(member_list[d]) =>
            n <= Len(member_list'[d]) /\ enumerated(d, n)' = enumerated(d, n)
      <4> TAKE d \in DaoId, n \in Nat
      <4>1. Len(member_list[d]) \in Nat
        BY <1>4, LenProperties DEF TokenTypeOK
      <4> QED
        BY <1>1, <1>4, <4>1, EnumeratedStays
    <3>5. enumerated(current(m), scan[m].offset)'
            = {member_list'[current(m)][i] : i \in 1 .. scan[m].offset}
      BY <1>4, <3>1 DEF enumerated
    <3>6. \A d \in DaoId, n \in Nat : enumerated(d, n)' = {member_list'[d][i] : i \in 1 .. n}
      BY DEF enumerated
    <3> QED
      BY <3>1, <3>2, <3>3, <3>4, <3>5, <3>6
  <2>2. \A m \in Scan : scan[m].todo # {} =>
          /\ scan'[m].offset <= Len(member_list'[current(m)'])
          /\ scan'[m].found = enumerated(current(m), scan[m].offset)'
    BY <1>4, <2>1 DEF SyncInv, ScanInv
  <2> QED
    BY <1>4, <2>2 DEF SyncInv, ScanInv
<1> QED
  BY <1>1, <1>4, <1>5, <1>6, <1>7, <1>8 DEF SyncInv

\* A step of the backend leaves the contracts' invariant alone, and what depends on
\* variables it does not touch.
LEMMA BackendFrame ==
  ASSUME SyncInv, UNCHANGED contract_vars
  PROVE  /\ RegistryAndSbtInv'
         /\ UNCHANGED db_vars => TableInv'
         /\ UNCHANGED sync => FetchInv'
         /\ UNCHANGED cache_vars => CacheInv'
         /\ UNCHANGED scan => ScanInv'
         /\ UNCHANGED up => up' \in BOOLEAN
<1>1. daos' = daos /\ member_list' = member_list /\ UNCHANGED <<registry_vars, sbt_vars>>
  BY DEF contract_vars, registry_vars, sbt_vars
<1>2. RegistryAndSbtInv'
  BY <1>1, RegistryAndSbtStutter DEF SyncInv
<1>3. UNCHANGED db_vars => TableInv'
  BY <1>1 DEF SyncInv, TableInv, db_vars, dao_exists
<1>4. UNCHANGED sync => FetchInv'
  BY <1>1 DEF SyncInv, FetchInv, dao_exists
<1>5. UNCHANGED cache_vars => CacheInv'
  BY <1>1 DEF SyncInv, CacheInv, RosterIsPrefix, enumerated, cache_vars
<1>6. UNCHANGED scan => ScanInv'
  <2> SUFFICES ASSUME UNCHANGED scan PROVE ScanInv'
    OBVIOUS
  <2>1. \A m \in Scan : current(m)' = current(m)
    BY DEF current
  <2>2. \A d, n : enumerated(d, n)' = enumerated(d, n)
    BY <1>1 DEF enumerated
  <2>3. ASSUME NEW m \in Scan, scan'[m].todo # {}
        PROVE  /\ scan'[m].offset <= Len(member_list'[current(m)'])
               /\ scan'[m].found = enumerated(current(m), scan[m].offset)'
    BY <1>1, <2>1, <2>2, <2>3 DEF SyncInv, ScanInv, enumerated
  <2> QED
    BY <2>3 DEF SyncInv, ScanInv
<1> QED
  BY <1>2, <1>3, <1>4, <1>5, <1>6 DEF SyncInv

\* One DAO sync moves on, or ends.
LEMMA SyncChange ==
  ASSUME SyncInv, UNCHANGED contract_vars, NEW s \in Sync, NEW state \in DaoSyncState,
         sync' = [sync EXCEPT ![s] = state],
         state.at = "dao" => state.i \in 1 .. state.count /\ state.count <= Len(daos),
         \A d \in DaoId : state.fetched[d] # None => dao_exists(d)
  PROVE  FetchInv'
<1>1. \A r \in Sync : sync'[r] = IF r = s THEN state ELSE sync[r]
  BY DEF SyncInv, FetchInv
<1>2. sync' \in [Sync -> DaoSyncState]
  BY DEF SyncInv, FetchInv
<1>3. daos' = daos
  BY DEF contract_vars, registry_vars
<1> QED
  BY <1>1, <1>2, <1>3 DEF SyncInv, FetchInv, dao_exists

\* The idle state is one.
LEMMA IdleSyncState ==
  /\ IdleSync \in DaoSyncState /\ IdleSync.at = "idle"
  /\ \A d \in DaoId : IdleSync.fetched[d] = None
BY DEF IdleSync, DaoSyncState, no_rows, Rows

\* The next DAO, or the end of the sync with rows of existing DAOs.
LEMMA NextDaoStep ==
  ASSUME SyncInv, NEW s \in Sync, sync[s].at = "dao",
         NEW fetched \in Rows,
         \A d \in DaoId : fetched[d] # None => dao_exists(d),
         next_dao(s, fetched),
         UNCHANGED <<contract_vars, cache_vars, scan, up>>
  PROVE  SyncInv'
<1>1. /\ RegistryAndSbtInv' /\ CacheInv' /\ ScanInv' /\ up' \in BOOLEAN
      /\ UNCHANGED db_vars => TableInv'
  BY BackendFrame
<1>2. CASE sync[s].i < sync[s].count
  <2> DEFINE state == [sync[s] EXCEPT !.i = @ + 1, !.fetched = fetched]
  <2>1. /\ sync[s] \in DaoSyncState
        /\ sync[s].i \in 1 .. sync[s].count /\ sync[s].count <= Len(daos)
    BY DEF SyncInv, FetchInv
  <2>2. sync' = [sync EXCEPT ![s] = state] /\ UNCHANGED db_vars
    BY <1>2 DEF next_dao
  <2>3. /\ state \in DaoSyncState /\ state.count = sync[s].count
        /\ state.i = sync[s].i + 1 /\ state.fetched = fetched
    <3>1. sync[s].i + 1 \in Nat
      BY <2>1 DEF DaoSyncState
    <3> QED
      BY <2>1, <3>1 DEF DaoSyncState
  <2> HIDE DEF state
  <2>4. state.i \in 1 .. state.count
    BY <1>2, <2>1, <2>3 DEF DaoSyncState
  <2>5. FetchInv'
    BY <2>1, <2>2, <2>3, <2>4, SyncChange
  <2> QED
    BY <1>1, <2>2, <2>5 DEF SyncInv
<1>3. CASE ~(sync[s].i < sync[s].count)
  <2>1. /\ upsertDaos(fetched) /\ daosSyncTime' = TRUE
        /\ sync' = [sync EXCEPT ![s] = IdleSync]
    BY <1>3 DEF next_dao
  <2>2. FetchInv'
    BY <2>1, IdleSyncState, SyncChange
  <2>3. daos' = daos
    BY DEF contract_vars, registry_vars
  <2>4. TableInv'
    BY <2>1, <2>3 DEF upsertDaos, SyncInv, TableInv, dao_exists, Rows
  <2> QED
    BY <1>1, <2>2, <2>4 DEF SyncInv
<1> QED
  BY <1>2, <1>3

\* Whatever a DAO sync does.
LEMMA DaoSyncsStep ==
  ASSUME SyncInv, NEW s \in Sync, startDaoSync(s) \/ DaoSyncStep(s)
  PROVE  SyncInv'
<1>1. sync[s] \in DaoSyncState /\ \A d \in DaoId : sync[s].fetched[d] # None => dao_exists(d)
  BY DEF SyncInv, FetchInv
<1>2. CASE startDaoSync(s)
  <2> DEFINE state == [sync[s] EXCEPT !.at = "count"]
  <2>1. state \in DaoSyncState /\ state.at = "count" /\ state.fetched = sync[s].fetched
    BY <1>1 DEF DaoSyncState
  <2>2. sync' = [sync EXCEPT ![s] = state]
    BY <1>2 DEF startDaoSync
  <2>3. UNCHANGED <<contract_vars, db_vars, cache_vars, scan, up>>
    BY <1>2 DEF startDaoSync
  <2> HIDE DEF state
  <2>4. FetchInv'
    BY <1>1, <2>1, <2>2, <2>3, SyncChange
  <2> QED
    BY <2>3, <2>4, BackendFrame DEF SyncInv
<1>3. CASE dao_count(s)
  <2> DEFINE state == IF daos = << >> THEN IdleSync
                      ELSE [sync[s] EXCEPT !.at = "dao", !.count = Len(daos), !.i = 1]
  <2>1. Len(daos) \in Nat /\ (daos # << >> => Len(daos) > 0)
    BY LenProperties, EmptySeq DEF SyncInv, RegistryAndSbtInv, RegistryTypeOK
  <2>2. /\ state \in DaoSyncState
        /\ state.at = "dao" => state.i \in 1 .. state.count /\ state.count <= Len(daos)
        /\ state.fetched = sync[s].fetched \/ state.fetched = IdleSync.fetched
    <3>1. CASE daos = << >>
      BY <3>1, IdleSyncState
    <3>2. CASE daos # << >>
      <4>1. Len(daos) \in Nat /\ 1 \in 1 .. Len(daos)
        BY <2>1, <3>2
      <4> DEFINE begun == [sync[s] EXCEPT !.at = "dao", !.count = Len(daos), !.i = 1]
      <4>2. /\ begun \in DaoSyncState /\ begun.i = 1 /\ begun.count = Len(daos)
            /\ begun.fetched = sync[s].fetched
        BY <1>1, <4>1 DEF DaoSyncState
      <4>3. state = begun
        BY <3>2
      <4> HIDE DEF begun, state
      <4> QED
        BY <4>1, <4>2, <4>3
    <3> QED
      BY <3>1, <3>2
  <2>3. sync' = [sync EXCEPT ![s] = state]
    BY <1>3 DEF dao_count
  <2>4. /\ UNCHANGED <<contract_vars, daos_table, cache_vars, scan, up>>
        /\ daosSyncTime' \in BOOLEAN
    BY <1>3 DEF dao_count, SyncInv, TableInv
  <2> HIDE DEF state
  <2>5. FetchInv'
    BY <1>1, <2>2, <2>3, <2>4, SyncChange, IdleSyncState
  <2>6. TableInv'
    BY <2>4 DEF SyncInv, TableInv, dao_exists, contract_vars, registry_vars
  <2> QED
    BY <2>4, <2>5, <2>6, BackendFrame DEF SyncInv
<1>4. CASE dao_count_fails(s)
  <2>1. /\ UNCHANGED <<contract_vars, db_vars, cache_vars, scan, up>>
        /\ sync' = [sync EXCEPT ![s] = IdleSync]
    BY <1>4 DEF dao_count_fails
  <2>2. FetchInv'
    BY <2>1, IdleSyncState, SyncChange
  <2> QED
    BY <2>1, <2>2, BackendFrame DEF SyncInv
<1>5. CASE get_dao(s)
  <2> DEFINE i == sync[s].i
             fetched == [sync[s].fetched EXCEPT ![i] = dao_row(daos[i])]
  <2>1. /\ sync[s].at = "dao" /\ next_dao(s, fetched)
        /\ UNCHANGED <<contract_vars, cache_vars, scan, up>>
    BY <1>5 DEF get_dao
  <2>2. i \in 1 .. Len(daos) /\ dao_exists(i) /\ dao_row(daos[i]) \in DaoRow
    <3>1. i \in 1 .. sync[s].count /\ sync[s].count <= Len(daos) /\ sync[s].count \in Nat
      BY <2>1 DEF SyncInv, FetchInv, DaoSyncState
    <3>2. Len(daos) \in Nat /\ i \in 1 .. Len(daos)
      BY <3>1, LenProperties DEF SyncInv, RegistryAndSbtInv, RegistryTypeOK
    <3>3. daos[i] \in DaoInfo
      BY <3>2, ElementOfSeq DEF SyncInv, RegistryAndSbtInv, RegistryTypeOK
    <3> QED
      BY <3>2, <3>3, RowType DEF dao_exists
  <2>3. /\ fetched \in Rows
        /\ \A d \in DaoId : fetched[d] # None => dao_exists(d)
    BY <1>1, <2>2 DEF DaoSyncState, Rows
  <2> HIDE DEF fetched
  <2> QED
    BY <2>1, <2>3, NextDaoStep
<1>6. CASE get_dao_fails(s)
  <2>1. /\ sync[s].at = "dao" /\ next_dao(s, sync[s].fetched)
        /\ UNCHANGED <<contract_vars, cache_vars, scan, up>>
    BY <1>6 DEF get_dao_fails
  <2>2. sync[s].fetched \in Rows
    BY <1>1 DEF DaoSyncState
  <2> QED
    BY <1>1, <2>1, <2>2, NextDaoStep
<1> QED
  BY <1>2, <1>3, <1>4, <1>5, <1>6 DEF DaoSyncStep

\* One scan moves on or begins: what it has found so far must be what the list
\* enumerates up to its offset.
LEMMA ScanChange ==
  ASSUME SyncInv, UNCHANGED contract_vars, NEW m \in Scan, NEW state \in ScanState,
         scan' = [scan EXCEPT ![m] = state],
         state.todo = {} => state.offset = 0 /\ state.found = {},
         state.todo # {} =>
           \/ state.offset = 0 /\ state.found = {}
           \/ /\ state.todo = scan[m].todo
              /\ state.offset \in 0 .. Len(member_list[current(m)])
              /\ state.found = enumerated(current(m), state.offset)
  PROVE  ScanInv'
<1>1. scan' \in [Scan -> ScanState] /\ \A l \in Scan : scan'[l] = IF l = m THEN state ELSE scan[l]
  BY DEF SyncInv, ScanInv
<1>2. member_list' = member_list /\ \A d, n : enumerated(d, n)' = enumerated(d, n)
  BY DEF contract_vars, sbt_vars, enumerated
<1>3. \A l \in Scan : scan'[l].todo = scan[l].todo => current(l)' = current(l)
  BY DEF current
<1>4. ASSUME NEW l \in Scan, scan'[l].todo # {}
      PROVE  /\ scan'[l].offset <= Len(member_list'[current(l)'])
             /\ scan'[l].found = {member_list'[current(l)'][i] : i \in 1 .. scan'[l].offset}
  <2>1. CASE l # m
    BY <1>1, <1>2, <1>3, <1>4, <2>1 DEF SyncInv, ScanInv, enumerated
  <2>2. CASE l = m /\ state.offset = 0 /\ state.found = {}
    <3>1. current(m)' \in DaoId
      <4>1. scan'[m].todo \in SUBSET DaoId /\ scan'[m].todo # {}
        BY <1>1, <1>4, <2>2 DEF ScanState
      <4>2. scan'[m].todo \subseteq Nat
        BY <4>1 DEF DaoId
      <4>3. \E d \in scan'[m].todo : \A e \in scan'[m].todo : d <= e
        BY <4>1, <4>2, LeastElement
      <4> QED
        BY <4>1, <4>3 DEF current
    <3>2. Len(member_list[current(m)']) \in Nat
      BY <3>1, LenProperties DEF SyncInv, RegistryAndSbtInv, SbtInv, TokenTypeOK
    <3> QED
      BY <1>1, <1>2, <2>2, <3>2
  <2>3. CASE l = m /\ ~(state.offset = 0 /\ state.found = {})
    <3>1. /\ current(m)' = current(m)
          /\ state.offset \in 0 .. Len(member_list[current(m)])
          /\ state.found = enumerated(current(m), state.offset)
      BY <1>1, <1>3, <1>4, <2>3
    <3> QED
      BY <1>1, <1>2, <2>3, <3>1 DEF enumerated
  <2> QED
    BY <2>1, <2>2, <2>3
<1>5. \A l \in Scan : scan'[l].todo = {} => scan'[l].offset = 0 /\ scan'[l].found = {}
  BY <1>1 DEF SyncInv, ScanInv
<1> QED
  BY <1>1, <1>4, <1>5 DEF ScanInv, enumerated

\* The list up to some place is an initial part of it.
LEMMA CacheChange ==
  ASSUME SyncInv, UNCHANGED contract_vars, NEW d \in DaoId,
         NEW n \in 0 .. Len(member_list[d]),
         daoMembersCache' = [daoMembersCache EXCEPT ![d] = enumerated(d, n)],
         daoAdminsCache' = daoAdminsCache
  PROVE  CacheInv'
<1>1. member_list' = member_list /\ member_list[d] \in Seq(Address)
  BY DEF contract_vars, sbt_vars, SyncInv, RegistryAndSbtInv, SbtInv, TokenTypeOK
<1>2. enumerated(d, n) \in SUBSET Address
  BY <1>1, LenProperties, ElementOfSeq DEF enumerated
<1>3. daoMembersCache' \in [DaoId -> (SUBSET Address) \cup {None}]
  BY <1>2 DEF SyncInv, CacheInv
<1>4. RosterIsPrefix'
  <2>1. ASSUME NEW e \in DaoId, daoMembersCache'[e] # None
        PROVE  \E k \in 0 .. Len(member_list[e]) : daoMembersCache'[e] = enumerated(e, k)
    <3>1. CASE e = d
      BY <3>1 DEF SyncInv, CacheInv
    <3>2. CASE e # d
      <4>1. daoMembersCache'[e] = daoMembersCache[e]
        BY <3>2 DEF SyncInv, CacheInv
      <4> QED
        BY <2>1, <4>1 DEF SyncInv, CacheInv, RosterIsPrefix
    <3> QED
      BY <3>1, <3>2
  <2>2. SUFFICES ASSUME NEW e \in DaoId, daoMembersCache'[e] # None
                 PROVE  \E k \in 0 .. Len(member_list'[e]) :
                          daoMembersCache'[e] = {member_list'[e][i] : i \in 1 .. k}
    BY DEF RosterIsPrefix, enumerated
  <2>3. PICK k \in 0 .. Len(member_list[e]) : daoMembersCache'[e] = enumerated(e, k)
    BY <2>1, <2>2
  <2> QED
    BY <1>1, <2>3 DEF enumerated
<1> QED
  BY <1>3, <1>4 DEF SyncInv, CacheInv

\* A page, whole, short or empty, of the DAO being scanned.
LEMMA ReadPageStep ==
  ASSUME SyncInv, NEW m \in Scan, scan[m].todo # {},
         NEW page, read_page(m, page),
         page = << >> \/ page = get_members(current(m), scan[m].offset, BATCH_SIZE),
         UNCHANGED <<contract_vars, db_vars, daoAdminsCache, sync, up>>
  PROVE  SyncInv'
<1> DEFINE d == current(m)
           n == scan[m].offset
           found == scan[m].found \cup {page[i] : i \in DOMAIN page}
<1>1. /\ scan[m] \in ScanState /\ d \in DaoId /\ TokenTypeOK
      /\ scan[m].found = enumerated(d, n)
  BY CurrentDao DEF SyncInv, ScanInv, ScanState, RegistryAndSbtInv, SbtInv
<1>2. n \in 0 .. Len(member_list[d]) /\ Len(member_list[d]) \in Nat
  <2>1. member_list[d] \in Seq(Address)
    BY <1>1 DEF TokenTypeOK
  <2>2. Len(member_list[d]) \in Nat
    BY <2>1, LenProperties
  <2>3. n \in Nat
    BY <1>1 DEF ScanState
  <2>4. n <= Len(member_list[d])
    BY DEF SyncInv, ScanInv
  <2> QED
    BY <2>2, <2>3, <2>4
<1>3. Len(page) \in Nat /\ n + Len(page) \in 0 .. Len(member_list[d])
      /\ found = enumerated(d, n + Len(page))
  <2>1. CASE page = << >>
    <3>1. Len(page) = 0 /\ DOMAIN page = {}
      BY <2>1
    <3> QED
      BY <1>1, <1>2, <3>1
  <2>2. CASE page # << >>
    <3>1. page = get_members(d, n, BATCH_SIZE)
      BY <2>2
    <3> HIDE DEF d, n
    <3> QED
      BY <1>1, <1>2, <3>1, PageContent
  <2> QED
    BY <2>1, <2>2
<1>4. found \in SUBSET Address
  <2>1. member_list[d] \in Seq(Address)
    BY <1>1 DEF TokenTypeOK
  <2>2. \A i \in 1 .. n + Len(page) : member_list[d][i] \in Address
    BY <1>2, <1>3, <2>1, ElementOfSeq
  <2>3. enumerated(d, n + Len(page)) \subseteq Address
    BY <2>2 DEF enumerated
  <2> QED
    BY <1>3, <2>3
<1>5. CASE Len(page) = BATCH_SIZE
  <2> DEFINE state == [scan[m] EXCEPT !.offset = @ + Len(page), !.found = found]
  <2>1. scan' = [scan EXCEPT ![m] = state] /\ daoMembersCache' = daoMembersCache
    BY <1>5 DEF read_page
  <2> HIDE DEF found
  <2>2. n + Len(page) \in Nat
    BY <1>2, <1>3
  <2>3. /\ state \in ScanState /\ state.todo = scan[m].todo
        /\ state.offset = n + Len(page) /\ state.found = found
    BY <1>1, <1>4, <2>2 DEF ScanState
  <2> HIDE DEF state
  <2>4. ScanInv'
    BY <1>3, <2>1, <2>3, ScanChange
  <2> QED
    BY <2>1, <2>4, BackendFrame DEF SyncInv, cache_vars
<1>6. CASE Len(page) # BATCH_SIZE
  <2>1. /\ scan' = [scan EXCEPT ![m] = next_scan(m)]
        /\ daoMembersCache' = [daoMembersCache EXCEPT ![d] = found]
    BY <1>6 DEF read_page
  <2>2. CacheInv'
    BY <1>1, <1>3, <2>1, CacheChange
  <2>3. /\ next_scan(m) \in ScanState /\ next_scan(m).offset = 0 /\ next_scan(m).found = {}
    BY <1>1 DEF ScanState, next_scan
  <2>4. ScanInv'
    BY <2>1, <2>3, ScanChange
  <2> QED
    BY <2>2, <2>4, BackendFrame DEF SyncInv
<1> QED
  BY <1>5, <1>6

\* Whatever a membership scan does.
LEMMA ScansStep ==
  ASSUME SyncInv, NEW m \in Scan,
         \/ syncAllMemberships(m) \/ ScanStep(m)
         \/ \E d \in DaoId, type \in NotifiedType : triggerDaoMembershipSync(m, d, type)
  PROVE  SyncInv'
<1>1. /\ scan[m] \in ScanState /\ next_scan(m) \in ScanState
      /\ next_scan(m).offset = 0 /\ next_scan(m).found = {}
  BY DEF SyncInv, ScanInv, ScanState, next_scan
<1>2. CASE members_page(m)
  BY <1>2, ReadPageStep DEF members_page
<1>3. CASE members_page_refused(m)
  BY <1>3, ReadPageStep DEF members_page_refused
<1>4. CASE members_page_throws(m)
  <2>1. /\ scan' = [scan EXCEPT ![m] = next_scan(m)]
        /\ UNCHANGED <<contract_vars, db_vars, cache_vars, sync, up>>
    BY <1>4 DEF members_page_throws
  <2>2. ScanInv'
    BY <1>1, <2>1, ScanChange
  <2> QED
    BY <2>1, <2>2, BackendFrame DEF SyncInv
<1>5. ASSUME NEW todo \in SUBSET DaoId, scan[m].todo = {},
             scan' = [scan EXCEPT ![m].todo = todo],
             UNCHANGED <<contract_vars, db_vars, daoMembersCache, sync, up>>,
             daoAdminsCache' \in [DaoId -> Address \cup {None}]
      PROVE  SyncInv'
  <2> DEFINE state == [scan[m] EXCEPT !.todo = todo]
  <2>1. state \in ScanState /\ state.offset = scan[m].offset /\ state.found = scan[m].found
    BY <1>1, <1>5 DEF ScanState
  <2>2. scan' = [scan EXCEPT ![m] = state]
    BY <1>5
  <2> HIDE DEF state
  <2>3. scan[m].offset = 0 /\ scan[m].found = {}
    BY <1>5 DEF SyncInv, ScanInv
  <2>4. ScanInv'
    BY <1>5, <2>1, <2>2, <2>3, ScanChange
  <2>5. CacheInv'
    BY <1>5 DEF SyncInv, CacheInv, RosterIsPrefix, enumerated, contract_vars, sbt_vars
  <2> QED
    BY <1>5, <2>4, <2>5, BackendFrame DEF SyncInv
<1>6. CASE syncAllMemberships(m)
  <2>1. daoAdminsCache' \in [DaoId -> Address \cup {None}]
    <3>1. \A d \in DaoId : daos_table[d] # None => daos_table[d].creator \in Address \cup {None}
      BY DEF SyncInv, TableInv, Rows, DaoRow
    <3> QED
      BY <1>6, <3>1 DEF syncAllMemberships, SyncInv, CacheInv
  <2>2. getAllCachedDaos \in SUBSET DaoId
    BY DEF getAllCachedDaos
  <2> QED
    BY <1>5, <1>6, <2>1, <2>2 DEF syncAllMemberships
<1>7. ASSUME NEW d \in DaoId, NEW type \in NotifiedType, triggerDaoMembershipSync(m, d, type)
      PROVE  SyncInv'
  <2>1. {d} \in SUBSET DaoId
    OBVIOUS
  <2>2. daoAdminsCache \in [DaoId -> Address \cup {None}]
    BY DEF SyncInv, CacheInv
  <2> QED
    BY <1>5, <1>7, <2>1, <2>2 DEF triggerDaoMembershipSync, cache_vars
<1> QED
  BY <1>2, <1>3, <1>4, <1>6, <1>7 DEF ScanStep

\* The process ends, losing its memory, or starts again.
LEMMA ProcessStep ==
  ASSUME SyncInv, shutdown \/ listen
  PROVE  SyncInv'
<1>1. CASE shutdown
  <2>1. /\ UNCHANGED <<contract_vars, db_vars>> /\ up' = FALSE
        /\ sync' = [s \in Sync |-> IdleSync] /\ scan' = [m \in Scan |-> IdleScan]
        /\ daoMembersCache' = no_rows /\ daoAdminsCache' = no_rows
    BY <1>1 DEF shutdown
  <2>2. FetchInv'
    BY <2>1, IdleSyncState DEF FetchInv
  <2>3. ScanInv'
    BY <2>1 DEF ScanInv, IdleScan, ScanState
  <2>4. CacheInv'
    <3>1. /\ no_rows \in [DaoId -> (SUBSET Address) \cup {None}]
          /\ no_rows \in [DaoId -> Address \cup {None}]
          /\ \A d \in DaoId : no_rows[d] = None
      BY DEF no_rows
    <3>2. RosterIsPrefix'
      BY <2>1, <3>1 DEF RosterIsPrefix
    <3> QED
      BY <2>1, <3>1, <3>2 DEF CacheInv
  <2> QED
    BY <2>1, <2>2, <2>3, <2>4, BackendFrame DEF SyncInv
<1>2. CASE listen
  BY <1>2, BackendFrame DEF listen, SyncInv
<1> QED
  BY <1>1, <1>2

(***************************************************************************)
(* The theorems.                                                           *)
(***************************************************************************)

\* Every state of the copies and of the contracts they copy satisfies the inductive
\* invariant.
THEOREM SyncInvariant == Spec => []SyncInv
<1>1. Init => SyncInv
  BY SyncInitInv
<1>2. SyncInv /\ [Next]_vars => SyncInv'
  <2> SUFFICES ASSUME SyncInv, [Next]_vars PROVE SyncInv'
    OBVIOUS
  <2>1. CASE UNCHANGED vars
    BY <2>1, BackendFrame DEF vars, sync_vars, SyncInv
  <2>2. CASE Next
    BY <2>2, ContractStep, DaoSyncsStep, ScansStep, ProcessStep DEF Next
  <2> QED
    BY <2>1, <2>2
<1> QED
  BY <1>1, <1>2, PTL DEF Spec

\* Every variable of contracts and copies has its type, the table has rows only of DAOs
\* that exist, a DAO sync asks only for such, and a scan never reads past its list.
THEOREM SyncTypeCorrect == Spec => []SyncTypeOK
<1>1. SyncInv => SyncTypeOK
  BY DEF SyncInv, SyncTypeOK, SbtTypeOK, RegistryAndSbtInv, SbtInv, TokenTypeOK, TableInv,
         FetchInv, CacheInv, ScanInv
<1> QED
  BY <1>1, SyncInvariant, PTL

\* However scans overlap with each other, with members coming and going, with failing
\* pages and restarts, a cached member set is an initial part of the contract's list.
THEOREM RosterIsPrefixAlways == Spec => []RosterIsPrefix
<1>1. SyncInv => RosterIsPrefix
  BY DEF SyncInv, CacheInv
<1> QED
  BY <1>1, SyncInvariant, PTL
=============================================================================
