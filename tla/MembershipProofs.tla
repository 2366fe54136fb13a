-------------------------- MODULE MembershipProofs --------------------------
(***************************************************************************)
(* Theorems about the registry and the membership token.  The lemmas about *)
(* single entry points serve the layers above as well.                     *)
(***************************************************************************)
EXTENDS MembershipSbt, SequenceTheorems, WellFoundedInduction, TLAPS

(***************************************************************************)
(* Induction over the natural numbers, as facts about sets.                *)
(***************************************************************************)

\* A set of natural numbers that is not empty has a least element.
LEMMA LeastElement ==
  ASSUME NEW T \in SUBSET Nat, T # {}
  PROVE  \E m \in T : \A k \in T : m <= k
<1>1. IsWellFoundedOn(OpToRel(<, Nat), Nat)
  BY NatLessThanWellFounded
<1>2. PICK m \in T : \A k \in T : ~(<<k, m>> \in OpToRel(<, Nat))
  BY <1>1, WFMin
<1>3. \A k \in T : ~(k < m)
  BY <1>2 DEF OpToRel
<1> QED
  BY <1>3

\* A set that has 0 and, with a number, the next one, has every natural number.
LEMMA SetInduction ==
  ASSUME NEW S, 0 \in S, \A n \in Nat : n \in S => n + 1 \in S
  PROVE  Nat \subseteq S
<1> SUFFICES ASSUME Nat \ S # {} PROVE FALSE
  OBVIOUS
<1>1. PICK m \in Nat \ S : \A k \in Nat \ S : m <= k
  BY LeastElement
<1>2. m - 1 \in Nat /\ m - 1 \in S
  BY <1>1
<1> QED
  BY <1>1, <1>2

(***************************************************************************)
(* The registry.                                                           *)
(***************************************************************************)

\* Replacing one DAO's record by another keeps the number of DAOs.
LEMMA UpdateDao ==
  ASSUME RegistryTypeOK, NEW d, dao_exists(d), NEW info \in DaoInfo,
         daos' = [daos EXCEPT ![d] = info]
  PROVE  RegistryTypeOK' /\ Len(daos') = Len(daos)
<1>1. daos \in Seq(DaoInfo) /\ d \in 1 .. Len(daos)
  BY DEF RegistryTypeOK, dao_exists
<1>2. daos' \in Seq(DaoInfo) /\ Len(daos') = Len(daos)
  BY <1>1, ExceptSeq
<1> QED
  BY <1>2 DEF RegistryTypeOK

\* What a step of the registry does: it preserves the type invariant, and DAOs
\* keep existing.
LEMMA RegistryStep ==
  ASSUME RegistryTypeOK, RegistryNext
  PROVE  RegistryTypeOK' /\ Len(daos) <= Len(daos')
<1>1. /\ Len(daos) \in Nat
      /\ \A d \in DaoId : dao_exists(d) => daos[d] \in DaoInfo
  BY DEF RegistryTypeOK, dao_exists
<1> DEFINE Goal == RegistryTypeOK' /\ Len(daos) <= Len(daos')
<1>2. ASSUME NEW name \in Text, NEW a \in Address, NEW open \in BOOLEAN,
             NEW can_propose \in BOOLEAN, NEW cid \in Cid \cup {None},
             create_dao(name, a, open, can_propose, cid)
      PROVE  Goal
  <2> DEFINE info == [ admin |-> a, name |-> name, membership_open |-> open,
                       members_can_propose |-> can_propose, metadata_cid |-> cid ]
  <2>1. info \in DaoInfo /\ daos' = Append(daos, info) /\ Len(daos) + 1 <= MaxDaos
    BY <1>2 DEF create_dao, next_dao_id, DaoInfo
  <2> HIDE DEF info
  <2>2. daos' \in Seq(DaoInfo) /\ Len(daos') = Len(daos) + 1
    BY <2>1, AppendProperties DEF RegistryTypeOK
  <2> QED
    BY <1>1, <2>1, <2>2, RegistryAssumption DEF RegistryTypeOK
<1>3. ASSUME NEW d \in DaoId, NEW info \in DaoInfo, dao_exists(d),
             daos' = [daos EXCEPT ![d] = info]
      PROVE  Goal
  <2>1. RegistryTypeOK' /\ Len(daos') = Len(daos)
    BY <1>3, UpdateDao
  <2> QED
    BY <1>1, <2>1
<1>4. ASSUME NEW d \in DaoId, NEW new_admin \in Address, transfer_admin(d, new_admin)
      PROVE  Goal
  <2>1. dao_exists(d) /\ daos' = [daos EXCEPT ![d] = [@ EXCEPT !.admin = new_admin]]
    BY <1>4 DEF transfer_admin
  <2>2. [daos[d] EXCEPT !.admin = new_admin] \in DaoInfo
    BY <1>1, <2>1 DEF DaoInfo
  <2> QED
    BY <1>3, <2>1, <2>2
<1>5. ASSUME NEW d \in DaoId, NEW a \in Address, NEW v \in BOOLEAN,
             set_proposal_mode(d, v, a)
      PROVE  Goal
  <2>1. /\ dao_exists(d)
        /\ daos' = [daos EXCEPT ![d] = [@ EXCEPT !.members_can_propose = v]]
    BY <1>5 DEF set_proposal_mode, assert_admin
  <2>2. [daos[d] EXCEPT !.members_can_propose = v] \in DaoInfo
    BY <1>1, <2>1 DEF DaoInfo
  <2> QED
    BY <1>3, <2>1, <2>2
<1>6. ASSUME NEW d \in DaoId, NEW a \in Address, NEW v \in BOOLEAN,
             set_membership_open(d, v, a)
      PROVE  Goal
  <2>1. /\ dao_exists(d)
        /\ daos' = [daos EXCEPT ![d] = [@ EXCEPT !.membership_open = v]]
    BY <1>6 DEF set_membership_open, assert_admin
  <2>2. [daos[d] EXCEPT !.membership_open = v] \in DaoInfo
    BY <1>1, <2>1 DEF DaoInfo
  <2> QED
    BY <1>3, <2>1, <2>2
<1>7. ASSUME NEW d \in DaoId, NEW a \in Address, NEW name \in Text, set_name(d, name, a)
      PROVE  Goal
  <2>1. /\ dao_exists(d)
        /\ name \in ValidName
        /\ daos' = [daos EXCEPT ![d] = [@ EXCEPT !.name = name]]
    BY <1>7 DEF set_name, assert_admin
  <2>2. [daos[d] EXCEPT !.name = name] \in DaoInfo
    BY <1>1, <2>1 DEF DaoInfo
  <2> QED
    BY <1>3, <2>1, <2>2
<1>8. ASSUME NEW d \in DaoId, NEW a \in Address, NEW cid \in Cid \cup {None},
             set_metadata_cid(d, cid, a)
      PROVE  Goal
  <2>1. /\ dao_exists(d)
        /\ cid \in ValidCid
        /\ daos' = [daos EXCEPT ![d] = [@ EXCEPT !.metadata_cid = cid]]
    BY <1>8 DEF set_metadata_cid, assert_admin
  <2>2. [daos[d] EXCEPT !.metadata_cid = cid] \in DaoInfo
    BY <1>1, <2>1 DEF DaoInfo
  <2> QED
    BY <1>3, <2>1, <2>2
<1> QED
  BY <1>2, <1>4, <1>5, <1>6, <1>7, <1>8 DEF RegistryNext

(***************************************************************************)
(* The token.  The list is in step with the entries, and a flag or an      *)
(* alias needs an entry.                                                   *)
(***************************************************************************)
TokenTypeOK ==
  /\ members \in [DaoId -> SUBSET Address]
  /\ revoked \in [DaoId -> SUBSET Address]
  /\ member_list \in [DaoId -> Seq(Address)]
  /\ alias \in [DaoId -> [Address -> Alias \cup {None}]]

FlagsNeedEntry ==
  \A d \in DaoId :
    /\ revoked[d] \subseteq members[d]
    /\ \A a \in Address : alias[d][a] # None => a \in members[d]

SbtInv == TokenTypeOK /\ ListEnumeratesMembers /\ FlagsNeedEntry

\* Appending an address keeps the list in step, whether it had an entry or not.
LEMMA AppendToList ==
  ASSUME TokenTypeOK, ListEnumeratesMembers,
         NEW d \in DaoId, NEW a \in Address,
         members' = [members EXCEPT ![d] = @ \cup {a}],
         add_member_to_list(d, a)
  PROVE  /\ member_list' \in [DaoId -> Seq(Address)]
         /\ ListEnumeratesMembers'
         /\ \A e \in DaoId : \A i \in DOMAIN member_list[e] :
              i \in DOMAIN member_list'[e] /\ member_list'[e][i] = member_list[e][i]
<1> DEFINE s == member_list[d]
           t == Append(s, a)
<1>1. s \in Seq(Address) /\ DOMAIN s = 1 .. Len(s) /\ Len(s) \in Nat
  BY LenProperties DEF TokenTypeOK
<1>2. /\ t \in Seq(Address)
      /\ DOMAIN t = 1 .. Len(s) + 1
      /\ t[Len(s) + 1] = a
      /\ \A i \in 1 .. Len(s) : t[i] = s[i]
  BY <1>1, AppendProperties, LenProperties
<1>3. member_list' = [member_list EXCEPT ![d] = t]
  BY DEF add_member_to_list
<1>4. {s[i] : i \in DOMAIN s} = members[d]
  BY DEF ListEnumeratesMembers
<1>5. {t[i] : i \in DOMAIN t} = members[d] \cup {a}
  <2>1. {t[i] : i \in DOMAIN t} \subseteq members[d] \cup {a}
    BY <1>1, <1>2, <1>4
  <2>2. members[d] \cup {a} \subseteq {t[i] : i \in DOMAIN t}
    <3>1. Len(s) + 1 \in DOMAIN t /\ DOMAIN s \subseteq DOMAIN t
      BY <1>1, <1>2
    <3> HIDE DEF s, t
    <3> QED
      BY <1>1, <1>2, <1>4, <3>1
  <2> QED
    BY <2>1, <2>2
<1> HIDE DEF t
<1>6. member_list' \in [DaoId -> Seq(Address)]
  BY <1>2, <1>3 DEF TokenTypeOK
<1>7. \A e \in DaoId :
        /\ member_list'[e] = IF e = d THEN t ELSE member_list[e]
        /\ members'[e] = IF e = d THEN members[d] \cup {a} ELSE members[e]
  BY <1>3 DEF TokenTypeOK
<1>8. ListEnumeratesMembers'
  BY <1>5, <1>7 DEF ListEnumeratesMembers
<1>9. ASSUME NEW e \in DaoId, NEW i \in DOMAIN member_list[e]
      PROVE  i \in DOMAIN member_list'[e] /\ member_list'[e][i] = member_list[e][i]
  BY <1>1, <1>2, <1>7
<1> QED
  BY <1>6, <1>8, <1>9

\* When entries and the list stay as they are, only flags and aliases matter.
LEMMA FlagsOrAliasStep ==
  ASSUME SbtInv, UNCHANGED <<members, member_list>>,
         revoked' \in [DaoId -> SUBSET Address],
         alias' \in [DaoId -> [Address -> Alias \cup {None}]],
         \A d \in DaoId :
           /\ revoked'[d] \subseteq members[d]
           /\ \A a \in Address :
                /\ alias[d][a] # None => alias'[d][a] # None
                /\ alias'[d][a] # None => a \in members[d]
  PROVE  SbtInv' /\ EntriesStay /\ ListStep
<1>1. TokenTypeOK' /\ FlagsNeedEntry'
  BY DEF SbtInv, TokenTypeOK, FlagsNeedEntry
<1>2. ListEnumeratesMembers'
  BY DEF SbtInv, ListEnumeratesMembers
<1>3. EntriesStay
  BY DEF EntriesStay, SbtInv, TokenTypeOK
<1>4. ListStep
  BY <1>2 DEF ListStep
<1> QED
  BY <1>1, <1>2, <1>3, <1>4 DEF SbtInv

\* mint and self_join: a returning member is recognised by the entry.
LEMMA GrantStep ==
  ASSUME SbtInv, NEW d \in DaoId, NEW a \in Address, NEW al \in Alias \cup {None},
         grant(d, a, al)
  PROVE  /\ SbtInv' /\ EntriesStay /\ ListStep
         /\ \A e \in DaoId \ {d} : members'[e] = members[e]
<1> USE DEF SbtInv, TokenTypeOK
<1>1. /\ members' = [members EXCEPT ![d] = @ \cup {a}]
      /\ revoked' = [revoked EXCEPT ![d] = @ \ {a}]
      /\ alias' = IF al = None THEN alias ELSE [alias EXCEPT ![d][a] = al]
  BY DEF grant
<1>2. /\ member_list' \in [DaoId -> Seq(Address)]
      /\ ListEnumeratesMembers'
      /\ \A e \in DaoId : \A i \in DOMAIN member_list[e] :
           i \in DOMAIN member_list'[e] /\ member_list'[e][i] = member_list[e][i]
  <2>1. CASE a \in members[d]
    <3>1. members' = members /\ member_list' = member_list
      BY <1>1, <2>1 DEF grant
    <3> QED
      BY <3>1 DEF ListEnumeratesMembers
  <2>2. CASE a \notin members[d]
    <3>1. add_member_to_list(d, a)
      BY <2>2 DEF grant
    <3> QED
      BY <1>1, <2>2, <3>1, AppendToList
  <2> QED
    BY <2>1, <2>2
<1>3. /\ members' \in [DaoId -> SUBSET Address]
      /\ revoked' \in [DaoId -> SUBSET Address]
      /\ alias' \in [DaoId -> [Address -> Alias \cup {None}]]
  BY <1>1
<1>4. \A e \in DaoId :
        /\ members[e] \subseteq members'[e]
        /\ revoked'[e] \subseteq members'[e]
        /\ e # d => members'[e] = members[e]
  BY <1>1 DEF FlagsNeedEntry
<1>5. ASSUME NEW e \in DaoId, NEW b \in Address
      PROVE  /\ alias[e][b] # None => alias'[e][b] # None
             /\ alias'[e][b] # None => b \in members'[e]
  <2>1. alias'[e][b] = IF al # None /\ e = d /\ b = a THEN al ELSE alias[e][b]
    BY <1>1
  <2>2. a \in members'[d]
    BY <1>1
  <2> QED
    BY <1>4, <2>1, <2>2 DEF FlagsNeedEntry
<1>6. ASSUME NEW e \in DaoId, revoked[e] \ revoked'[e] # {}
      PROVE  member_list'[e] = member_list[e]
  <2>1. e = d /\ a \in revoked[d]
    BY <1>1, <1>6
  <2>2. a \in members[d]
    BY <2>1 DEF FlagsNeedEntry
  <2> QED
    BY <2>2 DEF grant
<1> QED
  BY <1>2, <1>3, <1>4, <1>5, <1>6 DEF FlagsNeedEntry, EntriesStay, ListStep

\* mint_from_registry, whoever calls it: it clears no flag.
LEMMA RegistryMintStep ==
  ASSUME SbtInv, NEW d \in DaoId, NEW a \in Address, mint_from_registry(d, a)
  PROVE  /\ SbtInv' /\ EntriesStay /\ ListStep
         /\ \A e \in DaoId \ {d} : members'[e] = members[e]
<1> USE DEF SbtInv, TokenTypeOK
<1>1. /\ members' = [members EXCEPT ![d] = @ \cup {a}]
      /\ add_member_to_list(d, a)
      /\ UNCHANGED <<revoked, alias>>
  BY DEF mint_from_registry
<1>2. /\ member_list' \in [DaoId -> Seq(Address)]
      /\ ListEnumeratesMembers'
      /\ \A e \in DaoId : \A i \in DOMAIN member_list[e] :
           i \in DOMAIN member_list'[e] /\ member_list'[e][i] = member_list[e][i]
  BY <1>1, AppendToList
<1>3. \A e \in DaoId :
        /\ members[e] \subseteq members'[e]
        /\ e # d => members'[e] = members[e]
  BY <1>1
<1>4. members' \in [DaoId -> SUBSET Address]
  BY <1>1
<1>5. ListStep
  BY <1>1, <1>2 DEF ListStep
<1> QED
  BY <1>1, <1>2, <1>3, <1>4, <1>5 DEF FlagsNeedEntry, EntriesStay

\* revoke, leave and remove_member: only the flag moves.
LEMMA SetRevokedStep ==
  ASSUME SbtInv, NEW d \in DaoId, NEW a \in Address, set_revoked(d, a)
  PROVE  SbtInv' /\ EntriesStay /\ ListStep /\ members' = members
<1>1. /\ a \in members[d]
      /\ revoked' = [revoked EXCEPT ![d] = @ \cup {a}]
      /\ UNCHANGED <<members, member_list, alias>>
  BY DEF set_revoked
<1>2. revoked' \in [DaoId -> SUBSET Address]
  BY <1>1 DEF SbtInv, TokenTypeOK
<1>3. \A e \in DaoId : revoked'[e] \subseteq members[e]
  BY <1>1 DEF SbtInv, TokenTypeOK, FlagsNeedEntry
<1> QED
  BY <1>1, <1>2, <1>3, FlagsOrAliasStep DEF SbtInv, TokenTypeOK, FlagsNeedEntry

\* An alias change leaves entries, order and flags alone.
LEMMA UpdateAliasStep ==
  ASSUME SbtInv, NEW d \in DaoId, NEW a \in Address, NEW al \in Alias,
         NEW admin, update_alias(d, a, admin, al)
  PROVE  SbtInv' /\ EntriesStay /\ ListStep /\ members' = members
<1>1. /\ a \in members[d]
      /\ alias' = [alias EXCEPT ![d][a] = al]
      /\ UNCHANGED <<members, revoked, member_list>>
  BY DEF update_alias
<1>2. alias' \in [DaoId -> [Address -> Alias \cup {None}]]
  BY <1>1 DEF SbtInv, TokenTypeOK
<1>3. \A e \in DaoId, b \in Address :
        alias'[e][b] = IF e = d /\ b = a THEN al ELSE alias[e][b]
  BY <1>1 DEF SbtInv, TokenTypeOK
<1> QED
  BY <1>1, <1>2, <1>3, FlagsOrAliasStep, SbtAssumption
  DEF SbtInv, TokenTypeOK, FlagsNeedEntry

\* A step that leaves registry and token alone keeps their invariant.
LEMMA SbtStutter ==
  ASSUME SbtInv, UNCHANGED sbt_vars
  PROVE  SbtInv' /\ EntriesStay /\ ListStep
BY FlagsOrAliasStep DEF sbt_vars, SbtInv, TokenTypeOK, FlagsNeedEntry

\* Every token transaction preserves the invariant and every entry, and lists nobody
\* for a token that is given back.
LEMMA SbtTransactionStep ==
  ASSUME SbtInv, SbtTransaction
  PROVE  SbtInv' /\ EntriesStay /\ ListStep
<1>1. PICK d \in DaoId, a \in Address :
        \/ mint_from_registry(d, a)
        \/ leave(d, a)
        \/ \E al \in Alias \cup {None} : self_join(d, a, al)
        \/ \E admin \in Address :
             \/ \E al \in Alias \cup {None} : mint(d, a, admin, al)
             \/ revoke(d, a, admin)
             \/ \E al \in Alias : update_alias(d, a, admin, al)
  BY DEF SbtTransaction
<1>2. CASE mint_from_registry(d, a)
  BY <1>2, RegistryMintStep
<1>3. CASE \/ leave(d, a)
           \/ \E admin \in Address : revoke(d, a, admin)
  <2>1. set_revoked(d, a)
    BY <1>3 DEF leave, revoke
  <2> QED
    BY <2>1, SetRevokedStep
<1>4. CASE \/ \E al \in Alias \cup {None} : self_join(d, a, al)
           \/ \E admin \in Address, al \in Alias \cup {None} : mint(d, a, admin, al)
  <2>1. PICK al \in Alias \cup {None} : grant(d, a, al)
    BY <1>4 DEF self_join, mint
  <2> QED
    BY <2>1, GrantStep
<1>5. CASE \E admin \in Address, al \in Alias : update_alias(d, a, admin, al)
  BY <1>5, UpdateAliasStep
<1> QED
  BY <1>1, <1>2, <1>3, <1>4, <1>5

\* The initial state and a step of the two contracts.
LEMMA SbtInitInv ==
  ASSUME RegistryInit, SbtInit
  PROVE  RegistryTypeOK /\ SbtInv
<1>1. RegistryTypeOK
  BY RegistryAssumption DEF RegistryInit, RegistryTypeOK
<1>2. TokenTypeOK /\ FlagsNeedEntry
  BY DEF SbtInit, TokenTypeOK, FlagsNeedEntry
<1>3. ListEnumeratesMembers
  BY DEF SbtInit, ListEnumeratesMembers
<1> QED
  BY <1>1, <1>2, <1>3 DEF SbtInv

\* Every transaction of registry or token preserves the invariant and every entry.
LEMMA SbtNextStep ==
  ASSUME RegistryTypeOK, SbtInv, SbtNext
  PROVE  RegistryTypeOK' /\ SbtInv' /\ EntriesStay /\ ListStep
<1>1. CASE RegistryNext /\ UNCHANGED sbt_vars
  BY <1>1, RegistryStep, SbtStutter
<1>2. CASE SbtTransaction /\ UNCHANGED registry_vars
  <2>1. RegistryTypeOK'
    BY <1>2 DEF registry_vars, RegistryTypeOK
  <2> QED
    BY <1>2, <2>1, SbtTransactionStep
<1> QED
  BY <1>1, <1>2 DEF SbtNext

RegistryAndSbtInv == RegistryTypeOK /\ SbtInv

\* The joint invariant of registry and token survives any step of another contract.
LEMMA RegistryAndSbtStutter ==
  ASSUME RegistryAndSbtInv, UNCHANGED <<registry_vars, sbt_vars>>
  PROVE  RegistryAndSbtInv'
<1>1. RegistryTypeOK'
  BY DEF RegistryAndSbtInv, registry_vars, RegistryTypeOK
<1>2. SbtInv'
  BY SbtStutter DEF RegistryAndSbtInv
<1> QED
  BY <1>1, <1>2 DEF RegistryAndSbtInv

(***************************************************************************)
(* The theorems of the two contracts.                                      *)
(***************************************************************************)

\* The inductive invariant of registry and token.
THEOREM SbtInvariant == SbtSpec => []RegistryAndSbtInv
<1>1. RegistryInit /\ SbtInit => RegistryAndSbtInv
  BY SbtInitInv DEF RegistryAndSbtInv
<1>2. RegistryAndSbtInv /\ [SbtNext]_<<registry_vars, sbt_vars>> => RegistryAndSbtInv'
  BY SbtNextStep, RegistryAndSbtStutter DEF RegistryAndSbtInv
<1> QED
  BY <1>1, <1>2, PTL DEF SbtSpec, MembershipInit

\* Whatever admins, members and outsiders do, registry and token state keep
\* their types.
THEOREM SbtTypeCorrect == SbtSpec => []SbtTypeOK
<1>1. RegistryAndSbtInv => SbtTypeOK
  BY DEF RegistryAndSbtInv, SbtInv, TokenTypeOK, SbtTypeOK
<1> QED
  BY <1>1, SbtInvariant, PTL

\* The list get_members pages through names the addresses with an entry and nobody
\* else, and a step that gives a token back leaves it as it is, through any sequence
\* of mint, revoke, leave, self_join and mint_from_registry.
THEOREM ListFollowsEntriesAlways == SbtSpec => ListFollowsEntries
<1>1. RegistryAndSbtInv /\ [SbtNext]_<<registry_vars, sbt_vars>>
        => [ListStep]_<<registry_vars, sbt_vars>>
  BY SbtNextStep DEF RegistryAndSbtInv
<1> QED
  BY <1>1, SbtInvariant, PTL DEF SbtSpec, ListFollowsEntries

\* No transaction deletes an entry, moves an address in the list or drops an
\* alias.
THEOREM EntriesArePermanentAlways == SbtSpec => EntriesArePermanent
<1>1. RegistryAndSbtInv /\ [SbtNext]_<<registry_vars, sbt_vars>>
        => [EntriesStay]_<<registry_vars, sbt_vars>>
  BY SbtNextStep DEF RegistryAndSbtInv
<1> QED
  BY <1>1, SbtInvariant, PTL DEF SbtSpec, EntriesArePermanent
=============================================================================
