--------------------------- MODULE MembershipSbt ---------------------------
(***************************************************************************)
(* The membership-sbt contract: one non-transferable membership token per  *)
(* address and DAO.  A Member entry is written once and never deleted;     *)
(* revocation and leaving set a flag beside it, minting again clears it.   *)
(* The enumeration list (MemberCount, MemberAtIndex) is what get_members   *)
(* pages through.                                                          *)
(***************************************************************************)
EXTENDS DaoRegistry, FiniteSets

CONSTANTS
  Alias,     \* encrypted aliases
  MaxListed  \* bound of the model: a DAO's list, as mint_from_registry fills it

ASSUME SbtAssumption ==
  /\ None \notin Alias
  /\ MaxListed \in Nat

VARIABLES
  members,      \* members[d]: addresses with a Member entry
  revoked,      \* revoked[d]: addresses whose Revoked flag is set
  member_list,  \* member_list[d]: MemberAtIndex(d, 0), MemberAtIndex(d, 1), ...
  alias         \* alias[d][a]: the encrypted alias, or None

sbt_vars == <<members, revoked, member_list, alias>>

SbtTypeOK ==
  /\ RegistryTypeOK
  /\ members \in [DaoId -> SUBSET Address]
  /\ revoked \in [DaoId -> SUBSET Address]
  /\ member_list \in [DaoId -> Seq(Address)]
  /\ alias \in [DaoId -> [Address -> Alias \cup {None}]]

SbtInit ==
  /\ members = [d \in DaoId |-> {}]
  /\ revoked = [d \in DaoId |-> {}]
  /\ member_list = [d \in DaoId |-> << >>]
  /\ alias = [d \in DaoId |-> [a \in Address |-> None]]

has(d, a) == a \in members[d] \ revoked[d]

add_member_to_list(d, a) ==
  member_list' = [member_list EXCEPT ![d] = Append(@, a)]

\* Mutant of grant: the Revoked flag is taken for the Member entry, so an
\* address that comes back is appended to the list a second time.
GrantReenumerates(d, a, encrypted_alias) ==
  /\ ~has(d, a)
  /\ members' = [members EXCEPT ![d] = @ \cup {a}]
  /\ revoked' = [revoked EXCEPT ![d] = @ \ {a}]
  /\ add_member_to_list(d, a)
  /\ alias' = IF encrypted_alias = None THEN alias
              ELSE [alias EXCEPT ![d][a] = encrypted_alias]

\* Mutant of grant: a missing alias argument erases the stored alias.
GrantErasesAlias(d, a, encrypted_alias) ==
  /\ ~has(d, a)
  /\ members' = [members EXCEPT ![d] = @ \cup {a}]
  /\ revoked' = [revoked EXCEPT ![d] = @ \ {a}]
  /\ IF a \in members[d] THEN UNCHANGED member_list ELSE add_member_to_list(d, a)
  /\ alias' = [alias EXCEPT ![d][a] = encrypted_alias]

\* The part mint and self_join share: only an address without a Member entry
\* is appended to the list, and the alias is kept when none is given.
grant(d, a, encrypted_alias) ==
  /\ ~has(d, a)
  /\ members' = [members EXCEPT ![d] = @ \cup {a}]
  /\ revoked' = [revoked EXCEPT ![d] = @ \ {a}]
  /\ IF a \in members[d] THEN UNCHANGED member_list ELSE add_member_to_list(d, a)
  /\ alias' = IF encrypted_alias = None THEN alias
              ELSE [alias EXCEPT ![d][a] = encrypted_alias]

\* The flag revoke and leave set; the entry and the alias stay.
set_revoked(d, a) ==
  /\ a \in members[d]
  /\ revoked' = [revoked EXCEPT ![d] = @ \cup {a}]
  /\ UNCHANGED <<members, member_list, alias>>

mint(d, to, admin, encrypted_alias) ==
  /\ assert_admin(d, admin)
  /\ grant(d, to, encrypted_alias)

\* "called by the registry contract during create_and_init_dao", but nothing asks
\* who calls: anyone may, for any id and address.  It neither looks for an earlier
\* entry nor clears the revocation flag, so an address that is revoked is listed
\* again each time, and stays revoked.
mint_from_registry(d, to) ==
  /\ ~has(d, to)
  /\ Len(member_list[d]) < MaxListed
  /\ members' = [members EXCEPT ![d] = @ \cup {to}]
  /\ add_member_to_list(d, to)
  /\ UNCHANGED <<revoked, alias>>

revoke(d, member, admin) ==
  /\ assert_admin(d, admin)
  /\ set_revoked(d, member)

leave(d, member) == set_revoked(d, member)

self_join(d, member, encrypted_alias) ==
  /\ dao_exists(d)
  /\ is_membership_open(d)
  /\ grant(d, member, encrypted_alias)

update_alias(d, member, admin, new_encrypted_alias) ==
  /\ assert_admin(d, admin)
  /\ member \in members[d]
  /\ alias' = [alias EXCEPT ![d][member] = new_encrypted_alias]
  /\ UNCHANGED <<members, revoked, member_list>>

SbtTransaction ==
  \E d \in DaoId, a \in Address :
    \/ mint_from_registry(d, a)
    \/ leave(d, a)
    \/ \E al \in Alias \cup {None} : self_join(d, a, al)
    \/ \E admin \in Address :
         \/ \E al \in Alias \cup {None} : mint(d, a, admin, al)
         \/ revoke(d, a, admin)
         \/ \E al \in Alias : update_alias(d, a, admin, al)

SbtNext ==
  \/ RegistryNext /\ UNCHANGED sbt_vars
  \/ SbtTransaction /\ UNCHANGED registry_vars

MembershipInit == RegistryInit /\ SbtInit

SbtSpec == MembershipInit /\ [][SbtNext]_<<registry_vars, sbt_vars>>

(***************************************************************************)
(* Properties.                                                             *)
(***************************************************************************)

ListEnumeratesMembers ==
  \A d \in DaoId : {member_list[d][i] : i \in DOMAIN member_list[d]} = members[d]

ListStep ==
  /\ ListEnumeratesMembers'
  /\ \A d \in DaoId :
       revoked[d] \ revoked'[d] # {} => member_list'[d] = member_list[d]

\* The list get_members pages through names every address that ever held a
\* token and nobody else, and a token that is given back lists nobody: mint and
\* self_join recognise a returning member, however often it was revoked or left
\* (the backend's membership sync pages through this list).  That every address
\* is listed once is not claimed: mint_from_registry may list a revoked one again.
ListFollowsEntries == [][ListStep]_<<registry_vars, sbt_vars>>

EntriesStay ==
  \A d \in DaoId :
    /\ members[d] \subseteq members'[d]
    /\ \A i \in DOMAIN member_list[d] :
         i \in DOMAIN member_list'[d] /\ member_list'[d][i] = member_list[d][i]
    /\ revoked'[d] \subseteq members'[d]
    /\ \A a \in Address :
         /\ alias[d][a] # None => alias'[d][a] # None
         /\ alias'[d][a] # None => a \in members'[d]

\* "keeping member entry and alias intact": no transaction deletes a Member
\* entry, moves an address in the list or drops an alias, and only an address
\* with an entry is ever flagged revoked or given an alias.
EntriesArePermanent == [][EntriesStay]_<<registry_vars, sbt_vars>>
=============================================================================
