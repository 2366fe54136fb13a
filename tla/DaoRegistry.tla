---------------------------- MODULE DaoRegistry ----------------------------
(***************************************************************************)
(* The dao-registry contract: one record per DAO, created by anyone and    *)
(* changed by the DAO's admin.  A Soroban transaction is atomic and a      *)
(* panic rolls it back, so an entry point is one action whose guard is the *)
(* conjunction of the checks that would have panicked.  An operator named  *)
(* after an entry point constrains the variables of its own contract (and  *)
(* of the contracts it calls); the next-state relation of each layer adds  *)
(* what stays unchanged.  The address passed to require_auth is a          *)
(* parameter: whoever signs the transaction.                               *)
(***************************************************************************)
EXTENDS Integers, Sequences

CONSTANTS
  Address,   \* accounts that may sign a transaction
  Text,      \* strings a caller may pass, each represented by its length
  Cid,       \* IPFS CIDs a caller may pass, represented likewise
  None,      \* Option::None
  MaxDaos    \* bound of the model: DAOs created in a behaviour

ASSUME RegistryAssumption ==
  /\ Text \subseteq Nat
  /\ Cid \subseteq Nat
  /\ None \notin Cid
  /\ MaxDaos \in Nat

VARIABLE daos   \* daos[d] is the DaoInfo of DAO d; DAO_COUNT is Len(daos)

registry_vars == <<daos>>

MAX_DAO_NAME_LEN == 24
MAX_METADATA_CID_LEN == 64

DaoId == 1 .. MaxDaos

ValidName == {name \in Text : name <= MAX_DAO_NAME_LEN}
ValidCid  == {None} \cup {cid \in Cid : cid <= MAX_METADATA_CID_LEN}

\* created_at is left out: no contract reads it.
DaoInfo == [ admin               : Address,
             name                : ValidName,
             membership_open     : BOOLEAN,
             members_can_propose : BOOLEAN,
             metadata_cid        : ValidCid ]

RegistryTypeOK == daos \in Seq(DaoInfo) /\ Len(daos) <= MaxDaos

dao_exists(d) == d \in 1 .. Len(daos)
get_admin(d) == daos[d].admin
is_membership_open(d) == daos[d].membership_open
members_can_propose(d) == daos[d].members_can_propose

\* The check every admin entry point makes, here and in the other contracts:
\* get_admin panics when the DAO does not exist.
assert_admin(d, admin) == dao_exists(d) /\ get_admin(d) = admin

next_dao_id == Len(daos) + 1

RegistryInit == daos = << >>

\* Mutant of create_dao: the name's length is not checked.
CreateDaoAnyName(name, creator, open, can_propose, cid) ==
  /\ cid \in ValidCid
  /\ next_dao_id <= MaxDaos
  /\ daos' = Append(daos, [ admin               |-> creator,
                            name                |-> name,
                            membership_open     |-> open,
                            members_can_propose |-> can_propose,
                            metadata_cid        |-> cid ])

create_dao(name, creator, open, can_propose, cid) ==
  /\ name \in ValidName
  /\ cid \in ValidCid
  /\ next_dao_id <= MaxDaos
  /\ daos' = Append(daos, [ admin               |-> creator,
                            name                |-> name,
                            membership_open     |-> open,
                            members_can_propose |-> can_propose,
                            metadata_cid        |-> cid ])

transfer_admin(d, new_admin) ==
  /\ dao_exists(d)
  /\ daos' = [daos EXCEPT ![d].admin = new_admin]

set_proposal_mode(d, can_propose, admin) ==
  /\ assert_admin(d, admin)
  /\ daos' = [daos EXCEPT ![d].members_can_propose = can_propose]

set_membership_open(d, open, admin) ==
  /\ assert_admin(d, admin)
  /\ daos' = [daos EXCEPT ![d].membership_open = open]

set_name(d, name, admin) ==
  /\ name \in ValidName
  /\ assert_admin(d, admin)
  /\ daos' = [daos EXCEPT ![d].name = name]

set_metadata_cid(d, cid, admin) ==
  /\ cid \in ValidCid
  /\ assert_admin(d, admin)
  /\ daos' = [daos EXCEPT ![d].metadata_cid = cid]

RegistryNext ==
  \/ \E name \in Text, a \in Address, open, can_propose \in BOOLEAN,
        cid \in Cid \cup {None} : create_dao(name, a, open, can_propose, cid)
  \/ \E d \in DaoId :
       \/ \E new_admin \in Address : transfer_admin(d, new_admin)
       \/ \E a \in Address :
            \/ \E v \in BOOLEAN : set_proposal_mode(d, v, a)
            \/ \E v \in BOOLEAN : set_membership_open(d, v, a)
            \/ \E name \in Text : set_name(d, name, a)
            \/ \E cid \in Cid \cup {None} : set_metadata_cid(d, cid, a)

RegistrySpec == RegistryInit /\ [][RegistryNext]_registry_vars
=============================================================================
