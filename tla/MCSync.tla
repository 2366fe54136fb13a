------------------------------- MODULE MCSync -------------------------------
(* A DAO with its creator's token, a second DAO that may appear while syncs run, two
   accounts and pages of one member.  Of the registry's transactions, those that
   create a DAO like the first and those that open or close its membership. *)
EXTENDS DaoSync
CONSTANTS a1, a2

FirstDao == [ name |-> 24, admin |-> a1, membership_open |-> FALSE,
              members_can_propose |-> FALSE, metadata_cid |-> None ]

MCInit ==
  /\ SyncInit
  /\ daos = <<FirstDao>>
  /\ members = [d \in DaoId |-> IF d = 1 THEN {a1} ELSE {}]
  /\ member_list = [d \in DaoId |-> IF d = 1 THEN <<a1>> ELSE << >>]
  /\ revoked = [d \in DaoId |-> {}]
  /\ alias = [d \in DaoId |-> [a \in Address |-> None]]

MCChange ==
  \/ UNCHANGED daos
  \/ daos' = Append(daos, FirstDao)
  \/ daos' = [daos EXCEPT ![1].membership_open = ~@]

MCSpec == MCInit /\ [][Next /\ MCChange]_vars /\ Fairness
=============================================================================
