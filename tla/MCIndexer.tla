----------------------------- MODULE MCIndexer -----------------------------
(* Two contracts and two transactions: t1 emits an event in each contract, as the
   creation of a DAO does, t2 a third one in the second, where a page takes one.
   Clients announce either transaction as what e1 is: rightly for t1, wrongly for t2. *)
EXTENDS EventIndexer
CONSTANTS votes, members, t1, t2, e1, e2, e3, k1, k2, k3

MCContracts == <<votes, members>>
MCTxOf(e) == IF e = e3 THEN t2 ELSE t1
MCContractOf(e) == IF e = e1 THEN votes ELSE members
MCKindOf(e) == IF e = e1 THEN k1 ELSE IF e = e2 THEN k2 ELSE k3
=============================================================================
