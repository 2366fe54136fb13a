------------------------------ MODULE MCClient ------------------------------
(* One DAO, the members a1 and a2, whose commitments have a secret each, and a
   tree of two leaves. *)
EXTENDS MemberClient
CONSTANTS a1, a2, c1, c2

MCCommitmentOf(a) == IF a = a1 THEN c1 ELSE c2
MCSecretOf(c) == IF c = c1 THEN 1 ELSE 2
MCNullifierOf(s, d, p) == s
MCSecret == {1, 2}
MCForm == {[name |-> 24, creator |-> a1, membership_open |-> TRUE, members_can_propose |-> TRUE]}
MCU256 == 1 .. 2
=============================================================================
