------------------------------ MODULE Election ------------------------------
(***************************************************************************)
(* What the voting contract promises of its proposals, without trees,      *)
(* proofs, nullifiers or keys: a poll opens with an electoral roll that    *)
(* never changes, each voter on it votes at most once while the poll is    *)
(* active, the tally is the count of the votes, and a poll that was closed *)
(* is never open again.                                                    *)
(***************************************************************************)
EXTENDS Naturals, FiniteSets

CONSTANTS
  Poll,    \* the polls that may be opened
  Voter    \* the identities that may be on a roll

VARIABLES
  phase,   \* phase[poll]: "None", "Active", "Closed" or "Archived"
  roll,    \* roll[poll]: who may vote
  votes,   \* votes[poll][voter]: "yes", "no" or "none"
  tally    \* tally[poll]: what the poll publishes

election_vars == <<phase, roll, votes, tally>>

Count(v) == [ yes |-> Cardinality({x \in Voter : v[x] = "yes"}),
              no  |-> Cardinality({x \in Voter : v[x] = "no"}) ]

NoVotes == [x \in Voter |-> "none"]

ElectionInit ==
  /\ phase = [poll \in Poll |-> "None"]
  /\ roll = [poll \in Poll |-> {}]
  /\ votes = [poll \in Poll |-> NoVotes]
  /\ tally = [poll \in Poll |-> Count(NoVotes)]

Open(poll) ==
  /\ phase[poll] = "None"
  /\ phase' = [phase EXCEPT ![poll] = "Active"]
  /\ \E electorate \in SUBSET Voter : roll' = [roll EXCEPT ![poll] = electorate]
  /\ UNCHANGED <<votes, tally>>

Cast(poll, voter, choice) ==
  /\ phase[poll] = "Active"
  /\ voter \in roll[poll]
  /\ votes[poll][voter] = "none"
  /\ votes' = [votes EXCEPT ![poll][voter] = choice]
  /\ tally' = [tally EXCEPT ![poll] = Count(votes'[poll])]
  /\ UNCHANGED <<phase, roll>>

Close(poll) ==
  /\ phase[poll] = "Active"
  /\ phase' = [phase EXCEPT ![poll] = "Closed"]
  /\ UNCHANGED <<roll, votes, tally>>

Archive(poll) ==
  /\ phase[poll] = "Closed"
  /\ phase' = [phase EXCEPT ![poll] = "Archived"]
  /\ UNCHANGED <<roll, votes, tally>>

ElectionNext ==
  \E poll \in Poll :
    \/ Open(poll)
    \/ \E voter \in Voter, choice \in {"yes", "no"} : Cast(poll, voter, choice)
    \/ Close(poll)
    \/ Archive(poll)

ElectionSpec == ElectionInit /\ [][ElectionNext]_election_vars
=============================================================================
