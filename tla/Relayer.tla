------------------------------ MODULE Relayer ------------------------------
(***************************************************************************)
(* How an anonymous vote on an open proposal reaches the chain; an          *)
(* anonymous comment goes the same way.  The browser's relayerFetch tries a *)
(* call several times, giving up on an attempt after a timeout; the backend *)
(* runs one handler per attempt, whether anybody still waits for it or not. *)
(* All handlers sign with one account: each reads its sequence number,      *)
(* simulates, submits and polls for the result, and nothing keeps two of    *)
(* them from reading the same number.  An await is a step; every call may   *)
(* fail or time out.                                                        *)
(***************************************************************************)
EXTENDS Naturals, FiniteSets

CONSTANTS
  Voter,      \* browsers with a vote to cast on one proposal
  Handler,    \* bound of the model: <<browser, number>>, the handlers that may run at once
  None,
  MaxRetries, \* attempts of one call, 3 in the code
  MaxOthers   \* bound of the model: transactions of other requests, comments for one

Choice == {"yes", "no"}

ASSUME RelayerAssumption ==
  /\ Handler \subseteq Voter \X Nat
  /\ None \notin Handler \cup Voter \cup Choice
  /\ MaxRetries \in Nat \ {0}
  /\ MaxOthers \in Nat

\* The handlers that may serve a browser.
of(c) == {h \in Handler : h[1] = c}

VARIABLES
  recorded,  \* the contracts: the choice counted for each voter, or None
  mempool,   \* the relayer account's transaction waiting for a ledger, or None
  handler,   \* the backend's requests
  others,    \* number of other requests' transactions so far
  modal,     \* VoteModal: the call each browser is making
  backoff    \* whether relayerFetch backs off, in each browser

chain_vars == <<recorded, mempool, others>>
vars == <<chain_vars, handler, modal, backoff>>

Transaction ==
  [client : Voter \cup {None}, choice : Choice \cup {None}, by : Handler \cup {None}]

Request ==
  [at : {"free", "account", "simulate", "send", "wait"}, choice : Choice \cup {None},
   current : BOOLEAN, outcome : {None, "SUCCESS", "FAILED"}]

Call ==
  [step : {"select", "submitting", "success", "error"}, choice : Choice \cup {None},
   attempt : 0 .. MaxRetries, on : Handler \cup {None}]

Free == [at |-> "free", choice |-> None, current |-> FALSE, outcome |-> None]
Failed == [step |-> "error", choice |-> None, attempt |-> 0, on |-> None]
Idle == [step |-> "select", choice |-> None, attempt |-> 0, on |-> None]

(***************************************************************************)
(* Connection state (api.ts).  The failure counter sets the length of the   *)
(* backoff, which is left out (a backoff ends at some time), and, from the   *)
(* third on, shows the banner, whose button asks for the check below.       *)
(***************************************************************************)
markSuccess(c) == backoff' = [backoff EXCEPT ![c] = FALSE]

markFailure(c) == backoff' = [backoff EXCEPT ![c] = TRUE]

backoff_ends(c) ==
  /\ backoff[c]
  /\ markSuccess(c)
  /\ UNCHANGED <<chain_vars, handler, modal>>

\* checkRelayerHealth: one attempt, whatever the backoff.
checkRelayerHealth(c) ==
  /\ markSuccess(c) \/ markFailure(c)
  /\ UNCHANGED <<chain_vars, handler, modal>>

(***************************************************************************)
(* The browser's call.                                                     *)
(***************************************************************************)
submitting(c) == modal[c].step = "submitting"

\* relayerFetch refuses at once while it backs off.
submit(c, choice) ==
  /\ modal[c].step \in {"select", "error"}
  /\ modal' = [modal EXCEPT ![c] =
       IF backoff[c]
       THEN Failed
       ELSE [step |-> "submitting", choice |-> choice, attempt |-> 1, on |-> None]]
  /\ UNCHANGED <<chain_vars, handler, backoff>>

\* An attempt reaches the backend, where a handler begins.
fetch(c, h) ==
  /\ submitting(c) /\ modal[c].on = None
  /\ handler[h].at = "free"
  /\ handler' = [handler EXCEPT ![h] = [Free EXCEPT !.at = "account", !.choice = modal[c].choice]]
  /\ modal' = [modal EXCEPT ![c].on = h]
  /\ UNCHANGED <<chain_vars, backoff>>

\* Mutant of next_attempt: the loop goes round once more.
NextAttemptOneMore(c) ==
  LET call == modal[c] IN
  modal' = [modal EXCEPT ![c] =
    IF call.attempt <= MaxRetries THEN [call EXCEPT !.attempt = @ + 1, !.on = None] ELSE Failed]

\* Mutant of next_attempt: a failed attempt does not count.
NextAttemptForever(c) ==
  modal' = [modal EXCEPT ![c] = [@ EXCEPT !.on = None]]

next_attempt(c) ==
  LET call == modal[c] IN
  modal' = [modal EXCEPT ![c] =
    IF call.attempt < MaxRetries THEN [call EXCEPT !.attempt = @ + 1, !.on = None] ELSE Failed]

\* The request is lost, the connection refused, or the rate limiter answers 429.
fetch_fails(c) ==
  /\ submitting(c) /\ modal[c].on = None
  /\ markFailure(c)
  /\ next_attempt(c)
  /\ UNCHANGED <<chain_vars, handler>>

\* The answer does not come in time, or gets lost.  The handler is not stopped.
fetch_times_out(c) ==
  /\ submitting(c) /\ modal[c].on # None
  /\ markFailure(c)
  /\ next_attempt(c)
  /\ UNCHANGED <<chain_vars, handler>>

\* The page is loaded anew.
reload(c) ==
  /\ modal' = [modal EXCEPT ![c] = Idle]
  /\ markSuccess(c)
  /\ UNCHANGED <<chain_vars, handler>>

(***************************************************************************)
(* The voting contract, as far as the handlers see it: a vote is accepted   *)
(* while its nullifier is unused.                                          *)
(***************************************************************************)
accepts(c) == recorded[c] = None

(***************************************************************************)
(* The handler of POST /vote.                                              *)
(***************************************************************************)
\* The response: whoever still waits for this handler gets it.  Any HTTP answer
\* counts as a success of the connection.
answer(h, ok) ==
  LET c == h[1] IN
  /\ handler' = [handler EXCEPT ![h] = Free]
  /\ IF submitting(c) /\ modal[c].on = h
     THEN /\ modal' = [modal EXCEPT ![c] =
                 IF ok THEN [@ EXCEPT !.step = "success", !.attempt = 0, !.on = None] ELSE Failed]
          /\ markSuccess(c)
     ELSE UNCHANGED <<modal, backoff>>

\* The handler forgets its transaction; the mempool does not.
leave(h) == IF mempool # None /\ mempool.by = h THEN [mempool EXCEPT !.by = None] ELSE mempool

\* Mutant of getAccount: the account is read once and its number used for ever.
GetAccountCached(h) ==
  /\ handler[h].at = "account"
  /\ handler' = [handler EXCEPT ![h].at = "simulate", ![h].current = others = 0]
  /\ UNCHANGED <<chain_vars, modal, backoff>>

getAccount(h) ==
  /\ handler[h].at = "account"
  /\ handler' = [handler EXCEPT ![h].at = "simulate", ![h].current = TRUE]
  /\ UNCHANGED <<chain_vars, modal, backoff>>

simulateTransaction(h) ==
  /\ handler[h].at = "simulate"
  /\ IF accepts(h[1]) THEN /\ handler' = [handler EXCEPT ![h].at = "send"]
                           /\ UNCHANGED <<modal, backoff>>
                      ELSE answer(h, FALSE)
  /\ UNCHANGED chain_vars

\* The node takes one pending transaction per account.  ERROR (a used sequence
\* number) ends the request; TRY_AGAIN_LATER, like PENDING, goes on to the wait.
sendTransaction(h) ==
  /\ handler[h].at = "send"
  /\ IF handler[h].current
     THEN /\ handler' = [handler EXCEPT ![h] = [Free EXCEPT !.at = "wait"]]
          /\ mempool' = IF mempool = None
                        THEN [client |-> h[1], choice |-> handler[h].choice, by |-> h] ELSE mempool
          /\ UNCHANGED <<modal, backoff>>
     ELSE answer(h, FALSE) /\ UNCHANGED mempool
  /\ UNCHANGED <<recorded, others>>

\* A call throws or times out.  A submission that does may have arrived.
call_fails(h) ==
  /\ handler[h].at \in {"account", "simulate", "send"}
  /\ answer(h, FALSE)
  /\ \/ UNCHANGED mempool
     \/ /\ handler[h].at = "send" /\ handler[h].current /\ mempool = None
        /\ mempool' = [client |-> h[1], choice |-> handler[h].choice, by |-> None]
  /\ UNCHANGED <<recorded, others>>

waitForTransaction(h) ==
  /\ handler[h].at = "wait"
  /\ handler[h].outcome # None
  /\ answer(h, handler[h].outcome = "SUCCESS")
  /\ UNCHANGED chain_vars

\* Mutant of wait_times_out: a transaction that was submitted is taken for done.
WaitTrustsSubmission(h) ==
  /\ handler[h].at = "wait"
  /\ answer(h, TRUE)
  /\ mempool' = leave(h)
  /\ UNCHANGED <<recorded, others>>

\* Thirty polls found nothing, a poll threw, or the timeout around them expired: 504.
wait_times_out(h) ==
  /\ handler[h].at = "wait"
  /\ answer(h, FALSE)
  /\ mempool' = leave(h)
  /\ UNCHANGED <<recorded, others>>

\* The backend restarts; browsers find out by their timeout.
restart ==
  /\ handler' = [h \in Handler |-> Free]
  /\ mempool' = IF mempool = None THEN None ELSE [mempool EXCEPT !.by = None]
  /\ UNCHANGED <<recorded, others, modal, backoff>>

(***************************************************************************)
(* The chain.                                                              *)
(***************************************************************************)
\* A ledger takes the transaction: the sequence number is used up, whether the
\* contract accepts it or not.
LedgerClose ==
  /\ mempool # None
  /\ LET c == mempool.client
         ok == c # None /\ accepts(c)
     IN  /\ recorded' = IF ok THEN [recorded EXCEPT ![c] = mempool.choice] ELSE recorded
         /\ handler' = [h \in Handler |->
              IF mempool.by = h
              THEN [handler[h] EXCEPT !.outcome = IF ok THEN "SUCCESS" ELSE "FAILED"]
              ELSE [handler[h] EXCEPT !.current = FALSE]]
  /\ mempool' = None
  /\ UNCHANGED <<others, modal, backoff>>

\* A request of another kind, signed by the same account, is submitted.
other_request ==
  /\ mempool = None
  /\ others < MaxOthers
  /\ mempool' = [client |-> None, choice |-> None, by |-> None]
  /\ others' = others + 1
  /\ UNCHANGED <<recorded, handler, modal, backoff>>

\* Its time bounds pass, or the node drops it.
Expire ==
  /\ mempool # None
  /\ mempool' = None
  /\ UNCHANGED <<recorded, others, handler, modal, backoff>>

Init ==
  /\ recorded = [c \in Voter |-> None]
  /\ mempool = None
  /\ others = 0
  /\ handler = [h \in Handler |-> Free]
  /\ modal = [c \in Voter |-> Idle]
  /\ backoff = [c \in Voter |-> FALSE]

HandlerStep(h) ==
  \/ getAccount(h) \/ simulateTransaction(h) \/ sendTransaction(h) \/ waitForTransaction(h)
  \/ call_fails(h) \/ wait_times_out(h)

CallStep(c) == fetch_fails(c) \/ fetch_times_out(c) \/ \E h \in of(c) : fetch(c, h)

Next ==
  \/ \E c \in Voter :
       \/ \E choice \in Choice : submit(c, choice)
       \/ CallStep(c)
       \/ backoff_ends(c) \/ checkRelayerHealth(c) \/ reload(c)
  \/ \E h \in Handler : HandlerStep(h)
  \/ restart
  \/ other_request \/ LedgerClose \/ Expire

Spec == Init /\ [][Next]_vars

\* Timers run out and awaited calls settle.
CodeFairness ==
  /\ \A c \in Voter : WF_vars(CallStep(c)) /\ WF_vars(backoff_ends(c))
  /\ \A h \in Handler : WF_vars(HandlerStep(h))

\* What the code cannot bring about but votes depend on: a voter who keeps trying,
\* and calls and transactions that do not fail for ever.
Perseverance ==
  \A c \in Voter :
    /\ SF_vars(\E choice \in Choice : submit(c, choice) /\ ~backoff[c])
    /\ SF_vars(\E h \in of(c) : fetch(c, h))
    /\ SF_vars(\E h \in of(c) : getAccount(h))
    /\ SF_vars(\E h \in of(c) : simulateTransaction(h))
    /\ SF_vars(\E h \in of(c) : sendTransaction(h) /\ mempool = None /\ handler[h].current)
    /\ SF_vars(LedgerClose)

FairSpec == Spec /\ CodeFairness /\ Perseverance

(***************************************************************************)
(* Properties.                                                             *)
(***************************************************************************)
RelayerTypeOK ==
  /\ recorded \in [Voter -> Choice \cup {None}]
  /\ others \in 0 .. MaxOthers
  /\ mempool \in Transaction \cup {None}
  /\ handler \in [Handler -> Request]
  /\ modal \in [Voter -> Call]
  /\ backoff \in [Voter -> BOOLEAN]
  /\ mempool # None => /\ mempool.client = None <=> mempool.choice = None
                       /\ mempool.by # None => handler[mempool.by].at = "wait"
  /\ \A h \in Handler : handler[h].outcome # None => handler[h].at = "wait"
  /\ \A c \in Voter :
       /\ submitting(c) <=> modal[c].attempt # 0
       /\ modal[c].on # None => submitting(c)

\* "Your anonymous vote has been recorded on the blockchain": however attempts were
\* retried, overtaken by earlier ones that were given up, refused a sequence number
\* or lost, a browser shows success only for a vote the contract counted, with the
\* very choice it shows.
ConfirmedIsRecorded ==
  \A c \in Voter : modal[c].step = "success" => recorded[c] = modal[c].choice

\* The dialog does not submit for ever: every call ends in success or error, unless
\* the page is loaded anew.
EveryCallSettles == \A c \in Voter : submitting(c) ~> ~submitting(c)

\* Concurrent requests may all read one sequence number, of which one is used and
\* the others are refused; still every voter who keeps trying is counted in the end,
\* once other requests leave the account alone.
EveryVoterIsCounted == \A c \in Voter : <>(recorded[c] # None)
=============================================================================
