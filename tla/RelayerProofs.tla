--------------------------- MODULE RelayerProofs ---------------------------
(***************************************************************************)
(* Theorems about Relayer, for every value of its constants: any number of *)
(* browsers, of handlers running for each and of attempts of a call.       *)
(***************************************************************************)
EXTENDS Relayer, TLAPS

(***************************************************************************)
(* The inductive invariant.  A confirmation passes through four hands, the *)
(* browser, its handler, the transaction and the contract, and the browser *)
(* compares nothing: what each has must be what the one before it had,     *)
(* whatever was given up, overtaken or restarted in between.               *)
(***************************************************************************)
\* A browser waits only for a handler of its own, has a choice while it waits, and
\* shows success only for the choice the contract has.
CallsAreOwn ==
  \A c \in Voter :
    /\ modal[c].on # None => modal[c].on \in of(c)
    /\ modal[c].step \in {"submitting", "success"} => modal[c].choice \in Choice
    /\ modal[c].step = "success" => recorded[c] = modal[c].choice

\* A handler that still has to submit has the choice of the browser that waits for it.
HandlersServe ==
  \A h \in Handler :
    /\ handler[h].at \in {"account", "simulate", "send"} => handler[h].choice \in Choice
    /\ (modal[h[1]].on = h /\ handler[h].at \in {"account", "simulate", "send"}) =>
         handler[h].choice = modal[h[1]].choice

\* The transaction a handler waits for votes for its voter, with the choice of the
\* browser that waits; the handler has not been told its outcome.
TransactionServes ==
  mempool # None /\ mempool.by # None =>
    /\ mempool.client = mempool.by[1]
    /\ handler[mempool.by].outcome = None
    /\ modal[mempool.client].on = mempool.by => mempool.choice = modal[mempool.client].choice

\* An outcome reported to a handler is in the contract's state.
OutcomesAreTrue ==
  \A h \in Handler :
    handler[h].outcome # None /\ handler[h].outcome = "SUCCESS" =>
      /\ recorded[h[1]] # None
      /\ modal[h[1]].on = h => recorded[h[1]] = modal[h[1]].choice

RelayerInv ==
  /\ RelayerTypeOK
  /\ CallsAreOwn
  /\ HandlersServe
  /\ TransactionServes
  /\ OutcomesAreTrue

\* At first no call runs and nothing is recorded.
LEMMA RelayerInit == Init => RelayerInv
BY RelayerAssumption
   DEF Init, RelayerInv, RelayerTypeOK, CallsAreOwn, HandlersServe, TransactionServes,
       OutcomesAreTrue, Request, Call, Free, Idle, submitting


\* The types of what a transaction, a request and a call consist of.
LEMMA RelayerTypes ==
  ASSUME RelayerTypeOK
  PROVE  /\ \A h \in Handler :
              /\ h[1] \in Voter /\ h # None
              /\ handler[h].at \in {"free", "account", "simulate", "send", "wait"}
              /\ handler[h].choice \in Choice \cup {None}
              /\ handler[h].current \in BOOLEAN
              /\ handler[h].outcome \in {None, "SUCCESS", "FAILED"}
         /\ \A c \in Voter :
              /\ modal[c].step \in {"select", "submitting", "success", "error"}
              /\ modal[c].choice \in Choice \cup {None}
              /\ modal[c].attempt \in 0 .. MaxRetries
              /\ modal[c].on \in Handler \cup {None}
              /\ recorded[c] \in Choice \cup {None}
         /\ mempool # None =>
              /\ mempool.client \in Voter \cup {None}
              /\ mempool.choice \in Choice \cup {None}
              /\ mempool.by \in Handler \cup {None}
<1>1. \A h \in Handler : h[1] \in Voter /\ h # None
  BY RelayerAssumption
<1>2. \A h \in Handler : handler[h] \in Request
  BY DEF RelayerTypeOK
<1>3. \A c \in Voter : modal[c] \in Call /\ recorded[c] \in Choice \cup {None}
  BY DEF RelayerTypeOK
<1>4. mempool # None => mempool \in Transaction
  BY DEF RelayerTypeOK
<1> QED
  BY <1>1, <1>2, <1>3, <1>4 DEF Request, Call, Transaction

\* The fields of a call after each of the changes the browser makes to it.
LEMMA CallOn ==
  ASSUME NEW call \in Call, NEW h \in Handler
  PROVE  /\ [call EXCEPT !.on = h] \in Call
         /\ [call EXCEPT !.on = h].on = h
         /\ [call EXCEPT !.on = h].step = call.step
         /\ [call EXCEPT !.on = h].choice = call.choice
         /\ [call EXCEPT !.on = h].attempt = call.attempt
BY DEF Call

\* A call goes to its next attempt.
LEMMA CallAgain ==
  ASSUME NEW call \in Call, call.attempt < MaxRetries
  PROVE  /\ [call EXCEPT !.attempt = @ + 1, !.on = None] \in Call
         /\ [call EXCEPT !.attempt = @ + 1, !.on = None].on = None
         /\ [call EXCEPT !.attempt = @ + 1, !.on = None].step = call.step
         /\ [call EXCEPT !.attempt = @ + 1, !.on = None].choice = call.choice
         /\ [call EXCEPT !.attempt = @ + 1, !.on = None].attempt # 0
<1>1. call.attempt + 1 \in 0 .. MaxRetries /\ call.attempt + 1 # 0
  BY RelayerAssumption DEF Call
<1> QED
  BY <1>1 DEF Call

\* A call ends with success.
LEMMA CallWon ==
  ASSUME NEW call \in Call
  PROVE  /\ [call EXCEPT !.step = "success", !.attempt = 0, !.on = None] \in Call
         /\ [call EXCEPT !.step = "success", !.attempt = 0, !.on = None].on = None
         /\ [call EXCEPT !.step = "success", !.attempt = 0, !.on = None].step = "success"
         /\ [call EXCEPT !.step = "success", !.attempt = 0, !.on = None].choice = call.choice
         /\ [call EXCEPT !.step = "success", !.attempt = 0, !.on = None].attempt = 0
<1>1. 0 \in 0 .. MaxRetries
  BY RelayerAssumption
<1> QED
  BY <1>1 DEF Call

\* A change of one browser's call, while the backend and the chain stand still: it ends
\* without success, or the next attempt waits for no handler yet.
LEMMA CallChange ==
  ASSUME RelayerInv, NEW c \in Voter, NEW call \in Call,
         modal' = [modal EXCEPT ![c] = call],
         UNCHANGED <<chain_vars, handler>>, backoff' \in [Voter -> BOOLEAN],
         call.on = None,
         call.step = "submitting" <=> call.attempt # 0,
         call.step # "success",
         call.step = "submitting" => call.choice \in Choice
  PROVE  RelayerInv'
<1>1. /\ modal' \in [Voter -> Call]
      /\ modal'[c] = call
      /\ \A d \in Voter \ {c} : modal'[d] = modal[d]
  BY DEF RelayerInv, RelayerTypeOK
<1>2. RelayerTypeOK'
  BY <1>1 DEF RelayerInv, RelayerTypeOK, chain_vars, submitting
<1>3. CallsAreOwn'
  BY <1>1 DEF RelayerInv, CallsAreOwn, chain_vars
<1>4. (HandlersServe /\ TransactionServes /\ OutcomesAreTrue)'
  BY <1>1, RelayerTypes
     DEF RelayerInv, HandlersServe, TransactionServes, OutcomesAreTrue, chain_vars
<1> QED
  BY <1>2, <1>3, <1>4 DEF RelayerInv

\* A request reaches a free handler, which serves it.
LEMMA FetchStep ==
  ASSUME RelayerInv, NEW c \in Voter, NEW h \in of(c), fetch(c, h)
  PROVE  RelayerInv'
<1>1. h \in Handler /\ h[1] = c /\ h # None
  BY RelayerAssumption DEF of
<1>2. submitting(c) /\ modal[c].on = None /\ modal[c].choice \in Choice /\ handler[h].at = "free"
  BY DEF fetch, RelayerInv, CallsAreOwn, submitting
<1>3. modal \in [Voter -> Call] /\ [modal[c] EXCEPT !.on = h] \in Call
  BY <1>1, CallOn DEF RelayerInv, RelayerTypeOK
<1>4. /\ modal' \in [Voter -> Call]
      /\ modal'[c].on = h
      /\ modal'[c].step = modal[c].step
      /\ modal'[c].choice = modal[c].choice
      /\ modal'[c].attempt = modal[c].attempt
      /\ \A d \in Voter \ {c} : modal'[d] = modal[d]
  <2>1. /\ modal' \in [Voter -> Call]
        /\ modal'[c] = [modal[c] EXCEPT !.on = h]
        /\ \A d \in Voter \ {c} : modal'[d] = modal[d]
    BY <1>3 DEF fetch
  <2> QED
    BY <1>1, <1>3, <2>1, CallOn
<1>5. /\ handler' \in [Handler -> Request]
      /\ handler'[h].at = "account" /\ handler'[h].choice = modal[c].choice
      /\ handler'[h].outcome = None
      /\ \A g \in Handler \ {h} : handler'[g] = handler[g]
  BY <1>1, <1>2 DEF fetch, RelayerInv, RelayerTypeOK, Request, Free
<1>6. mempool # None => mempool.by # h
  BY <1>1, <1>2 DEF RelayerInv, RelayerTypeOK
<1>7. recorded' = recorded /\ mempool' = mempool /\ others' = others /\ backoff' = backoff
  BY DEF fetch, chain_vars
<1>8. RelayerTypeOK'
  <2>1. \A d \in Voter : /\ submitting(d)' <=> modal'[d].attempt # 0
                         /\ modal'[d].on # None => submitting(d)'
    BY <1>2, <1>4 DEF RelayerInv, RelayerTypeOK, submitting
  <2>2. \A g \in Handler : handler'[g].outcome # None => handler'[g].at = "wait"
    BY <1>5 DEF RelayerInv, RelayerTypeOK
  <2>3. mempool' # None => (mempool'.by # None => handler'[mempool'.by].at = "wait")
    BY <1>5, <1>6, <1>7, RelayerTypes DEF RelayerInv, RelayerTypeOK
  <2> QED
    BY <1>4, <1>5, <1>7, <2>1, <2>2, <2>3 DEF RelayerInv, RelayerTypeOK
<1>9. CallsAreOwn'
  BY <1>1, <1>2, <1>4, <1>7 DEF RelayerInv, CallsAreOwn, submitting
<1>10. HandlersServe'
  BY <1>1, <1>2, <1>4, <1>5, RelayerTypes DEF RelayerInv, HandlersServe
<1>11. TransactionServes' /\ OutcomesAreTrue'
  BY <1>1, <1>2, <1>4, <1>5, <1>6, <1>7, RelayerTypes
     DEF RelayerInv, TransactionServes, OutcomesAreTrue
<1> QED
  BY <1>8, <1>9, <1>10, <1>11 DEF RelayerInv

\* Whatever the browser does.
LEMMA BrowserStep ==
  ASSUME RelayerInv, NEW c \in Voter,
         \/ \E choice \in Choice : submit(c, choice)
         \/ CallStep(c)
         \/ backoff_ends(c) \/ checkRelayerHealth(c) \/ reload(c)
  PROVE  RelayerInv'
<1>1. /\ Failed \in Call /\ Idle \in Call
      /\ \A choice \in Choice :
           [step |-> "submitting", choice |-> choice, attempt |-> 1, on |-> None] \in Call
  BY RelayerAssumption DEF Call, Failed, Idle
<1>2. (markSuccess(c) \/ markFailure(c)) => backoff' \in [Voter -> BOOLEAN]
  BY DEF markSuccess, markFailure, RelayerInv, RelayerTypeOK
<1>3. ASSUME NEW choice \in Choice, submit(c, choice)
      PROVE  RelayerInv'
  <2> DEFINE call == IF backoff[c] THEN Failed
                     ELSE [step |-> "submitting", choice |-> choice, attempt |-> 1, on |-> None]
  <2>1. /\ call \in Call /\ call.on = None /\ call.step # "success"
        /\ call.step = "submitting" <=> call.attempt # 0
        /\ call.step = "submitting" => call.choice \in Choice
    BY <1>1 DEF Failed
  <2>2. /\ modal' = [modal EXCEPT ![c] = call]
        /\ UNCHANGED <<chain_vars, handler>> /\ backoff' \in [Voter -> BOOLEAN]
    BY <1>3 DEF submit, RelayerInv, RelayerTypeOK
  <2> HIDE DEF call
  <2> QED
    BY <2>1, <2>2, CallChange
<1>4. ASSUME submitting(c), next_attempt(c), markFailure(c), UNCHANGED <<chain_vars, handler>>
      PROVE  RelayerInv'
  <2> DEFINE call == IF modal[c].attempt < MaxRetries
                     THEN [modal[c] EXCEPT !.attempt = @ + 1, !.on = None] ELSE Failed
  <2>1. modal[c] \in Call /\ modal[c].choice \in Choice
    BY <1>4 DEF RelayerInv, RelayerTypeOK, CallsAreOwn, submitting
  <2>2. /\ call \in Call /\ call.on = None /\ call.step # "success"
        /\ call.step = "submitting" <=> call.attempt # 0
        /\ call.step = "submitting" => call.choice \in Choice
    <3>1. CASE modal[c].attempt < MaxRetries
      BY <1>4, <2>1, <3>1, CallAgain DEF submitting
    <3>2. CASE ~(modal[c].attempt < MaxRetries)
      BY <1>1, <3>2 DEF Failed
    <3> QED
      BY <3>1, <3>2
  <2>3. modal' = [modal EXCEPT ![c] = call]
    BY <1>4 DEF next_attempt
  <2> HIDE DEF call
  <2> QED
    BY <1>2, <1>4, <2>2, <2>3, CallChange
<1>5. CASE fetch_fails(c) \/ fetch_times_out(c)
  BY <1>4, <1>5 DEF fetch_fails, fetch_times_out
<1>6. CASE \E h \in of(c) : fetch(c, h)
  BY <1>6, FetchStep
<1>7. CASE backoff_ends(c) \/ checkRelayerHealth(c)
  BY <1>2, <1>7
     DEF backoff_ends, checkRelayerHealth, RelayerInv, RelayerTypeOK, CallsAreOwn, HandlersServe,
         TransactionServes, OutcomesAreTrue, chain_vars, submitting
<1>8. CASE reload(c)
  <2>1. modal' = [modal EXCEPT ![c] = Idle] /\ UNCHANGED <<chain_vars, handler>> /\ markSuccess(c)
    BY <1>8 DEF reload
  <2>2. /\ Idle.on = None /\ Idle.step # "success"
        /\ Idle.step = "submitting" <=> Idle.attempt # 0
        /\ Idle.step = "submitting" => Idle.choice \in Choice
    BY DEF Idle
  <2> QED
    BY <1>1, <1>2, <2>1, <2>2, CallChange
<1> QED
  BY <1>3, <1>5, <1>6, <1>7, <1>8 DEF CallStep

\* An answer ends its handler; the browser that still waits for it gets its verdict, and
\* a success must be about the choice that the contract has.
LEMMA AnswerStep ==
  ASSUME RelayerInv, NEW h \in Handler, NEW ok \in BOOLEAN, answer(h, ok),
         recorded' = recorded, others' = others,
         mempool' \in Transaction \cup {None},
         mempool' # None => /\ mempool'.client = None <=> mempool'.choice = None
                            /\ mempool'.by # h
                            /\ mempool'.by # None => mempool' = mempool,
         ok /\ modal[h[1]].on = h => recorded[h[1]] = modal[h[1]].choice
  PROVE  RelayerInv'
<1> DEFINE c == h[1]
           call == IF ok THEN [modal[c] EXCEPT !.step = "success", !.attempt = 0, !.on = None]
                         ELSE Failed
<1>1. c \in Voter /\ modal[c] \in Call /\ h # None
  BY RelayerAssumption DEF RelayerInv, RelayerTypeOK
<1>2. /\ handler' \in [Handler -> Request]
      /\ handler'[h] = Free
      /\ \A g \in Handler \ {h} : handler'[g] = handler[g]
  BY DEF answer, Free, Request, RelayerInv, RelayerTypeOK
<1>3. /\ call \in Call /\ call.on = None /\ call.attempt = 0
      /\ call.step = IF ok THEN "success" ELSE "error"
      /\ ok => call.choice = modal[c].choice
  <2>1. Failed \in Call
    BY RelayerAssumption DEF Call, Failed
  <2> QED
    BY <1>1, <2>1, CallWon DEF Failed
<1>4. backoff' \in [Voter -> BOOLEAN]
  BY DEF answer, markSuccess, RelayerInv, RelayerTypeOK
<1>5. /\ modal' \in [Voter -> Call]
      /\ \A d \in Voter \ {c} : modal'[d] = modal[d]
      /\ \/ modal'[c] = modal[c] /\ modal[c].on # h
         \/ modal'[c] = call /\ modal[c].on = h
  <2>1. CASE submitting(c) /\ modal[c].on = h
    BY <1>1, <1>3, <2>1 DEF answer, RelayerInv, RelayerTypeOK
  <2>2. CASE ~(submitting(c) /\ modal[c].on = h)
    <3>1. modal[c].on # h
      BY <1>1, <2>2 DEF RelayerInv, RelayerTypeOK
    <3> QED
      BY <2>2, <3>1 DEF answer, RelayerInv, RelayerTypeOK
  <2> QED
    BY <2>1, <2>2
<1>6. modal[c].on = h => submitting(c) /\ modal[c].choice \in Choice
  BY <1>1 DEF RelayerInv, RelayerTypeOK, CallsAreOwn, submitting
<1> HIDE DEF call
<1>7. RelayerTypeOK'
  <2>1. \A d \in Voter : /\ submitting(d)' <=> modal'[d].attempt # 0
                         /\ modal'[d].on # None => submitting(d)'
    BY <1>1, <1>3, <1>5 DEF RelayerInv, RelayerTypeOK, submitting
  <2>2. \A g \in Handler : handler'[g].outcome # None => handler'[g].at = "wait"
    BY <1>2 DEF RelayerInv, RelayerTypeOK, Free
  <2>3. mempool' # None => (mempool'.by # None => handler'[mempool'.by].at = "wait")
    BY <1>2, RelayerTypes DEF RelayerInv, RelayerTypeOK
  <2> QED
    BY <1>2, <1>4, <1>5, <2>1, <2>2, <2>3 DEF RelayerInv, RelayerTypeOK
<1>8. CallsAreOwn'
  BY <1>1, <1>3, <1>5, <1>6 DEF RelayerInv, CallsAreOwn, of
<1>9. HandlersServe'
  BY <1>1, <1>2, <1>3, <1>5, RelayerTypes DEF RelayerInv, HandlersServe, Free
<1>10. TransactionServes'
  BY <1>1, <1>2, <1>3, <1>5, RelayerTypes DEF RelayerInv, TransactionServes, Free
<1>11. OutcomesAreTrue'
  BY <1>1, <1>2, <1>3, <1>5, RelayerTypes DEF RelayerInv, OutcomesAreTrue, Free
<1> QED
  BY <1>7, <1>8, <1>9, <1>10, <1>11 DEF RelayerInv

\* A handler goes on to its next await, with the choice it has.
LEMMA GoOnStep ==
  ASSUME RelayerInv, NEW h \in Handler, NEW request \in Request,
         handler[h].at \in {"account", "simulate", "send"},
         handler' = [handler EXCEPT ![h] = request],
         UNCHANGED <<recorded, others, modal, backoff>>,
         request.outcome = None,
         \/ /\ request.at \in {"simulate", "send"}
            /\ request.choice = handler[h].choice
            /\ mempool' = mempool
         \/ /\ request.at = "wait"
            /\ \/ mempool' = mempool
               \/ mempool' = [client |-> h[1], choice |-> handler[h].choice, by |-> h]
  PROVE  RelayerInv'
<1>1. /\ handler' \in [Handler -> Request]
      /\ handler'[h] = request
      /\ \A g \in Handler \ {h} : handler'[g] = handler[g]
  BY DEF RelayerInv, RelayerTypeOK
<1>2. h[1] \in Voter /\ h # None /\ None \notin Voter /\ handler[h].choice \in Choice
  BY RelayerAssumption, RelayerTypes DEF RelayerInv, HandlersServe
<1>3. mempool # None => mempool.by # h
  BY <1>2 DEF RelayerInv, RelayerTypeOK
<1>4. \/ mempool' = mempool
      \/ /\ mempool' \in Transaction
         /\ mempool'.client = h[1]
         /\ mempool'.choice = handler[h].choice
         /\ mempool'.by = h
         /\ request.at = "wait"
  BY <1>2 DEF Transaction
<1>5. RelayerTypeOK'
  <2>1. mempool' \in Transaction \cup {None}
    BY <1>4 DEF RelayerInv, RelayerTypeOK
  <2>2. mempool' # None => /\ mempool'.client = None <=> mempool'.choice = None
                           /\ mempool'.by # None => handler'[mempool'.by].at = "wait"
    <3>1. CASE mempool' = mempool
      BY <1>1, <1>3, <3>1, RelayerTypes DEF RelayerInv, RelayerTypeOK
    <3>2. CASE mempool' # mempool
      BY <1>1, <1>2, <1>4, <3>2, RelayerAssumption
    <3> QED
      BY <3>1, <3>2
  <2>3. \A g \in Handler : handler'[g].outcome # None => handler'[g].at = "wait"
    BY <1>1 DEF RelayerInv, RelayerTypeOK
  <2> QED
    BY <1>1, <2>1, <2>2, <2>3 DEF RelayerInv, RelayerTypeOK, submitting
<1>6. CallsAreOwn' /\ HandlersServe' /\ OutcomesAreTrue'
  BY <1>1, <1>2 DEF RelayerInv, CallsAreOwn, HandlersServe, OutcomesAreTrue, of
<1>7. TransactionServes'
  <2>1. CASE mempool' = mempool
    BY <1>1, <1>3, <2>1, RelayerTypes DEF RelayerInv, TransactionServes
  <2>2. CASE mempool' # mempool
    BY <1>1, <1>2, <1>4, <2>2 DEF RelayerInv, TransactionServes, HandlersServe
  <2> QED
    BY <2>1, <2>2
<1> QED
  BY <1>5, <1>6, <1>7 DEF RelayerInv

\* Whatever a handler does.
LEMMA HandlersStep ==
  ASSUME RelayerInv, NEW h \in Handler, HandlerStep(h)
  PROVE  RelayerInv'
<1>1. /\ handler[h] \in Request /\ h # None /\ h[1] \in Voter /\ None \notin Voter \cup Choice
      /\ mempool \in Transaction \cup {None}
      /\ handler[h].at \in {"account", "simulate", "send"} => handler[h].choice \in Choice
      /\ mempool # None /\ mempool.by = h => handler[h].at = "wait" /\ handler[h].outcome = None
      /\ mempool # None => (mempool.client = None <=> mempool.choice = None)
  BY RelayerAssumption DEF RelayerInv, RelayerTypeOK, HandlersServe, TransactionServes
<1>2. ASSUME answer(h, FALSE), recorded' = recorded, others' = others, mempool' = mempool,
             mempool # None => mempool.by # h
      PROVE  RelayerInv'
  BY <1>1, <1>2, AnswerStep
<1>3. ASSUME answer(h, FALSE), recorded' = recorded, others' = others, mempool' = leave(h)
      PROVE  RelayerInv'
  <2>1. CASE mempool # None /\ mempool.by = h
    <3>1. mempool' = [mempool EXCEPT !.by = None]
      BY <1>3, <2>1 DEF leave
    <3>2. /\ mempool' \in Transaction /\ mempool'.client = mempool.client
          /\ mempool'.choice = mempool.choice /\ mempool'.by = None
      BY <1>1, <2>1, <3>1 DEF Transaction
    <3> QED
      BY <1>1, <1>3, <2>1, <3>2, AnswerStep
  <2>2. CASE ~(mempool # None /\ mempool.by = h)
    BY <1>2, <1>3, <2>2 DEF leave
  <2> QED
    BY <2>1, <2>2
<1>4. CASE getAccount(h)
  <2> DEFINE request == [handler[h] EXCEPT !.at = "simulate", !.current = TRUE]
  <2>1. /\ request \in Request /\ request.at = "simulate" /\ request.choice = handler[h].choice
        /\ request.outcome = handler[h].outcome
    BY <1>1 DEF Request
  <2>2. handler' = [handler EXCEPT ![h] = request]
    BY <1>4 DEF getAccount
  <2>3. handler[h].at = "account" /\ handler[h].outcome = None
    BY <1>4 DEF getAccount, RelayerInv, RelayerTypeOK
  <2> HIDE DEF request
  <2> QED
    BY <1>4, <2>1, <2>2, <2>3, GoOnStep DEF getAccount, chain_vars
<1>5. CASE simulateTransaction(h)
  <2> DEFINE request == [handler[h] EXCEPT !.at = "send"]
  <2>1. /\ request \in Request /\ request.at = "send" /\ request.choice = handler[h].choice
        /\ request.outcome = handler[h].outcome
    BY <1>1 DEF Request
  <2>2. handler[h].at = "simulate" /\ handler[h].outcome = None
    BY <1>5 DEF simulateTransaction, RelayerInv, RelayerTypeOK
  <2>3. CASE handler' = [handler EXCEPT ![h] = request] /\ UNCHANGED <<modal, backoff>>
    <3> HIDE DEF request
    <3> QED
      BY <1>5, <2>1, <2>2, <2>3, GoOnStep DEF simulateTransaction, chain_vars
  <2>4. CASE answer(h, FALSE)
    BY <1>1, <1>2, <1>5, <2>2, <2>4 DEF simulateTransaction, chain_vars
  <2> QED
    BY <1>5, <2>3, <2>4 DEF simulateTransaction
<1>6. CASE sendTransaction(h)
  <2> DEFINE request == [Free EXCEPT !.at = "wait"]
  <2>1. request \in Request /\ request.at = "wait" /\ request.outcome = None
    BY DEF Request, Free
  <2>2. handler[h].at = "send"
    BY <1>6 DEF sendTransaction
  <2>3. CASE handler[h].current
    <3>1. /\ handler' = [handler EXCEPT ![h] = request]
          /\ UNCHANGED <<recorded, others, modal, backoff>>
          /\ \/ mempool' = mempool
             \/ mempool' = [client |-> h[1], choice |-> handler[h].choice, by |-> h]
      BY <1>6, <2>3 DEF sendTransaction
    <3> HIDE DEF request
    <3> QED
      BY <2>1, <2>2, <3>1, GoOnStep
  <2>4. CASE ~handler[h].current
    BY <1>1, <1>2, <1>6, <2>2, <2>4 DEF sendTransaction
  <2> QED
    BY <2>3, <2>4
<1>7. CASE waitForTransaction(h)
  <2>1. /\ answer(h, handler[h].outcome = "SUCCESS") /\ handler[h].outcome # None
        /\ UNCHANGED chain_vars
    BY <1>7 DEF waitForTransaction
  <2>2. handler[h].outcome = "SUCCESS" /\ modal[h[1]].on = h =>
          recorded[h[1]] = modal[h[1]].choice
    BY <2>1 DEF RelayerInv, OutcomesAreTrue
  <2> QED
    BY <1>1, <2>1, <2>2, AnswerStep DEF chain_vars
<1>8. CASE call_fails(h)
  <2>1. /\ handler[h].at \in {"account", "simulate", "send"}
        /\ answer(h, FALSE) /\ recorded' = recorded /\ others' = others
    BY <1>8 DEF call_fails
  <2>2. CASE mempool' = mempool
    BY <1>1, <1>2, <2>1, <2>2
  <2>3. CASE mempool' = [client |-> h[1], choice |-> handler[h].choice, by |-> None]
    <3>1. /\ mempool' \in Transaction /\ mempool'.client = h[1]
          /\ mempool'.choice = handler[h].choice /\ mempool'.by = None
      BY <1>1, <2>1, <2>3 DEF Transaction
    <3> QED
      BY <1>1, <2>1, <3>1, AnswerStep
  <2> QED
    BY <1>8, <2>2, <2>3 DEF call_fails
<1>9. CASE wait_times_out(h)
  BY <1>3, <1>9 DEF wait_times_out
<1> QED
  BY <1>4, <1>5, <1>6, <1>7, <1>8, <1>9 DEF HandlerStep

\* A ledger takes a transaction: only now does a vote count, and only now does its
\* handler, if there is one, learn so.
LEMMA LedgerStep ==
  ASSUME RelayerInv, LedgerClose
  PROVE  RelayerInv'
<1> DEFINE c == mempool.client
           ok == c # None /\ accepts(c)
<1>1. /\ mempool # None /\ mempool' = None
      /\ others' = others /\ modal' = modal /\ backoff' = backoff
      /\ recorded' = IF ok THEN [recorded EXCEPT ![c] = mempool.choice] ELSE recorded
      /\ handler' = [h \in Handler |->
              IF mempool.by = h
              THEN [handler[h] EXCEPT !.outcome = IF ok THEN "SUCCESS" ELSE "FAILED"]
              ELSE [handler[h] EXCEPT !.current = FALSE]]
  BY DEF LedgerClose
<1>2. c \in Voter \cup {None} /\ (ok => mempool.choice \in Choice)
  BY <1>1, RelayerTypes DEF RelayerInv, RelayerTypeOK
<1>3. /\ recorded' \in [Voter -> Choice \cup {None}]
      /\ \A d \in Voter : recorded[d] # None => recorded'[d] = recorded[d]
      /\ ok => recorded'[c] = mempool.choice
  BY <1>1, <1>2 DEF RelayerInv, RelayerTypeOK, accepts
<1>4. ASSUME NEW h \in Handler
      PROVE  /\ handler'[h] \in Request
             /\ handler'[h].at = handler[h].at /\ handler'[h].choice = handler[h].choice
             /\ handler'[h].outcome =
                  IF mempool.by = h THEN IF ok THEN "SUCCESS" ELSE "FAILED"
                                    ELSE handler[h].outcome
  BY <1>1 DEF RelayerInv, RelayerTypeOK, Request
<1>5. handler' \in [Handler -> Request]
  BY <1>1, <1>4
<1> HIDE DEF ok
<1>6. RelayerTypeOK'
  BY <1>1, <1>3, <1>4, <1>5, RelayerTypes DEF RelayerInv, RelayerTypeOK, submitting
<1>7. CallsAreOwn'
  BY <1>1, <1>3, RelayerAssumption DEF RelayerInv, CallsAreOwn, RelayerTypeOK, of
<1>8. HandlersServe' /\ TransactionServes'
  BY <1>1, <1>4 DEF RelayerInv, HandlersServe, TransactionServes
<1>9. OutcomesAreTrue'
  <2> SUFFICES ASSUME NEW h \in Handler, handler'[h].outcome # None,
                      handler'[h].outcome = "SUCCESS"
               PROVE  /\ recorded'[h[1]] # None
                      /\ modal[h[1]].on = h => recorded'[h[1]] = modal[h[1]].choice
    BY <1>1 DEF OutcomesAreTrue
  <2>1. CASE mempool.by = h
    <3>1. ok /\ c = h[1] /\ (modal[c].on = h => mempool.choice = modal[c].choice)
      <4>1. handler'[h].outcome = IF ok THEN "SUCCESS" ELSE "FAILED"
        BY <1>4, <2>1
      <4>2. h # None /\ mempool # None
        BY <1>1, RelayerTypes DEF RelayerInv
      <4> QED
        BY <2>1, <4>1, <4>2 DEF RelayerInv, TransactionServes
    <3> QED
      BY <1>2, <1>3, <3>1, RelayerAssumption
  <2>2. CASE mempool.by # h
    BY <1>3, <1>4, <2>2, RelayerTypes DEF RelayerInv, OutcomesAreTrue
  <2> QED
    BY <2>1, <2>2
<1> QED
  BY <1>6, <1>7, <1>8, <1>9 DEF RelayerInv

\* Whatever happens elsewhere: the chain, the relayer account's other uses, a restart.
LEMMA ElsewhereStep ==
  ASSUME RelayerInv, restart \/ other_request \/ LedgerClose \/ Expire
  PROVE  RelayerInv'
<1> USE RelayerAssumption
    DEF RelayerInv, RelayerTypeOK, CallsAreOwn, HandlersServe, TransactionServes,
        OutcomesAreTrue, Transaction, submitting, of
<1>1. CASE restart
  BY <1>1 DEF restart, Request, Free
<1>2. CASE other_request
  BY <1>2 DEF other_request
<1>3. CASE LedgerClose
  BY <1>3, LedgerStep
<1>4. CASE Expire
  BY <1>4 DEF Expire
<1> QED
  BY <1>1, <1>2, <1>3, <1>4

\* Every state of the relayer and its browsers satisfies the inductive invariant.
THEOREM RelayerInvariant == Spec => []RelayerInv
<1>1. Init => RelayerInv
  BY RelayerInit
<1>2. RelayerInv /\ [Next]_vars => RelayerInv'
  <2> SUFFICES ASSUME RelayerInv, [Next]_vars PROVE RelayerInv'
    OBVIOUS
  <2>1. CASE UNCHANGED vars
    BY <2>1 DEF vars, chain_vars, RelayerInv, RelayerTypeOK, CallsAreOwn, HandlersServe,
                TransactionServes, OutcomesAreTrue, submitting
  <2>2. CASE Next
    BY <2>2, BrowserStep, HandlersStep, ElsewhereStep DEF Next
  <2> QED
    BY <2>1, <2>2
<1> QED
  BY <1>1, <1>2, PTL DEF Spec

\* Every variable has its type; a request knows an outcome only while it waits for one, a
\* transaction is waited for only by a waiting request, and a call counts attempts
\* exactly while it is being submitted.
THEOREM RelayerTypeCorrect == Spec => []RelayerTypeOK
BY RelayerInvariant, PTL DEF RelayerInv

\* A browser that shows success shows what the contract counted, whatever was retried,
\* given up, overtaken, lost or restarted.
THEOREM ConfirmedIsRecordedAlways == Spec => []ConfirmedIsRecorded
<1>1. RelayerInv => ConfirmedIsRecorded
  BY DEF RelayerInv, CallsAreOwn, ConfirmedIsRecorded
<1> QED
  BY <1>1, RelayerInvariant, PTL
=============================================================================
