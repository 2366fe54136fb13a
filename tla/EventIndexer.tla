---------------------------- MODULE EventIndexer ----------------------------
(***************************************************************************)
(* The backend's event indexer and its SQLite event table.  A poller asks  *)
(* the RPC node for the events of each contract since its cursor; clients  *)
(* announce transactions, which wait as unverified rows until the node     *)
(* confirms them.  Every await is a step of its own; what runs between two  *)
(* of them is one step.  The process may die at any of them, and only the   *)
(* database survives.                                                      *)
(***************************************************************************)
EXTENDS Integers, Sequences, FiniteSets, SequencesExt

CONSTANTS
  contracts,       \* the contract ids polled, in order
  Tx,              \* transactions
  Event,           \* what transactions emit when they succeed
  tx_of(_), contract_of(_),
  kind_of(_),      \* DAO and type under which the poller stores an event
  Kind,            \* DAO and type: those of events, those clients announce
  Announced,       \* and of these the latter, which administrators add too
  Creation,        \* the types of a DAO's creation, dao_create and dao_create_event
  Synthetic,       \* the transaction hash synthetic-dao-create-<DAO>
  Manual,          \* the hashes manual-<ms>: bound of the model, events added by hand
  OldLedger,       \* the ledgers where the file data/events.json may end, 0 for no file
  Null,            \* SQL NULL
  PageLimit,       \* events per getEvents call, 100 in the code
  VerifyLimit,     \* rows looked at per round, 10 in the code
  MaxLedger,       \* bound of the model: ledgers closed
  MaxNotified,     \* bound of the model: rows in the table when a client announces
  MaxCrashes       \* bound of the model: deaths of the process

ASSUME IndexerAssumption ==
  /\ contracts \in Seq(Range(contracts)) /\ contracts # << >>
  /\ \A e \in Event : tx_of(e) \in Tx /\ contract_of(e) \in Range(contracts) /\ kind_of(e) \in Kind
  /\ \A e, f \in Event : tx_of(e) = tx_of(f) /\ kind_of(e) = kind_of(f) => e = f
  /\ Announced \subseteq Kind /\ Creation \subseteq Kind
  /\ Synthetic \notin Tx \cup Manual /\ Manual \cap Tx = {}
  /\ Null \notin Nat
  /\ PageLimit \in Nat \ {0}
  /\ VerifyLimit \in Nat \ {0}
  /\ {MaxLedger, MaxNotified, MaxCrashes} \subseteq Nat
  /\ OldLedger \subseteq 0 .. MaxLedger
  /\ IsFiniteSet(Event)

VARIABLES
  ledger,         \* the chain: its latest ledger,
  included,       \* the ledger of each transaction, 0 before there is one,
  failed,         \* and the included transactions that failed
  json,           \* data/events.json, Null when there is no such file
  rows,           \* the events table in order of insertion
  cursor,         \* metadata lastLedger
  pc,             \* the await the indexer is at
  initial,        \* whether it is the first poll of startIndexer
  lastLedger,     \* local of startIndexer
  currentLedger,  \* locals of pollEvents: the end of the range polled, 0 outside,
  todo,           \* and the contracts not asked yet
  queue,          \* local of verifyPendingEvents: transactions to ask for
  crashes,
  missed          \* history: events a call did not return, failing or full

chain_vars == <<ledger, included, failed>>
db_vars == <<json, rows, cursor>>
local_vars == <<pc, initial, lastLedger, currentLedger, todo, queue>>
history_vars == <<crashes, missed>>
vars == <<chain_vars, db_vars, local_vars, history_vars>>

succeeded(tx) == included[tx] # 0 /\ tx \notin failed

(***************************************************************************)
(* The event table.  UNIQUE(dao_id, ledger, tx_hash, type) never applies to *)
(* a row whose ledger is NULL.                                             *)
(***************************************************************************)
same_event(r, s) == r.kind = s.kind /\ r.tx = s.tx

conflicts(r, s) == r.ledger # Null /\ r.ledger = s.ledger /\ same_event(r, s)

add_event(table, row) ==
  IF \E i \in DOMAIN table : conflicts(row, table[i]) THEN table ELSE Append(table, row)

\* INSERT OR IGNORE of several rows, one after the other.
add_events(table, new) ==
  LET stored[n \in 0 .. Len(new)] ==
        IF n = 0 THEN table ELSE add_event(stored[n - 1], new[n])
  IN  stored[Len(new)]

\* The rows of a query, by their places in the table.
rows_at(table, places) ==
  LET found[n \in 0 .. Len(table)] ==
        IF n = 0 THEN << >>
        ELSE IF n \in places THEN Append(found[n - 1], table[n]) ELSE found[n - 1]
  IN  found[Len(table)]

getUnverifiedEvents(table, limit) ==
  LET waiting == rows_at(table, {i \in DOMAIN table : ~table[i].verified})
  IN  SubSeq(waiting, 1, IF Len(waiting) < limit THEN Len(waiting) ELSE limit)

\* One UPDATE of every row of the transaction, undone as a whole when two of them
\* become the same.
verifyEvent(tx, at) ==
  LET updated == [i \in DOMAIN rows |->
        IF rows[i].tx = tx THEN [rows[i] EXCEPT !.verified = TRUE, !.ledger = at] ELSE rows[i]]
  IN  rows' = IF \E i, j \in DOMAIN rows : i # j /\ conflicts(updated[i], updated[j])
              THEN rows ELSE updated

deleteUnverifiedEvent(tx) ==
  rows' = rows_at(rows, {i \in DOMAIN rows : rows[i].verified \/ rows[i].tx # tx})

(***************************************************************************)
(* The chain.                                                              *)
(***************************************************************************)
LedgerClose ==
  /\ ledger < MaxLedger
  /\ ledger' = ledger + 1
  /\ \E S \in SUBSET {tx \in Tx : included[tx] = 0} : \E F \in SUBSET S :
       /\ included' = [tx \in Tx |-> IF tx \in S THEN ledger + 1 ELSE included[tx]]
       /\ failed' = failed \cup F
  /\ UNCHANGED <<db_vars, local_vars, history_vars>>

(***************************************************************************)
(* Polling.                                                                *)
(***************************************************************************)
\* INSERT OR IGNORE of the rows in the file an earlier version left, and its cursor.
\* Then the file is renamed, which may fail, or the process dies first.
migrateFromJson ==
  IF json = Null
  THEN UNCHANGED db_vars
  ELSE /\ rows' = add_events(rows, json.events)
       /\ cursor' = json.lastLedger
       /\ json' \in {json, Null}

startIndexer ==
  /\ pc = "down"
  /\ pc' = "latest"
  /\ initial' = TRUE
  /\ migrateFromJson
  /\ lastLedger' = cursor'
  /\ UNCHANGED <<chain_vars, history_vars, currentLedger, todo, queue>>

\* Mutant of getLatestLedger: an answer behind the cursor is taken.
LatestUnchecked ==
  /\ pc = "latest"
  /\ \/ /\ currentLedger' \in 0 .. ledger
        /\ todo' = contracts
        /\ pc' = "events"
     \/ /\ currentLedger' = lastLedger
        /\ pc' = "store"
        /\ UNCHANGED todo
  /\ UNCHANGED <<chain_vars, db_vars, history_vars, initial, lastLedger, queue>>

\* The node may lag behind the chain.  An answer that is not ahead of the cursor
\* and a failing call end the poll.
getLatestLedger ==
  /\ pc = "latest"
  /\ \/ /\ currentLedger' \in 0 .. ledger
        /\ lastLedger < currentLedger'
        /\ todo' = contracts
        /\ pc' = "events"
     \/ /\ currentLedger' = lastLedger
        /\ pc' = "store"
        /\ UNCHANGED todo
  /\ UNCHANGED <<chain_vars, db_vars, history_vars, initial, lastLedger, queue>>

\* What the current contract emitted in the range polled.
in_range(first, last) ==
  {e \in Event : /\ contract_of(e) = Head(todo)
                 /\ succeeded(tx_of(e))
                 /\ included[tx_of(e)] \in first .. last}

\* A page of them: the first ones, all when they fit.
pages(events) ==
  {S \in SUBSET events :
     /\ Cardinality(S) = IF Cardinality(events) < PageLimit THEN Cardinality(events)
                                                            ELSE PageLimit
     /\ \A e \in S, f \in events \ S : included[tx_of(e)] <= included[tx_of(f)]}

polled_row(e) ==
  [kind |-> kind_of(e), ledger |-> included[tx_of(e)], tx |-> tx_of(e), verified |-> TRUE]

next_contract ==
  /\ todo' = Tail(todo)
  /\ pc' = IF Len(todo) = 1 THEN "store" ELSE "events"
  /\ UNCHANGED <<chain_vars, json, cursor, initial, lastLedger, currentLedger, queue, crashes>>

store_page(events, page) ==
  /\ rows' = add_events(rows, [i \in 1 .. Cardinality(page) |-> polled_row(SetToSeq(page)[i])])
  /\ missed' = missed \cup (events \ page)

\* Mutant of getEvents: the range starts one ledger late.
EventsFromNext ==
  /\ pc = "events"
  /\ LET events == in_range(lastLedger + 2, currentLedger)
     IN  \E page \in pages(events) \cup {{}} : store_page(events, page)
  /\ next_contract

\* One page is asked for per contract and poll.  A failing call is logged, and the
\* poll goes on with the next contract.
getEvents ==
  /\ pc = "events"
  /\ LET events == in_range(lastLedger + 1, currentLedger)
     IN  \E page \in pages(events) \cup {{}} : store_page(events, page)
  /\ next_contract

\* setMetadata, and with it the snapshot verifyPendingEvents works through.
setMetadata ==
  /\ pc = "store"
  /\ cursor' = IF initial \/ currentLedger > lastLedger THEN currentLedger ELSE cursor
  /\ lastLedger' = IF initial \/ currentLedger > lastLedger THEN currentLedger ELSE lastLedger
  /\ LET waiting == IF initial THEN << >> ELSE getUnverifiedEvents(rows, VerifyLimit)
     IN  /\ queue' = [i \in DOMAIN waiting |-> waiting[i].tx]
         /\ pc' = IF waiting = << >> THEN "sleep" ELSE "verify"
  /\ currentLedger' = 0
  /\ UNCHANGED <<chain_vars, history_vars, json, rows, initial, todo>>

(***************************************************************************)
(* Verification.                                                           *)
(***************************************************************************)
next_pending ==
  /\ queue' = Tail(queue)
  /\ pc' = IF Len(queue) = 1 THEN "sleep" ELSE "verify"
  /\ UNCHANGED <<chain_vars, history_vars, json, cursor, initial, lastLedger, currentLedger, todo>>

\* Mutant of getTransaction: a failed transaction's row is kept.
TransactionKept(tx) ==
  /\ pc = "verify"
  /\ tx = Head(queue)
  /\ \/ succeeded(tx) /\ verifyEvent(tx, included[tx])
     \/ ~succeeded(tx) /\ UNCHANGED rows
  /\ next_pending

\* Mutant of getTransaction: a transaction that is not found is verified too.
TransactionTrusted(tx) ==
  /\ pc = "verify"
  /\ tx = Head(queue)
  /\ \/ tx \in failed /\ deleteUnverifiedEvent(tx)
     \/ tx \notin failed /\ verifyEvent(tx, included[tx])
  /\ next_pending

\* The node's answer: SUCCESS, FAILED or NOT_FOUND.
getTransaction(tx) ==
  /\ pc = "verify"
  /\ tx = Head(queue)
  /\ \/ succeeded(tx) /\ verifyEvent(tx, included[tx])
     \/ tx \in failed /\ deleteUnverifiedEvent(tx)
     \/ included[tx] = 0 /\ UNCHANGED rows
  /\ next_pending

\* No answer, or NOT_FOUND from a node that is behind.
getTransactionFails ==
  /\ pc = "verify"
  /\ UNCHANGED rows
  /\ next_pending

poll ==
  /\ pc = "sleep"
  /\ pc' = "latest"
  /\ initial' = FALSE
  /\ UNCHANGED <<chain_vars, db_vars, history_vars, lastLedger, currentLedger, todo, queue>>

(***************************************************************************)
(* The route, and the end of the process.                                  *)
(***************************************************************************)
notifyEvent(kind, tx) ==
  /\ pc # "down"
  /\ Len(rows) < MaxNotified
  /\ rows' = add_event(rows, [kind |-> kind, ledger |-> Null, tx |-> tx, verified |-> FALSE])
  /\ UNCHANGED <<chain_vars, json, cursor, local_vars, history_vars>>

\* POST /events, an administrator's.
addManualEvent(kind, hash) ==
  /\ pc # "down"
  /\ Len(rows) < MaxNotified
  /\ rows' = add_event(rows, [kind |-> kind, ledger |-> 0, tx |-> hash, verified |-> TRUE])
  /\ UNCHANGED <<chain_vars, json, cursor, local_vars, history_vars>>

\* The DAO sync, for a DAO that it found on the chain and that has no creation event,
\* having been created before the indexer began, or a moment ago.
ensureDaoCreateEvent(kind) ==
  /\ pc # "down"
  /\ \E e \in Event : kind_of(e) = kind /\ succeeded(tx_of(e))
  /\ ~\E i \in DOMAIN rows : rows[i].kind \in Creation
  /\ rows' = add_event(rows, [kind |-> kind, ledger |-> 0, tx |-> Synthetic, verified |-> TRUE])
  /\ UNCHANGED <<chain_vars, json, cursor, local_vars, history_vars>>

Crash ==
  /\ pc # "down"
  /\ crashes < MaxCrashes
  /\ crashes' = crashes + 1
  /\ pc' = "down"
  /\ queue' = << >>
  /\ todo' = << >>
  /\ initial' = FALSE /\ lastLedger' = 0 /\ currentLedger' = 0
  /\ UNCHANGED <<chain_vars, db_vars, missed>>

\* What an earlier version wrote: every event so far.
old_rows ==
  LET old == {e \in Event : succeeded(tx_of(e))}
  IN  [i \in 1 .. Cardinality(old) |-> polled_row(SetToSeq(old)[i])]

Init ==
  /\ ledger \in OldLedger
  /\ included \in [Tx -> 0 .. ledger]
  /\ failed \in SUBSET {tx \in Tx : included[tx] # 0}
  /\ json = IF ledger = 0 THEN Null ELSE [events |-> old_rows, lastLedger |-> ledger]
  /\ rows = << >> /\ cursor = 0
  /\ pc = "down" /\ initial = FALSE /\ lastLedger = 0 /\ currentLedger = 0
  /\ todo = << >> /\ queue = << >>
  /\ crashes = 0 /\ missed = {}

Indexer == startIndexer \/ getLatestLedger \/ getEvents \/ setMetadata \/ poll

Next ==
  \/ LedgerClose
  \/ Indexer
  \/ \E tx \in Tx : getTransaction(tx)
  \/ getTransactionFails
  \/ \E kind \in Announced, tx \in Tx : notifyEvent(kind, tx)
  \/ \E kind \in Announced, hash \in Manual : addManualEvent(kind, hash)
  \/ \E kind \in Creation : ensureDaoCreateEvent(kind)
  \/ Crash

Spec == Init /\ [][Next]_vars

\* The event loop and its timers go on; a node that is asked for a transaction
\* again and again answers in the end.
Fairness ==
  /\ WF_vars(Indexer)
  /\ WF_vars((\E tx \in Tx : getTransaction(tx)) \/ getTransactionFails)
  /\ \A tx \in Tx : SF_vars(getTransaction(tx))

FairSpec == Spec /\ Fairness

(***************************************************************************)
(* Properties.                                                             *)
(***************************************************************************)
Row == [ kind : Kind, ledger : 0 .. MaxLedger \cup {Null}, tx : Tx \cup Manual \cup {Synthetic},
         verified : BOOLEAN ]

IndexerTypeOK ==
  /\ rows \in Seq(Row)
  /\ cursor \in 0 .. ledger
  /\ \A i \in DOMAIN rows : rows[i].verified <=> rows[i].ledger # Null
  /\ pc # "down" => lastLedger \in cursor .. ledger
  /\ pc \in {"events", "store"} => currentLedger \in lastLedger .. ledger
  /\ pc = "events" => todo # << >>
  /\ pc = "verify" => queue # << >>

\* A row that bears a transaction's hash is verified only once that transaction
\* succeeded, and it bears its ledger, whatever clients announce and whenever the
\* process dies.  That is all that verifying a row asks: see VerifiedEventsHappened.
\* The rows of the DAO sync and those made by hand bear no hash of a transaction.
VerifiedTransactionsSucceeded ==
  \A i \in DOMAIN rows : rows[i].verified /\ rows[i].tx \in Tx =>
    succeeded(rows[i].tx) /\ rows[i].ledger = included[rows[i].tx]

\* "The relayer will verify the event on-chain before trusting it": what a verified
\* row with a transaction's hash says is an event that transaction emitted.  The code
\* refutes it: it asks whether the announced transaction succeeded, and does not
\* compare the DAO and type announced with what the transaction emitted.
VerifiedEventsHappened ==
  \A i \in DOMAIN rows : rows[i].verified /\ rows[i].tx \in Tx =>
    \E e \in Event : rows[i] = polled_row(e)

is_indexed(e) == \E i \in DOMAIN rows : rows[i] = polled_row(e)

\* The cursor stands for what was stored: an event in a ledger up to it is in the
\* table unless a failing call or a full page left it out; a death of the process
\* between two calls, or before the cursor is stored, loses nothing.
NothingLostByRestart ==
  \A e \in Event :
    succeeded(tx_of(e)) /\ included[tx_of(e)] <= cursor => is_indexed(e) \/ e \in missed

pending(tx) == \E i \in DOMAIN rows : rows[i].tx = tx /\ ~rows[i].verified
twice(tx) == \E i, j \in DOMAIN rows : i # j /\ rows[i].tx = tx /\ same_event(rows[i], rows[j])

IndexStays ==
  /\ cursor <= cursor' \/ (json # Null /\ pc = "down")
  /\ \A i \in DOMAIN rows :
       rows[i].tx \in failed \/ \E j \in DOMAIN rows' :
         /\ same_event(rows'[j], rows[i])
         /\ rows[i].verified => rows'[j] = rows[i]

\* The cursor never goes back, not even when a node behind the chain answers the
\* first poll after a restart (but a file that was migrated and could not be renamed is
\* migrated again, cursor and all); no row goes unless its transaction failed, and a
\* verified one never changes.
IndexOnlyGrows == [][IndexStays]_vars

crowded == Cardinality({i \in DOMAIN rows : ~rows[i].verified}) > VerifyLimit

\* "stored as pending and verified against the chain": once its transaction is in
\* a ledger, a pending row is verified, or deleted if the transaction failed.  Two
\* exceptions: rows of the transaction that are the same but for the ledger, whose
\* UPDATE breaks their UNIQUE constraint, and more pending rows than a round takes.
PendingSettles ==
  \A tx \in Tx :
    /\ (pending(tx) /\ tx \in failed) ~> (~pending(tx) \/ crowded)
    /\ (pending(tx) /\ succeeded(tx)) ~> (~pending(tx) \/ twice(tx) \/ crowded)

\* The same with any number of pending rows, which the code refutes: a row whose
\* transaction is never found stays among the oldest, the only ones a round takes.
PendingIsVerified ==
  \A tx \in Tx : (pending(tx) /\ included[tx] # 0) ~> (~pending(tx) \/ twice(tx))
=============================================================================
