---------------------------- MODULE IndexerProofs ----------------------------
(***************************************************************************)
(* Theorems about EventIndexer, for every value of its constants: any       *)
(* contracts, transactions and events, any page and round size, any number  *)
(* of ledgers, announcements and deaths of the process.                    *)
(***************************************************************************)
EXTENDS EventIndexer, FiniteSetTheorems, SequenceTheorems, WellFoundedInduction, TLAPS

(***************************************************************************)
(* Walks over a table.                                                     *)
(***************************************************************************)

\* A nonempty set of natural numbers has a least element.
LEMMA LeastNumber ==
  ASSUME NEW T \in SUBSET Nat, T # {}
  PROVE  \E m \in T : \A k \in T : m <= k
<1>1. IsWellFoundedOn(OpToRel(<, Nat), Nat)
  BY NatLessThanWellFounded
<1>2. PICK m \in T : \A k \in T : ~(<<k, m>> \in OpToRel(<, Nat))
  BY <1>1, WFMin
<1>3. \A k \in T : ~(k < m)
  BY <1>2 DEF OpToRel
<1> QED
  BY <1>3

\* Induction up to a bound: the first number that fails would follow one that does not.
LEMMA BoundedInduction ==
  ASSUME NEW T, NEW n \in Nat, 0 \in T, \A k \in 1 .. n : k - 1 \in T => k \in T
  PROVE  \A k \in 0 .. n : k \in T
<1> DEFINE F == (0 .. n) \ T
<1> SUFFICES ASSUME F # {} PROVE FALSE
  OBVIOUS
<1>1. F \in SUBSET Nat
  OBVIOUS
<1>2. PICK m \in F : \A k \in F : m <= k
  BY <1>1, LeastNumber
<1>3. m \in 1 .. n /\ m - 1 \in 0 .. n /\ m - 1 < m
  OBVIOUS
<1>4. m - 1 \in T
  BY <1>2, <1>3
<1> QED
  BY <1>3, <1>4

\* The functions a walk over 1 .. n defines: from first, by the steps next[1] .. next[n].
Walks(S, first, n, next) ==
  {g \in [0 .. n -> S] : g[0] = first /\ \A k \in 1 .. n : g[k] = next[k][g[k - 1]]}

\* There is one.
LEMMA WalkExists ==
  ASSUME NEW S, NEW first \in S, NEW n \in Nat, NEW next \in [1 .. n -> [S -> S]]
  PROVE  \E g : g \in Walks(S, first, n, next)
<1> DEFINE Solves(g, m) == /\ g \in [0 .. m -> S]
                           /\ g[0] = first
                           /\ \A k \in 1 .. m : g[k] = next[k][g[k - 1]]
           T == {m \in 0 .. n : \E g : Solves(g, m)}
<1> HIDE DEF Solves
<1>1. 0 \in T
  <2>1. Solves([k \in 0 .. 0 |-> first], 0)
    BY DEF Solves
  <2> QED
    BY <2>1
<1>2. ASSUME NEW m \in 1 .. n, m - 1 \in T PROVE m \in T
  <2>1. PICK g : Solves(g, m - 1)
    BY <1>2
  <2> DEFINE h == [k \in 0 .. m |-> IF k = m THEN next[m][g[m - 1]] ELSE g[k]]
  <2>2. /\ g \in [0 .. m - 1 -> S]
        /\ g[0] = first
        /\ \A k \in 1 .. m - 1 : g[k] = next[k][g[k - 1]]
    BY <2>1 DEF Solves
  <2>3. next[m][g[m - 1]] \in S
    BY <2>2
  <2>4. h \in [0 .. m -> S]
    BY <2>2, <2>3
  <2>5. h[0] = first
    BY <2>2
  <2>6. \A k \in 1 .. m : h[k] = next[k][h[k - 1]]
    <3> TAKE k \in 1 .. m
    <3>1. CASE k = m
      BY <3>1
    <3>2. CASE k # m
      BY <3>2, <2>2
    <3> QED
      BY <3>1, <3>2
  <2>7. Solves(h, m)
    BY <2>4, <2>5, <2>6 DEF Solves
  <2> QED
    BY <2>7
<1> HIDE DEF T
<1>3. \A m \in 1 .. n : m - 1 \in T => m \in T
  BY <1>2
<1>4. \A k \in 0 .. n : k \in T
  BY <1>1, <1>3, BoundedInduction
<1>5. n \in T
  BY <1>4
<1> QED
  BY <1>5 DEF T, Solves, Walks

(***************************************************************************)
(* The event table.                                                        *)
(***************************************************************************)
Table == Seq(Row)

\* The rows of t are rows of u, at the same places.
Prefix(t, u) == \A i \in DOMAIN t : i \in DOMAIN u /\ u[i] = t[i]

\* A row whose ledger is set is verified, and no other.
Sound(r) == r.verified <=> r.ledger # Null

SoundTable(t) == t \in Table /\ \A i \in DOMAIN t : Sound(t[i])

\* INSERT OR IGNORE appends the row, or finds one that is the same.
LEMMA AddEvent ==
  ASSUME NEW t, SoundTable(t), NEW r \in Row, Sound(r), NEW u, u = add_event(t, r)
  PROVE  /\ u \in Table
         /\ Prefix(t, u)
         /\ \A i \in DOMAIN u : i \in DOMAIN t \/ u[i] = r
         /\ r.verified => \E i \in DOMAIN u : u[i] = r
<1>1. t \in Seq(Row) /\ Len(t) \in Nat /\ DOMAIN t = 1 .. Len(t)
  BY LenProperties DEF SoundTable, Table
<1>2. CASE \E i \in DOMAIN t : conflicts(r, t[i])
  <2>1. u = t
    BY <1>2 DEF add_event
  <2>2. PICK i \in DOMAIN t : conflicts(r, t[i])
    BY <1>2
  <2>3. t[i] \in Row /\ Sound(t[i])
    BY <1>1 DEF SoundTable
  <2>4. t[i].ledger = r.ledger /\ t[i].kind = r.kind /\ t[i].tx = r.tx /\ t[i].ledger # Null
    BY <2>2 DEF conflicts, same_event
  <2>5. t[i].verified = r.verified
    BY <2>3, <2>4 DEF Sound, Row
  <2>6. t[i] = r
    BY <2>3, <2>4, <2>5 DEF Row
  <2> QED
    BY <1>1, <2>1, <2>6 DEF Prefix, Table
<1>3. CASE ~\E i \in DOMAIN t : conflicts(r, t[i])
  <2>1. u = Append(t, r)
    BY <1>3 DEF add_event
  <2>2. /\ u \in Seq(Row) /\ DOMAIN u = 1 .. Len(t) + 1
        /\ u[Len(t) + 1] = r
        /\ \A i \in 1 .. Len(t) : u[i] = t[i]
    BY <1>1, <2>1, AppendProperties, LenProperties
  <2> QED
    BY <1>1, <2>2 DEF Prefix, Table
<1> QED
  BY <1>2, <1>3

Tables == {t \in Table : SoundTable(t)}

\* What add_events computes: a table after each of the new rows.
LEMMA AddEventsWalk ==
  ASSUME NEW t, SoundTable(t), NEW new, new \in Table, \A i \in DOMAIN new : Sound(new[i])
  PROVE  \E stored :
           /\ stored \in [0 .. Len(new) -> Tables]
           /\ stored[0] = t
           /\ \A k \in 1 .. Len(new) : stored[k] = add_event(stored[k - 1], new[k])
           /\ add_events(t, new) = stored[Len(new)]
<1>1. Len(new) \in Nat /\ DOMAIN new = 1 .. Len(new) /\ \A k \in 1 .. Len(new) : new[k] \in Row
  BY LenProperties DEF Table
<1> DEFINE n == Len(new)
           after == [k \in 1 .. n |-> [u \in Tables |-> add_event(u, new[k])]]
<1>2. t \in Tables
  BY DEF Tables, SoundTable
<1>3. after \in [1 .. n -> [Tables -> Tables]]
  <2> SUFFICES ASSUME NEW k \in 1 .. n, NEW u \in Tables, NEW v, v = add_event(u, new[k])
               PROVE  v \in Tables
    OBVIOUS
  <2>1. SoundTable(u)
    BY DEF Tables
  <2>2. new[k] \in Row /\ Sound(new[k])
    BY <1>1
  <2>3. v \in Table /\ Prefix(u, v) /\ \A i \in DOMAIN v : i \in DOMAIN u \/ v[i] = new[k]
    BY <2>1, <2>2, AddEvent
  <2> QED
    BY <2>1, <2>2, <2>3 DEF SoundTable, Prefix, Tables
<1>4. PICK g : g \in Walks(Tables, t, n, after)
  BY <1>1, <1>2, <1>3, WalkExists
<1>5. /\ g \in [0 .. n -> Tables]
      /\ g[0] = t
      /\ \A k \in 1 .. n : g[k] = add_event(g[k - 1], new[k])
  <2>1. g \in [0 .. n -> Tables] /\ g[0] = t /\ \A k \in 1 .. n : g[k] = after[k][g[k - 1]]
    BY <1>4 DEF Walks
  <2>2. \A k \in 1 .. n : k - 1 \in 0 .. n
    BY <1>1
  <2> QED
    BY <2>1, <2>2
<1> DEFINE Step(f) == [k \in 0 .. n |-> IF k = 0 THEN t ELSE add_event(f[k - 1], new[k])]
<1>6. g = Step(g)
  <2>1. \A k \in 0 .. n : g[k] = IF k = 0 THEN t ELSE add_event(g[k - 1], new[k])
    BY <1>5, <1>1
  <2> QED
    BY <1>5, <2>1
<1> DEFINE stored == CHOOSE f : f = Step(f)
<1>7. stored = Step(stored)
  BY <1>6
<1>8. add_events(t, new) = stored[n]
  BY DEF add_events
<1> HIDE DEF stored
<1>9. /\ DOMAIN stored = 0 .. n
      /\ stored[0] = t
      /\ \A k \in 1 .. n : stored[k] = add_event(stored[k - 1], new[k])
  BY <1>1, <1>7
<1> DEFINE T == {k \in 0 .. n : stored[k] = g[k]}
<1>10. 0 \in T
  BY <1>1, <1>5, <1>9
<1>11. \A k \in 1 .. n : k - 1 \in T => k \in T
  BY <1>1, <1>5, <1>9
<1> HIDE DEF T
<1>12. \A k \in 0 .. n : k \in T
  BY <1>1, <1>10, <1>11, BoundedInduction
<1>13. \A k \in 0 .. n : stored[k] \in Tables
  BY <1>12, <1>5 DEF T
<1>14. stored \in [0 .. n -> Tables]
  <2>1. stored = [k \in 0 .. n |-> stored[k]]
    BY <1>7, <1>9
  <2> QED
    BY <1>13, <2>1
<1> QED
  BY <1>8, <1>9, <1>14

\* INSERT OR IGNORE of several rows keeps the table, puts in nothing but those rows, and
\* leaves out none that is verified.
LEMMA AddEvents ==
  ASSUME NEW t, SoundTable(t), NEW new, new \in Table, \A i \in DOMAIN new : Sound(new[i]),
         NEW u, u = add_events(t, new)
  PROVE  /\ SoundTable(u)
         /\ Prefix(t, u)
         /\ \A i \in DOMAIN u : i \in DOMAIN t \/ \E k \in DOMAIN new : u[i] = new[k]
         /\ \A k \in DOMAIN new : new[k].verified => \E i \in DOMAIN u : u[i] = new[k]
<1> DEFINE n == Len(new)
<1>1. n \in Nat /\ DOMAIN new = 1 .. n /\ \A k \in 1 .. n : new[k] \in Row
  BY LenProperties DEF Table
<1>2. PICK stored :
        /\ stored \in [0 .. n -> Tables]
        /\ stored[0] = t
        /\ \A k \in 1 .. n : stored[k] = add_event(stored[k - 1], new[k])
        /\ add_events(t, new) = stored[n]
  BY AddEventsWalk
<1> DEFINE
      Good(v, m) ==
        /\ Prefix(t, v)
        /\ \A i \in DOMAIN v : i \in DOMAIN t \/ \E k \in 1 .. n : v[i] = new[k]
        /\ \A k \in 1 .. m : new[k].verified => \E i \in DOMAIN v : v[i] = new[k]
      T == {k \in 0 .. n : Good(stored[k], k)}
<1>3. 0 \in T
  BY <1>1, <1>2 DEF Prefix
<1>4. ASSUME NEW m \in 1 .. n, m - 1 \in T PROVE m \in T
  <2>1. Good(stored[m - 1], m - 1) /\ m - 1 \in 0 .. n /\ m \in 0 .. n
    BY <1>1, <1>4
  <2> DEFINE v == stored[m - 1]
             w == stored[m]
  <2>2. SoundTable(v)
    BY <1>2, <2>1 DEF Tables
  <2>3. new[m] \in Row /\ Sound(new[m]) /\ w = add_event(v, new[m])
    BY <1>1, <1>2
  <2>4. Good(v, m - 1)
    BY <2>1
  <2> HIDE DEF v, w
  <2>5. /\ Prefix(v, w)
        /\ \A i \in DOMAIN w : i \in DOMAIN v \/ w[i] = new[m]
        /\ new[m].verified => \E i \in DOMAIN w : w[i] = new[m]
    BY <2>2, <2>3, AddEvent
  <2>6. Prefix(t, w)
    BY <2>4, <2>5 DEF Prefix
  <2>7. \A i \in DOMAIN w : i \in DOMAIN t \/ \E k \in 1 .. n : w[i] = new[k]
    BY <2>4, <2>5 DEF Prefix
  <2>8. ASSUME NEW k \in 1 .. m, new[k].verified PROVE \E i \in DOMAIN w : w[i] = new[k]
    <3>1. CASE k = m
      BY <2>5, <2>8, <3>1
    <3>2. CASE k # m
      <4>1. k \in 1 .. m - 1
        BY <1>1, <3>2
      <4> QED
        BY <2>4, <2>5, <2>8, <4>1 DEF Prefix
    <3> QED
      BY <3>1, <3>2
  <2>9. Good(w, m)
    BY <2>6, <2>7, <2>8
  <2> QED
    BY <2>1, <2>9 DEF w
<1> HIDE DEF T
<1>5. \A m \in 1 .. n : m - 1 \in T => m \in T
  BY <1>4
<1>6. \A k \in 0 .. n : k \in T
  BY <1>1, <1>3, <1>5, BoundedInduction
<1>7. n \in 0 .. n /\ n \in T
  BY <1>1, <1>6
<1>8. Good(u, n)
  BY <1>2, <1>7 DEF T
<1>9. SoundTable(u)
  BY <1>2, <1>7 DEF Tables
<1> QED
  BY <1>1, <1>8, <1>9

\* The rows of a query are those of the places, all of them.
LEMMA RowsAt ==
  ASSUME NEW t \in Table, NEW places, places \subseteq DOMAIN t,
         NEW u, u = rows_at(t, places)
  PROVE  /\ u \in Table
         /\ \A i \in DOMAIN u : \E j \in places : u[i] = t[j]
         /\ \A j \in places : \E i \in DOMAIN u : u[i] = t[j]
<1> DEFINE n == Len(t)
           pick(s, k) == IF k \in places THEN Append(s, t[k]) ELSE s
           next == [k \in 1 .. n |-> [s \in Table |-> pick(s, k)]]
<1>1. n \in Nat /\ DOMAIN t = 1 .. n /\ \A k \in 1 .. n : t[k] \in Row
  BY LenProperties DEF Table
<1>2. << >> \in Table
  BY EmptySeq DEF Table
<1>3. ASSUME NEW s \in Table, NEW k \in 1 .. n
      PROVE  /\ pick(s, k) \in Table
             /\ \A i \in DOMAIN s : i \in DOMAIN pick(s, k) /\ pick(s, k)[i] = s[i]
             /\ \A i \in DOMAIN pick(s, k) : i \in DOMAIN s \/ (k \in places /\ pick(s, k)[i] = t[k])
             /\ k \in places => \E i \in DOMAIN pick(s, k) : pick(s, k)[i] = t[k]
  <2>1. CASE k \notin places
    BY <2>1
  <2>2. CASE k \in places
    <3>1. s \in Seq(Row) /\ t[k] \in Row /\ Len(s) \in Nat /\ DOMAIN s = 1 .. Len(s)
      BY <1>1, LenProperties DEF Table
    <3> DEFINE w == Append(s, t[k])
    <3>2. /\ w \in Seq(Row) /\ DOMAIN w = 1 .. Len(s) + 1
          /\ w[Len(s) + 1] = t[k]
          /\ \A i \in 1 .. Len(s) : w[i] = s[i]
      BY <3>1, AppendProperties, LenProperties
    <3>3. pick(s, k) = w
      BY <2>2
    <3> HIDE DEF w, pick
    <3> QED
      BY <2>2, <3>1, <3>2, <3>3 DEF Table
  <2> QED
    BY <2>1, <2>2
<1> HIDE DEF pick
<1>4. next \in [1 .. n -> [Table -> Table]]
  BY <1>3
<1>5. PICK g : g \in Walks(Table, << >>, n, next)
  BY <1>1, <1>2, <1>4, WalkExists
<1>6. g \in [0 .. n -> Table] /\ g[0] = << >> /\ \A k \in 1 .. n : g[k] = pick(g[k - 1], k)
  <2>1. g \in [0 .. n -> Table] /\ g[0] = << >> /\ \A k \in 1 .. n : g[k] = next[k][g[k - 1]]
    BY <1>5 DEF Walks
  <2>2. \A k \in 1 .. n : k - 1 \in 0 .. n
    BY <1>1
  <2> QED
    BY <2>1, <2>2
<1> DEFINE Step(f) == [k \in 0 .. n |-> IF k = 0 THEN << >> ELSE pick(f[k - 1], k)]
<1>7. g = Step(g)
  <2>1. \A k \in 0 .. n : g[k] = IF k = 0 THEN << >> ELSE pick(g[k - 1], k)
    BY <1>6, <1>1
  <2> QED
    BY <1>6, <2>1
<1> DEFINE found == CHOOSE f : f = Step(f)
<1>8. found = Step(found)
  BY <1>7
<1>9. u = found[n]
  BY DEF rows_at, pick
<1> HIDE DEF found
<1>10. found[0] = << >> /\ \A k \in 1 .. n : found[k] = pick(found[k - 1], k)
  BY <1>1, <1>8
<1> DEFINE
      Good(v, m) ==
        /\ v \in Table
        /\ \A i \in DOMAIN v : \E j \in places : v[i] = t[j]
        /\ \A j \in places : j <= m => \E i \in DOMAIN v : v[i] = t[j]
      T == {k \in 0 .. n : Good(found[k], k)}
<1>11. 0 \in T
  <2>1. DOMAIN found[0] = {}
    BY <1>10, EmptySeq
  <2>2. \A j \in places : ~(j <= 0)
    BY <1>1
  <2> QED
    BY <1>1, <1>2, <1>10, <2>1, <2>2
<1>12. ASSUME NEW m \in 1 .. n, m - 1 \in T PROVE m \in T
  <2> DEFINE v == found[m - 1]
             w == pick(v, m)
  <2>1. Good(v, m - 1) /\ m \in 0 .. n
    BY <1>1, <1>12
  <2>2. w = found[m]
    BY <1>10
  <2> HIDE DEF v
  <2>3. /\ w \in Table
        /\ \A i \in DOMAIN v : i \in DOMAIN w /\ w[i] = v[i]
        /\ \A i \in DOMAIN w : i \in DOMAIN v \/ (m \in places /\ w[i] = t[m])
        /\ m \in places => \E i \in DOMAIN w : w[i] = t[m]
    BY <1>3, <2>1
  <2> HIDE DEF w
  <2>4. \A i \in DOMAIN w : \E j \in places : w[i] = t[j]
    BY <2>1, <2>3
  <2>5. ASSUME NEW j \in places, j <= m PROVE \E i \in DOMAIN w : w[i] = t[j]
    <3>1. CASE j = m
      BY <2>3, <3>1
    <3>2. CASE j # m
      <4>1. j <= m - 1
        BY <1>1, <2>5, <3>2
      <4> QED
        BY <2>1, <2>3, <4>1
    <3> QED
      BY <3>1, <3>2
  <2>6. Good(w, m)
    BY <2>3, <2>4, <2>5
  <2> QED
    BY <2>1, <2>2, <2>6
<1> HIDE DEF T
<1>13. \A m \in 1 .. n : m - 1 \in T => m \in T
  BY <1>12
<1>14. \A k \in 0 .. n : k \in T
  BY <1>1, <1>11, <1>13, BoundedInduction
<1>15. n \in 0 .. n /\ n \in T
  BY <1>1, <1>14
<1>16. Good(u, n)
  BY <1>9, <1>15 DEF T
<1>17. \A j \in places : j <= n
  BY <1>1
<1> QED
  BY <1>16, <1>17

\* A query for a number of the pending rows answers a sequence of rows.
LEMMA UnverifiedRows ==
  ASSUME NEW t \in Table, NEW limit \in Nat
  PROVE  getUnverifiedEvents(t, limit) \in Table
<1> DEFINE places == {i \in DOMAIN t : ~t[i].verified}
           u == rows_at(t, places)
<1>1. u \in Table
  BY RowsAt
<1> HIDE DEF u
<1>2. u \in Seq(Row) /\ Len(u) \in Nat
  BY <1>1, LenProperties DEF Table
<1> DEFINE last == IF Len(u) < limit THEN Len(u) ELSE limit
<1>3. last \in 0 .. Len(u)
  BY <1>2
<1>4. SubSeq(u, 1, last) \in Seq(Row)
  BY <1>2, <1>3, SubSeqProperties
<1> QED
  BY <1>4 DEF getUnverifiedEvents, u, Table

(***************************************************************************)
(* The inductive invariant.                                                *)
(***************************************************************************)
Hash == Tx \cup Manual \cup {Synthetic}

ChainInv ==
  /\ ledger \in 0 .. MaxLedger
  /\ included \in [Tx -> 0 .. ledger]
  /\ failed \subseteq {tx \in Tx : included[tx] # 0}

OnChain(r) == r.verified /\ r.tx \in Tx => succeeded(r.tx) /\ r.ledger = included[r.tx]

TableInv(t) == SoundTable(t) /\ \A i \in DOMAIN t : OnChain(t[i])

\* The file holds every event up to its cursor.
FileInv ==
  json # Null =>
    /\ TableInv(json.events)
    /\ json.lastLedger \in 0 .. ledger
    /\ \A e \in Event : succeeded(tx_of(e)) /\ included[tx_of(e)] <= json.lastLedger =>
         \E i \in DOMAIN json.events : json.events[i] = polled_row(e)

LocalInv ==
  /\ cursor \in 0 .. ledger
  /\ pc # "down" => lastLedger = cursor
  /\ pc \in {"events", "store"} => currentLedger \in lastLedger .. ledger
  /\ todo \in Seq(Range(contracts))
  /\ pc = "events" <=> todo # << >>
  /\ queue \in Seq(Hash)
  /\ pc = "verify" => queue # << >>

covered(e) == is_indexed(e) \/ e \in missed

\* Within a poll, the contracts asked so far are covered up to the end of its range.
PolledInv ==
  pc \in {"events", "store"} =>
    \A e \in Event :
      succeeded(tx_of(e)) /\ included[tx_of(e)] <= currentLedger /\ contract_of(e) \notin Range(todo)
        => covered(e)

IndexerInv ==
  ChainInv /\ TableInv(rows) /\ FileInv /\ LocalInv /\ NothingLostByRestart /\ PolledInv

(***************************************************************************)
(* Changes of the table that keep its rows.                                *)
(***************************************************************************)
Kept(u) ==
  /\ TableInv(u)
  /\ \A i \in DOMAIN rows :
       rows[i].tx \in failed \/ \E j \in DOMAIN u :
         same_event(u[j], rows[i]) /\ (rows[i].verified => u[j] = rows[i])

\* What the node returns about an event that succeeded makes a row that is right.
LEMMA PolledRow ==
  ASSUME ChainInv, NEW e \in Event, succeeded(tx_of(e)), NEW r, r = polled_row(e)
  PROVE  /\ r \in Row /\ Sound(r) /\ OnChain(r)
         /\ r.verified /\ r.tx = tx_of(e) /\ r.tx \notin failed
<1>1. tx_of(e) \in Tx /\ kind_of(e) \in Kind /\ Null \notin Nat /\ MaxLedger \in Nat
  BY IndexerAssumption
<1>2. included[tx_of(e)] \in 0 .. MaxLedger /\ included[tx_of(e)] # Null
  BY <1>1 DEF ChainInv
<1>3. r \in Row /\ r.ledger = included[tx_of(e)] /\ r.verified = TRUE /\ r.tx = tx_of(e)
  BY <1>1, <1>2 DEF polled_row, Row
<1> QED
  BY <1>2, <1>3 DEF Sound, OnChain, succeeded

\* A table that only gets longer keeps its rows.
LEMMA LongerIsKept ==
  ASSUME TableInv(rows), NEW u, TableInv(u), Prefix(rows, u)
  PROVE  Kept(u)
BY DEF Kept, Prefix, same_event

\* A row that is right may be added.
LEMMA AddedIsKept ==
  ASSUME TableInv(rows), NEW r \in Row, Sound(r), OnChain(r), NEW u, u = add_event(rows, r)
  PROVE  Kept(u)
<1>1. SoundTable(rows)
  BY DEF TableInv
<1>2. u \in Table /\ Prefix(rows, u) /\ \A i \in DOMAIN u : i \in DOMAIN rows \/ u[i] = r
  BY <1>1, AddEvent
<1>3. TableInv(u)
  BY <1>2 DEF TableInv, SoundTable, Prefix
<1> QED
  BY <1>2, <1>3, LongerIsKept

\* And several of them, which are then all there if they are verified.
LEMMA AllAddedIsKept ==
  ASSUME TableInv(rows), NEW new, TableInv(new), NEW u, u = add_events(rows, new)
  PROVE  /\ Kept(u)
         /\ \A k \in DOMAIN new : new[k].verified => \E i \in DOMAIN u : u[i] = new[k]
<1>1. SoundTable(rows) /\ new \in Table /\ \A i \in DOMAIN new : Sound(new[i])
  BY DEF TableInv, SoundTable
<1>2. /\ SoundTable(u)
      /\ Prefix(rows, u)
      /\ \A i \in DOMAIN u : i \in DOMAIN rows \/ \E k \in DOMAIN new : u[i] = new[k]
      /\ \A k \in DOMAIN new : new[k].verified => \E i \in DOMAIN u : u[i] = new[k]
  BY <1>1, AddEvents
<1>3. TableInv(u)
  BY <1>2 DEF TableInv, Prefix
<1> QED
  BY <1>2, <1>3, LongerIsKept

\* The UPDATE of a transaction's rows: one that was verified has that ledger already.
LEMMA VerifiedIsKept ==
  ASSUME ChainInv, TableInv(rows), NEW tx \in Tx, succeeded(tx), verifyEvent(tx, included[tx])
  PROVE  Kept(rows')
<1> DEFINE updated == [i \in DOMAIN rows |->
             IF rows[i].tx = tx THEN [rows[i] EXCEPT !.verified = TRUE, !.ledger = included[tx]]
             ELSE rows[i]]
<1>1. rows \in Seq(Row) /\ DOMAIN rows = 1 .. Len(rows) /\ Len(rows) \in Nat
  BY LenProperties DEF TableInv, SoundTable, Table
<1>2. included[tx] \in 0 .. MaxLedger /\ included[tx] # Null /\ Null \notin Nat
  BY IndexerAssumption DEF ChainInv
<1>3. rows' = rows \/ rows' = updated
  BY DEF verifyEvent
<1>4. ASSUME NEW i \in DOMAIN rows
      PROVE  /\ updated[i] \in Row /\ Sound(updated[i]) /\ OnChain(updated[i])
             /\ same_event(updated[i], rows[i])
             /\ rows[i].verified => updated[i] = rows[i]
  <2>1. rows[i] \in Row /\ Sound(rows[i]) /\ OnChain(rows[i])
    BY <1>1 DEF TableInv, SoundTable
  <2>2. CASE rows[i].tx # tx
    BY <2>1, <2>2 DEF same_event
  <2>3. CASE rows[i].tx = tx
    <3>1. updated[i] = [rows[i] EXCEPT !.verified = TRUE, !.ledger = included[tx]]
      BY <2>3
    <3>2. /\ updated[i] \in Row /\ updated[i].verified = TRUE /\ updated[i].ledger = included[tx]
          /\ updated[i].tx = tx /\ updated[i].kind = rows[i].kind
      BY <1>2, <2>1, <2>3, <3>1 DEF Row
    <3>3. Sound(updated[i]) /\ OnChain(updated[i])
      BY <1>2, <3>2 DEF Sound, OnChain
    <3>4. same_event(updated[i], rows[i])
      BY <2>3, <3>2 DEF same_event
    <3>5. ASSUME rows[i].verified PROVE updated[i] = rows[i]
      <4>1. rows[i].verified = TRUE /\ rows[i].ledger = included[tx]
        BY <2>1, <2>3, <3>5 DEF OnChain, Row
      <4> QED
        BY <2>1, <3>1, <4>1 DEF Row
    <3> QED
      BY <3>2, <3>3, <3>4, <3>5
  <2> QED
    BY <2>2, <2>3
<1>5. DOMAIN updated = DOMAIN rows /\ (DOMAIN rows = 1 .. Len(rows))
  BY <1>1
<1> HIDE DEF updated
<1>6. updated \in [1 .. Len(rows) -> Row]
  <2>1. updated = [i \in 1 .. Len(rows) |-> updated[i]]
    BY <1>5 DEF updated
  <2> QED
    BY <1>4, <1>5, <2>1
<1>7. updated \in Table
  BY <1>1, <1>6, SeqDef DEF Table
<1>8. TableInv(updated)
  BY <1>4, <1>5, <1>7 DEF TableInv, SoundTable
<1>9. Kept(updated)
  BY <1>4, <1>5, <1>8 DEF Kept
<1>10. Kept(rows)
  BY LongerIsKept DEF Prefix
<1> QED
  BY <1>3, <1>9, <1>10

\* The DELETE of a failed transaction's pending rows.
LEMMA DeletedIsKept ==
  ASSUME ChainInv, TableInv(rows), NEW tx \in failed, deleteUnverifiedEvent(tx)
  PROVE  Kept(rows')
<1> DEFINE places == {i \in DOMAIN rows : rows[i].verified \/ rows[i].tx # tx}
<1>1. rows \in Table /\ places \subseteq DOMAIN rows /\ rows' = rows_at(rows, places)
  BY DEF TableInv, SoundTable, deleteUnverifiedEvent
<1> HIDE DEF places
<1>2. /\ rows' \in Table
      /\ \A i \in DOMAIN rows' : \E j \in places : rows'[i] = rows[j]
      /\ \A j \in places : \E i \in DOMAIN rows' : rows'[i] = rows[j]
  BY <1>1, RowsAt
<1>3. TableInv(rows')
  BY <1>1, <1>2 DEF TableInv, SoundTable
<1>4. \A i \in DOMAIN rows : rows[i].tx \in failed \/ i \in places
  BY DEF places
<1> QED
  BY <1>2, <1>3, <1>4 DEF Kept, same_event

\* While the chain stays, rows that are kept cover what they covered.
LEMMA CoveredStays ==
  ASSUME ChainInv, TableInv(rows), Kept(rows'), UNCHANGED chain_vars, missed \subseteq missed',
         NEW e \in Event, succeeded(tx_of(e)), covered(e)
  PROVE  covered(e)'
<1>1. CASE e \in missed
  BY <1>1 DEF covered
<1>2. CASE is_indexed(e)
  <2>1. PICK i \in DOMAIN rows : rows[i] = polled_row(e)
    BY <1>2 DEF is_indexed
  <2>2. rows[i].verified /\ rows[i].tx \notin failed
    BY <2>1, PolledRow
  <2>3. PICK j \in DOMAIN rows' : rows'[j] = rows[i]
    BY <2>2 DEF Kept
  <2>4. polled_row(e)' = polled_row(e)
    BY DEF polled_row, chain_vars
  <2> QED
    BY <2>1, <2>3, <2>4 DEF covered, is_indexed
<1> QED
  BY <1>1, <1>2 DEF covered

\* A step that leaves the chain and the file alone keeps what the table and the file
\* promise.
LEMMA TableStep ==
  ASSUME IndexerInv, Kept(rows'), UNCHANGED <<chain_vars, json>>
  PROVE  ChainInv' /\ TableInv(rows)' /\ FileInv'
<1> USE DEF chain_vars
<1>1. ChainInv'
  BY DEF IndexerInv, ChainInv
<1>2. \A r : OnChain(r)' <=> OnChain(r)
  BY DEF OnChain, succeeded
<1>3. TableInv(rows)'
  BY <1>2 DEF Kept, TableInv
<1>4. FileInv'
  <2> SUFFICES ASSUME json # Null
               PROVE  /\ TableInv(json.events)'
                      /\ json'.lastLedger \in 0 .. ledger'
                      /\ \A e \in Event :
                           succeeded(tx_of(e))' /\ included'[tx_of(e)] <= json'.lastLedger =>
                             \E i \in DOMAIN json'.events : json'.events[i] = polled_row(e)'
    BY DEF FileInv
  <2>1. /\ TableInv(json.events)
        /\ json.lastLedger \in 0 .. ledger
        /\ \A e \in Event : succeeded(tx_of(e)) /\ included[tx_of(e)] <= json.lastLedger =>
             \E i \in DOMAIN json.events : json.events[i] = polled_row(e)
    BY DEF IndexerInv, FileInv
  <2>2. TableInv(json.events)'
    BY <1>2, <2>1 DEF TableInv
  <2> QED
    BY <2>1, <2>2 DEF succeeded, polled_row
<1> QED
  BY <1>1, <1>3, <1>4

\* So does a step that leaves the cursor alone too, with what the cursor promises.
LEMMA CursorStep ==
  ASSUME IndexerInv, Kept(rows'), UNCHANGED <<chain_vars, json, cursor>>, missed \subseteq missed'
  PROVE  ChainInv' /\ TableInv(rows)' /\ FileInv' /\ NothingLostByRestart' /\ IndexStays
<1>1. ChainInv' /\ TableInv(rows)' /\ FileInv'
  BY TableStep
<1>2. ASSUME NEW e \in Event, succeeded(tx_of(e))', included'[tx_of(e)] <= cursor'
      PROVE  (is_indexed(e) \/ e \in missed)'
  <2>1. succeeded(tx_of(e)) /\ included[tx_of(e)] <= cursor
    BY <1>2 DEF chain_vars, succeeded
  <2>2. covered(e)
    BY <2>1 DEF IndexerInv, NothingLostByRestart, covered
  <2>3. covered(e)'
    BY <2>1, <2>2, CoveredStays DEF IndexerInv
  <2> QED
    BY <2>3 DEF covered
<1>3. NothingLostByRestart'
  BY <1>2 DEF NothingLostByRestart
<1>4. IndexStays
  <2>1. cursor \in Nat /\ cursor' = cursor
    BY DEF IndexerInv, LocalInv, ChainInv
  <2> QED
    BY <2>1 DEF IndexStays, Kept
<1> QED
  BY <1>1, <1>3, <1>4

\* And one that leaves the indexer where it is, with the whole invariant.
LEMMA RouteStep ==
  ASSUME IndexerInv, Kept(rows'), UNCHANGED <<chain_vars, json, cursor, local_vars, history_vars>>
  PROVE  IndexerInv' /\ IndexStays
<1> USE DEF history_vars, local_vars
<1>1. ChainInv' /\ TableInv(rows)' /\ FileInv' /\ NothingLostByRestart' /\ IndexStays
  BY CursorStep
<1>2. LocalInv'
  BY DEF IndexerInv, LocalInv, chain_vars
<1>3. PolledInv'
  <2> SUFFICES ASSUME pc \in {"events", "store"}, NEW e \in Event, succeeded(tx_of(e))',
                      included'[tx_of(e)] <= currentLedger, contract_of(e) \notin Range(todo)
               PROVE  covered(e)'
    BY DEF PolledInv
  <2>1. succeeded(tx_of(e)) /\ included[tx_of(e)] <= currentLedger
    BY DEF succeeded, chain_vars
  <2>2. covered(e)
    BY <2>1 DEF IndexerInv, PolledInv
  <2> QED
    BY <2>1, <2>2, CoveredStays DEF IndexerInv
<1> QED
  BY <1>1, <1>2, <1>3 DEF IndexerInv

(***************************************************************************)
(* One lemma per action.                                                   *)
(***************************************************************************)
LEMMA LedgerCloseStep ==
  ASSUME IndexerInv, LedgerClose
  PROVE  IndexerInv' /\ IndexStays
<1>1. PICK S \in SUBSET {tx \in Tx : included[tx] = 0}, F \in SUBSET {tx \in Tx : included[tx] = 0} :
        /\ F \subseteq S
        /\ included' = [tx \in Tx |-> IF tx \in S THEN ledger + 1 ELSE included[tx]]
        /\ failed' = failed \cup F
  BY DEF LedgerClose
<1>2. /\ ledger < MaxLedger /\ ledger' = ledger + 1
      /\ UNCHANGED <<json, rows, cursor, pc, initial, lastLedger, currentLedger, todo, queue, missed>>
  BY DEF LedgerClose, db_vars, local_vars, history_vars
<1>3. /\ ledger \in 0 .. MaxLedger /\ MaxLedger \in Nat
      /\ included \in [Tx -> 0 .. ledger]
      /\ failed \subseteq {tx \in Tx : included[tx] # 0}
  BY IndexerAssumption DEF IndexerInv, ChainInv
<1>4. ChainInv'
  <2>1. ledger' \in 0 .. MaxLedger
    BY <1>2, <1>3
  <2>2. included' \in [Tx -> 0 .. ledger']
    BY <1>1, <1>2, <1>3
  <2>3. \A tx \in failed' : tx \in Tx /\ included'[tx] # 0
    BY <1>1, <1>3
  <2> QED
    BY <2>1, <2>2, <2>3 DEF ChainInv
\* What had succeeded has, in the same ledger; what is new is in the new one.
<1>5. ASSUME NEW tx \in Tx, succeeded(tx) PROVE succeeded(tx)' /\ included'[tx] = included[tx]
  BY <1>1, <1>3, <1>5 DEF succeeded
<1>6. ASSUME NEW tx \in Tx, succeeded(tx)', included'[tx] <= ledger
      PROVE  succeeded(tx) /\ included'[tx] = included[tx]
  BY <1>1, <1>3, <1>6 DEF succeeded
<1>7. \A t : TableInv(t) => TableInv(t)'
  BY <1>5 DEF TableInv, OnChain
<1>8. ASSUME NEW e \in Event, succeeded(tx_of(e))', included'[tx_of(e)] <= ledger
      PROVE  /\ succeeded(tx_of(e)) /\ included'[tx_of(e)] = included[tx_of(e)]
             /\ polled_row(e)' = polled_row(e)
  <2>1. tx_of(e) \in Tx
    BY IndexerAssumption
  <2>2. succeeded(tx_of(e)) /\ included'[tx_of(e)] = included[tx_of(e)]
    BY <1>6, <1>8, <2>1
  <2> QED
    BY <2>2 DEF polled_row
<1>9. \A tx \in Tx : included'[tx] \in Nat
  BY <1>4 DEF ChainInv
<1>10. \A e \in Event : tx_of(e) \in Tx
  BY IndexerAssumption
<1>11. TableInv(rows)'
  BY <1>2, <1>7 DEF IndexerInv, TableInv
<1>12. FileInv'
  <2> SUFFICES ASSUME json # Null
               PROVE  /\ TableInv(json.events)'
                      /\ json.lastLedger \in 0 .. ledger'
                      /\ \A e \in Event :
                           succeeded(tx_of(e))' /\ included'[tx_of(e)] <= json.lastLedger =>
                             \E i \in DOMAIN json.events : json.events[i] = polled_row(e)'
    BY <1>2 DEF FileInv
  <2>1. /\ TableInv(json.events)
        /\ json.lastLedger \in 0 .. ledger
        /\ \A e \in Event : succeeded(tx_of(e)) /\ included[tx_of(e)] <= json.lastLedger =>
             \E i \in DOMAIN json.events : json.events[i] = polled_row(e)
    BY DEF IndexerInv, FileInv
  <2>2. TableInv(json.events)'
    BY <1>2, <1>7, <2>1 DEF TableInv
  <2>3. json.lastLedger \in 0 .. ledger'
    BY <1>2, <1>3, <2>1
  <2>4. ASSUME NEW e \in Event, succeeded(tx_of(e))', included'[tx_of(e)] <= json.lastLedger
        PROVE  \E i \in DOMAIN json.events : json.events[i] = polled_row(e)'
    <3>1. included'[tx_of(e)] <= ledger
      BY <1>3, <1>9, <1>10, <2>1, <2>4
    <3> QED
      BY <1>8, <2>1, <2>4, <3>1
  <2> QED
    BY <2>2, <2>3, <2>4
<1>13. LocalInv'
  BY <1>2, <1>3 DEF IndexerInv, LocalInv
<1>14. cursor \in 0 .. ledger
  BY DEF IndexerInv, LocalInv
<1>15. NothingLostByRestart'
  <2> SUFFICES ASSUME NEW e \in Event, succeeded(tx_of(e))', included'[tx_of(e)] <= cursor
               PROVE  (is_indexed(e) \/ e \in missed)'
    BY <1>2 DEF NothingLostByRestart
  <2>1. included'[tx_of(e)] <= ledger
    BY <1>3, <1>9, <1>10, <1>14
  <2>2. succeeded(tx_of(e)) /\ included[tx_of(e)] <= cursor /\ polled_row(e)' = polled_row(e)
    BY <1>8, <2>1
  <2>3. is_indexed(e) \/ e \in missed
    BY <2>2 DEF IndexerInv, NothingLostByRestart
  <2> QED
    BY <1>2, <2>2, <2>3 DEF is_indexed
<1>16. PolledInv'
  <2> SUFFICES ASSUME pc \in {"events", "store"}, NEW e \in Event, succeeded(tx_of(e))',
                      included'[tx_of(e)] <= currentLedger, contract_of(e) \notin Range(todo)
               PROVE  covered(e)'
    BY <1>2 DEF PolledInv
  <2>1. currentLedger \in lastLedger .. ledger /\ lastLedger = cursor
    BY DEF IndexerInv, LocalInv
  <2>2. included'[tx_of(e)] <= ledger
    BY <1>3, <1>9, <1>10, <1>14, <2>1
  <2>3. succeeded(tx_of(e)) /\ included[tx_of(e)] <= currentLedger /\ polled_row(e)' = polled_row(e)
    BY <1>8, <2>2
  <2>4. covered(e)
    BY <2>3 DEF IndexerInv, PolledInv
  <2> QED
    BY <1>2, <2>3, <2>4 DEF covered, is_indexed
<1>17. IndexStays
  BY <1>2, <1>3, <1>14 DEF IndexStays, same_event
<1> QED
  BY <1>4, <1>11, <1>12, <1>13, <1>15, <1>16, <1>17 DEF IndexerInv

\* The rows of the file are all in the table before the cursor of the file is taken.
LEMMA StartIndexerStep ==
  ASSUME IndexerInv, startIndexer
  PROVE  IndexerInv' /\ IndexStays
<1>1. /\ pc = "down" /\ pc' = "latest"
      /\ migrateFromJson /\ lastLedger' = cursor'
      /\ UNCHANGED <<chain_vars, currentLedger, todo, queue, missed>>
  BY DEF startIndexer, history_vars
<1>2. cursor \in 0 .. ledger /\ ledger \in Nat /\ todo \in Seq(Range(contracts)) /\ todo = << >>
  BY <1>1 DEF IndexerInv, LocalInv, ChainInv
<1>3. Kept(rows)
  BY LongerIsKept DEF IndexerInv, Prefix
<1>4. CASE json = Null
  <2>1. UNCHANGED <<json, rows, cursor>>
    BY <1>1, <1>4 DEF migrateFromJson, db_vars
  <2>2. ChainInv' /\ TableInv(rows)' /\ FileInv' /\ NothingLostByRestart' /\ IndexStays
    BY <1>1, <1>3, <2>1, CursorStep
  <2>3. LocalInv'
    BY <1>1, <1>2, <2>1 DEF IndexerInv, LocalInv, chain_vars
  <2>4. PolledInv'
    BY <1>1 DEF PolledInv
  <2> QED
    BY <2>2, <2>3, <2>4 DEF IndexerInv
<1>5. CASE json # Null
  <2>1. /\ rows' = add_events(rows, json.events)
        /\ cursor' = json.lastLedger
        /\ json' \in {json, Null}
    BY <1>1, <1>5 DEF migrateFromJson
  <2>2. /\ TableInv(json.events)
        /\ json.lastLedger \in 0 .. ledger
        /\ \A e \in Event : succeeded(tx_of(e)) /\ included[tx_of(e)] <= json.lastLedger =>
             \E i \in DOMAIN json.events : json.events[i] = polled_row(e)
    BY <1>5 DEF IndexerInv, FileInv
  <2>3. /\ Kept(rows')
        /\ \A k \in DOMAIN json.events :
             json.events[k].verified => \E i \in DOMAIN rows' : rows'[i] = json.events[k]
    BY <2>1, <2>2, AllAddedIsKept DEF IndexerInv
  <2>4. \A r : OnChain(r)' <=> OnChain(r)
    BY <1>1 DEF OnChain, succeeded, chain_vars
  <2>5. ChainInv' /\ TableInv(rows)'
    BY <1>1, <2>3, <2>4 DEF IndexerInv, ChainInv, Kept, TableInv, chain_vars
  <2>6. \A e \in Event : /\ succeeded(tx_of(e))' <=> succeeded(tx_of(e))
                         /\ polled_row(e)' = polled_row(e)
                         /\ included'[tx_of(e)] = included[tx_of(e)]
    BY <1>1 DEF succeeded, polled_row, chain_vars
  <2>7. FileInv'
    <3>1. CASE json' = Null
      BY <3>1 DEF FileInv
    <3>2. CASE json' = json
      <4>1. TableInv(json.events)'
        BY <2>2, <2>4, <3>2 DEF TableInv
      <4>2. ledger' = ledger
        BY <1>1 DEF chain_vars
      <4> QED
        BY <2>2, <2>6, <3>2, <4>1, <4>2 DEF FileInv
    <3> QED
      BY <2>1, <3>1, <3>2
  <2>8. NothingLostByRestart'
    <3> SUFFICES ASSUME NEW e \in Event, succeeded(tx_of(e))', included'[tx_of(e)] <= cursor'
                 PROVE  is_indexed(e)'
      BY DEF NothingLostByRestart
    <3>1. succeeded(tx_of(e)) /\ included[tx_of(e)] <= json.lastLedger
      BY <2>1, <2>6
    <3>2. PICK k \in DOMAIN json.events : json.events[k] = polled_row(e)
      BY <2>2, <3>1
    <3>3. json.events[k].verified
      BY <3>1, <3>2, PolledRow DEF IndexerInv
    <3>4. PICK i \in DOMAIN rows' : rows'[i] = polled_row(e)
      BY <2>3, <3>2, <3>3
    <3> QED
      BY <2>6, <3>4 DEF is_indexed
  <2>9. LocalInv'
    BY <1>1, <1>2, <2>1, <2>2 DEF IndexerInv, LocalInv, chain_vars
  <2>10. PolledInv'
    BY <1>1 DEF PolledInv
  <2>11. IndexStays
    BY <1>1, <1>5, <2>3 DEF IndexStays, Kept
  <2> QED
    BY <2>5, <2>7, <2>8, <2>9, <2>10, <2>11 DEF IndexerInv
<1> QED
  BY <1>4, <1>5

\* A poll that begins has every contract to ask; one that does not has nothing to store.
LEMMA GetLatestLedgerStep ==
  ASSUME IndexerInv, getLatestLedger
  PROVE  IndexerInv' /\ IndexStays
<1>1. /\ pc = "latest"
      /\ UNCHANGED <<chain_vars, json, rows, cursor, missed, initial, lastLedger, queue>>
  BY DEF getLatestLedger, db_vars, history_vars
<1>2. Kept(rows')
  BY <1>1, LongerIsKept DEF IndexerInv, Prefix
<1>3. ChainInv' /\ TableInv(rows)' /\ FileInv' /\ NothingLostByRestart' /\ IndexStays
  BY <1>1, <1>2, CursorStep
<1>4. cursor \in 0 .. ledger /\ ledger \in Nat /\ lastLedger = cursor
  BY <1>1 DEF IndexerInv, LocalInv, ChainInv
<1>5. contracts \in Seq(Range(contracts)) /\ contracts # << >>
  BY IndexerAssumption
<1>6. CASE /\ currentLedger' \in 0 .. ledger /\ lastLedger < currentLedger'
           /\ todo' = contracts /\ pc' = "events"
  <2>1. LocalInv'
    BY <1>1, <1>4, <1>5, <1>6 DEF IndexerInv, LocalInv, chain_vars
  <2>2. \A e \in Event : contract_of(e) \in Range(todo')
    BY <1>6, IndexerAssumption
  <2>3. PolledInv'
    BY <2>2 DEF PolledInv
  <2> QED
    BY <1>3, <2>1, <2>3 DEF IndexerInv
<1>7. CASE currentLedger' = lastLedger /\ pc' = "store" /\ todo' = todo
  <2>1. LocalInv'
    BY <1>1, <1>4, <1>7 DEF IndexerInv, LocalInv, chain_vars
  <2>2. currentLedger' = cursor'
    BY <1>1, <1>4, <1>7
  <2>3. PolledInv'
    BY <1>3, <2>2 DEF NothingLostByRestart, PolledInv, covered
  <2> QED
    BY <1>3, <2>1, <2>3 DEF IndexerInv
<1> QED
  BY <1>6, <1>7 DEF getLatestLedger

\* The elements of a finite set, in some order.
LEMMA SetSequence ==
  ASSUME NEW S, IsFiniteSet(S)
  PROVE  /\ Cardinality(S) \in Nat
         /\ SetToSeq(S) \in [1 .. Cardinality(S) -> S]
         /\ \A x \in S : \E i \in 1 .. Cardinality(S) : SetToSeq(S)[i] = x
<1>1. Cardinality(S) \in Nat /\ ExistsBijection(1 .. Cardinality(S), S)
  BY FS_CardinalityType
<1>2. \E f \in [1 .. Cardinality(S) -> S] : IsInjective(f)
  BY <1>1 DEF ExistsBijection, Bijection, Injection
<1>3. SetToSeq(S) \in [1 .. Cardinality(S) -> S] /\ IsInjective(SetToSeq(S))
  BY <1>2 DEF SetToSeq
<1>4. SetToSeq(S) \in Injection(1 .. Cardinality(S), S)
  BY <1>3 DEF Injection
<1>5. Cardinality(1 .. Cardinality(S)) = Cardinality(S)
  BY <1>1, FS_Interval
<1>6. SetToSeq(S) \in Surjection(1 .. Cardinality(S), S)
  BY <1>1, <1>4, <1>5, FS_Injection
<1> QED
  BY <1>1, <1>3, <1>6 DEF Surjection

\* The rows of a set of events that succeeded.
polled_rows(S) == [i \in 1 .. Cardinality(S) |-> polled_row(SetToSeq(S)[i])]

LEMMA PolledRows ==
  ASSUME ChainInv, NEW S \in SUBSET Event, \A e \in S : succeeded(tx_of(e)),
         NEW new, new = polled_rows(S)
  PROVE  /\ TableInv(new)
         /\ \A e \in S : \E i \in DOMAIN new : new[i] = polled_row(e) /\ new[i].verified
<1>1. IsFiniteSet(S)
  BY IndexerAssumption, FS_Subset
<1> DEFINE n == Cardinality(S)
           q == SetToSeq(S)
<1>2. n \in Nat /\ q \in [1 .. n -> S] /\ \A e \in S : \E i \in 1 .. n : q[i] = e
  BY <1>1, SetSequence
<1>3. new = [i \in 1 .. n |-> polled_row(q[i])]
  BY DEF polled_rows
<1> HIDE DEF n, q
<1>4. ASSUME NEW i \in 1 .. n
      PROVE  new[i] \in Row /\ Sound(new[i]) /\ OnChain(new[i]) /\ new[i].verified
  <2>1. q[i] \in Event /\ succeeded(tx_of(q[i])) /\ new[i] = polled_row(q[i])
    BY <1>2, <1>3
  <2> QED
    BY <2>1, PolledRow
<1>5. new \in [1 .. n -> Row] /\ DOMAIN new = 1 .. n
  BY <1>3, <1>4
<1>6. new \in Table
  BY <1>2, <1>5, SeqDef DEF Table
<1>7. TableInv(new)
  BY <1>4, <1>5, <1>6 DEF TableInv, SoundTable
<1>8. ASSUME NEW e \in S
      PROVE  \E i \in DOMAIN new : new[i] = polled_row(e) /\ new[i].verified
  <2>1. PICK i \in 1 .. n : q[i] = e
    BY <1>2
  <2>2. new[i] = polled_row(e)
    BY <1>3, <2>1
  <2> QED
    BY <1>4, <1>5, <2>2
<1> QED
  BY <1>7, <1>8

\* The contracts left after the first one.
LEMMA RestOfTodo ==
  ASSUME NEW S, NEW s \in Seq(S), s # << >>
  PROVE  /\ Tail(s) \in Seq(S)
         /\ Len(s) = 1 <=> Tail(s) = << >>
         /\ \A c \in Range(s) : c = Head(s) \/ c \in Range(Tail(s))
<1>1. Len(s) \in Nat /\ Len(s) # 0 /\ DOMAIN s = 1 .. Len(s)
  BY EmptySeq, LenProperties
<1>2. /\ Head(s) = s[1]
      /\ Tail(s) \in Seq(S) /\ Len(Tail(s)) = Len(s) - 1
      /\ \A i \in 1 .. Len(s) - 1 : Tail(s)[i] = s[i + 1]
  BY <1>1, HeadTailProperties
<1>3. DOMAIN Tail(s) = 1 .. Len(s) - 1
  BY <1>2, LenProperties
<1>4. Len(s) = 1 <=> Tail(s) = << >>
  <2>1. \A w \in Seq(S) : w = << >> <=> Len(w) = 0
    BY EmptySeq
  <2>2. Tail(s) = << >> <=> Len(s) - 1 = 0
    BY <1>2, <2>1
  <2> QED
    BY <1>1, <2>2
<1>5. ASSUME NEW i \in 1 .. Len(s) PROVE s[i] = Head(s) \/ \E j \in DOMAIN Tail(s) : Tail(s)[j] = s[i]
  <2>1. CASE i = 1
    BY <1>2, <2>1
  <2>2. CASE i # 1
    <3>1. i - 1 \in 1 .. Len(s) - 1 /\ (i - 1) + 1 = i
      BY <1>1, <2>2
    <3>2. Tail(s)[i - 1] = s[i]
      BY <1>2, <3>1
    <3> QED
      BY <1>3, <3>1, <3>2
  <2> QED
    BY <2>1, <2>2
<1>6. \A c \in Range(s) : c = Head(s) \/ c \in Range(Tail(s))
  BY <1>1, <1>5 DEF Range
<1> QED
  BY <1>2, <1>4, <1>6

\* What the contract that is asked emitted in the range is returned or missed; what it
\* emitted before is covered by the cursor.
LEMMA GetEventsStep ==
  ASSUME IndexerInv, getEvents
  PROVE  IndexerInv' /\ IndexStays
<1> DEFINE events == in_range(lastLedger + 1, currentLedger)
<1>1. PICK page \in pages(events) \cup {{}} : store_page(events, page)
  BY DEF getEvents
<1>2. /\ pc = "events" /\ todo' = Tail(todo)
      /\ pc' = IF Len(todo) = 1 THEN "store" ELSE "events"
      /\ UNCHANGED <<chain_vars, json, cursor, lastLedger, currentLedger, queue>>
  BY DEF getEvents, next_contract
<1>3. /\ ChainInv /\ TableInv(rows) /\ cursor \in 0 .. ledger /\ ledger \in Nat
      /\ lastLedger = cursor
      /\ currentLedger \in lastLedger .. ledger
      /\ todo \in Seq(Range(contracts)) /\ todo # << >> /\ queue \in Seq(Hash)
  BY <1>2 DEF IndexerInv, LocalInv, ChainInv
<1>4. page \subseteq events
  BY <1>1 DEF pages
<1>5. \A e \in events : e \in Event /\ succeeded(tx_of(e))
  BY DEF in_range
<1>6. rows' = add_events(rows, polled_rows(page)) /\ missed' = missed \cup (events \ page)
  BY <1>1 DEF store_page, polled_rows
<1> HIDE DEF events
<1>7. /\ TableInv(polled_rows(page))
      /\ \A e \in page : \E i \in DOMAIN polled_rows(page) :
           polled_rows(page)[i] = polled_row(e) /\ polled_rows(page)[i].verified
  BY <1>3, <1>4, <1>5, PolledRows
<1>8. /\ Kept(rows')
      /\ \A k \in DOMAIN polled_rows(page) : polled_rows(page)[k].verified =>
           \E i \in DOMAIN rows' : rows'[i] = polled_rows(page)[k]
  BY <1>3, <1>6, <1>7, AllAddedIsKept
<1>9. \A e \in page : \E i \in DOMAIN rows' : rows'[i] = polled_row(e)
  BY <1>7, <1>8
<1>10. ChainInv' /\ TableInv(rows)' /\ FileInv' /\ NothingLostByRestart' /\ IndexStays
  BY <1>2, <1>6, <1>8, CursorStep
<1>11. /\ Tail(todo) \in Seq(Range(contracts))
       /\ Len(todo) = 1 <=> Tail(todo) = << >>
       /\ \A c \in Range(todo) : c = Head(todo) \/ c \in Range(Tail(todo))
  BY <1>3, RestOfTodo
<1>12. LocalInv'
  BY <1>2, <1>3, <1>11 DEF LocalInv, chain_vars
<1>13. PolledInv'
  <2> SUFFICES ASSUME NEW e \in Event, succeeded(tx_of(e))', included'[tx_of(e)] <= currentLedger',
                      contract_of(e) \notin Range(todo')
               PROVE  covered(e)'
    BY DEF PolledInv
  <2>1. succeeded(tx_of(e)) /\ included[tx_of(e)] <= currentLedger
    BY <1>2 DEF succeeded, chain_vars
  <2>2. included[tx_of(e)] \in Nat
    BY <1>3, IndexerAssumption DEF ChainInv
  <2>3. CASE contract_of(e) \notin Range(todo)
    <3>1. covered(e)
      BY <1>2, <2>1, <2>3 DEF IndexerInv, PolledInv
    <3> QED
      BY <1>2, <1>3, <1>6, <1>8, <2>1, <3>1, CoveredStays
  <2>4. CASE included[tx_of(e)] <= lastLedger
    <3>1. covered(e)
      BY <1>3, <2>1, <2>4 DEF IndexerInv, NothingLostByRestart, covered
    <3> QED
      BY <1>2, <1>3, <1>6, <1>8, <2>1, <3>1, CoveredStays
  <2>5. CASE contract_of(e) \in Range(todo) /\ ~(included[tx_of(e)] <= lastLedger)
    <3>1. contract_of(e) = Head(todo)
      BY <1>2, <1>11, <2>5
    <3>2. included[tx_of(e)] \in lastLedger + 1 .. currentLedger
      BY <1>3, <2>1, <2>2, <2>5
    <3>3. e \in events
      BY <2>1, <3>1, <3>2 DEF events, in_range
    <3>4. CASE e \in page
      <4>1. polled_row(e)' = polled_row(e)
        BY <1>2 DEF polled_row, chain_vars
      <4> QED
        BY <1>9, <3>4, <4>1 DEF covered, is_indexed
    <3>5. CASE e \notin page
      BY <1>6, <3>3, <3>5 DEF covered
    <3> QED
      BY <3>4, <3>5
  <2> QED
    BY <2>3, <2>4, <2>5
<1> QED
  BY <1>10, <1>12, <1>13 DEF IndexerInv

\* The cursor moves once every contract is covered.
LEMMA SetMetadataStep ==
  ASSUME IndexerInv, setMetadata
  PROVE  IndexerInv' /\ IndexStays
<1> DEFINE waiting == IF initial THEN << >> ELSE getUnverifiedEvents(rows, VerifyLimit)
           moves == initial \/ currentLedger > lastLedger
<1>1. /\ pc = "store"
      /\ cursor' = IF moves THEN currentLedger ELSE cursor
      /\ lastLedger' = IF moves THEN currentLedger ELSE lastLedger
      /\ queue' = [i \in DOMAIN waiting |-> waiting[i].tx]
      /\ pc' = IF waiting = << >> THEN "sleep" ELSE "verify"
      /\ UNCHANGED <<chain_vars, json, rows, missed, todo>>
  BY DEF setMetadata, history_vars
<1>2. /\ cursor \in 0 .. ledger /\ ledger \in Nat /\ lastLedger = cursor
      /\ currentLedger \in lastLedger .. ledger
      /\ todo = << >>
  BY <1>1 DEF IndexerInv, LocalInv, ChainInv
<1>3. Kept(rows')
  BY <1>1, LongerIsKept DEF IndexerInv, Prefix
<1>4. ChainInv' /\ TableInv(rows)' /\ FileInv'
  BY <1>1, <1>3, TableStep
<1>5. waiting \in Table
  <2>1. rows \in Table /\ VerifyLimit \in Nat
    BY IndexerAssumption DEF IndexerInv, TableInv, SoundTable
  <2> QED
    BY <2>1, UnverifiedRows, EmptySeq DEF Table
<1> HIDE DEF waiting
<1>6. /\ queue' \in Seq(Hash)
      /\ waiting # << >> => queue' # << >>
  <2>1. Len(waiting) \in Nat /\ DOMAIN waiting = 1 .. Len(waiting) /\ \A i \in DOMAIN waiting : waiting[i] \in Row
    BY <1>5, LenProperties DEF Table
  <2>2. queue' \in [1 .. Len(waiting) -> Hash]
    BY <1>1, <2>1 DEF Row, Hash
  <2>3. queue' \in Seq(Hash)
    BY <2>1, <2>2, SeqDef
  <2>4. waiting # << >> => Len(waiting) # 0
    BY <1>5, EmptySeq DEF Table
  <2>5. DOMAIN queue' = 1 .. Len(waiting)
    BY <2>2
  <2>6. waiting # << >> => queue' # << >>
    BY <2>1, <2>4, <2>5, EmptySeq
  <2> QED
    BY <2>3, <2>6
<1>7. cursor' \in cursor .. ledger /\ lastLedger' = cursor' /\ cursor' <= currentLedger
  BY <1>1, <1>2
<1>8. LocalInv'
  BY <1>1, <1>2, <1>6, <1>7 DEF LocalInv, chain_vars
<1>9. NothingLostByRestart'
  <2> SUFFICES ASSUME NEW e \in Event, succeeded(tx_of(e))', included'[tx_of(e)] <= cursor'
               PROVE  covered(e)'
    BY DEF NothingLostByRestart, covered
  <2>1. succeeded(tx_of(e)) /\ included[tx_of(e)] <= cursor'
    BY <1>1 DEF succeeded, chain_vars
  <2>2. included[tx_of(e)] \in Nat
    BY IndexerAssumption DEF IndexerInv, ChainInv
  <2>3. included[tx_of(e)] <= currentLedger
    BY <1>2, <1>7, <2>1, <2>2
  <2>4. contract_of(e) \notin Range(todo)
    BY <1>2 DEF Range
  <2>5. covered(e)
    BY <1>1, <2>1, <2>3, <2>4 DEF IndexerInv, PolledInv
  <2> QED
    BY <1>1, <1>3, <2>1, <2>5, CoveredStays DEF IndexerInv
<1>10. PolledInv'
  BY <1>1 DEF PolledInv
<1>11. IndexStays
  BY <1>2, <1>3, <1>7 DEF IndexStays, Kept
<1> QED
  BY <1>4, <1>8, <1>9, <1>10, <1>11 DEF IndexerInv

\* A round of verification goes to its next transaction.
LEMMA NextPendingStep ==
  ASSUME IndexerInv, pc = "verify", next_pending, Kept(rows')
  PROVE  IndexerInv' /\ IndexStays
<1>1. /\ queue' = Tail(queue)
      /\ pc' = IF Len(queue) = 1 THEN "sleep" ELSE "verify"
      /\ UNCHANGED <<chain_vars, missed, json, cursor, lastLedger, currentLedger, todo>>
  BY DEF next_pending, history_vars
<1>2. ChainInv' /\ TableInv(rows)' /\ FileInv' /\ NothingLostByRestart' /\ IndexStays
  BY <1>1, CursorStep
<1>3. queue \in Seq(Hash) /\ queue # << >>
  BY DEF IndexerInv, LocalInv
<1>4. Tail(queue) \in Seq(Hash) /\ (Len(queue) = 1 <=> Tail(queue) = << >>)
  BY <1>3, RestOfTodo
<1>5. LocalInv'
  BY <1>1, <1>4 DEF IndexerInv, LocalInv, chain_vars
<1>6. PolledInv'
  BY <1>1 DEF PolledInv
<1> QED
  BY <1>2, <1>5, <1>6 DEF IndexerInv

\* The node's answer about a transaction, or none.
LEMMA VerificationStep ==
  ASSUME IndexerInv, (\E tx \in Tx : getTransaction(tx)) \/ getTransactionFails
  PROVE  IndexerInv' /\ IndexStays
<1>1. ChainInv /\ TableInv(rows)
  BY DEF IndexerInv
<1>2. ASSUME UNCHANGED rows PROVE Kept(rows')
  BY <1>1, <1>2, LongerIsKept DEF Prefix
<1>3. CASE getTransactionFails
  BY <1>2, <1>3, NextPendingStep DEF getTransactionFails
<1>4. CASE \E tx \in Tx : getTransaction(tx)
  <2>1. PICK tx \in Tx : getTransaction(tx)
    BY <1>4
  <2>2. pc = "verify" /\ next_pending
    BY <2>1 DEF getTransaction
  <2>3. CASE succeeded(tx) /\ verifyEvent(tx, included[tx])
    BY <1>1, <2>2, <2>3, VerifiedIsKept, NextPendingStep
  <2>4. CASE tx \in failed /\ deleteUnverifiedEvent(tx)
    BY <1>1, <2>2, <2>4, DeletedIsKept, NextPendingStep
  <2>5. CASE UNCHANGED rows
    BY <1>2, <2>2, <2>5, NextPendingStep
  <2> QED
    BY <2>1, <2>3, <2>4, <2>5 DEF getTransaction
<1> QED
  BY <1>3, <1>4

\* What clients, administrators and the DAO sync add.
LEMMA AnnouncementStep ==
  ASSUME IndexerInv,
         \/ \E kind \in Announced, tx \in Tx : notifyEvent(kind, tx)
         \/ \E kind \in Announced, hash \in Manual : addManualEvent(kind, hash)
         \/ \E kind \in Creation : ensureDaoCreateEvent(kind)
  PROVE  IndexerInv' /\ IndexStays
<1>1. PICK kind \in Announced \cup Creation, hash \in Hash, at \in {0, Null}, proved \in BOOLEAN :
        /\ proved <=> at # Null
        /\ proved => hash \notin Tx
        /\ rows' = add_event(rows, [kind |-> kind, ledger |-> at, tx |-> hash, verified |-> proved])
        /\ UNCHANGED <<chain_vars, json, cursor, local_vars, history_vars>>
  <2>1. ASSUME NEW kind \in Announced, NEW tx \in Tx, notifyEvent(kind, tx)
        PROVE  /\ rows' = add_event(rows, [kind |-> kind, ledger |-> Null, tx |-> tx, verified |-> FALSE])
               /\ UNCHANGED <<chain_vars, json, cursor, local_vars, history_vars>>
    BY <2>1 DEF notifyEvent
  <2>2. ASSUME NEW kind \in Announced, NEW hash \in Manual, addManualEvent(kind, hash)
        PROVE  /\ rows' = add_event(rows, [kind |-> kind, ledger |-> 0, tx |-> hash, verified |-> TRUE])
               /\ UNCHANGED <<chain_vars, json, cursor, local_vars, history_vars>>
    BY <2>2 DEF addManualEvent
  <2>3. ASSUME NEW kind \in Creation, ensureDaoCreateEvent(kind)
        PROVE  /\ rows' = add_event(rows, [kind |-> kind, ledger |-> 0, tx |-> Synthetic, verified |-> TRUE])
               /\ UNCHANGED <<chain_vars, json, cursor, local_vars, history_vars>>
    BY <2>3 DEF ensureDaoCreateEvent
  <2>4. 0 # Null /\ Synthetic \notin Tx /\ \A hash \in Manual : hash \notin Tx
    BY IndexerAssumption
  <2>5. CASE \E kind \in Announced, tx \in Tx : notifyEvent(kind, tx)
    BY <2>1, <2>5 DEF Hash
  <2>6. CASE \E kind \in Announced, hash \in Manual : addManualEvent(kind, hash)
    BY <2>2, <2>4, <2>6 DEF Hash
  <2>7. CASE \E kind \in Creation : ensureDaoCreateEvent(kind)
    BY <2>3, <2>4, <2>7 DEF Hash
  <2> QED
    BY <2>5, <2>6, <2>7
<1> DEFINE r == [kind |-> kind, ledger |-> at, tx |-> hash, verified |-> proved]
<1>2. r \in Row /\ Sound(r) /\ OnChain(r)
  <2>1. kind \in Kind /\ 0 \in 0 .. MaxLedger
    BY IndexerAssumption
  <2>2. at \in (0 .. MaxLedger) \cup {Null}
    BY <2>1
  <2> QED
    BY <1>1, <2>1, <2>2 DEF Row, Hash, Sound, OnChain
<1>3. rows' = add_event(rows, r)
  BY <1>1
<1> HIDE DEF r
<1>4. Kept(rows')
  BY <1>2, <1>3, AddedIsKept DEF IndexerInv
<1> QED
  BY <1>1, <1>4, RouteStep

\* The process dies: what the database holds was enough.
LEMMA CrashStep ==
  ASSUME IndexerInv, Crash
  PROVE  IndexerInv' /\ IndexStays
<1>1. /\ pc' = "down" /\ queue' = << >> /\ todo' = << >>
      /\ UNCHANGED <<chain_vars, json, rows, cursor, missed>>
  BY DEF Crash, db_vars
<1>2. Kept(rows')
  BY <1>1, LongerIsKept DEF IndexerInv, Prefix
<1>3. ChainInv' /\ TableInv(rows)' /\ FileInv' /\ NothingLostByRestart' /\ IndexStays
  BY <1>1, <1>2, CursorStep
<1>4. LocalInv'
  BY <1>1, EmptySeq DEF IndexerInv, LocalInv, chain_vars
<1>5. PolledInv'
  BY <1>1 DEF PolledInv
<1> QED
  BY <1>3, <1>4, <1>5 DEF IndexerInv

\* The next poll.
LEMMA PollStep ==
  ASSUME IndexerInv, poll
  PROVE  IndexerInv' /\ IndexStays
<1>1. /\ pc = "sleep" /\ pc' = "latest"
      /\ UNCHANGED <<chain_vars, json, rows, cursor, missed, lastLedger, currentLedger, todo, queue>>
  BY DEF poll, db_vars, history_vars
<1>2. Kept(rows')
  BY <1>1, LongerIsKept DEF IndexerInv, Prefix
<1>3. ChainInv' /\ TableInv(rows)' /\ FileInv' /\ NothingLostByRestart' /\ IndexStays
  BY <1>1, <1>2, CursorStep
<1>4. LocalInv'
  BY <1>1 DEF IndexerInv, LocalInv, chain_vars
<1>5. PolledInv'
  BY <1>1 DEF PolledInv
<1> QED
  BY <1>3, <1>4, <1>5 DEF IndexerInv

(***************************************************************************)
(* The theorems.                                                           *)
(***************************************************************************)
LEMMA IndexerInit ==
  ASSUME Init
  PROVE  IndexerInv
<1>1. /\ ledger \in 0 .. MaxLedger /\ MaxLedger \in Nat /\ 0 # Null
      /\ \A e \in Event : tx_of(e) \in Tx
  BY IndexerAssumption DEF Init
<1>2. ChainInv
  BY <1>1 DEF Init, ChainInv
<1>3. TableInv(rows)
  BY EmptySeq DEF Init, TableInv, SoundTable, Table
<1>4. FileInv
  <2> DEFINE old == {e \in Event : succeeded(tx_of(e))}
  <2> SUFFICES ASSUME json # Null
               PROVE  /\ TableInv(json.events)
                      /\ json.lastLedger \in 0 .. ledger
                      /\ \A e \in old : \E i \in DOMAIN json.events : json.events[i] = polled_row(e)
    BY DEF FileInv
  <2>1. json.events = polled_rows(old) /\ json.lastLedger = ledger
    BY DEF Init, old_rows, polled_rows
  <2>2. old \in SUBSET Event /\ \A e \in old : succeeded(tx_of(e))
    OBVIOUS
  <2> HIDE DEF old
  <2>3. /\ TableInv(json.events)
        /\ \A e \in old : \E i \in DOMAIN json.events : json.events[i] = polled_row(e)
    BY <1>2, <2>1, <2>2, PolledRows
  <2> QED
    BY <1>1, <2>1, <2>3
<1>5. LocalInv
  BY <1>1, EmptySeq DEF Init, LocalInv
<1>6. NothingLostByRestart
  <2>1. cursor = 0 /\ \A e \in Event : included[tx_of(e)] \in Nat
    BY <1>1, <1>2 DEF Init, ChainInv
  <2> QED
    BY <2>1 DEF NothingLostByRestart, succeeded
<1>7. PolledInv
  BY DEF Init, PolledInv
<1> QED
  BY <1>2, <1>3, <1>4, <1>5, <1>6, <1>7 DEF IndexerInv

LEMMA IndexerNext ==
  ASSUME IndexerInv, [Next]_vars
  PROVE  IndexerInv' /\ (IndexStays \/ UNCHANGED vars)
<1>1. CASE UNCHANGED vars
  <2>1. UNCHANGED <<chain_vars, json, rows, cursor, local_vars, history_vars>>
    BY <1>1 DEF vars, db_vars
  <2>2. Kept(rows')
    BY <2>1, LongerIsKept DEF IndexerInv, Prefix
  <2> QED
    BY <2>1, <2>2, RouteStep
<1>2. CASE LedgerClose
  BY <1>2, LedgerCloseStep
<1>3. CASE Indexer
  BY <1>3, StartIndexerStep, GetLatestLedgerStep, GetEventsStep, SetMetadataStep, PollStep
     DEF Indexer
<1>4. CASE (\E tx \in Tx : getTransaction(tx)) \/ getTransactionFails
  BY <1>4, VerificationStep
<1>5. CASE \/ \E kind \in Announced, tx \in Tx : notifyEvent(kind, tx)
           \/ \E kind \in Announced, hash \in Manual : addManualEvent(kind, hash)
           \/ \E kind \in Creation : ensureDaoCreateEvent(kind)
  BY <1>5, AnnouncementStep
<1>6. CASE Crash
  BY <1>6, CrashStep
<1> QED
  BY <1>1, <1>2, <1>3, <1>4, <1>5, <1>6 DEF Next

\* The inductive invariant: the table and the file hold what the chain confirmed, and the
\* cursor, with the locals of the poll under way, stands for what was stored.
THEOREM IndexerInvariant == Spec => []IndexerInv
<1>1. Init => IndexerInv
  BY IndexerInit
<1>2. IndexerInv /\ [Next]_vars => IndexerInv'
  BY IndexerNext
<1> QED
  BY <1>1, <1>2, PTL DEF Spec

\* Rows, cursor and the poller's locals have their types, wherever the process dies.
THEOREM IndexerTypeCorrect == Spec => []IndexerTypeOK
<1>1. IndexerInv => IndexerTypeOK
  <2> SUFFICES ASSUME IndexerInv PROVE IndexerTypeOK
    OBVIOUS
  <2>1. rows \in Seq(Row) /\ \A i \in DOMAIN rows : rows[i].verified <=> rows[i].ledger # Null
    BY DEF IndexerInv, TableInv, SoundTable, Table, Sound
  <2>2. ledger \in Nat
    BY IndexerAssumption DEF IndexerInv, ChainInv
  <2> QED
    BY <2>1, <2>2 DEF IndexerInv, LocalInv, IndexerTypeOK
<1> QED
  BY <1>1, IndexerInvariant, PTL

\* Whatever clients announce and whatever the node answers, a verified row that bears the
\* hash of a transaction bears one that succeeded, in that ledger.
THEOREM VerifiedTransactionsSucceededAlways == Spec => []VerifiedTransactionsSucceeded
<1>1. IndexerInv => VerifiedTransactionsSucceeded
  BY DEF IndexerInv, TableInv, OnChain, VerifiedTransactionsSucceeded
<1> QED
  BY <1>1, IndexerInvariant, PTL

\* A death of the process between any two awaits loses no event: those up to the cursor are
\* in the table, but for what a failing call or a full page left out.
THEOREM NothingLostByRestartAlways == Spec => []NothingLostByRestart
<1>1. IndexerInv => NothingLostByRestart
  BY DEF IndexerInv
<1> QED
  BY <1>1, IndexerInvariant, PTL

\* The cursor never goes back while the indexer runs, no row goes unless its transaction
\* failed, and no verified row changes.
THEOREM IndexOnlyGrowsAlways == Spec => IndexOnlyGrows
<1>1. IndexerInv /\ [Next]_vars => [IndexStays]_vars
  BY IndexerNext
<1> QED
  BY <1>1, IndexerInvariant, PTL DEF Spec, IndexOnlyGrows
=============================================================================
