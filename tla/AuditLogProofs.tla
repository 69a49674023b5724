---------------------------- MODULE AuditLogProofs ----------------------------
(***************************************************************************)
(* Proofs about AuditLog: for every number of callers, every page size,    *)
(* every log to begin with and every behaviour of the clock.               *)
(***************************************************************************)
EXTENDS AuditLog, FiniteSetTheorems, TLAPS

AllKeys == Keys \cup {EarlierKey(n) : n \in 1..Earlier}
                \cup {QueryKey(c, t) : c \in Callers, t \in 0..MaxClock}
EntityTypes == {EntityOf[k] : k \in Keys} \cup {"other", "audit_log"}
Entries == [key : AllKeys, entityType : EntityTypes, at : 0..MaxClock]
Inputs == Keys \cup {Malformed}

\* What each place in a caller's code says of its local state.
Place(c) ==
  /\ pc[c] = "idle" => ctx[c] = Nil /\ offset[c] = 0
  /\ pc[c] = "batch" => ctx[c] = Nil /\ WellFormed(batch[c])
  /\ pc[c] \in {"idle", "refused", "read", "paging", "denied"} => reply[c] = << >>
  /\ pc[c] \in {"idle", "read", "paging", "denied"} => batch[c] = << >>

\* The types TypeOK leaves out.
Shapes ==
  /\ rows \in Seq(Entries)
  /\ batch \in [Callers -> Seq(Inputs)]
  /\ reply \in [Callers -> Seq(Nat)]
  /\ filter \in [Callers -> Filters \cup {"any"}]
  /\ seen \in [Callers -> SUBSET Nat]
  /\ \A c \in Callers : Place(c)

\* One entry per key; a reply names entries of its batch's keys, in order; a
\* component's entry has been answered to somebody.
KeysAreUnique == \A m, n \in DOMAIN rows : rows[m].key = rows[n].key => m = n
SafeReply(c) ==
  pc[c] # "refused" =>
    /\ \A i \in DOMAIN reply[c] :
         /\ reply[c][i] \in DOMAIN rows /\ i \in DOMAIN batch[c]
         /\ rows[reply[c][i]].key = batch[c][i]
    /\ pc[c] = "done" => Len(reply[c]) = Len(batch[c])
AnsweredFor(n) ==
  \E c \in Callers : /\ pc[c] # "refused"
                     /\ \E i \in DOMAIN reply[c] : reply[c][i] = n
RepliesAreWhole ==
  /\ KeysAreUnique
  /\ \A c \in Callers : SafeReply(c)
  /\ \A n \in DOMAIN rows : rows[n].key \in Keys => AnsweredFor(n)

\* How many matching entries are ordered before n.
Matching(f) == {m \in DOMAIN rows : Matches(f, m)}
Rank(f, n) == Cardinality({m \in Matching(f) : Before(m, n)})

\* Whatever matched when a reader began is on a page it was given, or is not
\* ordered before the page it asks for next.
Missed(c) == {n \in 1..began[c] : Matches(filter[c], n)} \ seen[c]
SafePages(c) ==
  /\ pc[c] = "read" => \A n \in Missed(c) : offset[c] <= Rank(filter[c], n)
  /\ pc[c] = "paging" => \A n \in Missed(c) : offset[c] + Limit <= Rank(filter[c], n)
  /\ pc[c] = "done" /\ ctx[c] # Nil => Missed(c) = {}
PagesAreSafe == \A c \in Callers : SafePages(c)

Safe == TypeOK /\ Shapes /\ RepliesAreWhole /\ PagesAreSafe

------------------------------------------------------------------------------
\* Ids as text are strictly and totally ordered, whatever positive scale their
\* digits are compared at.
LEMMA TextOrder ==
  ASSUME NEW l \in Nat, NEW m \in Nat, NEW n \in Nat
  PROVE  /\ ~TextBefore(m, m)
         /\ m # n => TextBefore(m, n) \/ TextBefore(n, m)
         /\ TextBefore(l, m) /\ TextBefore(m, n) => TextBefore(l, n)
<1>1. Scale(l) \in {10, 100, 1000, 10000}
  BY DEF Scale
<1>2. Scale(m) \in {10, 100, 1000, 10000}
  BY DEF Scale
<1>3. Scale(n) \in {10, 100, 1000, 10000}
  BY DEF Scale
<1>4. ~TextBefore(m, m)
  BY <1>2 DEF TextBefore
<1>5. m # n => TextBefore(m, n) \/ TextBefore(n, m)
  BY <1>2, <1>3 DEF TextBefore
<1>6. TextBefore(l, m) /\ TextBefore(m, n) => TextBefore(l, n)
  BY <1>1, <1>2, <1>3 DEF TextBefore
<1>7. QED
  BY <1>4, <1>5, <1>6

StrictTotalOrder(M, R) ==
  /\ \A a \in M : <<a, a>> \notin R
  /\ \A a, b \in M : a # b => <<a, b>> \in R \/ <<b, a>> \in R
  /\ \A a, b, c \in M : <<a, b>> \in R /\ <<b, c>> \in R => <<a, c>> \in R
Ranking(M, R) == [n \in M |-> Cardinality({m \in M : <<m, n>> \in R})]
Page(M, R, from, limit) ==
  {n \in M : from <= Ranking(M, R)[n] /\ Ranking(M, R)[n] < from + limit}

\* A finite set that a strict total order ranks has no gap in its ranks: a
\* page after which something is left is full.
LEMMA PageIsFull ==
  ASSUME NEW M, IsFiniteSet(M), NEW R, StrictTotalOrder(M, R),
         NEW from \in Nat, NEW limit \in Nat,
         NEW x \in M, from + limit <= Ranking(M, R)[x]
  PROVE  Cardinality(Page(M, R, from, limit)) = limit
<1> USE DEF StrictTotalOrder
<1>a. PICK rank : rank = Ranking(M, R)
  OBVIOUS
<1> rank = [n \in M |-> Cardinality({m \in M : <<m, n>> \in R})]
    /\ from + limit <= rank[x]
  BY <1>a DEF Ranking
<1> DEFINE P(n) == {m \in M : <<m, n>> \in R}
           N == Cardinality(M)
           page == {n \in M : from <= rank[n] /\ rank[n] < from + limit}
           span == from .. (from + limit - 1)
<1>1. N \in Nat
  BY FS_CardinalityType
<1>2. ASSUME NEW n \in M
      PROVE  /\ IsFiniteSet(P(n))
             /\ Cardinality(P(n)) \in Nat /\ Cardinality(P(n)) \in 0..(N - 1)
  <2>1. P(n) \in SUBSET M /\ P(n) # M
    OBVIOUS
  <2>2. IsFiniteSet(P(n)) /\ Cardinality(P(n)) <= N /\ (Cardinality(P(n)) = N => P(n) = M)
    BY ONLY <2>1, IsFiniteSet(M), FS_Subset
  <2>3. Cardinality(P(n)) \in Nat
    BY <2>2, FS_CardinalityType
  <2>4. QED
    BY <1>1, <2>1, <2>2, <2>3
<1>3. ASSUME NEW a \in M, NEW b \in M, <<a, b>> \in R
      PROVE  rank[a] < rank[b]
  <2>1. P(a) \in SUBSET P(b) /\ P(a) # P(b)
    <3>1. a \in P(b) /\ a \notin P(a)
      BY <1>3
    <3>2. P(a) \subseteq P(b)
      BY <1>3
    <3>3. QED
      BY <3>1, <3>2
  <2>2. IsFiniteSet(P(b))
    BY <1>2
  <2>3. Cardinality(P(a)) <= Cardinality(P(b))
        /\ (Cardinality(P(a)) = Cardinality(P(b)) => P(a) = P(b))
    BY ONLY <2>1, <2>2, FS_Subset
  <2>4. Cardinality(P(a)) \in Nat /\ Cardinality(P(b)) \in Nat
    BY ONLY <1>2, a \in M, b \in M
  <2>5. Cardinality(P(a)) < Cardinality(P(b))
    BY ONLY <2>1, <2>3, <2>4
  <2>6. QED
    BY <2>5
<1>4. rank \in [M -> 0..(N - 1)]
  BY <1>2
<1>5. ASSUME NEW a \in M, NEW b \in M, rank[a] = rank[b] PROVE a = b
  <2>1. rank[a] \in Int /\ rank[b] \in Int
    BY ONLY <1>1, <1>4, a \in M, b \in M
  <2>2. ~(rank[a] < rank[b]) /\ ~(rank[b] < rank[a])
    BY ONLY rank[a] = rank[b], <2>1
  <2>3. <<a, b>> \in R => rank[a] < rank[b]
    BY <1>3
  <2>4. <<b, a>> \in R => rank[b] < rank[a]
    BY <1>3
  <2>5. QED
    BY <2>2, <2>3, <2>4
<1>6. rank \in Surjection(M, 0..(N - 1))
  <2>1. rank \in Injection(M, 0..(N - 1))
    BY <1>4, <1>5 DEF Injection, IsInjective
  <2>2. IsFiniteSet(0..(N - 1)) /\ Cardinality(0..(N - 1)) = N
    <3>1. 0 \in Int /\ N - 1 \in Int
      BY <1>1
    <3>2. /\ IsFiniteSet(0..(N - 1))
          /\ Cardinality(0..(N - 1)) = IF 0 > N - 1 THEN 0 ELSE N - 1 - 0 + 1
      BY ONLY <3>1, FS_Interval
    <3>3. N = IF 0 > N - 1 THEN 0 ELSE N - 1 - 0 + 1
      BY <1>1
    <3>4. QED
      BY ONLY <3>2, <3>3
  <2>3. QED
    BY ONLY <2>1, <2>2, FS_Injection
<1>7. \A i \in 0..(N - 1) : \E n \in M : rank[n] = i
  BY <1>6 DEF Surjection
<1>8. [n \in page |-> rank[n]] \in Bijection(page, span)
  <2> DEFINE g == [n \in page |-> rank[n]]
  <2>1. g \in [page -> span]
    BY <1>1, <1>4
  <2>2. \A a, b \in page : g[a] = g[b] => a = b
    BY <1>5
  <2>3. ASSUME NEW i \in span PROVE \E n \in page : g[n] = i
    <3>1. i \in 0..(N - 1)
      BY <1>1, <1>4
    <3>2. PICK n \in M : rank[n] = i
      BY <1>7, <3>1
    <3>3. n \in page
      BY <3>2
    <3>4. QED
      BY <3>2, <3>3
  <2>4. QED
    BY <2>1, <2>2, <2>3 DEF Bijection, Injection, IsInjective, Surjection
<1>9. IsFiniteSet(page) /\ page \in SUBSET M
  BY FS_Subset
<1>10. Cardinality(span) = Cardinality(page)
  BY <1>8, <1>9, FS_Bijection DEF ExistsBijection
<1>11. Cardinality(page) = limit
  BY <1>10, FS_Interval
<1>12. QED
  BY <1>a, <1>11 DEF Page

------------------------------------------------------------------------------
\* What a step may do to the log: nothing, or add at the end.
Grows == /\ rows \in Seq(Entries) /\ rows' \in Seq(Entries)
         /\ Len(rows) <= Len(rows')
         /\ \A n \in DOMAIN rows : n \in DOMAIN rows' /\ rows'[n] = rows[n]

\* The order of the entries there are is strict and total.
LEMMA EntryOrder ==
  ASSUME rows \in Seq(Entries)
  PROVE  \A l, m, n \in DOMAIN rows :
           /\ ~Before(m, m)
           /\ m # n => Before(m, n) \/ Before(n, m)
           /\ Before(l, m) /\ Before(m, n) => Before(l, n)
<1> SUFFICES ASSUME NEW l \in DOMAIN rows, NEW m \in DOMAIN rows, NEW n \in DOMAIN rows
             PROVE  /\ ~Before(m, m)
                    /\ m # n => Before(m, n) \/ Before(n, m)
                    /\ Before(l, m) /\ Before(m, n) => Before(l, n)
  OBVIOUS
<1>1. l \in Nat /\ m \in Nat /\ n \in Nat
  OBVIOUS
<1>2. rows[l].at \in Int /\ rows[m].at \in Int /\ rows[n].at \in Int
  <2>1. rows[l] \in Entries /\ rows[m] \in Entries /\ rows[n] \in Entries
    OBVIOUS
  <2>2. MaxClock \in Nat
    BY LogAssumption
  <2>3. QED
    BY ONLY <2>1, <2>2 DEF Entries
<1>3. /\ ~TextBefore(m, m)
      /\ m # n => TextBefore(m, n) \/ TextBefore(n, m)
      /\ TextBefore(l, m) /\ TextBefore(m, n) => TextBefore(l, n)
  BY <1>1, TextOrder
<1>4. QED
  BY <1>2, <1>3 DEF Before

\* The entries of a log are finitely many.
LEMMA LogIsFinite ==
  ASSUME rows \in Seq(Entries)
  PROVE  /\ IsFiniteSet(DOMAIN rows)
         /\ \A f : IsFiniteSet(Matching(f))
         /\ \A f, n : IsFiniteSet({m \in Matching(f) : Before(m, n)})
         /\ \A f, n : Rank(f, n) \in Nat
<1>1. DOMAIN rows = 1..Len(rows) /\ Len(rows) \in Int
  OBVIOUS
<1>2. IsFiniteSet(DOMAIN rows)
  BY <1>1, FS_Interval
<1>3. \A T \in SUBSET DOMAIN rows : IsFiniteSet(T) /\ Cardinality(T) \in Nat
  BY ONLY <1>2, FS_Subset, FS_CardinalityType
<1>4. \A f : Matching(f) \in SUBSET DOMAIN rows
  BY DEF Matching
<1>5. \A f, n : {m \in Matching(f) : Before(m, n)} \in SUBSET DOMAIN rows
  BY <1>4
<1>6. QED
  BY <1>2, <1>3, <1>4, <1>5 DEF Rank

\* What is added may come before an entry and push it back; nothing moves it
\* forward.
LEMMA RanksGrow ==
  ASSUME Grows, NEW f, NEW n \in DOMAIN rows
  PROVE  Rank(f, n) <= Rank(f, n)' /\ Rank(f, n) \in Nat /\ Rank(f, n)' \in Nat
<1> DEFINE old == {m \in Matching(f) : Before(m, n)}
           new == {m \in Matching(f)' : Before(m, n)'}
<1>1. old \in SUBSET new
  BY DEF Grows, Matching, Matches, Before
<1>2. IsFiniteSet(new)
  <2>1. DOMAIN rows' = 1..Len(rows') /\ Len(rows') \in Int
    BY DEF Grows
  <2>2. IsFiniteSet(DOMAIN rows')
    BY <2>1, FS_Interval
  <2>3. new \in SUBSET DOMAIN rows'
    BY DEF Matching
  <2>4. QED
    BY ONLY <2>2, <2>3, FS_Subset
<1>3. Cardinality(old) <= Cardinality(new)
  BY ONLY <1>1, <1>2, FS_Subset
<1>4. Rank(f, n) \in Nat /\ Rank(f, n)' \in Nat
  <2>1. rows \in Seq(Entries)
    BY DEF Grows
  <2>2. Cardinality(new) \in Nat
    BY ONLY <1>2, FS_CardinalityType
  <2>3. QED
    BY <2>1, <2>2, LogIsFinite DEF Rank
<1>5. QED
  BY <1>3, <1>4 DEF Rank

\* A page is full, if a matching entry is left beyond it.
LEMMA FullPage ==
  ASSUME rows \in Seq(Entries), NEW f, NEW from \in Nat, NEW limit \in Nat,
         NEW n \in Matching(f), from + limit <= Rank(f, n)
  PROVE  Cardinality(query(f, from, limit)) = limit
<1> DEFINE M == Matching(f)
           R == {x \in M \X M : Before(x[1], x[2])}
           rank == Ranking(M, R)
<1>1. \A a, b \in M : <<a, b>> \in R <=> Before(a, b)
  OBVIOUS
<1>2. \A k \in M : {m \in M : <<m, k>> \in R} = {m \in M : Before(m, k)}
  BY <1>1
<1>3. \A k \in M : rank[k] = Rank(f, k)
  BY <1>2 DEF Rank, Ranking
<1>4. query(f, from, limit) = Page(M, R, from, limit)
  BY <1>3 DEF query, Rank, Matching, Page
<1>5. IsFiniteSet(M)
  BY LogIsFinite
<1>6. M \subseteq DOMAIN rows
  BY DEF Matching
<1>7. StrictTotalOrder(M, R)
  BY <1>1, <1>6, EntryOrder DEF StrictTotalOrder
<1>8. from + limit <= rank[n]
  BY <1>3
<1>9. n \in M
  OBVIOUS
<1> HIDE DEF M, R
<1>10. Cardinality(Page(M, R, from, limit)) = limit
  BY ONLY <1>5, <1>7, <1>8, <1>9, from \in Nat, limit \in Nat, PageIsFull
<1>11. QED
  BY <1>4, <1>10

------------------------------------------------------------------------------
\* Bounds, of the numbers the module is given.
LEMMA Numbers == Earlier \in Nat /\ Limit \in Nat /\ Limit # 0 /\ MaxClock \in Nat
BY LogAssumption

\* Existing finds the entry a key has.
LEMMA ExistingIsTheEntry ==
  ASSUME rows \in Seq(Entries), NEW key
  PROVE  /\ Existing(key) # 0 <=> \E n \in DOMAIN rows : rows[n].key = key
         /\ Existing(key) # 0 => /\ Existing(key) \in DOMAIN rows
                                 /\ rows[Existing(key)].key = key
<1>1. DOMAIN rows = 1..Len(rows) /\ Len(rows) \in Nat
  OBVIOUS
<1>2. CASE \E n \in DOMAIN rows : rows[n].key = key
  <2>1. Existing(key) = CHOOSE n \in DOMAIN rows : rows[n].key = key
    BY <1>2 DEF Existing
  <2>2. Existing(key) \in DOMAIN rows /\ rows[Existing(key)].key = key
    BY <1>2, <2>1
  <2>3. QED
    BY <1>1, <1>2, <2>2
<1>3. CASE ~\E n \in DOMAIN rows : rows[n].key = key
  BY <1>3 DEF Existing
<1>4. QED
  BY <1>2, <1>3

\* insert leaves every entry where it is, gives the key exactly one, and is
\* answered with that one.
LEMMA InsertEffect ==
  ASSUME rows \in Seq(Entries), clock \in 0..MaxClock, KeysAreUnique,
         NEW key \in AllKeys, NEW entityType \in EntityTypes, insert(key, entityType)
  PROVE  /\ Grows /\ KeysAreUnique'
         /\ InsertedAs(key) \in Nat /\ InsertedAs(key) \in DOMAIN rows'
         /\ rows'[InsertedAs(key)].key = key
         /\ \A n \in DOMAIN rows' : n \in DOMAIN rows \/ n = InsertedAs(key)
         /\ \A n \in DOMAIN rows : rows'[n] = rows[n]
<1>1. DOMAIN rows = 1..Len(rows) /\ Len(rows) \in Nat
  OBVIOUS
<1>2. CASE Existing(key) # 0
  <2>1. rows' = rows /\ InsertedAs(key) = Existing(key)
    BY <1>2 DEF insert, InsertedAs
  <2>2. Existing(key) \in DOMAIN rows /\ rows[Existing(key)].key = key
    BY <1>2, ExistingIsTheEntry
  <2>3. QED
    BY <1>1, <2>1, <2>2 DEF Grows, KeysAreUnique
<1>3. CASE Existing(key) = 0
  <2> DEFINE entry == [key |-> key, entityType |-> entityType, at |-> clock]
  <2>1. rows' = Append(rows, entry) /\ InsertedAs(key) = Len(rows) + 1
    BY <1>3 DEF insert, InsertedAs
  <2>2. entry \in Entries
    BY DEF Entries
  <2>3. \A n \in DOMAIN rows : rows[n].key # key
    BY <1>3, ExistingIsTheEntry
  <2>4. rows' \in Seq(Entries) /\ Len(rows') = Len(rows) + 1
    BY <2>1, <2>2
  <2>5. \A n \in DOMAIN rows : n \in DOMAIN rows' /\ rows'[n] = rows[n]
    BY <1>1, <2>1
  <2>6. rows'[Len(rows) + 1] = entry /\ DOMAIN rows' = 1..(Len(rows) + 1)
    BY <1>1, <2>1, <2>4
  <2>7. \A n \in DOMAIN rows' : n \in DOMAIN rows \/ n = Len(rows) + 1
    BY <1>1, <2>6
  <2>8. KeysAreUnique'
    <3> SUFFICES ASSUME NEW m \in DOMAIN rows', NEW n \in DOMAIN rows',
                        rows'[m].key = rows'[n].key
                 PROVE  m = n
      BY DEF KeysAreUnique
    <3>1. entry.key = key
      OBVIOUS
    <3>2. QED
      BY <2>3, <2>5, <2>6, <2>7, <3>1 DEF KeysAreUnique
  <2>9. Grows
    BY <1>1, <2>4, <2>5 DEF Grows
  <2>10. QED
    BY <1>1, <2>1, <2>5, <2>6, <2>7, <2>8, <2>9
<1>4. QED
  BY <1>2, <1>3

\* What storing input i of batch b does, when ids answer those before it.
Stored(c, b, i, ids) ==
  /\ Grows /\ KeysAreUnique'
  /\ reply' \in [Callers -> Seq(Nat)]
  /\ pc' = [pc EXCEPT ![c] = IF i = Len(b) THEN "done" ELSE "batch"]
  /\ \A o \in Callers \ {c} : reply'[o] = reply[o]
  /\ \E id \in DOMAIN rows' :
       /\ reply'[c] = Append(ids, id)
       /\ rows'[id].key = b[i]
       /\ \A n \in DOMAIN rows' : n \in DOMAIN rows \/ n = id

\* Storing input i of a batch of known keys.
LEMMA InsertOfEffect ==
  ASSUME TypeOK, Shapes, KeysAreUnique, NEW c \in Callers,
         NEW b \in Seq(Inputs), NEW i \in 1..Len(b), b[i] # Malformed,
         NEW ids \in Seq(Nat), InsertOf(c, b, i, ids)
  PROVE  Stored(c, b, i, ids)
<1>1. b[i] \in Keys
  BY DEF Inputs
<1>2. b[i] \in AllKeys /\ EntityOf[b[i]] \in EntityTypes
  BY <1>1 DEF AllKeys, EntityTypes
<1>3. rows \in Seq(Entries) /\ clock \in 0..MaxClock
  BY DEF TypeOK, Shapes
<1>4. insert(b[i], EntityOf[b[i]])
      /\ reply' = [reply EXCEPT ![c] = Append(ids, InsertedAs(b[i]))]
  BY DEF InsertOf
<1>5. /\ Grows /\ KeysAreUnique'
      /\ InsertedAs(b[i]) \in Nat /\ InsertedAs(b[i]) \in DOMAIN rows'
      /\ rows'[InsertedAs(b[i])].key = b[i]
      /\ \A n \in DOMAIN rows' : n \in DOMAIN rows \/ n = InsertedAs(b[i])
  BY ONLY <1>2, <1>3, <1>4, KeysAreUnique, InsertEffect
<1>6. reply \in [Callers -> Seq(Nat)]
  BY DEF Shapes
<1>7. Append(ids, InsertedAs(b[i])) \in Seq(Nat)
  BY <1>5
<1>8. /\ reply' \in [Callers -> Seq(Nat)]
      /\ \A o \in Callers \ {c} : reply'[o] = reply[o]
      /\ reply'[c] = Append(ids, InsertedAs(b[i]))
  BY <1>4, <1>6, <1>7
<1>9. QED
  BY <1>5, <1>8 DEF InsertOf, Stored

------------------------------------------------------------------------------
Write(c) == record(c) \/ recordBatch(c) \/ InsertNext(c)

\* A write is refused before anything is stored, or stores the next input of a
\* batch none of whose inputs is malformed.
LEMMA WriteEffect ==
  ASSUME Safe, NEW c \in Callers, Write(c)
  PROVE  /\ UNCHANGED <<gate, clock, reading>>
         /\ pc[c] \in {"idle", "batch"}
         /\ \E b \in Seq(Inputs) :
              /\ batch' = [batch EXCEPT ![c] = b]
              /\ \/ pc[c] = "idle" /\ Refuse(c)
                 \/ /\ WellFormed(b)
                    /\ pc[c] = "batch" => b = batch[c]
                    /\ Len(reply[c]) + 1 \in 1..Len(b)
                    /\ InsertOf(c, b, Len(reply[c]) + 1, reply[c])
<1>0. /\ batch \in [Callers -> Seq(Inputs)] /\ reply[c] \in Seq(Nat)
      /\ pc[c] = "idle" => reply[c] = << >>
      /\ pc[c] = "batch" => /\ WellFormed(batch[c])
                            /\ Len(reply[c]) \in 1..(Len(batch[c]) - 1)
  BY DEF Safe, TypeOK, Shapes, Place
<1>1. CASE record(c)
  <2>1. PICK i \in Inputs :
          /\ batch' = [batch EXCEPT ![c] = <<i>>]
          /\ IF i = Malformed THEN Refuse(c) ELSE InsertOf(c, <<i>>, 1, << >>)
    BY <1>1 DEF record, Inputs
  <2>2. /\ <<i>> \in Seq(Inputs) /\ Len(<<i>>) = 1
        /\ i # Malformed => WellFormed(<<i>>)
    BY DEF WellFormed
  <2>3. pc[c] = "idle" /\ UNCHANGED <<gate, clock, reading>>
    BY <1>1 DEF record
  <2>4. Len(reply[c]) + 1 = 1 /\ reply[c] = << >>
    BY <1>0, <2>3
  <2>5. i # Malformed => InsertOf(c, <<i>>, Len(reply[c]) + 1, reply[c])
    BY <2>1, <2>4 DEF InsertOf
  <2>6. Len(reply[c]) + 1 \in 1..Len(<<i>>) /\ pc[c] # "batch"
    BY <2>2, <2>3, <2>4
  <2>7. \/ pc[c] = "idle" /\ Refuse(c)
        \/ WellFormed(<<i>>) /\ InsertOf(c, <<i>>, Len(reply[c]) + 1, reply[c])
    BY <2>1, <2>2, <2>3, <2>5
  <2>8. QED
    BY <2>1, <2>2, <2>3, <2>6, <2>7
<1>2. CASE recordBatch(c)
  <2>1. PICK b \in Batches :
          /\ batch' = [batch EXCEPT ![c] = b]
          /\ IF WellFormed(b) THEN InsertOf(c, b, 1, << >>) ELSE Refuse(c)
    BY <1>2 DEF recordBatch
  <2>2. b \in Seq(Inputs) /\ Len(b) \in Nat /\ Len(b) # 0
    BY LogAssumption DEF Inputs
  <2>3. pc[c] = "idle" /\ UNCHANGED <<gate, clock, reading>>
    BY <1>2 DEF recordBatch
  <2>4. Len(reply[c]) + 1 = 1 /\ reply[c] = << >>
    BY <1>0, <2>3
  <2>5. WellFormed(b) => InsertOf(c, b, Len(reply[c]) + 1, reply[c])
    BY <2>1, <2>4 DEF InsertOf
  <2>6. Len(reply[c]) + 1 \in 1..Len(b) /\ pc[c] # "batch"
    BY <2>2, <2>3, <2>4
  <2>7. \/ pc[c] = "idle" /\ Refuse(c)
        \/ WellFormed(b) /\ InsertOf(c, b, Len(reply[c]) + 1, reply[c])
    BY <2>1, <2>3, <2>5
  <2>8. QED
    BY <2>1, <2>2, <2>3, <2>6, <2>7
<1>3. CASE InsertNext(c)
  <2>1. /\ pc[c] = "batch" /\ UNCHANGED <<gate, clock, batch, reading>>
        /\ batch' = [batch EXCEPT ![c] = batch[c]]
    BY <1>0, <1>3 DEF InsertNext
  <2>2. Len(reply[c]) + 1 \in 1..Len(batch[c]) /\ batch[c] \in Seq(Inputs)
    BY <1>0, <2>1
  <2>3. batch[c][Len(reply[c]) + 1] # Malformed
    BY <1>0, <2>1, <2>2 DEF WellFormed
  <2>4. InsertOf(c, batch[c], Len(reply[c]) + 1, reply[c])
    BY <1>3, <2>3 DEF InsertNext
  <2>5. QED
    BY <1>0, <2>1, <2>2, <2>4
<1>4. QED
  BY <1>1, <1>2, <1>3 DEF Write

\* That is: it is refused, or its next input gets its entry.
LEMMA WriteStores ==
  ASSUME Safe, NEW c \in Callers, Write(c)
  PROVE  \E b \in Seq(Inputs) :
           /\ batch' = [batch EXCEPT ![c] = b]
           /\ \/ pc[c] = "idle" /\ Refuse(c)
              \/ /\ WellFormed(b)
                 /\ pc[c] = "batch" => b = batch[c]
                 /\ Len(reply[c]) + 1 \in 1..Len(b)
                 /\ Stored(c, b, Len(reply[c]) + 1, reply[c])
<1>1. PICK b \in Seq(Inputs) :
        /\ batch' = [batch EXCEPT ![c] = b]
        /\ \/ pc[c] = "idle" /\ Refuse(c)
           \/ /\ WellFormed(b)
              /\ pc[c] = "batch" => b = batch[c]
              /\ Len(reply[c]) + 1 \in 1..Len(b)
              /\ InsertOf(c, b, Len(reply[c]) + 1, reply[c])
  BY WriteEffect
<1>2. CASE pc[c] = "idle" /\ Refuse(c)
  BY <1>1, <1>2
<1>3. CASE /\ WellFormed(b)
           /\ Len(reply[c]) + 1 \in 1..Len(b)
           /\ InsertOf(c, b, Len(reply[c]) + 1, reply[c])
  <2>0. TypeOK /\ Shapes /\ KeysAreUnique /\ reply[c] \in Seq(Nat)
    BY DEF Safe, Shapes, RepliesAreWhole
  <2>1. PICK ids \in Seq(Nat) : ids = reply[c]
    BY <2>0
  <2>2. PICK k \in 1..Len(b) : k = Len(reply[c]) + 1
    BY <1>3
  <2>3. b[k] # Malformed /\ InsertOf(c, b, k, ids)
    BY <1>3, <2>1, <2>2 DEF WellFormed
  <2>4. Stored(c, b, k, ids)
    BY ONLY <2>0, <2>3, c \in Callers, b \in Seq(Inputs), ids \in Seq(Nat),
            k \in 1..Len(b), InsertOfEffect
  <2>5. QED
    BY <1>1, <1>3, <2>1, <2>2, <2>4
<1>4. QED
  BY <1>1, <1>2, <1>3

\* A read is recorded before it is served, under a key of the audit service's
\* own; denied, or without a reader, it leaves nothing.
LEMMA SelfAuditEffect ==
  ASSUME Safe, NEW c \in Callers, NEW reader, SelfAudit(c, reader)
  PROVE  /\ Grows /\ KeysAreUnique'
         /\ \A n \in DOMAIN rows' : rows'[n].key \in Keys => n \in DOMAIN rows
         /\ \/ pc' = [pc EXCEPT ![c] = "read"]
            \/ pc' = [pc EXCEPT ![c] = "denied"]
<1>0. rows \in Seq(Entries) /\ clock \in 0..MaxClock /\ KeysAreUnique
  BY DEF Safe, TypeOK, Shapes, RepliesAreWhole
<1>1. CASE /\ insert(QueryKey(c, clock), "audit_log")
           /\ pc' = [pc EXCEPT ![c] = "read"]
  <2>1. /\ QueryKey(c, clock) \in AllKeys /\ "audit_log" \in EntityTypes
        /\ QueryKey(c, clock) \notin Keys
    BY <1>0, LogAssumption DEF AllKeys, EntityTypes
  <2>2. /\ Grows /\ KeysAreUnique'
        /\ rows'[InsertedAs(QueryKey(c, clock))].key = QueryKey(c, clock)
        /\ \A n \in DOMAIN rows' : n \in DOMAIN rows \/ n = InsertedAs(QueryKey(c, clock))
    BY ONLY <1>0, <1>1, <2>1, InsertEffect
  <2>3. QED
    BY <1>1, <2>1, <2>2
<1>2. CASE /\ UNCHANGED rows
           /\ pc' \in {[pc EXCEPT ![c] = "read"], [pc EXCEPT ![c] = "denied"]}
  BY <1>0, <1>2 DEF Grows, KeysAreUnique
<1>3. QED
  BY <1>1, <1>2 DEF SelfAudit

\* The log only grows.
LEMMA LogGrows == Safe /\ [Next]_vars => Grows /\ KeysAreUnique'
<1> SUFFICES ASSUME Safe, [Next]_vars PROVE Grows /\ KeysAreUnique'
  OBVIOUS
<1>0. rows \in Seq(Entries) /\ KeysAreUnique /\ TypeOK /\ Shapes
  BY DEF Safe, Shapes, RepliesAreWhole
<1>1. CASE UNCHANGED rows
  BY <1>0, <1>1 DEF Grows, KeysAreUnique
<1>2. ASSUME NEW c \in Callers, Write(c) PROVE Grows /\ KeysAreUnique'
  BY <1>1, <1>2, WriteStores DEF Stored, Refuse
<1>3. ASSUME NEW c \in Callers, queryAudit(c) PROVE Grows /\ KeysAreUnique'
  BY <1>3, SelfAuditEffect DEF queryAudit
<1>4. QED
  BY <1>1, <1>2, <1>3 DEF Next, Write, ReadPage, SetClock, vars

------------------------------------------------------------------------------
\* What every step keeps of the types, given that the log grows.
LEMMA HistoryTyped ==
  ASSUME Safe, Grows, UNCHANGED <<began, seen>>
  PROVE  /\ began' \in [Callers -> 0..Len(rows')]
         /\ \A c \in Callers : seen'[c] \subseteq DOMAIN rows'
         /\ \A n \in DOMAIN rows' : rows'[n].at \in 0..MaxClock
<1>1. Len(rows) \in Nat /\ Len(rows') \in Nat /\ Len(rows) <= Len(rows')
  BY DEF Grows
<1>2. began' \in [Callers -> 0..Len(rows')]
  BY <1>1 DEF Safe, TypeOK
<1>3. \A c \in Callers : seen'[c] \subseteq DOMAIN rows'
  BY DEF Safe, TypeOK, Grows
<1>4. \A n \in DOMAIN rows' : rows'[n] \in Entries
  BY DEF Grows
<1>5. QED
  BY <1>2, <1>3, <1>4 DEF Entries

\* Writes keep types and shapes,
LEMMA WriteTyped ==
  ASSUME Safe, NEW c \in Callers, Write(c), Grows
  PROVE  TypeOK' /\ Shapes'
<1>0. TypeOK /\ Shapes /\ KeysAreUnique
  BY DEF Safe, RepliesAreWhole
<1>1. /\ UNCHANGED <<gate, clock, reading>> /\ pc[c] \in {"idle", "batch"}
      /\ ctx[c] = Nil
  BY <1>0, WriteEffect DEF Shapes, Place
<1>2. PICK b \in Seq(Inputs) :
        /\ batch' = [batch EXCEPT ![c] = b]
        /\ \/ pc[c] = "idle" /\ Refuse(c)
           \/ /\ WellFormed(b)
              /\ pc[c] = "batch" => b = batch[c]
              /\ Len(reply[c]) + 1 \in 1..Len(b)
              /\ Stored(c, b, Len(reply[c]) + 1, reply[c])
  BY WriteStores
<1>3. /\ GateTypeOK' /\ clock' \in 0..MaxClock /\ ctx' = ctx
      /\ offset' = offset /\ filter' = filter /\ seen' = seen /\ began' = began
  BY <1>0, <1>1 DEF TypeOK, GateTypeOK, gate, reading
<1>4. /\ began' \in [Callers -> 0..Len(rows')]
      /\ \A o \in Callers : seen'[o] \subseteq DOMAIN rows'
      /\ \A n \in DOMAIN rows' : rows'[n].at \in 0..MaxClock
      /\ rows' \in Seq(Entries)
  BY <1>3, HistoryTyped DEF Grows
<1>5. batch' \in [Callers -> Seq(Inputs)] /\ batch'[c] = b
  BY <1>0, <1>2 DEF Shapes
<1>6. CASE pc[c] = "idle" /\ Refuse(c)
  <2>1. /\ pc' = [pc EXCEPT ![c] = "refused"] /\ reply' = reply
    BY <1>6 DEF Refuse
  <2>2. TypeOK'
    BY <1>0, <1>2, <1>3, <1>4, <2>1 DEF TypeOK, Shapes
  <2>3. \A o \in Callers : Place(o)'
    <3>1. \A o \in Callers : Place(o)
      BY <1>0 DEF Shapes
    <3>2. QED
      BY <1>0, <1>2, <1>3, <1>6, <2>1, <3>1 DEF TypeOK, Shapes, Place, WellFormed
  <2>4. QED
    BY <1>0, <1>3, <1>4, <1>5, <2>1, <2>2, <2>3 DEF TypeOK, Shapes
<1>7. CASE /\ WellFormed(b)
           /\ pc[c] = "batch" => b = batch[c]
           /\ Len(reply[c]) + 1 \in 1..Len(b)
           /\ Stored(c, b, Len(reply[c]) + 1, reply[c])
  <2> DEFINE i == Len(reply[c]) + 1
  <2>1. reply[c] \in Seq(Nat) /\ b[i] # Malformed
    BY <1>0, <1>7 DEF Shapes, WellFormed
  <2>2. /\ reply' \in [Callers -> Seq(Nat)]
        /\ pc' = [pc EXCEPT ![c] = IF i = Len(b) THEN "done" ELSE "batch"]
        /\ \A o \in Callers \ {c} : reply'[o] = reply[o]
        /\ \E id \in DOMAIN rows' : reply'[c] = Append(reply[c], id)
    BY <1>7 DEF Stored
  <2>3. Len(reply'[c]) = i /\ Len(b) \in Nat
    <3>1. PICK id \in DOMAIN rows' : reply'[c] = Append(reply[c], id)
      BY <2>2
    <3>2. id \in Nat
      BY <1>4
    <3>3. QED
      BY <2>1, <3>1, <3>2
  <2>4. pc'[c] = (IF i = Len(b) THEN "done" ELSE "batch")
        /\ \A o \in Callers \ {c} : pc'[o] = pc[o]
    BY <1>0, <2>2 DEF TypeOK
  <2>5. pc' \in [Callers -> {"idle", "batch", "read", "paging", "done", "refused", "denied"}]
    BY <1>0, <2>2 DEF TypeOK
  <2>6. \A o \in Callers : pc'[o] = "batch" => Len(reply'[o]) \in 1..(Len(batch'[o]) - 1)
    <3>1. CASE i # Len(b)
      BY <1>0, <1>2, <1>5, <1>7, <2>2, <2>3, <2>4, <3>1 DEF TypeOK, Shapes
    <3>2. CASE i = Len(b)
      BY <1>0, <1>2, <1>5, <1>7, <2>2, <2>3, <2>4, <3>2 DEF TypeOK, Shapes
    <3>3. QED
      BY <3>1, <3>2
  <2>7. TypeOK'
    BY <1>0, <1>3, <1>4, <2>5, <2>6 DEF TypeOK
  <2>8. \A o \in Callers : Place(o)'
    <3>1. Place(c)'
      BY <1>1, <1>3, <1>5, <1>7, <2>4 DEF Place, WellFormed
    <3>2. ASSUME NEW o \in Callers, o # c PROVE Place(o)'
      <4>1. /\ pc'[o] = pc[o] /\ reply'[o] = reply[o] /\ batch'[o] = batch[o]
            /\ ctx'[o] = ctx[o] /\ offset'[o] = offset[o]
        BY <1>0, <1>2, <1>3, <2>2, <2>4, <3>2 DEF Shapes
      <4>2. Place(o)
        BY <1>0 DEF Shapes
      <4>3. QED
        BY ONLY <4>1, <4>2 DEF Place, WellFormed
    <3>3. QED
      BY <3>1, <3>2
  <2>9. Shapes'
    BY <1>0, <1>3, <1>4, <1>5, <2>2, <2>8 DEF TypeOK, Shapes
  <2>10. QED
    BY <2>7, <2>9
<1>8. QED
  BY <1>2, <1>6, <1>7

\* Asking for a page keeps types and shapes,
LEMMA QueryTyped ==
  ASSUME Safe, NEW c \in Callers, queryAudit(c), Grows
  PROVE  TypeOK' /\ Shapes'
<1>0. TypeOK /\ Shapes
  BY DEF Safe
<1>1. /\ UNCHANGED <<gate, clock, batch, reply, seen>> /\ pc[c] \in {"idle", "paging"}
      /\ \/ pc' = [pc EXCEPT ![c] = "read"]
         \/ pc' = [pc EXCEPT ![c] = "denied"]
  BY SelfAuditEffect DEF queryAudit
<1>2. /\ ctx' \in [Callers -> Contexts \cup {Nil, Unnamed}]
      /\ filter' \in [Callers -> Filters \cup {"any"}]
      /\ offset' \in [Callers -> Nat]
      /\ began' \in [Callers -> 0..Len(rows)]
      /\ \A o \in Callers \ {c} : ctx'[o] = ctx[o] /\ offset'[o] = offset[o]
  <2>1. CASE pc[c] = "idle"
    <3>1. /\ \E reader \in Readers : ctx' = [ctx EXCEPT ![c] = reader]
          /\ \E f \in Filters : filter' = [filter EXCEPT ![c] = f]
          /\ began' = [began EXCEPT ![c] = Len(rows)] /\ offset' = offset
      BY <2>1 DEF queryAudit
    <3>2. Readers \subseteq Contexts \cup {Unnamed} /\ Len(rows) \in 0..Len(rows)
      BY <1>0, LogAssumption DEF Shapes
    <3>3. QED
      BY <1>0, <3>1, <3>2 DEF TypeOK, Shapes
  <2>2. CASE pc[c] = "paging"
    <3>1. UNCHANGED <<ctx, filter, began>> /\ offset' = [offset EXCEPT ![c] = @ + Limit]
      BY <2>2 DEF queryAudit
    <3>2. QED
      BY <1>0, <3>1, Numbers DEF TypeOK, Shapes
  <2>3. QED
    BY <1>1, <2>1, <2>2
<1>3. /\ rows' \in Seq(Entries) /\ Len(rows) \in Nat /\ Len(rows') \in Nat
      /\ Len(rows) <= Len(rows') /\ DOMAIN rows \subseteq DOMAIN rows'
  BY DEF Grows
<1>4. \A n \in DOMAIN rows' : rows'[n].at \in 0..MaxClock
  <2>1. \A n \in DOMAIN rows' : rows'[n] \in Entries
    BY <1>3
  <2>2. QED
    BY <2>1 DEF Entries
<1>5. began' \in [Callers -> 0..Len(rows')]
  BY <1>2, <1>3
<1>6. \A o \in Callers : seen'[o] \subseteq DOMAIN rows'
  BY <1>0, <1>1, <1>3 DEF TypeOK
<1>7. \A o \in Callers : pc'[o] = "batch" => Len(reply'[o]) \in 1..(Len(batch'[o]) - 1)
  BY <1>0, <1>1 DEF TypeOK
<1>8. pc' \in [Callers -> {"idle", "batch", "read", "paging", "done", "refused", "denied"}]
  BY <1>0, <1>1 DEF TypeOK
<1>9. GateTypeOK' /\ clock' \in 0..MaxClock
  BY <1>0, <1>1 DEF TypeOK, GateTypeOK, gate
<1>10. \A o \in Callers : Place(o)'
  <2>1. \A o \in Callers : Place(o)
    BY <1>0 DEF Shapes
  <2>2. Place(c)'
    BY <1>0, <1>1, <2>1 DEF Place, TypeOK
  <2>3. ASSUME NEW o \in Callers, o # c PROVE Place(o)'
    <3>1. /\ pc'[o] = pc[o] /\ ctx'[o] = ctx[o] /\ offset'[o] = offset[o]
          /\ reply'[o] = reply[o] /\ batch'[o] = batch[o]
      BY <1>0, <1>1, <1>2, <2>3 DEF TypeOK
    <3>2. QED
      BY ONLY <2>1, <3>1, o \in Callers DEF Place, WellFormed
  <2>4. QED
    BY <2>2, <2>3
<1>11. TypeOK'
  BY <1>2, <1>4, <1>5, <1>6, <1>7, <1>8, <1>9 DEF TypeOK
<1>12. Shapes'
  BY <1>0, <1>1, <1>2, <1>3, <1>6, <1>10 DEF Shapes
<1>13. QED
  BY <1>11, <1>12

\* and so does reading it.
LEMMA ReadTyped ==
  ASSUME Safe, NEW c \in Callers, ReadPage(c)
  PROVE  TypeOK' /\ Shapes'
<1>0. TypeOK /\ Shapes
  BY DEF Safe
<1>1. /\ UNCHANGED <<gate, rows, clock, ctx, batch, reply, filter, offset, began>>
      /\ pc[c] = "read"
      /\ \/ pc' = [pc EXCEPT ![c] = "paging"]
         \/ pc' = [pc EXCEPT ![c] = "done"]
      /\ seen' = [seen EXCEPT ![c] = @ \cup query(filter[c], offset[c], Limit)]
  BY DEF ReadPage
<1>2. query(filter[c], offset[c], Limit) \subseteq DOMAIN rows
  BY DEF query
<1>3. DOMAIN rows \subseteq Nat
  BY <1>0 DEF Shapes
<1>4. /\ seen' \in [Callers -> SUBSET Nat]
      /\ \A o \in Callers : seen'[o] \subseteq DOMAIN rows'
  BY <1>0, <1>1, <1>2, <1>3 DEF TypeOK, Shapes
<1>5. \A o \in Callers : Place(o)'
  BY <1>0, <1>1 DEF TypeOK, Shapes, Place, WellFormed
<1>6. GateTypeOK'
  BY <1>0, <1>1 DEF TypeOK, GateTypeOK, gate
<1>7. TypeOK'
  BY <1>0, <1>1, <1>4, <1>6 DEF TypeOK
<1>8. Shapes'
  BY <1>0, <1>1, <1>4, <1>5 DEF Shapes
<1>9. QED
  BY <1>7, <1>8

\* Types and shapes are kept by every step.
LEMMA TypesStep == Safe /\ [Next]_vars => TypeOK' /\ Shapes'
<1> SUFFICES ASSUME Safe, [Next]_vars PROVE TypeOK' /\ Shapes'
  OBVIOUS
<1>0. TypeOK /\ Shapes /\ Grows
  BY LogGrows DEF Safe
<1>1. ASSUME NEW c \in Callers,
             record(c) \/ recordBatch(c) \/ InsertNext(c) \/ queryAudit(c) \/ ReadPage(c)
      PROVE  TypeOK' /\ Shapes'
  BY <1>0, <1>1, WriteTyped, QueryTyped, ReadTyped DEF Write
<1>2. CASE SetClock
  <2>1. clock' \in 0..MaxClock /\ UNCHANGED <<gate, rows, pc, batch, reply, reading>>
    BY <1>2 DEF SetClock
  <2>2. QED
    BY <1>0, <2>1 DEF TypeOK, Shapes, Place, WellFormed, GateTypeOK, gate, reading
<1>3. CASE GateStep /\ UNCHANGED <<rows, clock, pc, batch, reply, reading>>
  <2>1. GateTypeOK'
    <3>1. \A roles \in Granted : roles \in SUBSET ROLES
      BY GrantAssumption
    <3>2. QED
      BY <1>0, <1>3, <3>1 DEF TypeOK, GateTypeOK, GateStep, registerService, registerHuman
  <2>2. QED
    BY <1>0, <1>3, <2>1 DEF TypeOK, Shapes, Place, WellFormed, reading
<1>4. CASE UNCHANGED vars
  BY <1>0, <1>4 DEF TypeOK, Shapes, Place, WellFormed, GateTypeOK, gate, vars
<1>5. QED
  BY <1>1, <1>2, <1>3, <1>4 DEF Next


------------------------------------------------------------------------------
\* What a write that is not refused leaves of the replies.
LEMMA StoredIsWhole ==
  ASSUME Safe, NEW c \in Callers, NEW b \in Seq(Inputs),
         pc[c] \in {"idle", "batch"}, batch' = [batch EXCEPT ![c] = b],
         pc[c] = "batch" => b = batch[c], Len(reply[c]) + 1 \in 1..Len(b),
         Stored(c, b, Len(reply[c]) + 1, reply[c])
  PROVE  RepliesAreWhole'
<1>0. /\ TypeOK /\ Shapes /\ Place(c)
      /\ \A o \in Callers : SafeReply(o)
      /\ \A n \in DOMAIN rows : rows[n].key \in Keys => AnsweredFor(n)
  BY DEF Safe, RepliesAreWhole, Shapes
<1>1. /\ rows \in Seq(Entries) /\ rows' \in Seq(Entries) /\ KeysAreUnique'
      /\ \A n \in DOMAIN rows : n \in DOMAIN rows' /\ rows'[n] = rows[n]
      /\ pc' = [pc EXCEPT ![c] = IF Len(reply[c]) + 1 = Len(b) THEN "done" ELSE "batch"]
      /\ \A o \in Callers \ {c} : reply'[o] = reply[o]
  BY DEF Stored, Grows
<1>2. PICK id \in DOMAIN rows' :
        /\ reply'[c] = Append(reply[c], id)
        /\ rows'[id].key = b[Len(reply[c]) + 1]
        /\ \A n \in DOMAIN rows' : n \in DOMAIN rows \/ n = id
  BY DEF Stored
<1>3. /\ batch'[c] = b /\ \A o \in Callers \ {c} : batch'[o] = batch[o]
      /\ \A o \in Callers \ {c} : pc'[o] = pc[o]
      /\ pc'[c] = IF Len(reply[c]) + 1 = Len(b) THEN "done" ELSE "batch"
  BY <1>0, <1>1 DEF TypeOK, Shapes
<1>4. /\ reply[c] \in Seq(Nat) /\ id \in Nat /\ Len(b) \in Nat /\ Len(reply[c]) \in Nat
      /\ DOMAIN b = 1..Len(b)
  BY <1>0, <1>1 DEF Shapes
<1>5. /\ DOMAIN reply'[c] = 1..(Len(reply[c]) + 1)
      /\ DOMAIN reply[c] = 1..Len(reply[c])
      /\ reply'[c][Len(reply[c]) + 1] = id
      /\ \A i \in 1..Len(reply[c]) : reply'[c][i] = reply[c][i]
      /\ Len(reply'[c]) = Len(reply[c]) + 1
  BY <1>2, <1>4
<1>6. SafeReply(c)'
  <2>1. ASSUME NEW i \in DOMAIN reply'[c]
        PROVE  /\ reply'[c][i] \in DOMAIN rows' /\ i \in DOMAIN b
               /\ rows'[reply'[c][i]].key = b[i]
    <3>1. CASE i = Len(reply[c]) + 1
      BY <1>2, <1>4, <1>5, <3>1
    <3>2. CASE i # Len(reply[c]) + 1
      <4>1. i \in 1..Len(reply[c])
        BY <1>4, <1>5, <3>2
      <4>2. pc[c] = "batch" /\ b = batch[c]
        <5>1. reply[c] # << >>
          BY <1>4, <4>1
        <5>2. QED
          BY <1>0, <5>1 DEF Place
      <4>3. reply[c][i] \in DOMAIN rows /\ i \in DOMAIN b /\ rows[reply[c][i]].key = b[i]
        BY <1>0, <1>5, <4>1, <4>2 DEF SafeReply
      <4>4. QED
        BY <1>1, <1>5, <4>1, <4>3
    <3>3. QED
      BY <3>1, <3>2
  <2>2. pc'[c] = "done" => Len(reply'[c]) = Len(b)
    BY <1>3, <1>5
  <2>3. QED
    BY <1>3, <2>1, <2>2 DEF SafeReply
<1>7. ASSUME NEW o \in Callers, o # c PROVE SafeReply(o)'
  <2>1. reply'[o] = reply[o] /\ batch'[o] = batch[o] /\ pc'[o] = pc[o]
    BY <1>1, <1>3, <1>7
  <2>2. SafeReply(o)
    BY <1>0
  <2>3. QED
    BY ONLY <1>1, <2>1, <2>2 DEF SafeReply
<1>8. ASSUME NEW n \in DOMAIN rows', rows'[n].key \in Keys PROVE AnsweredFor(n)'
  <2>1. pc'[c] # "refused"
    BY <1>3
  <2>2. CASE n = id
    <3>1. Len(reply[c]) + 1 \in DOMAIN reply'[c]
      BY <1>4, <1>5
    <3>2. QED
      BY <1>5, <2>1, <2>2, <3>1 DEF AnsweredFor
  <2>3. CASE n # id
    <3>1. n \in DOMAIN rows /\ rows[n].key \in Keys
      BY <1>1, <1>2, <1>8, <2>3
    <3>2. PICK o \in Callers : pc[o] # "refused" /\ \E i \in DOMAIN reply[o] : reply[o][i] = n
      BY <1>0, <3>1 DEF AnsweredFor
    <3>3. \E i \in DOMAIN reply'[o] : reply'[o][i] = n
      <4>1. CASE o = c
        <5>1. PICK i \in 1..Len(reply[c]) : reply[c][i] = n
          BY <1>5, <3>2, <4>1
        <5>2. i \in DOMAIN reply'[c] /\ reply'[c][i] = n
          BY <1>4, <1>5, <5>1
        <5>3. QED
          BY <4>1, <5>2
      <4>2. CASE o # c
        BY <1>1, <3>2, <4>2
      <4>3. QED
        BY <4>1, <4>2
    <3>4. pc'[o] # "refused"
      BY <1>3, <2>1, <3>2
    <3>5. QED
      BY <3>3, <3>4 DEF AnsweredFor
  <2>4. QED
    BY <2>2, <2>3
<1>9. QED
  BY <1>1, <1>6, <1>7, <1>8 DEF RepliesAreWhole

\* Who does not write changes no reply, and adds no component's entry.
LEMMA OthersKeepReplies ==
  ASSUME Safe, Grows, KeysAreUnique', UNCHANGED <<batch, reply>>,
         \A n \in DOMAIN rows' : rows'[n].key \in Keys => n \in DOMAIN rows,
         \A c \in Callers : pc'[c] = "refused" <=> pc[c] = "refused",
         \A c \in Callers : pc'[c] = "done" => pc[c] \in {"done", "read"}
  PROVE  RepliesAreWhole'
<1>0. /\ \A o \in Callers : SafeReply(o) /\ Place(o)
      /\ \A n \in DOMAIN rows : rows[n].key \in Keys => AnsweredFor(n)
      /\ \A n \in DOMAIN rows : n \in DOMAIN rows' /\ rows'[n] = rows[n]
  BY DEF Safe, RepliesAreWhole, Shapes, Grows
<1>1. ASSUME NEW c \in Callers PROVE SafeReply(c)'
  <2>1. SafeReply(c) /\ Place(c)
    BY <1>0
  <2>2. pc'[c] = "done" => Len(reply[c]) = Len(batch[c])
    BY <2>1 DEF SafeReply, Place
  <2>3. QED
    BY <1>0, <2>1, <2>2 DEF SafeReply
<1>2. ASSUME NEW n \in DOMAIN rows', rows'[n].key \in Keys PROVE AnsweredFor(n)'
  <2>1. AnsweredFor(n)
    BY <1>0, <1>2
  <2>2. QED
    BY <2>1 DEF AnsweredFor
<1>3. QED
  BY <1>1, <1>2 DEF RepliesAreWhole

\* Replies are kept whole by every step.
LEMMA RepliesStep == Safe /\ [Next]_vars => RepliesAreWhole'
<1> SUFFICES ASSUME Safe, [Next]_vars PROVE RepliesAreWhole'
  OBVIOUS
<1>0. TypeOK /\ Shapes /\ Grows /\ KeysAreUnique'
  BY LogGrows DEF Safe
<1>1. ASSUME NEW c \in Callers, Write(c) PROVE RepliesAreWhole'
  <2>0. pc[c] \in {"idle", "batch"}
    BY <1>1, WriteEffect
  <2>1. PICK b \in Seq(Inputs) :
          /\ batch' = [batch EXCEPT ![c] = b]
          /\ \/ pc[c] = "idle" /\ Refuse(c)
             \/ /\ WellFormed(b)
                /\ pc[c] = "batch" => b = batch[c]
                /\ Len(reply[c]) + 1 \in 1..Len(b)
                /\ Stored(c, b, Len(reply[c]) + 1, reply[c])
    BY <1>1, WriteStores
  <2>2. CASE pc[c] = "idle" /\ Refuse(c)
    <3>1. /\ UNCHANGED <<rows, reply>> /\ pc'[c] = "refused"
          /\ \A o \in Callers \ {c} : pc'[o] = pc[o] /\ batch'[o] = batch[o]
      BY <1>0, <2>1, <2>2 DEF Refuse, TypeOK, Shapes
    <3>2. /\ reply[c] = << >> /\ \A o \in Callers : SafeReply(o)
          /\ \A n \in DOMAIN rows : rows[n].key \in Keys => AnsweredFor(n)
      BY <1>0, <2>2 DEF Safe, RepliesAreWhole, Shapes, Place
    <3>3. \A o \in Callers : SafeReply(o)'
      BY <3>1, <3>2 DEF SafeReply
    <3>4. \A n \in DOMAIN rows : rows[n].key \in Keys => AnsweredFor(n)'
      BY <3>1, <3>2 DEF AnsweredFor
    <3>5. QED
      BY <1>0, <3>1, <3>3, <3>4 DEF RepliesAreWhole
  <2>3. CASE /\ pc[c] = "batch" => b = batch[c]
             /\ Len(reply[c]) + 1 \in 1..Len(b)
             /\ Stored(c, b, Len(reply[c]) + 1, reply[c])
    BY <2>0, <2>1, <2>3, StoredIsWhole
  <2>4. QED
    BY <2>1, <2>2, <2>3
<1>2. ASSUME NEW c \in Callers, queryAudit(c) PROVE RepliesAreWhole'
  <2>1. /\ pc[c] \in {"idle", "paging"} /\ UNCHANGED <<batch, reply>>
        /\ pc' = [pc EXCEPT ![c] = "read"] \/ pc' = [pc EXCEPT ![c] = "denied"]
        /\ \A n \in DOMAIN rows' : rows'[n].key \in Keys => n \in DOMAIN rows
    BY <1>2, SelfAuditEffect DEF queryAudit
  <2>2. \A o \in Callers : /\ pc'[o] = "refused" <=> pc[o] = "refused"
                           /\ pc'[o] = "done" => pc[o] \in {"done", "read"}
    BY <1>0, <2>1 DEF TypeOK
  <2>3. QED
    BY <1>0, <2>1, <2>2, OthersKeepReplies
<1>3. ASSUME NEW c \in Callers, ReadPage(c) PROVE RepliesAreWhole'
  <2>1. /\ pc[c] = "read" /\ UNCHANGED <<rows, batch, reply>>
        /\ pc' = [pc EXCEPT ![c] = "paging"] \/ pc' = [pc EXCEPT ![c] = "done"]
    BY <1>3 DEF ReadPage
  <2>2. \A o \in Callers : /\ pc'[o] = "refused" <=> pc[o] = "refused"
                           /\ pc'[o] = "done" => pc[o] \in {"done", "read"}
    BY <1>0, <2>1 DEF TypeOK
  <2>3. QED
    BY <1>0, <2>1, <2>2, OthersKeepReplies
<1>4. CASE UNCHANGED <<rows, pc, batch, reply>>
  BY <1>0, <1>4, OthersKeepReplies
<1>5. QED
  BY <1>1, <1>2, <1>3, <1>4 DEF Next, Write, SetClock, vars


------------------------------------------------------------------------------
\* What a reader misses so far does not come forward while others write.
LEMMA MissedStay ==
  ASSUME Safe, Grows, NEW c \in Callers,
         filter'[c] = filter[c], began'[c] = began[c], seen[c] \subseteq seen'[c]
  PROVE  /\ Missed(c)' \subseteq Missed(c)
         /\ \A n \in Missed(c) :
              /\ n \in Matching(filter[c])
              /\ Rank(filter[c], n) \in Nat /\ Rank(filter[c], n)' \in Nat
              /\ Rank(filter[c], n) <= Rank(filter[c], n)'
<1>1. /\ Len(rows) \in Nat /\ DOMAIN rows = 1..Len(rows)
      /\ \A n \in DOMAIN rows : rows'[n] = rows[n]
  BY DEF Grows
<1>2. began[c] \in 0..Len(rows)
  BY DEF Safe, TypeOK
<1>3. 1..began[c] \subseteq DOMAIN rows
  BY <1>1, <1>2
<1>4. \A n \in 1..began[c] : Matches(filter[c], n)' <=> Matches(filter[c], n)
  BY <1>1, <1>3 DEF Matches
<1>5. Missed(c)' \subseteq Missed(c)
  BY <1>4 DEF Missed
<1>6. ASSUME NEW n \in Missed(c)
      PROVE  /\ n \in Matching(filter[c])
             /\ Rank(filter[c], n) \in Nat /\ Rank(filter[c], n)' \in Nat
             /\ Rank(filter[c], n) <= Rank(filter[c], n)'
  <2>1. n \in DOMAIN rows /\ n \in Matching(filter[c])
    BY <1>3 DEF Missed, Matching
  <2>2. PICK f : f = filter[c]
    OBVIOUS
  <2>3. f = filter'[c]
    BY <2>2
  <2>4. Rank(f, n) \in Nat /\ Rank(f, n)' \in Nat /\ Rank(f, n) <= Rank(f, n)'
    BY ONLY Grows, <2>1, RanksGrow
  <2>5. Rank(filter[c], n)' = Rank(f, n)' /\ Rank(filter[c], n) = Rank(f, n)
    BY <2>2, <2>3 DEF Rank, Matching, Matches
  <2>6. QED
    BY <2>1, <2>4, <2>5
<1>7. QED
  BY <1>5, <1>6

\* A reader that stays where it is, or that was denied, is as safe as before.
LEMMA WaitingReader ==
  ASSUME Safe, Grows, NEW c \in Callers,
         filter'[c] = filter[c], began'[c] = began[c], seen[c] \subseteq seen'[c],
         offset'[c] = offset[c], ctx'[c] = ctx[c],
         pc'[c] = pc[c] \/ (pc'[c] \in {"batch", "done", "refused"} /\ ctx[c] = Nil)
  PROVE  SafePages(c)'
<1>1. SafePages(c) /\ offset[c] \in Nat
  BY DEF Safe, PagesAreSafe, TypeOK
<1>2. /\ Missed(c)' \subseteq Missed(c)
      /\ \A n \in Missed(c) : /\ Rank(filter[c], n) \in Nat /\ Rank(filter[c], n)' \in Nat
                              /\ Rank(filter[c], n) <= Rank(filter[c], n)'
  BY MissedStay
<1>3. ASSUME pc'[c] = "read", NEW n \in Missed(c)' PROVE offset'[c] <= Rank(filter[c], n)'
  <2>1. n \in Missed(c) /\ offset[c] <= Rank(filter[c], n)
    BY <1>1, <1>2, <1>3 DEF SafePages
  <2>2. QED
    BY <1>1, <1>2, <2>1
<1>4. ASSUME pc'[c] = "paging", NEW n \in Missed(c)'
      PROVE  offset'[c] + Limit <= Rank(filter[c], n)'
  <2>1. n \in Missed(c) /\ offset[c] + Limit <= Rank(filter[c], n)
    BY <1>1, <1>2, <1>4 DEF SafePages
  <2>2. QED
    BY <1>1, <1>2, <2>1, Numbers
<1>5. pc'[c] = "done" /\ ctx'[c] # Nil => Missed(c)' = {}
  BY <1>1, <1>2 DEF SafePages
<1>6. QED
  BY <1>3, <1>4, <1>5 DEF SafePages

\* A reader asking for its first page misses everything, and asks from 0; one
\* that asks on goes on where the full page ended.
LEMMA AskingReader ==
  ASSUME Safe, Grows, NEW c \in Callers, queryAudit(c), TypeOK'
  PROVE  SafePages(c)'
<1>1. /\ pc'[c] \in {"read", "denied"} /\ seen' = seen /\ offset[c] \in Nat
      /\ TypeOK /\ Shapes /\ Place(c) /\ SafePages(c)
  <2>1. TypeOK /\ Shapes /\ Place(c) /\ SafePages(c)
    BY DEF Safe, PagesAreSafe, Shapes
  <2>2. /\ seen' = seen
        /\ pc' = [pc EXCEPT ![c] = "read"] \/ pc' = [pc EXCEPT ![c] = "denied"]
    BY SelfAuditEffect DEF queryAudit
  <2>3. pc'[c] \in {"read", "denied"} /\ offset[c] \in Nat
    BY <2>1, <2>2 DEF TypeOK
  <2> QED
    BY ONLY <2>1, <2>2, <2>3
<1>2. CASE pc[c] = "idle"
  <2>1. offset'[c] = 0
    BY <1>1, <1>2 DEF queryAudit, Place
  <2>2. \A n \in Missed(c)' : Rank(filter[c], n)' \in Nat
    <3>1. /\ rows' \in Seq(Entries)
      BY DEF Grows
    <3>2. IsFiniteSet(DOMAIN rows')
      <4>1. DOMAIN rows' = 1..Len(rows') /\ Len(rows') \in Int
        BY <3>1
      <4>2. QED
        BY <4>1, FS_Interval
    <3>3. ASSUME NEW n \in Missed(c)' PROVE Rank(filter[c], n)' \in Nat
      <4> DEFINE T == {m \in Matching(filter[c])' : Before(m, n)'}
      <4>1. T \in SUBSET DOMAIN rows'
        BY DEF Matching
      <4>2. Cardinality(T) \in Nat
        BY ONLY <3>2, <4>1, FS_Subset, FS_CardinalityType
      <4>3. QED
        BY <4>2 DEF Rank
    <3>4. QED
      BY <3>3
  <2>3. QED
    BY <1>1, <2>1, <2>2 DEF SafePages
<1>3. CASE pc[c] = "paging"
  <2>1. /\ filter'[c] = filter[c] /\ began'[c] = began[c]
        /\ offset'[c] = offset[c] + Limit
    BY <1>1, <1>3 DEF queryAudit, TypeOK
  <2>2. /\ Missed(c)' \subseteq Missed(c)
        /\ \A n \in Missed(c) : /\ Rank(filter[c], n) \in Nat /\ Rank(filter[c], n)' \in Nat
                                /\ Rank(filter[c], n) <= Rank(filter[c], n)'
    BY <1>1, <2>1, MissedStay
  <2>3. ASSUME NEW n \in Missed(c)' PROVE offset'[c] <= Rank(filter[c], n)'
    <3>1. n \in Missed(c) /\ offset[c] + Limit <= Rank(filter[c], n)
      BY <1>1, <1>3, <2>2 DEF SafePages
    <3>2. QED
      BY <1>1, <2>1, <2>2, <3>1, Numbers
  <2>4. QED
    BY <1>1, <2>3 DEF SafePages
<1>4. QED
  BY <1>2, <1>3 DEF queryAudit

\* A reader that is given a page misses nothing before the page's end; if the
\* page is not full, nothing is left beyond it.
LEMMA ServedReader ==
  ASSUME Safe, NEW c \in Callers, ReadPage(c)
  PROVE  SafePages(c)'
<1> DEFINE page == query(filter[c], offset[c], Limit)
<1>0. /\ TypeOK /\ Shapes /\ SafePages(c) /\ rows \in Seq(Entries)
      /\ offset[c] \in Nat /\ Grows
  BY LogGrows DEF Safe, PagesAreSafe, Shapes, TypeOK, Next
<1>1. /\ pc[c] = "read"
      /\ UNCHANGED <<rows, ctx, filter, offset, began>>
      /\ seen'[c] = seen[c] \cup page
      /\ pc'[c] = IF Cardinality(page) = Limit THEN "paging" ELSE "done"
  BY <1>0 DEF ReadPage, TypeOK, Shapes
<1>2. /\ Missed(c)' = Missed(c) \ page
      /\ \A n : Rank(filter[c], n)' = Rank(filter[c], n)
  BY <1>1 DEF Missed, Matches, Rank, Matching, Before
<1>3. \A n \in Missed(c) : /\ n \in Matching(filter[c]) /\ Rank(filter[c], n) \in Nat
                           /\ offset[c] <= Rank(filter[c], n)
  BY <1>0, <1>1, MissedStay DEF SafePages
<1>4. \A n \in Missed(c) \ page : offset[c] + Limit <= Rank(filter[c], n)
  <2> SUFFICES ASSUME NEW n \in Missed(c) \ page
               PROVE  offset[c] + Limit <= Rank(filter[c], n)
    OBVIOUS
  <2>1. ~(offset[c] <= Rank(filter[c], n) /\ Rank(filter[c], n) < offset[c] + Limit)
    BY <1>3 DEF query, Rank, Matching
  <2>2. QED
    BY <1>0, <1>3, <2>1, Numbers
<1>5. Missed(c) \ page # {} => Cardinality(page) = Limit
  <2> SUFFICES ASSUME NEW n \in Missed(c) \ page PROVE Cardinality(page) = Limit
    OBVIOUS
  <2>1. PICK f : f = filter[c]
    OBVIOUS
  <2>0. PICK from \in Nat : from = offset[c]
    BY <1>0
  <2>2. n \in Matching(f) /\ from + Limit <= Rank(f, n)
    BY <1>3, <1>4, <2>0, <2>1
  <2>3. Cardinality(query(f, from, Limit)) = Limit
    BY ONLY <1>0, <2>2, from \in Nat, Numbers, FullPage
  <2>4. QED
    BY <2>0, <2>1, <2>3
<1>6. QED
  BY <1>1, <1>2, <1>4, <1>5 DEF SafePages

\* Pages are kept safe by every step.
LEMMA PagesStep == Safe /\ [Next]_vars => PagesAreSafe'
<1> SUFFICES ASSUME Safe, [Next]_vars, NEW o \in Callers PROVE SafePages(o)'
  BY DEF PagesAreSafe
<1>0. TypeOK /\ Shapes /\ Grows /\ TypeOK'
  BY LogGrows, TypesStep DEF Safe
<1>1. ASSUME NEW c \in Callers, Write(c) PROVE SafePages(o)'
  <2>1. /\ UNCHANGED reading /\ pc[c] \in {"idle", "batch"}
        /\ pc' \in {[pc EXCEPT ![c] = x] : x \in {"batch", "done", "refused"}}
    BY <1>1, WriteEffect, WriteStores DEF Stored, Refuse
  <2>2. ctx[c] = Nil
    BY <1>0, <2>1 DEF Shapes, Place
  <2>3. pc'[o] = pc[o] \/ (pc'[o] \in {"batch", "done", "refused"} /\ ctx[o] = Nil)
    BY <1>0, <2>1, <2>2 DEF TypeOK
  <2>4. QED
    BY <1>0, <2>1, <2>3, WaitingReader DEF reading
<1>2. ASSUME NEW c \in Callers, queryAudit(c) PROVE SafePages(o)'
  <2>1. CASE c = o
    BY <1>0, <1>2, <2>1, AskingReader
  <2>2. CASE c # o
    <3>1. /\ filter'[o] = filter[o] /\ began'[o] = began[o] /\ seen' = seen
          /\ offset'[o] = offset[o] /\ ctx'[o] = ctx[o]
      BY <1>0, <1>2, <2>2 DEF queryAudit, TypeOK, Shapes
    <3>2. pc' = [pc EXCEPT ![c] = "read"] \/ pc' = [pc EXCEPT ![c] = "denied"]
      BY <1>2, SelfAuditEffect DEF queryAudit
    <3>3. pc'[o] = pc[o]
      BY <1>0, <2>2, <3>2 DEF TypeOK
    <3>4. QED
      BY <1>0, <3>1, <3>3, WaitingReader
  <2>3. QED
    BY <2>1, <2>2
<1>3. ASSUME NEW c \in Callers, ReadPage(c) PROVE SafePages(o)'
  <2>1. CASE c = o
    BY <1>3, <2>1, ServedReader
  <2>2. CASE c # o
    <3>1. UNCHANGED <<ctx, filter, began, offset>> /\ seen'[o] = seen[o] /\ pc'[o] = pc[o]
      BY <1>0, <1>3, <2>2 DEF ReadPage, TypeOK, Shapes
    <3>2. QED
      BY <1>0, <3>1, WaitingReader
  <2>3. QED
    BY <2>1, <2>2
<1>4. CASE UNCHANGED <<pc, reading>>
  BY <1>0, <1>4, WaitingReader DEF reading
<1>5. QED
  BY <1>1, <1>2, <1>3, <1>4 DEF Next, Write, SetClock, reading, vars

------------------------------------------------------------------------------
\* It all holds to begin with.
LEMMA InitSafe == Init => Safe
<1> SUFFICES ASSUME Init PROVE Safe
  OBVIOUS
<1>0. rows = [n \in 1..Earlier |-> [key |-> EarlierKey(n), entityType |-> "other", at |-> 0]]
  BY DEF Init
<1>1. /\ rows \in Seq(Entries) /\ DOMAIN rows = 1..Earlier
      /\ Len(rows) = Earlier
      /\ \A n \in DOMAIN rows : rows[n].key = EarlierKey(n) /\ rows[n].at = 0
  <2>1. \A n \in 1..Earlier :
          [key |-> EarlierKey(n), entityType |-> "other", at |-> 0] \in Entries
    BY Numbers DEF Entries, AllKeys, EntityTypes
  <2>2. QED
    BY <1>0, <2>1, Numbers
<1>2. GateTypeOK
  BY DEF Init, GateInit, GateTypeOK
<1>3. TypeOK
  BY <1>1, <1>2, Numbers DEF Init, TypeOK
<1>4. Shapes
  BY <1>1 DEF Init, Shapes, Place
<1>5. RepliesAreWhole
  <2>1. KeysAreUnique
    BY <1>1 DEF KeysAreUnique, EarlierKey
  <2>2. \A c \in Callers : SafeReply(c)
    BY DEF Init, SafeReply
  <2>3. \A n \in DOMAIN rows : rows[n].key \notin Keys
    BY <1>1, LogAssumption
  <2>4. QED
    BY <2>1, <2>2, <2>3 DEF RepliesAreWhole
<1>6. PagesAreSafe
  BY DEF Init, PagesAreSafe, SafePages
<1>7. QED
  BY <1>3, <1>4, <1>5, <1>6 DEF Safe

\* Safe is an invariant, and inductive.
THEOREM Inductive == Spec => []Safe
<1>1. Safe /\ [Next]_vars => Safe'
  BY TypesStep, RepliesStep, PagesStep DEF Safe
<1>2. QED
  BY <1>1, InitSafe, PTL DEF Spec

\* Every variable of the audit log has its type.
THEOREM TypeCorrect == Spec => []TypeOK
<1>1. Safe => TypeOK
  BY DEF Safe
<1>2. QED
  BY <1>1, Inductive, PTL

\* The log is append-only: no step changes, moves or removes an entry.
THEOREM LogIsAppendOnly ==
  Spec => [][/\ Len(rows) <= Len(rows')
             /\ \A n \in DOMAIN rows : n \in DOMAIN rows' /\ rows'[n] = rows[n]]_vars
<1> DEFINE Appends == /\ Len(rows) <= Len(rows')
                      /\ \A n \in DOMAIN rows : n \in DOMAIN rows' /\ rows'[n] = rows[n]
<1>1. Safe /\ [Next]_vars => [Appends]_vars
  BY LogGrows DEF Grows
<1>2. QED
  BY <1>1, Inductive, PTL DEF Spec

\* queryAudit: whoever pages to the end was given every entry that matched
\* when it began.
THEOREM NoPageMisses == Spec => []PagingMissesNothing
<1>1. Safe => PagingMissesNothing
  BY DEF Safe, PagesAreSafe, SafePages, Missed, PagingMissesNothing
<1>2. QED
  BY <1>1, Inductive, PTL

\* record, recordBatch: one entry per key, every reply names its keys'
\* entries, and a refused write has left nothing of its own.
THEOREM WritesAreAnswered == Spec => []WritesAreWhole
<1>1. Safe => WritesAreWhole
  <2> SUFFICES ASSUME Safe PROVE WritesAreWhole
    OBVIOUS
  <2>0. RepliesAreWhole /\ rows \in Seq(Entries)
    BY DEF Safe, Shapes
  <2>1. ASSUME NEW k \in Keys, Existing(k) # 0 PROVE AnsweredFor(Existing(k))
    <3>1. Existing(k) \in DOMAIN rows /\ rows[Existing(k)].key = k
      BY <2>0, <2>1, ExistingIsTheEntry
    <3>2. QED
      BY <2>0, <3>1 DEF RepliesAreWhole
  <2>2. QED
    BY <2>0, <2>1
       DEF RepliesAreWhole, KeysAreUnique, SafeReply, AnsweredFor, WritesAreWhole
<1>2. QED
  BY <1>1, Inductive, PTL
==============================================================================
