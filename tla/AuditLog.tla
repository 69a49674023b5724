------------------------------ MODULE AuditLog ------------------------------
(* The Audit Service (platform/audit) over its store: an append-only log,   *)
(* written by components under idempotency keys, one entry or a batch at a  *)
(* time, and read in pages by callers its gate lets through, each read being *)
(* recorded itself, or by a component that names no reader and is neither   *)
(* asked nor recorded.  Everything up to an await is one step; between the  *)
(* entries of a batch, and before the read of a page, other callers may run. *)
EXTENDS RoleGate

CONSTANTS
  Callers,       \* each writes once, or reads the log through
  Keys,          \* (sourceComponent, idempotencyKey) of components' entries;
                 \* none of them is the audit service's own
  EntityOf,      \* Keys -> entityType of the entry
  Filters,       \* entity types a reader may ask for, and "any"
  Readers,       \* contexts presented by readers, or Unnamed
  Unnamed,       \* no reader is passed to queryAudit
  Batches,       \* batches of inputs: keys, or Malformed
  Correlation,   \* Callers -> the correlation id of its requests
  Malformed,     \* an input without action or sourceComponent
  Nil,           \* nothing yet
  Earlier,       \* entries in the log to begin with
  Limit,         \* page size of the readers
  MaxClock       \* bound: Date.now() takes values in 0..MaxClock

EarlierKey(n) == <<"earlier", n>>
QueryKey(c, t) == <<"query", Correlation[c], t>>

ASSUME LogAssumption ==
  /\ Earlier \in Nat /\ Limit \in Nat \ {0} /\ MaxClock \in Nat
  /\ DOMAIN EntityOf = Keys /\ DOMAIN Correlation = Callers
  /\ Malformed \notin Keys
  /\ Readers \subseteq Contexts \cup {Unnamed} /\ Unnamed \notin Contexts
  /\ \A b \in Batches :             \* an empty batch is answered at once
       b # << >> /\ b \in Seq(Keys \cup {Malformed})
  /\ \A n \in 1..Earlier : EarlierKey(n) \notin Keys
  /\ \A c \in Callers, t \in 0..MaxClock : QueryKey(c, t) \notin Keys

VARIABLES
  rows,    \* rows[n] is the entry with id audit-n
  clock,   \* milliseconds
  pc,      \* where each caller is
  ctx,     \* the context a reader presents
  batch,   \* the inputs of a writer
  reply,   \* ids of the entries a writer's inputs have so far
  filter,  \* the entityType a reader asks for, or "any"
  offset,  \* of the page a reader asks for next
  began,   \* history: length of the log at a reader's first page
  seen     \* history: ids on the pages a reader was given

vars == <<gate, rows, clock, pc, ctx, batch, reply, filter, offset, began, seen>>
reading == <<ctx, filter, offset, began, seen>>

TypeOK ==
  /\ GateTypeOK
  /\ clock \in 0..MaxClock
  /\ \A n \in DOMAIN rows : rows[n].at \in 0..MaxClock
  /\ pc \in [Callers -> {"idle", "batch", "read", "paging", "done", "refused", "denied"}]
  /\ ctx \in [Callers -> Contexts \cup {Nil, Unnamed}]
  /\ offset \in [Callers -> Nat] /\ began \in [Callers -> 0..Len(rows)]
  /\ \A c \in Callers : seen[c] \subseteq DOMAIN rows
  /\ \A c \in Callers : pc[c] = "batch" => Len(reply[c]) \in 1..(Len(batch[c]) - 1)
-----------------------------------------------------------------------------
(* The store.                                                              *)

Init ==
  /\ GateInit
  /\ rows = [n \in 1..Earlier |-> [key |-> EarlierKey(n), entityType |-> "other", at |-> 0]]
  /\ clock = 0
  /\ pc = [c \in Callers |-> "idle"]
  /\ ctx = [c \in Callers |-> Nil]
  /\ batch = [c \in Callers |-> << >>]
  /\ reply = [c \in Callers |-> << >>]
  /\ filter = [c \in Callers |-> "any"]
  /\ offset = [c \in Callers |-> 0]
  /\ began = [c \in Callers |-> 0]
  /\ seen = [c \in Callers |-> {}]

\* The id of the entry a key has, or 0.
Existing(key) ==
  IF \E n \in DOMAIN rows : rows[n].key = key
    THEN CHOOSE n \in DOMAIN rows : rows[n].key = key ELSE 0

\* The entry stored under this key, if there is one; else a new one at the end.
insert(key, entityType) ==
  rows' = IF Existing(key) # 0 THEN rows
          ELSE Append(rows, [key |-> key, entityType |-> entityType, at |-> clock])
InsertedAs(key) == IF Existing(key) # 0 THEN Existing(key) ELSE Len(rows) + 1

\* One more digit than n has (ids have up to four).
Scale(n) == IF n < 10 THEN 10 ELSE IF n < 100 THEN 100 ELSE
            IF n < 1000 THEN 1000 ELSE 10000
\* Ids are compared as text: audit-10 comes before audit-2.
TextBefore(m, n) ==
  \/ m * Scale(n) < n * Scale(m)
  \/ m * Scale(n) = n * Scale(m) /\ m < n

\* Order of every query: createdAt, then id.
Before(m, n) ==
  rows[m].at < rows[n].at \/ (rows[m].at = rows[n].at /\ TextBefore(m, n))

\* One of the fields of AuditQueryFilter stands for those that pick entries.
Matches(f, n) == f = "any" \/ rows[n].entityType = f

\* mutant: pages counted from 1.
queryFromOne(f, from, limit) ==
  LET M == {n \in DOMAIN rows : Matches(f, n)}
      rank(n) == Cardinality({m \in M : Before(m, n)})
  IN {n \in M : from < rank(n) /\ rank(n) <= from + limit}

\* One page: what matches, in order, from `from` on, `limit` of them.
query(f, from, limit) ==
  LET M == {n \in DOMAIN rows : Matches(f, n)}
      rank(n) == Cardinality({m \in M : Before(m, n)})
  IN {n \in M : from <= rank(n) /\ rank(n) < from + limit}
-----------------------------------------------------------------------------
(* Writers.                                                                *)

\* mutant: each entry is validated when its turn comes.
FirstWellFormed(b) == b[1] # Malformed

WellFormed(b) == \A i \in DOMAIN b : b[i] # Malformed

\* "bad_request".
Refuse(c) ==
  /\ pc' = [pc EXCEPT ![c] = "refused"]
  /\ UNCHANGED <<rows, reply>>

\* mutant: the loop runs once more than the batch is long.
InsertOfOnceMore(c, b, i, ids) ==
  /\ insert(b[i], EntityOf[b[i]])
  /\ reply' = [reply EXCEPT ![c] = Append(ids, InsertedAs(b[i]))]
  /\ pc' = [pc EXCEPT ![c] = IF i > Len(b) THEN "done" ELSE "batch"]

\* Stores input i of batch b, and answers if it is the last.
InsertOf(c, b, i, ids) ==
  /\ insert(b[i], EntityOf[b[i]])
  /\ reply' = [reply EXCEPT ![c] = Append(ids, InsertedAs(b[i]))]
  /\ pc' = [pc EXCEPT ![c] = IF i = Len(b) THEN "done" ELSE "batch"]

\* One entry.
record(c) ==
  /\ pc[c] = "idle"
  /\ \E i \in Keys \cup {Malformed} :
       /\ batch' = [batch EXCEPT ![c] = <<i>>]
       /\ IF i = Malformed THEN Refuse(c) ELSE InsertOf(c, <<i>>, 1, << >>)
  /\ UNCHANGED <<gate, clock, reading>>

\* Every input is validated before the first is inserted, which happens
\* before the first await.
recordBatch(c) ==
  /\ pc[c] = "idle"
  /\ \E b \in Batches :
       /\ batch' = [batch EXCEPT ![c] = b]
       /\ IF WellFormed(b) THEN InsertOf(c, b, 1, << >>) ELSE Refuse(c)
  /\ UNCHANGED <<gate, clock, reading>>

\* The next entry of the batch; insert refuses a malformed one.
InsertNext(c) ==
  /\ pc[c] = "batch"
  /\ LET i == Len(reply[c]) + 1 IN
       IF batch[c][i] = Malformed THEN Refuse(c) ELSE InsertOf(c, batch[c], i, reply[c])
  /\ UNCHANGED <<gate, clock, batch, reading>>
-----------------------------------------------------------------------------
(* Readers.                                                                *)

\* queryAudit before the read: the gate, then the record of the read, whose
\* key is the correlation and the millisecond: reads that share both share it.
\* Neither is done for a call without a reader.
SelfAudit(c, reader) ==
  \/ /\ reader = Unnamed
     /\ pc' = [pc EXCEPT ![c] = "read"]
     /\ UNCHANGED rows
  \/ /\ reader # Unnamed /\ requireAnyRole(reader, AuditGate.queryAudit)
     /\ insert(QueryKey(c, clock), "audit_log")
     /\ pc' = [pc EXCEPT ![c] = "read"]
  \/ /\ reader # Unnamed /\ ~requireAnyRole(reader, AuditGate.queryAudit)
     /\ pc' = [pc EXCEPT ![c] = "denied"]
     /\ UNCHANGED rows

\* A reader asks for the first page, or, when a page came back full, the next.
queryAudit(c) ==
  /\ \/ /\ pc[c] = "idle"
        /\ \E reader \in Readers :
             SelfAudit(c, reader) /\ ctx' = [ctx EXCEPT ![c] = reader]
        /\ \E f \in Filters : filter' = [filter EXCEPT ![c] = f]
        /\ began' = [began EXCEPT ![c] = Len(rows)]
        /\ UNCHANGED offset
     \/ /\ pc[c] = "paging"
        /\ SelfAudit(c, ctx[c])
        /\ offset' = [offset EXCEPT ![c] = @ + Limit]
        /\ UNCHANGED <<ctx, filter, began>>
  /\ UNCHANGED <<gate, clock, batch, reply, seen>>

\* The read itself.
ReadPage(c) ==
  /\ pc[c] = "read"
  /\ LET page == query(filter[c], offset[c], Limit) IN
       /\ seen' = [seen EXCEPT ![c] = @ \cup page]
       /\ pc' = [pc EXCEPT ![c] = IF Cardinality(page) = Limit THEN "paging" ELSE "done"]
  /\ UNCHANGED <<gate, rows, clock, ctx, batch, reply, filter, offset, began>>

\* The wall clock moves on, or is set back.
SetClock ==
  /\ \E t \in 0..MaxClock : clock' = t /\ t # clock
  /\ UNCHANGED <<gate, rows, pc, batch, reply, reading>>

Next ==
  \/ \E c \in Callers : record(c) \/ recordBatch(c) \/ InsertNext(c)
                        \/ queryAudit(c) \/ ReadPage(c)
  \/ SetClock
  \/ GateStep /\ UNCHANGED <<rows, clock, pc, batch, reply, reading>>

Spec == Init /\ [][Next]_vars
-----------------------------------------------------------------------------
\* A reader that pages to the end has been given every matching entry that
\* was there when it began, whatever is written meanwhile, its own reads
\* included, however the clock moves, and although ids sort as text: what
\* comes later may push entries on to a later page, never to an earlier one.
PagingMissesNothing ==
  \A c \in Callers :
    pc[c] = "done" /\ ctx[c] # Nil =>
      {n \in 1..began[c] : Matches(filter[c], n)} \subseteq seen[c]

\* A write is answered with the one entry each of its keys has, in order,
\* whoever wrote that entry, a retry or a duplicate in the batch included;
\* refused, it has left no entry behind that nobody else was answered for.
WritesAreWhole ==
  /\ \A m, n \in DOMAIN rows : rows[m].key = rows[n].key => m = n
  /\ \A c \in Callers : pc[c] # "refused" =>
       /\ \A i \in DOMAIN reply[c] : rows[reply[c][i]].key = batch[c][i]
       /\ pc[c] = "done" => Len(reply[c]) = Len(batch[c])
  /\ \A k \in Keys : Existing(k) # 0 =>
       \E c \in Callers : pc[c] # "refused"
                          /\ \E i \in DOMAIN reply[c] : reply[c][i] = Existing(k)
=============================================================================
