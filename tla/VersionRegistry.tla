--------------------------- MODULE VersionRegistry ---------------------------
(***************************************************************************)
(* The registries of rule sets and of workflow definitions                 *)
(* (platform/rules/data/pg-store.ts, platform/workflow/data/pg-store.ts):  *)
(* a cache in each process that answers every read, behind which put()     *)
(* inserts a row without awaiting it, and load() fills the cache from the  *)
(* table.  One id; what differs is the version and what is registered.     *)
(***************************************************************************)
EXTENDS Naturals, FiniteSets

CONSTANTS
  Processes,
  Versions,
  Definitions,  \* what may be put under a version
  Valid(_),     \* does validation let it pass?
  Absent,       \* no definition
  MaxPuts       \* bound: put() calls that are accepted

ASSUME RegistryAssumption == Absent \notin Definitions /\ MaxPuts \in Nat

VARIABLES
  table,      \* version -> the row
  cache,      \* process -> version -> what it answers
  inserts,    \* inserts sent and not answered: <<version, definition>>
  loading,    \* process -> the rows its load() selected, or Absent
  accepted,   \* version -> every definition some put() accepted
  puts

registry == <<table, cache, inserts, loading, accepted, puts>>

Contents == [Versions -> Definitions \cup {Absent}]
Empty == [v \in Versions |-> Absent]

RegistryInit ==
  /\ table = Empty
  /\ cache = [p \in Processes |-> Empty]
  /\ inserts = {}
  /\ loading = [p \in Processes |-> Absent]
  /\ accepted = [v \in Versions |-> {}]
  /\ puts = 0

RegistryTypeOK ==
  /\ table \in Contents
  /\ cache \in [Processes -> Contents]
  /\ inserts \subseteq Versions \X Definitions
  /\ loading \in [Processes -> Contents \cup {Absent}]
  /\ accepted \in [Versions -> SUBSET Definitions]
  /\ puts \in 0..MaxPuts

\* Validation, then put.  A version the cache already has is refused.
Put(p, v, def) ==
  /\ puts < MaxPuts /\ puts' = puts + 1
  /\ Valid(def)
  /\ cache[p][v] = Absent
  /\ cache' = [cache EXCEPT ![p][v] = def]
  /\ inserts' = inserts \cup {<<v, def>>}
  /\ accepted' = [accepted EXCEPT ![v] = @ \cup {def}]
  /\ UNCHANGED <<table, loading>>

\* Mutant: the insert overwrites the row it meets.
Upsert(v, def) ==
  /\ <<v, def>> \in inserts
  /\ inserts' = inserts \ {<<v, def>>}
  /\ table' = [table EXCEPT ![v] = def]
  /\ UNCHANGED <<cache, loading, accepted, puts>>

\* INSERT ... ON CONFLICT DO NOTHING reaches the table.
InsertLands(v, def) ==
  /\ <<v, def>> \in inserts
  /\ inserts' = inserts \ {<<v, def>>}
  /\ table' = [table EXCEPT ![v] = IF @ = Absent THEN def ELSE @]
  /\ UNCHANGED <<cache, loading, accepted, puts>>

\* load(): the SELECT, and after its await the cache.set of every row.
LoadSelect(p) ==
  /\ loading[p] = Absent
  /\ loading' = [loading EXCEPT ![p] = table]
  /\ UNCHANGED <<table, cache, inserts, accepted, puts>>

LoadFill(p) ==
  /\ loading[p] # Absent
  /\ cache' = [cache EXCEPT ![p] = [v \in Versions |->
       IF loading[p][v] # Absent THEN loading[p][v] ELSE @[v]]]
  /\ loading' = [loading EXCEPT ![p] = Absent]
  /\ UNCHANGED <<table, inserts, accepted, puts>>

\* The process restarts with an empty cache; an insert it had sent may land
\* or be lost.
RestartRegistry(p) ==
  /\ cache' = [cache EXCEPT ![p] = Empty]
  /\ loading' = [loading EXCEPT ![p] = Absent]
  /\ inserts' \in {inserts} \cup {inserts \ {i} : i \in inserts}
  /\ UNCHANGED <<table, accepted, puts>>

RegistryStep ==
  \/ \E p \in Processes, v \in Versions, def \in Definitions : Put(p, v, def)
  \/ \E v \in Versions, def \in Definitions : InsertLands(v, def)
  \/ \E p \in Processes : LoadSelect(p) \/ LoadFill(p)

\* A row is never rewritten (the unique key, and UPDATE revoked).
RowsAreImmutable ==
  [][\A v \in Versions : table[v] # Absent => table'[v] = table[v]]_registry
==============================================================================
