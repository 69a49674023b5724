----------------------------- MODULE MCAuditLog -----------------------------
(* A small instance of AuditLog for TLC: a log of eight entries, so that    *)
(* the ids audit-9 and audit-10 fall into the run, pages of five.           *)
EXTENDS AuditLog

CONSTANTS k1, k2, c1, c2, p

SomeGrants == {{}, {"audit_reader"}}
SomeReaders == [actorType: {"human", "ai"}, actorId: {p}] \cup {Unnamed}
Entities == [k \in Keys |-> IF k = k1 THEN "event" ELSE "rule_set"]
OneCorrelation == [c \in Callers |-> "corr"]
SomeBatches == {<<k1, k2>>, <<k2, k2>>, <<k1, Malformed>>}
=============================================================================
