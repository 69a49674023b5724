--------------------------- MODULE MCEventDelivery ---------------------------
(* Small instances of EventDelivery for TLC.                               *)
EXTENDS EventDelivery

CONSTANTS e1, c1, c2, p1, p2, w1, w2

OneEvent     == {e1}
OneConsumer  == {c1}
TwoConsumers == {c1, c2}
TwoWorkers   == {w1, w2}
TwoProcesses == {p1, p2}

\* Each worker in a process of its own.
Apart == [w \in Workers |-> IF w = w1 THEN p1 ELSE p2]

\* Every subscription matches every event.
WantAll == [c \in Consumers |-> Events]

\* Every process starts with the first consumer; the second process, where
\* there is one, also with the second.
Wired == [p \in Processes |-> IF p = p1 THEN {c1} ELSE Consumers]
=============================================================================
