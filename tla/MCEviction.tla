----------------------------- MODULE MCEviction -----------------------------
\* Small instances of Eviction: k1 is a short key and k2 a long one.
EXTENDS Eviction

CONSTANTS k1, k2

MCHashCode == [k \in Keys |-> IF k = k1 THEN 1 ELSE 4]
MCKeySize  == [k \in Keys |-> IF k = k1 THEN 1 ELSE 2]
MCTimes == {1, 2}
MCArguments == {Text("EX"), Number(1)}
=============================================================================
