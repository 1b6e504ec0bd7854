------------------------------ MODULE MCStrCmd ------------------------------
\* Small instances of StrCmd.  k1 and k2 hash to buckets 1 and 4 of 6: one moves
\* in the first step of a rehash, the other in the second.
EXTENDS StrCmd

CONSTANTS k1, k2

MCHashCode == [k \in Keys |-> IF k = k1 THEN 1 ELSE 4]

\* Scaled: 2 milliseconds in a second, at most 2 seconds or 3 milliseconds.
MCTimes == {1, 2, 3, 4, 6}
MCArguments == {Text(s) : s \in {"NX", "EX", "GET", "KEEPTTL", "other"}} \cup {Number(1), Number(3)}
MCOptions == {Text(s) : s \in {"XX", "KEEPTTL", "EX", "PX"}} \cup {Number(1)}
=============================================================================
