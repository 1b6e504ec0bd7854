---------------------------- MODULE ClientProofs ----------------------------
(***************************************************************************)
(* Proofs about Client, for every table of commands and everything that    *)
(* may be read, handed over or set.                                        *)
(***************************************************************************)
EXTENDS Client, NumberLemmas, FiniteSetTheorems, SequenceTheorems, TLAPS

LEMMA Taken ==
  ASSUME NEW s \in Surroundings
  PROVE  /\ s.made \subseteq AllFlags \ {"ReplySkip", "ReplySkipNext"}
         /\ s.settable \subseteq AllFlags \ {"ReplySkip"}
         /\ s.chunks \subseteq Seq(STRING) /\ s.requests \subseteq Seq(Seq(STRING))
BY TakenAssumption

-----------------------------------------------------------------------------
(***************************************************************************)
(* Types.                                                                  *)
(***************************************************************************)
Types ==
  /\ around \in Surroundings
  /\ queryBuf \in Seq(STRING) /\ fed \in Seq(STRING) /\ TypeOK

\* The first line feed.
LEMMA FirstLineFeed ==
  ASSUME NEW text \in Seq(STRING), LineFeeds(text) # {}
  PROVE  /\ Min(LineFeeds(text)) \in LineFeeds(text) /\ Min(LineFeeds(text)) \in 1..Len(text)
         /\ \A i \in LineFeeds(text) : Min(LineFeeds(text)) <= i
<1> DEFINE S == LineFeeds(text)
<1>1. S \subseteq 1..Len(text) /\ Len(text) \in Nat
  BY DEF LineFeeds
<1>2. S \subseteq Nat
  BY <1>1
<1> HIDE DEF S
<1>3. \E n \in S : \A m \in S : n <= m
  BY <1>2, LeastNumber DEF S
<1>4. Min(S) \in S /\ \A i \in S : Min(S) <= i
  BY <1>3 DEF Min
<1> QED BY <1>1, <1>4 DEF S

\* Fields counts.
LEMMA FieldsLen ==
  ASSUME NEW text, Len(text) \in Nat
  PROVE  /\ IsFiniteSet(Starts(text)) /\ Cardinality(Starts(text)) \in Nat
         /\ Len(Fields(text)) = Cardinality(Starts(text))
<1>1. IsFiniteSet(1..Len(text))
  BY FS_Interval
<1>2. Starts(text) \subseteq 1..Len(text)
  BY DEF Starts
<1>3. IsFiniteSet(Starts(text)) /\ Cardinality(Starts(text)) \in Nat
  BY <1>1, <1>2, FS_Subset, FS_CardinalityType
<1> QED BY <1>3 DEF Fields

\* The types hold at the start and after every step.
LEMMA TypesHold == Spec => []Types
<1>1. Init => Types
  <2> SUFFICES ASSUME Init PROVE Types
    OBVIOUS
  <2>1. flags \subseteq AllFlags
    BY Taken DEF Init
  <2> QED BY <2>1 DEF Init, Types, TypeOK
<1>2. Types /\ [Next]_vars => Types'
  <2> SUFFICES ASSUME Types, [Next]_vars PROVE Types'
    OBVIOUS
  <2>0. /\ around \in Surroundings /\ queryBuf \in Seq(STRING) /\ fed \in Seq(STRING)
        /\ flags \subseteq AllFlags /\ reqType \in {"unknown", "inline", "multibulk"}
        /\ queryPos \in 0..Len(queryBuf) /\ argc \in Nat
        /\ cmd \in DOMAIN Table \cup {Nil} /\ rejectedCalls \in [DOMAIN Table -> Nat]
        /\ control \in {"idle", "input", "panicked"}
    BY DEF Types, TypeOK
  <2>1. ASSUME Reset
        PROVE  /\ flags' \subseteq AllFlags /\ reqType' = "unknown"
               /\ control' \in {"idle", "input", "panicked"}
    <3>1. CASE ResetPanics
      BY <2>0, <2>1, <3>1 DEF Reset, Panic
    <3>2. CASE ~ResetPanics
      BY <2>0, <2>1, <3>2 DEF Reset, ResetFlags, SkipFlags, AllFlags
    <3> QED BY <3>1, <3>2
  <2>2. ASSUME Process
        PROVE  /\ cmd' \in DOMAIN Table \cup {Nil} /\ rejectedCalls' \in [DOMAIN Table -> Nat]
               /\ control' \in {"idle", "input", "panicked"}
    <3>1. ASSUME NEW c \in DOMAIN Table \cup {Nil}, NEW why, Rejected(c, why)
          PROVE  rejectedCalls' \in [DOMAIN Table -> Nat]
      BY <2>0, <3>1 DEF Rejected, RejectCommand, RejectCommandFormat, RejectCommandStr,
                        CountRejection, CommandExists
    <3>2. LookupCommand \in DOMAIN Table \cup {Nil}
      BY DEF LookupCommand
    <3> QED BY <2>0, <2>2, <3>1, <3>2 DEF Process, Panic, command
  <2>3. CASE ResetClient
    BY <2>0, <2>1, <2>3 DEF ResetClient, Types, TypeOK, buffer, request, command
  <2>4. CASE ProcessCommand
    BY <2>0, <2>2, <2>4 DEF ProcessCommand, Types, TypeOK, buffer, request
  <2>5. CASE ProcessInputBuffer
    BY <2>0, <2>5 DEF ProcessInputBuffer, Types, TypeOK, buffer, request, command
  <2>6. CASE ProcessInlineBuffer
    <3>0. Unread \in Seq(STRING) /\ Len(Unread) = Len(queryBuf) - queryPos
      BY <2>0 DEF Unread
    <3>1. CASE LineFeeds(Unread) = {}
      <4>1. \/ queryBuf' = <<>> /\ queryPos' = 0
            \/ queryBuf' = queryBuf /\ queryPos' = queryPos
        BY <2>6, <3>1 DEF ProcessInlineBuffer
      <4>2. queryBuf' \in Seq(STRING) /\ queryPos' \in 0..Len(queryBuf')
        <5>1. <<>> \in Seq(STRING) /\ 0 \in 0..Len(<<>>)
          OBVIOUS
        <5> QED BY <2>0, <4>1, <5>1
      <4> QED BY <2>0, <2>6, <3>1, <4>2
              DEF ProcessInlineBuffer, Types, TypeOK, request, command
    <3>2. CASE LineFeeds(Unread) # {}
      <4> DEFINE m    == Min(LineFeeds(Unread))
                 end  == m - 1 + 1 - LinefeedChars(m - 1)
                 args == Fields(SubSeq(queryBuf, queryPos + 1, end))
      <4>1. m \in 1..Len(Unread)
        BY <3>0, <3>2, FirstLineFeed
      <4>2. LinefeedChars(m - 1) \in {1, 2}
        BY DEF LinefeedChars
      <4>3. Len(args) \in Nat
        BY FieldsLen
      <4>4. CASE InlinePanics(end)
        BY <2>0, <2>6, <3>2, <4>4
           DEF ProcessInlineBuffer, Panic, Types, TypeOK, request, command
      <4>5. CASE ~InlinePanics(end)
        <5>1. queryPos' = end + LinefeedChars(m - 1) /\ queryBuf' = queryBuf
              /\ argc' = argc + Len(args) /\ control' = control
              /\ UNCHANGED <<flags, reads, fed, reqType, command, around>>
          BY <2>6, <3>2, <4>5 DEF ProcessInlineBuffer
        <5>2. queryPos' = m
          <6> HIDE DEF m
          <6> QED BY <4>1, <4>2, <5>1
        <5> HIDE DEF m, args
        <5>3. m \in 0..Len(queryBuf)
          BY <2>0, <3>0, <4>1
        <5>4. queryPos' \in 0..Len(queryBuf') /\ argc' \in Nat
          BY <2>0, <4>3, <5>1, <5>2, <5>3
        <5> QED BY <2>0, <5>1, <5>4 DEF Types, TypeOK, command
      <4> QED BY <4>4, <4>5
    <3> QED BY <3>1, <3>2
  <2>7. CASE InputStep
    <3>1. UNCHANGED <<buffer, request, around>>
      BY <2>7 DEF InputStep
    <3>2. CASE reqType # "unknown"
      BY <2>0, <2>7, <3>1, <3>2 DEF InputStep, Panic, Types, TypeOK, buffer, request, command
    <3>3. CASE reqType = "unknown" /\ argc = 0
      BY <2>0, <2>1, <2>7, <3>1, <3>3 DEF InputStep, Types, TypeOK, buffer, request, command
    <3>4. CASE reqType = "unknown" /\ argc # 0
      <4>1. Process /\ flags' = flags /\ reqType' \in {"multibulk", "inline"}
        BY <2>7, <3>4 DEF InputStep
      <4> QED BY <2>0, <2>2, <3>1, <4>1 DEF Types, TypeOK, buffer, request
    <3> QED BY <3>2, <3>3, <3>4
  <2>8. CASE InputReturn
    <3>1. queryBuf' \in Seq(STRING) /\ queryPos' \in 0..Len(queryBuf')
      <4>1. CASE "Master" \in flags
        BY <2>0, <2>8, <4>1 DEF InputReturn, Trimmed
      <4>2. CASE "Master" \notin flags
        <5>1. SubSeq(queryBuf, queryPos + 1, Len(queryBuf)) \in Seq(STRING)
          BY <2>0
        <5>2. queryBuf' = SubSeq(queryBuf, queryPos + 1, Len(queryBuf)) /\ queryPos' = 0
          BY <2>8, <4>2 DEF InputReturn, Trimmed
        <5>3. queryBuf' \in Seq(STRING) /\ Len(queryBuf') \in Nat
          BY <5>1, <5>2
        <5> QED BY <5>2, <5>3
      <4> QED BY <4>1, <4>2
    <3> QED BY <2>0, <2>8, <3>1 DEF InputReturn, Types, TypeOK, request, command
  <2>9. ASSUME NEW chunk \in around.chunks, Read(chunk) PROVE Types'
    <3>1. chunk \in Seq(STRING)
      BY <2>0, Taken
    <3>2. queryBuf \o chunk \in Seq(STRING) /\ fed \o chunk \in Seq(STRING)
          /\ Len(queryBuf \o chunk) = Len(queryBuf) + Len(chunk)
      BY <2>0, <3>1
    <3>3. queryPos \in 0..Len(queryBuf \o chunk)
      BY <2>0, <3>1, <3>2
    <3> QED BY <2>0, <2>9, <3>2, <3>3 DEF Read, Types, TypeOK, request, command
  <2>10. ASSUME NEW words \in around.requests, SetArguments(words) PROVE Types'
    <3>1. Len(words) \in Nat
      BY <2>0, Taken
    <3> QED BY <2>0, <2>10, <3>1 DEF SetArguments, Types, TypeOK, buffer, command
  <2>11. ASSUME NEW f \in around.settable, SetFlag(f) \/ ClearFlag(f) PROVE Types'
    <3>1. f \in AllFlags
      BY <2>0, Taken
    <3> QED BY <2>0, <2>11, <3>1 DEF SetFlag, ClearFlag, Types, TypeOK, buffer, request, command
  <2>12. CASE AddReply
    BY <2>0, <2>12 DEF AddReply, Types, TypeOK, buffer, request, command
  <2>13. CASE UNCHANGED vars
    BY <2>0, <2>13 DEF vars, Types, TypeOK, buffer, request, command
  <2> QED BY <2>3, <2>4, <2>5, <2>6, <2>7, <2>8, <2>9, <2>10, <2>11, <2>12, <2>13
          DEF Next, InputLoop, Environment
<1> QED BY <1>1, <1>2, PTL DEF Spec

\* The fields of the client have their types (client.go:110): above all, the
\* position in the query buffer is within the buffer, whatever is read, parsed,
\* trimmed or thrown away.
THEOREM TypeCorrect == Spec => []TypeOK
<1>1. Types => TypeOK
  BY DEF Types
<1> QED BY <1>1, TypesHold, PTL

-----------------------------------------------------------------------------
(***************************************************************************)
(* The n-th of a set of numbers.                                           *)
(***************************************************************************)
UpTo(S, b) == {j \in S : j <= b}

LEMMA UpToFinite ==
  ASSUME NEW S, NEW b, IsFiniteSet(S)
  PROVE  /\ IsFiniteSet(UpTo(S, b))
         /\ Cardinality(S) \in Nat /\ Cardinality(UpTo(S, b)) \in Nat
<1>1. UpTo(S, b) \in SUBSET S
  BY DEF UpTo
<1>2. IsFiniteSet(UpTo(S, b))
  BY <1>1, FS_Subset
<1> QED BY <1>2, FS_CardinalityType

\* The positions of a text among which something is looked for.
LEMMA PositionsFinite ==
  ASSUME NEW B \in Nat, NEW S, S \subseteq 1..B
  PROVE  IsFiniteSet(S) /\ \A i \in S : i \in Nat /\ 1 <= i /\ i <= B
<1> DEFINE I == 1..B
<1>1. IsFiniteSet(I)
  BY FS_Interval
<1>2. S \in SUBSET I
  OBVIOUS
<1>3. \A i \in S : i \in Nat /\ 1 <= i /\ i <= B
  OBVIOUS
<1> HIDE DEF I
<1> QED BY <1>1, <1>2, <1>3, FS_Subset

\* Of two elements the greater has the higher number.
LEMMA UpToGrows ==
  ASSUME NEW S, IsFiniteSet(S), \A i \in S : i \in Nat, NEW x \in S, NEW y \in S, x < y
  PROVE  Cardinality(UpTo(S, x)) < Cardinality(UpTo(S, y))
<1> DEFINE X == UpTo(S, x)
           Y == UpTo(S, y)
           Z == Y \ {y}
<1>1. y \in Y /\ X \in SUBSET Z
  <2>1. y \in Y /\ y \notin X
    BY DEF UpTo
  <2>2. \A j \in S : j <= x => j <= y
    OBVIOUS
  <2>3. X \subseteq Y
    BY <2>2 DEF UpTo
  <2> QED BY <2>1, <2>3
<1>2. IsFiniteSet(Y) /\ Cardinality(Y) \in Nat /\ Cardinality(X) \in Nat
  BY UpToFinite
<1>3. IsFiniteSet(Z) /\ Cardinality(Z) = Cardinality(Y) - 1
  <2> HIDE DEF Y
  <2> QED BY <1>1, <1>2, FS_RemoveElement
<1>4. Cardinality(X) <= Cardinality(Z)
  <2> HIDE DEF X, Z
  <2> QED BY <1>1, <1>3, FS_Subset
<1>5. Cardinality(X) < Cardinality(Y)
  <2> HIDE DEF X, Y, Z
  <2> QED BY <1>2, <1>3, <1>4
<1> QED BY <1>5

LEMMA NthIs ==
  ASSUME NEW S, IsFiniteSet(S), \A i \in S : i \in Nat, NEW x \in S, NEW n, n = Cardinality(UpTo(S, x))
  PROVE  Nth(S, n) = x
<1>1. Nth(S, n) = CHOOSE i \in S : Cardinality(UpTo(S, i)) = n
  BY DEF Nth, UpTo
<1>2. PICK y \in S : y = Nth(S, n) /\ Cardinality(UpTo(S, y)) = n
  BY <1>1
<1>3. x \in Nat /\ y \in Nat /\ Cardinality(UpTo(S, y)) \in Nat /\ Cardinality(UpTo(S, x)) \in Nat
  BY UpToFinite
<1>4. ~(x < y)
  <2> SUFFICES ASSUME x < y PROVE FALSE
    OBVIOUS
  <2>1. Cardinality(UpTo(S, x)) < Cardinality(UpTo(S, y))
    BY UpToGrows
  <2> QED BY <2>1, <1>2, <1>3
<1>5. ~(y < x)
  <2> SUFFICES ASSUME y < x PROVE FALSE
    OBVIOUS
  <2>1. Cardinality(UpTo(S, y)) < Cardinality(UpTo(S, x))
    BY UpToGrows
  <2> QED BY <2>1, <1>2, <1>3
<1> QED BY <1>2, <1>3, <1>4, <1>5

\* Every number up to the cardinality is taken.
LEMMA NthExists ==
  ASSUME NEW B \in Nat, NEW S, S \subseteq 1..B, NEW n \in 1..Cardinality(S)
  PROVE  Nth(S, n) \in S /\ Cardinality(UpTo(S, Nth(S, n))) = n
<1> DEFINE C(b) == Cardinality(UpTo(S, b))
           R == {b \in Nat : n <= C(b)}
<1>F. IsFiniteSet(S) /\ \A i \in S : i \in Nat /\ 1 <= i /\ i <= B
  BY PositionsFinite
<1>0. Cardinality(S) \in Nat /\ n \in Nat /\ 1 <= n /\ n <= Cardinality(S)
  BY <1>F, UpToFinite
<1>1. B \in R
  <2>1. UpTo(S, B) = S
    BY <1>F DEF UpTo
  <2> QED BY <2>1, <1>0
<1>2. PICK b \in R : \A m \in R : b <= m
  <2>1. R \subseteq Nat /\ R # {}
    BY <1>1
  <2> HIDE DEF R
  <2> QED BY <2>1, LeastNumber
<1>3. b \in Nat /\ n <= C(b)
  BY <1>2
<1>4. b # 0
  <2>0. \A i \in S : ~(i <= 0)
    BY <1>F
  <2>1. UpTo(S, 0) = {}
    BY <2>0 DEF UpTo
  <2>2. C(0) = 0
    BY <2>1, FS_EmptySet
  <2> HIDE DEF C
  <2> QED BY <2>2, <1>3, <1>0
<1>5. b - 1 \in Nat /\ ~(n <= C(b - 1))
  <2>1. b - 1 \in Nat /\ ~(b <= b - 1)
    BY <1>3, <1>4
  <2>2. b - 1 \notin R
    BY <1>2, <2>1
  <2> QED BY <2>1, <2>2
<1>6. IsFiniteSet(UpTo(S, b - 1)) /\ C(b - 1) \in Nat /\ C(b) \in Nat
  BY <1>F, UpToFinite
<1>L. \A i \in S : i <= b <=> i <= b - 1 \/ i = b
  BY <1>F, <1>3
<1>7. b \in S
  <2> SUFFICES ASSUME b \notin S PROVE FALSE
    OBVIOUS
  <2>1. UpTo(S, b) = UpTo(S, b - 1)
    BY <1>L DEF UpTo
  <2>2. C(b) = C(b - 1)
    BY <2>1
  <2> HIDE DEF C
  <2> QED BY <2>2, <1>3, <1>5
<1>8. C(b) = C(b - 1) + 1
  <2>1. UpTo(S, b) = UpTo(S, b - 1) \cup {b}
    BY <1>L, <1>7 DEF UpTo
  <2>2. b \notin UpTo(S, b - 1)
    BY <1>3 DEF UpTo
  <2> DEFINE V == UpTo(S, b - 1)
  <2>3. IsFiniteSet(V) /\ b \notin V /\ UpTo(S, b) = V \cup {b}
    BY <2>1, <2>2, <1>6
  <2>4. Cardinality(V \cup {b}) = Cardinality(V) + 1
    <3> HIDE DEF V
    <3> QED BY <2>3, FS_AddElement
  <2> QED BY <2>3, <2>4
<1>9. C(b) = n
  <2> HIDE DEF C
  <2> QED BY <1>0, <1>3, <1>5, <1>6, <1>8
<1>10. Nth(S, n) = b
  BY <1>F, <1>7, <1>9, NthIs
<1> QED BY <1>7, <1>9, <1>10

-----------------------------------------------------------------------------
(***************************************************************************)
(* Words: a space at the end of a text changes none of them.               *)
(***************************************************************************)
LEMMA LastWordEnds ==
  ASSUME NEW t \in Seq(STRING), NEW u \in Seq(STRING), Len(t) = Len(u) + 1,
         \A i \in 1..Len(u) : u[i] = t[i], t[Len(t)] \in Space
  PROVE  Fields(u) = Fields(t)
<1>0. Len(t) \in Nat /\ Len(u) \in Nat
  OBVIOUS
<1>1. Starts(u) = Starts(t)
  <2>1. ASSUME NEW i \in Starts(t) PROVE i \in Starts(u)
    <3>1. i \in 1..Len(t) /\ t[i] \notin Space /\ (i > 1 => t[i - 1] \in Space)
      BY DEF Starts
    <3>2. i \in 1..Len(u)
      BY <1>0, <3>1
    <3>3. i > 1 => i - 1 \in 1..Len(u)
      BY <1>0, <3>2
    <3> QED BY <3>1, <3>2, <3>3 DEF Starts
  <2>2. ASSUME NEW i \in Starts(u) PROVE i \in Starts(t)
    <3>1. i \in 1..Len(u) /\ u[i] \notin Space /\ (i > 1 => u[i - 1] \in Space)
      BY DEF Starts
    <3>2. i > 1 => i - 1 \in 1..Len(u)
      BY <1>0, <3>1
    <3> QED BY <1>0, <3>1, <3>2 DEF Starts
  <2> QED BY <2>1, <2>2
<1>2. ASSUME NEW i \in Starts(u) PROVE WordAt(u, i) = WordAt(t, i)
  <2> DEFINE W == {j \in i..Len(u) : \A n \in i..j : u[n] \notin Space}
             V == {j \in i..Len(t) : \A n \in i..j : t[n] \notin Space}
  <2>1. i \in 1..Len(u) /\ u[i] \notin Space
    BY DEF Starts
  <2>2. W = V
    <3>1. ASSUME NEW j \in W PROVE j \in V
      <4>1. j \in i..Len(u) /\ \A n \in i..j : u[n] \notin Space
        OBVIOUS
      <4>2. \A n \in i..j : n \in 1..Len(u)
        BY <1>0, <2>1, <4>1
      <4> QED BY <1>0, <2>1, <4>1, <4>2
    <3>2. ASSUME NEW j \in V PROVE j \in W
      <4>1. j \in i..Len(t) /\ \A n \in i..j : t[n] \notin Space
        OBVIOUS
      <4>2. j # Len(t)
        BY <1>0, <2>1, <4>1
      <4>3. \A n \in i..j : n \in 1..Len(u)
        BY <1>0, <2>1, <4>1, <4>2
      <4> QED BY <1>0, <2>1, <4>1, <4>2, <4>3
    <3> HIDE DEF W, V
    <3> QED BY <3>1, <3>2
  <2>3. W \subseteq Nat /\ (\A m \in W : m <= Len(u)) /\ i \in W /\ W \subseteq i..Len(u)
    BY <1>0, <2>1
  <2> DEFINE M == Max(W)
  <2>4. M \in i..Len(u)
    <3> HIDE DEF W
    <3>1. \E x \in W : \A m \in W : m <= x
      BY <1>0, <2>3, GreatestNumber
    <3>2. \E x \in W : \A m \in W : x >= m
      BY <2>3, <3>1
    <3> QED BY <2>3, <3>2 DEF Max
  <2>5. WordAt(u, i) = SubSeq(u, i, M) /\ WordAt(t, i) = SubSeq(t, i, M)
    BY <2>2 DEF WordAt
  <2> HIDE DEF M
  <2>6. SubSeq(u, i, M) = SubSeq(t, i, M)
    <3>1. SubSeq(u, i, M) = [k \in 1..(M - i + 1) |-> u[i + k - 1]]
      BY <1>0, <2>1, <2>4
    <3>2. SubSeq(t, i, M) = [k \in 1..(M - i + 1) |-> t[i + k - 1]]
      BY <1>0, <2>1, <2>4
    <3>3. \A k \in 1..(M - i + 1) : i + k - 1 \in 1..Len(u)
      BY <1>0, <2>1, <2>4
    <3> QED BY <3>1, <3>2, <3>3
  <2> QED BY <2>5, <2>6
<1>3. ASSUME NEW n \in 1..Cardinality(Starts(u)) PROVE Nth(Starts(u), n) \in Starts(u)
  <2>1. Starts(u) \in SUBSET (1..Len(u))
    BY DEF Starts
  <2> QED BY <1>0, <2>1, NthExists
<1> QED BY <1>1, <1>2, <1>3 DEF Fields

-----------------------------------------------------------------------------
(***************************************************************************)
(* Lines of a text.                                                        *)
(***************************************************************************)
End(text, i)  == IF i = 0 THEN 0 ELSE Nth(LineFeeds(text), i)
Line(text, i) == SubSeq(text, End(text, i - 1) + 1, End(text, i) - 1)

\* Of the text, the lines made lists of are the first ones and the rest is left.
InOrder(text, lists, rest) ==
  /\ Len(lists) <= Cardinality(LineFeeds(text))
  /\ \A i \in 1..Len(lists) : lists[i] = Fields(Line(text, i))
  /\ rest = SubSeq(text, End(text, Len(lists)) + 1, Len(text))

LEMMA Cut ==
  ASSUME NEW s \in Seq(STRING), NEW a \in Nat, NEW b \in Int, 1 <= a, b <= Len(s)
  PROVE  /\ SubSeq(s, a, b) \in Seq(STRING)
         /\ Len(SubSeq(s, a, b)) = IF a <= b THEN b - a + 1 ELSE 0
         /\ \A i \in 1..(b - a + 1) : SubSeq(s, a, b)[i] = s[a + i - 1]
<1>1. \A i \in a..b : i \in 1..Len(s)
  OBVIOUS
<1>2. \A i \in a..b : s[i] \in STRING
  BY <1>1, ElementOfSeq
<1> QED BY <1>2, SubSeqProperties

\* The characters of s from a to b are those of t from c to d.
Matches(s, a, b, t, c, d) ==
  /\ 1 <= a /\ b <= Len(s) /\ 1 <= c /\ d <= Len(t)
  /\ d - c = b - a /\ \A i \in a..b : s[i] = t[i + c - a]

SameCut(s, a, b, t, c, d) == SubSeq(s, a, b) = SubSeq(t, c, d)

LEMMA Alike ==
  ASSUME NEW s \in Seq(STRING), NEW t \in Seq(STRING), NEW a \in Nat, NEW b \in Int,
         NEW c \in Nat, NEW d \in Int, Matches(s, a, b, t, c, d)
  PROVE  SameCut(s, a, b, t, c, d)
<1> USE DEF Matches
<1> DEFINE S == SubSeq(s, a, b)
           T == SubSeq(t, c, d)
<1>1. S \in Seq(STRING) /\ Len(S) = (IF a <= b THEN b - a + 1 ELSE 0)
      /\ \A i \in 1..(b - a + 1) : S[i] = s[a + i - 1]
  BY Cut
<1>2. T \in Seq(STRING) /\ Len(T) = (IF c <= d THEN d - c + 1 ELSE 0)
      /\ \A i \in 1..(d - c + 1) : T[i] = t[c + i - 1]
  BY Cut
<1> HIDE DEF S, T
<1>3. Len(S) = Len(T)
  BY <1>1, <1>2
<1>4. ASSUME NEW i \in 1..Len(S) PROVE S[i] = T[i]
  <2>1. i \in 1..(b - a + 1) /\ i \in 1..(d - c + 1) /\ i \in Nat
    BY <1>1
  <2>2. a + i - 1 \in a..b /\ (a + i - 1) + c - a = c + i - 1
    BY <2>1
  <2> QED BY <1>1, <1>2, <2>1, <2>2
<1>5. S = T
  BY <1>1, <1>2, <1>3, <1>4, SeqEqual
<1> QED BY <1>5 DEF S, T, SameCut

LEMMA FeedsFinite ==
  ASSUME NEW text \in Seq(STRING)
  PROVE  /\ LineFeeds(text) \subseteq 1..Len(text) /\ IsFiniteSet(LineFeeds(text))
         /\ \A i \in LineFeeds(text) : i \in Nat /\ 1 <= i /\ i <= Len(text)
         /\ Cardinality(LineFeeds(text)) \in Nat
<1>1. LineFeeds(text) \subseteq 1..Len(text) /\ Len(text) \in Nat
  BY DEF LineFeeds
<1>2. /\ IsFiniteSet(LineFeeds(text))
      /\ \A i \in LineFeeds(text) : i \in Nat /\ 1 <= i /\ i <= Len(text)
  BY <1>1, PositionsFinite
<1> QED BY <1>1, <1>2, FS_CardinalityType

\* Where a line ends, and how many have ended there.
LEMMA EndIs ==
  ASSUME NEW text \in Seq(STRING), NEW i \in 0..Cardinality(LineFeeds(text))
  PROVE  /\ End(text, i) \in 0..Len(text)
         /\ Cardinality(UpTo(LineFeeds(text), End(text, i))) = i
         /\ i # 0 => End(text, i) \in LineFeeds(text)
<1> DEFINE F == LineFeeds(text)
<1>1. /\ F \subseteq 1..Len(text) /\ IsFiniteSet(F)
      /\ \A k \in F : k \in Nat /\ 1 <= k /\ k <= Len(text)
      /\ Cardinality(F) \in Nat
  BY FeedsFinite
<1>2. CASE i = 0
  <2>1. \A k \in F : ~(k <= 0)
    BY <1>1
  <2>2. UpTo(F, 0) = {}
    BY <2>1 DEF UpTo
  <2>3. Cardinality(UpTo(F, 0)) = 0
    BY <2>2, FS_EmptySet
  <2> QED BY <1>2, <2>3 DEF End
<1>3. CASE i # 0
  <2>1. i \in 1..Cardinality(F) /\ Len(text) \in Nat
    BY <1>1, <1>3
  <2>2. Nth(F, i) \in F /\ Cardinality(UpTo(F, Nth(F, i))) = i
    <3> HIDE DEF F
    <3> QED BY <1>1, <2>1, NthExists
  <2>3. End(text, i) = Nth(F, i)
    BY <1>3 DEF End
  <2> QED BY <1>1, <2>2, <2>3
<1> QED BY <1>2, <1>3

\* What is left of a text grows by what the text grows by.
LEMMA TailOfLonger ==
  ASSUME NEW text \in Seq(STRING), NEW chunk \in Seq(STRING), NEW E \in 0..Len(text)
  PROVE  SubSeq(text \o chunk, E + 1, Len(text \o chunk)) = SubSeq(text, E + 1, Len(text)) \o chunk
<1> DEFINE whole == text \o chunk
           R == SubSeq(text, E + 1, Len(text))
           W == SubSeq(whole, E + 1, Len(whole))
<1>Z. Len(text) \in Nat /\ Len(chunk) \in Nat /\ E \in Nat /\ E <= Len(text)
  OBVIOUS
<1>Y. /\ whole \in Seq(STRING) /\ Len(whole) = Len(text) + Len(chunk)
      /\ \A i \in 1..Len(text) + Len(chunk) :
           whole[i] = IF i <= Len(text) THEN text[i] ELSE chunk[i - Len(text)]
  BY ConcatProperties
<1> HIDE DEF whole
<1>X. \A i \in 1..Len(text) : i \in 1..Len(whole) /\ whole[i] = text[i]
  BY <1>Z, <1>Y
<1>3. R \in Seq(STRING) /\ Len(R) = (IF E + 1 <= Len(text) THEN Len(text) - (E + 1) + 1 ELSE 0)
      /\ \A i \in 1..(Len(text) - (E + 1) + 1) : R[i] = text[(E + 1) + i - 1]
  BY <1>Z, Cut
<1>4. W \in Seq(STRING) /\ Len(W) = (IF E + 1 <= Len(whole) THEN Len(whole) - (E + 1) + 1 ELSE 0)
      /\ \A i \in 1..(Len(whole) - (E + 1) + 1) : W[i] = whole[(E + 1) + i - 1]
  BY <1>Z, <1>Y, Cut
<1> HIDE DEF R, W
<1>5. /\ R \o chunk \in Seq(STRING) /\ Len(R \o chunk) = Len(R) + Len(chunk)
      /\ \A i \in 1..Len(R) + Len(chunk) :
           (R \o chunk)[i] = IF i <= Len(R) THEN R[i] ELSE chunk[i - Len(R)]
  BY <1>3, ConcatProperties
<1>6. Len(R) = Len(text) - E /\ Len(W) = Len(text) - E + Len(chunk)
  BY <1>Z, <1>Y, <1>3, <1>4
<1>7. ASSUME NEW i \in 1..Len(W) PROVE (R \o chunk)[i] = W[i]
  <2>1. i \in 1..(Len(whole) - (E + 1) + 1) /\ W[i] = whole[E + i]
    BY <1>Z, <1>Y, <1>4, <1>6
  <2>2. CASE i <= Len(R)
    <3>1. i \in 1..(Len(text) - (E + 1) + 1) /\ E + i \in 1..Len(text)
      BY <1>Z, <1>6, <2>2
    <3>2. R[i] = text[E + i] /\ (R \o chunk)[i] = R[i]
      BY <1>Z, <1>3, <1>5, <1>6, <2>2, <3>1
    <3> QED BY <1>X, <2>1, <3>1, <3>2
  <2>3. CASE ~(i <= Len(R))
    <3>1. /\ E + i \in 1..Len(text) + Len(chunk) /\ ~(E + i <= Len(text))
          /\ E + i - Len(text) = i - Len(R)
      BY <1>Z, <1>6, <2>3
    <3>2. i \in 1..Len(R) + Len(chunk)
      BY <1>Z, <1>6
    <3>3. (R \o chunk)[i] = chunk[i - Len(R)]
      BY <1>5, <2>3, <3>2
    <3> DEFINE k == E + i
               j == i - Len(R)
    <3>4. k \in 1..Len(text) + Len(chunk) /\ ~(k <= Len(text)) /\ k - Len(text) = j
          /\ W[i] = whole[k] /\ (R \o chunk)[i] = chunk[j]
      <4>1. W[i] = whole[k]
        BY <2>1
      <4>2. (R \o chunk)[i] = chunk[j]
        BY <3>3
      <4>3. k \in 1..Len(text) + Len(chunk) /\ ~(k <= Len(text)) /\ k - Len(text) = j
        BY <1>Z, <1>6, <3>1
      <4> QED BY <4>1, <4>2, <4>3
    <3> HIDE DEF k, j
    <3>5. whole[k] = chunk[k - Len(text)]
      BY <1>Y, <3>4
    <3>6. chunk[k - Len(text)] = chunk[j]
      BY <3>4
    <3> QED BY <3>4, <3>5, <3>6
  <2> QED BY <2>2, <2>3
<1>8. R \o chunk = W
  <2>1. Len(R \o chunk) = Len(W) /\ W \in Seq(STRING) /\ R \o chunk \in Seq(STRING)
    <3>1. Len(R \o chunk) = Len(text) - E + Len(chunk)
      BY <1>5, <1>6
    <3> QED BY <1>4, <1>5, <1>6, <3>1
  <2> DEFINE V == R \o chunk
  <2>2. V \in Seq(STRING) /\ Len(V) = Len(W) /\ \A i \in 1..Len(V) : V[i] = W[i]
    BY <1>7, <2>1
  <2> HIDE DEF V
  <2>3. V = W
    BY <2>1, <2>2, SeqEqual
  <2> QED BY <2>3 DEF V
<1> QED BY <1>8 DEF R, W, whole

\* More bytes at the end leave the lines that are there alone.
LEMMA Longer ==
  ASSUME NEW text \in Seq(STRING), NEW chunk \in Seq(STRING), NEW lists, NEW rest,
         Len(lists) \in Nat, InOrder(text, lists, rest)
  PROVE  InOrder(text \o chunk, lists, rest \o chunk)
<1> DEFINE whole == text \o chunk
           F == LineFeeds(text)
           G == LineFeeds(whole)
           L == Len(lists)
<1>1. /\ whole \in Seq(STRING) /\ Len(whole) = Len(text) + Len(chunk)
      /\ \A i \in 1..Len(text) + Len(chunk) :
           whole[i] = IF i <= Len(text) THEN text[i] ELSE chunk[i - Len(text)]
  BY ConcatProperties
<1>0. Len(text) \in Nat /\ Len(chunk) \in Nat
  OBVIOUS
<1> HIDE DEF whole
<1>2. \A i \in 1..Len(text) : i \in 1..Len(whole) /\ whole[i] = text[i]
  BY <1>0, <1>1
<1>3. F \subseteq 1..Len(text) /\ IsFiniteSet(F) /\ Cardinality(F) \in Nat
      /\ \A i \in F : i \in Nat /\ 1 <= i /\ i <= Len(text)
  BY FeedsFinite
<1>4. G \subseteq 1..Len(whole) /\ IsFiniteSet(G) /\ Cardinality(G) \in Nat
      /\ \A i \in G : i \in Nat /\ 1 <= i /\ i <= Len(whole)
  BY <1>1, FeedsFinite
<1>5. \A i \in 1..Len(text) : i \in F <=> i \in G
  BY <1>2 DEF LineFeeds
<1>6. F \in SUBSET G
  BY <1>3, <1>5
<1>7. Cardinality(F) <= Cardinality(G)
  <2> HIDE DEF F, G
  <2> QED BY <1>4, <1>6, FS_Subset
<1>8. L <= Cardinality(F)
  BY DEF InOrder
<1>9. ASSUME NEW i \in 0..L PROVE End(whole, i) = End(text, i) /\ End(text, i) \in 0..Len(text)
  <2>1. i \in 0..Cardinality(F)
    BY <1>3, <1>8
  <2>2. /\ End(text, i) \in 0..Len(text)
        /\ Cardinality(UpTo(LineFeeds(text), End(text, i))) = i
        /\ i # 0 => End(text, i) \in LineFeeds(text)
    BY <2>1, EndIs
  <2>3. CASE i = 0
    BY <2>2, <2>3 DEF End
  <2>4. CASE i # 0
    <3> DEFINE x == End(text, i)
    <3>1. x \in G /\ x \in Nat /\ x <= Len(text) /\ Cardinality(UpTo(F, x)) = i
      BY <1>0, <1>6, <2>2, <2>4
    <3> HIDE DEF x
    <3>2. \A k \in G : k <= x => k \in F
      BY <1>0, <1>4, <1>5, <3>1
    <3>3. UpTo(F, x) = UpTo(G, x)
      BY <1>6, <3>2 DEF UpTo
    <3>4. i = Cardinality(UpTo(G, x))
      BY <3>1, <3>3
    <3>5. Nth(G, i) = x
      <4> HIDE DEF G
      <4> QED BY <1>4, <3>1, <3>4, NthIs
    <3>6. End(whole, i) = Nth(G, i)
      BY <2>4 DEF End
    <3> QED BY <2>2, <3>5, <3>6 DEF x
  <2> QED BY <2>3, <2>4
<1>10. ASSUME NEW i \in 1..L PROVE Line(whole, i) = Line(text, i)
  <2> DEFINE a == End(text, i - 1) + 1
             b == End(text, i) - 1
  <2>1. End(whole, i) = End(text, i) /\ End(text, i) \in 0..Len(text)
    BY <1>9
  <2>2. i - 1 \in 0..L
    OBVIOUS
  <2>3. End(whole, i - 1) = End(text, i - 1) /\ End(text, i - 1) \in 0..Len(text)
    BY <1>9, <2>2
  <2>4. a \in Nat /\ b \in Int /\ 1 <= a /\ b <= Len(text) /\ b <= Len(whole)
    BY <1>0, <1>1, <2>1, <2>3
  <2>5. Line(text, i) = SubSeq(text, a, b) /\ Line(whole, i) = SubSeq(whole, a, b)
    BY <2>1, <2>3 DEF Line
  <2> HIDE DEF a, b
  <2>6. \A k \in a..b : text[k] = whole[k + a - a]
    <3>1. \A k \in a..b : k + a - a = k /\ k \in 1..Len(text)
      BY <1>0, <2>4
    <3> QED BY <1>2, <3>1
  <2>7. SubSeq(text, a, b) = SubSeq(whole, a, b)
    <3>1. Matches(text, a, b, whole, a, b)
      BY <1>0, <1>1, <2>4, <2>6 DEF Matches
    <3>2. SameCut(text, a, b, whole, a, b)
      BY <1>1, <2>4, <3>1, Alike
    <3> QED BY <3>2 DEF SameCut
  <2> QED BY <2>5, <2>7
<1>11. rest \o chunk = SubSeq(whole, End(whole, L) + 1, Len(whole))
  <2> DEFINE E == End(text, L)
  <2>1. End(whole, L) = E /\ E \in 0..Len(text)
    <3>1. L \in 0..L
      OBVIOUS
    <3> HIDE DEF L
    <3> QED BY <1>9, <3>1
  <2>2. rest = SubSeq(text, E + 1, Len(text))
    BY DEF InOrder
  <2> HIDE DEF E
  <2>3. SubSeq(text \o chunk, E + 1, Len(text \o chunk)) = SubSeq(text, E + 1, Len(text)) \o chunk
    BY <2>1, TailOfLonger
  <2> QED BY <2>1, <2>2, <2>3 DEF whole
<1>12. L <= Cardinality(G)
  BY <1>3, <1>4, <1>7, <1>8
<1>13. \A i \in 1..L : lists[i] = Fields(Line(whole, i))
  BY <1>10 DEF InOrder
<1> QED BY <1>11, <1>12, <1>13 DEF InOrder, whole

Beyond(E, m, e) == e - E = m
\* s is what is left of t behind the first E characters.
TailOf(s, t, E) == Len(s) = Len(t) - E /\ \A i \in 1..Len(s) : s[i] = t[E + i]

LEMMA AlikeToTheEnd ==
  ASSUME NEW s \in Seq(STRING), NEW t \in Seq(STRING), NEW E \in Nat, NEW m \in Nat,
         NEW e \in Nat, Beyond(E, m, e), TailOf(s, t, E)
  PROVE  SubSeq(s, m + 1, Len(s)) = SubSeq(t, e + 1, Len(t))
<1> DEFINE a == m + 1
           b == Len(s)
           c == e + 1
           d == Len(t)
<1>0. b \in Nat /\ d \in Nat /\ e - E = m /\ Len(s) = Len(t) - E /\ \A i \in 1..Len(s) : s[i] = t[E + i]
  BY DEF TailOf, Beyond
<1>1. /\ a \in Nat /\ b \in Int /\ c \in Nat /\ d \in Int /\ 1 <= a /\ b <= Len(s)
      /\ 1 <= c /\ d <= Len(t) /\ d - c = b - a
  BY <1>0
<1>2. ASSUME NEW i \in a..b PROVE s[i] = t[i + c - a]
  <2>1. i \in Nat /\ m + 1 <= i /\ i <= Len(s)
    BY <1>0
  <2>2. i \in 1..Len(s) /\ E + i = i + c - a
    BY <2>1, <1>0
  <2> QED BY <1>0, <2>2
<1> HIDE DEF a, b, c, d
<1>3. Matches(s, a, b, t, c, d)
  BY <1>1, <1>2 DEF Matches
<1>4. a \in Nat /\ b \in Int /\ c \in Nat /\ d \in Int
  BY <1>1
<1>5. SameCut(s, a, b, t, c, d)
  BY <1>3, <1>4, Alike
<1> QED BY <1>5 DEF a, b, c, d, SameCut

\* The first line of a text ends at m and consists of the words of list.
FirstLine(text, m, list) == m = Min(LineFeeds(text)) /\ list = Fields(SubSeq(text, 1, m - 1))

\* The next line, when the rest holds one: what stands before its line feed is
\* made a list of, and what stands behind it is left.
LEMMA NextLine ==
  ASSUME NEW text \in Seq(STRING), NEW S, NEW lists \in Seq(S), NEW rest \in Seq(STRING),
         InOrder(text, lists, rest), LineFeeds(rest) # {}, NEW m, NEW list \in S,
         FirstLine(rest, m, list)
  PROVE  InOrder(text, Append(lists, list), SubSeq(rest, m + 1, Len(rest)))
<1> DEFINE F == LineFeeds(text)
           L == Len(lists)
           E == End(text, L)
           e == E + m
           more == Append(lists, list)
<1>0. L \in Nat /\ Len(text) \in Nat /\ Len(rest) \in Nat
  OBVIOUS
<1>1. F \subseteq 1..Len(text) /\ IsFiniteSet(F) /\ Cardinality(F) \in Nat
      /\ \A i \in F : i \in Nat /\ 1 <= i /\ i <= Len(text)
  BY FeedsFinite
<1>2. L <= Cardinality(F) /\ rest = SubSeq(text, E + 1, Len(text))
      /\ \A i \in 1..L : lists[i] = Fields(Line(text, i))
  BY DEF InOrder
<1>3. /\ E \in 0..Len(text) /\ Cardinality(UpTo(F, E)) = L
  <2>1. L \in 0..Cardinality(LineFeeds(text))
    BY <1>0, <1>1, <1>2
  <2> QED BY <2>1, EndIs
<1>4. /\ m \in LineFeeds(rest) /\ m \in 1..Len(rest)
      /\ \A i \in LineFeeds(rest) : m <= i
  BY FirstLineFeed DEF FirstLine
<1>M. /\ Len(more) = L + 1 /\ (\A i \in 1..L : more[i] = lists[i]) /\ more[L + 1] = list
  BY AppendProperties
<1> HIDE DEF more, L, E, F
<1>5. Len(rest) = Len(text) - E /\ \A i \in 1..Len(rest) : rest[i] = text[E + i]
  <2>1. Len(rest) = (IF E + 1 <= Len(text) THEN Len(text) - (E + 1) + 1 ELSE 0)
        /\ \A i \in 1..(Len(text) - (E + 1) + 1) : rest[i] = text[(E + 1) + i - 1]
    BY <1>0, <1>2, <1>3, Cut
  <2>2. Len(rest) = Len(text) - E
    BY <1>0, <1>3, <2>1
  <2>3. \A i \in 1..Len(rest) : i \in 1..(Len(text) - (E + 1) + 1) /\ (E + 1) + i - 1 = E + i
    BY <1>0, <1>3, <2>2
  <2> QED BY <2>1, <2>2, <2>3
<1>6. e \in Nat /\ e \in 1..Len(text) /\ e <= Len(text) /\ E < e /\ e - E = m
  BY <1>0, <1>3, <1>4, <1>5
<1>7. e \in F
  <2>1. rest[m] = "LF"
    BY <1>4 DEF LineFeeds
  <2>2. text[e] = "LF"
    BY <1>4, <1>5, <2>1
  <2> QED BY <1>6, <2>2 DEF LineFeeds, F
<1>8. \A i \in F : i <= e <=> i <= E \/ i = e
  <2> SUFFICES ASSUME NEW i \in F, i <= e, ~(i <= E), i # e PROVE FALSE
    BY <1>3, <1>6, <1>1
  <2>1. i \in Nat /\ text[i] = "LF" /\ i <= Len(text)
    BY <1>1 DEF F, LineFeeds
  <2>2. i - E \in 1..Len(rest) /\ E + (i - E) = i
    BY <1>0, <1>3, <1>5, <2>1
  <2>3. rest[i - E] = "LF"
    BY <1>5, <2>1, <2>2
  <2>4. m <= i - E
    BY <1>4, <2>2, <2>3 DEF LineFeeds
  <2> QED BY <1>3, <1>4, <1>6, <2>1, <2>4
<1>9. Cardinality(UpTo(F, e)) = L + 1
  <2> DEFINE V == UpTo(F, E)
  <2>1. UpTo(F, e) = V \cup {e}
    BY <1>7, <1>8 DEF UpTo
  <2>2. ~(e <= E)
    BY <1>3, <1>6
  <2>3. e \notin V
    BY <2>2 DEF UpTo
  <2>4. IsFiniteSet(V)
    BY <1>1, UpToFinite
  <2>5. Cardinality(V) = L
    BY <1>3
  <2> HIDE DEF V, e
  <2>6. Cardinality(V \cup {e}) = Cardinality(V) + 1
    BY <2>3, <2>4, FS_AddElement
  <2> QED BY <2>1, <2>5, <2>6
<1>10. L + 1 <= Cardinality(F)
  <2> DEFINE V == UpTo(F, e)
  <2>1. V \in SUBSET F
    BY DEF UpTo
  <2>2. Cardinality(V) = L + 1
    BY <1>9
  <2> HIDE DEF V
  <2>3. Cardinality(V) <= Cardinality(F)
    BY <1>1, <2>1, FS_Subset
  <2> QED BY <2>2, <2>3
<1>11. End(text, L + 1) = e
  <2>1. Nth(F, L + 1) = e
    <3> HIDE DEF e
    <3> QED BY <1>1, <1>7, <1>9, NthIs
  <2>2. L + 1 # 0
    BY <1>0 DEF L
  <2> QED BY <2>1, <2>2 DEF End, F
<1>12. Line(text, L + 1) = SubSeq(rest, 1, m - 1)
  <2>1. L + 1 - 1 = L
    BY <1>0 DEF L
  <2>2. Line(text, L + 1) = SubSeq(text, E + 1, e - 1)
    <3> DEFINE n == L + 1
    <3>1. Line(text, n) = SubSeq(text, End(text, n - 1) + 1, End(text, n) - 1)
      BY DEF Line
    <3>2. n - 1 = L
      BY <1>0 DEF L
    <3>5. End(text, n) = e
      BY <1>11
    <3> HIDE DEF n, e
    <3>4. End(text, n - 1) = E
      BY <3>2 DEF E
    <3>3. Line(text, n) = SubSeq(text, E + 1, e - 1)
      BY <3>1, <3>4, <3>5
    <3> QED BY <3>3 DEF n
  <2> HIDE DEF e
  <2>3. E + 1 \in Nat /\ e - 1 \in Int /\ 1 <= E + 1 /\ e - 1 <= Len(text)
        /\ m - 1 \in Int /\ m - 1 <= Len(rest) /\ (m - 1) - 1 = (e - 1) - (E + 1)
    <3>1. E \in Nat /\ e \in Nat /\ m \in Nat
      BY <1>0, <1>3, <1>4, <1>6
    <3>2. e <= Len(text) /\ m <= Len(rest) /\ e - E = m
      BY <1>0, <1>4, <1>6
    <3> QED BY <1>0, <3>1, <3>2
  <2>4. \A i \in (E + 1)..(e - 1) : text[i] = rest[i + 1 - (E + 1)]
    <3>1. \A i \in (E + 1)..(e - 1) : i + 1 - (E + 1) \in 1..Len(rest) /\ E + (i + 1 - (E + 1)) = i
      BY <1>0, <1>3, <1>5, <1>6
    <3> QED BY <1>5, <3>1
  <2>5. SubSeq(text, E + 1, e - 1) = SubSeq(rest, 1, m - 1)
    <3> DEFINE a == E + 1
               b == e - 1
               c == 1
               d == m - 1
    <3>1. /\ a \in Nat /\ b \in Int /\ c \in Nat /\ d \in Int /\ 1 <= a /\ b <= Len(text)
          /\ 1 <= c /\ d <= Len(rest) /\ d - c = b - a
          /\ \A i \in a..b : text[i] = rest[i + c - a]
      BY <2>3, <2>4
    <3> HIDE DEF a, b, c, d
    <3>2. Matches(text, a, b, rest, c, d)
      BY <3>1 DEF Matches
    <3>3. SameCut(text, a, b, rest, c, d)
      BY <3>1, <3>2, Alike
    <3> QED BY <3>3 DEF a, b, c, d, SameCut
  <2> QED BY <2>2, <2>5
<1>13. SubSeq(rest, m + 1, Len(rest)) = SubSeq(text, e + 1, Len(text))
  <2>1. E \in Nat /\ m \in Nat
    BY <1>0, <1>3, <1>4
  <2>2. e \in Nat /\ Beyond(E, m, e)
    BY <1>6 DEF Beyond
  <2>3. TailOf(rest, text, E)
    BY <1>5 DEF TailOf
  <2> HIDE DEF e
  <2> QED BY <2>1, <2>2, <2>3, AlikeToTheEnd
<1>14. \A i \in 1..(L + 1) : more[i] = Fields(Line(text, i))
  <2> SUFFICES ASSUME NEW i \in 1..(L + 1) PROVE more[i] = Fields(Line(text, i))
    OBVIOUS
  <2>1. CASE i = L + 1
    BY <1>12, <1>M, <2>1 DEF FirstLine
  <2>2. CASE i # L + 1
    <3>1. i \in 1..L
      BY <1>0, <2>2 DEF L
    <3> QED BY <1>2, <1>M, <3>1
  <2> QED BY <2>1, <2>2
<1>15. InOrder(text, more, SubSeq(rest, m + 1, Len(rest)))
  BY <1>M, <1>10, <1>11, <1>13, <1>14 DEF InOrder, F
<1> QED BY <1>15 DEF more

-----------------------------------------------------------------------------
(***************************************************************************)
(* Inline requests.                                                        *)
(***************************************************************************)
Lists == {Fields(t) : t \in Seq(STRING)}

LinesInv ==
  /\ Types /\ parsed \in Seq(Lists)
  /\ straight /\ control # "panicked" => InOrder(fed, parsed, Unread)

LEMMA InOrderMeans == LinesInOrder <=> (control # "panicked" => InOrder(fed, parsed, Unread))
BY DEF LinesInOrder, InOrder, EndOfLine, LineOf, End, Line

\* Steps that take no line and bring no bytes.
LEMMA QuietInput ==
  ASSUME LinesInv, Types', UNCHANGED <<fed, parsed, straight>>, Unread' = Unread,
         control # "panicked"
  PROVE  LinesInv'
BY DEF LinesInv

\* Of a buffer that is read from its beginning everything is unread.
LEMMA AllUnread ==
  ASSUME queryBuf \in Seq(STRING), queryPos = 0
  PROVE  Unread = queryBuf
BY SubSeqFull DEF Unread

\* processInlineBuffer: what it makes a list of is the next line, and what it
\* moves the position behind is that line with its one or two end characters.
LEMMA LineTaken ==
  ASSUME LinesInv, Types', ProcessInlineBuffer
  PROVE  LinesInv'
<1>0. /\ queryBuf \in Seq(STRING) /\ fed \in Seq(STRING) /\ queryPos \in 0..Len(queryBuf)
      /\ parsed \in Seq(Lists) /\ Len(queryBuf) \in Nat
  BY DEF LinesInv, Types, TypeOK
<1>1. CASE LineFeeds(Unread) = {}
  <2>1. control' = "panicked" /\ parsed' = parsed
    BY <1>1 DEF ProcessInlineBuffer, request
  <2> QED BY <1>0, <2>1 DEF LinesInv
<1>2. CASE LineFeeds(Unread) # {}
  <2> DEFINE m    == Min(LineFeeds(Unread))
             end  == m - 1 + 1 - LinefeedChars(m - 1)
             args == Fields(SubSeq(queryBuf, queryPos + 1, end))
  <2>0. Unread \in Seq(STRING) /\ Len(Unread) = Len(queryBuf) - queryPos
    BY <1>0 DEF Unread
  <2>1. m \in 1..Len(Unread)
    BY <2>0, <1>2, FirstLineFeed
  <2>2. /\ LinefeedChars(m - 1) \in {1, 2}
        /\ LinefeedChars(m - 1) = 2 <=> (m - 1 # 0 /\ queryBuf[m - 1] = "CR")
    BY DEF LinefeedChars
  <2>3. CASE InlinePanics(end)
    <3>1. control' = "panicked" /\ parsed' = parsed
      BY <1>2, <2>3 DEF ProcessInlineBuffer, Panic, request
    <3> QED BY <1>0, <3>1 DEF LinesInv
  <2>4. CASE ~InlinePanics(end)
    <3>1. /\ queryPos' = end + LinefeedChars(m - 1) /\ queryBuf' = queryBuf /\ fed' = fed
          /\ parsed' = Append(parsed, args) /\ straight' = (straight /\ queryPos = 0)
          /\ control' = control
      BY <1>2, <2>4 DEF ProcessInlineBuffer
    <3>2. queryPos' = m /\ end \in Int /\ end <= m - 1 /\ m \in Nat /\ 1 <= m
      <4> HIDE DEF m
      <4> QED BY <2>0, <2>1, <2>2, <3>1
    <3>3. m <= Len(queryBuf)
      BY <1>0, <2>0, <2>1
    <3>4. args \in Lists
      <4> DEFINE e == end
      <4>1. e \in Int /\ e <= Len(queryBuf)
        BY <1>0, <3>2, <3>3
      <4> HIDE DEF e
      <4>2. SubSeq(queryBuf, queryPos + 1, e) \in Seq(STRING)
        BY <1>0, <4>1, Cut
      <4> QED BY <4>2 DEF Lists, e
    <3>5. parsed' \in Seq(Lists)
      <4> HIDE DEF args
      <4> QED BY <1>0, <3>1, <3>4, AppendProperties
    <3>6. ASSUME straight', control' # "panicked" PROVE InOrder(fed', parsed', Unread')
      <4>1. queryPos = 0 /\ InOrder(fed, parsed, Unread)
        BY <3>1, <3>6 DEF LinesInv
      <4>2. Unread = queryBuf
        BY <1>0, <4>1, AllUnread
      <4>3. args = Fields(SubSeq(Unread, 1, m - 1))
        <5> DEFINE t == SubSeq(queryBuf, 1, m - 1)
                   u == SubSeq(queryBuf, 1, end)
        <5>1. args = Fields(u)
          BY <4>1
        <5>2. CASE LinefeedChars(m - 1) = 1
          <6>1. end = m - 1
            BY <3>2, <5>2
          <6> QED BY <4>2, <5>1, <6>1
        <5>3. CASE LinefeedChars(m - 1) = 2
          <6> DEFINE h == m - 1
                     g == end
          <6>1. h \in Nat /\ g \in Nat /\ 1 <= h /\ h <= Len(queryBuf) /\ g = h - 1
                /\ queryBuf[h] = "CR"
            BY <2>2, <3>2, <3>3, <5>3
          <6>2. t = SubSeq(queryBuf, 1, h) /\ u = SubSeq(queryBuf, 1, g)
            OBVIOUS
          <6> HIDE DEF h, g, t, u, m, args
          <6>3. t \in Seq(STRING) /\ Len(t) = (IF 1 <= h THEN h - 1 + 1 ELSE 0)
                /\ \A i \in 1..(h - 1 + 1) : t[i] = queryBuf[1 + i - 1]
            BY <1>0, <6>1, <6>2, Cut
          <6>4. u \in Seq(STRING) /\ Len(u) = (IF 1 <= g THEN g - 1 + 1 ELSE 0)
                /\ \A i \in 1..(g - 1 + 1) : u[i] = queryBuf[1 + i - 1]
            BY <1>0, <6>1, <6>2, Cut
          <6>5. Len(t) = h /\ Len(u) = g /\ Len(t) = Len(u) + 1
            BY <6>1, <6>3, <6>4
          <6>6. (\A i \in 1..h : t[i] = queryBuf[i]) /\ (\A i \in 1..g : u[i] = queryBuf[i])
            BY <6>1, <6>3, <6>4
          <6>7. \A i \in 1..Len(u) : u[i] = t[i]
            BY <6>1, <6>5, <6>6
          <6>8. t[Len(t)] \in Space
            BY <6>1, <6>5, <6>6 DEF Space
          <6>9. Fields(u) = Fields(t)
            BY <6>3, <6>4, <6>5, <6>7, <6>8, LastWordEnds
          <6> QED BY <4>2, <5>1, <6>9 DEF t
        <5> QED BY <2>2, <5>2, <5>3
      <4>4. Unread' = SubSeq(Unread, m + 1, Len(Unread))
        BY <3>1, <3>2, <4>2 DEF Unread
      <4> DEFINE n == m
                 list == args
      <4>5. list \in Lists /\ FirstLine(Unread, n, list)
        BY <3>4, <4>3 DEF FirstLine
      <4> HIDE DEF n, list
      <4>6. InOrder(fed, Append(parsed, list), SubSeq(Unread, n + 1, Len(Unread)))
        BY <1>0, <1>2, <2>0, <4>1, <4>5, NextLine
      <4> QED BY <3>1, <4>4, <4>6 DEF n, list
    <3> QED BY <3>5, <3>6 DEF LinesInv
  <2> QED BY <2>3, <2>4
<1> QED BY <1>1, <1>2

\* However the bytes are cut into reads, the lines taken from position 0 are
\* the lines sent, in order, and the bytes behind them are those left: the step
\* that takes a line (client.go:421), the one that trims (client.go:412) and
\* the reads are the ones that move anything.
THEOREM InlineLinesInOrderHolds == Spec => []InlineLinesInOrder
<1>1. Init => LinesInv
  <2> SUFFICES ASSUME Init PROVE LinesInv
    OBVIOUS
  <2>1. Types
    <3>1. flags \subseteq AllFlags
      BY Taken DEF Init
    <3> QED BY <3>1 DEF Init, Types, TypeOK
  <2>2. parsed = <<>> /\ fed = <<>> /\ queryBuf = <<>> /\ queryPos = 0
    BY DEF Init
  <2>3. <<>> \in Seq(STRING) /\ Len(<<>>) = 0 /\ SubSeq(<<>>, 0 + 1, 0) = <<>>
    BY EmptySeq, SubSeqEmpty
  <2>4. Unread = <<>>
    BY <2>2, <2>3 DEF Unread
  <2>5. Cardinality(LineFeeds(fed)) \in Nat
    BY <2>2, <2>3, FeedsFinite
  <2>6. End(fed, 0) = 0
    BY DEF End
  <2>7. InOrder(fed, parsed, Unread)
    BY <2>2, <2>3, <2>4, <2>5, <2>6 DEF InOrder
  <2> QED BY <2>1, <2>2, <2>7 DEF LinesInv
<1>2. LinesInv /\ Types' /\ [Next]_vars => LinesInv'
  <2> SUFFICES ASSUME LinesInv, Types', [Next]_vars PROVE LinesInv'
    OBVIOUS
  <2>0. /\ around \in Surroundings /\ queryBuf \in Seq(STRING) /\ fed \in Seq(STRING)
        /\ queryPos \in 0..Len(queryBuf) /\ parsed \in Seq(Lists)
        /\ Len(queryBuf) \in Nat /\ Types
    BY DEF LinesInv, Types, TypeOK
  <2>U. Unread \in Seq(STRING) /\ Len(Unread) = Len(queryBuf) - queryPos
    BY <2>0 DEF Unread
  <2>3. CASE ResetClient
    BY <2>3, QuietInput DEF ResetClient, buffer, request, Unread
  <2>4. CASE ProcessCommand
    BY <2>4, QuietInput DEF ProcessCommand, buffer, request, Unread
  <2>5. CASE ProcessInputBuffer
    BY <2>5, QuietInput DEF ProcessInputBuffer, buffer, request, Unread
  <2>7. CASE InputStep
    BY <2>7, QuietInput DEF InputStep, buffer, request, Unread
  <2>8. CASE InputReturn
    <3>1. UNCHANGED <<fed, parsed, straight>> /\ control # "panicked"
      BY <2>8 DEF InputReturn, request
    <3>2. CASE "Master" \in flags
      BY <2>8, <3>1, <3>2, QuietInput DEF InputReturn, Trimmed, Unread
    <3>3. CASE "Master" \notin flags
      <4>1. queryBuf' = Unread /\ queryPos' = 0
        BY <2>8, <3>3 DEF InputReturn, Trimmed, Unread
      <4>2. Unread' = SubSeq(Unread, 0 + 1, Len(Unread))
        BY <4>1 DEF Unread
      <4>3. SubSeq(Unread, 1, Len(Unread)) = Unread
        BY <2>U, SubSeqFull
      <4>4. Unread' = Unread
        BY <4>2, <4>3
      <4> QED BY <3>1, <4>4, QuietInput
    <3> QED BY <3>2, <3>3
  <2>9. ASSUME NEW chunk \in around.chunks, Read(chunk) PROVE LinesInv'
    <3>1. chunk \in Seq(STRING)
      BY <2>0, Taken
    <3>2. /\ fed' = fed \o chunk /\ queryBuf' = queryBuf \o chunk /\ queryPos' = queryPos
          /\ parsed' = parsed /\ straight' = straight /\ control' = control
      BY <2>9 DEF Read, request
    <3>3. Unread' = Unread \o chunk
      <4>1. Unread' = SubSeq(queryBuf \o chunk, queryPos + 1, Len(queryBuf \o chunk))
        BY <3>2 DEF Unread
      <4>2. SubSeq(queryBuf \o chunk, queryPos + 1, Len(queryBuf \o chunk)) = Unread \o chunk
        BY <2>0, <3>1, TailOfLonger DEF Unread
      <4> QED BY <4>1, <4>2
    <3>4. ASSUME InOrder(fed, parsed, Unread) PROVE InOrder(fed', parsed', Unread')
      <4>1. Len(parsed) \in Nat
        BY <2>0
      <4>2. InOrder(fed \o chunk, parsed, Unread \o chunk)
        BY <2>0, <3>1, <3>4, <4>1, Longer
      <4> QED BY <3>2, <3>3, <4>2
    <3> QED BY <2>0, <3>2, <3>4 DEF LinesInv
  <2>10. ASSUME NEW words \in around.requests, SetArguments(words) PROVE LinesInv'
    BY <2>10, QuietInput DEF SetArguments, buffer, Unread
  <2>11. ASSUME NEW f \in around.settable, SetFlag(f) \/ ClearFlag(f) PROVE LinesInv'
    BY <2>11, QuietInput DEF SetFlag, ClearFlag, buffer, request, Unread
  <2>12. CASE AddReply
    BY <2>12, QuietInput DEF AddReply, buffer, request, Unread
  <2>13. CASE UNCHANGED vars
    <3>1. UNCHANGED <<fed, parsed, straight, queryBuf, queryPos, control>>
      BY <2>13 DEF vars, buffer, request
    <3> QED BY <2>0, <3>1 DEF LinesInv, Unread
  <2>14. CASE ProcessInlineBuffer
    BY <2>0, <2>14, LineTaken
  <2> QED BY <2>3, <2>4, <2>5, <2>7, <2>8, <2>9, <2>10, <2>11, <2>12, <2>13, <2>14
          DEF Next, InputLoop, Environment
<1>3. LinesInv => InlineLinesInOrder
  BY InOrderMeans DEF LinesInv, InlineLinesInOrder
<1> QED BY <1>1, <1>2, <1>3, TypesHold, PTL DEF Spec
=============================================================================
