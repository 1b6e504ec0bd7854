------------------------------- MODULE Resp3 -------------------------------
(***************************************************************************)
(* The RESP3 parser and the command encoder of resp/resp3.go at the two    *)
(* ends of a byte stream.  A byte is a symbol; a decimal number is one     *)
(* symbol too.  A node is <<type byte, contents>>.  parseRESP returns the  *)
(* node it found and the bytes behind it, which is where its caller goes   *)
(* on; it indexes without checks, so that it may panic.                    *)
(***************************************************************************)
EXTENDS Integers, Sequences, FiniteSets, TLC, SequencesExt

CONSTANTS Values,        \* what the peer sends, as Encode takes it
          Commands,      \* sequences of texts: a command and its arguments
          MaxMessages,   \* bound on what is sent
          MaxReceives    \* bound on the calls of parseRESP

VARIABLES wire,          \* bytes sent and not yet parsed
          sent,          \* the values sent
          received,      \* the nodes parsed
          panicked,
          had            \* how many bytes the call that panicked was given

vars == <<wire, sent, received, panicked, had>>

CRLF == <<"CR", "LF">>

Numerals == "-1" :> -1 @@ "0" :> 0 @@ "1" :> 1 @@ "2" :> 2 @@ "3" :> 3 @@ "4" :> 4
              @@ "5" :> 5 @@ "6" :> 6 @@ "7" :> 7 @@ "8" :> 8 @@ "9" :> 9

\* strconv.Atoi and ParseFloat with the error dropped.
Number(text) == IF Len(text) = 1 /\ text[1] \in DOMAIN Numerals THEN Numerals[text[1]] ELSE 0

\* strconv.Itoa.
Numeral(n) == <<CHOOSE d \in DOMAIN Numerals : Numerals[d] = n>>

-----------------------------------------------------------------------------
(***************************************************************************)
(* parseRESP.                                                              *)
(***************************************************************************)
Found(node, rest) == [ok |-> TRUE, node |-> node, rest |-> rest]
Panic             == [ok |-> FALSE, node |-> <<"nil">>, rest |-> <<>>]

From(data, i) == SubSeq(data, i, Len(data))

Ends(data) == {i \in 1..(Len(data) - 1) : SubSeq(data, i, i + 1) = CRLF}

\* bytes.SplitN(data, CRLF, 2): the first line without its type byte, and what
\* follows the line.
Line(data) == SubSeq(data, 2, Min(Ends(data)) - 1)
Rest(data) == From(data, Min(Ends(data)) + 2)

\* Mutant: the CRLF behind the contents is not skipped.
Blob_NoTrailer(data) ==
  LET length == Number(Line(data))
  IN IF length < 0 \/ length > Len(Rest(data)) THEN Panic
     ELSE Found(<<"$", SubSeq(Rest(data), 1, length)>>, From(Rest(data), length + 1))

Blob(data) ==
  LET length == Number(Line(data))
      end    == length + 2
  IN IF length < 0 \/ end > Len(Rest(data)) THEN Panic
     ELSE Found(<<"$", SubSeq(Rest(data), 1, length)>>, From(Rest(data), end + 1))

\* The CRLF that ends the string is left in the data.
Verbatim(data) ==
  LET totalLength == Number(Line(data))
  IN IF totalLength < 4 \/ totalLength > Len(Rest(data)) THEN Panic
     ELSE Found(<<"=", SubSeq(Rest(data), 1, 3), SubSeq(Rest(data), 5, totalLength)>>,
                From(Rest(data), totalLength + 1))

\* One byte less than the value has is skipped: its LF is left.
Boolean(data) == IF Len(data) < 3 THEN Panic ELSE Found(<<"#", data[2] \in {"t", "T"}>>, From(data, 4))
Null(data)    == IF Len(data) < 2 THEN Panic ELSE Found(<<"_">>, From(data, 3))

\* Go cannot hash a struct that holds a slice or a map.
Hashable(node) == node[1] \notin {"*", "~", ">", "%"}

\* The map made from keys and values in turn: the last value of a key stays.
Pairs(nodes) ==
  LET keys == {i \in 1..Len(nodes) : i % 2 = 1}
  IN [k \in {nodes[i] : i \in keys} |-> nodes[1 + Max({i \in keys : nodes[i] = k})]]

HasPairs(nodes) == \A i \in 1..Len(nodes) : i % 2 = 1 => Hashable(nodes[i])

RECURSIVE parseRESP(_), ParseMany(_, _, _)
\* The loops over the elements of an aggregate: n more after those in done.
ParseMany(n, done, data) ==
  IF n <= 0 THEN Found(done, data)
  ELSE LET p == parseRESP(data)
       IN IF p.ok THEN ParseMany(n - 1, Append(done, p.node), p.rest) ELSE Panic

parseRESP(data) ==
  LET type  == Head(data)
      count == Number(Line(data))
      items == ParseMany(count, <<>>, Rest(data))
      pairs == ParseMany(2 * count, <<>>, Rest(data))
  IN CASE data = <<>> -> Panic
       [] data # <<>> /\ type = "#" -> Boolean(data)
       [] data # <<>> /\ type = "_" -> Null(data)
       [] data # <<>> /\ type \in {":", ",", "+", "-", "!", "(", "$", "=", "*", "~", ">", "%", "|"} ->
            (CASE Ends(data) = {} -> Panic
               [] type \in {":", ","} -> Found(<<type, count>>, Rest(data))
               \* For "!" the line is the length of the message that follows.
               [] type \in {"+", "-", "!", "("} -> Found(<<type, Line(data)>>, Rest(data))
               [] type = "$" -> Blob(data)
               [] type = "=" -> Verbatim(data)
               [] type \in {"*", "~", ">"} ->
                    IF count < 0 \/ ~items.ok THEN Panic ELSE Found(<<type, items.node>>, items.rest)
               [] OTHER ->
                    IF ~pairs.ok \/ ~HasPairs(pairs.node) THEN Panic
                    ELSE IF type = "%" THEN Found(<<"%", Pairs(pairs.node)>>, pairs.rest)
                    ELSE parseRESP(pairs.rest))
       [] OTHER -> Found(<<"nil">>, data)

-----------------------------------------------------------------------------
(***************************************************************************)
(* The senders.  Encode is the RESP3 specification that resp3.go:11 refers *)
(* to; a map is a sequence of keys and values in turn, and an attribute is *)
(* followed by what it is about.                                           *)
(***************************************************************************)
EncodeBlob(type, text) == <<type>> \o Numeral(Len(text)) \o CRLF \o text \o CRLF

RECURSIVE Encode(_)
Encode(v) ==
  LET type == v[1]
      All(vs) == FlattenSeq([i \in 1..Len(vs) |-> Encode(vs[i])])
  IN CASE type \in {":", ","} -> <<type>> \o Numeral(v[2]) \o CRLF
       [] type \in {"+", "-", "("} -> <<type>> \o v[2] \o CRLF
       [] type \in {"$", "!"} -> EncodeBlob(type, v[2])
       [] type = "=" -> EncodeBlob(type, v[2] \o <<":">> \o v[3])
       [] type = "#" -> <<type, IF v[2] THEN "t" ELSE "f">> \o CRLF
       [] type = "_" -> <<type>> \o CRLF
       [] type \in {"*", "~", ">"} -> <<type>> \o Numeral(Len(v[2])) \o CRLF \o All(v[2])
       [] type = "%" -> <<type>> \o Numeral(Len(v[2]) \div 2) \o CRLF \o All(v[2])
       [] type = "|" -> <<type>> \o Numeral(Len(v[2]) \div 2) \o CRLF \o All(v[2]) \o Encode(v[3])

\* What the peer means: attributes are left out, maps are maps.
RECURSIVE Meaning(_)
Meaning(v) ==
  CASE v[1] = "|" -> Meaning(v[3])
    [] v[1] = "spoilt" -> Meaning(v[2])
    [] v[1] = "%" -> <<"%", Pairs([i \in 1..Len(v[2]) |-> Meaning(v[2][i])])>>
    [] v[1] \in {"*", "~", ">"} -> <<v[1], [i \in 1..Len(v[2]) |-> Meaning(v[2][i])]>>
    [] OTHER -> v

ConvertToRESP(words) ==
  <<"*">> \o Numeral(Len(words)) \o CRLF
          \o FlattenSeq([i \in 1..Len(words) |-> EncodeBlob("$", words[i])])

-----------------------------------------------------------------------------
Init == wire = <<>> /\ sent = <<>> /\ received = <<>> /\ panicked = FALSE /\ had = 0

Send(v) ==
  /\ Len(sent) < MaxMessages
  /\ wire' = wire \o Encode(v) /\ sent' = Append(sent, v)
  /\ UNCHANGED <<received, panicked, had>>

SendCommand(words) ==
  /\ Len(sent) < MaxMessages
  /\ wire' = wire \o ConvertToRESP(words)
  /\ sent' = Append(sent, <<"*", [i \in 1..Len(words) |-> <<"$", words[i]>>]>>)
  /\ UNCHANGED <<received, panicked, had>>

\* The caller parses as long as there are bytes, whatever part of them has
\* arrived; what is left over comes before what arrives later.
Receive(n) ==
  /\ ~panicked /\ Len(received) < MaxReceives
  /\ LET p == parseRESP(SubSeq(wire, 1, n))
     IN IF p.ok THEN /\ wire' = p.rest \o From(wire, n + 1)
                     /\ received' = Append(received, p.node)
                     /\ UNCHANGED <<sent, panicked, had>>
        ELSE panicked' = TRUE /\ had' = n /\ UNCHANGED <<wire, sent, received>>

Next ==
  \/ \E v \in Values : Send(v)
  \/ \E words \in Commands : SendCommand(words)
  \/ \E n \in 1..Len(wire) : Receive(n)

Spec == Init /\ [][Next]_vars

-----------------------------------------------------------------------------
(***************************************************************************)
(* Properties.                                                             *)
(***************************************************************************)
\* The values that the parser gets through, to stand where the next one begins.
\* <<"spoilt", v>> stands for other bytes than those of v.
RECURSIVE Framed(_)
Framed(v) ==
  CASE v[1] \in {"_", "#", "=", "!", "spoilt"} -> FALSE
    [] v[1] \in {"*", "~", ">"} -> \A i \in 1..Len(v[2]) : Framed(v[2][i])
    [] v[1] = "%" -> HasPairs(v[2]) /\ \A i \in 1..Len(v[2]) : Framed(v[2][i])
    [] v[1] = "|" -> Framed(<<"%", v[2]>>) /\ Framed(v[3])
    [] OTHER -> TRUE

\* All that is sent up to the i-th value.
FramedUpTo(i) == \A j \in DOMAIN sent : j <= i => Framed(sent[j])

\* As long as no null, boolean, verbatim string or blob error has gone through,
\* no map with a key that is an aggregate, and nothing that is no value at all,
\* the parser hands out exactly what was sent, in order, whatever bytes the
\* blobs hold, however deeply the values nest and wherever the stream is cut
\* (resp3.go:70 to 191).  A value of which a part has not arrived is never taken
\* for another one: only then the parser panics (resp3.go:75).  When all
\* bytes are used up, everything has been handed out.
ValuesArriveInOrder ==
  /\ \A i \in 1..Len(received) : FramedUpTo(i) =>
        i <= Len(sent) /\ received[i] = Meaning(sent[i])
  /\ panicked /\ FramedUpTo(Len(received) + 1) =>
        had < Len(Encode(sent[Len(received) + 1]))
  /\ wire = <<>> /\ FramedUpTo(Len(sent)) => Len(received) = Len(sent)

\* The same of all values.  A null, of which data[2:] takes two of its three
\* bytes (resp3.go:121), puts the parser one byte behind for good.  Of the replies
\* in Replies, OK (command.go:84), errors, which are not in the form of
\* client.go:259, texts with runes of several bytes (object.go:16) and short writes
\* (conn_unix.go:63) do not arrive.
EveryValueArrives == \A i \in 1..Len(received) : i <= Len(sent) /\ received[i] = Meaning(sent[i])
=============================================================================
