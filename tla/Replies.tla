------------------------------ MODULE Replies ------------------------------
(***************************************************************************)
(* The server's side of the stream that Resp3 reads: the functions of      *)
(* node/client.go that make a reply, each one or more calls of Write       *)
(* (node/conn_unix.go), a kernel that does not always take all, and the    *)
(* garbage collector, which closes the connection under the server.        *)
(***************************************************************************)
EXTENDS Resp3

CONSTANTS SharedNames,    \* the shared objects that are sent
          Texts,          \* what a bulk reply holds
          Errors,         \* messages of errors
          Continuation,   \* bytes of a rune behind its first
          ShortWrites,    \* whether the kernel may take a part of a write
          Collections     \* whether the garbage collector runs

VARIABLE fd               \* of the connection: "open", "dropped" when a File that was
                          \* made of it has no reference left, "closed"

streamVars == <<vars, fd>>

\* The shared objects of command.go that replies are made of.
Shared ==
  "Ok"         :> <<"O", "K">> \o CRLF
  @@ "EmptyBulk"  :> <<"$", "0">> \o CRLF \o CRLF
  @@ "ZCone"      :> <<":", "0">> \o CRLF
  @@ "Cone"       :> <<":", "1">> \o CRLF
  @@ "EmptyArray" :> <<"*", "0">> \o CRLF
  @@ "Pong"       :> <<"+", "PONG">> \o CRLF
  @@ "EmptyScan"  :> <<"*", "2">> \o CRLF \o <<"$", "1">> \o CRLF \o <<"0">> \o CRLF \o <<"*", "0">> \o CRLF
  @@ "SyntaxErr"  :> <<"-", "ERR syntax error">> \o CRLF
  @@ "Null3"      :> <<"_">> \o CRLF
  @@ "EmptySet3"  :> <<"~", "0">> \o CRLF

\* stringObjectLen counts runes.
StringObjectLen(text) == Cardinality({i \in 1..Len(text) : text[i] \notin Continuation})

\* ll2String.
LL2String(prefix, n) == <<prefix>> \o Numeral(n) \o CRLF

AddReplyBulkLen(text) == LL2String("$", StringObjectLen(text))

\* Mutant: the CRLF behind the contents is not written.
AddReplyBulk_NoTrailer(text) == <<AddReplyBulkLen(text), text>>

AddReplyBulk(text) == <<AddReplyBulkLen(text), text, CRLF>>

\* addReplyErrorLength: the prefix is for messages that have a type byte already.
AddReplyError(err) ==
  (IF err # <<>> /\ err[1] = "-" THEN <<<<"-", "ERR">>>> ELSE <<>>) \o <<err, CRLF>>

\* The writes of a reply.
Writes(r) ==
  CASE r[1] = "shared" -> <<Shared[r[2]]>>
    [] r[1] = "bulk"   -> AddReplyBulk(r[2])
    [] r[1] = "error"  -> AddReplyError(r[2])

AllReplies ==
  {<<"shared", name>> : name \in SharedNames}
    \cup {<<"bulk", text>> : text \in Texts}
    \cup {<<"error", err>> : err \in Errors}

\* An error in the form of client.go:259, -ERRORCODE Error Message: the code is in
\* the message, as in "-EXECABORT Transaction..." (multi.go:6), or it is ERR.
MeantError(err) == <<"-", IF err # <<>> /\ err[1] = "-" THEN Tail(err) ELSE <<"ERR">> \o err>>

\* What a reply is meant to be.
Meant(r) ==
  CASE r[1] = "bulk"  -> <<"$", r[2]>>
    [] r[1] = "error" -> MeantError(r[2])
    [] r[1] = "shared" ->
         ("Ok" :> <<"+", <<"O", "K">>>> @@ "EmptyBulk" :> <<"$", <<>>>> @@ "ZCone" :> <<":", 0>>
            @@ "Cone" :> <<":", 1>> @@ "EmptyArray" :> <<"*", <<>>>>
            @@ "Pong" :> <<"+", <<"PONG">>>>
            @@ "EmptyScan" :> <<"*", <<<<"$", <<"0">>>>, <<"*", <<>>>>>>>>
            @@ "SyntaxErr" :> <<"-", <<"ERR syntax error">>>>
            @@ "Null3" :> <<"_">> @@ "EmptySet3" :> <<"~", <<>>>>)[r[2]]

\* OK has no type byte, nor has an error message that comes without one, and one
\* that has its code is given another; a length in runes is too small for some texts.
IsSpoilt(r) ==
  \/ r = <<"shared", "Ok">>
  \/ r[1] = "error"
  \/ r[1] = "bulk" /\ \E i \in 1..Len(r[2]) : r[2][i] \in Continuation

Promised(r) == IF IsSpoilt(r) THEN <<"spoilt", Meant(r)>> ELSE Meant(r)

-----------------------------------------------------------------------------
(***************************************************************************)
(* Write on a connection that accept has made.  An error of the kernel,    *)
(* which it also returns when it has taken a part, is not recognised as    *)
(* temporary: the rest is dropped, and the callers do not look at the      *)
(* result.  So outBuffer stays empty.                                      *)
(*                                                                         *)
(* Every call makes an os.File of the descriptor and forgets it.  When the *)
(* collector finalizes it the descriptor is closed: all later writes fail. *)
(* (That its number is then given to another connection is left out.)      *)
(***************************************************************************)
Reaches(bytes) == wire' = wire \o bytes

SendReply(r) ==
  /\ Len(sent) < MaxMessages
  /\ IF fd = "closed"
     THEN /\ wire' = wire /\ fd' = fd /\ sent' = Append(sent, <<"spoilt", Meant(r)>>)
     ELSE /\ Reaches(FlattenSeq(Writes(r))) /\ fd' = "dropped" /\ sent' = Append(sent, Promised(r))
  /\ UNCHANGED <<received, panicked, had>>

\* Of the i-th write the kernel takes only the first n bytes.
SendReplyShort(r, i, n) ==
  /\ ShortWrites /\ Len(sent) < MaxMessages /\ fd # "closed"
  /\ Reaches(FlattenSeq([Writes(r) EXCEPT ![i] = SubSeq(@, 1, n)]))
  /\ fd' = "dropped" /\ sent' = Append(sent, <<"spoilt", Meant(r)>>)
  /\ UNCHANGED <<received, panicked, had>>

\* The collector runs after the i-th write of a reply: the others fail.
SendReplyCut(r, i) ==
  /\ Collections /\ Len(sent) < MaxMessages /\ fd # "closed"
  /\ Reaches(FlattenSeq(SubSeq(Writes(r), 1, i)))
  /\ fd' = "closed" /\ sent' = Append(sent, <<"spoilt", Meant(r)>>)
  /\ UNCHANGED <<received, panicked, had>>

SendAnyReply ==
  \E r \in AllReplies :
    \/ SendReply(r)
    \/ \E i \in 1..Len(Writes(r)) : \E n \in 0..(Len(Writes(r)[i]) - 1) : SendReplyShort(r, i, n)
    \/ \E i \in 1..(Len(Writes(r)) - 1) : SendReplyCut(r, i)

\* It runs between two replies.
CollectFile ==
  /\ Collections /\ fd = "dropped" /\ fd' = "closed"
  /\ UNCHANGED vars

StreamInit == Init /\ fd = "open"

StreamNext == (Next /\ UNCHANGED fd) \/ SendAnyReply \/ CollectFile

StreamSpec == StreamInit /\ [][StreamNext]_streamVars

-----------------------------------------------------------------------------
\* A peer that has used up all bytes has every reply that was sent to it.  Not
\* kept once the collector has finalized a File of the connection
\* (conn_unix.go:55): the connection ends, and its client goes on replying.
EveryReplyArrives == wire = <<>> => Len(received) = Len(sent)
=============================================================================
