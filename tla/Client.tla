------------------------------- MODULE Client -------------------------------
(***************************************************************************)
(* One client of the server (node/client.go): its query buffer and the     *)
(* parser of inline requests, the dispatch of a command, the gate that     *)
(* every reply passes, and the reset between two commands.                 *)
(*                                                                         *)
(* The repository does not connect these methods to the reactor yet.  What *)
(* calls them is therefore the environment: bytes that are read, argument  *)
(* vectors that are handed over as strcmd_test.go does, and the procedures *)
(* of commands, which reply and set flags.  So is the table of commands.   *)
(***************************************************************************)
EXTENDS Integers, Sequences, FiniteSets, SequencesExt

CONSTANTS Table,        \* server.commands: a function from names to commands
          Surroundings, \* what may happen to a client, see below
          Nil,
          ProtoInlineMaxSize,
          MaxChunks,    \* bound on the reads
          MaxRejected   \* bound on the rejections that are counted

VARIABLES flags, queryBuf, queryPos, reqType, argc, argv,
          cmd,          \* c.cmd, by its name in the table
          rejectedCalls,
          around,       \* the client's surroundings
          control,      \* "idle", "input": in processInputBuffer, "panicked"
          written,      \* what the last step wrote, one write after the other
          (* What happened so far, for the properties. *)
          reads, fed,   \* the number of reads, and all the bytes they brought
          parsed,       \* the argument lists that processInlineBuffer made
          straight      \* it always began at position 0

buffer  == <<queryBuf, queryPos, reads, fed>>
request == <<argc, argv, parsed, straight>>
command == <<cmd, rejectedCalls>>
vars    == <<flags, buffer, reqType, request, command, around, control, written>>

AllFlags == {"Master", "Multi", "Blocked", "CloseAfterReply", "Script", "Asking", "CloseASAP",
             "MasterForceReply", "ReplyOff", "ReplySkipNext", "ReplySkip", "ExecutingCommand",
             "PendingCommand", "TrackingCaching", "Pushing"}

ASSUME TableAssumption  == /\ Nil \notin DOMAIN Table
                           /\ \A n \in DOMAIN Table : Table[n].arity \in Int
ASSUME TakenAssumption  ==     \* ReplySkip is the work of resetClient alone
  \A s \in Surroundings :
    /\ s.made \subseteq AllFlags \ {"ReplySkip", "ReplySkipNext"}
    /\ s.settable \subseteq AllFlags \ {"ReplySkip"}
    /\ s.chunks \subseteq Seq(STRING) /\ s.requests \subseteq Seq(Seq(STRING))
ASSUME BoundsAssumption == ProtoInlineMaxSize \in Nat /\ MaxChunks \in Nat /\ MaxRejected \in Nat

Space == {"SP", "CR", "LF"}

\* The n-th, in ascending order, of a set of numbers.
Nth(S, n) == CHOOSE i \in S : Cardinality({j \in S : j <= i}) = n

\* strings.Fields.
Starts(text)    == {i \in 1..Len(text) : text[i] \notin Space /\ (i > 1 => text[i - 1] \in Space)}
WordAt(text, i) == SubSeq(text, i, Max({j \in i..Len(text) : \A n \in i..j : text[n] \notin Space}))
Fields(text)    == [n \in 1..Cardinality(Starts(text)) |-> WordAt(text, Nth(Starts(text), n))]

(***************************************************************************)
(* The surroundings of a client: the flags it is made with, the flags of   *)
(* the default user, the chunks of bytes that a read may bring, the        *)
(* argument vectors that may be handed over, and the flags that procedures *)
(* of commands and the server set or clear.                                *)
(***************************************************************************)
Init ==
  /\ around \in Surroundings
  /\ flags = around.made /\ queryBuf = <<>> /\ queryPos = 0 /\ reqType = "unknown"
  /\ argc = 0 /\ argv = <<>> /\ cmd = Nil /\ rejectedCalls = [n \in DOMAIN Table |-> 0]
  /\ control = "idle" /\ written = <<>>
  /\ reads = 0 /\ fed = <<>> /\ parsed = <<>> /\ straight = TRUE

Panic == control' = "panicked" /\ written' = <<>>

-----------------------------------------------------------------------------
(***************************************************************************)
(* Replies.  A reply is one write or more, each behind the same gate; the  *)
(* texts are names, and what they say is the subject of Replies.           *)
(* NewClient is given a connection, so the test for nil is not made.       *)
(***************************************************************************)
PrepareClientToWrite ==
  \/ "Script" \in flags
  \/ /\ "CloseASAP" \notin flags
     /\ flags \cap {"ReplyOff", "ReplySkip"} # {} => "Pushing" \in flags
     /\ "Master" \in flags => "MasterForceReply" \in flags

Send(parts) == written' = IF PrepareClientToWrite THEN parts ELSE <<>>

\* AddReply, of an object, the shared errors included.
Reply(object) == Send(<<object>>)

\* The texts that begin with the type byte of an error.
Dashed == {"-EXECABORT"}

\* addReplyErrorLength, which AddReplyError, addReplyErrorStr and
\* addReplyErrorFormat call.  The prefix is for texts that have a type byte already.
AddReplyErrorLength(err) ==
  Send(IF err \in Dashed THEN <<"-ERR", err, "CRLF">> ELSE <<err, "CRLF">>)

\* node/multi.go, of a transaction that is given up.
ExecCommandAbort == AddReplyErrorLength("-EXECABORT")

-----------------------------------------------------------------------------
(***************************************************************************)
(* resetClient.  It asks the last command for its name, and there may be   *)
(* none.                                                                   *)
(***************************************************************************)
ResetPanics == "Multi" \notin flags /\ cmd = Nil

\* A flag that lasts for one command, unless that command is the one that sets it.
Dropped(flag, name) ==
  IF "Multi" \notin flags /\ Table[cmd].fullname # name THEN {flag} ELSE {}

\* The flags about SKIP: the skip that was due is over, the one asked for is due.
SkipFlags ==
  (flags \ {"ReplySkip", "ReplySkipNext"})
     \cup (IF "ReplySkipNext" \in flags THEN {"ReplySkip"} ELSE {})

ResetFlags ==
  SkipFlags \ ({"ExecutingCommand"} \cup Dropped("Asking", "asking")
                                    \cup Dropped("TrackingCaching", "client"))

\* reqType, and the flags; multiBulkLen, bulkLen and slot have no other use.
Reset ==
  IF ResetPanics
  THEN Panic /\ flags' = flags \ {"ExecutingCommand"} /\ reqType' = "unknown"
  ELSE /\ flags' = ResetFlags /\ reqType' = "unknown"
       /\ written' = <<>> /\ UNCHANGED control

ResetClient ==
  /\ control = "idle"
  /\ Reset
  /\ UNCHANGED <<buffer, request, command, around>>

-----------------------------------------------------------------------------
(***************************************************************************)
(* processCommand.  A command that is set already, here always the one of  *)
(* an earlier call, is "reprocessed": not looked up and not checked.       *)
(***************************************************************************)
Host == {<<"host:">>, <<"post">>}

\* lookupCommandLogic; a subcommand is never found.
LookupCommand ==
  IF argv[1] \notin DOMAIN Table \/ (argc # 1 /\ Table[argv[1]].subCommands) THEN Nil ELSE argv[1]

AuthRequired == "NoPass" \in around.user /\ "Disabled" \notin around.user

WrongArity(c) == argc < -Table[c].arity

Protected(c) ==
  "Protected" \in Table[c].flags /\ Table[c].fullname \in {"debugCommand", "module"}

\* commandCheckExistence; its message, about a container or not, is never sent.
CommandExists(c) == c # Nil

\* Why a command is rejected: the first check that it fails.
Rejection(c, reprocessing) ==
  IF ~reprocessing /\ ~CommandExists(c) THEN "unknown"
  ELSE IF ~reprocessing /\ WrongArity(c) THEN "arity"
  ELSE IF ~reprocessing /\ Protected(c) THEN "protected"
  ELSE IF AuthRequired /\ "NoAuth" \notin Table[c].flags THEN "noauth"
  ELSE IF "Multi" \in flags /\ Table[c].flags = {"NoMulti"} THEN "multi"
  ELSE "none"

CountRejection(c) == rejectedCalls' = [rejectedCalls EXCEPT ![c] = @ + 1]

IsExec(c) == Table[c].fullname = "ExecCommand"

\* rejectCommand, with a shared object.
RejectCommand(c, reply) ==
  IF ~CommandExists(c) THEN written' = <<>> /\ UNCHANGED rejectedCalls
  ELSE CountRejection(c) /\ IF IsExec(c) THEN ExecCommandAbort ELSE Reply(reply)

\* rejectCommandStr, with a text.  Of a command that is not found it says nothing.
RejectCommandStr(c, err) ==
  IF ~CommandExists(c) THEN written' = <<>> /\ UNCHANGED rejectedCalls
  ELSE CountRejection(c) /\ IF IsExec(c) THEN ExecCommandAbort ELSE AddReplyErrorLength(err)

\* rejectCommandFormat makes the text first.
RejectCommandFormat(c, err) == RejectCommandStr(c, err)

Rejected(c, why) ==
  \/ why \in {"unknown", "arity"}  /\ RejectCommandStr(c, why)
  \/ why \in {"protected", "multi"} /\ RejectCommandFormat(c, why)
  \/ why = "noauth" /\ RejectCommand(c, "-NOAUTH")
  \/ why = "none" /\ written' = <<>> /\ UNCHANGED rejectedCalls

Process ==
  IF argv = <<>> \/ (argv # <<>> /\ argv[1] = Nil)
  THEN Panic /\ UNCHANGED command
  ELSE IF argv[1] \in Host
  THEN written' = <<>> /\ UNCHANGED <<command, control>>
  ELSE LET c == IF cmd = Nil THEN LookupCommand ELSE cmd
       IN cmd' = c /\ UNCHANGED control /\ Rejected(c, Rejection(c, cmd # Nil))

\* Every call may count one more.
Countable == \A n \in DOMAIN Table : rejectedCalls[n] < MaxRejected

ProcessCommand ==
  /\ control = "idle" /\ Countable
  /\ Process
  /\ UNCHANGED <<flags, buffer, reqType, request, around>>

-----------------------------------------------------------------------------
(***************************************************************************)
(* processInputBuffer, one iteration of its loop after the other.          *)
(***************************************************************************)
Stopped == flags \cap {"Blocked", "PendingCommand", "CloseAfterReply", "CloseASAP"} # {}

ProcessInputBuffer ==
  /\ control = "idle"
  /\ control' = "input" /\ written' = <<>>
  /\ UNCHANGED <<flags, buffer, reqType, request, command, around>>

\* Mutant: processCommandAndResetClient resets, as its name says.
InputStep_Resets ==
  /\ control = "input" /\ queryPos < Len(queryBuf) /\ ~Stopped
  /\ IF reqType # "unknown"
     THEN Panic /\ UNCHANGED <<flags, reqType, command>>
     ELSE IF argc = 0
     THEN Reset /\ UNCHANGED command
     ELSE Process /\ UNCHANGED <<flags, reqType>>
  /\ UNCHANGED <<buffer, request, around>>

\* The request type is set for good unless the client is reset, and is an
\* error in the next iteration.  processCommandAndResetClient makes no reset.
InputStep ==
  /\ control = "input" /\ queryPos < Len(queryBuf) /\ ~Stopped
  /\ IF reqType # "unknown"
     THEN Panic /\ UNCHANGED <<flags, reqType, command>>
     ELSE IF argc = 0
     THEN Reset /\ UNCHANGED command
     ELSE /\ Process
          /\ reqType' = IF queryBuf[queryPos + 1] = "*" THEN "multibulk" ELSE "inline"
          /\ UNCHANGED flags
  /\ UNCHANGED <<buffer, request, around>>

\* Mutant: the buffer is trimmed and the position stays.
Trimmed_KeepsPos ==
  IF "Master" \notin flags
  THEN queryBuf' = SubSeq(queryBuf, queryPos + 1, Len(queryBuf)) /\ UNCHANGED queryPos
  ELSE UNCHANGED <<queryBuf, queryPos>>

\* Of a master nothing is trimmed: replApplied is never set.
Trimmed ==
  IF "Master" \notin flags
  THEN queryBuf' = SubSeq(queryBuf, queryPos + 1, Len(queryBuf)) /\ queryPos' = 0
  ELSE UNCHANGED <<queryBuf, queryPos>>

InputReturn ==
  /\ control = "input" /\ (queryPos >= Len(queryBuf) \/ Stopped)
  /\ Trimmed
  /\ control' = "idle" /\ written' = <<>>
  /\ UNCHANGED <<flags, reads, fed, reqType, request, command, around>>

-----------------------------------------------------------------------------
(***************************************************************************)
(* processInlineBuffer.  The line feed is looked for from queryPos on, and *)
(* its distance is used as an index.                                       *)
(***************************************************************************)
Unread == SubSeq(queryBuf, queryPos + 1, Len(queryBuf))

LineFeeds(text) == {i \in 1..Len(text) : text[i] = "LF"}

\* Without a line feed the index is -2, even after a request that is too big
\* has been answered.  A line that ends before queryPos is a slice [pos : less].
InlinePanics(p) == p < queryPos

LinefeedChars(p) == IF p # 0 /\ queryBuf[p] = "CR" THEN 2 ELSE 1

ProcessInlineBuffer ==
  /\ control = "idle"
  /\ IF LineFeeds(Unread) = {}
     THEN /\ control' = "panicked"
          /\ IF Len(Unread) >= ProtoInlineMaxSize
             THEN AddReplyErrorLength("toobig") /\ queryBuf' = <<>> /\ queryPos' = 0
             ELSE written' = <<>> /\ UNCHANGED <<queryBuf, queryPos>>
          /\ UNCHANGED request
     ELSE LET p    == Min(LineFeeds(Unread)) - 1
              end  == p + 1 - LinefeedChars(p)
              args == Fields(SubSeq(queryBuf, queryPos + 1, end))
          IN IF InlinePanics(end)
             THEN Panic /\ UNCHANGED <<queryBuf, queryPos, request>>
             ELSE /\ queryPos' = end + LinefeedChars(p)
                  \* make gives the vector its length, append adds to that.
                  /\ argv' = IF args = <<>> THEN argv ELSE [i \in 1..Len(args) |-> Nil] \o args
                  /\ argc' = argc + Len(args)
                  /\ parsed' = Append(parsed, args)
                  /\ straight' = (straight /\ queryPos = 0)
                  /\ written' = <<>> /\ UNCHANGED <<queryBuf, control>>
  /\ UNCHANGED <<flags, reads, fed, reqType, command, around>>

-----------------------------------------------------------------------------
(***************************************************************************)
(* The environment.                                                        *)
(***************************************************************************)
Read(chunk) ==
  /\ control = "idle" /\ reads < MaxChunks
  /\ reads' = reads + 1 /\ fed' = fed \o chunk /\ queryBuf' = queryBuf \o chunk
  /\ written' = <<>>
  /\ UNCHANGED <<flags, queryPos, reqType, request, command, around, control>>

SetArguments(words) ==
  /\ control = "idle"
  /\ argv' = words /\ argc' = Len(words) /\ written' = <<>>
  /\ UNCHANGED <<flags, buffer, reqType, parsed, straight, command, around, control>>

SetFlag(f) ==
  /\ control = "idle" /\ f \notin flags
  /\ flags' = flags \cup {f} /\ written' = <<>>
  /\ UNCHANGED <<buffer, reqType, request, command, around, control>>

\* CLIENT REPLY SKIP is not taken back.
ClearFlag(f) ==
  /\ control = "idle" /\ f \in flags \ {"ReplySkipNext"}
  /\ flags' = flags \ {f} /\ written' = <<>>
  /\ UNCHANGED <<buffer, reqType, request, command, around, control>>

AddReply ==
  /\ control = "idle"
  /\ Reply("reply")
  /\ UNCHANGED <<flags, buffer, reqType, request, command, around, control>>

Environment ==
  \/ \E chunk \in around.chunks : Read(chunk)
  \/ \E words \in around.requests : SetArguments(words)
  \/ \E f \in around.settable : SetFlag(f) \/ ClearFlag(f)
  \/ AddReply

InputLoop == InputStep \/ InputReturn

Next ==
  \/ ResetClient \/ ProcessCommand \/ ProcessInputBuffer \/ ProcessInlineBuffer
  \/ InputLoop \/ Environment

\* A call that has begun goes on; nobody has to call.
Spec == Init /\ [][Next]_vars /\ WF_vars(InputLoop)

-----------------------------------------------------------------------------
(***************************************************************************)
(* Properties.                                                             *)
(***************************************************************************)
\* The fields of the client have their types (client.go:110).
TypeOK ==
  /\ flags \subseteq AllFlags /\ reqType \in {"unknown", "inline", "multibulk"}
  /\ queryPos \in 0..Len(queryBuf) /\ argc \in Nat
  /\ cmd \in DOMAIN Table \cup {Nil} /\ rejectedCalls \in [DOMAIN Table -> Nat]
  /\ control \in {"idle", "input", "panicked"}

\* The i-th line among all the bytes that came.
EndOfLine(i) == IF i = 0 THEN 0 ELSE Nth(LineFeeds(fed), i)
LineOf(i)    == SubSeq(fed, EndOfLine(i - 1) + 1, EndOfLine(i) - 1)

LinesInOrder ==
  control # "panicked" =>
    /\ Len(parsed) <= Cardinality(LineFeeds(fed))
    /\ \A i \in 1..Len(parsed) : parsed[i] = Fields(LineOf(i))
    /\ Unread = SubSeq(fed, EndOfLine(Len(parsed)) + 1, Len(fed))

\* However the bytes are cut into reads, and whatever stops and trims come
\* between (client.go:354 and 412), the lines that processInlineBuffer takes
\* from position 0 are the lines that were sent, in order, each with its own
\* arguments; blank lines and both line ends are counted right
\* (client.go:439), and no byte behind them is lost or read twice.
InlineLinesInOrder == straight => LinesInOrder

\* A call of processInputBuffer that has arguments to dispatch comes to an end, whatever
\* is in the buffer, of which it consumes nothing (client.go:353): the request type
\* that the first pass sets (client.go:369) is the only thing that keeps it from dispatching
\* the same arguments for ever, for nothing clears them.  (The end is the panic of
\* client.go:376, unless a flag stops the call before it dispatches.)
InputWithArgumentsEnds == (control = "input" /\ argc # 0) ~> control # "input"

(***************************************************************************)
(* What comments say, and the code does not do.                            *)
(***************************************************************************)
HasName == argv # <<>> /\ argv[1] # Nil /\ argv[1] \notin Host

\* client.go:536, "lookup the command and check ASAP about trivial error
\* conditions such as wrong arity": c.cmd is never cleared, so that only the
\* first command of a connection is looked up and checked.
ChecksEveryCommand ==
  HasName /\ LookupCommand # Nil /\ WrongArity(LookupCommand) =>
    Rejection(IF cmd = Nil THEN LookupCommand ELSE cmd, cmd # Nil) = "arity"

\* client.go:190, "used when a command that is ready for execution needs to be
\* rejected": a command that is not in the table is never answered, for the
\* function looks at c.cmd, which is nil then.
UnknownIsAnswered ==
  [][ProcessCommand /\ HasName /\ cmd = Nil /\ LookupCommand = Nil /\ PrepareClientToWrite =>
       written' # <<>>]_vars

\* client.go:67, "skip next reply", and :68, "Don't send just this reply": when
\* processCommandAndResetClient (client.go:514) is done with a command, the skip that was
\* asked for is due for the replies of the next one.  It makes no reset, so that the
\* next command is answered, and those after it, until someone else resets.
SkipSilencesNextCommand ==
  [][InputStep /\ argc # 0 /\ control' = "input" /\ "ReplySkipNext" \in flags =>
       "ReplySkip" \in flags']_vars

\* client.go:420, "creates a command ready to be executed": the vector begins
\* with as many nil pointers as there are arguments.
CommandIsReady ==
  [][ProcessInlineBuffer /\ argv' # argv => Len(argv') = argc' /\ argv'[1] # Nil]_vars

\* The same comment, of pipelined lines: from the second on, the distance of the
\* line feed from queryPos is taken for its index.
PipelinedLinesInOrder == LinesInOrder

\* client.go:346, the function processes what is in the buffer: with bytes that
\* no one has made arguments of, it resets the client for ever.
InputReturns == control = "input" ~> control # "input"
=============================================================================
