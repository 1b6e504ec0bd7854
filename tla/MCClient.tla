------------------------------ MODULE MCClient ------------------------------
(***************************************************************************)
(* A table with one command for each way to be rejected, and reads that    *)
(* hold whole lines with both line ends, a blank line, two lines at once   *)
(* and a line that is cut.                                                 *)
(***************************************************************************)
EXTENDS Client, TLC

Entry(fullname, arity, fs, subs) ==
  [fullname |-> fullname, arity |-> arity, flags |-> fs, subCommands |-> subs]

a == <<"a">>
b == <<"b">>

MCTable ==
  a :> Entry("client", -2, {"NoMulti"}, FALSE)
    @@ b :> Entry("debugCommand", -1, {"Protected", "NoAuth"}, FALSE)
    @@ <<"c">> :> Entry("asking", -1, {"NoAuth"}, TRUE)
    @@ <<"e">> :> Entry("ExecCommand", -2, {"NoMulti"}, FALSE)

MCChunks == {<<"a", "LF">>, <<"SP", "a", "SP", "b", "CR", "LF">>, <<"CR", "LF", "b", "LF">>, <<"*">>}

MCRequests == {<<>>, <<a>>, <<a, b>>, <<b>>, <<<<"c">>>>, <<<<"c">>, a>>, <<<<"d">>>>, <<<<"e">>, a>>, <<<<"host:">>>>}

\* A client that is fed from its buffer; one that is handed its commands, for three
\* default users; and one whose replies are turned off and on.
MCSurroundings ==
  [made     : {{}, {"Master"}, {"Multi"}},
   user     : {{}},
   chunks   : {MCChunks},
   requests : {{<<a, b>>, <<>>}},
   settable : {{"Blocked"}}]
    \cup
  [made     : {{}, {"Script"}},
   user     : {{}, {"NoPass"}, {"NoPass", "Disabled"}},
   chunks   : {{<<"a">>}},
   requests : {MCRequests},
   settable : {{"Multi", "ReplySkipNext", "Asking"}}]
    \cup
  [made     : {{}, {"Master", "MasterForceReply"}},
   user     : {{}},
   chunks   : {{<<"a">>}},
   requests : {{<<a>>, <<a, b>>}},
   settable : {{"ReplySkipNext", "ReplyOff", "CloseASAP", "Pushing", "TrackingCaching"}}]
=============================================================================
