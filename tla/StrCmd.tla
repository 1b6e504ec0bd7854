------------------------------- MODULE StrCmd -------------------------------
(***************************************************************************)
(* The string commands of node/strcmd.go on one database: SET with its     *)
(* options, SETNX, SETEX, PSETEX and GET, what they do to the database and *)
(* what they reply; and GenericDelete, by which eviction removes a key.    *)
(*                                                                         *)
(* An argument is a text or a number (an object whose Value is a uint64).  *)
(***************************************************************************)
EXTENDS RedisDb, SequencesExt

CONSTANTS Arguments,    \* the arguments that may follow SET key value
          MaxArguments, \* bound: how many may follow
          Options, MaxOptions,  \* the same, for CommandsTakeEffect
          Thousand,     \* milliseconds in a second
          MaxSeconds, MaxMilliseconds,  \* the limits of strcmd.go:274
          MaxInt64

VARIABLE reply          \* what the last command wrote to its client

vars == <<db, reply>>

ASSUME LimitsAssumption ==
  /\ Thousand \in Nat \ {0} /\ MaxInt64 \in Nat
  /\ MaxSeconds \in Nat /\ MaxSeconds * Thousand <= MaxInt64
  /\ MaxMilliseconds \in Nat /\ MaxMilliseconds <= MaxInt64
ASSUME TimesAssumption == 1..MaxInt64 \subseteq Times

Text(s)   == [text |-> s, number |-> 0]
Number(n) == [text |-> "", number |-> n]
NoArgument == Text("nil")

ASSUME ArgumentsAssumption ==
  Arguments \cup Options \subseteq [text : STRING, number : Nat] \ {NoArgument}

IsText(o) == o.text # ""

\* getLongLongFromObject: a text is not converted, it counts as 0.
GetLongLong(o) == o.number

(***************************************************************************)
(* parseExtendedStringArgumentsOrReply, for the SET command.               *)
(***************************************************************************)
TimeOptions == {"EX", "PX", "EXAT", "PXAT"}

\* Mutant: an expire time may be given after KEEPTTL.
Excludes_NotKeepTTL(opt) ==
  CASE opt = "NX" -> {"XX"}
    [] opt = "XX" -> {"NX"}
    [] opt = "GET" -> {}
    [] opt = "KEEPTTL" -> TimeOptions
    [] OTHER -> TimeOptions \ {opt}

\* The options that may not come before opt.
Excludes(opt) ==
  CASE opt = "NX" -> {"XX"}
    [] opt = "XX" -> {"NX"}
    [] opt = "GET" -> {}
    [] opt = "KEEPTTL" -> TimeOptions
    [] OTHER -> {"KEEPTTL"} \cup (TimeOptions \ {opt})

Accepted(opt, flags, hasNext) ==
  /\ opt \in {"NX", "XX", "GET", "KEEPTTL"} \cup TimeOptions
  /\ Excludes(opt) \cap flags = {}
  /\ opt \in TimeOptions => hasNext

\* The loop body for argument j.  `ok' is the named result: the type assertion
\* at its head sets it, and a syntax error found later returns it as it is.
ParseArgument(args, p, j) ==
  LET opt == args[j].text
  IN IF p.returned THEN p
     ELSE IF p.skip THEN [p EXCEPT !.skip = FALSE]
     ELSE IF ~IsText(args[j])
     THEN [p EXCEPT !.ok = FALSE, !.returned = TRUE, !.reply = <<"syntaxErr">>]
     ELSE IF ~Accepted(opt, p.flags, j < Len(args))
     THEN [p EXCEPT !.ok = TRUE, !.returned = TRUE, !.reply = <<"syntaxErr">>]
     ELSE IF opt \in TimeOptions
     THEN [p EXCEPT !.ok = TRUE, !.flags = @ \cup {opt}, !.expire = args[j + 1],
                    !.skip = TRUE,
                    !.unit = IF opt \in {"PX", "PXAT"} THEN "ms" ELSE @]
     ELSE [p EXCEPT !.ok = TRUE, !.flags = @ \cup {opt}]

NothingParsed ==
  [flags |-> {}, expire |-> NoArgument, unit |-> "s", ok |-> TRUE,
   skip |-> FALSE, returned |-> FALSE, reply |-> <<>>]

Parse(args) ==
  LET upTo[j \in 0..Len(args)] ==
        IF j = 0 THEN NothingParsed ELSE ParseArgument(args, upTo[j - 1], j)
  IN upTo[Len(args)]

(***************************************************************************)
(* setGenericCommand: the database it leaves and what it replies.          *)
(***************************************************************************)
\* Mutant: the limit is that of milliseconds for both units.
TimeIsValid_OneLimit(n, unit) == n # 0 /\ n <= MaxMilliseconds

\* getExpireMillisecondsOrReply.
TimeIsValid(n, unit) ==
  n # 0 /\ n <= IF unit = "s" THEN MaxSeconds ELSE MaxMilliseconds

Milliseconds(n, unit) == IF unit = "s" THEN n * Thousand ELSE n

\* Mutant: what the comment at strcmd.go:125 describes.
SetKeyFlags_AsCommented(flags, hasExpire, exist) ==
  {IF exist THEN "AlreadyExists" ELSE "DoesNotExist"}
    \cup (IF "KEEPTTL" \in flags \/ hasExpire THEN {"KeepTTL"} ELSE {})

SetKeyFlags(flags, hasExpire, exist) ==
  {IF exist THEN "AlreadyExists" ELSE "DoesNotExist"}
    \cup (IF "KEEPTTL" \in flags \/ ~hasExpire THEN {"KeepTTL"} ELSE {})

Refused(flags, exist) == ("XX" \in flags /\ ~exist) \/ ("NX" \in flags /\ exist)

\* A reply, unless GET was asked for.
Unless(flags, r) == IF "GET" \in flags THEN <<>> ELSE <<r>>

\* Mutant: the TTL is set before the key.
Written_TTLFirst(d, flags, k, v, expire, ms) ==
  LET e == IF expire # NoArgument THEN SetExpire(d, k, ms) ELSE d
  IN SetKey(e, k, v, SetKeyFlags(flags, expire # NoArgument, Exists(d, k)))

\* SetKey, then SetExpire if a time was given.
Written(d, flags, k, v, expire, ms) ==
  LET e == SetKey(d, k, v, SetKeyFlags(flags, expire # NoArgument, Exists(d, k)))
  IN IF expire # NoArgument THEN SetExpire(e, k, ms) ELSE e

\* Mutant: the key is written before the expire time is looked at.
SetGeneric_WritesFirst(flags, k, v, expire, unit) ==
  LET n    == GetLongLong(expire)
      done == Written(db, flags, k, v, NoArgument, 0)
  IN IF Refused(flags, Exists(db, k))
     THEN [db |-> db, reply |-> Unless(flags, "null")]
     ELSE IF expire # NoArgument /\ ~TimeIsValid(n, unit)
     THEN [db |-> done, reply |-> <<"expireErr">>]
     ELSE [db    |-> Written(db, flags, k, v, expire, Milliseconds(n, unit)),
           reply |-> Unless(flags, "OK")]

SetGeneric(flags, k, v, expire, unit) ==
  LET n == GetLongLong(expire)
  IN IF expire # NoArgument /\ ~TimeIsValid(n, unit)
     THEN [db |-> db, reply |-> <<"expireErr">>]
     ELSE IF Refused(flags, Exists(db, k))
     THEN [db |-> db, reply |-> Unless(flags, "null")]
     ELSE [db    |-> Written(db, flags, k, v, expire, Milliseconds(n, unit)),
           reply |-> Unless(flags, "OK")]

(***************************************************************************)
(* The commands.  A state in which the bounds are reached takes no more    *)
(* writes of new keys or of TTLs.                                          *)
(***************************************************************************)
Bounded(k) == (DictFull(db) => Exists(db, k)) /\ db.expire.count < MaxCount

SetTo(r) == db' = r.db /\ reply' = r.reply

Lists(S, max) == UNION {[1..n -> S] : n \in 0..max}

\* What the parser makes of the arguments of a SET.
Parses == {Parse(args) : args \in Lists(Arguments, MaxArguments)}

Set(k, v, p) ==
  LET r == SetGeneric(p.flags, k, v, p.expire, p.unit)
  IN /\ Bounded(k)
     /\ IF p.ok THEN SetTo([r EXCEPT !.reply = p.reply \o r.reply])
        ELSE reply' = p.reply /\ UNCHANGED db

SetNx(k, v) == Bounded(k) /\ SetTo(SetGeneric({"NX"}, k, v, NoArgument, "s"))

SetEx(k, v, time) == Bounded(k) /\ SetTo(SetGeneric({"EX"}, k, v, time, "s"))

PSetEx(k, v, time) == Bounded(k) /\ SetTo(SetGeneric({"PX"}, k, v, time, "ms"))

Get(k) ==
  /\ reply' = IF LookupKey(db, k) = Missing THEN <<"null">> ELSE <<"value">>
  /\ UNCHANGED db

Evict(k) == db' = GenericDelete(db, k) /\ UNCHANGED reply

Init == db = New /\ reply = <<>>

Command ==
  \E k \in Keys :
    \/ Get(k)
    \/ \E v \in Values :
         \/ SetNx(k, v)
         \/ \E p \in Parses : Set(k, v, p)
         \/ \E time \in Arguments : SetEx(k, v, time) \/ PSetEx(k, v, time)

Next == Command \/ \E k \in Keys : Evict(k)

Spec == Init /\ [][Next]_vars

-----------------------------------------------------------------------------
(***************************************************************************)
(* Properties.                                                             *)
(***************************************************************************)
\* The database is one, and a command writes at most two replies.
TypeOK == DbTypeOK /\ reply \in Seq({"syntaxErr", "expireErr", "null", "OK", "value"})

\* Seen from the commands the TTLs are a map: whatever rehashing goes on in
\* the expire table, a command changes the TTL of one key at most, and only
\* to what it asks for.
TTLsAreAMap == Expire!ImplementsMap

\* The sets of options the parser accepts.
Parsed ==
  {LET p == Parse(args) IN [flags |-> p.flags, expire |-> p.expire, unit |-> p.unit] :
     args \in Lists(Options, MaxOptions)}

\* In every reachable database, a SET that is answered OK, whatever its options
\* and their order, gives the key the value and, if a time was given, the TTL
\* that were asked for; with KEEPTTL the TTL stays.  So the parser accepts no two
\* options that ask for contrary things (strcmd.go:194 to 258), and neither a
\* rehash step on the way nor the deletion of the old TTL (strcmd.go:136) loses
\* what was written.
CommandsTakeEffect ==
  \A k \in Keys, v \in Values, p \in Parsed :
    LET r == SetGeneric(p.flags, k, v, p.expire, p.unit)
        n == GetLongLong(p.expire)
    IN r.reply = <<"OK">> =>
         /\ LookupKey(r.db, k) = v
         /\ p.flags \cap {"EX", "EXAT"} # {} => GetExpire(r.db, k) = n * Thousand
         /\ p.flags \cap {"PX", "PXAT"} # {} => GetExpire(r.db, k) = n
         /\ "KEEPTTL" \in p.flags => GetExpire(r.db, k) = GetExpire(db, k)

\* The state has its type, and a stored TTL is within an int64, the type GetExpire
\* (db.go:102) returns: the multiplication at strcmd.go:280 does not overflow.
TTLsFitInt64 ==
  TypeOK /\ \A k \in Keys : GetExpire(db, k) # Missing => GetExpire(db, k) \in 1..MaxInt64

\* What a client may conclude from the answers to one command, for all that a
\* SET may be answered twice (strcmd.go:259) or not at all (strcmd.go:144).  If
\* the last answer is a null or an invalid time, nothing was changed, not even
\* half of it; the second of two answers follows a syntax error; and only where
\* GET was asked for is an answer missing or a change not answered OK, so that a
\* client that leaves GET out knows what was done and, in a pipeline, which
\* answer belongs to which command.
LastAnswerIsTrue ==
  [][\/ /\ reply' # <<>> /\ (UNCHANGED db \/ Last(reply') = "OK")
        /\ Len(reply') > 1 => Front(reply') = <<"syntaxErr">>
     \/ \E k \in Keys : Evict(k)
     \/ /\ reply' \in {<<>>, <<"syntaxErr">>}
        /\ \E k \in Keys, v \in Values, p \in Parses :
             "GET" \in p.flags /\ Set(k, v, p)]_vars

(***************************************************************************)
(* What comments say, and the code does not do.                            *)
(***************************************************************************)
\* strcmd.go:160, "If there are any syntax violations C_ERR is returned": a SET
\* that is answered with a syntax error changes nothing.
SyntaxErrorsAbort ==
  [][(Command /\ reply' # <<>> /\ reply'[1] = "syntaxErr") => UNCHANGED db]_vars

\* strcmd.go:95, "'ok_reply' and 'abort_reply' is what the function will reply
\* to the client": no command leaves its client without an answer.
EveryCommandReplies ==
  [][\A k \in Keys, v \in Values, p \in Parses :
       Set(k, v, p) => reply' # <<>>]_vars

\* strcmd.go:125, "When expire is not NULL, we avoid deleting the TTL so it can
\* be updated later instead of being deleted and then created again": a new
\* TTL for a key that has one adds no entry to the expire table.
TTLIsUpdatedInPlace ==
  [][\A k \in Keys, v \in Values, time \in Arguments :
       (SetEx(k, v, time) /\ GetExpire(db, k) # Missing) =>
         Expire!TableLen(db.expire') = Expire!TableLen(db.expire)]_vars
=============================================================================
