------------------------------ MODULE Reactor ------------------------------
(***************************************************************************)
(* The event loop of node/: the poll goroutine (poll_unix.go), its epoll   *)
(* registry (registry_unix.go), the read side of a connection              *)
(* (conn_unix.go, handler.go), and the main goroutine that starts the poll *)
(* and stops it on a signal (reactor_unix.go, server.go), with the kernel, *)
(* the clients and Go's garbage collector around them.                     *)
(*                                                                         *)
(* One action is what one goroutine does between two points where another  *)
(* actor can interfere: a call of EpollWait, the handling of one event of  *)
(* the batch it returned, one stage of CloseGracefully, one channel        *)
(* operation of the main goroutine.                                        *)
(***************************************************************************)
EXTENDS Integers, FiniteSets

CONSTANTS Conns,     \* connections, each named by the fd accept gives it
          Efd, Ln,   \* the eventfd and the duplicated listener fd
          Epoll,     \* the epoll fd
          FdLimit,   \* connections the process may have open at one time
          Garbage    \* what the 7 bytes behind the signal byte may hold

VARIABLES
  main,      \* the main goroutine: "start", "select", "send", "waitDone", "returned"
  poll,      \* the poll goroutine: where it is
  cause,     \* why poll() left its loop: the error processEvent returned
  batch,     \* the events of the last EpollWait that are still to be handled
  epollSet,  \* Registry.epollSet
  connPool,  \* Poll.connPool
  connCnt,   \* Poll.connCnt
  open,      \* kernel: open file descriptors
  interest,  \* kernel: the epoll interest list
  efdCount,  \* kernel: the counter of the eventfd
  backlog,   \* kernel: connections to be accepted
  sock       \* kernel: what has arrived from each peer

pollVars   == <<poll, cause, batch, epollSet, connPool, connCnt>>
kernelVars == <<open, interest, efdCount, backlog, sock>>
vars       == <<main, pollVars, kernelVars>>

ASSUME NamesAssumption   == /\ Efd # Ln /\ Efd # Epoll /\ Ln # Epoll
                            /\ {Efd, Ln, Epoll} \cap Conns = {}
ASSUME ConnsAssumption   == IsFiniteSet(Conns)
ASSUME LimitAssumption   == FdLimit \in Nat
ASSUME GarbageAssumption == Garbage \subseteq Nat

SignalStop == 1

\* A peer: not connected yet, or connected, with data it sent that is not read
\* yet, an orderly shutdown (FIN) or a reset (RST).
Peers == [connected : BOOLEAN, data : BOOLEAN, fin : BOOLEAN, rst : BOOLEAN]

\* The stages of CloseGracefully, in order, and the closing of the done channel.
Closing == {"closeEfd", "closeLn", "closeConns", "closeEpoll", "closeDone"}

\* NewReactor and NewPoll have run: the eventfd and the listener are
\* registered with epoll, but are not in Registry.epollSet.
Init ==
  /\ main = "start" /\ poll = "created" /\ cause = "none"
  /\ batch = {} /\ epollSet = {} /\ connPool = {} /\ connCnt = 0
  /\ open = {Efd, Ln, Epoll} /\ interest = {Efd, Ln} /\ efdCount = 0
  /\ backlog = {}
  /\ sock = [c \in Conns |-> [connected |-> FALSE, data |-> FALSE, fin |-> FALSE, rst |-> FALSE]]

-----------------------------------------------------------------------------
(***************************************************************************)
(* Clients and the kernel.  A peer may connect, send, shut down and reset. *)
(* The listening socket stays alive behind Ln through Reactor.listener.    *)
(* What peers do once the poll goroutine will look at no event any more is *)
(* left out: nothing depends on it.                                        *)
(***************************************************************************)
Polling == poll \in {"created", "wait", "events"}

Connect(c) ==
  /\ Polling /\ ~sock[c].connected
  /\ sock' = [sock EXCEPT ![c].connected = TRUE]
  /\ backlog' = backlog \cup {c}
  /\ UNCHANGED <<main, pollVars, open, interest, efdCount>>

Peer(c, what) ==
  /\ Polling /\ sock[c].connected /\ ~sock[c].rst
  /\ what = "data" => ~sock[c].fin
  /\ ~sock[c][what]
  /\ sock' = [sock EXCEPT ![c][what] = TRUE]
  /\ UNCHANGED <<main, pollVars, open, interest, efdCount, backlog>>

(***************************************************************************)
(* The garbage collector.  NewReactor keeps the fd of the os.File that     *)
(* listener.File() made, and drops the os.File: its finalizer closes the   *)
(* fd.  The epoll entry remains, for the socket is still open.             *)
(***************************************************************************)
CollectListenerFile ==
  /\ Ln \in open
  /\ open' = open \ {Ln}
  /\ UNCHANGED <<main, pollVars, interest, efdCount, backlog, sock>>

(***************************************************************************)
(* The main goroutine: Reactor.Run.  The signal channel is unbuffered, so  *)
(* a signal arrives only while Run waits in its select.                    *)
(***************************************************************************)
Run ==
  /\ main = "start"
  /\ main' = "select" /\ poll' = "wait"
  /\ UNCHANGED <<cause, batch, epollSet, connPool, connCnt, kernelVars>>

Signal ==
  /\ main = "select"
  /\ main' = "send"
  /\ UNCHANGED <<pollVars, kernelVars>>

\* sendSignal writes 8 bytes from the address of a one-byte variable: the
\* signal in the low byte, and whatever lies behind it.
SendSignal ==
  /\ main = "send"
  /\ \E g \in Garbage :
       efdCount' = IF Efd \in open THEN efdCount + SignalStop + 256 * g ELSE efdCount
  /\ main' = "waitDone"
  /\ UNCHANGED <<pollVars, open, interest, backlog, sock>>

\* Mutant: close(done) is deferred last and so runs before CloseGracefully.
Return_BeforeClose ==
  /\ main \in {"select", "waitDone"} /\ poll \in Closing \cup {"done"}
  /\ main' = "returned"
  /\ UNCHANGED <<pollVars, kernelVars>>

\* Mutant: Run waits for a signal only.
Return_AfterSignal ==
  /\ main = "waitDone" /\ poll = "done"
  /\ main' = "returned"
  /\ UNCHANGED <<pollVars, kernelVars>>

Return ==
  /\ main \in {"select", "waitDone"} /\ poll = "done"
  /\ main' = "returned"
  /\ UNCHANGED <<pollVars, kernelVars>>

-----------------------------------------------------------------------------
(***************************************************************************)
(* The poll goroutine.                                                     *)
(***************************************************************************)
Ready ==
  {fd \in interest : \/ fd = Efd /\ efdCount > 0
                     \/ fd = Ln /\ backlog # {}
                     \/ fd \in Conns /\ (sock[fd].data \/ sock[fd].fin \/ sock[fd].rst)}

\* EpollWait: level triggered, and with room for more events (MaxFD) than
\* there are descriptors.  Only a reset raises EPOLLERR or EPOLLHUP.
EpollWait ==
  /\ poll = "wait" /\ Ready # {}
  /\ batch' = {[fd |-> fd, hup |-> fd \in Conns /\ sock[fd].rst] : fd \in Ready}
  /\ poll' = "events"
  /\ UNCHANGED <<main, cause, epollSet, connPool, connCnt, kernelVars>>

\* processEvent returned nil: on to the next event, or to the next EpollWait.
Handled(e) ==
  /\ batch' = batch \ {e}
  /\ poll' = IF batch = {e} THEN "wait" ELSE "events"
  /\ UNCHANGED cause

\* processEvent returned an error: poll() returns and runs its deferred calls.
\* The rest of the batch is dropped.
Stop(err) == batch' = {} /\ poll' = "closeEfd" /\ cause' = err

\* registerRead: the fd is in neither set before, for it is new.
RegisterRead(fd) ==
  /\ interest' = interest \cup {fd}
  /\ epollSet' = epollSet \cup {fd}

Unregister(fd) ==
  /\ interest' = IF fd \in epollSet THEN interest \ {fd} ELSE interest
  /\ epollSet' = epollSet \ {fd}

\* Mutant: the registry forgets the fd without telling epoll.
HandleHup_NoEpollDel(e) ==
  /\ poll = "events" /\ e \in batch /\ e.hup
  /\ connCnt' = connCnt - 1
  /\ epollSet' = epollSet \ {e.fd}
  /\ Handled(e)
  /\ UNCHANGED <<main, connPool, kernelVars>>

\* EPOLLERR or EPOLLHUP: count down and unregister.  The fd is not closed and
\* its connection stays in the pool.
HandleHup(e) ==
  /\ poll = "events" /\ e \in batch /\ e.hup
  /\ connCnt' = connCnt - 1
  /\ Unregister(e.fd)
  /\ Handled(e)
  /\ UNCHANGED <<main, connPool, open, efdCount, backlog, sock>>

\* Mutant: the whole counter is compared.
HandleSignal_NoTruncation(e) ==
  /\ poll = "events" /\ e \in batch /\ ~e.hup /\ e.fd = Efd
  /\ efdCount' = 0
  /\ IF efdCount = SignalStop THEN Stop("stopped") ELSE Handled(e)
  /\ UNCHANGED <<main, epollSet, connPool, connCnt, open, interest, backlog, sock>>

\* handleSignal reads the counter and looks at its low byte.
HandleSignal(e) ==
  /\ poll = "events" /\ e \in batch /\ ~e.hup /\ e.fd = Efd
  /\ efdCount' = 0
  /\ IF efdCount % 256 = SignalStop THEN Stop("stopped") ELSE Handled(e)
  /\ UNCHANGED <<main, epollSet, connPool, connCnt, open, interest, backlog, sock>>

\* Mutant: the new connection is not put in the pool.
Accept_NotPooled(e, c) ==
  /\ poll = "events" /\ e \in batch /\ ~e.hup /\ e.fd = Ln
  /\ Ln \in open /\ Cardinality(open \cap Conns) < FdLimit
  /\ c \in backlog
  /\ backlog' = backlog \ {c}
  /\ open' = open \cup {c}
  /\ RegisterRead(c)
  /\ connCnt' = connCnt + 1
  /\ Handled(e)
  /\ UNCHANGED <<main, connPool, efdCount, sock>>

Accept(e, c) ==
  /\ poll = "events" /\ e \in batch /\ ~e.hup /\ e.fd = Ln
  /\ Ln \in open /\ Cardinality(open \cap Conns) < FdLimit
  /\ c \in backlog
  /\ backlog' = backlog \ {c}
  /\ open' = open \cup {c}
  /\ RegisterRead(c)
  /\ connPool' = connPool \cup {c}
  /\ connCnt' = connCnt + 1
  /\ Handled(e)
  /\ UNCHANGED <<main, efdCount, sock>>

\* accept fails: the fd is closed (EBADF), or the process has no fd left (EMFILE).
AcceptFails(e) ==
  /\ poll = "events" /\ e \in batch /\ ~e.hup /\ e.fd = Ln
  /\ \/ Ln \notin open /\ Stop("EBADF")
     \/ Ln \in open /\ Cardinality(open \cap Conns) >= FdLimit /\ Stop("EMFILE")
  /\ UNCHANGED <<main, epollSet, connPool, connCnt, kernelVars>>

\* IsTemporaryError looks for the names EAGAIN and EWOULDBLOCK in the text of
\* an error.
ErrorText(err) ==
  CASE err = "EAGAIN"     -> "resource temporarily unavailable"
    [] err = "ECONNRESET" -> "connection reset by peer"

IsTemporaryError(err) == ErrorText(err) \in {"EAGAIN", "EWOULDBLOCK"}

\* What Read ends with once the data is consumed.  At the end of the stream it
\* does not end: unix.Read returns 0 and no error, again and again.
ReadError(c) == IF sock[c].rst THEN "ECONNRESET" ELSE "EAGAIN"

HandleRead(e) ==
  /\ poll = "events" /\ e \in batch /\ ~e.hup /\ e.fd \in Conns
  /\ sock' = [sock EXCEPT ![e.fd].data = FALSE]
  /\ IF e.fd \notin connPool THEN Stop("notFound")
     ELSE IF sock[e.fd].fin
     THEN poll' = "spin" /\ UNCHANGED <<batch, cause>>
     ELSE IF IsTemporaryError(ReadError(e.fd)) THEN Handled(e)
     ELSE Stop(ReadError(e.fd))
  /\ UNCHANGED <<main, epollSet, connPool, connCnt, open, interest, efdCount, backlog>>

(***************************************************************************)
(* CloseGracefully, then close(done).  Each stage removes fds from epoll,  *)
(* which fails for one that is closed already, and closes them.            *)
(***************************************************************************)
Close(stage, next, fds) ==
  /\ poll = stage /\ poll' = next
  /\ interest' = interest \ (fds \cap open)
  /\ open' = open \ fds
  /\ UNCHANGED <<main, cause, batch, epollSet, connPool, connCnt, efdCount, backlog, sock>>

CloseEfd   == Close("closeEfd", "closeLn", {Efd})
CloseLn    == Close("closeLn", "closeConns", {Ln})
\* ClosAndClearAllFDs: the fds in the registry.
CloseConns == Close("closeConns", "closeEpoll", epollSet)
CloseEpoll == Close("closeEpoll", "closeDone", {Epoll})
CloseDone  == Close("closeDone", "done", {})

PollStep ==
  \/ EpollWait
  \/ \E e \in batch : \/ HandleHup(e) \/ HandleSignal(e) \/ AcceptFails(e)
                      \/ HandleRead(e)
                      \/ \E c \in Conns : Accept(e, c)
  \/ CloseEfd \/ CloseLn \/ CloseConns \/ CloseEpoll \/ CloseDone

MainStep == Run \/ SendSignal \/ Return

Environment ==
  \/ Signal
  \/ CollectListenerFile
  \/ \E c \in Conns : Connect(c) \/ \E what \in {"data", "fin", "rst"} : Peer(c, what)

Next == PollStep \/ MainStep \/ Environment

\* Both goroutines run whenever they can; clients, signals and the garbage
\* collector owe nothing.
Fairness == WF_vars(PollStep) /\ WF_vars(MainStep)

Spec == Init /\ [][Next]_vars /\ Fairness

-----------------------------------------------------------------------------
(***************************************************************************)
(* Properties.                                                             *)
(***************************************************************************)
\* The state of the two goroutines, of Poll and Registry, and of the kernel
\* is what their types allow (poll_unix.go:30, registry_unix.go:13).
TypeOK ==
  /\ main \in {"start", "select", "send", "waitDone", "returned"}
  /\ poll \in {"created", "wait", "events", "spin", "done"} \cup Closing
  /\ cause \in {"none", "stopped", "EBADF", "EMFILE", "EAGAIN", "ECONNRESET", "notFound"}
  /\ batch \subseteq [fd : Conns \cup {Efd, Ln}, hup : BOOLEAN]
  /\ epollSet \subseteq Conns /\ connPool \subseteq Conns /\ connCnt \in Nat
  /\ open \subseteq Conns \cup {Efd, Ln, Epoll}
  /\ interest \subseteq Conns \cup {Efd, Ln}
  /\ efdCount \in Nat
  /\ backlog \subseteq Conns
  /\ sock \in [Conns -> Peers]

Serving == poll \in {"created", "wait", "events", "spin"}

RegistryMatchesKernel == Serving => epollSet = interest \cap Conns

ConnCntIsExact == connCnt = Cardinality(epollSet)

\* While the loop runs, the registry's own set agrees with the kernel's list
\* of connections, through every order of accepts and hang-ups, so that
\* registerRead (registry_unix.go:29) never picks ADD or MOD wrongly; and
\* connCnt, "current fd size" (poll_unix.go:35), counts that set: each
\* connection is counted down once, by its one hang-up.
BooksMatchKernel == RegistryMatchesKernel /\ ConnCntIsExact

\* An event still to be handled is about a descriptor that is open and, if a
\* connection, in the pool and registered, whatever the events handled before
\* it in the batch did: the fd that Read calls valid (conn_unix.go:21) is,
\* and "connection not found" (poll_unix.go:187) cannot happen.  Only the
\* listener may have been closed, by the garbage collector.
BatchIsNotStale ==
  \A e \in batch : /\ e.fd \in open \/ e.fd = Ln
                   /\ e.fd \in Conns => e.fd \in connPool \cap epollSet

\* Run returns only when the poll goroutine has closed everything it knows of,
\* by the order of the two deferred calls of poll() (poll_unix.go:130): no
\* registered connection, eventfd, listener or epoll fd survives it.
MainReturnsLast ==
  main = "returned" =>
    poll = "done" /\ open \cap (epollSet \cup {Efd, Ln, Epoll}) = {}

\* Whatever lies in the 7 bytes behind the signal that sendSignal writes
\* (poll_unix.go:225), handleSignal takes what it reads for a stop.
SignalIsRecognised ==
  (poll = "events" /\ efdCount > 0) => efdCount % 256 = SignalStop

\* Once main has taken a signal, Run returns, unless the poll goroutine is
\* stuck in the Read of a connection whose peer has shut down.
StopsOrSpins == main = "send" ~> (main = "returned" \/ poll = "spin")

\* When the loop has failed, main learns it and returns without a signal
\* (reactor_unix.go:22): it never waits for a poll goroutine that is gone.
FailureEndsRun == (poll = "closeEfd") ~> (main = "returned")

(***************************************************************************)
(* What comments say, and the code does not do.                            *)
(***************************************************************************)
\* utils_unix.go:21, "IsTemporaryError checks if the error is temporary, e.g.,
\* EAGAIN or EWOULDBLOCK": reading all there is to read stops nothing.
EagainIsTemporary == cause # "EAGAIN"

\* poll_unix.go:91, "CloseGracefully order: eventfd, listener, connections,
\* epoll / prevent the fd leak": nothing is open when poll() has returned.
NoFdLeak == poll = "done" => open = {}

\* poll_unix.go:39, the eventfd is there "to wake up a blocking system / used
\* to send signal to epoll": a signal that main has taken stops the server.
SignalStops == main = "send" ~> main = "returned"
=============================================================================
