--------------------------- MODULE ReactorProofs ---------------------------
(***************************************************************************)
(* Safety of the event loop for any number of connections, any fd limit    *)
(* and any garbage behind the signal byte.                                 *)
(*                                                                         *)
(* Inv is inductive.  Beside the properties to be shown it says where a    *)
(* connection can be (Places), that a batch has at most one event per fd   *)
(* (BatchShape), which descriptors each stage of the shutdown still has    *)
(* open (Stages), and what the eventfd counter can hold (Counter).         *)
(***************************************************************************)
EXTENDS Reactor, FiniteSetTheorems, TLAPS

\* A connection waits in the backlog or has been accepted, never both.
Places ==
  /\ backlog \cap connPool = {}
  /\ epollSet \subseteq connPool /\ interest \cap Conns \subseteq connPool
  /\ \A c \in Conns : ~sock[c].connected => c \notin backlog \cup connPool

\* One event per fd, each for a registered fd, and none left outside the loop.
BatchShape ==
  /\ \A e, f \in batch : e.fd = f.fd => e = f
  /\ \A e \in batch : e.hup => e.fd \in Conns
  /\ batch # {} => poll \in {"events", "spin"}

\* What is still open, stage by stage.
Stages ==
  /\ Serving => Efd \in open
  /\ (Serving \/ poll \in {"closeEfd", "closeLn", "closeConns"}) => epollSet \subseteq open
  /\ poll \in (Closing \ {"closeEfd"}) \cup {"done"} => Efd \notin open
  /\ poll \in {"closeConns", "closeEpoll", "closeDone", "done"} => Ln \notin open
  /\ poll \in {"closeEpoll", "closeDone", "done"} => open \cap epollSet = {}
  /\ poll \in {"closeDone", "done"} => Epoll \notin open
  /\ main = "returned" => poll = "done"
  /\ main = "start" => poll = "created"

Counter ==
  /\ main \in {"start", "select", "send"} => efdCount = 0
  /\ efdCount # 0 => efdCount % 256 = SignalStop

Inv ==
  /\ TypeOK /\ RegistryMatchesKernel /\ ConnCntIsExact /\ BatchIsNotStale
  /\ Places /\ BatchShape /\ Stages /\ Counter

-----------------------------------------------------------------------------
\* Putting a connection in the registry counts one up.
LEMMA CountUp ==
  ASSUME NEW S, S \subseteq Conns, NEW c \in Conns, c \notin S
  PROVE  Cardinality(S \cup {c}) = Cardinality(S) + 1
BY ConnsAssumption, FS_Subset, FS_AddElement

\* Taking a connection out of the registry counts one down.
LEMMA CountDown ==
  ASSUME NEW S, S \subseteq Conns, NEW c \in S
  PROVE  Cardinality(S \ {c}) = Cardinality(S) - 1
BY ConnsAssumption, FS_Subset, FS_RemoveElement

\* The registry can be counted.
LEMMA CountIsNat ==
  ASSUME NEW S, S \subseteq Conns
  PROVE  Cardinality(S) \in Nat
BY ConnsAssumption, FS_Subset, FS_CardinalityType

\* The flag of an event is the flag it was built with.
LEMMA EventField ==
  ASSUME NEW fd, NEW hup, NEW e, e = [fd |-> fd, hup |-> hup]
  PROVE  e.hup = hup
OBVIOUS

\* What NewReactor and NewPoll leave behind satisfies the invariant.
LEMMA InitInv == Init => Inv
<1> SUFFICES ASSUME Init PROVE Inv
  OBVIOUS
<1> USE DEF Init
<1>1. TypeOK
  BY DEF TypeOK, Peers
<1>2. RegistryMatchesKernel
  BY NamesAssumption DEF RegistryMatchesKernel
<1>3. ConnCntIsExact
  BY FS_EmptySet DEF ConnCntIsExact
<1>4. BatchIsNotStale /\ BatchShape
  BY DEF BatchIsNotStale, BatchShape
<1>5. Places
  BY NamesAssumption DEF Places
<1>6. Stages
  BY DEF Stages, Serving, Closing
<1>7. Counter
  BY DEF Counter
<1> QED BY <1>1, <1>2, <1>3, <1>4, <1>5, <1>6, <1>7 DEF Inv

-----------------------------------------------------------------------------
\* The steps of clients, of the garbage collector and of the main goroutine.
LEMMA OutsideSteps ==
  ASSUME Inv, Environment \/ MainStep
  PROVE  Inv'
<1> USE DEF Inv, TypeOK
<1>1. ASSUME NEW c \in Conns, Connect(c) PROVE Inv'
  <2> USE <1>1 DEF Connect, pollVars, kernelVars
  <2>1. TypeOK'
    <3>1. sock' \in [Conns -> Peers]
      BY DEF Peers
    <3> QED BY <3>1
  <2>2. RegistryMatchesKernel' /\ ConnCntIsExact' /\ BatchIsNotStale'
    BY DEF RegistryMatchesKernel, ConnCntIsExact, BatchIsNotStale, Serving
  <2>3. Places'
    BY DEF Places, Peers
  <2>4. BatchShape' /\ Stages' /\ Counter'
    BY DEF BatchShape, Stages, Counter, Serving
  <2> QED BY <2>1, <2>2, <2>3, <2>4
<1>2. ASSUME NEW c \in Conns, NEW what \in {"data", "fin", "rst"}, Peer(c, what) PROVE Inv'
  <2> USE <1>2 DEF Peer, pollVars, kernelVars
  <2>1. sock' \in [Conns -> Peers] /\ \A d \in Conns : sock'[d].connected = sock[d].connected
    BY DEF Peers
  <2>2. TypeOK'
    BY <2>1
  <2>3. RegistryMatchesKernel' /\ ConnCntIsExact' /\ BatchIsNotStale'
    BY DEF RegistryMatchesKernel, ConnCntIsExact, BatchIsNotStale, Serving
  <2>4. Places'
    BY <2>1 DEF Places
  <2>5. BatchShape' /\ Stages' /\ Counter'
    BY DEF BatchShape, Stages, Counter, Serving
  <2> QED BY <2>2, <2>3, <2>4, <2>5
<1>3. ASSUME CollectListenerFile PROVE Inv'
  <2> USE <1>3 DEF CollectListenerFile, pollVars, kernelVars
  <2>1. TypeOK' /\ RegistryMatchesKernel' /\ ConnCntIsExact' /\ Places' /\ BatchShape' /\ Counter'
    BY DEF RegistryMatchesKernel, ConnCntIsExact, Serving, Places, BatchShape, Counter
  <2>2. BatchIsNotStale'
    BY DEF BatchIsNotStale
  <2>3. Stages'
    BY NamesAssumption DEF Stages, Serving
  <2> QED BY <2>1, <2>2, <2>3
<1>4. ASSUME Signal PROVE Inv'
  BY <1>4 DEF Signal, pollVars, kernelVars, RegistryMatchesKernel, ConnCntIsExact,
     BatchIsNotStale, Serving, Places, BatchShape, Stages, Counter
<1>5. ASSUME Run PROVE Inv'
  <2> USE <1>5 DEF Run, kernelVars
  <2>1. TypeOK' /\ ConnCntIsExact' /\ BatchIsNotStale' /\ Places' /\ Counter'
    BY DEF ConnCntIsExact, BatchIsNotStale, Places, Counter
  <2> QED BY <2>1 DEF RegistryMatchesKernel, Serving, BatchShape, Stages, Closing
<1>6. ASSUME SendSignal PROVE Inv'
  <2> USE <1>6 DEF SendSignal, pollVars
  <2>1. PICK g \in Garbage :
          efdCount' = IF Efd \in open THEN efdCount + SignalStop + 256 * g ELSE efdCount
    OBVIOUS
  <2>2. g \in Nat /\ efdCount = 0
    BY GarbageAssumption DEF Counter
  <2>3. efdCount' \in Nat /\ (efdCount' # 0 => efdCount' % 256 = SignalStop)
    BY <2>1, <2>2 DEF SignalStop
  <2>4. TypeOK' /\ Counter'
    BY <2>3 DEF Counter
  <2> QED BY <2>4 DEF RegistryMatchesKernel, ConnCntIsExact, BatchIsNotStale, Serving,
             Places, BatchShape, Stages
<1>7. ASSUME Return PROVE Inv'
  BY <1>7 DEF Return, pollVars, kernelVars, RegistryMatchesKernel, ConnCntIsExact,
     BatchIsNotStale, Serving, Places, BatchShape, Stages, Counter
<1> QED BY <1>1, <1>2, <1>3, <1>4, <1>5, <1>6, <1>7 DEF Environment, MainStep

-----------------------------------------------------------------------------
\* The steps of the poll goroutine that handle the events of one EpollWait.
LEMMA EventSteps ==
  ASSUME Inv, NEW e \in batch,
         HandleHup(e) \/ HandleSignal(e) \/ AcceptFails(e) \/ HandleRead(e)
           \/ \E c \in Conns : Accept(e, c)
  PROVE  Inv'
<1> USE DEF Inv, TypeOK
<1>0. /\ poll = "events" /\ main # "returned" /\ main # "start"
      /\ e.fd \in Conns \cup {Efd, Ln}
  BY DEF HandleHup, HandleSignal, AcceptFails, HandleRead, Accept, Stages
<1>1. ASSUME HandleHup(e) PROVE Inv'
  <2> USE <1>0, <1>1 DEF HandleHup, Handled, Unregister
  <2>1. e.fd \in Conns /\ e.fd \in epollSet
    BY DEF BatchShape, BatchIsNotStale
  <2>2. ConnCntIsExact' /\ connCnt' \in Nat
    <3>1. Cardinality(epollSet \ {e.fd}) = Cardinality(epollSet) - 1
      BY <2>1, CountDown
    <3>2. Cardinality(epollSet \ {e.fd}) \in Nat
      BY CountIsNat
    <3> QED BY <3>1, <3>2 DEF ConnCntIsExact
  <2>3. TypeOK'
    BY <2>2
  <2>4. RegistryMatchesKernel'
    BY <2>1 DEF RegistryMatchesKernel, Serving
  <2>5. BatchIsNotStale' /\ BatchShape'
    BY DEF BatchIsNotStale, BatchShape
  <2>6. Places'
    BY DEF Places
  <2>7. Stages' /\ Counter'
    BY DEF Stages, Counter, Serving, Closing
  <2> QED BY <2>2, <2>3, <2>4, <2>5, <2>6, <2>7
<1>2. ASSUME HandleSignal(e) PROVE Inv'
  <2> USE <1>0, <1>2 DEF HandleSignal, Handled, Stop
  <2>1. TypeOK'
    BY DEF Closing
  <2>2. RegistryMatchesKernel' /\ ConnCntIsExact' /\ BatchIsNotStale' /\ BatchShape' /\ Places'
    BY DEF RegistryMatchesKernel, ConnCntIsExact, BatchIsNotStale, BatchShape, Places, Serving
  <2>3. Stages' /\ Counter'
    BY DEF Stages, Counter, Serving, Closing
  <2> QED BY <2>1, <2>2, <2>3
<1>3. ASSUME AcceptFails(e) PROVE Inv'
  <2> USE <1>0, <1>3 DEF AcceptFails, Stop, kernelVars
  <2>1. TypeOK'
    BY DEF Closing
  <2>2. RegistryMatchesKernel' /\ ConnCntIsExact' /\ BatchIsNotStale' /\ BatchShape' /\ Places'
    BY DEF RegistryMatchesKernel, ConnCntIsExact, BatchIsNotStale, BatchShape, Places, Serving
  <2>3. Stages' /\ Counter'
    BY DEF Stages, Counter, Serving, Closing
  <2> QED BY <2>1, <2>2, <2>3
<1>4. ASSUME HandleRead(e) PROVE Inv'
  <2> USE <1>0, <1>4 DEF HandleRead
  <2>1. /\ sock' \in [Conns -> Peers]
        /\ \A d \in Conns : sock'[d].connected = sock[d].connected
    <3> DEFINE fd == e.fd
    <3>1. fd \in Conns /\ sock' = [sock EXCEPT ![fd].data = FALSE]
      OBVIOUS
    <3>2. sock \in [Conns -> Peers]
      OBVIOUS
    <3> HIDE <1>0, <1>4 DEF fd, Inv, TypeOK, HandleRead
    <3> QED BY <3>1, <3>2 DEF Peers
  <2>2. \/ UNCHANGED <<batch, cause>> /\ poll' = "spin"
        \/ Handled(e)
        \/ \E err \in {"notFound", "EAGAIN", "ECONNRESET"} : Stop(err)
    BY DEF ReadError
  <2>3. batch' \subseteq batch /\ poll' \in {"wait", "events", "spin", "closeEfd"}
        /\ (batch' # {} => poll' \in {"events", "spin"})
        /\ cause' \in {cause, "notFound", "EAGAIN", "ECONNRESET"}
    BY <2>2 DEF Handled, Stop
  <2> HIDE <1>4
  <2>4. UNCHANGED <<main, epollSet, connPool, connCnt, open, interest, efdCount, backlog>>
    BY <1>4
  <2>5. TypeOK'
    BY <2>1, <2>3, <2>4 DEF Closing
  <2>6. RegistryMatchesKernel' /\ ConnCntIsExact' /\ BatchIsNotStale' /\ BatchShape'
    BY <2>3, <2>4 DEF RegistryMatchesKernel, ConnCntIsExact, BatchIsNotStale, BatchShape, Serving
  <2>7. Places'
    BY <2>1, <2>4 DEF Places
  <2>8. Stages' /\ Counter'
    BY <2>3, <2>4 DEF Stages, Counter, Serving, Closing
  <2> QED BY <2>5, <2>6, <2>7, <2>8
<1>5. ASSUME NEW c \in Conns, Accept(e, c) PROVE Inv'
  <2> USE <1>0, <1>5 DEF Accept, Handled, RegisterRead
  <2>1. c \notin connPool /\ c \notin epollSet
    BY DEF Places
  <2>2. ConnCntIsExact'
    BY <2>1, CountUp DEF ConnCntIsExact
  <2>3. TypeOK'
    OBVIOUS
  <2>4. RegistryMatchesKernel'
    BY DEF RegistryMatchesKernel, Serving
  <2>5. BatchIsNotStale' /\ BatchShape'
    BY DEF BatchIsNotStale, BatchShape
  <2>6. Places'
    BY DEF Places
  <2>7. Stages' /\ Counter'
    BY DEF Stages, Counter, Serving, Closing
  <2> QED BY <2>2, <2>3, <2>4, <2>5, <2>6, <2>7
<1> QED BY <1>1, <1>2, <1>3, <1>4, <1>5

\* EpollWait, and the stages of the shutdown.
LEMMA LoopSteps ==
  ASSUME Inv, EpollWait \/ CloseEfd \/ CloseLn \/ CloseConns \/ CloseEpoll \/ CloseDone
  PROVE  Inv'
<1> USE DEF Inv, TypeOK
<1>1. ASSUME EpollWait PROVE Inv'
  <2> USE <1>1 DEF EpollWait, kernelVars
  <2>1. Ready \subseteq interest /\ main # "returned"
    BY DEF Ready, Stages
  <2>2. \A f \in batch' : /\ f.fd \in interest
                         /\ f = [fd |-> f.fd, hup |-> f.fd \in Conns /\ sock[f.fd].rst]
    BY <2>1
  <2>3. \A f \in batch' : f \in [fd : Conns \cup {Efd, Ln}, hup : BOOLEAN]
    <3> TAKE f \in batch'
    <3> DEFINE hup == f.fd \in Conns /\ sock[f.fd].rst
    <3>1. hup \in BOOLEAN /\ f.fd \in Conns \cup {Efd, Ln}
      BY <2>2
    <3>2. f = [fd |-> f.fd, hup |-> hup]
      BY <2>2
    <3> HIDE DEF hup
    <3> QED BY <3>1, <3>2
  <2>4. TypeOK'
    BY <2>3
  <2>5. BatchIsNotStale'
    BY <2>2 DEF BatchIsNotStale, RegistryMatchesKernel, Serving, Places, Stages
  <2>6. BatchShape'
    <3>1. \A d, f \in batch' : d.fd = f.fd => d = f
      BY <2>2, Zenon
    <3>2. \A f \in batch' : f.hup => f.fd \in Conns
      <4> SUFFICES ASSUME NEW f \in batch', f.hup PROVE f.fd \in Conns
        OBVIOUS
      <4> DEFINE hup == f.fd \in Conns /\ sock[f.fd].rst
      <4>0. f = [fd |-> f.fd, hup |-> hup]
        BY <2>2
      <4>1. f.hup = hup
        BY <4>0, EventField, Zenon
      <4> QED BY <4>1, Zenon
    <3> QED BY <3>1, <3>2 DEF BatchShape
  <2> QED BY <2>1, <2>4, <2>5, <2>6 DEF RegistryMatchesKernel, ConnCntIsExact, Serving,
             Places, Stages, Counter, Closing
<1>2. ASSUME NEW stage, NEW next, NEW fds, Close(stage, next, fds),
             stage \in Closing, next \in (Closing \ {"closeEfd"}) \cup {"done"}, Stages'
      PROVE  Inv'
  <2> USE <1>2 DEF Close
  <2>1. batch = {}
    BY DEF BatchShape, Closing
  <2>2. TypeOK'
    OBVIOUS
  <2>3. RegistryMatchesKernel' /\ ConnCntIsExact' /\ BatchIsNotStale' /\ BatchShape'
    BY <2>1 DEF RegistryMatchesKernel, ConnCntIsExact, BatchIsNotStale, BatchShape, Serving, Closing
  <2>4. Places' /\ Counter'
    BY DEF Places, Counter
  <2> QED BY <2>2, <2>3, <2>4
<1>3. ASSUME CloseEfd PROVE Inv'
  <2>1. Stages'
    BY <1>3, NamesAssumption DEF CloseEfd, Close, Stages, Serving, Closing
  <2> QED BY <1>2, <1>3, <2>1 DEF CloseEfd, Closing
<1>4. ASSUME CloseLn PROVE Inv'
  <2>1. Stages'
    BY <1>4, NamesAssumption DEF CloseLn, Close, Stages, Serving, Closing
  <2> QED BY <1>2, <1>4, <2>1 DEF CloseLn, Closing
<1>5. ASSUME CloseConns PROVE Inv'
  <2>1. Stages'
    BY <1>5, NamesAssumption DEF CloseConns, Close, Stages, Serving, Closing
  <2> QED BY <1>2, <1>5, <2>1 DEF CloseConns, Closing
<1>6. ASSUME CloseEpoll PROVE Inv'
  <2>1. Stages'
    BY <1>6, NamesAssumption DEF CloseEpoll, Close, Stages, Serving, Closing
  <2> QED BY <1>2, <1>6, <2>1 DEF CloseEpoll, Closing
<1>7. ASSUME CloseDone PROVE Inv'
  <2>1. Stages'
    BY <1>7, NamesAssumption DEF CloseDone, Close, Stages, Serving, Closing
  <2> QED BY <1>2, <1>7, <2>1 DEF CloseDone, Closing
<1> QED BY <1>1, <1>3, <1>4, <1>5, <1>6, <1>7

\* Every step of every actor preserves the invariant.
LEMMA NextInv == Inv /\ [Next]_vars => Inv'
<1> SUFFICES ASSUME Inv, [Next]_vars PROVE Inv'
  OBVIOUS
<1>1. CASE PollStep
  BY <1>1, EventSteps, LoopSteps DEF PollStep
<1>2. CASE MainStep \/ Environment
  BY <1>2, OutsideSteps
<1>3. CASE UNCHANGED vars
  BY <1>3 DEF vars, pollVars, kernelVars, Inv, TypeOK, RegistryMatchesKernel, ConnCntIsExact,
     BatchIsNotStale, Serving, Places, BatchShape, Stages, Counter
<1> QED BY <1>1, <1>2, <1>3 DEF Next

\* The invariant holds in every reachable state.
LEMMA InvHolds == Spec => []Inv
BY InitInv, NextInv, PTL DEF Spec

-----------------------------------------------------------------------------
\* The two goroutines, Poll, Registry and the kernel keep to their types
\* (poll_unix.go:30, registry_unix.go:13).
THEOREM TypeCorrect == Spec => []TypeOK
<1>1. Inv => TypeOK
  BY DEF Inv
<1> QED BY <1>1, InvHolds, PTL

\* registerRead and unregister (registry_unix.go:25, 68) keep Registry.epollSet
\* equal to what the kernel watches, and connCnt counts it, for any number of
\* connections that come and go in any order.
THEOREM RegistryIsExact == Spec => []BooksMatchKernel
<1>1. Inv => BooksMatchKernel
  BY DEF Inv, BooksMatchKernel
<1> QED BY <1>1, InvHolds, PTL

\* processEvent (poll_unix.go:166) never meets an event for a connection that
\* an earlier event of the same batch has removed.
THEOREM BatchesAreFresh == Spec => []BatchIsNotStale
<1>1. Inv => BatchIsNotStale
  BY DEF Inv
<1> QED BY <1>1, InvHolds, PTL

\* Reactor.Run (reactor_unix.go:18) returns after CloseGracefully has closed
\* every descriptor the poll knows of.
THEOREM RunReturnsLast == Spec => []MainReturnsLast
<1>1. Inv => MainReturnsLast
  BY DEF Inv, Stages, MainReturnsLast, Closing
<1> QED BY <1>1, InvHolds, PTL

\* The truncation in handleSignal (poll_unix.go:207) undoes whatever sendSignal
\* (poll_unix.go:223) writes behind the signal byte.
THEOREM SignalsAreRecognised == Spec => []SignalIsRecognised
<1>1. Inv => SignalIsRecognised
  BY DEF Inv, TypeOK, Counter, SignalIsRecognised
<1> QED BY <1>1, InvHolds, PTL
=============================================================================
