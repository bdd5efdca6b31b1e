-------------------------- MODULE HttpWorkerProofs --------------------------
(***************************************************************************)
(* The safety of the server's workers for any number of workers, clients,  *)
(* requests and threads.  IInv says whose data a worker's buffer, parser   *)
(* and response hold while its socket is open, with any number of threads; *)
(* SingleInv says what a single thread adds to it: nothing happens between *)
(* the steps of a timer's handler, so its deadline is the one it found.    *)
(***************************************************************************)
EXTENDS HttpWorker, FiniteSetTheorems, TLAPS

\* Sequences of requests of one client.
Own(c) == {r \in Requests : r.client = c}
OwnRequests(c) == Seq(Own(c))

ClientTypes ==
    /\ threads \in ThreadCounts
    /\ gone \subseteq Clients
    /\ inbox \in [Clients -> Seq(Requests)]
    /\ \A c \in Clients : inbox[c] \in OwnRequests(c)

SocketTypes ==
    /\ sock \in [Workers -> Clients \cup {None}]
    /\ op \in [Workers -> {"accept", "read", "write"}]
    /\ done \in [Workers -> {"pending", "ok", "error"}]
    /\ accepted \in [Workers -> Clients \cup {None}]
    /\ buffer \in [Workers -> Seq(Requests)]
    /\ request \in [Workers -> Requests \cup {None}]
    /\ response \in [Workers -> Requests \cup {None}]

TimerTypes ==
    /\ deadline \in [Workers -> {"max", "later", "passed"}]
    /\ timer \in [Workers -> {"waiting", "queued", "closing", "setMax"}]
    /\ owner \in [Workers -> Clients \cup {None}]
    /\ down \in BOOLEAN

\* An accepting worker has no socket, no data, and a connection only when its
\* operation has ended well.
Accepting ==
    \A w \in Workers : op[w] = "accept" =>
      /\ sock[w] = None /\ buffer[w] = <<>>
      /\ done[w] = "ok" => accepted[w] \in Clients

\* As long as the socket is open, what was read ahead, what was parsed and
\* what is answered are its client's, and so is the deadline.
Owned ==
    \A w \in Workers :
      /\ sock[w] # None => buffer[w] \in OwnRequests(sock[w]) /\ owner[w] = sock[w]
      /\ op[w] = "read" /\ done[w] = "ok" =>
           request[w] \in Requests /\ (sock[w] # None => request[w].client = sock[w])
      /\ op[w] = "write" =>
           response[w] \in Requests /\ (sock[w] # None => response[w].client = sock[w])

IInv ==
    ClientTypes /\ SocketTypes /\ TimerTypes /\ Accepting /\ Owned /\ AnswersOwn

-----------------------------------------------------------------------------
LEMMA RequestFacts ==
    /\ None \notin Clients /\ None \notin Requests
    /\ \A c \in Clients, k \in Kinds : [client |-> c, kind |-> k] \in Requests
    /\ \A r \in Requests : r.client \in Clients /\ r # None
BY WorkerAssumption DEF Requests

LEMMA OwnFacts ==
    ASSUME NEW c \in Clients, NEW s \in OwnRequests(c), NEW t \in OwnRequests(c)
    PROVE  /\ s \o t \in OwnRequests(c) /\ s \in Seq(Requests)
           /\ s # <<>> => /\ Tail(s) \in OwnRequests(c) /\ Tail(s) \in Seq(Requests)
                         /\ Head(s) \in Requests /\ Head(s).client = c
<1>1. Own(c) \subseteq Requests /\ \A r \in Own(c) : r.client = c
  BY DEF Own
<1> HIDE DEF Own
<1>2. s \o t \in OwnRequests(c)
  BY DEF OwnRequests
<1>3. s # <<>> => Tail(s) \in OwnRequests(c) /\ Head(s) \in Own(c)
  BY DEF OwnRequests
<1>4. OwnRequests(c) \subseteq Seq(Requests)
  BY <1>1 DEF OwnRequests
<1> QED
  BY <1>1, <1>2, <1>3, <1>4

LEMMA EmptyOwn == \A c : <<>> \in OwnRequests(c) /\ <<>> \in Seq(Requests)
BY DEF OwnRequests

LEMMA InitInv == Init => IInv
<1> SUFFICES ASSUME Init PROVE IInv
  OBVIOUS
<1> USE RequestFacts, EmptyOwn DEF Init
<1>1. ClientTypes /\ SocketTypes /\ TimerTypes
  BY DEF ClientTypes, SocketTypes, TimerTypes
<1>2. Accepting /\ Owned /\ AnswersOwn
  BY DEF Accepting, Owned, AnswersOwn
<1> QED
  BY <1>1, <1>2 DEF IInv

\* The clients' steps touch no worker.
LEMMA ClientInv ==
    IInv /\ (\E c \in Clients : Connect(c) \/ Send(c) \/ Leave(c)) /\ UNCHANGED threads => IInv'
<1> SUFFICES ASSUME IInv, NEW c \in Clients, Connect(c) \/ Send(c) \/ Leave(c), UNCHANGED threads
             PROVE  IInv'
  OBVIOUS
<1> USE RequestFacts
    DEF sockVars, timerVars, IInv, ClientTypes, SocketTypes, TimerTypes, Accepting, Owned,
        AnswersOwn
<1>1. CASE Connect(c)
  BY <1>1 DEF Connect
<1>2. CASE Send(c)
  <2>1. PICK k \in Kinds : inbox' = [inbox EXCEPT ![c] = Append(@, [client |-> c, kind |-> k])]
    BY <1>2 DEF Send
  <2>2. Append(inbox[c], [client |-> c, kind |-> k]) \in OwnRequests(c)
    BY DEF OwnRequests, Own
  <2>3. Append(inbox[c], [client |-> c, kind |-> k]) \in Seq(Requests)
    OBVIOUS
  <2>4. ClientTypes'
    BY <1>2, <2>1, <2>2, <2>3 DEF Send
  <2> QED
    BY <1>2, <2>4 DEF Send
<1>3. CASE Leave(c)
  BY <1>3 DEF Leave
<1> QED
  BY <1>1, <1>2, <1>3

LEMMA DoneInv ==
    IInv /\ (\E w \in Workers : AcceptDone(w) \/ ReadDone(w) \/ WriteDone(w))
         /\ UNCHANGED threads => IInv'
<1> SUFFICES ASSUME IInv, NEW w \in Workers, AcceptDone(w) \/ ReadDone(w) \/ WriteDone(w),
                    UNCHANGED threads
             PROVE  IInv'
  OBVIOUS
<1> USE RequestFacts
    DEF timerVars, IInv, ClientTypes, SocketTypes, TimerTypes, Accepting, Owned, AnswersOwn
<1>1. CASE AcceptDone(w)
  <2>1. PICK c \in Clients :
          \/ accepted' = [accepted EXCEPT ![w] = c] /\ done' = [done EXCEPT ![w] = "ok"]
          \/ done' = [done EXCEPT ![w] = "error"] /\ UNCHANGED accepted
    BY <1>1 DEF AcceptDone
  <2>2. /\ op[w] = "accept"
        /\ UNCHANGED <<gone, inbox, sent, answered, sock, op, buffer, request, response,
                       timerVars, down>>
    BY <1>1 DEF AcceptDone
  <2>3. ClientTypes' /\ TimerTypes'
    BY <2>2
  <2>4. CASE accepted' = [accepted EXCEPT ![w] = c] /\ done' = [done EXCEPT ![w] = "ok"]
    <3>1. SocketTypes'
      BY <2>2, <2>4
    <3>2. Accepting' /\ AnswersOwn'
      BY <2>2, <2>4
    <3>3. Owned'
      BY <2>2, <2>4
    <3> QED
      BY <2>3, <3>1, <3>2, <3>3
  <2>5. CASE done' = [done EXCEPT ![w] = "error"] /\ UNCHANGED accepted
    <3>1. SocketTypes'
      BY <2>2, <2>5
    <3>2. Accepting' /\ AnswersOwn'
      BY <2>2, <2>5
    <3>3. Owned'
      BY <2>2, <2>5
    <3> QED
      BY <2>3, <3>1, <3>2, <3>3
  <2> QED
    BY <2>1, <2>4, <2>5
<1>2. CASE ReadDone(w)
  <2> DEFINE c == sock[w]
             data == buffer[w] \o inbox[c]
  <2>1. c \in Clients /\ op[w] = "read" /\ done[w] = "pending"
    BY <1>2 DEF ReadDone
  <2>2. data \in OwnRequests(c)
    <3>1. buffer[w] \in OwnRequests(c) /\ inbox[c] \in OwnRequests(c)
      BY <2>1
    <3> QED
      BY ONLY <3>1, <2>1, OwnFacts DEF data
  <2>3. data # <<>> => /\ Tail(data) \in OwnRequests(c) /\ Tail(data) \in Seq(Requests)
                       /\ Head(data) \in Requests /\ Head(data).client = c
    BY <2>1, <2>2, OwnFacts
  <2>4. <<>> \in OwnRequests(c) /\ <<>> \in Seq(Requests)
    BY EmptyOwn
  <2> HIDE DEF data
  <2>5. UNCHANGED <<conn, gone, sent, answered, sock, op, accepted, response, timerVars, down>>
    BY <1>2 DEF ReadDone
  <2>6. CASE data # <<>>
    <3>1. inbox' = [inbox EXCEPT ![c] = <<>>] /\ buffer' = [buffer EXCEPT ![w] = Tail(data)]
      BY <1>2, <2>6 DEF ReadDone, data
    <3>2. \/ done' = [done EXCEPT ![w] = "error"] /\ request' = request
          \/ /\ done' = [done EXCEPT ![w] = "ok"]
             /\ request' = [request EXCEPT ![w] = Head(data)]
      BY <1>2, <2>6 DEF ReadDone, data
    <3>3. ClientTypes'
      BY <2>1, <2>4, <2>5, <3>1
    <3>4. SocketTypes' /\ TimerTypes'
      <4>1. buffer' \in [Workers -> Seq(Requests)]
        BY <2>3, <2>6, <3>1
      <4>2. request' \in [Workers -> Requests \cup {None}]
        <5>1. Head(data) \in Requests
          BY <2>3, <2>6
        <5>2. request \in [Workers -> Requests \cup {None}]
          OBVIOUS
        <5> QED
          BY ONLY <3>2, <5>1, <5>2
      <4>3. done' \in [Workers -> {"pending", "ok", "error"}]
        BY <3>2
      <4> QED
        BY <2>5, <4>1, <4>2, <4>3
    <3>5. Accepting' /\ AnswersOwn'
      BY <2>1, <2>5, <3>1, <3>2
    <3>6. Owned'
      BY <2>1, <2>3, <2>5, <2>6, <3>1, <3>2
    <3> QED
      BY <3>3, <3>4, <3>5, <3>6
  <2>7. CASE data = <<>>
    <3>1. done' = [done EXCEPT ![w] = "error"] /\ UNCHANGED <<inbox, buffer, request>>
      BY <1>2, <2>7 DEF ReadDone, data
    <3>2. ClientTypes' /\ SocketTypes' /\ TimerTypes' /\ Accepting' /\ AnswersOwn'
      BY <2>1, <2>5, <3>1
    <3>3. Owned'
      BY <2>1, <2>5, <3>1
    <3> QED
      BY <3>2, <3>3
  <2> QED
    BY <2>6, <2>7
<1>3. CASE WriteDone(w)
  <2>1. /\ op[w] = "write" /\ sock[w] # None
        /\ answered' \in {answered, answered \cup {<<sock[w], response[w].client>>}}
        /\ \E d \in {"ok", "error"} : done' = [done EXCEPT ![w] = d]
        /\ UNCHANGED <<conn, gone, inbox, sent, sock, op, accepted, buffer, request,
                       response, timerVars, down>>
    BY <1>3 DEF WriteDone
  <2>2. AnswersOwn'
    <3>1. response[w].client = sock[w]
      BY <2>1
    <3>2. \A p \in answered' : p \in answered \/ p = <<sock[w], sock[w]>>
      BY <2>1, <3>1
    <3>3. <<sock[w], sock[w]>>[1] = <<sock[w], sock[w]>>[2]
      OBVIOUS
    <3> QED
      BY ONLY <3>2, <3>3, AnswersOwn DEF AnswersOwn
  <2>3. ClientTypes' /\ SocketTypes' /\ TimerTypes'
    BY <2>1
  <2>4. Accepting' /\ Owned'
    BY <2>1
  <2> QED
    BY <2>2, <2>3, <2>4
<1> QED
  BY <1>1, <1>2, <1>3

LEMMA HandlerInv == IInv /\ (\E w \in Workers : Handler(w)) /\ UNCHANGED threads => IInv'
<1> SUFFICES ASSUME IInv, NEW w \in Workers, Handler(w), UNCHANGED threads
             PROVE  IInv'
  OBVIOUS
<1> USE RequestFacts
    DEF timerVars, IInv, ClientTypes, SocketTypes, TimerTypes, Accepting, Owned, AnswersOwn
<1> DEFINE Closed == /\ sock' = [sock EXCEPT ![w] = None]
                     /\ buffer' = [buffer EXCEPT ![w] = <<>>]
                     /\ op' = [op EXCEPT ![w] = "accept"]
                     /\ done' = [done EXCEPT ![w] = "pending"]
<1>0. ASSUME Closed, UNCHANGED <<gone, inbox, answered, accepted, request, timerVars, down>>,
             response' = response \/ response' = [response EXCEPT ![w] = None]
      PROVE  IInv'
  <2>1. ClientTypes' /\ TimerTypes' /\ AnswersOwn'
    BY <1>0
  <2>2. SocketTypes'
    BY <1>0, EmptyOwn
  <2>3. Accepting' /\ Owned'
    BY <1>0
  <2> QED
    BY <2>1, <2>2, <2>3
<1>1. CASE AcceptHandler(w)
  <2>1. CASE done[w] = "error"
    BY <1>0, <1>1, <2>1 DEF AcceptHandler, Accept, CloseSocket, Consumed, Begin
  <2>2. CASE done[w] = "ok"
    <3>1. /\ sock' = [sock EXCEPT ![w] = accepted[w]]
          /\ accepted' = [accepted EXCEPT ![w] = None]
          /\ owner' = [owner EXCEPT ![w] = accepted[w]]
          /\ request' = [request EXCEPT ![w] = None]
          /\ op' = [op EXCEPT ![w] = "read"]
          /\ done' = [done EXCEPT ![w] = "pending"]
          /\ deadline' = [deadline EXCEPT ![w] = "later"]
          /\ timer' = [timer EXCEPT ![w] = IF @ = "waiting" THEN "queued" ELSE @]
          /\ UNCHANGED <<conn, buffer, gone, inbox, answered, response, down>>
      BY <1>1, <2>2 DEF AcceptHandler, Begin, Expiring
    <3>2. accepted[w] \in Clients /\ buffer[w] = <<>>
      BY <1>1, <2>2 DEF AcceptHandler
    <3>3. ClientTypes' /\ AnswersOwn'
      BY <3>1
    <3>4. TimerTypes'
      BY <3>1, <3>2
    <3>5. SocketTypes'
      BY <3>1, <3>2
    <3>6. Accepting'
      BY <3>1
    <3>7. Owned'
      BY <3>1, <3>2, EmptyOwn
    <3> QED
      BY <3>3, <3>4, <3>5, <3>6, <3>7
  <2> QED
    BY <1>1, <2>1, <2>2 DEF AcceptHandler
<1>2. CASE ReadHandler(w)
  <2>1. CASE done[w] = "error"
    BY <1>0, <1>2, <2>1 DEF ReadHandler, Accept, CloseSocket, Consumed, Begin
  <2>2. CASE done[w] = "ok"
    <3>1. op[w] = "read" /\ UNCHANGED <<gone, inbox, answered, accepted, request, timerVars,
                                        sock, buffer>>
      BY <1>2, <2>2 DEF ReadHandler
    <3>2. CASE UNCHANGED <<op, done, response>> /\ down' = TRUE
      BY <3>1, <3>2
    <3>3. CASE Respond(w) /\ down' = down
      <4>1. request[w] \in Requests /\ (sock[w] # None => request[w].client = sock[w])
        BY <2>2, <3>1
      <4>2. /\ response' = [response EXCEPT ![w] = request[w]]
            /\ op' = [op EXCEPT ![w] = "write"]
            /\ \E d \in {"error", "pending"} : done' = [done EXCEPT ![w] = d]
        BY <3>3 DEF Respond, Begin
      <4>3. ClientTypes' /\ AnswersOwn' /\ TimerTypes'
        BY <3>1, <3>3
      <4>4. SocketTypes'
        BY <3>1, <4>1, <4>2
      <4>5. Accepting' /\ Owned'
        BY <3>1, <4>1, <4>2
      <4> QED
        BY <4>3, <4>4, <4>5
    <3> QED
      BY <1>2, <2>2, <3>2, <3>3 DEF ReadHandler
  <2> QED
    BY <1>2, <2>1, <2>2 DEF ReadHandler
<1>3. CASE WriteHandler(w)
  BY <1>0, <1>3 DEF WriteHandler, Accept, CloseSocket, Consumed, Begin
<1> QED
  BY <1>1, <1>2, <1>3 DEF Handler

LEMMA TimerInv ==
    IInv /\ (\E w \in Workers : Timer(w) \/ TimePasses(w)) /\ UNCHANGED threads => IInv'
<1> SUFFICES ASSUME IInv, NEW w \in Workers, Timer(w) \/ TimePasses(w), UNCHANGED threads
             PROVE  IInv'
  OBVIOUS
<1> USE RequestFacts
    DEF clientVars, sockVars, IInv, ClientTypes, SocketTypes, TimerTypes, Accepting, Owned,
        AnswersOwn
<1>1. CASE CheckTimeout(w)
  BY <1>1 DEF CheckTimeout, Expired
<1>2. CASE TimerClose(w)
  BY <1>2 DEF TimerClose, CloseSocket
<1>3. CASE TimerSetMax(w)
  BY <1>3 DEF TimerSetMax
<1>4. CASE TimePasses(w)
  BY <1>4 DEF TimePasses
<1> QED
  BY <1>1, <1>2, <1>3, <1>4 DEF Timer

LEMMA StutterInv == IInv /\ UNCHANGED vars => IInv'
BY DEF vars, state, clientVars, sockVars, timerVars, IInv, ClientTypes, SocketTypes,
       TimerTypes, Accepting, Owned, AnswersOwn

\* The inductive invariant holds in every reachable state.
THEOREM Invariance == Spec => []IInv
<1>1. IInv /\ [Next]_vars => IInv'
  BY ClientInv, DoneInv, HandlerInv, TimerInv, StutterInv DEF Next
<1> QED
  BY <1>1, InitInv, PTL DEF Spec

\* Whatever the number of threads, nobody gets the answer to somebody else's
\* request, although connections follow each other on one buffer and parser.
THEOREM AnswersTheirOwn == Spec => []AnswersOwn
<1>1. IInv => AnswersOwn
  BY DEF IInv
<1> QED
  BY <1>1, Invariance, PTL

-----------------------------------------------------------------------------
(* A single thread.                                                        *)

\* A timer handler under way found its deadline passed, which is its own
\* connection's; what it has closed under a finished read was overdue.
SingleInv ==
    threads = 1 =>
      /\ \A w \in Workers :
           /\ deadline[w] = "passed" => owner[w] \in overdue
           /\ timer[w] \in {"closing", "setMax"} => deadline[w] = "passed"
           /\ op[w] = "read" /\ done[w] = "ok" /\ sock[w] = None => request[w].client \in overdue
      /\ DownOnlyLate

\* While a timer's handler runs on the only thread, no other handler does.
LEMMA OneThread ==
    ASSUME SocketTypes, TimerTypes, threads = 1, ThreadFree
    PROVE  \A w \in Workers : timer[w] \notin {"closing", "setMax"}
<1>1. IsFiniteSet(InTimer)
  BY WorkerAssumption, FS_Subset DEF InTimer
<1>2. Cardinality(InTimer) \in Nat /\ Cardinality(InTimer) < 1
  BY <1>1, FS_CardinalityType DEF ThreadFree
<1>3. InTimer = {}
  BY <1>1, <1>2, FS_EmptySet
<1> QED
  BY <1>3 DEF InTimer

LEMMA SingleStep == IInv /\ SingleInv /\ [Next]_vars => SingleInv'
<1> SUFFICES ASSUME IInv, SingleInv, [Next]_vars, threads = 1, threads' = 1
             PROVE  SingleInv'
  BY DEF SingleInv, Next, vars
<1>0. ~down \/ UNCHANGED vars
  BY DEF Next, Connect, Send, Leave, AcceptDone, ReadDone, WriteDone, Handler, AcceptHandler,
         ReadHandler, WriteHandler, ThreadFree, TimePasses, Timer, CheckTimeout, TimerClose,
         TimerSetMax, vars
<1> USE RequestFacts DEF SingleInv, DownOnlyLate
<1>1. CASE UNCHANGED vars
  BY <1>1 DEF vars, state, clientVars, sockVars, timerVars
<1>2. CASE ~down /\ \E c \in Clients : Connect(c) \/ Send(c) \/ Leave(c)
  BY <1>2 DEF Connect, Send, Leave, sockVars, timerVars
<1>3. CASE ~down /\ \E w \in Workers : AcceptDone(w) \/ ReadDone(w) \/ WriteDone(w)
  <2>1. PICK w \in Workers : AcceptDone(w) \/ ReadDone(w) \/ WriteDone(w)
    BY <1>3
  <2>2. UNCHANGED <<op, sock, timerVars, down>>
    BY <2>1 DEF AcceptDone, ReadDone, WriteDone
  <2>3. op[w] = "read" => sock[w] # None
    BY <2>1 DEF AcceptDone, ReadDone, WriteDone
  <2>4. \A v \in Workers \ {w} : done'[v] = done[v] /\ request'[v] = request[v]
    BY <2>1 DEF AcceptDone, ReadDone, WriteDone, IInv, SocketTypes
  <2> QED
    BY <1>3, <2>2, <2>3, <2>4 DEF timerVars
<1>4. CASE ~down /\ \E w \in Workers : Handler(w)
  <2>1. PICK w \in Workers : Handler(w)
    BY <1>4
  <2>2. \A v \in Workers : timer[v] \notin {"closing", "setMax"}
    BY <2>1, OneThread DEF Handler, AcceptHandler, ReadHandler, WriteHandler, IInv
  <2> USE <1>4, <2>2 DEF IInv, SocketTypes, TimerTypes
  <2>3. CASE AcceptHandler(w)
    BY <2>3 DEF AcceptHandler, Accept, CloseSocket, Begin, Expiring, timerVars
  <2>4. CASE ReadHandler(w)
    <3>1. UNCHANGED <<gone, request, timerVars>>
      BY <2>4 DEF ReadHandler
    <3>2. CASE ~down'
      <4>1. op'[w] \in {"accept", "write"}
        BY <2>4, <3>2 DEF ReadHandler, Accept, Begin, Respond
      <4>2. \A v \in Workers \ {w} : op'[v] = op[v] /\ done'[v] = done[v] /\ sock'[v] = sock[v]
        BY <2>4, <3>2 DEF ReadHandler, Accept, CloseSocket, Begin, Respond
      <4>3. \A v \in Workers : op'[v] = "read" /\ done'[v] = "ok" /\ sock'[v] = None
                                => request'[v].client \in overdue'
        BY <3>1, <4>1, <4>2 DEF timerVars
      <4>4. \A v \in Workers : /\ deadline'[v] = "passed" => owner'[v] \in overdue'
                               /\ timer'[v] \in {"closing", "setMax"} => deadline'[v] = "passed"
        BY <3>1 DEF timerVars
      <4> QED
        BY <3>2, <4>3, <4>4
    <3>3. CASE down'
      <4>1. /\ op[w] = "read" /\ done[w] = "ok" /\ MayThrow(w)
            /\ UNCHANGED <<op, done, sock>>
        BY <2>4, <3>3 DEF ReadHandler
      <4>2. request[w] \in Requests /\ request[w].client \in gone \cup overdue
        BY <4>1 DEF Owned, MayThrow
      <4> QED
        BY <3>1, <4>1, <4>2 DEF timerVars
    <3> QED
      BY <3>2, <3>3
  <2>5. CASE WriteHandler(w)
    BY <2>5 DEF WriteHandler, Accept, CloseSocket, Begin, timerVars
  <2> QED
    BY <2>1, <2>3, <2>4, <2>5 DEF Handler
<1>5. CASE ~down /\ \E w \in Workers : Timer(w) \/ TimePasses(w)
  <2>1. PICK w \in Workers : Timer(w) \/ TimePasses(w)
    BY <1>5
  <2> USE <1>5 DEF IInv, SocketTypes, TimerTypes
  <2>2. CASE CheckTimeout(w)
    BY <2>2 DEF CheckTimeout, Expired, clientVars, sockVars
  <2>3. CASE TimerClose(w)
    BY <2>3 DEF TimerClose, CloseSocket, Owned
  <2>4. CASE TimerSetMax(w)
    BY <2>4 DEF TimerSetMax, clientVars, sockVars
  <2>5. CASE TimePasses(w)
    BY <2>5 DEF TimePasses, clientVars, sockVars
  <2> QED
    BY <2>1, <2>2, <2>3, <2>4, <2>5 DEF Timer
<1> QED
  BY <1>0, <1>1, <1>2, <1>3, <1>4, <1>5 DEF Next

\* What a single thread adds, the deadline a handler found being the one it acts
\* upon, holds in every reachable state too.
THEOREM SingleInvariance == Spec => []SingleInv
<1>1. Init => SingleInv
  BY DEF Init, SingleInv, DownOnlyLate
<1> QED
  BY <1>1, SingleStep, Invariance, PTL DEF Spec

\* With one thread, only a client that has left, or that took longer than
\* Timeout, can end the server through remote_endpoint().
THEOREM DownByTheLateOnly == Spec => []DownOnlyLate
<1>1. SingleInv => DownOnlyLate
  BY DEF SingleInv, DownOnlyLate
<1> QED
  BY <1>1, SingleInvariance, PTL

\* With one thread, the timer closes no connection before its own deadline.
THEOREM ClosesOverdueOnly == Spec => OnlyOverdueClosed
<1>1. IInv /\ SingleInv /\ [Next]_vars =>
        [\A w \in Workers : timer[w] = "closing" /\ timer'[w] = "setMax" /\ sock[w] # None
           => threads > 1 \/ sock[w] \in overdue]_vars
  <2> SUFFICES ASSUME IInv, SingleInv, NEW w \in Workers, timer[w] = "closing", sock[w] # None
               PROVE  threads > 1 \/ sock[w] \in overdue
    OBVIOUS
  <2>1. threads \in Nat \ {0}
    BY WorkerAssumption DEF IInv, ClientTypes
  <2>2. owner[w] = sock[w]
    BY DEF IInv, Owned
  <2> QED
    BY <2>1, <2>2 DEF SingleInv
<1> QED
  BY <1>1, Invariance, SingleInvariance, PTL DEF Spec, OnlyOverdueClosed
=============================================================================
