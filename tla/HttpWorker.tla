----------------------------- MODULE HttpWorker -----------------------------
(***************************************************************************)
(* The workers of pwned-server (httpworker.cpp, pwned-server.cpp).  Each   *)
(* worker serves one connection at a time with asynchronous operations:    *)
(* accept, read one request, write one response, close, accept again.  A   *)
(* timer of its own closes a connection that takes longer than Timeout.    *)
(*                                                                         *)
(* An operation ends (Done) before its handler runs, and other handlers    *)
(* may run in between.  The handlers of all workers are run by all threads *)
(* without a strand: with more than one thread, the handler of a worker's  *)
(* timer can overlap with the handler of its socket operation.  That       *)
(* handler is taken apart; the others are one step each.                   *)
(***************************************************************************)
EXTENDS Integers, Sequences, FiniteSets

CONSTANTS Workers,       \* numWorkers
          Clients,       \* each connects once
          ThreadCounts,  \* possible values of threads
          MaxRequests,   \* bound on the requests one client sends
          Kinds,         \* what they send, a subset of {"get", "method", "garbage"}
          MayLeave,      \* may a client disconnect by itself?
          None

ASSUME WorkerAssumption ==
    /\ IsFiniteSet(Workers)
    /\ None \notin Clients /\ None \notin [client : Clients, kind : Kinds]
    /\ ThreadCounts \subseteq Nat \ {0} /\ MaxRequests \in Nat
    /\ Kinds \subseteq {"get", "method", "garbage"}
    /\ MayLeave \in BOOLEAN

VARIABLES
    threads,    \* main() and those of --threads: all call ioc.run()
    conn,       \* of every client: "new", "backlog", "open" or "closed"
    gone,       \* the clients that have disconnected
    inbox,      \* what a client sent and the server has not read, oldest first
    sent,       \* number of requests a client sent
    answered,   \* pairs <<client, whose request it got the answer to>>
    sock,       \* mSocket: the client, or None when closed
    op, done,   \* the worker's operation, and whether it has ended
    accepted,   \* the connection async_accept will put into mSocket
    buffer,     \* mBuffer: requests read ahead
    request,    \* mParser->get()
    response,   \* mResponse: the request it answers, or None
    deadline,   \* mReqTimeout.expiry(): "max", "later" or "passed"
    timer,      \* its async_wait: "waiting", "queued", or inside the handler
    owner,      \* the connection the deadline was set for (history)
    overdue,    \* connections whose deadline has passed (history)
    down        \* an exception left ioc.run()

clientVars == <<conn, gone, inbox, sent, answered>>
sockVars   == <<sock, op, done, accepted, buffer, request, response>>
timerVars  == <<deadline, timer, owner, overdue>>
state == <<clientVars, sockVars, timerVars, down>>
vars == <<threads, state>>

Requests == [client : Clients, kind : Kinds]

\* start() of every worker: accept() and checkTimeout()
Init ==
    /\ threads \in ThreadCounts
    /\ conn = [c \in Clients |-> "new"] /\ gone = {}
    /\ inbox = [c \in Clients |-> <<>>] /\ sent = [c \in Clients |-> 0]
    /\ answered = {}
    /\ sock = [w \in Workers |-> None]
    /\ op = [w \in Workers |-> "accept"] /\ done = [w \in Workers |-> "pending"]
    /\ accepted = [w \in Workers |-> None]
    /\ buffer = [w \in Workers |-> <<>>]
    /\ request = [w \in Workers |-> None] /\ response = [w \in Workers |-> None]
    /\ deadline = [w \in Workers |-> "max"] /\ timer = [w \in Workers |-> "waiting"]
    /\ owner = [w \in Workers |-> None] /\ overdue = {}
    /\ down = FALSE

-----------------------------------------------------------------------------
(* The clients.                                                            *)

Connect(c) ==
    /\ ~down /\ conn[c] = "new"
    /\ conn' = [conn EXCEPT ![c] = "backlog"]
    /\ UNCHANGED <<gone, inbox, sent, answered, sockVars, timerVars, down>>

\* Requests may be sent one after the other without waiting for an answer.
Send(c) ==
    /\ ~down /\ conn[c] \in {"backlog", "open"} /\ c \notin gone /\ sent[c] < MaxRequests
    /\ \E k \in Kinds : inbox' = [inbox EXCEPT ![c] = Append(@, [client |-> c, kind |-> k])]
    /\ sent' = [sent EXCEPT ![c] = @ + 1]
    /\ UNCHANGED <<conn, gone, answered, sockVars, timerVars, down>>

Leave(c) ==
    /\ ~down /\ MayLeave /\ conn[c] \in {"backlog", "open"} /\ c \notin gone
    /\ gone' = gone \cup {c}
    /\ UNCHANGED <<conn, inbox, sent, answered, sockVars, timerVars, down>>

-----------------------------------------------------------------------------
(* The ends of the asynchronous operations, as asio reports them.          *)

AcceptDone(w) ==
    /\ ~down /\ op[w] = "accept" /\ done[w] = "pending"
    /\ \E c \in Clients :
         /\ conn[c] = "backlog"
         /\ \/ /\ conn' = [conn EXCEPT ![c] = "open"]
               /\ accepted' = [accepted EXCEPT ![w] = c]
               /\ done' = [done EXCEPT ![w] = "ok"]
            \/ /\ c \in gone                     \* ECONNABORTED
               /\ conn' = [conn EXCEPT ![c] = "closed"]
               /\ done' = [done EXCEPT ![w] = "error"]
               /\ UNCHANGED accepted
    /\ UNCHANGED <<gone, inbox, sent, answered, sock, op, buffer, request,
                   response, timerVars, down>>

\* http::async_read takes one request from mBuffer, filled from the socket.
ReadDone(w) ==
    /\ ~down /\ op[w] = "read" /\ done[w] = "pending" /\ sock[w] # None
    /\ LET c == sock[w]
           data == buffer[w] \o inbox[c]
       IN \/ /\ data # <<>>
             /\ inbox' = [inbox EXCEPT ![c] = <<>>]
             /\ buffer' = [buffer EXCEPT ![w] = Tail(data)]
             /\ IF Head(data).kind = "garbage"
                THEN done' = [done EXCEPT ![w] = "error"] /\ UNCHANGED request
                ELSE /\ done' = [done EXCEPT ![w] = "ok"]
                     /\ request' = [request EXCEPT ![w] = Head(data)]
          \/ /\ data = <<>> /\ c \in gone
             /\ done' = [done EXCEPT ![w] = "error"]
             /\ UNCHANGED <<inbox, buffer, request>>
    /\ UNCHANGED <<conn, gone, sent, answered, sock, op, accepted, response,
                   timerVars, down>>

WriteDone(w) ==
    /\ ~down /\ op[w] = "write" /\ done[w] = "pending" /\ sock[w] # None
    /\ \/ /\ sock[w] \notin gone
          /\ answered' = answered \cup {<<sock[w], response[w].client>>}
          /\ done' = [done EXCEPT ![w] = "ok"]
       \/ /\ sock[w] \in gone
          /\ done' = [done EXCEPT ![w] = "error"]
          /\ UNCHANGED answered
    /\ UNCHANGED <<conn, gone, inbox, sent, sock, op, accepted, buffer, request,
                   response, timerVars, down>>

-----------------------------------------------------------------------------
(* The handlers.                                                           *)

\* Timer handlers that some thread is executing.
InTimer == {w \in Workers : timer[w] \in {"closing", "setMax"}}
ThreadFree == ~down /\ Cardinality(InTimer) < threads

\* mSocket.close()
CloseSocket(w) ==
    /\ sock' = [sock EXCEPT ![w] = None]
    /\ conn' = IF sock[w] = None THEN conn ELSE [conn EXCEPT ![sock[w]] = "closed"]

Begin(w, o, outcome) ==
    /\ op' = [op EXCEPT ![w] = o]
    /\ done' = [done EXCEPT ![w] = outcome]

NotConsumed(w) == buffer

\* mBuffer.consume(mBuffer.size())
Consumed(w) == [buffer EXCEPT ![w] = <<>>]

\* accept()
Accept(w) ==
    /\ CloseSocket(w)
    /\ buffer' = Consumed(w)
    /\ Begin(w, "accept", "pending")

NotExpiring(w) == deadline

\* mReqTimeout.expires_after(Timeout)
Expiring(w) == [deadline EXCEPT ![w] = "later"]

\* The handler of async_accept; setting the expiry cancels a pending wait.
AcceptHandler(w) ==
    /\ ThreadFree /\ op[w] = "accept"
    /\ \/ /\ done[w] = "error"
          /\ Accept(w)
          /\ UNCHANGED <<accepted, request, timerVars>>
       \/ /\ done[w] = "ok"
          /\ sock' = [sock EXCEPT ![w] = accepted[w]]
          /\ accepted' = [accepted EXCEPT ![w] = None]
          /\ deadline' = Expiring(w)
          /\ owner' = [owner EXCEPT ![w] = accepted[w]]
          /\ timer' = [timer EXCEPT ![w] = IF @ = "waiting" THEN "queued" ELSE @]
          /\ request' = [request EXCEPT ![w] = None]
          /\ Begin(w, "read", "pending")
          /\ UNCHANGED <<conn, buffer, overdue>>
    /\ UNCHANGED <<gone, inbox, sent, answered, response, down>>

\* async_write of a response; a closed socket fails at once.
Respond(w) ==
    /\ response' = [response EXCEPT ![w] = request[w]]
    /\ Begin(w, "write", IF sock[w] = None THEN "error" ELSE "pending")

\* remote_endpoint() throws on a closed socket, and may on a reset one.
MustThrow(w) == sock[w] = None
MayThrow(w) == sock[w] = None \/ sock[w] \in gone

\* The handler of async_read: processRequest(), sendResponse() for GET,
\* sendBadResponse() for any other method; an exception ends the process.
ReadHandler(w) ==
    /\ ThreadFree /\ op[w] = "read"
    /\ \/ /\ done[w] = "error"
          /\ Accept(w)
          /\ UNCHANGED <<response, down>>
       \/ /\ done[w] = "ok"
          /\ request[w].kind = "method" \/ ~MustThrow(w)
          /\ Respond(w)
          /\ UNCHANGED <<conn, sock, buffer, down>>
       \/ /\ done[w] = "ok"
          /\ request[w].kind = "get" /\ MayThrow(w)
          /\ down' = TRUE
          /\ UNCHANGED <<conn, sock, op, done, buffer, response>>
    /\ UNCHANGED <<gone, inbox, sent, answered, accepted, request, timerVars>>

\* The handler of async_write ignores the error: shutdown, reset, accept().
WriteHandler(w) ==
    /\ ThreadFree /\ op[w] = "write" /\ done[w] # "pending"
    /\ response' = [response EXCEPT ![w] = None]
    /\ Accept(w)
    /\ UNCHANGED <<gone, inbox, sent, answered, accepted, request, timerVars, down>>

-----------------------------------------------------------------------------
(* The timer.                                                              *)

\* Timeout is over: a waiting timer's handler is queued.
TimePasses(w) ==
    /\ ~down /\ deadline[w] = "later"
    /\ deadline' = [deadline EXCEPT ![w] = "passed"]
    /\ overdue' = overdue \cup {owner[w]}
    /\ timer' = [timer EXCEPT ![w] = IF @ = "waiting" THEN "queued" ELSE @]
    /\ UNCHANGED <<clientVars, sockVars, owner, down>>

ExpiredAlways(w) == TRUE

\* mReqTimeout.expiry() <= now()
Expired(w) == deadline[w] = "passed"

\* checkTimeout(), called for an expired and for a cancelled wait alike
CheckTimeout(w) ==
    /\ ThreadFree /\ timer[w] = "queued"
    /\ timer' = [timer EXCEPT ![w] = IF Expired(w) THEN "closing" ELSE "waiting"]
    /\ UNCHANGED <<clientVars, sockVars, deadline, owner, overdue, down>>

\* mSocket.close() aborts the pending read or write.
TimerClose(w) ==
    /\ ~down /\ timer[w] = "closing"
    /\ CloseSocket(w)
    /\ done' = [done EXCEPT ![w] = IF @ = "pending" /\ op[w] # "accept" THEN "error" ELSE @]
    /\ timer' = [timer EXCEPT ![w] = "setMax"]
    /\ UNCHANGED <<gone, inbox, sent, answered, op, accepted, buffer, request,
                   response, deadline, owner, overdue, down>>

\* expires_at(max), async_wait
TimerSetMax(w) ==
    /\ ~down /\ timer[w] = "setMax"
    /\ deadline' = [deadline EXCEPT ![w] = "max"]
    /\ timer' = [timer EXCEPT ![w] = "waiting"]
    /\ UNCHANGED <<clientVars, sockVars, owner, overdue, down>>

Handler(w) == AcceptHandler(w) \/ ReadHandler(w) \/ WriteHandler(w)
Timer(w) == CheckTimeout(w) \/ TimerClose(w) \/ TimerSetMax(w)

Next ==
    /\ \/ \E c \in Clients : Connect(c) \/ Send(c) \/ Leave(c)
       \/ \E w \in Workers : \/ AcceptDone(w) \/ ReadDone(w) \/ WriteDone(w)
                             \/ Handler(w) \/ TimePasses(w) \/ Timer(w)
    /\ UNCHANGED threads

\* Queued handlers are run, connections and requests that have arrived are
\* noticed and time passes; nobody has to connect, send, receive or leave.
Fairness ==
    \A w \in Workers :
      /\ WF_state(Handler(w)) /\ WF_state(Timer(w)) /\ WF_state(TimePasses(w))
      /\ WF_state(AcceptDone(w)) /\ WF_state(ReadDone(w))

Spec == Init /\ [][Next]_vars /\ Fairness

-----------------------------------------------------------------------------
(* Properties                                                              *)

\* Nobody gets the answer to a request of somebody else, although a worker
\* uses one buffer, parser and response for all its connections.
AnswersOwn == \A p \in answered : p[1] = p[2]

\* With a single thread, only a client that has left, or that took longer than
\* Timeout, can make remote_endpoint() throw and so end the server: between the
\* end of a read and its handler nothing else closes the socket.
DownOnlyLate ==
    down /\ threads = 1 =>
      \E w \in Workers : request[w] # None /\ request[w].client \in gone \cup overdue

\* With a single thread, the timer closes no connection before that connection's
\* own deadline: the expiry left over from an earlier one never hits the next.
OnlyOverdueClosed ==
    [][\A w \in Workers : timer[w] = "closing" /\ timer'[w] = "setMax" /\ sock[w] # None
          => threads > 1 \/ sock[w] \in overdue]_vars

\* With a single thread, every client that connects is served, or timed out, in
\* the end, also when there are more clients than workers.
EveryoneServed ==
    \A c \in Clients : (conn[c] = "backlog") ~> (conn[c] = "closed" \/ down \/ threads > 1)

=============================================================================
