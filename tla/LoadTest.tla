------------------------------ MODULE LoadTest ------------------------------
(***************************************************************************)
(* The load tester (pwned-server/loadtest): main() starts workers, each a  *)
(* chain of asynchronous operations that ends with the start of the next   *)
(* request, and runs the io_context until nothing is left to do; then it   *)
(* adds up what the workers measured.  A worker has at most one operation  *)
(* under way, so its handlers never overlap, however many threads there    *)
(* are.  Time is discrete; a deadline that is reached is noticed before    *)
(* time passes.                                                            *)
(***************************************************************************)
EXTENDS Integers, FiniteSetsExt, Functions

CONSTANTS NumWorkers,    \* --workers
          RuntimeSecs,   \* --secs
          ExpiresAfter,  \* ExpiresAfterSecs
          ResolveSecs,   \* the longest time a name lookup takes: it has no deadline
          Boot           \* the steady clock's time when the program starts

ASSUME LoadTestAssumption ==
    /\ {NumWorkers, RuntimeSecs, ExpiresAfter, Boot} \subseteq Nat \ {0}
    /\ ResolveSecs \in Nat

Workers == 1..NumWorkers
Never == -1

VARIABLES now,
          main,       \* "starting", "running" (ioc.run()), "done" or "crashed"
          nStarted,   \* workers.size()
          empty,      \* mInputSize is 0
          secure,     \* is the scheme of the address https?
          op,         \* the operation a worker waits for
          deadline,   \* of the worker's stream
          resolved,   \* mResolverResults.size() > 0
          t0,         \* mT0
          rttT0,      \* mRTTt0
          tStop,      \* mTStop
          count,      \* mRequestCount
          rttSum,     \* the sum of mRTT
          timerAt,    \* expiry of the progress timer
          report,     \* totalRequests, totalRuntime, totalRTT
          dropped     \* workers that ended between counting an answer and restart()

clocks  == <<t0, rttT0, tStop>>
measure == <<count, rttSum>>
vars    == <<now, main, nStarted, empty, secure, op, deadline, resolved, clocks, measure, timerAt, report,
             dropped>>

NoReport == [requests |-> 0, runtime |-> 0, rtt |-> 0]

Init ==
    /\ now = Boot
    /\ main = "starting" /\ nStarted = 0
    /\ empty \in BOOLEAN /\ secure \in BOOLEAN
    /\ op = [w \in Workers |-> "none"]
    /\ deadline = [w \in Workers |-> Never]
    /\ resolved = [w \in Workers |-> FALSE]
    /\ t0 = [w \in Workers |-> 0] /\ rttT0 = t0 /\ tStop = t0
    /\ count = [w \in Workers |-> 0] /\ rttSum = count
    /\ timerAt = Never
    /\ report = NoReport
    /\ dropped = {}

T1(w) == t0[w] + RuntimeSecs

-----------------------------------------------------------------------------
(* What the handlers have in common.                                       *)

\* The worker's next operation; "none" ends its chain.
Begins(w, o) == op' = [op EXCEPT ![w] = o]

\* expires_after(ExpiresAfterSecs)
Expires(w) == deadline' = [deadline EXCEPT ![w] = now + ExpiresAfter]

ConnectUnlimited(w) == Begins(w, "connect") /\ deadline' = [deadline EXCEPT ![w] = Never]

\* connect()
Connect(w) == Begins(w, "connect") /\ Expires(w)

\* start(): it returns early when the input or TLS fails it
Start(w) ==
    \/ /\ Begins(w, "none")
       /\ UNCHANGED <<rttT0, deadline>>
    \/ /\ rttT0' = [rttT0 EXCEPT ![w] = now]
       /\ IF resolved[w] THEN Connect(w) ELSE Begins(w, "resolve") /\ UNCHANGED deadline

\* A handler that main() lets run: operation o of w has ended.
Ended(w, o) ==
    /\ main = "running" /\ op[w] = o
    /\ UNCHANGED <<now, main, nStarted, empty, secure, t0, timerAt, report>>

-----------------------------------------------------------------------------
(* main() before ioc.run()                                                 *)

\* emplace_back() and start()
StartWorker ==
    /\ main = "starting" /\ nStarted < NumWorkers
    /\ LET w == nStarted + 1
       IN /\ nStarted' = w
          /\ t0' = [t0 EXCEPT ![w] = now]
          /\ Start(w) /\ (empty => op'[w] = "none")
    /\ UNCHANGED <<now, main, empty, secure, resolved, tStop, measure, timerAt, report, dropped>>

\* mGen() % mInputSize
StartOnEmpty ==
    /\ main = "starting" /\ nStarted < NumWorkers /\ empty
    /\ main' = "crashed"
    /\ UNCHANGED <<now, nStarted, empty, secure, op, deadline, resolved, clocks, measure, timerAt,
                   report, dropped>>

\* The progress timer is set, and the threads enter ioc.run().
Run ==
    /\ main = "starting" /\ nStarted = NumWorkers
    /\ main' = "running"
    /\ timerAt' = now + 1
    /\ UNCHANGED <<now, nStarted, empty, secure, op, deadline, resolved, clocks, measure, report, dropped>>

-----------------------------------------------------------------------------
(* The handlers of a worker.                                               *)

FailRetries(w) ==
    /\ op[w] # "none" /\ Ended(w, op[w])
    /\ UNCHANGED <<op, deadline, resolved, rttT0, tStop, measure, dropped>>

\* Any operation may end with an error, which ends the worker: fail(ec, ...)
Fail(w) ==
    /\ op[w] # "none" /\ Ended(w, op[w])
    /\ Begins(w, "none")
    /\ dropped' = IF op[w] = "shutdown" THEN dropped \cup {w} ELSE dropped
    /\ UNCHANGED <<deadline, resolved, rttT0, tStop, measure>>

\* The stream's deadline has passed: the operation ends with an error.
Timeout(w) == op[w] # "resolve" /\ deadline[w] = now /\ Fail(w)

OnResolve(w) ==
    /\ Ended(w, "resolve")
    /\ resolved' = [resolved EXCEPT ![w] = TRUE]
    /\ Connect(w)
    /\ UNCHANGED <<rttT0, tStop, measure, dropped>>

OnConnect(w) ==
    /\ Ended(w, "connect")
    /\ IF secure THEN Begins(w, "handshake") /\ UNCHANGED deadline
                 ELSE Begins(w, "write") /\ Expires(w)
    /\ UNCHANGED <<resolved, rttT0, tStop, measure, dropped>>

OnHandshake(w) ==
    /\ Ended(w, "handshake")
    /\ Begins(w, "write") /\ Expires(w)
    /\ UNCHANGED <<resolved, rttT0, tStop, measure, dropped>>

OnWrite(w) ==
    /\ Ended(w, "write")
    /\ Begins(w, "read")
    /\ UNCHANGED <<deadline, resolved, rttT0, tStop, measure, dropped>>

RestartStopless(w) ==
    /\ UNCHANGED tStop
    /\ IF now < T1(w) THEN Start(w) ELSE Begins(w, "none") /\ UNCHANGED <<rttT0, deadline>>

\* restart()
Restart(w) ==
    /\ tStop' = [tStop EXCEPT ![w] = now]
    /\ IF now < T1(w) THEN Start(w) ELSE Begins(w, "none") /\ UNCHANGED <<rttT0, deadline>>

\* An answer that is JSON is counted.  A plain connection is shut down at once,
\* which may fail.  An answer takes some time.
OnRead(w) ==
    /\ Ended(w, "read")
    /\ now > rttT0[w]
    /\ count' = [count EXCEPT ![w] = @ + 1]
    /\ rttSum' = [rttSum EXCEPT ![w] = @ + now - rttT0[w]]
    /\ \/ /\ secure
          /\ Begins(w, "shutdown") /\ Expires(w)
          /\ UNCHANGED <<rttT0, tStop, dropped>>
       \/ /\ ~secure
          /\ Restart(w)
          /\ UNCHANGED dropped
       \/ /\ ~secure
          /\ Begins(w, "none")
          /\ dropped' = dropped \cup {w}
          /\ UNCHANGED <<deadline, rttT0, tStop>>
    /\ UNCHANGED resolved

\* An answer that is not JSON ends the worker.
OnReadNonsense(w) ==
    /\ Ended(w, "read")
    /\ Begins(w, "none")
    /\ UNCHANGED <<deadline, resolved, rttT0, tStop, measure, dropped>>

\* The end of the stream counts as a shutdown, too.
OnShutdown(w) ==
    /\ Ended(w, "shutdown")
    /\ Restart(w)
    /\ UNCHANGED <<resolved, measure, dropped>>

Handler(w) ==
    \/ OnResolve(w) \/ OnConnect(w) \/ OnHandshake(w) \/ OnWrite(w)
    \/ OnRead(w) \/ OnReadNonsense(w) \/ OnShutdown(w)

-----------------------------------------------------------------------------
(* The timer, the clock, and the end of main().                            *)

\* The timer is set again while dt < timeoutSecs, dt being the first worker's.
ProgressNext == timerAt' = IF now - t0[1] < RuntimeSecs THEN timerAt + 1 ELSE Never

\* progress()
Progress ==
    /\ main = "running" /\ timerAt # Never /\ timerAt <= now
    /\ ProgressNext
    /\ UNCHANGED <<now, main, nStarted, empty, secure, op, deadline, resolved, clocks, measure, report,
                   dropped>>

\* Nothing that is due at this moment is left.
Due(w) ==
    \/ op[w] = "resolve" /\ now >= rttT0[w] + ResolveSecs
    \/ op[w] \notin {"none", "resolve"} /\ deadline[w] # Never /\ now >= deadline[w]

Tick ==
    /\ main \in {"starting", "running"}
    /\ \A w \in Workers : ~Due(w)
    /\ timerAt # Never => now < timerAt
    /\ \/ timerAt # Never
       \/ \E w \in Workers : op[w] # "none"
       \/ main = "starting" /\ now < Boot + 1    \* bound on the time before ioc.run()
    /\ now' = now + 1
    /\ UNCHANGED <<main, nStarted, empty, secure, op, deadline, resolved, clocks, measure, timerAt, report,
                   dropped>>

Dt(w) == tStop[w] - t0[w]

\* ioc.run() has returned in all threads, and the results are added up.
Report ==
    /\ main = "running" /\ timerAt = Never /\ \A w \in Workers : op[w] = "none"
    /\ main' = "done"
    /\ report' = [requests |-> SumFunction(count),
                  runtime  |-> Max({0} \cup {Dt(w) : w \in Workers}),
                  rtt      |-> SumFunction(rttSum)]
    /\ UNCHANGED <<now, nStarted, empty, secure, op, deadline, resolved, clocks, measure, timerAt, dropped>>

Next ==
    \/ StartWorker \/ StartOnEmpty \/ Run \/ Progress \/ Tick \/ Report
    \/ \E w \in Workers : Handler(w) \/ Fail(w)
    \/ main \in {"done", "crashed"} /\ UNCHANGED vars

\* main() goes on, time passes, the resolver answers, and a deadline that has
\* passed ends its operation; nobody else has to answer.
Fairness ==
    /\ WF_vars(StartWorker \/ StartOnEmpty) /\ WF_vars(Run) /\ WF_vars(Progress) /\ WF_vars(Tick) /\ WF_vars(Report)
    /\ \A w \in Workers : WF_vars(Timeout(w)) /\ WF_vars(OnResolve(w))

Spec == Init /\ [][Next]_vars /\ Fairness

-----------------------------------------------------------------------------
(* Properties                                                              *)

\* The deadlines a request may use up: connect and write, and with TLS the
\* shutdown.
Deadlines == IF secure THEN 3 ELSE 2

\* No worker connects later than this: at the end of its time, or when its only
\* name lookup ends.
LastStart(w) == t0[w] + IF RuntimeSecs >= ResolveSecs THEN RuntimeSecs ELSE ResolveSecs

\* A load test for RuntimeSecs seconds may take longer, but no worker is busy
\* for longer than one request's deadlines after its time is over, or after a
\* name lookup that took longer still.
BoundedOverrun ==
    \A w \in Workers : op[w] # "none" => now <= LastStart(w) + Deadlines * ExpiresAfter

\* The requests of a worker follow each other, so the reported runtime, from
\* which the requests per second are computed, is never shorter than the time
\* a worker spent on answered requests; unless it was dropped: then neither its
\* last answer nor, if it was its only one, the worker is part of the runtime.
RuntimeCovers ==
    main = "done" => \A w \in Workers \ dropped : rttSum[w] <= report.runtime

\* The load test ends, even if the server stops answering at any moment, and
\* with a report, unless there is nothing to ask for.
Ends == <>(main = "done" \/ (main = "crashed" /\ empty))

=============================================================================
