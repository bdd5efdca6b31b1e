--------------------------- MODULE LoadTestProofs ---------------------------
(***************************************************************************)
(* The load tester for any number of workers, any runtime, any deadline    *)
(* and name lookups of any length.  The invariant follows a worker through *)
(* its chain: how far its deadline may lie behind the last moment at which *)
(* it may connect, and how much of the time since it was started its       *)
(* answered requests account for.                                          *)
(***************************************************************************)
EXTENDS LoadTest, WellFoundedInduction, TLAPS

Operations == {"none", "resolve", "connect", "handshake", "write", "read", "shutdown"}

Types ==
    /\ now \in Nat /\ nStarted \in 0..NumWorkers
    /\ main \in {"starting", "running", "done", "crashed"}
    /\ secure \in BOOLEAN
    /\ op \in [Workers -> Operations]
    /\ deadline \in [Workers -> Int]
    /\ resolved \in [Workers -> BOOLEAN]
    /\ t0 \in [Workers -> Nat] /\ rttT0 \in [Workers -> Nat] /\ tStop \in [Workers -> Nat]
    /\ rttSum \in [Workers -> Nat]
    /\ dropped \subseteq Workers

\* A worker that main() has not started has done nothing.
Unstarted(w) ==
    w > nStarted => op[w] = "none" /\ ~resolved[w] /\ rttSum[w] = 0 /\ tStop[w] = 0

\* Nothing was measured in the future, and a request begins after its worker.
Clocks(w) ==
    /\ t0[w] <= now /\ rttT0[w] <= now /\ tStop[w] <= now
    /\ op[w] # "none" => t0[w] <= rttT0[w]

\* A name is looked up once, for the first request; whatever follows has a
\* deadline, and the deadlines of a request add up.
OnTime(w) ==
    /\ op[w] = "resolve" => rttT0[w] = t0[w] /\ now <= t0[w] + ResolveSecs
    /\ op[w] \notin {"none", "resolve"} => resolved[w] /\ now <= deadline[w]
    /\ op[w] \in {"connect", "handshake"} => deadline[w] <= LastStart(w) + ExpiresAfter
    /\ op[w] \in {"write", "read"} => deadline[w] <= LastStart(w) + 2 * ExpiresAfter
    /\ op[w] = "shutdown" => secure /\ deadline[w] <= LastStart(w) + 3 * ExpiresAfter

\* The answered requests of a worker fit before the one under way, and before
\* its last restart().
Measured(w) ==
    /\ op[w] \notin {"none", "shutdown"} => rttSum[w] <= rttT0[w] - t0[w]
    /\ op[w] = "shutdown" => rttSum[w] <= now - t0[w]
    /\ op[w] # "shutdown" /\ w \notin dropped => rttSum[w] = 0 \/ rttSum[w] <= tStop[w] - t0[w]

Worker(w) == Unstarted(w) /\ Clocks(w) /\ OnTime(w) /\ Measured(w)

LInv == Types /\ (\A w \in Workers : Worker(w)) /\ RuntimeCovers

-----------------------------------------------------------------------------
LEMMA Constants ==
    /\ NumWorkers \in Nat /\ RuntimeSecs \in Nat /\ ExpiresAfter \in Nat /\ ResolveSecs \in Nat
    /\ Boot \in Nat /\ Workers \subseteq Nat \ {0}
BY LoadTestAssumption DEF Workers

\* A set of numbers up to b has a largest one.
LEMMA MaxIsLargest ==
    ASSUME NEW S, S \subseteq Int, S # {}, NEW b \in Nat, \A x \in S : x <= b
    PROVE  Max(S) \in S /\ \A x \in S : x <= Max(S)
<1> DEFINE T == {b - x : x \in S}
<1>1. T \subseteq Nat /\ T # {}
  OBVIOUS
<1>2. PICK m \in T : \A y \in T : <<y, m>> \notin OpToRel(<, Nat)
  BY <1>1, WFMin, NatLessThanWellFounded
<1>3. \A y \in T : ~(y < m)
  BY <1>1, <1>2 DEF OpToRel
<1>4. PICK x \in S : m = b - x
  OBVIOUS
<1>5. \A y \in S : x >= y
  <2> SUFFICES ASSUME NEW y \in S PROVE x >= y
    OBVIOUS
  <2>1. b - y \in T /\ x \in Int /\ y \in Int
    OBVIOUS
  <2>2. ~(b - y < b - x)
    BY <1>3, <1>4, <2>1
  <2> QED
    BY <2>1, <2>2
<1>6. Max(S) \in S /\ \A y \in S : Max(S) >= y
  BY <1>5 DEF Max
<1> QED
  BY <1>6

\* What leaves a worker alone keeps what is known of it.
LEMMA Kept ==
    ASSUME LInv, NEW w \in Workers,
           UNCHANGED <<now, secure, nStarted, t0[w], op[w], deadline[w], resolved[w], rttT0[w],
                       tStop[w], rttSum[w]>>,
           w \in dropped => w \in dropped'
    PROVE  Worker(w)'
<1>1. Worker(w)
  BY DEF LInv
<1>2. w \notin dropped' => w \notin dropped
  OBVIOUS
<1>3. LastStart(w)' = LastStart(w)
  BY DEF LastStart
<1> QED
  BY <1>1, <1>2, <1>3 DEF Worker, Unstarted, Clocks, OnTime, Measured

-----------------------------------------------------------------------------
LEMMA LInit == Init => LInv
<1> SUFFICES ASSUME Init PROVE LInv
  OBVIOUS
<1> USE Constants
<1>1. Types
  BY DEF Init, Types, Operations, Never
<1>2. \A w \in Workers : Worker(w)
  BY DEF Init, Worker, Unstarted, Clocks, OnTime, Measured
<1>3. RuntimeCovers
  BY DEF Init, RuntimeCovers
<1> QED
  BY <1>1, <1>2, <1>3 DEF LInv

\* main() starts the next worker.
LEMMA LStartWorker == LInv /\ StartWorker => LInv'
<1> SUFFICES ASSUME LInv, StartWorker PROVE LInv'
  OBVIOUS
<1> USE Constants
<1>1. PICK w \in Workers : w = nStarted + 1
  BY DEF LInv, Types, StartWorker, Workers
<1>2. /\ main = "starting" /\ nStarted' = w /\ t0' = [t0 EXCEPT ![w] = now]
      /\ UNCHANGED <<now, main, empty, secure, resolved, tStop, measure, timerAt, report, dropped>>
  BY <1>1 DEF StartWorker
<1>3. Worker(w) /\ Types
  BY DEF LInv
<1>4. ~resolved[w] /\ rttSum[w] = 0 /\ tStop[w] = 0
  BY <1>1, <1>3 DEF Worker, Unstarted, Types
<1>5. \/ op' = [op EXCEPT ![w] = "none"] /\ UNCHANGED <<rttT0, deadline>>
      \/ /\ op' = [op EXCEPT ![w] = "resolve"] /\ UNCHANGED deadline
         /\ rttT0' = [rttT0 EXCEPT ![w] = now]
  BY <1>1, <1>4 DEF StartWorker, Start, Begins
<1>6. Types'
  <2>1. nStarted' \in 0..NumWorkers
    BY <1>1, <1>2 DEF Workers
  <2>2. op' \in [Workers -> Operations] /\ rttT0' \in [Workers -> Nat]
    BY <1>3, <1>5 DEF Types, Operations
  <2>3. t0' \in [Workers -> Nat]
    BY <1>2, <1>3 DEF Types
  <2>4. deadline' = deadline
    BY <1>5
  <2> QED
    BY <1>2, <1>3, <2>1, <2>2, <2>3, <2>4 DEF Types, measure
<1>7. Worker(w)'
  BY <1>1, <1>2, <1>3, <1>4, <1>5
     DEF Types, Worker, Unstarted, Clocks, OnTime, Measured, measure
<1>8. ASSUME NEW v \in Workers, v # w PROVE Worker(v)'
  <2>1. v > nStarted' => v > nStarted
    BY <1>1, <1>2, <1>3 DEF Types
  <2>2. Worker(v)
    BY DEF LInv
  <2> QED
    BY <1>2, <1>3, <1>5, <1>8, <2>1, <2>2
       DEF Types, Worker, Unstarted, Clocks, OnTime, Measured, measure, LastStart
<1>9. RuntimeCovers'
  BY <1>2 DEF RuntimeCovers
<1> QED
  BY <1>6, <1>7, <1>8, <1>9 DEF LInv

-----------------------------------------------------------------------------
\* A handler of a worker leaves the others alone, and main() is running.
LEMMA HandlerKeeps ==
    ASSUME LInv, NEW w \in Workers, NEW o, Ended(w, o), Types', Worker(w)',
           \A v \in Workers \ {w} :
             UNCHANGED <<op[v], deadline[v], resolved[v], rttT0[v], tStop[v], rttSum[v]>>,
           dropped \subseteq dropped'
    PROVE  LInv'
<1>1. UNCHANGED <<now, secure, nStarted, t0>> /\ main' = "running"
  BY DEF Ended
<1>2. ASSUME NEW v \in Workers, v # w PROVE Worker(v)'
  BY <1>1, <1>2, Kept
<1>3. RuntimeCovers'
  BY <1>1 DEF RuntimeCovers
<1> QED
  BY <1>2, <1>3 DEF LInv

\* start() of a worker that knows its addresses.
LEMMA StartEffect ==
    ASSUME NEW w \in Workers, resolved[w], Start(w)
    PROVE  \/ op' = [op EXCEPT ![w] = "none"] /\ UNCHANGED <<rttT0, deadline>>
           \/ /\ op' = [op EXCEPT ![w] = "connect"]
              /\ rttT0' = [rttT0 EXCEPT ![w] = now]
              /\ deadline' = [deadline EXCEPT ![w] = now + ExpiresAfter]
BY DEF Start, Connect, Begins, Expires

\* restart() after an answered request: all that was measured lies before now.
LEMMA RestartKeeps ==
    ASSUME LInv, NEW w \in Workers, NEW o, Ended(w, o), Restart(w), resolved[w],
           op[w] # "none", UNCHANGED <<resolved, dropped>>,
           rttSum' \in [Workers -> Nat], rttSum'[w] <= now - t0[w],
           \A v \in Workers \ {w} : rttSum'[v] = rttSum[v]
    PROVE  LInv'
<1> USE Constants
<1>1. /\ UNCHANGED <<now, main, secure, nStarted, t0>> /\ main = "running"
      /\ tStop' = [tStop EXCEPT ![w] = now]
  BY DEF Ended, Restart
<1>2. \/ op' = [op EXCEPT ![w] = "none"] /\ UNCHANGED <<rttT0, deadline>>
      \/ /\ now < T1(w)
         /\ op' = [op EXCEPT ![w] = "connect"]
         /\ rttT0' = [rttT0 EXCEPT ![w] = now]
         /\ deadline' = [deadline EXCEPT ![w] = now + ExpiresAfter]
  BY StartEffect DEF Restart, Begins
<1>3. Types /\ Worker(w)
  BY DEF LInv
<1>4. w <= nStarted
  BY <1>3 DEF Types, Worker, Unstarted
<1>5. Types'
  <2>1. op' \in [Workers -> Operations] /\ rttT0' \in [Workers -> Nat] /\ tStop' \in [Workers -> Nat]
    BY <1>1, <1>2, <1>3 DEF Types, Operations
  <2>2. deadline' \in [Workers -> Int]
    BY <1>2, <1>3 DEF Types
  <2> QED
    BY <1>1, <1>3, <2>1, <2>2 DEF Types
<1>6. Worker(w)'
  <2>1. tStop'[w] = now /\ t0'[w] <= now
    BY <1>1, <1>3 DEF Types, Worker, Clocks
  <2>2. CASE op' = [op EXCEPT ![w] = "none"] /\ UNCHANGED <<rttT0, deadline>>
    <3>1. op'[w] = "none"
      BY <1>3, <2>2 DEF Types
    <3> QED
      BY <1>1, <1>3, <1>4, <2>1, <2>2, <3>1
         DEF Types, Worker, Unstarted, Clocks, OnTime, Measured
  <2>3. CASE /\ now < T1(w)
             /\ op' = [op EXCEPT ![w] = "connect"]
             /\ rttT0' = [rttT0 EXCEPT ![w] = now]
             /\ deadline' = [deadline EXCEPT ![w] = now + ExpiresAfter]
    <3>1. op'[w] = "connect" /\ rttT0'[w] = now /\ deadline'[w] = now + ExpiresAfter
      BY <1>3, <2>3 DEF Types
    <3>2. now <= LastStart(w)' /\ LastStart(w)' \in Nat
      BY <1>1, <1>3, <2>3 DEF Types, T1, LastStart
    <3> QED
      BY <1>1, <1>3, <1>4, <2>1, <3>1, <3>2
         DEF Types, Worker, Unstarted, Clocks, OnTime, Measured
  <2> QED
    BY <1>2, <2>2, <2>3
<1>7. \A v \in Workers \ {w} :
        UNCHANGED <<op[v], deadline[v], resolved[v], rttT0[v], tStop[v], rttSum[v]>>
  BY <1>1, <1>2, <1>3 DEF Types
<1> QED
  BY <1>5, <1>6, <1>7, HandlerKeeps

LEMMA LFail == LInv /\ (\E w \in Workers : Fail(w)) => LInv'
<1> SUFFICES ASSUME LInv, NEW w \in Workers, Fail(w) PROVE LInv'
  OBVIOUS
<1>1. /\ op[w] # "none" /\ Ended(w, op[w]) /\ op' = [op EXCEPT ![w] = "none"]
      /\ dropped' = (IF op[w] = "shutdown" THEN dropped \cup {w} ELSE dropped)
      /\ UNCHANGED <<now, secure, nStarted, main, t0, deadline, resolved, rttT0, tStop, rttSum>>
  BY DEF Fail, Begins, Ended, measure
<1>2. Types /\ Worker(w)
  BY DEF LInv
<1>3. Types'
  BY <1>1, <1>2 DEF Types, Operations
<1>4. Worker(w)'
  BY <1>1, <1>2 DEF Types, Worker, Unstarted, Clocks, OnTime, Measured
<1> QED
  BY <1>1, <1>2, <1>3, <1>4, HandlerKeeps DEF Types

LEMMA LHandler == LInv /\ (\E w \in Workers : Handler(w)) => LInv'
<1> SUFFICES ASSUME LInv, NEW w \in Workers, Handler(w) PROVE LInv'
  OBVIOUS
<1> USE Constants
<1>1. Types /\ Worker(w) /\ op[w] \in Operations /\ t0[w] \in Nat /\ LastStart(w) \in Nat
  BY DEF LInv, Types, LastStart
\* The steps from the lookup to the answer.
<1>2. ASSUME NEW o, NEW p \in {"connect", "handshake", "write", "read", "none"}, Ended(w, o),
             op[w] = o, o # "none", o # "shutdown", op' = [op EXCEPT ![w] = p],
             UNCHANGED <<rttT0, tStop, rttSum, dropped>>,
             resolved' = resolved \/ resolved' = [resolved EXCEPT ![w] = TRUE],
             deadline' \in [Workers -> Int], \A v \in Workers \ {w} : deadline'[v] = deadline[v],
             p # "none" => resolved'[w] /\ now <= deadline'[w],
             p \in {"connect", "handshake"} => deadline'[w] <= LastStart(w) + ExpiresAfter,
             p \in {"write", "read"} => deadline'[w] <= LastStart(w) + 2 * ExpiresAfter
      PROVE  LInv'
  <2>1. UNCHANGED <<now, main, secure, nStarted, t0>>
    BY <1>2 DEF Ended
  <2>2. Types'
    BY <1>1, <1>2, <2>1 DEF Types, Operations
  <2>3. op'[w] = p /\ LastStart(w)' = LastStart(w)
    BY <1>1, <1>2, <2>1 DEF Types, LastStart
  <2>4. Worker(w)'
    BY <1>1, <1>2, <2>1, <2>3 DEF Types, Worker, Unstarted, Clocks, OnTime, Measured
  <2>5. \A v \in Workers \ {w} :
          UNCHANGED <<op[v], deadline[v], resolved[v], rttT0[v], tStop[v], rttSum[v]>>
    BY <1>1, <1>2 DEF Types
  <2> QED
    BY <1>2, <2>2, <2>4, <2>5, HandlerKeeps
<1>3. CASE OnResolve(w)
  <2>1. /\ Ended(w, "resolve") /\ resolved' = [resolved EXCEPT ![w] = TRUE]
        /\ op' = [op EXCEPT ![w] = "connect"]
        /\ deadline' = [deadline EXCEPT ![w] = now + ExpiresAfter]
        /\ UNCHANGED <<rttT0, tStop, rttSum, dropped>>
    BY <1>3 DEF OnResolve, Connect, Begins, Expires, measure
  <2>2. now <= LastStart(w) /\ op[w] = "resolve" /\ now \in Nat
    BY <1>1, <2>1 DEF Ended, Worker, OnTime, LastStart, Types
  <2>3. /\ deadline' \in [Workers -> Int] /\ deadline'[w] = now + ExpiresAfter /\ resolved'[w]
        /\ \A v \in Workers \ {w} : deadline'[v] = deadline[v]
    BY <1>1, <2>1, <2>2 DEF Types
  <2>4. now <= deadline'[w] /\ deadline'[w] <= LastStart(w) + ExpiresAfter
    BY <1>1, <2>2, <2>3
  <2> QED
    BY ONLY <1>2, <2>1, <2>2, <2>3, <2>4
<1>4. CASE OnConnect(w) /\ secure
  <2>1. /\ Ended(w, "connect") /\ op' = [op EXCEPT ![w] = "handshake"]
        /\ UNCHANGED <<resolved, deadline, rttT0, tStop, rttSum, dropped>>
    BY <1>4 DEF OnConnect, Begins, measure
  <2>2. /\ op[w] = "connect" /\ resolved[w] /\ now <= deadline[w]
        /\ deadline[w] <= LastStart(w) + ExpiresAfter
    BY <1>1, <2>1 DEF Ended, Worker, OnTime
  <2> QED
    BY <1>1, <1>2, <2>1, <2>2 DEF Types
<1>5. CASE \/ OnConnect(w) /\ ~secure
           \/ OnHandshake(w)
  <2>1. PICK o \in {"connect", "handshake"} :
          /\ Ended(w, o) /\ op' = [op EXCEPT ![w] = "write"]
          /\ deadline' = [deadline EXCEPT ![w] = now + ExpiresAfter]
          /\ UNCHANGED <<resolved, rttT0, tStop, rttSum, dropped>>
    BY <1>5 DEF OnConnect, OnHandshake, Begins, Expires, measure
  <2>2. /\ op[w] = o /\ resolved[w] /\ now \in Nat /\ deadline[w] \in Int
        /\ now <= deadline[w] /\ deadline[w] <= LastStart(w) + ExpiresAfter
    BY <1>1, <2>1 DEF Ended, Worker, OnTime, Types
  <2>3. now + ExpiresAfter <= LastStart(w) + 2 * ExpiresAfter
    BY <1>1, <2>2
  <2>4. /\ deadline' \in [Workers -> Int] /\ deadline'[w] = now + ExpiresAfter /\ resolved'[w]
        /\ \A v \in Workers \ {w} : deadline'[v] = deadline[v]
    BY <1>1, <2>1, <2>2 DEF Types
  <2>5. now <= deadline'[w] /\ deadline'[w] <= LastStart(w) + 2 * ExpiresAfter
    BY <2>2, <2>3, <2>4
  <2>6. o # "none" /\ o # "shutdown"
    OBVIOUS
  <2> QED
    BY ONLY <1>2, <2>1, <2>2, <2>4, <2>5, <2>6
<1>6. CASE OnWrite(w)
  <2>1. /\ Ended(w, "write") /\ op' = [op EXCEPT ![w] = "read"]
        /\ UNCHANGED <<resolved, deadline, rttT0, tStop, rttSum, dropped>>
    BY <1>6 DEF OnWrite, Begins, measure
  <2>2. /\ op[w] = "write" /\ resolved[w] /\ now <= deadline[w]
        /\ deadline[w] <= LastStart(w) + 2 * ExpiresAfter
    BY <1>1, <2>1 DEF Ended, Worker, OnTime
  <2> QED
    BY <1>1, <1>2, <2>1, <2>2 DEF Types
<1>7. CASE OnReadNonsense(w)
  <2>1. /\ Ended(w, "read") /\ op[w] = "read" /\ op' = [op EXCEPT ![w] = "none"]
        /\ UNCHANGED <<resolved, deadline, rttT0, tStop, rttSum, dropped>>
    BY <1>7 DEF OnReadNonsense, Begins, Ended, measure
  <2> QED
    BY <1>1, <1>2, <2>1 DEF Types
<1>8. CASE OnRead(w)
  <2>1. /\ Ended(w, "read") /\ op[w] = "read" /\ UNCHANGED resolved
        /\ rttSum' = [rttSum EXCEPT ![w] = @ + now - rttT0[w]]
        /\ now > rttT0[w]
        /\ UNCHANGED <<now, main, secure, nStarted, t0>>
    BY <1>8 DEF OnRead, Ended
  <2>2. /\ rttSum' \in [Workers -> Nat] /\ rttSum'[w] <= now - t0[w]
        /\ \A v \in Workers \ {w} : rttSum'[v] = rttSum[v]
    <3>1. rttSum[w] <= rttT0[w] - t0[w] /\ rttSum[w] \in Nat /\ rttT0[w] \in Nat /\ now \in Nat
      BY <1>1, <2>1 DEF Worker, Measured, Types
    <3> QED
      BY <1>1, <2>1, <3>1 DEF Types
  <2>3. resolved[w] /\ w <= nStarted /\ now <= deadline[w]
        /\ deadline[w] <= LastStart(w) + 2 * ExpiresAfter
    BY <1>1, <2>1 DEF Worker, OnTime, Unstarted, Types
  <2>4. CASE Restart(w) /\ UNCHANGED dropped
    BY <2>1, <2>2, <2>3, <2>4, RestartKeeps
  <2>5. CASE /\ secure /\ op' = [op EXCEPT ![w] = "shutdown"]
             /\ deadline' = [deadline EXCEPT ![w] = now + ExpiresAfter]
             /\ UNCHANGED <<rttT0, tStop, dropped>>
    <3>1. Types'
      BY <1>1, <2>1, <2>2, <2>5 DEF Types, Operations
    <3>2. op'[w] = "shutdown" /\ deadline'[w] = now + ExpiresAfter /\ LastStart(w)' = LastStart(w)
      BY <1>1, <2>1, <2>5 DEF Types, LastStart
    <3>3. Worker(w)'
      BY <1>1, <2>1, <2>2, <2>3, <2>5, <3>2
         DEF Types, Worker, Unstarted, Clocks, OnTime, Measured
    <3> QED
      BY <1>1, <2>1, <2>2, <2>5, <3>1, <3>3, HandlerKeeps DEF Types
  <2>6. CASE /\ op' = [op EXCEPT ![w] = "none"] /\ dropped' = dropped \cup {w}
             /\ UNCHANGED <<deadline, rttT0, tStop>>
    <3>1. Types'
      BY <1>1, <2>1, <2>2, <2>6 DEF Types, Operations
    <3>2. Worker(w)'
      BY <1>1, <2>1, <2>3, <2>6 DEF Types, Worker, Unstarted, Clocks, OnTime, Measured
    <3> QED
      BY <1>1, <2>1, <2>2, <2>6, <3>1, <3>2, HandlerKeeps DEF Types
  <2> QED
    BY <1>8, <2>4, <2>5, <2>6 DEF OnRead, Begins, Expires
<1>9. CASE OnShutdown(w)
  <2>1. /\ Ended(w, "shutdown") /\ op[w] = "shutdown" /\ Restart(w)
        /\ UNCHANGED <<resolved, rttSum, dropped>>
    BY <1>9 DEF OnShutdown, Ended, measure
  <2>2. resolved[w] /\ rttSum[w] <= now - t0[w]
    BY <1>1, <2>1 DEF Worker, OnTime, Measured
  <2> QED
    BY <1>1, <2>1, <2>2, RestartKeeps DEF Types
<1> QED
  BY <1>3, <1>4, <1>5, <1>6, <1>7, <1>8, <1>9 DEF Handler, OnConnect

-----------------------------------------------------------------------------
LEMMA LMain == LInv /\ (StartOnEmpty \/ Run \/ Progress) => LInv'
<1> SUFFICES ASSUME LInv, StartOnEmpty \/ Run \/ Progress PROVE LInv'
  OBVIOUS
<1>1. /\ UNCHANGED <<now, secure, nStarted, op, deadline, resolved, t0, rttT0, tStop, rttSum,
                     dropped>>
      /\ main' \in {"running", "crashed"}
  BY DEF StartOnEmpty, Run, Progress, clocks, measure
<1>2. Types'
  BY <1>1 DEF LInv, Types
<1>3. \A w \in Workers : Worker(w)'
  BY <1>1, Kept
<1>4. RuntimeCovers'
  BY <1>1 DEF RuntimeCovers
<1> QED
  BY <1>2, <1>3, <1>4 DEF LInv

\* Time passes only when nothing is due.
LEMMA LTick == LInv /\ Tick => LInv'
<1> SUFFICES ASSUME LInv, Tick PROVE LInv'
  OBVIOUS
<1> USE Constants
<1>1. /\ now' = now + 1 /\ main' \in {"starting", "running"}
      /\ \A w \in Workers : ~Due(w)
      /\ UNCHANGED <<main, secure, nStarted, op, deadline, resolved, t0, rttT0, tStop, rttSum,
                     dropped>>
  BY DEF Tick, clocks, measure
<1>2. Types'
  BY <1>1 DEF LInv, Types
<1>3. ASSUME NEW w \in Workers PROVE Worker(w)'
  <2>1. Worker(w) /\ Types /\ ~Due(w)
    BY <1>1 DEF LInv
  <2>2. op[w] = "resolve" => now < t0[w] + ResolveSecs
    BY <2>1 DEF Due, Worker, OnTime, Types
  <2>3. op[w] \notin {"none", "resolve"} => now < deadline[w]
    BY <2>1 DEF Due, Worker, OnTime, Types, Never
  <2>4. LastStart(w)' = LastStart(w)
    BY <1>1 DEF LastStart
  <2> QED
    BY <1>1, <2>1, <2>2, <2>3, <2>4 DEF Types, Worker, Unstarted, Clocks, OnTime, Measured
<1>4. RuntimeCovers'
  BY <1>1 DEF RuntimeCovers
<1> QED
  BY <1>2, <1>3, <1>4 DEF LInv

\* The longest runtime is that of the worker whose measurements it has to cover,
\* or a longer one.
LEMMA LReport == LInv /\ Report => LInv'
<1> SUFFICES ASSUME LInv, Report PROVE LInv'
  OBVIOUS
<1> USE Constants
<1> DEFINE D == {0} \cup {Dt(w) : w \in Workers}
<1>1. /\ \A w \in Workers : op[w] = "none"
      /\ report'.runtime = Max(D) /\ main' = "done"
      /\ UNCHANGED <<now, secure, nStarted, op, deadline, resolved, t0, rttT0, tStop, rttSum,
                     dropped>>
  BY DEF Report, clocks, measure
<1>2. Types'
  BY <1>1 DEF LInv, Types
<1>3. \A w \in Workers : Worker(w)'
  BY <1>1, Kept
<1>4. D \subseteq Int /\ D # {} /\ now \in Nat /\ \A x \in D : x <= now
  <2>1. \A w \in Workers : Dt(w) \in Int /\ Dt(w) <= now
    BY DEF LInv, Types, Worker, Clocks, Dt
  <2>2. now \in Nat
    BY DEF LInv, Types
  <2> QED
    BY ONLY <2>1, <2>2
<1>5. Max(D) \in Int /\ \A x \in D : x <= Max(D)
  BY <1>4, MaxIsLargest
<1>6. ASSUME NEW w \in Workers, w \notin dropped PROVE rttSum[w] <= Max(D)
  <2>1. rttSum[w] \in Nat /\ (rttSum[w] = 0 \/ rttSum[w] <= Dt(w)) /\ Dt(w) \in Int
    <3> HIDE DEF D
    <3>1. op[w] = "none"
      BY <1>1
    <3>2. rttSum[w] \in Nat /\ tStop[w] \in Nat /\ t0[w] \in Nat
      BY DEF LInv, Types
    <3>3. rttSum[w] = 0 \/ rttSum[w] <= tStop[w] - t0[w]
      BY <1>6, <3>1 DEF LInv, Worker, Measured
    <3> QED
      BY <3>2, <3>3 DEF Dt
  <2>2. 0 <= Max(D) /\ Dt(w) <= Max(D)
    BY <1>5
  <2> HIDE DEF D
  <2> QED
    BY <1>5, <2>1, <2>2
<1>7. RuntimeCovers'
  BY <1>1, <1>6 DEF RuntimeCovers
<1> QED
  BY <1>2, <1>3, <1>7 DEF LInv

LEMMA LStutter == LInv /\ UNCHANGED vars => LInv'
<1> SUFFICES ASSUME LInv, UNCHANGED vars PROVE LInv'
  OBVIOUS
<1>1. Types'
  BY DEF LInv, Types, vars, clocks, measure
<1>2. \A w \in Workers : Worker(w)'
  BY Kept DEF vars, clocks, measure
<1>3. RuntimeCovers'
  BY DEF LInv, RuntimeCovers, vars, clocks, measure
<1> QED
  BY <1>1, <1>2, <1>3 DEF LInv

-----------------------------------------------------------------------------
\* The inductive invariant holds in every reachable state of the load test.
THEOREM LoadInvariance == Spec => []LInv
<1>1. LInv /\ [Next]_vars => LInv'
  BY LStartWorker, LMain, LTick, LReport, LHandler, LFail, LStutter DEF Next
<1> QED
  BY <1>1, LInit, PTL DEF Spec

\* Whatever the server does, and however slow it is, no worker is busy for longer
\* than one request's deadlines after the time it was given.
THEOREM OverrunBounded == Spec => []BoundedOverrun
<1>1. LInv => BoundedOverrun
  <2> SUFFICES ASSUME LInv, NEW w \in Workers, op[w] # "none"
               PROVE  now <= LastStart(w) + Deadlines * ExpiresAfter
    BY DEF BoundedOverrun
  <2> USE Constants
  <2>1. Types /\ OnTime(w) /\ op[w] \in Operations
    BY DEF LInv, Worker, Types
  <2>2. LastStart(w) \in Nat /\ t0[w] + ResolveSecs <= LastStart(w) /\ t0[w] \in Nat
    BY <2>1 DEF LastStart, Types
  <2>3. CASE secure
    BY <2>1, <2>2, <2>3 DEF Deadlines, OnTime, Types, Operations
  <2>4. CASE ~secure
    BY <2>1, <2>2, <2>4 DEF Deadlines, OnTime, Types, Operations
  <2> QED
    BY <2>3, <2>4
<1> QED
  BY <1>1, LoadInvariance, PTL

\* The runtime that main() reports is never shorter than the time a worker spent
\* on the answers it counted, unless the worker was dropped.
THEOREM RuntimeIsCovering == Spec => []RuntimeCovers
<1>1. LInv => RuntimeCovers
  BY DEF LInv
<1> QED
  BY <1>1, LoadInvariance, PTL

=============================================================================
