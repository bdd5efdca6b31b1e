--------------------------- MODULE OperationQueue ---------------------------
(***************************************************************************)
(* The thread pool of pwned-lib: OperationQueue (operationqueue.hpp),      *)
(* Operation (operation.hpp, operation.cpp) and the Semaphore it throttles *)
(* with, driven by the two programs that use it, pwned-converter-cli and   *)
(* pwned-merger-cli.                                                       *)
(*                                                                         *)
(* Threads: main (adds the operations, executes the queue, waits for it),  *)
(* exe (exeThread, hands operations to new threads), key (the detached     *)
(* keyboard thread: pause/resume and quit) and one thread per operation.   *)
(* Critical sections that cannot block are one step, enabled while mtx is  *)
(* free; cancel() blocks inside its critical section and is taken apart.   *)
(***************************************************************************)
EXTENDS Integers, Sequences, FiniteSets

CONSTANTS Ops,        \* the operations the program creates
          Batches,    \* what main adds before each execute(): a sequence of sets
          Capacity,   \* std::thread::hardware_concurrency()
          Priority,   \* Operation::priority (the converter uses the file size)
          Work,       \* units of work (chunks, entries) in one operation
          Client,     \* "converter" or "merger"
          Keys,       \* the keys the user may press, a subset of {"space", "q"}
          MaxKeys,    \* bound on the number of keys pressed
          Spurious,   \* may condition_variable::wait return without a notify?
          NoOp        \* the null operation pointer

ASSUME QueueAssumption ==
    /\ IsFiniteSet(Ops)
    /\ NoOp \notin Ops
    /\ Batches \in Seq(SUBSET Ops)
    /\ \A i, j \in 1..Len(Batches) : i # j => Batches[i] \cap Batches[j] = {}
    /\ Capacity \in Nat
    /\ Priority \in [Ops -> Int]
    /\ Work \in Nat
    /\ Client \in {"converter", "merger"}
    /\ Keys \subseteq {"space", "q"}
    /\ MaxKeys \in Nat
    /\ Spurious \in BOOLEAN

VARIABLES
    mainPc, batch, toAdd,             \* main: program counter, current batch
    exePc,                            \* exeThread
    opPc, work,                       \* the operations' threads
    keyPc, keyCmd, keysLeft,          \* the keyboard thread
    pauseSeen, pauseAt,               \* pause()'s iterator over runningOps
    mtx,                              \* OperationQueue::mtx
    cancelPc, cancelTodo, cancelAt,   \* cancel(), run by the holder of mtx
    unscheduledOps, runningOps,
    capacity,                         \* Semaphore::_capacity of guard
    isRunning, isCancelled,           \* OperationQueue::_isRunning, _isCancelled
    opPaused, opCancelled,            \* Operation::isPaused, isCancelled
    freed,                            \* operations that were deleted
    threw,                            \* operations whose execute() threw
    crashed                           \* undefined behaviour ended the program

mainVars   == <<mainPc, batch, toAdd>>
opVars     == <<opPc, work, threw>>
keyVars    == <<keyPc, keyCmd, keysLeft>>
pauseVars  == <<pauseSeen, pauseAt>>
cancelVars == <<mtx, cancelPc, cancelTodo, cancelAt>>
listVars   == <<unscheduledOps, runningOps, freed>>
flagVars   == <<isRunning, isCancelled>>
opFlagVars == <<opPaused, opCancelled>>

vars == <<mainVars, exePc, opVars, keyVars, pauseVars, cancelVars, listVars,
          capacity, flagVars, opFlagVars, crashed>>

-----------------------------------------------------------------------------
(* Where the threads can be.                                               *)

MainPcs == {"loop", "adding", "executed", "joinExe", "joinOps", "reset",
            "resetCancel", "resetFlags", "done"}
ExePcs  == {"none", "check", "sem", "schedule", "done"}
OpPcs   == {"none", "start", "work", "check", "toWait", "waiting", "woken",
            "end", "finish", "release", "done"}
KeyPcs  == {"idle", "pause", "pauseNext", "pauseTouch", "pauseLock",
            "resume", "resumeSet", "cancel", "cancelling", "exit"}

\* op->start() has set isRunning and not yet reset it.
Executing == {"work", "check", "toWait", "waiting", "woken", "end"}

\* The operation's thread exists and has not yet left finished().
Alive == {"start", "finish"} \cup Executing

\* The operation's thread holds a permit of the semaphore.
Holding == Alive \cup {"release"}

TopsAnyOrder(S) == S

\* std::priority_queue<...>::top(): the elements no other one exceeds.
Tops(S) == {o \in S : \A p \in S : Priority[p] <= Priority[o]}

\* The process is alive: main has not returned and nothing crashed.
Up == ~crashed /\ mainPc # "done"

-----------------------------------------------------------------------------
Init ==
    /\ mainPc = "loop" /\ batch = 1 /\ toAdd = {}
    /\ exePc = "none"
    /\ opPc = [o \in Ops |-> "none"]
    /\ work = [o \in Ops |-> Work]
    /\ threw = {}
    /\ keyPc = "idle" /\ keyCmd = "none" /\ keysLeft = MaxKeys
    /\ pauseSeen = {} /\ pauseAt = NoOp
    /\ mtx = "free" /\ cancelPc = "off" /\ cancelTodo = {} /\ cancelAt = NoOp
    /\ unscheduledOps = {} /\ runningOps = {} /\ freed = {}
    /\ capacity = Capacity
    /\ isRunning = FALSE /\ isCancelled = FALSE
    /\ opPaused = [o \in Ops |-> FALSE]
    /\ opCancelled = [o \in Ops |-> FALSE]
    /\ crashed = FALSE

-----------------------------------------------------------------------------
(* cancel(), called by the keyboard thread and, through reset(), by main.  *)
(* It holds mtx from beginning to end and calls Operation::cancel() on     *)
(* every running and then on every unscheduled operation; that call waits  *)
(* on the operation's condition variable without a predicate.              *)

CancelEnter(t) ==
    /\ mtx = "free"
    /\ mtx' = t
    /\ isCancelled' = TRUE
    /\ cancelPc' = "next"
    /\ cancelTodo' = runningOps
    /\ UNCHANGED <<cancelAt, isRunning>>

CancelTargetsAll == cancelTodo \cup runningOps \cup unscheduledOps

\* The next operation to cancel: the running ones first, then the queued
\* ones from the top of the priority queue.
CancelTargets == IF cancelTodo # {} THEN cancelTodo ELSE Tops(unscheduledOps)

\* op->cancel(): raise its flag, about to wait for finishedCondition.
CancelSignal ==
    /\ Up /\ cancelPc = "next"
    /\ \E o \in CancelTargets :
         /\ opCancelled' = [opCancelled EXCEPT ![o] = TRUE]
         /\ cancelAt' = o
    /\ cancelPc' = "toWait"
    /\ UNCHANGED <<mainVars, exePc, opVars, keyVars, pauseVars, mtx, cancelTodo,
                   listVars, capacity, flagVars, opPaused, crashed>>

CancelNoWait ==
    /\ Up /\ cancelPc = "toWait"
    /\ cancelPc' = "woken"
    /\ UNCHANGED <<mainVars, exePc, opVars, keyVars, pauseVars, mtx, cancelTodo,
                   cancelAt, listVars, capacity, flagVars, opFlagVars, crashed>>

\* Operation::waitForFinished(): only a notification from now on is seen.
CancelWait ==
    /\ Up /\ cancelPc = "toWait"
    /\ cancelPc' = "waiting"
    /\ UNCHANGED <<mainVars, exePc, opVars, keyVars, pauseVars, mtx, cancelTodo,
                   cancelAt, listVars, capacity, flagVars, opFlagVars, crashed>>

\* The wait returned: go on with the list, deleting an unscheduled operation.
CancelWoken ==
    /\ Up /\ cancelPc = "woken"
    /\ cancelPc' = "next"
    /\ cancelAt' = NoOp
    /\ \/ /\ cancelAt \in cancelTodo
          /\ cancelTodo' = cancelTodo \ {cancelAt}
          /\ UNCHANGED listVars
       \/ /\ cancelAt \notin cancelTodo
          /\ unscheduledOps' = unscheduledOps \ {cancelAt}
          /\ freed' = freed \cup {cancelAt}
          /\ UNCHANGED <<cancelTodo, runningOps>>
    /\ UNCHANGED <<mainVars, exePc, opVars, keyVars, pauseVars, mtx, capacity,
                   flagVars, opFlagVars, crashed>>

\* Both lists are done: cancel() returns to its caller and releases mtx.
CancelExit ==
    /\ Up /\ cancelPc = "next" /\ cancelTodo = {} /\ unscheduledOps = {}
    /\ cancelPc' = "off"
    /\ mtx' = "free"
    /\ \/ /\ mtx = "main" /\ mainPc' = "resetFlags" /\ UNCHANGED keyPc
       \/ /\ mtx = "key" /\ keyPc' = "exit" /\ UNCHANGED mainPc
    /\ UNCHANGED <<batch, toAdd, exePc, opVars, keyCmd, keysLeft, pauseVars,
                   cancelTodo, cancelAt, listVars, capacity, flagVars,
                   opFlagVars, crashed>>

Cancel == CancelSignal \/ CancelWait \/ CancelWoken \/ CancelExit

-----------------------------------------------------------------------------
(* The main thread: the converter adds every file to one batch, the merger *)
(* adds one operation per chunk and loops until no input is left.          *)

MainLoop ==
    /\ Up /\ mainPc = "loop"
    /\ \/ /\ batch > Len(Batches) \/ isCancelled
          /\ mainPc' = "done"
          /\ UNCHANGED toAdd
       \/ /\ batch <= Len(Batches) /\ ~isCancelled
          /\ mainPc' = "adding"
          /\ toAdd' = Batches[batch]
    /\ UNCHANGED <<batch, exePc, opVars, keyVars, pauseVars, cancelVars,
                   listVars, capacity, flagVars, opFlagVars, crashed>>

\* add(op)
MainAdd ==
    /\ Up /\ mainPc = "adding" /\ mtx = "free"
    /\ \E o \in toAdd :
         /\ toAdd' = toAdd \ {o}
         /\ unscheduledOps' = unscheduledOps \cup {o}
    /\ UNCHANGED <<mainPc, batch, exePc, opVars, keyVars, pauseVars, cancelVars,
                   runningOps, freed, capacity, flagVars, opFlagVars, crashed>>

\* execute(true): exeThread runs before _isRunning is set.
MainExecute ==
    /\ Up /\ mainPc = "adding" /\ toAdd = {}
    /\ mainPc' = "executed"
    /\ exePc' = "check"
    /\ UNCHANGED <<batch, toAdd, opVars, keyVars, pauseVars, cancelVars,
                   listVars, capacity, flagVars, opFlagVars, crashed>>

MainSetRunning ==
    /\ Up /\ mainPc = "executed"
    /\ mainPc' = "joinExe"
    /\ isRunning' = TRUE
    /\ UNCHANGED <<batch, toAdd, exePc, opVars, keyVars, pauseVars, cancelVars,
                   listVars, capacity, isCancelled, opFlagVars, crashed>>

\* waitForScheduled(): exeThread.join()
MainJoinExe ==
    /\ Up /\ mainPc = "joinExe" /\ exePc = "done"
    /\ mainPc' = "joinOps"
    /\ UNCHANGED <<batch, toAdd, exePc, opVars, keyVars, pauseVars, cancelVars,
                   listVars, capacity, flagVars, opFlagVars, crashed>>

OpThreadsNotJoined == TRUE

\* Every thread in opThreads has ended.
OpThreadsEnded == \A o \in Ops : opPc[o] \in {"none", "done"}

\* waitForFinished() joins every thread in opThreads ...
MainJoinOps ==
    /\ Up /\ mainPc = "joinOps" /\ OpThreadsEnded
    /\ mainPc' = "reset"
    /\ UNCHANGED <<batch, toAdd, exePc, opVars, keyVars, pauseVars, cancelVars,
                   listVars, capacity, flagVars, opFlagVars, crashed>>

\* ... and calls reset(), which begins with cancel().
MainReset ==
    /\ Up /\ mainPc = "reset"
    /\ CancelEnter("main")
    /\ mainPc' = "resetCancel"
    /\ UNCHANGED <<batch, toAdd, exePc, opVars, keyVars, pauseVars, listVars,
                   capacity, opFlagVars, crashed>>

\* The end of reset(), outside the critical section.
MainResetFlags ==
    /\ Up /\ mainPc = "resetFlags"
    /\ isRunning' = FALSE /\ isCancelled' = FALSE
    /\ batch' = batch + 1
    /\ mainPc' = "loop"
    /\ UNCHANGED <<toAdd, exePc, opVars, keyVars, pauseVars, cancelVars,
                   listVars, capacity, opFlagVars, crashed>>

Main == MainLoop \/ MainAdd \/ MainExecute \/ MainSetRunning \/ MainJoinExe
        \/ MainJoinOps \/ MainReset \/ MainResetFlags

-----------------------------------------------------------------------------
(* exeThread: while there are operations, take a permit and start one.     *)

ExeCheck ==
    /\ Up /\ exePc = "check"
    /\ exePc' = IF unscheduledOps = {} \/ isCancelled THEN "done" ELSE "sem"
    /\ UNCHANGED <<mainVars, opVars, keyVars, pauseVars, cancelVars, listVars,
                   capacity, flagVars, opFlagVars, crashed>>

\* guard.wait()
ExeWait ==
    /\ Up /\ exePc = "sem" /\ capacity > 0
    /\ capacity' = capacity - 1
    /\ exePc' = "schedule"
    /\ UNCHANGED <<mainVars, opVars, keyVars, pauseVars, cancelVars, listVars,
                   flagVars, opFlagVars, crashed>>

\* mtx.lock() .. mtx.unlock(); top() of an empty queue is undefined.
ExeSchedule ==
    /\ Up /\ exePc = "schedule" /\ mtx = "free"
    /\ \/ /\ unscheduledOps = {}
          /\ crashed' = TRUE
          /\ UNCHANGED <<exePc, opPc, unscheduledOps, runningOps>>
       \/ /\ \E o \in Tops(unscheduledOps) :
               /\ unscheduledOps' = unscheduledOps \ {o}
               /\ runningOps' = runningOps \cup {o}
               /\ opPc' = [opPc EXCEPT ![o] = "start"]
          /\ exePc' = "check"
          /\ UNCHANGED crashed
    /\ UNCHANGED <<mainVars, work, threw, keyVars, pauseVars, cancelVars, freed,
                   capacity, flagVars, opFlagVars>>

Exe == ExeCheck \/ ExeWait \/ ExeSchedule

-----------------------------------------------------------------------------
(* An operation's thread: start(), finished(), guard.notify().             *)

\* A step that only moves the operation's own program counter.
OpGoto(o, from, to) ==
    /\ Up /\ opPc[o] = from
    /\ opPc' = [opPc EXCEPT ![o] = to]

\* start(): an operation cancelled beforehand returns at once.
OpStart(o) ==
    /\ \/ /\ opCancelled[o]
          /\ OpGoto(o, "start", "finish")
          /\ UNCHANGED opPaused
       \/ /\ ~opCancelled[o]
          /\ OpGoto(o, "start", "work")
          /\ opPaused' = [opPaused EXCEPT ![o] = FALSE]
    /\ UNCHANGED <<mainVars, exePc, work, threw, keyVars, pauseVars, cancelVars,
                   listVars, capacity, flagVars, opCancelled, crashed>>

StopsEarly(o) == work[o] <= 1 \/ opCancelled[o]

\* execute() has nothing more to do, or notices that it was cancelled.
Stops(o) == work[o] = 0 \/ opCancelled[o]

\* One unit of execute(): a chunk of the converter, an entry of the merger.
OpWork(o) ==
    /\ \/ /\ Stops(o)
          /\ OpGoto(o, "work", "end")
          /\ UNCHANGED work
       \/ /\ ~Stops(o)
          /\ OpGoto(o, "work", "check")
          /\ work' = [work EXCEPT ![o] = @ - 1]
    /\ UNCHANGED <<mainVars, exePc, threw, keyVars, pauseVars, cancelVars,
                   listVars, capacity, flagVars, opFlagVars, crashed>>

\* The merger cannot open its destination: start() swallows the exception.
OpThrow(o) ==
    /\ Client = "merger" /\ work[o] = Work
    /\ OpGoto(o, "work", "end")
    /\ threw' = threw \cup {o}
    /\ UNCHANGED <<mainVars, exePc, work, keyVars, pauseVars, cancelVars,
                   listVars, capacity, flagVars, opFlagVars, crashed>>

\* if (isPaused) queue->operationWait()
OpCheck(o) ==
    /\ OpGoto(o, "check", IF opPaused[o] THEN "toWait" ELSE "work")
    /\ UNCHANGED <<mainVars, exePc, work, threw, keyVars, pauseVars, cancelVars,
                   listVars, capacity, flagVars, opFlagVars, crashed>>

\* pauseCondition.wait(lock): only a notification from now on is seen.
OpWait(o) ==
    /\ OpGoto(o, "toWait", "waiting")
    /\ UNCHANGED <<mainVars, exePc, work, threw, keyVars, pauseVars, cancelVars,
                   listVars, capacity, flagVars, opFlagVars, crashed>>

\* operationWait() returned: isPaused = false
OpWoken(o) ==
    /\ OpGoto(o, "woken", "work")
    /\ opPaused' = [opPaused EXCEPT ![o] = FALSE]
    /\ UNCHANGED <<mainVars, exePc, work, threw, keyVars, pauseVars, cancelVars,
                   listVars, capacity, flagVars, opCancelled, crashed>>

\* The end of start(): finishedCondition.notify_one() wakes a cancel() that
\* already waits for this operation and is lost otherwise.
OpEnd(o) ==
    /\ OpGoto(o, "end", "finish")
    /\ cancelPc' = IF cancelPc = "waiting" /\ cancelAt = o THEN "woken" ELSE cancelPc
    /\ UNCHANGED <<mainVars, exePc, work, threw, keyVars, pauseVars, mtx,
                   cancelTodo, cancelAt, listVars, capacity, flagVars,
                   opFlagVars, crashed>>

\* runningOps.remove(op); delete op
Finished(o) ==
    /\ OpGoto(o, "finish", "release")
    /\ runningOps' = runningOps \ {o}
    /\ freed' = freed \cup {o}
    /\ UNCHANGED <<mainVars, exePc, work, threw, keyVars, pauseVars, cancelVars,
                   unscheduledOps, capacity, flagVars, opFlagVars, crashed>>

FinishUnlocked(o) == Finished(o)

\* finished(op), under mtx
OpFinish(o) == mtx = "free" /\ Finished(o)

NotifyForgotten == capacity

\* The semaphore's counter after guard.notify().
Notified == capacity + 1

\* guard.notify()
OpRelease(o) ==
    /\ OpGoto(o, "release", "done")
    /\ capacity' = Notified
    /\ UNCHANGED <<mainVars, exePc, work, threw, keyVars, pauseVars, cancelVars,
                   listVars, flagVars, opFlagVars, crashed>>

OpThread(o) == OpStart(o) \/ OpWork(o) \/ OpThrow(o) \/ OpCheck(o) \/ OpWait(o)
               \/ OpWoken(o) \/ OpEnd(o) \/ OpFinish(o) \/ OpRelease(o)

-----------------------------------------------------------------------------
(* The detached keyboard thread.                                           *)

\* The converter starts it after the last add(), the merger before the first.
KeyThreadUp == Client = "merger" \/ batch > 1 \/ mainPc \notin {"loop", "adding"}

KeyPress ==
    /\ Up /\ KeyThreadUp /\ keyPc = "idle" /\ keysLeft > 0
    /\ keysLeft' = keysLeft - 1
    /\ \E c \in Keys :
         /\ keyCmd' = c
         /\ keyPc' = IF c = "space" /\ isRunning THEN "pause" ELSE "resume"
    /\ UNCHANGED <<mainVars, exePc, opVars, pauseVars, cancelVars, listVars,
                   capacity, flagVars, opFlagVars, crashed>>

\* pause(): its early returns; it walks runningOps without holding mtx.
Pause ==
    /\ Up /\ keyPc = "pause"
    /\ keyPc' = IF isCancelled \/ ~isRunning THEN "idle" ELSE "pauseNext"
    /\ pauseSeen' = {} /\ pauseAt' = NoOp
    /\ UNCHANGED <<mainVars, exePc, opVars, keyCmd, keysLeft, cancelVars,
                   listVars, capacity, flagVars, opFlagVars, crashed>>

\* Advance the iterator: undefined when its element was erased meanwhile.
PauseNext ==
    /\ Up /\ keyPc = "pauseNext"
    /\ \/ /\ pauseAt \in freed
          /\ crashed' = TRUE
          /\ UNCHANGED <<keyPc, pauseVars>>
       \/ /\ pauseAt \notin freed
          /\ \E o \in runningOps \ pauseSeen :
               /\ pauseAt' = o
               /\ pauseSeen' = pauseSeen \cup {o}
          /\ keyPc' = "pauseTouch"
          /\ UNCHANGED crashed
       \/ /\ pauseAt \notin freed
          /\ runningOps \subseteq pauseSeen
          /\ keyPc' = "pauseLock"
          /\ UNCHANGED <<pauseVars, crashed>>
    /\ UNCHANGED <<mainVars, exePc, opVars, keyCmd, keysLeft, cancelVars,
                   listVars, capacity, flagVars, opFlagVars>>

\* op->pause(): undefined when the operation was deleted meanwhile.
PauseTouch ==
    /\ Up /\ keyPc = "pauseTouch"
    /\ \/ /\ pauseAt \in freed
          /\ crashed' = TRUE
          /\ UNCHANGED <<keyPc, opPaused>>
       \/ /\ pauseAt \notin freed
          /\ opPaused' = [opPaused EXCEPT ![pauseAt] = TRUE]
          /\ keyPc' = "pauseNext"
          /\ UNCHANGED crashed
    /\ UNCHANGED <<mainVars, exePc, opVars, keyCmd, keysLeft, pauseVars,
                   cancelVars, listVars, capacity, flagVars, opCancelled>>

PauseLock ==
    /\ Up /\ keyPc = "pauseLock" /\ mtx = "free"
    /\ isRunning' = FALSE
    /\ keyPc' = "idle"
    /\ UNCHANGED <<mainVars, exePc, opVars, keyCmd, keysLeft, pauseVars,
                   cancelVars, listVars, capacity, isCancelled, opFlagVars,
                   crashed>>

\* Where resume() returns to: quitting calls cancel() next.
AfterResume == IF keyCmd = "q" THEN "cancel" ELSE "idle"

\* resume(): its early returns, then pauseCondition.notify_all() ...
Resume ==
    /\ Up /\ keyPc = "resume"
    /\ \/ /\ isCancelled \/ isRunning
          /\ keyPc' = AfterResume
          /\ UNCHANGED opPc
       \/ /\ ~isCancelled /\ ~isRunning
          /\ keyPc' = "resumeSet"
          /\ opPc' = [o \in Ops |-> IF opPc[o] = "waiting" THEN "woken" ELSE opPc[o]]
    /\ UNCHANGED <<mainVars, exePc, work, threw, keyCmd, keysLeft, pauseVars,
                   cancelVars, listVars, capacity, flagVars, opFlagVars, crashed>>

\* ... and _isRunning = true.
ResumeSet ==
    /\ Up /\ keyPc = "resumeSet"
    /\ isRunning' = TRUE
    /\ keyPc' = AfterResume
    /\ UNCHANGED <<mainVars, exePc, opVars, keyCmd, keysLeft, pauseVars,
                   cancelVars, listVars, capacity, isCancelled, opFlagVars,
                   crashed>>

KeyCancel ==
    /\ Up /\ keyPc = "cancel"
    /\ CancelEnter("key")
    /\ keyPc' = "cancelling"
    /\ UNCHANGED <<mainVars, exePc, opVars, keyCmd, keysLeft, pauseVars,
                   listVars, capacity, opFlagVars, crashed>>

Key == Pause \/ PauseNext \/ PauseTouch \/ PauseLock \/ Resume \/ ResumeSet
       \/ KeyCancel

-----------------------------------------------------------------------------
(* A condition variable may wake up without a notification.                *)

SpuriousCancel ==
    /\ Up /\ Spurious /\ cancelPc = "waiting"
    /\ cancelPc' = "woken"
    /\ UNCHANGED <<mainVars, exePc, opVars, keyVars, pauseVars, mtx, cancelTodo,
                   cancelAt, listVars, capacity, flagVars, opFlagVars, crashed>>

SpuriousOp(o) ==
    /\ Spurious
    /\ OpGoto(o, "waiting", "woken")
    /\ UNCHANGED <<mainVars, exePc, work, threw, keyVars, pauseVars, cancelVars,
                   listVars, capacity, flagVars, opFlagVars, crashed>>

\* The process has ended; nothing moves any more.
Terminated == ~Up /\ UNCHANGED vars

Next ==
    \/ Main \/ Exe \/ Cancel
    \/ \E o \in Ops : OpThread(o) \/ SpuriousOp(o)
    \/ KeyPress \/ Key
    \/ SpuriousCancel
    \/ Terminated

\* Every thread the scheduler may run is run eventually; nobody has to press
\* a key and no condition variable has to wake up by itself.
Fairness ==
    /\ WF_vars(Main) /\ WF_vars(Exe) /\ WF_vars(Cancel) /\ WF_vars(Key)
    /\ \A o \in Ops : WF_vars(OpThread(o))

Spec == Init /\ [][Next]_vars /\ Fairness

-----------------------------------------------------------------------------
(* Properties                                                              *)

ThreadTypes ==
    /\ mainPc \in MainPcs /\ batch \in 1..(Len(Batches) + 1) /\ toAdd \subseteq Ops
    /\ exePc \in ExePcs
    /\ opPc \in [Ops -> OpPcs] /\ work \in [Ops -> 0..Work] /\ threw \subseteq Ops
    /\ keyPc \in KeyPcs /\ keyCmd \in Keys \cup {"none"} /\ keysLeft \in 0..MaxKeys
    /\ pauseSeen \subseteq Ops /\ pauseAt \in Ops \cup {NoOp}

QueueTypes ==
    /\ mtx \in {"free", "main", "key"}
    /\ cancelPc \in {"off", "next", "toWait", "waiting", "woken"}
    /\ cancelTodo \subseteq Ops /\ cancelAt \in Ops \cup {NoOp}
    /\ unscheduledOps \subseteq Ops /\ runningOps \subseteq Ops /\ freed \subseteq Ops
    /\ capacity \in Nat

FlagTypes ==
    /\ isRunning \in BOOLEAN /\ isCancelled \in BOOLEAN /\ crashed \in BOOLEAN
    /\ opPaused \in [Ops -> BOOLEAN] /\ opCancelled \in [Ops -> BOOLEAN]

\* Every variable keeps its type: no unit of work is done twice (work never
\* drops below zero) and the semaphore's unsigned counter never underflows.
TypeOK == ThreadTypes /\ QueueTypes /\ FlagTypes

\* Ownership of an operation: it is queued, running or deleted, never two of
\* these; it is in runningOps exactly while its thread may still use it, and
\* finished() and cancel() never delete one twice or under its thread's feet.
Ownership ==
    /\ unscheduledOps \cap runningOps = {}
    /\ freed \cap (unscheduledOps \cup runningOps) = {}
    /\ \A o \in Ops :
         /\ opPc[o] \in Alive <=> o \in runningOps
         /\ o \in unscheduledOps => opPc[o] = "none"
         /\ opPc[o] \in {"release", "done"} => o \in freed

\* cancel() walks runningOps and the queue for as long as it takes to finish
\* the operations, and nothing it still has to touch is deleted meanwhile.
CancelTouchesLiveOps ==
    /\ cancelTodo \subseteq runningOps
    /\ cancelPc \in {"toWait", "waiting", "woken"} =>
         cancelAt \in runningOps \cup unscheduledOps

\* Every permit of the semaphore is free, or held by exeThread between
\* guard.wait() and the new thread, or by one operation's thread until its
\* guard.notify(): none is lost or invented, cancelled and throwing
\* operations included, so never more than Capacity operations run.
PermitConservation ==
    capacity + Cardinality({o \in Ops : opPc[o] \in Holding})
             + (IF exePc = "schedule" THEN 1 ELSE 0) = Capacity

\* The largest input first: nothing queued outranks an operation that runs.
LargestFirst ==
    \A o \in runningOps, p \in unscheduledOps : Priority[p] <= Priority[o]

\* When waitForFinished() has returned, the queue is as good as new: all the
\* operations added so far are deleted, their threads are gone, both lists
\* are empty and all permits are back.
WaitForFinishedDrains ==
    mainPc \in {"loop", "done"} =>
      /\ unscheduledOps = {} /\ runningOps = {}
      /\ OpThreadsEnded
      /\ capacity = Capacity
      /\ \A i \in 1..(batch - 1) : Batches[i] \subseteq freed

\* Unless the user quits, every operation's execute() ran to its end (or
\* threw) before main goes on, however often the user pauses and resumes.
NoWorkLost ==
    mainPc \in {"loop", "done"} /\ keyCmd # "q" =>
      \A i \in 1..(batch - 1) : \A o \in Batches[i] : work[o] = 0 \/ o \in threw

\* The one undefined thing the keyboard can bring about is pause() using an
\* operation that finished() deleted meanwhile: exeThread never calls top() on
\* a queue that cancel() has emptied, although it looks at the queue and at
\* _isCancelled without the lock; unless the user has quit and the wait in
\* cancel(), which has no predicate, returns by itself.
OnlyPauseCrashes ==
    crashed =>
      \/ keyPc \in {"pauseNext", "pauseTouch"} /\ pauseAt \in freed
      \/ Spurious /\ keyCmd = "q" /\ exePc = "schedule"

\* Left alone, the program runs all batches and ends.
LeftAloneEnds == <>(mainPc = "done" \/ keyCmd # "none")

\* "Q to quit": after the key is pressed the program ends.
QuitEnds == (keyCmd = "q") ~> (~Up)

=============================================================================
