------------------------ MODULE OperationQueueProofs ------------------------
(***************************************************************************)
(* The safety of OperationQueue for any number of operations, batches,     *)
(* permits, keys and spurious wakeups.  IInv is the inductive invariant;   *)
(* its parts say who may hold the mutex, what cancel() still has to touch, *)
(* in which phase of main which threads and lists can be non-empty, and    *)
(* where the operations of every batch are.                                *)
(***************************************************************************)
EXTENDS OperationQueue, FiniteSetTheorems, TLAPS

\* mtx is held across steps only by a cancel(), for main or for the keys.
MutexHolder ==
    /\ mtx = "free" <=> cancelPc = "off"
    /\ mtx = "main" <=> mainPc = "resetCancel"
    /\ mtx = "key" <=> keyPc = "cancelling"
    /\ cancelPc = "off" => cancelTodo = {}

\* cancel() waits for an operation of its list or, the list done, of the queue.
CancelTarget ==
    /\ cancelTodo \subseteq runningOps
    /\ cancelPc \in {"toWait", "waiting", "woken"} =>
         \/ cancelAt \in cancelTodo
         \/ cancelTodo = {} /\ cancelAt \in unscheduledOps

\* The phases of main: exeThread lives between execute() and its join, the
\* operations' threads until waitForFinished() has joined them.
Phases ==
    /\ mainPc \in {"executed", "joinExe"} => exePc # "none"
    /\ mainPc \notin {"executed", "joinExe"} => exePc \in {"none", "done"}
    /\ mainPc \notin {"executed", "joinExe", "joinOps"} => OpThreadsEnded
    /\ mainPc \in {"resetFlags", "loop", "done"} => unscheduledOps = {}
    /\ mainPc \notin {"loop", "done"} => batch <= Len(Batches)

\* What is not yet added is in no list and has no thread.
Unused(S) == \A o \in S : /\ opPc[o] = "none"
                          /\ o \notin unscheduledOps \cup runningOps \cup freed

Fresh ==
    /\ toAdd # {} => mainPc = "adding"
    /\ batch <= Len(Batches) => toAdd \subseteq Batches[batch]
    /\ Unused(toAdd)
    /\ \A i \in 1..Len(Batches) :
         (i > batch \/ (i = batch /\ mainPc = "loop")) => Unused(Batches[i])

\* What was added is queued, running or deleted.
Accounted ==
    /\ \A i \in 1..Len(Batches) : i < batch => Batches[i] \subseteq freed
    /\ mainPc \notin {"loop", "done"} =>
         Batches[batch] \subseteq toAdd \cup unscheduledOps \cup runningOps \cup freed

\* The inductive invariant.
IInv ==
    /\ TypeOK /\ MutexHolder /\ Ownership /\ CancelTarget
    /\ Phases /\ Fresh /\ Accounted

-----------------------------------------------------------------------------
LEMMA BatchFacts ==
    /\ Len(Batches) \in Nat
    /\ \A i \in 1..Len(Batches) : Batches[i] \subseteq Ops
BY QueueAssumption

LEMMA InitInv == Init => IInv
<1> SUFFICES ASSUME Init PROVE IInv
  OBVIOUS
<1> USE QueueAssumption, BatchFacts DEF Init
<1>1. TypeOK
  <2>1. ThreadTypes
    BY DEF ThreadTypes, MainPcs, ExePcs, OpPcs, KeyPcs
  <2>2. QueueTypes
    BY DEF QueueTypes
  <2>3. FlagTypes
    BY DEF FlagTypes
  <2> QED
    BY <2>1, <2>2, <2>3 DEF TypeOK
<1>2. MutexHolder /\ Ownership /\ CancelTarget
  BY DEF MutexHolder, Ownership, CancelTarget, Alive, Executing
<1>3. Phases /\ Accounted
  BY DEF Phases, Accounted, OpThreadsEnded
<1>4. Fresh
  BY DEF Fresh, Unused
<1> QED
  BY <1>1, <1>2, <1>3, <1>4 DEF IInv

LEMMA MainInv == IInv /\ Main => IInv'
<1> SUFFICES ASSUME IInv, Main PROVE IInv'
  OBVIOUS
<1> USE QueueAssumption, BatchFacts
    DEF Up, mainVars, opVars, keyVars, pauseVars, cancelVars, listVars, flagVars,
        opFlagVars, IInv, TypeOK, ThreadTypes, QueueTypes, FlagTypes, MainPcs, ExePcs,
        OpPcs, KeyPcs, MutexHolder,
        Ownership, CancelTarget, Phases, OpThreadsEnded, Fresh, Unused,
        Accounted, Alive, Executing
<1>1. CASE MainLoop
  BY <1>1 DEF MainLoop
<1>2. CASE MainAdd
  BY <1>2 DEF MainAdd
<1>3. CASE MainExecute
  BY <1>3 DEF MainExecute
<1>4. CASE MainSetRunning
  BY <1>4 DEF MainSetRunning
<1>5. CASE MainJoinExe
  BY <1>5 DEF MainJoinExe
<1>6. CASE MainJoinOps
  BY <1>6 DEF MainJoinOps
<1>7. CASE MainReset
  BY <1>7 DEF MainReset, CancelEnter
<1>8. CASE MainResetFlags
  <2>1. TypeOK'
    <3>1. ThreadTypes'
      BY <1>8 DEF MainResetFlags
    <3>2. QueueTypes'
      BY <1>8 DEF MainResetFlags
    <3>3. FlagTypes'
      BY <1>8 DEF MainResetFlags
    <3> QED
      BY <3>1, <3>2, <3>3
  <2>2. MutexHolder'
    BY <1>8 DEF MainResetFlags
  <2>3. Ownership'
    BY <1>8 DEF MainResetFlags
  <2>4. CancelTarget'
    BY <1>8 DEF MainResetFlags
  <2>5. Phases'
    BY <1>8 DEF MainResetFlags
  <2>6. Fresh'
    BY <1>8 DEF MainResetFlags
  <2>7. Accounted'
    <3>1. runningOps = {} /\ unscheduledOps = {} /\ toAdd = {}
      BY <1>8 DEF MainResetFlags
    <3>2. Batches[batch] \subseteq freed
      BY <1>8, <3>1 DEF MainResetFlags
    <3>3. batch' = batch + 1 /\ freed' = freed /\ mainPc' = "loop"
      BY <1>8 DEF MainResetFlags
    <3>4. ASSUME NEW i \in 1..Len(Batches), i < batch'
          PROVE  Batches[i] \subseteq freed'
      <4>1. i < batch \/ i = batch
        BY <3>3, <3>4
      <4> QED
        BY <3>2, <3>3, <4>1
    <3> QED
      BY <3>3, <3>4
  <2> QED
    BY <2>1, <2>2, <2>3, <2>4, <2>5, <2>6, <2>7
<1> QED
  BY <1>1, <1>2, <1>3, <1>4, <1>5, <1>6, <1>7, <1>8 DEF Main

LEMMA ExeInv == IInv /\ Exe => IInv'
<1> SUFFICES ASSUME IInv, Exe PROVE IInv'
  OBVIOUS
<1> USE QueueAssumption, BatchFacts
    DEF Up, mainVars, opVars, keyVars, pauseVars, cancelVars, listVars, flagVars,
        opFlagVars, IInv, TypeOK, ThreadTypes, QueueTypes, FlagTypes, MainPcs, ExePcs,
        OpPcs, KeyPcs, MutexHolder,
        Ownership, CancelTarget, Phases, OpThreadsEnded, Fresh, Unused,
        Accounted, Alive, Executing
<1>1. CASE ExeCheck
  BY <1>1 DEF ExeCheck
<1>2. CASE ExeWait
  BY <1>2 DEF ExeWait
<1>3. CASE ExeSchedule
  <2>1. TypeOK'
    <3>1. ThreadTypes'
      <4>1. opPc' \in [Ops -> OpPcs]
        BY <1>3 DEF ExeSchedule, Tops
      <4>2. exePc' \in ExePcs
        BY <1>3 DEF ExeSchedule
      <4> QED
        BY <1>3, <4>1, <4>2 DEF ExeSchedule
    <3>2. QueueTypes'
      BY <1>3 DEF ExeSchedule, Tops
    <3>3. FlagTypes'
      BY <1>3 DEF ExeSchedule, Tops
    <3> QED
      BY <3>1, <3>2, <3>3
  <2>2. MutexHolder'
    BY <1>3 DEF ExeSchedule, Tops
  <2>3. Ownership'
    <3>1. CASE unscheduledOps = {} /\ UNCHANGED <<opPc, unscheduledOps, runningOps>>
      BY <1>3, <3>1 DEF ExeSchedule
    <3>2. CASE \E o \in unscheduledOps :
                 /\ unscheduledOps' = unscheduledOps \ {o}
                 /\ runningOps' = runningOps \cup {o}
                 /\ opPc' = [opPc EXCEPT ![o] = "start"]
      <4>1. PICK o \in unscheduledOps :
                 /\ unscheduledOps' = unscheduledOps \ {o}
                 /\ runningOps' = runningOps \cup {o}
                 /\ opPc' = [opPc EXCEPT ![o] = "start"]
        BY <3>2
      <4>2. freed' = freed /\ o \in Ops
        BY <1>3 DEF ExeSchedule
      <4> QED
        BY <4>1, <4>2
    <3> QED
      BY <1>3, <3>1, <3>2 DEF ExeSchedule, Tops
  <2>4. CancelTarget'
    BY <1>3 DEF ExeSchedule, Tops
  <2>5. Phases'
    BY <1>3 DEF ExeSchedule, Tops
  <2>6. Fresh'
    BY <1>3 DEF ExeSchedule, Tops
  <2>7. Accounted'
    BY <1>3 DEF ExeSchedule, Tops
  <2> QED
    BY <2>1, <2>2, <2>3, <2>4, <2>5, <2>6, <2>7
<1> QED
  BY <1>1, <1>2, <1>3 DEF Exe

LEMMA CancelInv == IInv /\ Cancel => IInv'
<1> SUFFICES ASSUME IInv, Cancel PROVE IInv'
  OBVIOUS
<1> USE QueueAssumption, BatchFacts
    DEF Up, mainVars, opVars, keyVars, pauseVars, cancelVars, listVars, flagVars,
        opFlagVars, IInv, TypeOK, ThreadTypes, QueueTypes, FlagTypes, MainPcs, ExePcs,
        OpPcs, KeyPcs, MutexHolder,
        Ownership, CancelTarget, Phases, OpThreadsEnded, Fresh, Unused,
        Accounted, Alive, Executing
<1>1. CASE CancelSignal
  BY <1>1, SMTT(30) DEF CancelSignal, CancelTargets, Tops
<1>2. CASE CancelWait
  BY <1>2 DEF CancelWait
<1>3. CASE CancelWoken
  BY <1>3 DEF CancelWoken
<1>4. CASE CancelExit
  BY <1>4 DEF CancelExit
<1> QED
  BY <1>1, <1>2, <1>3, <1>4 DEF Cancel

LEMMA OpThreadInv == IInv /\ (\E o \in Ops : OpThread(o)) => IInv'
<1> SUFFICES ASSUME IInv, NEW o \in Ops, OpThread(o) PROVE IInv'
  OBVIOUS
<1> USE QueueAssumption, BatchFacts
    DEF Up, mainVars, opVars, keyVars, pauseVars, cancelVars, listVars, flagVars,
        opFlagVars, OpGoto, IInv, TypeOK, ThreadTypes, QueueTypes, FlagTypes, MainPcs, ExePcs,
        OpPcs, KeyPcs, MutexHolder,
        Ownership, CancelTarget, Phases, OpThreadsEnded, Fresh, Unused,
        Accounted, Alive, Executing
<1>1. CASE OpStart(o)
  <2>1. TypeOK'
    <3>1. ThreadTypes'
      <4>1. \E pc \in OpPcs : opPc' = [opPc EXCEPT ![o] = pc]
        BY <1>1 DEF OpStart
      <4>2. opPc' \in [Ops -> OpPcs]
        BY <4>1, SMTT(30)
      <4> QED
        BY <1>1, <4>2 DEF OpStart
    <3>2. QueueTypes'
      BY <1>1 DEF OpStart
    <3>3. FlagTypes'
      BY <1>1 DEF OpStart
    <3> QED
      BY <3>1, <3>2, <3>3
  <2>2. MutexHolder'
    BY <1>1 DEF OpStart
  <2>3. Ownership'
    BY <1>1 DEF OpStart
  <2>4. CancelTarget'
    BY <1>1 DEF OpStart
  <2>5. Phases'
    BY <1>1 DEF OpStart
  <2>6. Fresh'
    BY <1>1 DEF OpStart
  <2>7. Accounted'
    BY <1>1 DEF OpStart
  <2> QED
    BY <2>1, <2>2, <2>3, <2>4, <2>5, <2>6, <2>7
<1>2. CASE OpWork(o)
  <2>1. TypeOK'
    <3>1. ThreadTypes'
      <4>1. opPc' \in [Ops -> OpPcs]
        <5>1. \E pc \in OpPcs : opPc' = [opPc EXCEPT ![o] = pc]
          BY <1>2 DEF OpWork
        <5> QED
          BY <5>1, SMTT(30)
      <4>2. work' \in [Ops -> 0..Work]
        <5>1. work[o] \in 0..Work /\ work \in [Ops -> 0..Work]
          OBVIOUS
        <5>2. CASE UNCHANGED work
          BY <5>1, <5>2
        <5>3. CASE work[o] # 0 /\ work' = [work EXCEPT ![o] = @ - 1]
          BY <5>1, <5>3
        <5> QED
          BY <1>2, <5>2, <5>3 DEF OpWork, Stops
      <4> QED
        BY <1>2, <4>1, <4>2 DEF OpWork
    <3>2. QueueTypes'
      BY <1>2 DEF OpWork, Stops
    <3>3. FlagTypes'
      BY <1>2 DEF OpWork, Stops
    <3> QED
      BY <3>1, <3>2, <3>3
  <2>2. MutexHolder'
    BY <1>2 DEF OpWork, Stops
  <2>3. Ownership'
    BY <1>2 DEF OpWork, Stops
  <2>4. CancelTarget'
    BY <1>2 DEF OpWork, Stops
  <2>5. Phases'
    BY <1>2 DEF OpWork, Stops
  <2>6. Fresh'
    BY <1>2 DEF OpWork, Stops
  <2>7. Accounted'
    BY <1>2 DEF OpWork, Stops
  <2> QED
    BY <2>1, <2>2, <2>3, <2>4, <2>5, <2>6, <2>7
<1>3. CASE OpThrow(o)
  BY <1>3 DEF OpThrow
<1>4. CASE OpCheck(o)
  BY <1>4 DEF OpCheck
<1>5. CASE OpWait(o)
  BY <1>5 DEF OpWait
<1>6. CASE OpWoken(o)
  BY <1>6 DEF OpWoken
<1>7. CASE OpEnd(o)
  BY <1>7 DEF OpEnd
<1>8. CASE OpFinish(o)
  BY <1>8 DEF OpFinish, Finished
<1>9. CASE OpRelease(o)
  BY <1>9 DEF OpRelease, Notified
<1> QED
  BY <1>1, <1>2, <1>3, <1>4, <1>5, <1>6, <1>7, <1>8, <1>9 DEF OpThread

LEMMA KeyInv == IInv /\ Key => IInv'
<1> SUFFICES ASSUME IInv, Key PROVE IInv'
  OBVIOUS
<1> USE QueueAssumption, BatchFacts
    DEF Up, mainVars, opVars, keyVars, pauseVars, cancelVars, listVars, flagVars,
        opFlagVars, IInv, TypeOK, ThreadTypes, QueueTypes, FlagTypes, MainPcs, ExePcs,
        OpPcs, KeyPcs, MutexHolder,
        Ownership, CancelTarget, Phases, OpThreadsEnded, Fresh, Unused,
        Accounted, Alive, Executing
<1>1. CASE Pause
  BY <1>1 DEF Pause
<1>2. CASE PauseNext
  <2>1. TypeOK'
    <3>1. ThreadTypes'
      BY <1>2 DEF PauseNext
    <3>2. QueueTypes'
      BY <1>2 DEF PauseNext
    <3>3. FlagTypes'
      BY <1>2 DEF PauseNext
    <3> QED
      BY <3>1, <3>2, <3>3
  <2>2. MutexHolder'
    BY <1>2 DEF PauseNext
  <2>3. Ownership'
    BY <1>2 DEF PauseNext
  <2>4. CancelTarget'
    BY <1>2 DEF PauseNext
  <2>5. Phases'
    BY <1>2 DEF PauseNext
  <2>6. Fresh'
    BY <1>2 DEF PauseNext
  <2>7. Accounted'
    BY <1>2 DEF PauseNext
  <2> QED
    BY <2>1, <2>2, <2>3, <2>4, <2>5, <2>6, <2>7
<1>3. CASE PauseTouch
  <2>1. TypeOK'
    <3>1. ThreadTypes'
      BY <1>3 DEF PauseTouch
    <3>2. QueueTypes'
      BY <1>3 DEF PauseTouch
    <3>3. FlagTypes'
      BY <1>3 DEF PauseTouch
    <3> QED
      BY <3>1, <3>2, <3>3
  <2>2. MutexHolder'
    BY <1>3 DEF PauseTouch
  <2>3. Ownership'
    BY <1>3 DEF PauseTouch
  <2>4. CancelTarget'
    BY <1>3 DEF PauseTouch
  <2>5. Phases'
    BY <1>3 DEF PauseTouch
  <2>6. Fresh'
    BY <1>3 DEF PauseTouch
  <2>7. Accounted'
    BY <1>3 DEF PauseTouch
  <2> QED
    BY <2>1, <2>2, <2>3, <2>4, <2>5, <2>6, <2>7
<1>4. CASE PauseLock
  <2>1. TypeOK'
    <3>1. ThreadTypes'
      BY <1>4 DEF PauseLock
    <3>2. QueueTypes'
      BY <1>4 DEF PauseLock
    <3>3. FlagTypes'
      BY <1>4 DEF PauseLock
    <3> QED
      BY <3>1, <3>2, <3>3
  <2>2. MutexHolder'
    BY <1>4 DEF PauseLock
  <2>3. Ownership'
    BY <1>4 DEF PauseLock
  <2>4. CancelTarget'
    BY <1>4 DEF PauseLock
  <2>5. Phases'
    BY <1>4 DEF PauseLock
  <2>6. Fresh'
    BY <1>4 DEF PauseLock
  <2>7. Accounted'
    BY <1>4 DEF PauseLock
  <2> QED
    BY <2>1, <2>2, <2>3, <2>4, <2>5, <2>6, <2>7
<1>5. CASE Resume
  BY <1>5 DEF Resume, AfterResume
<1>6. CASE ResumeSet
  BY <1>6 DEF ResumeSet, AfterResume
<1>7. CASE KeyCancel
  BY <1>7 DEF KeyCancel, CancelEnter
<1> QED
  BY <1>1, <1>2, <1>3, <1>4, <1>5, <1>6, <1>7 DEF Key

LEMMA OtherInv == IInv /\ (KeyPress \/ SpuriousCancel \/ (\E o \in Ops : SpuriousOp(o))) => IInv'
<1> SUFFICES ASSUME IInv, KeyPress \/ SpuriousCancel \/ (\E o \in Ops : SpuriousOp(o))
             PROVE IInv'
  OBVIOUS
<1> USE QueueAssumption
    DEF Up, mainVars, opVars, keyVars, pauseVars, cancelVars, listVars, flagVars,
        opFlagVars, OpGoto, IInv, TypeOK, ThreadTypes, QueueTypes, FlagTypes,
        MainPcs, ExePcs, OpPcs, KeyPcs, MutexHolder, Ownership, CancelTarget,
        Phases, OpThreadsEnded, Fresh, Unused, Accounted, Alive, Executing
<1>1. CASE KeyPress
  BY <1>1 DEF KeyPress
<1>2. CASE SpuriousCancel
  BY <1>2 DEF SpuriousCancel
<1>3. CASE \E o \in Ops : SpuriousOp(o)
  BY <1>3 DEF SpuriousOp
<1> QED
  BY <1>1, <1>2, <1>3

LEMMA StutterInv == IInv /\ UNCHANGED vars => IInv'
BY DEF vars, mainVars, opVars, keyVars, pauseVars, cancelVars, listVars, flagVars,
       opFlagVars, IInv, TypeOK, ThreadTypes, QueueTypes, FlagTypes, MutexHolder,
       Ownership, CancelTarget, Phases, OpThreadsEnded, Fresh, Unused, Accounted

LEMMA NextInv == IInv /\ [Next]_vars => IInv'
BY MainInv, ExeInv, CancelInv, OpThreadInv, KeyInv, OtherInv, StutterInv
DEF Next, Terminated

\* The inductive invariant holds in every reachable state.
THEOREM Invariance == Spec => []IInv
BY InitInv, NextInv, PTL DEF Spec

\* Type correctness, for any number of operations, permits and keys.
THEOREM TypeCorrect == Spec => []TypeOK
<1>1. IInv => TypeOK
  BY DEF IInv
<1> QED
  BY <1>1, Invariance, PTL

\* finished() and cancel() never delete an operation twice, nor one that is
\* queued, in runningOps or still used by its thread.
THEOREM OwnershipHolds == Spec => []Ownership
<1>1. IInv => Ownership
  BY DEF IInv
<1> QED
  BY <1>1, Invariance, PTL

\* cancel() never touches a deleted operation.
THEOREM CancelSafe == Spec => []CancelTouchesLiveOps
<1>1. IInv => CancelTouchesLiveOps
  BY DEF IInv, CancelTarget, CancelTouchesLiveOps
<1> QED
  BY <1>1, Invariance, PTL

-----------------------------------------------------------------------------
(* The priority queue: only exeThread takes from it, and takes the top.    *)

LEMMA LargestFirstStep == IInv /\ LargestFirst /\ [Next]_vars => LargestFirst'
<1> SUFFICES ASSUME IInv, LargestFirst, [Next]_vars PROVE LargestFirst'
  OBVIOUS
<1> USE QueueAssumption DEF IInv, TypeOK, QueueTypes, LargestFirst
<1>1. CASE MainAdd
  <2>1. runningOps = {}
    BY <1>1 DEF MainAdd, Phases, Ownership, OpThreadsEnded, Alive, Executing
  <2> QED
    BY <1>1, <2>1 DEF MainAdd
<1>2. CASE ExeSchedule
  BY <1>2 DEF ExeSchedule, Tops
<1>3. CASE unscheduledOps' \subseteq unscheduledOps /\ runningOps' \subseteq runningOps
  BY <1>3
<1>4. CASE Main \/ Exe \/ Cancel
  BY <1>1, <1>2, <1>3, <1>4
  DEF Main, MainLoop, MainExecute, MainSetRunning, MainJoinExe, MainJoinOps,
      MainReset, MainResetFlags, Exe, ExeCheck, ExeWait, Cancel, CancelSignal,
      CancelWait, CancelWoken, CancelExit, listVars
<1>5. CASE \E o \in Ops : OpThread(o) \/ SpuriousOp(o)
  BY <1>3, <1>5
  DEF OpThread, SpuriousOp, OpStart, OpWork, OpThrow, OpCheck, OpWait, OpWoken,
      OpEnd, OpFinish, Finished, OpRelease, listVars
<1>6. CASE KeyPress \/ Key \/ SpuriousCancel \/ UNCHANGED vars
  BY <1>3, <1>6
  DEF KeyPress, Key, Pause, PauseNext, PauseTouch, PauseLock, Resume, ResumeSet,
      KeyCancel, SpuriousCancel, listVars, vars
<1> QED
  BY <1>4, <1>5, <1>6 DEF Next, Terminated

\* Nothing in the queue outranks a running operation.
THEOREM LargestFirstHolds == Spec => []LargestFirst
<1>1. Init => LargestFirst
  BY DEF Init, LargestFirst
<1> QED
  BY <1>1, LargestFirstStep, Invariance, PTL DEF Spec

-----------------------------------------------------------------------------
(* The permits of the semaphore.                                           *)

\* The operations whose threads hold a permit.
Holders == {o \in Ops : opPc[o] \in Holding}

\* The operations' permits together with the one exeThread may hold.
Taken == Cardinality(Holders) + (IF exePc = "schedule" THEN 1 ELSE 0)

LEMMA HoldersFinite ==
    /\ IsFiniteSet(Holders) /\ IsFiniteSet(Holders')
    /\ Cardinality(Holders) \in Nat /\ Cardinality(Holders') \in Nat
<1>1. Holders \subseteq Ops /\ Holders' \subseteq Ops
  BY DEF Holders
<1> QED
  BY <1>1, QueueAssumption, FS_Subset, FS_CardinalityType

LEMMA PermitStep == IInv /\ capacity + Taken = Capacity /\ [Next]_vars
                      => (capacity + Taken = Capacity)'
<1> SUFFICES ASSUME IInv, capacity + Taken = Capacity, [Next]_vars
             PROVE (capacity + Taken = Capacity)'
  OBVIOUS
<1> USE QueueAssumption, HoldersFinite DEF Taken
<1>0. capacity \in Nat /\ opPc \in [Ops -> OpPcs]
  BY DEF IInv, TypeOK, ThreadTypes, QueueTypes
<1>1. CASE ExeWait
  <2>1. Holders' = Holders
    BY <1>1 DEF ExeWait, Holders, opVars
  <2> QED
    BY <1>0, <1>1, <2>1 DEF ExeWait
<1>2. CASE ExeSchedule /\ unscheduledOps # {}
  <2>1. PICK o \in unscheduledOps : opPc' = [opPc EXCEPT ![o] = "start"]
    BY <1>2 DEF ExeSchedule, Tops
  <2>2. o \in Ops /\ opPc[o] = "none"
    BY DEF IInv, Ownership, TypeOK, QueueTypes
  <2>3. Holders' = Holders \cup {o} /\ o \notin Holders
    BY <1>0, <2>1, <2>2 DEF Holders, Holding, Alive, Executing
  <2>4. Cardinality(Holders') = Cardinality(Holders) + 1
    BY <2>3, FS_AddElement
  <2> QED
    BY <1>0, <1>2, <2>4 DEF ExeSchedule
<1>3. CASE \E o \in Ops : OpRelease(o)
  <2>1. PICK o \in Ops : OpRelease(o)
    BY <1>3
  <2>2. Holders' = Holders \ {o} /\ o \in Holders
    BY <1>0, <2>1 DEF OpRelease, OpGoto, Holders, Holding, Alive, Executing
  <2>3. Cardinality(Holders') = Cardinality(Holders) - 1
    BY <2>2, FS_RemoveElement
  <2>4. capacity' = capacity + 1 /\ exePc' = exePc
    BY <2>1 DEF OpRelease, Notified
  <2>5. Cardinality(Holders) \in Nat
    BY FS_CardinalityType
  <2>6. Taken' = Taken - 1 /\ Taken \in Int
    BY <2>3, <2>4, <2>5
  <2> HIDE DEF Taken
  <2> QED
    BY <1>0, <2>4, <2>6
<1>4. CASE Holders' = Holders /\ capacity' = capacity
           /\ (exePc' = "schedule" <=> exePc = "schedule")
  BY <1>4
<1>5. CASE Main \/ Exe \/ Cancel
  <2>1. CASE ExeSchedule /\ unscheduledOps = {}
    <3>1. opPc' = opPc /\ capacity' = capacity /\ exePc' = exePc
      BY <2>1 DEF ExeSchedule, Tops
    <3> QED
      BY <1>4, <3>1 DEF Holders
  <2>2. CASE Main \/ ExeCheck \/ Cancel
    <3>1. opPc' = opPc /\ capacity' = capacity
      BY <2>2
      DEF Main, MainLoop, MainAdd, MainExecute, MainSetRunning, MainJoinExe,
          MainJoinOps, MainReset, MainResetFlags, ExeCheck, Cancel,
          CancelSignal, CancelWait, CancelWoken, CancelExit, opVars
    <3>2. exePc' = "schedule" <=> exePc = "schedule"
      BY <2>2
      DEF Main, MainLoop, MainAdd, MainExecute, MainSetRunning, MainJoinExe,
          MainJoinOps, MainReset, MainResetFlags, ExeCheck, Cancel,
          CancelSignal, CancelWait, CancelWoken, CancelExit, IInv, Phases
    <3> QED
      BY <1>4, <3>1, <3>2 DEF Holders
  <2> QED
    BY <1>1, <1>2, <1>5, <2>1, <2>2 DEF Exe
<1>6. CASE \E o \in Ops : OpThread(o) \/ SpuriousOp(o)
  <2>1. PICK o \in Ops : OpThread(o) \/ SpuriousOp(o)
    BY <1>6
  <2>2. CASE OpRelease(o)
    BY <1>3, <2>2
  <2>3. CASE ~OpRelease(o)
    <3>1. \E from, to \in Holding : OpGoto(o, from, to)
      BY <2>1, <2>3
      DEF OpThread, SpuriousOp, OpStart, OpWork, OpThrow, OpCheck, OpWait,
          OpWoken, OpEnd, OpFinish, Finished, Holding, Alive, Executing
    <3>2. Holders' = Holders
      BY <1>0, <3>1 DEF Holders, OpGoto
    <3>3. capacity' = capacity /\ exePc' = exePc
      BY <2>1, <2>3
      DEF OpThread, SpuriousOp, OpStart, OpWork, OpThrow, OpCheck, OpWait,
          OpWoken, OpEnd, OpFinish, Finished
    <3> QED
      BY <1>4, <3>2, <3>3
  <2> QED
    BY <2>2, <2>3
<1>7. CASE KeyPress \/ Key \/ SpuriousCancel \/ UNCHANGED vars
  <2>1. Holders' = Holders
    BY <1>0, <1>7
    DEF Holders, Holding, Alive, Executing, KeyPress, Key, Pause, PauseNext,
        PauseTouch, PauseLock, Resume, ResumeSet, KeyCancel, SpuriousCancel,
        opVars, vars
  <2>2. capacity' = capacity /\ exePc' = exePc
    BY <1>7
    DEF KeyPress, Key, Pause, PauseNext, PauseTouch, PauseLock, Resume,
        ResumeSet, KeyCancel, SpuriousCancel, vars
  <2> QED
    BY <1>4, <2>1, <2>2
<1> QED
  BY <1>5, <1>6, <1>7 DEF Next, Terminated

\* guard never loses or invents a permit: every path through start(), the
\* cancelled and the throwing ones included, gives its permit back once.
THEOREM PermitsConserved == Spec => []PermitConservation
<1>1. Init => capacity + Taken = Capacity
  <2> SUFFICES ASSUME Init PROVE capacity + Taken = Capacity
    OBVIOUS
  <2>1. Holders = {}
    BY DEF Init, Holders, Holding, Alive, Executing
  <2>2. Cardinality(Holders) = 0
    BY <2>1, FS_EmptySet
  <2> QED
    BY <2>2, QueueAssumption DEF Init, Taken
<1>2. Spec => [](capacity + Taken = Capacity)
  BY <1>1, PermitStep, Invariance, PTL DEF Spec
<1>3. IInv /\ capacity + Taken = Capacity => PermitConservation
  BY HoldersFinite DEF IInv, TypeOK, QueueTypes, Taken, Holders, PermitConservation
<1> QED
  BY <1>2, <1>3, Invariance, PTL

\* When waitForFinished() has returned, every operation added so far was
\* deleted, no thread is left, the lists are empty and the permits are back.
THEOREM Drained == Spec => []WaitForFinishedDrains
<1>1. IInv /\ PermitConservation => WaitForFinishedDrains
  <2> SUFFICES ASSUME IInv, PermitConservation, mainPc \in {"loop", "done"}
               PROVE /\ unscheduledOps = {} /\ runningOps = {}
                     /\ OpThreadsEnded
                     /\ capacity = Capacity
                     /\ \A i \in 1..(batch - 1) : Batches[i] \subseteq freed
    BY DEF WaitForFinishedDrains
  <2>1. OpThreadsEnded /\ unscheduledOps = {} /\ exePc # "schedule"
    BY DEF IInv, Phases
  <2>2. runningOps = {}
    BY <2>1 DEF IInv, Ownership, OpThreadsEnded, Alive, Executing, TypeOK, QueueTypes
  <2>3. capacity = Capacity
    <3>1. {o \in Ops : opPc[o] \in Holding} = {}
      BY <2>1 DEF OpThreadsEnded, Holding, Alive, Executing
    <3>2. Cardinality({o \in Ops : opPc[o] \in Holding}) = 0
      BY <3>1, FS_EmptySet
    <3> QED
      BY <2>1, <3>2, QueueAssumption DEF PermitConservation, IInv, TypeOK, QueueTypes
  <2>4. \A i \in 1..(batch - 1) : Batches[i] \subseteq freed
    BY BatchFacts DEF IInv, TypeOK, ThreadTypes, Accounted
  <2> QED
    BY <2>1, <2>2, <2>3, <2>4
<1> QED
  BY <1>1, Invariance, PermitsConserved, PTL

-----------------------------------------------------------------------------
(* What a user who does not quit can rely on, and what can crash.  QInv    *)
(* follows the key q: until it is pressed, _isCancelled is raised by       *)
(* reset() only, when nothing is left to be cancelled.                     *)

\* q leads from the key to the end of cancel(), and nothing else does.
QuitOrder ==
    /\ keyCmd = "q" => keyPc \in {"resume", "resumeSet", "cancel", "cancelling", "exit"}
    /\ keyPc \in {"cancel", "cancelling", "exit"} => keyCmd = "q"

\* Before q no operation is cancelled or deleted unfinished: exeThread leaves
\* none in the queue, and an operation that has left execute() did its work.
Undisturbed ==
    keyCmd # "q" =>
      /\ isCancelled => mainPc \in {"resetCancel", "resetFlags"}
      /\ \A o \in Ops : ~opCancelled[o]
      /\ exePc \in {"none", "done"}
         /\ mainPc \in {"executed", "joinExe", "joinOps", "reset", "resetCancel"}
           => unscheduledOps = {}
      /\ \A o \in freed : opPc[o] \in {"release", "done"}
      /\ \A o \in Ops : opPc[o] \in {"end", "finish", "release", "done"}
                         => work[o] = 0 \/ o \in threw

\* What exeThread has seen in the queue is still there when it pops, as
\* cancel() gets past an operation that is not running by a spurious wakeup only.
QueueKept ==
    /\ exePc \in {"sem", "schedule"} => unscheduledOps # {} \/ (Spurious /\ keyCmd = "q")
    /\ cancelPc = "woken" => Spurious \/ cancelAt \in cancelTodo

QInv == QuitOrder /\ Undisturbed /\ QueueKept /\ OnlyPauseCrashes

LEMMA QInit == Init => QInv
BY QueueAssumption
DEF Init, QInv, QuitOrder, Undisturbed, QueueKept, OnlyPauseCrashes

LEMMA QMain == IInv /\ QInv /\ Main => QInv'
<1> SUFFICES ASSUME IInv, QInv, Main PROVE QInv'
  OBVIOUS
<1> USE QueueAssumption
    DEF Up, mainVars, opVars, keyVars, pauseVars, cancelVars, listVars, flagVars,
        opFlagVars, IInv, TypeOK, ThreadTypes, QueueTypes, FlagTypes, MutexHolder,
        Ownership, Phases, QInv, QuitOrder, Undisturbed, QueueKept, OnlyPauseCrashes
<1>1. CASE MainLoop
  BY <1>1 DEF MainLoop
<1>2. CASE MainAdd
  BY <1>2 DEF MainAdd
<1>3. CASE MainExecute
  BY <1>3 DEF MainExecute
<1>4. CASE MainSetRunning
  BY <1>4 DEF MainSetRunning
<1>5. CASE MainJoinExe
  BY <1>5 DEF MainJoinExe
<1>6. CASE MainJoinOps
  BY <1>6 DEF MainJoinOps
<1>7. CASE MainReset
  BY <1>7 DEF MainReset, CancelEnter
<1>8. CASE MainResetFlags
  BY <1>8 DEF MainResetFlags
<1> QED
  BY <1>1, <1>2, <1>3, <1>4, <1>5, <1>6, <1>7, <1>8 DEF Main

LEMMA QExe == IInv /\ QInv /\ Exe => QInv'
<1> SUFFICES ASSUME IInv, QInv, Exe PROVE QInv'
  OBVIOUS
<1> USE QueueAssumption
    DEF Up, mainVars, opVars, keyVars, pauseVars, cancelVars, listVars, flagVars,
        opFlagVars, IInv, TypeOK, ThreadTypes, QueueTypes, FlagTypes, MutexHolder,
        Ownership, Phases, QInv, QuitOrder, Undisturbed, QueueKept, OnlyPauseCrashes
<1>1. CASE ExeCheck
  BY <1>1 DEF ExeCheck
<1>2. CASE ExeWait
  BY <1>2 DEF ExeWait
<1>3. CASE ExeSchedule
  <2>1. CASE unscheduledOps = {}
    BY <1>3, <2>1 DEF ExeSchedule, Tops
  <2>2. CASE unscheduledOps # {}
    <3>1. PICK o \in unscheduledOps :
            /\ unscheduledOps' = unscheduledOps \ {o}
            /\ opPc' = [opPc EXCEPT ![o] = "start"]
      BY <1>3, <2>2 DEF ExeSchedule, Tops
    <3>2. exePc' = "check" /\ ~crashed' /\ o \in Ops /\ o \notin freed
      BY <1>3, <2>2 DEF ExeSchedule
    <3>3. UNCHANGED <<mainVars, work, threw, keyVars, pauseVars, cancelVars, freed,
                      capacity, flagVars, opFlagVars>>
      BY <1>3 DEF ExeSchedule
    <3> QED
      BY <3>1, <3>2, <3>3
  <2> QED
    BY <2>1, <2>2
<1> QED
  BY <1>1, <1>2, <1>3 DEF Exe

LEMMA QCancel == IInv /\ QInv /\ Cancel => QInv'
<1> SUFFICES ASSUME IInv, QInv, Cancel PROVE QInv'
  OBVIOUS
<1> USE QueueAssumption
    DEF Up, mainVars, opVars, keyVars, pauseVars, cancelVars, listVars, flagVars,
        opFlagVars, IInv, TypeOK, ThreadTypes, QueueTypes, FlagTypes, MutexHolder,
        Ownership, CancelTarget, Phases, QInv, QuitOrder, Undisturbed, QueueKept,
        OnlyPauseCrashes
\* reset() finds nothing to cancel, unless q left something.
<1>0. keyCmd # "q" /\ cancelPc # "off" =>
        mainPc = "resetCancel" /\ unscheduledOps = {} /\ runningOps = {}
  <2> SUFFICES ASSUME keyCmd # "q", cancelPc # "off"
               PROVE  mainPc = "resetCancel" /\ unscheduledOps = {} /\ runningOps = {}
    OBVIOUS
  <2>1. mainPc = "resetCancel"
    OBVIOUS
  <2>2. unscheduledOps = {} /\ OpThreadsEnded
    BY <2>1
  <2> QED
    BY <2>1, <2>2 DEF OpThreadsEnded, Alive, Executing
<1>1. CASE CancelSignal
  BY <1>0, <1>1 DEF CancelSignal, CancelTargets, Tops
<1>2. CASE CancelWait
  BY <1>2 DEF CancelWait
<1>3. CASE CancelWoken
  BY <1>0, <1>3 DEF CancelWoken
<1>4. CASE CancelExit
  BY <1>4 DEF CancelExit
<1> QED
  BY <1>1, <1>2, <1>3, <1>4 DEF Cancel

LEMMA QOpThread == IInv /\ QInv /\ (\E o \in Ops : OpThread(o) \/ SpuriousOp(o)) => QInv'
<1> SUFFICES ASSUME IInv, QInv, NEW o \in Ops, OpThread(o) \/ SpuriousOp(o) PROVE QInv'
  OBVIOUS
<1> USE QueueAssumption
    DEF Up, mainVars, opVars, keyVars, pauseVars, cancelVars, listVars, flagVars,
        opFlagVars, OpGoto, IInv, TypeOK, ThreadTypes, QueueTypes, FlagTypes,
        MutexHolder, Ownership, CancelTarget, Phases, QInv, QuitOrder, Undisturbed,
        QueueKept, OnlyPauseCrashes
<1>1. CASE OpStart(o)
  <2>1. CASE opCancelled[o] /\ opPc' = [opPc EXCEPT ![o] = "finish"]
    BY <1>1, <2>1 DEF OpStart
  <2>2. CASE opPc' = [opPc EXCEPT ![o] = "work"]
    BY <1>1, <2>2 DEF OpStart
  <2> QED
    BY <1>1, <2>1, <2>2 DEF OpStart
<1>2. CASE OpWork(o)
  <2>1. CASE Stops(o) /\ opPc' = [opPc EXCEPT ![o] = "end"] /\ UNCHANGED work
    BY <1>2, <2>1 DEF OpWork, Stops
  <2>2. CASE /\ ~Stops(o) /\ opPc' = [opPc EXCEPT ![o] = "check"]
             /\ work' = [work EXCEPT ![o] = @ - 1]
    BY <1>2, <2>2 DEF OpWork
  <2> QED
    BY <1>2, <2>1, <2>2 DEF OpWork
<1>3. CASE OpThrow(o)
  BY <1>3 DEF OpThrow
<1>4. CASE OpCheck(o) \/ OpWait(o) \/ SpuriousOp(o)
  <2>1. \E to \in {"work", "toWait", "waiting", "woken"} : opPc' = [opPc EXCEPT ![o] = to]
    BY <1>4 DEF OpCheck, OpWait, SpuriousOp
  <2>2. opPc[o] \in {"check", "toWait", "waiting"} /\ ~crashed
    BY <1>4 DEF OpCheck, OpWait, SpuriousOp
  <2>3. UNCHANGED <<mainVars, exePc, work, threw, keyVars, pauseVars, cancelVars,
                    listVars, capacity, flagVars, opFlagVars, crashed>>
    BY <1>4 DEF OpCheck, OpWait, SpuriousOp
  <2> QED
    BY <2>1, <2>2, <2>3
<1>5. CASE OpWoken(o)
  BY <1>5 DEF OpWoken
<1>6. CASE OpEnd(o)
  BY <1>6 DEF OpEnd, Alive, Executing
<1>7. CASE OpFinish(o)
  BY <1>7 DEF OpFinish, Finished
<1>8. CASE OpRelease(o)
  BY <1>8 DEF OpRelease, Notified
<1> QED
  BY <1>1, <1>2, <1>3, <1>4, <1>5, <1>6, <1>7, <1>8 DEF OpThread

LEMMA QKey == IInv /\ QInv /\ (Key \/ KeyPress \/ SpuriousCancel) => QInv'
<1> SUFFICES ASSUME IInv, QInv, Key \/ KeyPress \/ SpuriousCancel PROVE QInv'
  OBVIOUS
<1> USE QueueAssumption
    DEF Up, mainVars, opVars, keyVars, pauseVars, cancelVars, listVars, flagVars,
        opFlagVars, IInv, TypeOK, ThreadTypes, QueueTypes, FlagTypes, MutexHolder,
        Ownership, Phases, QInv, QuitOrder, Undisturbed, QueueKept, OnlyPauseCrashes
<1>1. CASE Pause
  BY <1>1 DEF Pause
<1>2. CASE PauseNext
  BY <1>2 DEF PauseNext
<1>3. CASE PauseTouch
  BY <1>3 DEF PauseTouch
<1>4. CASE PauseLock
  BY <1>4 DEF PauseLock
<1>5. CASE Resume
  BY <1>5 DEF Resume, AfterResume
<1>6. CASE ResumeSet
  BY <1>6 DEF ResumeSet, AfterResume
<1>7. CASE KeyCancel
  BY <1>7 DEF KeyCancel, CancelEnter
<1>8. CASE KeyPress
  BY <1>8 DEF KeyPress
<1>9. CASE SpuriousCancel
  BY <1>9 DEF SpuriousCancel
<1> QED
  BY <1>1, <1>2, <1>3, <1>4, <1>5, <1>6, <1>7, <1>8, <1>9 DEF Key

LEMMA QStutter == QInv /\ UNCHANGED vars => QInv'
BY DEF vars, mainVars, opVars, keyVars, pauseVars, cancelVars, listVars, flagVars,
       opFlagVars, QInv, QuitOrder, Undisturbed, QueueKept, OnlyPauseCrashes

\* QInv holds in every reachable state.
THEOREM QuitInvariance == Spec => []QInv
<1>1. IInv /\ QInv /\ [Next]_vars => QInv'
  BY QMain, QExe, QCancel, QOpThread, QKey, QStutter DEF Next, Terminated
<1> QED
  BY <1>1, QInit, Invariance, PTL DEF Spec

\* exeThread never pops from the queue that cancel() empties: the program
\* crashes in pause() only, or after a spurious wakeup of cancel().
THEOREM CrashesConfined == Spec => []OnlyPauseCrashes
<1>1. QInv => OnlyPauseCrashes
  BY DEF QInv
<1> QED
  BY <1>1, QuitInvariance, PTL

\* However often the user pauses and resumes, and whatever wakes up when, main
\* goes on after waitForFinished() only when every operation did all its work.
THEOREM WorkKept == Spec => []NoWorkLost
<1>1. IInv /\ QInv => NoWorkLost
  <2> SUFFICES ASSUME IInv, QInv, mainPc \in {"loop", "done"}, keyCmd # "q",
                      NEW i \in 1..(batch - 1), NEW o \in Batches[i]
               PROVE  work[o] = 0 \/ o \in threw
    BY DEF NoWorkLost
  <2>1. i \in 1..Len(Batches) /\ i < batch
    BY BatchFacts DEF IInv, TypeOK, ThreadTypes
  <2>2. o \in freed /\ o \in Ops
    BY <2>1, BatchFacts DEF IInv, Accounted
  <2> QED
    BY <2>2 DEF QInv, Undisturbed
<1> QED
  BY <1>1, Invariance, QuitInvariance, PTL

=============================================================================
