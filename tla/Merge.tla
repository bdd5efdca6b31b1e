------------------------------- MODULE Merge --------------------------------
(***************************************************************************)
(* MergeOperation (pwned-merger-cli/mergeoperation.cpp) with its inputs    *)
(* (mergerinput.hpp): the k-way merge of sorted files of records into one. *)
(* The priority queue is the set of the inputs in it together with the one *)
(* that is on top: next() reads from the top input in place, and an input  *)
(* that turns out to be exhausted stays on top until the following call.   *)
(***************************************************************************)
EXTENDS Integers, Sequences, FiniteSets, Functions

CONSTANTS Inputs,     \* the input files of one operation
          Contents,   \* what they may hold: functions from Inputs to files
          CountMod,   \* 2^32: counts are uint32_t
          MayFail,    \* may the destination be unwritable?
          MayCancel   \* may the operation be cancelled?

Records == [hash : Nat, count : Nat]

\* A file as the converter writes it: whole records, strictly ascending.
Ascending(s) == \A i, j \in 1..Len(s) : i < j => s[i].hash < s[j].hash

ASSUME MergeAssumption ==
    /\ IsFiniteSet(Inputs)
    /\ \A c \in Contents : /\ c \in [Inputs -> Seq(Records)]
                           /\ \A i \in Inputs : Ascending(c[i])
    /\ CountMod \in Nat \ {0}
    /\ MayFail \in BOOLEAN /\ MayCancel \in BOOLEAN

VARIABLES
    content,     \* the input files
    phc,         \* MergerInput::phc of every input
    rest,        \* what is still unread of every input
    isValid,     \* the inputs whose last read succeeded
    pq, top,     \* the inputs in the priority queue, and its top
    current,     \* the record being summed up
    out,         \* the records written to the destination
    pc, isCancelled

inputVars == <<content, phc, rest, isValid>>
vars == <<inputVars, pq, top, current, out, pc, isCancelled>>

NoRecord == [hash |-> 0, count |-> 0]     \* PasswordHashAndCount()

TopsAny(q, p) == q

\* SmallestHashFirst: what may be on top of a queue q whose buffers are p.
Tops(q, p) == {i \in q : \A j \in q : p[i].hash <= p[j].hash}

\* The constructor opens every input and reads its first record; an input
\* without one is queued all the same.
Init ==
    /\ content \in Contents
    /\ phc = [i \in Inputs |-> IF content[i] = <<>> THEN NoRecord ELSE Head(content[i])]
    /\ rest = [i \in Inputs |-> IF content[i] = <<>> THEN <<>> ELSE Tail(content[i])]
    /\ isValid = {i \in Inputs : content[i] # <<>>}
    /\ pq = Inputs
    /\ top \in IF Inputs = {} THEN {0} ELSE Tops(pq, phc)
    /\ current = NoRecord
    /\ out = <<>>
    /\ pc = "start" /\ isCancelled = FALSE

-----------------------------------------------------------------------------
\* execute() up to its loop: it returns at once when there is nothing to do,
\* and throws when the destination cannot be opened.
Start ==
    /\ pc = "start"
    /\ \/ /\ isCancelled \/ pq = {}
          /\ pc' = "returned"
          /\ UNCHANGED current
       \/ /\ ~isCancelled /\ pq # {} /\ MayFail
          /\ pc' = "threw"
          /\ UNCHANGED current
       \/ /\ ~isCancelled /\ pq # {}
          /\ current' = phc[top]
          /\ pc' = "merge"
    /\ UNCHANGED <<inputVars, pq, top, out, isCancelled>>

\* next() on a valid top: its record, and the read of the following one.
NextValid ==
    /\ top \in isValid
    /\ \/ /\ rest[top] # <<>>
          /\ phc' = [phc EXCEPT ![top] = Head(rest[top])]
          /\ rest' = [rest EXCEPT ![top] = Tail(rest[top])]
          /\ UNCHANGED isValid
          /\ top' \in Tops(pq, phc')
       \/ /\ rest[top] = <<>>
          /\ isValid' = isValid \ {top}
          /\ UNCHANGED <<phc, rest, top>>
    /\ UNCHANGED <<content, pq>>

NotPopped == pq

\* d->pq.pop()
Popped == pq \ {top}

\* next() on an exhausted top: its last record once more, and its removal.
\* (main() never asks for deleteFile().)
NextExhausted ==
    /\ top \notin isValid
    /\ pq' = Popped
    /\ IF pq' = {} THEN top' = top ELSE top' \in Tops(pq', phc)
    /\ UNCHANGED inputVars

AddCountDropped(a, b) == a

\* current.count += p.count
AddCount(a, b) == (a + b) % CountMod

\* The record next() returns while the queue is not empty.
Peek == phc[top]

\* current.dump(d->dstFile), when next() emptied the queue
LastWritten == Append(out, current)

\* One turn of the loop: sum up equal hashes, write when the hash changes,
\* write the last one when the queue runs empty.
Turn ==
    /\ pc = "merge" /\ ~isCancelled
    /\ NextValid \/ NextExhausted
    /\ \/ /\ pq' # {} /\ current.hash = Peek.hash
          /\ current' = [current EXCEPT !.count = AddCount(@, Peek.count)]
          /\ UNCHANGED <<out, pc>>
       \/ /\ pq' # {} /\ current.hash # Peek.hash
          /\ out' = Append(out, current)
          /\ current' = Peek
          /\ UNCHANGED pc
       \/ /\ pq' = {}
          /\ out' = LastWritten
          /\ pc' = "done"
          /\ UNCHANGED current
    /\ UNCHANGED isCancelled

\* while (!isCancelled) ends: the file is closed without the current record.
Stop ==
    /\ pc = "merge" /\ isCancelled
    /\ pc' = "stopped"
    /\ UNCHANGED <<inputVars, pq, top, current, out, isCancelled>>

\* The queue cancels the operation.
Cancel ==
    /\ MayCancel /\ ~isCancelled /\ pc \in {"start", "merge"}
    /\ isCancelled' = TRUE
    /\ UNCHANGED <<inputVars, pq, top, current, out, pc>>

Ended == pc \in {"returned", "threw", "done", "stopped"}

Next == Start \/ Turn \/ Stop \/ Cancel \/ (Ended /\ UNCHANGED vars)

\* The operation's thread runs; nobody has to cancel it.
Spec == Init /\ [][Next]_vars /\ WF_vars(Start \/ Turn \/ Stop)

-----------------------------------------------------------------------------
(* Properties                                                              *)

\* Every variable keeps its type.
TypeOK ==
    /\ content \in [Inputs -> Seq(Records)]
    /\ phc \in [Inputs -> Records] /\ rest \in [Inputs -> Seq(Records)]
    /\ isValid \subseteq Inputs /\ pq \subseteq Inputs
    /\ pq # {} => top \in pq
    /\ current \in Records /\ out \in Seq(Records)
    /\ pc \in {"start", "merge", "returned", "threw", "done", "stopped"}
    /\ isCancelled \in BOOLEAN

\* What is written is strictly ascending, as the binary search and further
\* merges of the output need it, also when the merge is cancelled half-way.
OutSorted == Ascending(out)

\* The hash occurs in a file.
HashIn(h, s) == \E k \in 1..Len(s) : s[k].hash = h

\* A finished merge has lost no hash of any input.
NothingLost ==
    pc = "done" =>
      \A i \in Inputs : \A k \in 1..Len(content[i]) : HashIn(content[i][k].hash, out)

\* A hash that was read from an input, or 0 when there is an empty input.
Genuine(h) ==
    \/ h = 0 /\ \E i \in Inputs : content[i] = <<>>
    \/ \E i \in Inputs : HashIn(h, content[i])

\* The merge invents no hash, except hash 0 when an input is empty.
NothingInvented == \A m \in 1..Len(out) : Genuine(out[m].hash)

\* The hashes of all inputs; an empty one is read as hash 0.
Sources ==
    (UNION {{content[i][k].hash : k \in 1..Len(content[i])} : i \in Inputs})
      \cup {0 : i \in {j \in Inputs : content[j] = <<>>}}

\* How often a sorted file has h, and all inputs together.
CountIn(h, s) ==
    IF HashIn(h, s) THEN s[CHOOSE k \in 1..Len(s) : s[k].hash = h].count ELSE 0
Expected(h) == SumFunction([i \in Inputs |-> CountIn(h, content[i])])

\* A finished merge counts no hash less often than its inputs do, and no record
\* more than three times, as long as the sums fit into 32 bits: the first record
\* is added once more, and so is the last record of an input that is exhausted,
\* which may be the same.
CountsBounded ==
    pc = "done" =>
      \A h \in Sources : 3 * Expected(h) < CountMod =>
        CountIn(h, out) >= Expected(h) /\ CountIn(h, out) <= 3 * Expected(h)

HashesOf(s) == [m \in 1..Len(s) |-> s[m].hash]

Progress ==
    IF pc \in {"start", "merge"} THEN "running" ELSE IF pc = "done" THEN "done" ELSE "abandoned"

Union ==
    INSTANCE SortedUnion WITH source <- Sources, written <- HashesOf(out), state <- Progress

\* The k-way merge implements the sorted union of its inputs: whatever is on
\* top of the queue, every record it writes has the smallest hash that is not
\* in the output yet, and it is done exactly when none is missing.
ImplementsUnion == Union!Spec

\* The merge ends, with or without cancellation.
Terminates == <>Ended

=============================================================================
