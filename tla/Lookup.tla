------------------------------- MODULE Lookup -------------------------------
(***************************************************************************)
(* The programs around a data file, one after the other, as their user     *)
(* runs them: pwned-index builds the index; pwned-lookup-cli or            *)
(* pwned-server looks up whatever it is asked; or test-set-extractor makes *)
(* a test set and benchmark looks up all of it, several times, each time   *)
(* with a new PasswordInspector.                                           *)
(*                                                                         *)
(* The lookups are PasswordInspector's, whose model computes the keys of   *)
(* the index from the data file; here IndexBuilder writes them.            *)
(***************************************************************************)
EXTENDS PasswordInspector, FiniteSets

CONSTANTS Nums,      \* --num of test-set-extractor
          NumRuns    \* --runs of benchmark

ASSUME LookupAssumption == Nums \subseteq Nat \ {0} /\ NumRuns \in Nat \ {0}

VARIABLES
    phase,       \* the program that runs: "index", "ask", "draw", "bench" or "end"
    opened,      \* could pwned-index open the data file?
    nRead, eof, hash, idx, lastIdx, pos, indexes, ipc,   \* pwned-index's
    num, kind,   \* N; "existing", or "absent" for --non-existent
    drawn,       \* random hashes looked up so far
    testset,     \* the hashes of the test set
    algorithm,   \* of benchmark: "binsearch" or "smart"
    run, next,   \* the run, and the place in the test set
    found, notFound,
    spoiled      \* was the test set made with a failed stream? (history)

indexVars == <<opened, nRead, eof, hash, idx, lastIdx, pos, indexes, ipc>>
setVars   == <<num, kind, drawn, testset, spoiled>>
benchVars == <<algorithm, run, next, found, notFound>>
allVars   == <<vars, phase, indexVars, setVars, benchVars>>

\* pwned-index, over the hashes of the same file
Builder ==
    INSTANCE IndexBuilder
      WITH pc <- ipc, db <- IF opened THEN [i \in 1..Len(db) |-> db[i].hash] ELSE <<>>

LookupInit ==
    /\ Init
    /\ phase = "index" /\ opened \in BOOLEAN /\ Builder!Start
    /\ num = 0 /\ kind = "existing"
    /\ drawn = 0 /\ testset = <<>> /\ spoiled = FALSE
    /\ algorithm = "binsearch" /\ run = 0 /\ next = 1 /\ found = 0 /\ notFound = 0

BuildIndex ==
    /\ phase = "index"
    /\ Builder!Scan \/ Builder!Finish
    /\ UNCHANGED <<vars, phase, opened, setVars, benchVars>>

-----------------------------------------------------------------------------
(* test-set-extractor.                                                     *)

\* N records at equal distances, each read where the record begins
ExistingSet(n) ==
    LET distance == FileSize \div n
    IN [i \in 1..n |-> Record((i - 1) * distance).hash]

\* The index is ready; somebody asks, or makes a test set.
UseIndex ==
    /\ phase = "index" /\ ipc = "done"
    /\ \/ phase' = "ask" /\ UNCHANGED <<indexed, num, kind, testset>>
       \/ /\ phase' = "draw" /\ indexed' = FALSE
          /\ num' \in Nums /\ kind' \in {"existing", "absent"}
          /\ testset' = IF kind' = "existing" THEN ExistingSet(num') ELSE <<>>
    /\ UNCHANGED <<db, dataOk, indexOk, pc, sought, lo, hi, at, offset, phc, result, hist,
                   indexVars, drawn, spoiled, benchVars>>

\* pwned-lookup-cli, pwned-server: a lookup of anything
Ask == phase = "ask" /\ \E h \in Hashes : Binsearch(h) \/ SmartBinsearch(h)

\* inspector.binsearch(hash) of a random one
Draw ==
    /\ phase = "draw" /\ kind = "absent" /\ drawn < num
    /\ \E h \in Hashes : Binsearch(h)
    /\ drawn' = drawn + 1
    /\ UNCHANGED <<num, kind, testset, spoiled>>

AbsentInverted == result # 0

\* p.count == 0
Absent == result = 0

\* It goes into the test set if it was not found.
TakeDrawn ==
    /\ phase = "draw" /\ Return
    /\ testset' = IF Absent THEN Append(testset, sought) ELSE testset
    /\ spoiled' = (spoiled \/ ~trusted)
    /\ UNCHANGED <<num, kind, drawn>>

-----------------------------------------------------------------------------
(* benchmark.                                                              *)

\* The test set is read; without --index the algorithm is the user's, with it
\* binsearch().
ReadTestSet ==
    /\ phase = "draw" /\ (kind = "existing" \/ drawn = num)
    /\ indexed' \in BOOLEAN
    /\ algorithm' \in IF indexed' THEN {"binsearch"} ELSE {"binsearch", "smart"}
    /\ phase' = "bench" /\ run' = 1

\* The next run, or the end.
NextRun ==
    /\ phase = "bench" /\ next > Len(testset)
    /\ IF run < NumRuns THEN run' = run + 1 /\ UNCHANGED phase
                        ELSE phase' = "end" /\ UNCHANGED run
    /\ UNCHANGED <<indexed, algorithm>>

\* A run begins with a new PasswordInspector and with counters at zero.
NewInspector ==
    /\ pc = "idle"
    /\ ReadTestSet \/ NextRun
    /\ dataOk' = TRUE /\ indexOk' = TRUE /\ beyond' = FALSE
    /\ next' = 1 /\ found' = 0 /\ notFound' = 0
    /\ UNCHANGED <<db, pc, sought, lo, hi, at, offset, phc, result, trusted,
                   indexVars, setVars>>

\* lookup(phc.hash, &readCount)
BenchmarkWithoutIndex(h) ==
    ~indexed /\ IF algorithm = "binsearch" THEN Binsearch(h) ELSE SmartBinsearch(h)

\* inspector.binsearch(phc.hash, &readCount)
BenchmarkWithIndex(h) == indexed /\ Binsearch(h)

LookupNext ==
    /\ phase = "bench" /\ next <= Len(testset)
    /\ BenchmarkWithoutIndex(testset[next]) \/ BenchmarkWithIndex(testset[next])
    /\ UNCHANGED <<algorithm, run, next, found, notFound>>

\* Found, or not found
Count ==
    /\ phase = "bench" /\ Return
    /\ next' = next + 1
    /\ found' = IF result > 0 THEN found + 1 ELSE found
    /\ notFound' = IF result > 0 THEN notFound ELSE notFound + 1
    /\ UNCHANGED <<algorithm, run>>

\* The inspector's own steps.
Search == SmartLo \/ SmartHi \/ IdxLo \/ IdxHi \/ Probe \/ NotFound

LookupStep ==
    \/ BuildIndex
    \/ Search /\ UNCHANGED <<phase, indexVars, setVars, benchVars>>
    \/ phase = "ask" /\ Return /\ UNCHANGED <<phase, indexVars, setVars, benchVars>>
    \/ (Draw \/ TakeDrawn) /\ UNCHANGED <<phase, indexVars, benchVars>>
    \/ NewInspector
    \/ (LookupNext \/ Count) /\ UNCHANGED <<phase, indexVars, setVars>>

LookupNextStep ==
    \/ LookupStep
    \/ UseIndex
    \/ Ask /\ UNCHANGED <<phase, indexVars, setVars, benchVars>>

\* A program that was started runs; nobody has to start one or to ask.
LookupSpec == LookupInit /\ [][LookupNextStep]_allVars /\ WF_allVars(LookupStep)

-----------------------------------------------------------------------------
(* Properties                                                              *)

\* The index that pwned-index writes is the one the search works with: it says
\* where each bucket begins, also for the bucket that was open when the file
\* ended, whose key is written a second time after the loop.
IndexAgrees == ipc = "done" => \A k \in 0..(NKeys - 1) : indexes[k] = KeyAt(k)

\* A benchmark tells the truth, with every algorithm, with an index and
\* without, in its first run and in every later one: it finds every hash of a
\* set of existing ones, and none of a set of absent ones, unless that set was
\* made with a stream that had failed before. The set of existing hashes has
\* none twice, as long as the file has as many as are wanted.
BenchmarkTruthful ==
    phase = "bench" =>
      /\ kind = "existing" => notFound = 0
      /\ kind = "absent" /\ ~spoiled => found = 0
      /\ kind = "existing" /\ num <= Len(db) =>
           \A i, j \in 1..num : testset[i] = testset[j] => i = j

\* pwned-index ends if it could open the data file (if not, its loop waits
\* forever for the end of a file that no read reaches); a benchmark without an
\* index ends.
ProgramsEnd ==
    /\ opened ~> (ipc = "done")
    /\ (phase = "bench" /\ ~indexed /\ pc = "idle") ~> (phase = "end")

=============================================================================
