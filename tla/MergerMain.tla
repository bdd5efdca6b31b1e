----------------------------- MODULE MergerMain -----------------------------
(***************************************************************************)
(* The main loop of pwned-merger-cli (pwned-merger-cli.cpp): it merges at  *)
(* most MaxFilesAtOnce files at a time into intermediate files, which join *)
(* the end of the list, until one merge covers the whole list; that one    *)
(* writes the destination.  One MergeOperation is one step here: module    *)
(* Merge looks inside, module OperationQueue at the queue that runs it.    *)
(*                                                                         *)
(* A file is described by the input files whose records it holds in full.  *)
(* Its size is asked for once (Lazy) and then remembered, whatever becomes *)
(* of the file; an input that cannot be opened any more is like an empty   *)
(* one.  Nothing keeps the destination from being an input too: --src finds *)
(* it, or --input names it.                                                *)
(***************************************************************************)
EXTENDS Integers, Sequences, FiniteSets

CONSTANTS Files,            \* the input files
          FileSize,         \* fs::file_size() of each
          Lists,            \* the possible lists of them
          Destinations,     \* the files that may be the destination
          Limits,           \* possible values of --max-files-at-once
          MaxTemps,         \* bound on the intermediate files
          MayVanish,        \* may somebody else remove an input?
          MayFail,          \* may a merge fail to open its target?
          MayQuit           \* may the user press q?

ASSUME MergerAssumption ==
    /\ \A l \in Lists : /\ l \in Seq(Files)
                        /\ \A f \in Files : \E i \in 1..Len(l) : l[i] = f
                        /\ \A i, j \in 1..Len(l) : l[i] = l[j] => i = j
    /\ (Files \cup Destinations) \cap Nat = {}     \* numbers name intermediate files
    /\ FileSize \in [Files -> Nat]
    /\ Limits \subseteq Nat /\ MaxTemps \in Nat
    /\ MayFail \in BOOLEAN /\ MayQuit \in BOOLEAN /\ MayVanish \in BOOLEAN

VARIABLES
    maxFilesAtOnce,
    dstFile,        \* the destination
    inputFiles,     \* the files still to be merged
    sized,          \* InputFile::inputSize: the files whose size is known
    holds,          \* of every file: the input files merged into it
    exists,         \* the files that are on disk
    intermediates,  \* number of intermediate file names handed out
    slice,          \* number of files in the current chunk
    opened,         \* those of them that could be opened
    target,         \* the file it is merged into
    isCancelled,    \* opQueue.isCancelled()
    pc,
    quit, failed,   \* did the user press q, did a merge fail? (history)
    written,        \* did a merge open the destination? (history)
    vanished        \* inputs that somebody else removed (history)

fileVars == <<maxFilesAtOnce, dstFile, vanished>>
vars == <<fileVars, inputFiles, sized, holds, exists, intermediates, slice, opened, target,
          isCancelled, pc, quit, failed, written>>

\* intermediateFilenames: fs::unique_path() never hands out a name twice
Temps == 1..intermediates

\* The largest first.
InputFileLess(a, b) == FileSize[a] > FileSize[b]

\* What std::sort may make of the list of inputs.
Sorted(l) == \A i, j \in 1..Len(l) : InputFileLess(l[i], l[j]) => i < j

\* The inputs exist before, the destination may.  Sorting two files or more
\* asks for the size of each.
Init ==
    /\ maxFilesAtOnce \in Limits /\ dstFile \in Destinations
    /\ inputFiles \in {l \in Lists : Sorted(l)}
    /\ sized = IF Cardinality(Files) > 1 THEN Files ELSE {}
    /\ opened = {} /\ vanished = {}
    /\ exists \in {Files, Files \cup {dstFile}}
    /\ holds = [f \in Files |-> {f}]
    /\ intermediates = 0 /\ slice = 0 /\ target = dstFile
    /\ isCancelled = FALSE /\ pc = "loop" /\ quit = FALSE /\ failed = FALSE
    /\ written = FALSE

-----------------------------------------------------------------------------
\* std::min(inputFiles.end(), inputFiles.begin() + maxFilesAtOnce)
SliceLength == IF Len(inputFiles) <= maxFilesAtOnce THEN Len(inputFiles) ELSE maxFilesAtOnce
IsLastChunk == SliceLength = Len(inputFiles)

\* Lazy::value(), for files whose size is not known yet: fs::file_size throws
\* when there is no such file, and nobody catches it.
SizesKnown(S) == S \ sized \subseteq exists

\* MergerInput::open(): a file that is not there is not opened.
Opened(S) == S \cap exists

\* The first half of the loop body, with the constructor of the operation.
Chunk ==
    /\ pc = "loop" /\ inputFiles # <<>> /\ ~isCancelled
    /\ slice' = SliceLength
    /\ IF IsLastChunk
       THEN target' = dstFile /\ UNCHANGED intermediates
       ELSE /\ intermediates < MaxTemps
            /\ intermediates' = intermediates + 1 /\ target' = intermediates'
    /\ LET S == {inputFiles[i] : i \in 1..slice'}
       IN /\ pc' = IF SizesKnown(S) THEN "merging" ELSE "aborted"
          /\ sized' = sized \cup (S \cap exists)
          /\ opened' = Opened(S)
    /\ UNCHANGED <<fileVars, inputFiles, holds, exists, isCancelled, quit, failed, written>>

\* What the files of the chunk hold.
Merged == UNION {holds[f] : f \in opened}

\* The destination is an input of the merge that writes it.
ReadsItself == target \in opened

\* d->dstFile.open() creates the target, or empties it.
OpenTarget ==
    /\ exists' = exists \cup {target}
    /\ written' = (written \/ target = dstFile)
    /\ UNCHANGED failed

\* What the target holds in the end.
Holds(S) == [f \in DOMAIN holds \cup {target} |-> IF f = target THEN S ELSE holds[f]]

\* The operation has ended and waitForFinished() has reset the queue: the
\* merge is complete, it was cancelled half-way, there was no file in it or it
\* was cancelled before it opened the target, or it threw.  The constructor has
\* opened the inputs before execute() empties the target: of an input that is
\* the target it reads what the stream has buffered, which may be all of it,
\* and then perhaps what the merge itself writes, so that nothing is certain.
MergeEnds ==
    /\ pc = "merging"
    /\ \/ /\ slice > 0
          /\ OpenTarget /\ holds' = Holds(Merged)
       \/ /\ isCancelled \/ ReadsItself
          /\ slice > 0
          /\ OpenTarget /\ holds' = Holds({})
       \/ /\ isCancelled \/ slice = 0
          /\ UNCHANGED <<exists, holds, failed, written>>
       \/ /\ MayFail /\ slice > 0
          /\ failed' = TRUE
          /\ UNCHANGED <<exists, holds, written>>
    /\ isCancelled' = FALSE
    /\ pc' = "merged"
    /\ UNCHANGED <<fileVars, inputFiles, sized, intermediates, slice, opened, target, quit>>

RequeueWritten ==
    /\ pc = "merged"
    /\ inputFiles' = IF target = dstFile \/ target \notin exists
                     THEN SubSeq(inputFiles, slice + 1, Len(inputFiles))
                     ELSE Append(SubSeq(inputFiles, slice + 1, Len(inputFiles)), target)
    /\ pc' = "loop"
    /\ UNCHANGED <<fileVars, sized, holds, exists, intermediates, slice, opened, target, isCancelled,
                   quit, failed, written>>

RestOffByOne == SubSeq(inputFiles, slice + 2, Len(inputFiles))
RestOfLastStale ==
    IF target = dstFile THEN inputFiles ELSE SubSeq(inputFiles, slice + 1, Len(inputFiles))

\* std::vector<InputFile>(b, inputFiles.end())
Rest == SubSeq(inputFiles, slice + 1, Len(inputFiles))

\* The second half of the loop body.
Requeue ==
    /\ pc = "merged"
    /\ inputFiles' = IF isCancelled THEN inputFiles
                     ELSE IF target = dstFile THEN Rest ELSE Append(Rest, target)
    /\ pc' = "loop"
    /\ UNCHANGED <<fileVars, sized, holds, exists, intermediates, slice, opened, target, isCancelled,
                   quit, failed, written>>

\* fs::remove of every intermediate file
Finish ==
    /\ pc = "loop" /\ (inputFiles = <<>> \/ isCancelled)
    /\ exists' = exists \ Temps
    /\ pc' = "done"
    /\ UNCHANGED <<fileVars, inputFiles, sized, holds, intermediates, slice, opened, target,
                   isCancelled, quit, failed, written>>

\* The keyboard thread ends after the first q.
Quit ==
    /\ MayQuit /\ ~quit /\ pc \in {"loop", "merging", "merged"}
    /\ quit' = TRUE /\ isCancelled' = TRUE
    /\ UNCHANGED <<fileVars, inputFiles, sized, holds, exists, intermediates, slice, opened, target, pc,
                   failed, written>>

\* Somebody else removes an input; it matters when a chunk is next.
Vanish ==
    /\ MayVanish /\ pc = "loop"
    /\ \E f \in Files \cap exists : exists' = exists \ {f} /\ vanished' = vanished \cup {f}
    /\ UNCHANGED <<maxFilesAtOnce, dstFile, inputFiles, sized, holds, intermediates, slice, opened, target,
                   isCancelled, pc, quit, failed, written>>

\* The bound is reached.
Bounded == pc = "loop" /\ intermediates = MaxTemps

Ended == pc \in {"done", "aborted"}

Main == Chunk \/ MergeEnds \/ Requeue \/ Finish

Next == Main \/ Quit \/ Vanish \/ ((Ended \/ Bounded) /\ UNCHANGED vars)

\* A merge that reads what it writes may go on for ever.
Endless == pc = "merging" /\ ReadsItself /\ ~isCancelled

\* main() runs, and so does the merge it waits for (module OperationQueue looks
\* at when the queue lets it wait for ever); nobody has to quit.
Spec == Init /\ [][Next]_vars /\ WF_vars(Main /\ ~Endless)

-----------------------------------------------------------------------------
(* Properties                                                              *)

Undisturbed == ~quit /\ ~failed /\ vanished = {}
HeldBy(f) == IF f \in DOMAIN holds THEN holds[f] ELSE {}

\* As long as nobody quits and nothing fails, every input is in exactly one of
\* the files still to be merged: the chunks lose none and count none twice,
\* however many files a chunk may have.  Once the list is empty, the destination
\* has all of them, unless it was an input of the last chunk itself; as an input
\* of an earlier chunk it is safe in an intermediate file.
EveryInputOnce ==
    Undisturbed /\ pc \in {"loop", "merging"} =>
      IF inputFiles = <<>>
      THEN Files # {} => dstFile \in exists /\ (HeldBy(dstFile) = Files \/ dstFile \in opened)
      ELSE \A f \in Files : \E i \in 1..Len(inputFiles) :
             /\ f \in HeldBy(inputFiles[i])
             /\ \A j \in 1..Len(inputFiles) : f \in HeldBy(inputFiles[j]) => j = i

\* A destination that lacks an input was written after somebody pressed q, or
\* was an input of the very chunk it was written from, or the input was removed
\* before its turn: a merge that fails never leads to a
\* gap, because its target, which is put on the list unseen, is missed when its
\* size is asked for.  (Nobody misses an input that is gone, whose size is
\* known from the sorting.  After q, waitForFinished() resets the queue, and
\* the loop goes on with the chunk that was cancelled as if it were complete.)
NoSilentGap ==
    written => quit \/ dstFile \in opened \/ Files \ HeldBy(dstFile) \subseteq vanished

\* The program ends, however many files there are, if a chunk may have two or
\* more; with one, or none, the list never gets shorter, and a last chunk that
\* has the destination among its inputs may read what it writes for ever.
Terminates == maxFilesAtOnce > 1 => <>(Ended \/ Endless)

=============================================================================
