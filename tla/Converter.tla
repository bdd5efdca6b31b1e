----------------------------- MODULE Converter ------------------------------
(***************************************************************************)
(* ConvertOperation (pwned-converter-cli/convertoperation.cpp): reads a    *)
(* text file of passwords, counts their hashes in memory, chunk by chunk,  *)
(* and writes each chunk, sorted, to a new file of the one destination     *)
(* directory.  Up to Capacity operations run at the same time and look for *)
(* unused file names in that directory.  Pausing is in OperationQueue.     *)
(*                                                                         *)
(* The passwords come from a UserPasswordReader over the operation's file. *)
(***************************************************************************)
EXTENDS UserPasswordReader

CONSTANTS Ops,         \* the operations, one per input file
          Lines,       \* of every operation: the lines of its input file
          OptionSets,  \* the possible options of the readers
          Stem,        \* of every operation: srcFilePath.stem(), a sequence of
                       \* numbers, for its dash-separated parts
          Readable,    \* the operations that could open their input
          Present,     \* what is in the directory before, a function
          Rams,        \* the possible values of --ram
          MemUsagePerEntry,
          Threads,     \* the possible values of --threads
          Capacity,    \* hardware_concurrency(): the permits of the OperationQueue,
                       \* whatever --threads says
          MaxN,        \* 10000: bound on the search for a name
          MayCancel,   \* may operations be cancelled?
          MayFail,     \* may a file be impossible to create, or to read on?
          PartHashes   \* what the line in which a read breaks off may be
                       \* taken for, NoHash included

ASSUME ConverterAssumption ==
    /\ IsFiniteSet(Ops)
    /\ Lines \in [Ops -> Seq(Seq(STRING))] /\ \A o \in Ops : Lines[o] # <<>>
    /\ Threads \subseteq Nat \ {0} /\ Rams \subseteq Nat /\ MemUsagePerEntry \in Nat \ {0}
    /\ Capacity \in Nat /\ MaxN \in Nat
    /\ Readable \subseteq Ops

VARIABLES
    ram, numThreads, options,  \* what the command line says
    pc, reader,        \* program counter and reader of every operation
    splitFileNum,
    chunk,             \* passwordList: its sorted records
    name, n,           \* dstFilePath and the counter of the search
    mem,               \* entries held in memory
    cancelled,         \* Operation::isCancelled
    dir,               \* the directory: a function from names to records
    bad,               \* operations whose reader is bad()
    failed,            \* operations that could not write a chunk (history)
    overwrote          \* operations that opened a file that was there (history)

settings == <<ram, numThreads, options>>
history == <<failed, overwrote>>
vars == <<settings, pc, reader, splitFileNum, chunk, name, n, mem, cancelled, dir, bad, history>>

MaxMemWhole == ram

\* Each operation may use its share of the memory.
MaxMem == ram \div numThreads

\* The operation's reader.  Nobody writes to its file, so the hashes that
\* nextPasswordHash() is going to make of the lines can stand in their place.
NewReader(o, opts) ==
    LET r == UserPasswordReader(Lines[o], opts)
    IN [r EXCEPT !.lines = [i \in 1..Len(@) |-> NextPasswordHash([r EXCEPT !.pos = 0], i)]]

Init ==
    /\ pc = [o \in Ops |-> "queued"]
    /\ ram \in Rams /\ numThreads \in Threads /\ options \in OptionSets
    /\ reader = [o \in Ops |-> NewReader(o, options)]
    /\ splitFileNum = [o \in Ops |-> 0]
    /\ chunk = [o \in Ops |-> <<>>]
    /\ name = [o \in Ops |-> <<>>] /\ n = [o \in Ops |-> 0]
    /\ mem = [o \in Ops |-> 0]
    /\ cancelled = {} /\ bad = {} /\ failed = {} /\ overwrote = {}
    /\ dir = Present

Goto(o, from, to) == pc[o] = from /\ pc' = [pc EXCEPT ![o] = to]

Running == {o \in Ops : pc[o] \notin {"queued", "end"}}

\* The queue starts the operation; cancel() holds its mutex and keeps it from
\* starting any other.
Start(o) ==
    /\ Cardinality(Running) < Capacity /\ cancelled = {}
    /\ Goto(o, "queued", "begin")
    /\ UNCHANGED <<settings, reader, splitFileNum, chunk, name, n, mem, cancelled, dir, bad, history>>

\* The first look at isCancelled.
Begin(o) ==
    /\ Goto(o, "begin", IF o \in cancelled THEN "end" ELSE "read")
    /\ UNCHANGED <<settings, reader, splitFileNum, chunk, name, n, mem, cancelled, dir, bad, history>>

-----------------------------------------------------------------------------
\* memUsage < maxMem: how many entries a turn of the outer loop may read
EntriesPerTurn == (MaxMem + MemUsagePerEntry - 1) \div MemUsagePerEntry

\* What the inner loop reads: it stops at eof or when the memory is used up.
\* A stream that could not be opened, or that a read error has made bad(), gives
\* nothing, and never reaches eof.
Entries(o) ==
    LET r == reader[o]
        last == Min({Len(r.lines), r.pos + EntriesPerTurn})
    IN IF o \in Readable \ bad THEN SubSeq(r.lines, r.pos + 1, last) ELSE <<>>

\* What it may have read when a read error breaks it off in its k-th line, of
\* which getline() has left a part.
CutShort(o) ==
    {Append(SubSeq(Entries(o), 1, k - 1), h) : k \in 1..Len(Entries(o)), h \in PartHashes}

EofMissed(o) == FALSE

\* reader.eof()
Eof(o) == o \in Readable \ bad /\ reader[o].eof

\* passwordCountSet[hash] += 1 for the valid hashes, then the sorted list
Tally(s) ==
    LET hs == SetToSortSeq({s[i] : i \in 1..Len(s)} \ {NoHash}, <)
    IN [i \in 1..Len(hs) |->
          [hash |-> hs[i], count |-> Cardinality({k \in 1..Len(s) : s[k] = hs[i]})]]

BoundedIncr(k) == IF k < MaxN THEN k + 1 ELSE k

\* The rest of a turn up to the sorted list, with what the inner loop has read:
\* it goes on with the next turn when there is nothing to write.
Collect(o, s) ==
    LET nothing == o \in cancelled \/ Tally(s) = <<>>
    IN /\ splitFileNum' = [splitFileNum EXCEPT ![o] = BoundedIncr(@)]
       /\ mem' = [mem EXCEPT ![o] = IF nothing THEN 0 ELSE Len(s)]
       /\ chunk' = [chunk EXCEPT ![o] = Tally(s)]
       /\ Goto(o, "read", IF o \in cancelled THEN "end" ELSE IF nothing THEN "read" ELSE "sorted")

\* One turn of while (!reader.eof()): the file is at its end, the inner loop
\* reads on, or it is cut short.
Read(o) ==
    /\ pc[o] = "read"
    /\ \/ /\ Eof(o)
          /\ Goto(o, "read", "end")
          /\ UNCHANGED <<reader, splitFileNum, chunk, mem, bad>>
       \/ /\ ~Eof(o)
          /\ \E s \in {Entries(o)} :
               /\ Collect(o, s)
               /\ reader' = [reader EXCEPT ![o] = IF s = <<>> THEN @ ELSE Advance(@, Len(s))]
          /\ UNCHANGED bad
       \/ /\ MayFail /\ ~Eof(o)
          /\ \E s \in CutShort(o) : Collect(o, s)
          /\ bad' = bad \cup {o}
          /\ UNCHANGED reader
    /\ UNCHANGED <<settings, name, n, cancelled, dir, history>>

\* generatedOutputFilename()
Base(o) == Stem[o] \o <<splitFileNum[o]>>

\* The last look at isCancelled, and the first name.
ChooseName(o) ==
    /\ Goto(o, "sorted", IF o \in cancelled THEN "end" ELSE "exists")
    /\ name' = [name EXCEPT ![o] = Base(o)]
    /\ n' = [n EXCEPT ![o] = splitFileNum[o]]
    /\ mem' = [mem EXCEPT ![o] = IF o \in cancelled THEN 0 ELSE @]
    /\ UNCHANGED <<settings, reader, splitFileNum, chunk, cancelled, dir, bad, history>>

\* fs::exists(dstFilePath) && n < 10000
Taken(o) == name[o] \in DOMAIN dir /\ n[o] < MaxN

\* One look at the directory.
Exists(o) ==
    /\ \/ /\ ~Taken(o)
          /\ Goto(o, "exists", "open")
          /\ UNCHANGED <<name, n>>
       \/ /\ Taken(o)
          /\ Goto(o, "exists", "exists")
          /\ name' = [name EXCEPT ![o] = Base(o) \o <<n[o]>>]
          /\ n' = [n EXCEPT ![o] = @ + 1]
    /\ UNCHANGED <<settings, reader, splitFileNum, chunk, mem, cancelled, dir, bad, history>>

Put(f, contents) == [x \in DOMAIN dir \cup {f} |-> IF x = f THEN contents ELSE dir[x]]

\* std::ofstream truncates the file; if it cannot, the chunk is dropped.
Open(o) ==
    /\ \/ /\ Goto(o, "open", "write")
          /\ dir' = Put(name[o], <<>>)
          /\ overwrote' = IF name[o] \in DOMAIN dir THEN overwrote \cup {o} ELSE overwrote
          /\ UNCHANGED <<mem, failed>>
       \/ /\ MayFail
          /\ Goto(o, "open", "read")
          /\ failed' = failed \cup {o}
          /\ mem' = [mem EXCEPT ![o] = 0]
          /\ UNCHANGED <<dir, overwrote>>
    /\ UNCHANGED <<settings, reader, splitFileNum, chunk, name, n, cancelled, bad>>

\* dump() from the beginning of the file, over what another one wrote there
Write(o) ==
    /\ Goto(o, "write", "read")
    /\ LET old == dir[name[o]]
       IN dir' = Put(name[o], chunk[o] \o SubSeq(old, Len(chunk[o]) + 1, Len(old)))
    /\ mem' = [mem EXCEPT ![o] = 0]
    /\ UNCHANGED <<settings, reader, splitFileNum, chunk, name, n, cancelled, bad, history>>

\* The queue cancels one operation after the other, and waits for the end of
\* each (module OperationQueue looks at when it waits for ever, or not at all).
Cancel(o) ==
    /\ MayCancel /\ o \notin cancelled /\ o \in Running
    /\ \A p \in cancelled : pc[p] = "end"
    /\ cancelled' = cancelled \cup {o}
    /\ UNCHANGED <<settings, pc, reader, splitFileNum, chunk, name, n, mem, dir, bad, history>>

Execute(o) == Start(o) \/ Begin(o) \/ Read(o) \/ ChooseName(o) \/ Exists(o) \/ Open(o) \/ Write(o)

Ended == \A o \in Ops : pc[o] = "end" \/ (pc[o] = "queued" /\ cancelled # {})

Next == (\E o \in Ops : Execute(o) \/ Cancel(o)) \/ (Ended /\ UNCHANGED vars)

\* Every operation's thread runs.
Spec == Init /\ [][Next]_vars /\ \A o \in Ops : WF_vars(Execute(o))

-----------------------------------------------------------------------------
(* Properties                                                              *)

CountInFile(f, h) == MapThenSumSet(LAMBDA i : IF f[i].hash = h THEN f[i].count ELSE 0, 1..Len(f))
CountInDir(d, h) == MapThenSumSet(LAMBDA x : CountInFile(d[x], h), DOMAIN d)

\* What a line of a user:pass file stands for, said without the reader: its
\* words, the password's encoding taken off where it is asked for.
\* Where most lines of a file have a separator, the user's name is dropped.
UsualSeparator(lines) ==
    LET uses(i) == Cardinality({k \in 1..Len(lines) : Separators[i] \in ToSet(lines[k])})
    IN IF \A i \in 1..4 : uses(i) = 0 THEN NoSeparator
       ELSE Separators[CHOOSE i \in 1..4 : \A j \in 1..4 :
                         uses(j) < uses(i) \/ (uses(j) = uses(i) /\ i <= j)]
Password(line, sep) ==
    LET s == SelectSeq(line, LAMBDA t : t # "\r")
        rest == {i \in 1..Len(s) : s[i] = sep /\ \A j \in 1..(i - 1) : s[j] # sep}
    IN IF \E i \in 1..Len(line) : line[i] \in LongWords THEN <<>>
       ELSE IF rest = {} THEN s ELSE SubSeq(s, 1 + (CHOOSE i \in rest : TRUE), Len(s))
\* "convert ... encoded passwords", or "if some are found"
Has(line, Words) == ToSet(line) \cap Words # {}
Evaluates(o, opts, force, auto, Words) ==
    force \in opts \/ (auto \in opts /\ \E i \in 1..Len(Lines[o]) : Has(Lines[o][i], Words))
Meaning(o, opts, pwd) ==
    LET bytes == Pairs[pwd[1]]
        whole == \A i \in 1..Len(bytes) : bytes[i] >= 0
        md5 == Evaluates(o, opts, "forceEvaluateMD5Hashes", "autoEvaluateMD5Hashes", MD5Words)
        hex == Evaluates(o, opts, "forceEvaluateHexEncodedPasswords", "autoEvaluateHexEncodedPasswords", HexWords)
    IN IF md5 /\ (\E w \in MD5Words : pwd = <<w>>) /\ whole THEN bytes[1] * ByteValues + bytes[2]
       ELSE IF hex /\ (\E w \in HexWords : pwd = <<w>>)
       THEN MD5([i \in 1..Len(SelectSeq(bytes, LAMBDA b : b >= 0)) |-> Char[bytes[i]]])
       ELSE MD5(pwd)
CountInInput(o, opts, h) ==
    LET pwd(i) == Password(Lines[o][i], UsualSeparator(Lines[o]))
    IN Cardinality({i \in 1..Len(Lines[o]) : pwd(i) # <<>> /\ h = Meaning(o, opts, pwd(i))})

\* What should be in the directory, for every choice of options.
Hashes == 0..(ByteValues * ByteValues - 1)
Wanted ==
    [opts \in OptionSets |-> [h \in Hashes |->
       CountInDir(Present, h) + MapThenSumSet(LAMBDA o : CountInInput(o, opts, h), Readable)]]

\* The operations that ran undisturbed.
Undisturbed == {o \in Readable : pc[o] = "end" /\ o \notin cancelled \cup failed \cup bad}

\* "convert clear-text password files to binary files containing MD5 hashes and
\* their according counts": when the operations that can end have ended,
\* undisturbed, the directory has every password as often as their files have
\* it.  Two operations with the same stem can take the same name, and the
\* reader does not find what it should in every file: see EveryPasswordConverted.
ConvertsAll ==
    Undisturbed = Readable => \A h \in Hashes : CountInDir(dir, h) = Wanted[options][h]

\* A file shows its encoded words when one of them is on one of the first lines,
\* and the usual separator with it.
Shows(o, Words) ==
    \A i \in 1..Len(Lines[o]) : Has(Lines[o][i], Words) =>
      \E j \in 1..Min({NTries, Len(Lines[o])}) :
        Has(Lines[o][j], Words) /\ Has(Lines[o][j], {UsualSeparator(Lines[o])})
\* The options with which the readers find what there is.
FoundByReader ==
    {opts \in OptionSets : \A o \in Readable :
       /\ "autoEvaluateMD5Hashes" \in opts => Shows(o, MD5Words)
       /\ "autoEvaluateHexEncodedPasswords" \in opts => Shows(o, HexWords)}

\* No line is skipped or read twice by the reader's rewinds or by the cut into
\* chunks, and no chunk is lost among those of other operations and of earlier
\* conversions, unless an operation opens a name that was given to another one
\* after it had looked for it (or after 10000 names); what a reader does not
\* find where it looks, it does not convert.
EveryPasswordConverted == overwrote = {} /\ options \in FoundByReader => ConvertsAll

\* memUsage, as long as an operation keeps its list of passwords
MemUsage == [o \in Ops |-> mem[o] * MemUsagePerEntry]

\* "program can use as many as the given MB of RAM": the operations together
\* hold no more than that, except for one entry each that the last test of
\* memUsage lets through.
RamPromised == SumFunction(MemUsage) <= ram + MemUsagePerEntry * Cardinality(Running)

\* As many operations as there are permits hold memory at the same time, each
\* no more than a thread's part of --ram and what the last test of memUsage
\* lets through: none keeps its list when it waits, is cancelled or fails.  What
\* the help text says of --ram holds if there are no more permits than threads;
\* nothing in the code sees to that.
RamRespected ==
    /\ Cardinality(Running) <= Capacity
    /\ SumFunction(MemUsage)
         <= Cardinality(Running) * (ram \div numThreads + MemUsagePerEntry - 1)
    /\ Capacity <= numThreads => RamPromised

\* Operations that turn for ever around a file that they cannot read.
Spinning == {o \in Running : o \in bad \/ o \notin Readable}

\* Every operation whose file can be read to its end ends, as long as there is
\* memory for an entry and nobody cancels them while it is queued, although
\* others may turn for ever around a file that they could not open or read on
\* and keep their permits: unless they keep all.
ConversionEnds ==
    MaxMem > 0 =>
      \A o \in Readable :
        <>(pc[o] = "end" \/ o \in bad \/ Cardinality(Spinning) >= Capacity
           \/ (pc[o] = "queued" /\ cancelled # {}))

=============================================================================
