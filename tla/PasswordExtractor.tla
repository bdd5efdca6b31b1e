------------------------- MODULE PasswordExtractor --------------------------
(***************************************************************************)
(* pwned-password-extractor: copies the passwords of all .txt files of a   *)
(* directory to one output file, and notes each file that is done in a     *)
(* file .ready, so that a later start can skip it.  The notes are flushed  *)
(* at once, the output is buffered (stdio, or the BZ2 compressor); the     *)
(* process may be killed between any two steps and started again.  Every   *)
(* start is one of CommandLine's.                                          *)
(***************************************************************************)
EXTENDS CommandLine, UserPasswordReader

CONSTANTS Files,      \* the .txt files, in the order the scan finds them
          Contents,   \* their lines
          Mangled,    \* what may be left of a password when it is written
          MayFail,    \* may a read or write fail, or a file be impossible to open?
          MaxStarts   \* bound on the starts

\* The scan finds a file once.
ASSUME ExtractorAssumption ==
    /\ Files \in Seq(DOMAIN Contents) /\ MaxStarts \in Nat
    /\ \A i, j \in 1..Len(Files) : Files[i] = Files[j] => i = j
    /\ \A f \in DOMAIN Contents : Contents[f] \in Seq(Seq(STRING)) /\ Contents[f] # <<>>

VARIABLES
    starts,            \* how often the extractor was started
    compress, ignoreReady,
    out, buffered,     \* what is on disk, and what is not yet
    ready,             \* .ready
    alreadyProcessed,  \* what was in it at the start
    fileNo, reader,    \* the current file, and its reader
    skipped,           \* files that could not be opened in this run (history)
    lost               \* writes of this run that failed unnoticed (history)

flags == <<compress, ignoreReady>>
files == <<out, buffered, ready>>
extractVars == <<starts, flags, files, alreadyProcessed, fileNo, reader, skipped, lost>>
vars == <<startVars, extractVars>>

NoReader == [eof |-> TRUE]
\* After a read error: bad(), and never eof()
Broken == [eof |-> FALSE]
Working == pc = "work" /\ prog = "extractor"

Init ==
    /\ StartInit
    /\ starts = 1 /\ compress = FALSE /\ ignoreReady = FALSE
    /\ out = <<>> /\ buffered = <<>> /\ ready = {} /\ alreadyProcessed = {}
    /\ fileNo = 0 /\ reader = NoReader /\ skipped = {} /\ lost = FALSE

-----------------------------------------------------------------------------
\* The output was truncated by fopen(); the compressor may be impossible to
\* create; .ready is read, and truncated or appended to.  After an error in the
\* command line the two switches have no value: any.
BeginExtraction ==
    /\ Working /\ fileNo = 0
    /\ compress' \in BOOLEAN /\ ignoreReady' \in BOOLEAN
    /\ out' = <<>> /\ buffered' = <<>> /\ skipped' = {} /\ lost' = FALSE
    /\ \/ /\ alreadyProcessed' = IF ignoreReady' THEN {} ELSE ready
          /\ ready' = IF ignoreReady' THEN {} ELSE ready
          /\ fileNo' = 1 /\ reader' = NoReader
          /\ UNCHANGED startVars
       \/ /\ MayFail /\ compress'
          /\ Exit("failure")
          /\ UNCHANGED <<prog, cmd, stored, number, output, answer, uri, serving,
                         ready, alreadyProcessed, fileNo, reader>>
    /\ UNCHANGED starts

\* The reader of the file looks for hex encoding, but nextPassword() returns
\* the passwords as they are.
ReaderOf(f) == UserPasswordReader(Contents[f], {"autoEvaluateHexEncodedPasswords"})

NextFile == fileNo' = fileNo + 1 /\ reader' = NoReader

\* The head of the loop: a file that is done is skipped, and so is one that
\* cannot be opened.
OpenFile ==
    /\ Working /\ fileNo \in 1..Len(Files) /\ reader = NoReader
    /\ LET f == Files[fileNo]
       IN \/ /\ f \in alreadyProcessed
             /\ NextFile
             /\ UNCHANGED skipped
          \/ /\ f \notin alreadyProcessed /\ MayFail
             /\ NextFile
             /\ skipped' = skipped \cup {f}
          \/ /\ f \notin alreadyProcessed
             /\ reader' = ReaderOf(f)
             /\ UNCHANGED <<fileNo, skipped>>
    /\ UNCHANGED <<startVars, starts, flags, files, alreadyProcessed, lost>>

\* What can be left of the password when it is written: pwd is a reference to
\* a string that is gone.
Written(pwd) == {pwd, Mangled}

\* A read fails in the middle of a file.
ReadFails ==
    /\ Working /\ MayFail /\ reader # NoReader /\ ~reader.eof
    /\ reader' = Broken
    /\ UNCHANGED <<startVars, starts, flags, files, alreadyProcessed, fileNo, skipped, lost>>

\* while (!reader.eof()): one password, an empty one too.  fwrite()'s result is
\* not looked at; an error of the compressor ends the program.
WritePassword ==
    /\ Working /\ reader \notin {NoReader, Broken} /\ ~reader.eof
    /\ reader' = Advance(reader, 1)
    /\ \/ /\ \E text \in Written(NextPassword(reader, 1)) : buffered' = Append(buffered, text)
          /\ UNCHANGED <<startVars, out, lost>>
       \/ /\ MayFail /\ ~compress
          /\ lost' = TRUE
          /\ UNCHANGED <<startVars, out, buffered>>
       \/ /\ MayFail /\ compress
          /\ Exit("failure")
          /\ out' = out \o buffered /\ buffered' = <<>>
          /\ UNCHANGED <<prog, cmd, stored, number, output, answer, uri, serving, lost>>
    /\ UNCHANGED <<starts, flags, ready, alreadyProcessed, fileNo, skipped>>

\* The same loop after a read error: it writes line ends, which are left out
\* here, until the compressor fails, if there is one.
WritesNothing ==
    /\ Working /\ reader = Broken /\ MayFail /\ compress
    /\ Exit("failure")
    /\ out' = out \o buffered /\ buffered' = <<>>
    /\ UNCHANGED <<prog, cmd, stored, number, output, answer, uri, serving,
                   starts, flags, ready, alreadyProcessed, fileNo, reader, skipped, lost>>

\* Some of the buffer goes to disk by itself.
Flush ==
    /\ Working /\ buffered # <<>>
    /\ out' = Append(out, Head(buffered)) /\ buffered' = Tail(buffered)
    /\ UNCHANGED <<startVars, starts, flags, ready, alreadyProcessed, fileNo, reader, skipped, lost>>

NoteReadyEarly == reader # NoReader

\* The file is done.
FileDone == reader # NoReader /\ reader.eof

\* readyFile << inputFilename << std::endl
NoteReady ==
    /\ Working /\ FileDone
    /\ ready' = ready \cup {Files[fileNo]}
    /\ NextFile
    /\ UNCHANGED <<startVars, starts, flags, out, buffered, alreadyProcessed, skipped, lost>>

AllDoneLate == fileNo = Len(Files) + 2

\* for (const auto &inputFilename : inputFilenames) is over.
AllDone == fileNo = Len(Files) + 1

\* The compressor's end, which may fail, and fclose()
Finish ==
    /\ Working /\ AllDone
    /\ \/ Exit("success") /\ out' = out \o buffered
       \/ MayFail /\ compress /\ Exit("failure") /\ UNCHANGED out
    /\ buffered' = <<>>
    /\ UNCHANGED <<prog, cmd, stored, number, output, answer, uri, serving,
                   starts, flags, ready, alreadyProcessed, fileNo, reader, skipped, lost>>

\* The process is killed.
Kill ==
    /\ Working /\ starts < MaxStarts
    /\ Exit("crash")
    /\ buffered' = <<>>
    /\ UNCHANGED <<prog, cmd, stored, number, output, answer, uri, serving, out,
                   starts, flags, ready, alreadyProcessed, fileNo, reader, skipped, lost>>

\* The extractor is started again, after whatever happened.
StartAgain ==
    /\ pc = "exit" /\ prog = "extractor" /\ starts < MaxStarts
    /\ Start("extractor")
    /\ starts' = starts + 1
    /\ output' = IF output = "none" THEN "none" ELSE "old"
    /\ fileNo' = 0 /\ reader' = NoReader
    /\ UNCHANGED <<serving, flags, files, alreadyProcessed, skipped, lost>>

Extract == BeginExtraction \/ OpenFile \/ WritePassword \/ NoteReady \/ Finish

Step == (StartUp /\ UNCHANGED extractVars) \/ Extract

Next ==
    \/ Step \/ (TestLoad /\ UNCHANGED extractVars) \/ Flush \/ ReadFails \/ WritesNothing \/ Kill
    \/ StartAgain

\* A program that was started runs, unless it waits for its user; nobody has to
\* start one.
Spec == Init /\ [][Next]_vars /\ WF_vars(Step /\ ~Waiting)

-----------------------------------------------------------------------------
(* Properties                                                              *)

\* The password of a line, said by what a user:password line looks like, and
\* those of a file
Line(line) ==
    LET s == SelectSeq(line, LAMBDA t : t # "\r")
        at == {i \in 1..Len(s) : s[i] = ":"}
    IN IF line = <<>> \/ \E i \in 1..Len(line) : line[i] \in LongWords THEN <<>>
       ELSE IF at = {} THEN s ELSE SubSeq(s, Min(at) + 1, Len(s))
Passwords(f) == [k \in 1..Len(Contents[f]) |-> Line(Contents[f][k])]

\* The passwords of the files before number n that this run did not skip, in
\* the order of the scan
Parts(n) ==
    [i \in 1..(n - 1) |->
       IF Files[i] \in alreadyProcessed \cup skipped THEN <<>> ELSE Passwords(Files[i])]
Wanted(n) == FlattenSeq(Parts(n))
SameText(a, b) ==
    Len(a) = Len(b) /\ \A i \in 1..Len(a) : a[i] \in Written(b[i])

\* A run that got to its end has written the passwords of every file it did
\* not skip, in order, each line once: all of them on disk, though perhaps
\* mangled.  After a restart that is all there is in the output: what
\* an earlier run wrote is gone, although .ready makes this one skip it.
ExtractsAll ==
    pc = "exit" /\ prog = "extractor" /\ fileNo = Len(Files) + 1 /\ exit = "success" /\ ~lost =>
      SameText(out, Wanted(fileNo))

\* An extraction ends, with or without work, unless the user is asked and does
\* not answer, or a file cannot be read to its end.
ExtractionEnds ==
    (prog = "extractor") ~> (pc = "exit" \/ (pc = "ask" /\ output = "old") \/ reader = Broken)

=============================================================================
