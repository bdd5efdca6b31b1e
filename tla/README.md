# Verification of the #pwned tools

This directory holds TLA+ models of the #pwned tools: programs that convert
leaked password lists into sorted files of MD5 hashes with counts, merge those
files, build an index for the result and look hashes up in it, on the command
line or through an HTTP server.  Each module is translated from the C++ source;
`PROJECT.json` maps its definitions to source lines.

## The system

| Component | State | Operations | Talks to |
|---|---|---|---|
| `OperationQueue`, `Operation` (pwned-lib) | priority queue of operations, list of running ones, flags, threads, one mutex | add, execute, pause, resume, cancel, waitForFinished, reset | runs the converter's and the merger's operations; a keyboard thread calls pause, resume and cancel |
| `Semaphore` (pwned-lib) | a counter | wait, notify | throttles the queue |
| `UserPasswordReader` (pwned-lib) | stream, guessed separator, found encodings | the constructor's three looks at the stream, nextPassword, nextPasswordHash | feeds the converter and the password extractor |
| `ConvertOperation`, converter `main` | input stream, chunk in memory, destination directory | read a chunk, sort, choose a name, write | several run at once in one directory |
| `MergeOperation`, `MergerInput` | heap of inputs, current record, output | next, execute | one runs per chunk |
| merger `main` | list of files, intermediate files | chunk after chunk | queue, keyboard thread |
| pwned-index | table of offsets | one scan | its file is read by the inspector |
| `PasswordInspector` (pwned-lib) | two streams with their error bits | binsearch, smart_binsearch, lookup | the server, pwned-lookup-cli, benchmark and test set extractor |
| pwned-lookup-cli, benchmark, test set extractor | inspector, test set, counters | a lookup per line; drawing a set; runs over a set | the inspector, of which the benchmark makes a new one per run |
| `HttpWorker`, server `main` | socket, buffer, parser, response, timer | asynchronous handlers | clients; an inspector per worker |
| `URI` (pwned-server) | the parts of an address | parse, parseTarget | server and load test parse addresses with it, the server its targets |
| load test client | per worker: stream with its deadline, times, round trips; a progress timer | asynchronous handlers, report | a server; the workers share an io_context |
| password extractor | output stream, compressor, `.ready` list | one file after the other; restart | its own earlier runs, through `.ready` and the output file |
| `markov::Chain`, `markov::Node` (pwned-lib) | counts, probabilities | train, update, saveBinary, loadBinary, totalProbability | pwned-markov-generator writes the file that pwned-markov-lookup loads |
| `main()` of every program up to its work | parsed options | parse, check, open, ask | the user |
| web page, collectors | | | not modelled, see below |

What is hard in it: the queue mixes a mutex, flags read without it and condition
variables waited on without a predicate; converter operations race for file
names; the merge and the searches live on boundary cases (empty input, exhausted
input, last record, last bucket); the streams of an inspector keep their error
bits from one lookup to the next; the reader rewinds its stream several times
before the first password; a worker's timer races its socket handlers,
on several threads and without a strand; a load test worker has to end although
nobody answers; a Markov file is read back field by field and used even if that
failed; the merger asks for the size of files late, and some are gone by then;
an extraction may be killed at any moment and is started again; a stream that
breaks off never reaches the end that the loops wait for; the merger's destination may
be one of its inputs; and half of the programs go on after an error in their command
line.  `hazards` in
`PROJECT.json` lists these places line by line with the properties that watch
them.

## The modules

| Module | Models | Actions and the code they stand for |
|---|---|---|
| `OperationQueue` | operationqueue.hpp, operation.cpp, semaphore.hpp and both `main()`s around them | threads main, exeThread, keyboard and one per operation, each with a program counter.  Critical sections that cannot block are one step guarded by `mtx = "free"`; `cancel()`, which blocks inside its critical section, is taken apart (`CancelSignal`, `CancelWait`, ...), as is `pause()`, which walks `runningOps` without the lock.  A wait on a condition variable is two steps (about to wait, waiting), so that a notification can be lost. |
| `PasswordInspector` | passwordinspector.cpp | one step per read of the index or data file, `dataOk` and `indexOk` are the streams' error bits, which outlive a lookup |
| `IndexBuilder` | index.cpp | `Scan` is one turn of the loop, `Finish` the write after it |
| `Lookup` | pwned-lookup-cli.cpp, benchmark.cpp, test-set-extractor.cpp, and the composition | an instance of `IndexBuilder` writes the index, then the steps of `PasswordInspector` read it: one lookup after the other with one inspector, or a test set that is drawn hash by hash and run `NumRuns` times, each time with a new inspector |
| `UserPasswordReader` | userpasswordreader.cpp, decodeHex of util.cpp, fromHex of hash.cpp | operators, no state: the constructor's looks at the first lines, each followed by a rewind, and what a line gives; a line is a sequence of tokens |
| `Converter` | convertoperation.cpp, the memory limit of pwned-converter-cli.cpp | reading through `UserPasswordReader`, sorting, looking for a name (`Exists`, one look at the directory each), `Open` and `Write` are separate steps of concurrent operations that hold one of `Capacity` permits, which is `hardware_concurrency()` and not `--threads`.  A read may break off: the reader is `bad` from then on and never at its end |
| `Merge` | mergeoperation.cpp, mergerinput.hpp | `Turn` is one turn of the loop in `execute()` with its call of `next()`; the heap is the set of its inputs and the one on top, so that reading in place without re-ordering is visible |
| `SortedUnion` | what a merge promises | writes the hashes of a set in ascending order, or stops early; `MergeProofs` maps `Merge` to it |
| `MergerMain` | pwned-merger-cli.cpp | the loop over chunks: `Chunk`, `MergeEnds`, `Requeue`, `Finish`; a file is described by the inputs it holds completely.  Sizes are known for the files that have been compared while sorting only, and are asked for when needed; `Vanish` removes an input meanwhile.  The destination may be an input: `OpenTarget` then empties what the chunk, if it is in it (`ReadsItself`), has opened already |
| `HttpWorker` | httpworker.cpp, pwned-server.cpp | operations end (`ReadDone`) before their handlers run (`ReadHandler`); the timer's handler is three steps, since with more than one thread it overlaps with others |
| `URI` | uri.cpp | `Parse` and `ParseTarget` on sequences of tokens |
| `LoadTest` | httpclientworker.cpp, loadtest.cpp | one action per handler; `Fail` is the end of an operation with an error, `Timeout` the one by the stream's deadline; `Report` adds up after `ioc.run()` has returned in every thread |
| `CommandLine` | the twelve `main()`s up to their work, the target of the load test and the server's routing | a record per program with what its options are, what an error in parsing does, what it checks, opens and asks; `Main` goes through it.  After a bad value any part of the options may have been stored before it.  A variable that no option was stored to has any value of `Garbage`; a question may be answered with yes, with no, or not be readable, and then counts as either |
| `PasswordExtractor` | pwned-password-extractor.cpp | extends `CommandLine` with the work of one program: `.ready`, reading, with errors (`Broken`), a buffered, perhaps compressed output, `Kill` at any moment and a restart |
| `MarkovChain` | markovchain.hpp, markovnode.hpp, the generator's `main()` | `Train`, `Update`, `SaveBinary`; `Cut`, `Swap`, `Flip` and `Lose` are what may happen to the file; then one step per field that `loadBinary()` reads.  A probability is an exact fraction |

The `MC...` modules give the constants values for TLC; `...Proofs` modules hold
the theorems.  Operators that directly precede a definition and bear its name
with a suffix (`PoppedX` beside `Popped`) are faulty variants of it, used to see
that the properties notice the fault; no specification uses them.

Hashes are natural numbers with their order, records are pairs of hash and
count, file offsets are numbers in steps of `Size`.  Clients of the server,
asio's operations and spurious wakeups are modelled from how the code uses them
and marked external in the map.

## The runs

| Run | Shows | Bounds |
|---|---|---|
| `queue_converter` | `LargestFirst`, `NoWorkLost`, `OnlyPauseCrashes`, `LeftAloneEnds` | 3 files of 2 sizes, 2 permits, 2 key presses: an operation waits for a permit while two run, and a pause can be followed by a resume or a quit |
| `queue_merger` | `Ownership`, `CancelTouchesLiveOps`, `PermitConservation`, `WaitForFinishedDrains` | 2 chunks on one queue, 2 key presses, spurious wakeups, throwing operations |
| `queue_quit_hangs` | violation of `QuitEnds` | 2 files, q once |
| `lookup` | `LookupSound`, `LookupComplete`, `OnlyBeyondBreaks`, `IndexAgrees`, `BenchmarkTruthful`, `CoveredReturns`, `ProgramsEnd` | every file of 1 to 6 records over 6 hashes in 3 buckets of 2, so that a bucket may be full, half full or empty, first or last; any sequence of lookups, plain, indexed and smart; sets of 1 to 3 hashes, 2 runs |
| `inspector_spoiled` | violation of `LookupExact` | the same search, smaller |
| `merge` | `CountsBounded`, `ImplementsUnion`, `Terminates` | all combinations of 3 sorted files over 4 hashes, empty ones included; sums modulo 8, so that some wrap around |
| `merger` | `EveryInputOnce`, `NoSilentGap`, `Terminates` | 4 files in every order, the destination another file or one of them, so that its turn comes in the last chunk or in an earlier one; 0 to 4 at once, at most 5 intermediate files: several rounds, and rounds that do not shorten the list |
| `converter` | `EveryPasswordConverted`, `RamRespected`, `ConversionEnds` | 3 operations on 2 permits for 1 or 2 threads, two with the same stem, one with a file that cannot be opened; lines with two separators, MD5 and hex words, too long, cut off and empty ones; 3 sets of options; memory for none, for four or for seven entries each, so that a file of five lines is split or not; a name taken beforehand, at most 3 names tried; read and write errors, cancellation |
| `http` | `AnswersOwn`, `DownOnlyLate`, `OnlyOverdueClosed`, `EveryoneServed` | 1 worker, 2 clients with 2 requests each, so that the worker is reused and a second request is read ahead; 1 and 2 threads |
| `markov` | `Frequencies`, `LoadExact`, `PartNeverLies` | up to 3 passwords of up to 3 of 2 symbols; sums modulo 4 instead of 2^32, so that they can overflow; one damage to the file |
| `load` | `BoundedOverrun`, `RuntimeCovers`, `Ends` | 2 workers, 3 seconds, deadlines of 2, name lookups of up to 4, which is longer than the test itself: a worker can make several requests, overrun its time in each operation, or not even have its address by then; an input with and without hashes |
| `programs` | `StartsComplete`, `OverwritesKnowingly`, `RequestUnderstood`, `ExtractsAll`, `ExtractionEnds` | all sets of options of all programs, with and without an error; seven addresses, one with a host that is no IP address, one with a port beyond `IntMax`; 2 files of 2 lines, a kill at any moment and a second start |

The bounds are named constants or set in the `.cfg` files.  Deadlock is checked
except where the system really may stop: `queue_converter` and `queue_quit_hangs`
(quitting may hang, which is the finding), the server, which idles when its
clients are gone, and `lookup` and `programs`, where nobody has to ask or to start a
program again.

### What the violations show

* `queue_quit_hangs`: `Operation::cancel()` waits for a notification without a
  predicate.  If the operation has already notified, was cancelled before it
  started, or is still queued, nobody notifies any more, and `cancel()` keeps the
  queue's mutex.  The converter prints "Q to quit".
* `inspector_spoiled`: looking up a hash above the last record sets the data
  stream's failbit.  Nothing clears it, and every later lookup reads nothing.

### Limits the passing properties state

Some properties hold under conditions that the code does not enforce; the
conditions are part of the properties or of the constants:

* `CoveredReturns`: an indexed lookup returns if a later bucket has records (or
  the bucket is the last).  Otherwise the search for the next key reads on for ever.
* `ProgramsEnd`: pwned-index ends if it could open the data file; a stream that
  could not be opened never reaches `eof()`.  A benchmark ends if it uses no index.
* `BenchmarkTruthful`: a set of absent hashes is right unless the stream failed
  while the set was drawn; from then on every hash looks absent.
* `EveryPasswordConverted`: without its two conditions it would be `ConvertsAll`, what
  the repository's README (line 14) says of the conversion, and that is not true of the
  code.  First, an output's name is made of the input's stem, and looked for before it
  is opened: the operations of `a/x.txt` and `b/x.txt`, which are in the run, can find
  the same name unused, and one truncates the chunk of the other.  The property says
  that nothing is lost as long as no operation has opened a file that was there
  (`overwrote`).  Second, the reader looks for encoded words on lines with the guessed
  separator only, so that it finds none in a list of passwords without user names,
  although the help texts of `--auto-md5` and `--auto-hex` say "if some are found"; the
  property is about options with which the readers find the encodings of their files
  (`FoundByReader`).  The reference for what a line stands for does not share the
  reader's condition: a file has encoded words if one of its lines has.
* `ConversionEnds`: for inputs that can be opened and read to their end, and with
  memory for an entry per operation.  Otherwise the loop turns for ever and keeps its
  permit; the property allows for the case that such operations hold all permits, and
  for operations that are still queued when the user quits.
* `RamRespected`: a bound per permit, each a thread's share and what one entry adds.
  The permits are `hardware_concurrency()`, whatever `--threads` is.  That the sum is no
  more than `--ram` (`RamPromised`, after the help text) is true of a queue with at most
  `--threads` permits only, and stated for that case; with one thread and two permits,
  as in the run, each operation may use all of `--ram`.
* `CountsBounded`: the counts of a merge are not exact.  The first record, and the
  last record of an exhausted input, are added again; the property bounds
  the error: never too low, and at most three times what it should be, as long as
  the sums do not wrap around.
* `ImplementsUnion`: for hashes; an empty input contributes the hash 0 of its
  buffer, which the abstract specification is given as part of its set.
* `EveryInputOnce`, `NoSilentGap`: for merges nobody quits, and for a destination that
  is not an input of the last chunk: `execute()` empties it when the constructor has
  opened it for reading, and what the stream had not buffered is gone.  As an input
  of an earlier chunk it is copied in time.  `reset()` clears the
  flag that tells `main()` of the cancellation, so a half-merged chunk counts as
  merged.  An input that vanishes after its size was read is left out silently, as
  `MergerInput::open()` does not tell.  A merge that *fails* leads to no gap:
  its target is missed when its size is asked for.
* `Terminates` of `MergerMain`: for at least two files at once; with 0 or 1 the
  list never gets shorter.  A last chunk that has its own destination as an input may
  read what it writes for ever (`Endless`).
* `DownOnlyLate`, `OnlyOverdueClosed`, `EveryoneServed`: for a single thread
  (`--threads 0`).  With two, the timer's handler can enclose the acceptance of the
  next connection and erase its deadline.  `EveryoneServed` also leaves out a server
  that is `down`: a request that has been read just before the timer closed
  the socket makes `remote_endpoint()` throw out of `ioc.run()`; `DownOnlyLate`
  says that nothing else takes it down.
* `Frequencies`, `PartNeverLies`: for sums below 2^32.  For a pair of symbols that
  was never trained, `at()` throws instead of giving 0; the properties allow that.
* `LoadExact`: for chains with nodes.  A chain without any is saved as nothing at
  all, and a file that cannot be opened loads as `OK` with an empty chain.
* `RuntimeCovers`: for workers that were not dropped between an answer and
  `restart()`; the answer then counts, but its time does not.
* `BoundedOverrun`: counts from the end of the worker's time or of its name lookup,
  whichever is later; a name lookup has no deadline.
* `OnlyPauseCrashes`: the wait in `Operation::cancel()` has no predicate.  If it
  returns by itself after a q, `cancel()` goes on and empties the queue while
  exeThread is about to pop; the property allows this crash where spurious wakeups
  are modelled (`Spurious`).
* `Ends`: for an input that is not empty; with an empty one a worker divides by zero.
* `StartsComplete`: converter, extractor, index builder, test set extractor and
  benchmark go on after a bad value with the options stored before it.  A `--help`
  behind it is not seen, and the index builder's number of bits is whatever was in
  memory; the property allows for both, and for pwned-lookup-cli's `--help`.
* `OverwritesKnowingly`: the Markov generator and be2le open, and so empty, their
  output before they find out that they have no input.  The extractor and the merger
  ask, but if nothing can be read, the variable for the answer was never written to
  and may be taken for a yes.
* `RequestUnderstood`: for an address with the server's host, port and path, and no
  more than the path: what a query of the load test's address does is not said.  The
  server's host has to be an IP address, or it does not start.
* `ExtractsAll`: for runs that reach their end and report success, and writes that
  are not lost.  Any password may be mangled, because the program uses the string
  after it is gone; the property says that no line is missing or there twice.  After a
  restart `.ready` makes the program skip what it did before, while the output
  that held it is truncated; the property says what is there then.
* `ExtractionEnds`: unless the user does not answer, or a file cannot be read to its
  end: the loop waits for `eof()`, which a stream that is `bad()` never reaches.

Where a property leaves out the very case of a hazard, the hazard's note in
`PROJECT.json` says so.

## Fairness

Every specification assumes weak fairness of the program's own threads: a thread
that can go on does.  In `Converter` each operation, a thread of its own, is fair;
in `MergerMain` it is `main()`, whose merges end unless they read what they write
(`Endless`); in `Lookup` and
`PasswordExtractor` it is the program that was started, as long as it does not wait
for its user or read a file that is not there for ever (`Waiting`), while nobody has
to start one, to ask, to kill it or to see its buffer flushed early.
In `HttpWorker` handlers that are queued are run, arriving
connections and requests are noticed and time passes.  In `LoadTest` `main()`, the
timer and the clock go on, the resolver answers and a deadline that has passed
ends its operation; no server has to answer.  `MarkovChain` has only safety
properties and assumes no fairness.  Nothing obliges a user to
press a key or to answer a question, a client to send, receive or leave, or a condition variable to wake
up by itself.

## Proofs

TLAPS checks these theorems for every value of the constants that satisfies the
`ASSUME` of the module.  TLC has checked every inductive invariant on the
instance of the run as well.

* `OperationQueueProofs`: `TypeCorrect`, `OwnershipHolds`, `CancelSafe`,
  `LargestFirstHolds`, `PermitsConserved`, `Drained`.  The inductive invariant adds
  to these properties which thread may be where: who holds `mtx` while `cancel()` is
  under way, that an operation `cancel()` still has to visit cannot leave
  `runningOps` because `finished()` needs `mtx`, and that exeThread exists only
  between `execute()` and the join.  Permits are counted with the cardinality
  theorems for finite sets.
  `CrashesConfined` and `WorkKept` rest on a second invariant, `QInv`, which follows
  the key q: until it is pressed `_isCancelled` is raised by `reset()` only, at a time
  when nothing is left to be cancelled, no operation is cancelled and an operation
  that has left `execute()` did its work; and what exeThread has seen in the queue
  is still there when it pops, because `cancel()` cannot get past an operation that
  is not running, unless it wakes up spuriously.
* `LookupProofs`, on the searches alone: `TypeCorrect`, `Soundness`, `Completeness`,
  `BreaksOnlyBeyond`, `Halving`.  The invariant says that the record of the sought
  hash, if there is one, lies within `lo..hi`, first as found in the index, then
  under every probe.
  On the programs: `IndexIsExact`, `BenchmarksTellTheTruth`, `ProgramsLookUpExactly`.
  The searches keep their invariant inside the programs.
  What is added: after m records pwned-index has for each bucket the offset of its
  first record among those m, or nothing, and the key that it writes once more
  at the end is the one that is there; a test set of existing hashes is spread over
  the file, so none of its lookups can spoil the stream, and one of absent hashes has
  none that is in the file, as long as the stream was good while it was drawn.
* `MergeProofs`: `Sorted`, `Lossless`, `NoInvention`.  The invariant says that the
  top of the heap has a minimal hash, that what was written is below the current
  record and the current record not above what is unread, and that each record of
  an input is unread, buffered, current or written.
  `Refinement`: every behaviour of `Merge` is one of `SortedUnion`.
  The abstract set is what the inputs hold (with 0 if one is empty), and its
  progress is what was written.  A turn writes a record or only adds to the current
  one, and then maps to a stutter.  That the record written is the least one
  not yet written follows from the invariants behind `Sorted`, `Lossless` and
  `NoInvention`, and from `ZeroKept`: the 0 of an empty input's buffer is queued,
  summed up or written.
  `CountsKept` (`CountsBounded`), for counts whose triple fits: its invariant adds to
  the above how far each input has been read of its file (`Places`), and that what
  the output and the current record count of a hash lies between what `next()` has
  returned of it once, and that with what it returned again of exhausted inputs and
  with the first record (`Counted`).  The sums over the inputs are a recursive function of the
  library, which is shown to exist and to change by what one input adds.
* `ConverterProofs`: `RamIsRespected` (`RamRespected`), for any numbers of threads,
  permits, operations and files.  The invariant says that an operation holds entries
  only between reading and writing a chunk, and no more than one above its share
  (`Share`), also when its read breaks off, and that no more operations run than there
  are permits (`Permits`).  With no more permits than threads the shares add up to `--ram`
  (lemma `RamIsPromised`); the code does not see to that.
* `MergerMainProofs`: `InputsMergedOnce`, `NoGapUnnoticed`, for any number of files, any
  limit and any destination, an input or not.  The invariant is about `Pending`, the
  list as it will be when the merge that has just ended is accounted for, since between
  the end of a merge and the update of the list the one on disk and the one in memory
  disagree: the files of `Pending` hold every input that has not vanished, or one of them
  is an intermediate file that was never written, and that one stops the program when
  its size is asked for; undisturbed, each input is held by exactly one of them.  A
  target is the destination exactly when the chunk is the whole list, and otherwise
  a name that is not on it.  `LastChunk` adds that the destination is opened by the last
  chunk only, so that until then an input of its name is what it was.
* `HttpWorkerProofs`: `AnswersTheirOwn` for any number of threads; `DownByTheLateOnly`
  and `ClosesOverdueOnly` (an action property) for a single one.  The first invariant
  says whose data buffer, parser and response hold while the socket is open: a
  worker that accepts has neither socket nor buffered data.  The second one says what
  a single thread adds: a timer's handler under way still sees the deadline it found,
  since no other handler can run between its steps.
* `LoadTestProofs`: `OverrunBounded`, `RuntimeIsCovering`, for any number of workers and
  any times.  The invariant follows a worker through its chain: how far the deadline
  of its operation may lie behind the last moment at which it may connect, one
  `ExpiresAfterSecs` more with each deadline that is set anew; and that its answered
  requests fit between its start and the request under way, or its last `restart()`.
  The reported runtime is the maximum of a finite set of measured times.
* `CommandLineProofs`: `StartedComplete`, `OverwrittenKnowingly`, for any numbers and
  anything left in memory, with the extractor killed and restarted any number of
  times.  The invariant says how far `main()` has come on the way that the program's
  record describes, and what each step behind it has made sure of; that the checks,
  and for index builder and test set extractor the input, come before the output is
  opened is read off the twelve records.
  `RequestsUnderstood`: once its address is parsed, a program has that of its command
  line (`AddressKnown`); the path of a match has no question mark, so splitting the
  target gives back the path, and the query as it was put together.  This needs what
  `Split` gives for a text with one separator or none, whatever else is in it.
  `ExtractedAll` (`ExtractsAll`): for any number of files, kills and starts.  Disk and
  buffer together are, up to mangling, what the files before the current one and the
  lines read of it hold (`SoFar`); the reader is somewhere in the current file, which
  is not one that is left out (`Reading`); and what could not be opened is behind
  (`Behind`), so that leaving out a file does not change what was to be written
  before.  Its hypothesis, `Colons`, is that the files are of user:password lines: the
  separator that the reader guessed is the colon, or no line has one.  A file for which
  the guess is wrong is read as the guess says, and the property, which is
  stated with the colon, would not hold.

Assumptions on the constants are those the code implies: times and limits are
natural numbers, a number from a command line is an integer, workers are finitely
many, names of different kinds differ, a path that the expression for addresses
matched has no question mark, a scan of a directory finds a file once, and the merger's
list has no file twice: one that `--input` names and `--src` finds again would be.

Several of these proofs need an induction over data: a sum over a set, the parts of a
sequence.  It is done with a least counterexample in the natural numbers (`NatSteps`)
and with sets of numbers or of subsets in place of a predicate; a recursive function is
first shown to exist, then to be unique.

Left to TLC:

* everything about liveness and fairness (`LeftAloneEnds`, `CoveredReturns`,
  `ProgramsEnd`, `Terminates`, `ConversionEnds`, `EveryoneServed`, `Ends`,
  `ExtractionEnds`), which the prover does not do;
* `EveryPasswordConverted`: it compares the reader with another description of a
  line, which looks for the separator in all lines and not in the first `NTries`, has
  digests of two bytes, and a file whose encodings all show; for every value of
  the constants it is not true, and what would have to be assumed is most of it;
* `Frequencies`, `LoadExact` and `PartNeverLies`: a probability is a fold over a
  password, the file a flattened chain in any order of its nodes.  The existence of
  the orders of `std::sort` alone would need an induction of its own.

## Not modelled

* The web page and the collectors, a shell script around curl: no state of the programs.
* The generated root certificates of the load test: data.
* util.cpp but for the hex conversion: formatting, the terminal's echo, queries of
  the memory and UUIDs.
* MD5 itself and the byte order that be2le changes: a hash is a number with its order.
* Which strings the URI's regular expression matches: the match is an input.
* A Markov chain's `clear()`, random symbols and JSON output, which no program
  uses or which are output only, and the rounding of its doubles.
* Disk-full errors while writing, except in the password extractor; read errors in
  other programs than converter and password extractor; the progress
  bar, measurements and all output text.

## Plan

1. The semaphore with its mutex and condition variable, refining the counter that
   `OperationQueue` uses.
2. `MergerMain` with `Merge` inside: one behaviour from the inputs' records to
   those of the destination.
3. Proofs: how a Markov file is read back field by field, and that no two operations
   of the converter write to the same file when no stem begins with another, which would
   make the first condition of `EveryPasswordConverted` one on the inputs.
