---------------------------- MODULE CommandLine -----------------------------
(***************************************************************************)
(* What the programs do before they work: main() of each of them up to the *)
(* point where it opens its output or starts its threads.  They read their *)
(* options with boost::program_options, and differ in what they do when    *)
(* that fails: some return, others print the error and go on with the      *)
(* options that were stored before it, and without any default.            *)
(*                                                                         *)
(* po::parse_command_line throws before anything is stored ("syntax");     *)
(* po::store throws at the first option whose value is bad or which is     *)
(* there twice, and has stored the ones before it ("value").               *)
(***************************************************************************)
EXTENDS URI

CONSTANTS Addresses,  \* what --address may be: groups of the expression
          IPHosts,    \* the hosts of them that are IP addresses
          Numbers,    \* what a number on the command line may be
          Garbage     \* what an int that was never written to may hold

\* The expression leaves the question mark to what follows the path.
ASSUME CommandLineAssumption ==
    /\ Numbers \subseteq Int /\ Garbage \subseteq Int
    /\ \A a \in Addresses :
         a.matched => a.path \in Seq(STRING) /\ \A i \in 1..Len(a.path) : a.path[i] # "?"

(* The command line of each program: what it does after an error in it, the *)
(* options that make it print something and return, the mandatory ones (one *)
(* of each set), the default of its number (0: it has none), and the steps  *)
(* of main() after the options are read, in its order.                      *)

Cli(onError, info, mandatory, default, steps) ==
    [onError |-> onError, info |-> info, mandatory |-> mandatory, default |-> default, steps |-> steps]

\* There is an option --input, too, and nobody looks at it.
ConverterCli ==
    Cli("continue", {"help"}, {{"src"}, {"dst"}}, 4, <<"info", "correct", "scan", "check">>)

MergerCli ==
    Cli("return", {"help", "warranty"}, {{"src", "input"}, {"output"}}, 50,
        <<"info", "checkInput", "scan", "check", "ask", "tmp", "cut">>)

\* The input is scanned from its first record to its last before the output is
\* opened.
IndexCli ==
    Cli("continue", {"help", "warranty", "license"}, {{"input"}, {"output"}}, 24,
        <<"info", "check", "input", "cut">>)

ExtractorCli ==
    Cli("continue", {"help", "warranty", "license"}, {{"src"}, {"output"}}, 0,
        <<"info", "check", "ask", "scan", "cut">>)

TestSetCli ==
    Cli("continue", {"help", "warranty", "license"}, {{"input"}, {"output"}}, 20000,
        <<"info", "check", "input", "divide", "cut">>)

BenchmarkCli ==
    Cli("continue", {"help", "warranty", "license"}, {{"input"}, {"test-set"}}, 5,
        <<"info", "algorithm", "check", "input", "correct">>)

\* The server and the load test have --warranty and --license, and do nothing
\* about them.
ServerCli ==
    Cli("return", {"help"}, {{"input"}}, 64, <<"info", "check", "correct", "address", "input">>)

LoadTestCli ==
    Cli("return", {"help"}, {{"input"}}, 64, <<"info", "check", "correct", "address", "input">>)

\* A missing input is noticed by file_size(), when the output is open.
MarkovGeneratorCli ==
    Cli("return", {"help"}, {{"input"}, {"output"}}, 0, <<"info", "check", "cut", "input">>)

\* There are --help and --warranty, and nobody looks at them.
LookupCli == Cli("return", {}, {{"input"}}, 0, <<"check", "input">>)

\* These two count their arguments.
MarkovLookupCli == Cli("cannot", {}, {{"input"}}, 0, <<"check">>)

\* Both files are open before be2le looks whether they are.
Be2LeCli == Cli("cannot", {}, {{"input"}, {"output"}}, 0, <<"check", "cut", "input">>)

Main ==
    [converter |-> ConverterCli, merger |-> MergerCli, index |-> IndexCli, extractor |-> ExtractorCli,
     testset |-> TestSetCli, benchmark |-> BenchmarkCli, server |-> ServerCli, loadtest |-> LoadTestCli,
     markovGenerator |-> MarkovGeneratorCli, markovLookup |-> MarkovLookupCli, lookup |-> LookupCli,
     be2le |-> Be2LeCli]

Programs == DOMAIN Main
Info(p) == Main[p].info
Mandatory(p) == Main[p].mandatory
Options(p) ==
    UNION Mandatory(p) \cup (IF Main[p].onError = "cannot" THEN {} ELSE {"help", "warranty"})
    \cup (IF Main[p].default = 0 THEN {} ELSE {"number"})

VARIABLES
    prog,       \* the program
    cmd,        \* its command line
    pc,         \* "parse", the steps, "work", or "exit"
    todo,       \* the steps that are left
    stored,     \* vm: the options in effect
    number,     \* numThreads, numWorkers, bits, N, nRuns, maxFilesAtOnce
    output,     \* the output file: "none", "old", "new" or "overwritten"
    answer,     \* to the question whether to overwrite it: "y", "n", or "none"
    exit,       \* "", "success", "failure", or "crash" for an exception
    uri,        \* the address of server or load test
    serving     \* the address of a server that runs meanwhile, or NoMatch

startVars == <<prog, cmd, pc, todo, stored, number, output, answer, exit, uri, serving>>

CommandLines(p) ==
    [given : SUBSET Options(p),
     error : IF Main[p].onError = "cannot" THEN {"none"} ELSE {"none", "syntax", "value"},
     number : IF Main[p].default = 0 THEN {0} ELSE Numbers,
     address : IF p \in {"server", "loadtest"} THEN Addresses ELSE {NoMatch}]

\* A program is started.
Start(p) ==
    /\ prog' = p /\ cmd' \in CommandLines(p)
    /\ pc' = "parse" /\ todo' = Main[p].steps /\ stored' = {} /\ number' = 0
    /\ exit' = "" /\ uri' = NoMatch /\ answer' = ""

StartInit ==
    /\ prog \in Programs /\ cmd \in CommandLines(prog)
    /\ pc = "parse" /\ todo = Main[prog].steps /\ stored = {} /\ number = 0
    /\ output \in {"none", "old"} /\ exit = "" /\ answer = "" /\ uri = NoMatch /\ serving = NoMatch

Exit(code) == pc' = "exit" /\ exit' = code /\ todo' = <<>>

\* To the next step, or to work.
GoOn ==
    /\ pc' = IF todo = <<>> THEN "work" ELSE Head(todo)
    /\ todo' = IF todo = <<>> THEN <<>> ELSE Tail(todo)
    /\ UNCHANGED exit

\* po::store, po::notify.  What comes after a bad value is not stored, and no
\* default either; nRuns and the strings have a value already.
ParseOptions ==
    /\ pc = "parse"
    /\ \/ /\ cmd.error # "none" /\ Main[prog].onError = "return"
          /\ Exit("failure")
          /\ UNCHANGED <<stored, number>>
       \/ /\ cmd.error = "none" \/ Main[prog].onError = "continue"
          /\ stored' \in CASE cmd.error = "none" -> {cmd.given}
                           [] cmd.error = "syntax" -> {{}}
                           [] cmd.error = "value" -> SUBSET cmd.given
          /\ number' \in IF "number" \in stored' THEN {cmd.number}
                         ELSE IF cmd.error = "none" \/ prog = "benchmark" THEN {Main[prog].default}
                         ELSE Garbage
          /\ GoOn
    /\ UNCHANGED <<prog, cmd, output, answer, uri, serving>>

\* --help, --warranty, --license
ShowInfo ==
    /\ pc = "info"
    /\ \/ stored \cap Info(prog) # {} /\ Exit("success")
       \/ stored \cap Info(prog) = {} /\ GoOn
    /\ UNCHANGED <<prog, cmd, stored, number, output, answer, uri, serving>>

MissingIgnored(clauses) == TRUE

\* The options are there.
NoneMissing(clauses) == \A clause \in clauses : clause \cap stored # {}

\* usage(), and two programs think that a success.  The merger looks for its
\* inputs first.
CheckOptions ==
    /\ pc \in {"checkInput", "check"}
    /\ LET ok == NoneMissing(IF pc = "check" THEN Mandatory(prog) ELSE {{"src", "input"}})
       IN \/ ok /\ GoOn
          \/ ~ok /\ Exit(IF prog \in {"extractor", "testset"} THEN "success" ELSE "failure")
    /\ UNCHANGED <<prog, cmd, stored, number, output, answer, uri, serving>>

\* A number that cannot be worked with; the converter's is unsigned.
Corrected(n) ==
    IF n = 0 \/ (n < 0 /\ prog # "converter") THEN Main[prog].default ELSE n

CorrectNumber ==
    /\ pc = "correct"
    /\ number' = Corrected(number)
    /\ GoOn
    /\ UNCHANGED <<prog, cmd, stored, output, answer, uri, serving>>

\* size / N
DivideByNumber ==
    /\ pc = "divide"
    /\ \/ number = 0 /\ Exit("crash")
       \/ number # 0 /\ GoOn
    /\ UNCHANGED <<prog, cmd, stored, number, output, answer, uri, serving>>

\* recursive_directory_iterator: the directory has files, or not, or it does
\* not exist; the converter and the merger look only if they were given one.
ScanDirectory ==
    /\ pc = "scan"
    /\ \/ ("src" \in stored \/ prog = "merger") /\ GoOn
       \/ prog # "merger" /\ Exit("failure")
       \/ "src" \in stored /\ Exit("crash")
    /\ UNCHANGED <<prog, cmd, stored, number, output, answer, uri, serving>>

\* The name of the algorithm is right, the working directory can be created.
CheckOther ==
    /\ pc \in {"algorithm", "tmp"}
    /\ GoOn \/ Exit("failure")
    /\ UNCHANGED <<prog, cmd, stored, number, output, answer, uri, serving>>

\* The input file is there, or not: file_size() throws, the benchmark looks
\* first, the server catches, and be2le is ready then.  The index builder reads
\* a file that is not there for ever, and has no memory for too many bits.
OpenInput ==
    /\ pc = "input"
    /\ \/ GoOn
       \/ Exit(CASE prog \in {"benchmark", "server", "loadtest"} -> "failure"
                [] prog = "be2le" -> "success"
                [] OTHER -> "crash")
    /\ UNCHANGED <<prog, cmd, stored, number, output, answer, uri, serving>>

AskIgnored(ch) == TRUE

\* An existing output may be overwritten.
MayOverwrite(ch) == output # "old" \/ ch = "y"

\* "Do you want to overwrite it?"  If there is nothing to read, the variable
\* for the answer is left as it is, and nobody has written to it before.
AskToOverwrite ==
    /\ pc = "ask"
    /\ \E ch \in {"y", "n", "none"} :
         /\ answer' = IF output = "old" THEN ch ELSE answer
         /\ \/ (MayOverwrite(ch) \/ ch = "none") /\ GoOn
            \/ ~MayOverwrite(ch) /\ Exit(IF prog = "merger" THEN "success" ELSE "failure")
    /\ UNCHANGED <<prog, cmd, stored, number, output, uri, serving>>

\* The output is opened and truncated, or it cannot be.  The index builder and
\* the Markov generator do not look; the merger's is opened by its last merge,
\* if it comes to that.
CutOutput ==
    /\ pc = "cut"
    /\ \/ output' = (IF output = "none" THEN "new" ELSE "overwritten") /\ GoOn
       \/ /\ UNCHANGED output
          /\ \/ prog \in {"index", "merger", "markovGenerator"} /\ GoOn
             \/ prog \in {"extractor", "testset"} /\ Exit("failure")
             \/ prog = "be2le" /\ Exit("success")
    /\ UNCHANGED <<prog, cmd, stored, number, answer, uri, serving>>

\* URI uri(address), which may throw.  The server's make_address() throws, too,
\* if the host is no IP address, and so does the acceptor if it cannot listen
\* there; the load test's workers try to connect to whatever it is.
ParseAddress ==
    /\ pc = "address"
    /\ \/ /\ ~ParseThrows(cmd.address)
          /\ uri' = Parse(cmd.address)
          /\ prog = "server" => uri'.host \in IPHosts
          /\ GoOn
       \/ /\ prog = "server" \/ ParseThrows(cmd.address)
          /\ Exit("failure")
          /\ UNCHANGED uri
    /\ UNCHANGED <<prog, cmd, stored, number, output, answer, serving>>

\* A user has been asked and need not answer; the index builder reads, perhaps
\* for ever.
Waiting == (pc = "ask" /\ output = "old") \/ (pc = "input" /\ prog = "index")

StartUp ==
    \/ ParseOptions \/ ShowInfo \/ CheckOptions \/ CorrectNumber \/ DivideByNumber
    \/ ScanDirectory \/ CheckOther \/ OpenInput \/ AskToOverwrite \/ CutOutput \/ ParseAddress

\* A server runs; somebody starts a load test.
TestLoad ==
    /\ pc = "work" /\ prog = "server"
    /\ serving' = uri
    /\ Start("loadtest")
    /\ UNCHANGED output

-----------------------------------------------------------------------------
(* Requests: what the load test asks for, and what the server makes of it. *)

\* mReq.target(): a hash is the word "md5".
Target(u) == u.path \o <<"?", "hash", "=", "md5">>

RouteWithoutBase(base, target) ==
    LET t == ParseTarget(target)
    IN IF t.path = <<"/", "lookup">> /\ <<"hash">> \in DOMAIN t.query THEN t.query[<<"hash">>]
       ELSE IF t.path = <<"/", "info">> THEN <<"info">> ELSE <<"not found">>

\* sendResponse(): what is looked up, or what else is answered
Route(base, target) ==
    LET t == ParseTarget(target)
    IN IF t.path = base \o <<"/", "lookup">> /\ <<"hash">> \in DOMAIN t.query
       THEN t.query[<<"hash">>]
       ELSE IF t.path = base \o <<"/", "info">> THEN <<"info">> ELSE <<"not found">>

-----------------------------------------------------------------------------
(* Properties                                                              *)

\* No program works without its mandatory options, although half of them go on
\* after an error in the command line with whatever was stored before it.
\* Whatever number is typed, or left in memory after an error, nobody divides by
\* zero threads or records, makes no worker or does no run; the index builder
\* and the merger take what was typed, and only the former may come to work
\* with an int nobody has written to, after a bad value.  A program that was
\* asked for help does not work instead, unless it is pwned-lookup-cli or met a
\* bad value before.
StartsComplete ==
    pc = "work" =>
      /\ \A clause \in Mandatory(prog) : clause \cap cmd.given # {}
      /\ cmd.error # "syntax"
      /\ prog \in {"converter", "testset"} => number # 0
      /\ prog \in {"server", "loadtest", "benchmark"} => number > 0
      /\ prog = "merger" \/ (prog = "index" /\ cmd.error = "none") =>
           number = IF "number" \in cmd.given THEN cmd.number ELSE Main[prog].default
      /\ "help" \in cmd.given => cmd.error = "value" \/ prog = "lookup"

\* A file that was there is overwritten only by a program that was given all its
\* mandatory options; by the password extractor and the merger only after the
\* user was asked and did not say "n", or nothing could be read; by the index
\* builder and the test set extractor only when they have got through their
\* input.  The Markov generator and be2le find out too late that they have none.
OverwritesKnowingly ==
    output = "overwritten" =>
      /\ \A clause \in Mandatory(prog) : clause \cap cmd.given # {}
      /\ prog \in {"extractor", "merger"} => answer \in {"y", "none"}
      /\ prog \in {"index", "testset"} => pc = "work"

\* A load test with the server's host and port as its address, and with /lookup
\* after the server's path, is understood by that server: it takes the hash from
\* the target, although one address is parsed by an expression and the other by
\* splitting.
RequestUnderstood ==
    pc = "work" /\ prog = "loadtest" /\ serving # NoMatch
    /\ uri.host = serving.host /\ uri.port = serving.port
    /\ uri.path = serving.path \o <<"/", "lookup">> =>
      Route(serving.path, Target(uri)) = <<"md5">>

=============================================================================
