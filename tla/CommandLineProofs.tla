------------------------- MODULE CommandLineProofs --------------------------
(***************************************************************************)
(* The starts of all programs, for any numbers, addresses and remains in   *)
(* memory, and with the password extractor killed and restarted any number *)
(* of times.  The invariant says how far main() has come on the way that   *)
(* its record describes, and what each step that it has behind it has      *)
(* made sure of.                                                           *)
(*                                                                         *)
(* Then two of the programs beyond their start: what the server takes out  *)
(* of the load test's requests, for any path, and what is on disk after    *)
(* an extraction, for any files.                                           *)
(***************************************************************************)
EXTENDS PasswordExtractor, FiniteSetTheorems, WellFoundedInduction, TLAPS

StepNames ==
    {"info", "checkInput", "check", "correct", "divide", "scan", "algorithm", "tmp", "input", "ask",
     "cut", "address"}

Steps == Main[prog].steps

\* How many of the steps main() has begun.
Begun == Len(Steps) - Len(todo)

\* main() has step s behind it.
Passed(s) ==
    \E i \in 1..Len(Steps) : Steps[i] = s /\ (i < Begun \/ pc = "work")

\* main() goes its way without detour.
OnTheWay ==
    /\ prog \in Programs /\ todo \in Seq(StepNames)
    /\ pc # "exit" =>
         /\ Len(todo) <= Len(Steps)
         /\ \A i \in 1..Len(todo) : todo[i] = Steps[Begun + i]
         /\ \/ pc = "parse" /\ Begun = 0
            \/ Begun > 0 /\ pc = Steps[Begun]
            \/ pc = "work" /\ todo = <<>>

\* What is stored are the options given, some of them after a bad value, or
\* nothing after a bad syntax; an int has some value, and one that nobody
\* corrects the value it was given.
Parsed ==
    /\ number \in Int
    /\ cmd \in CommandLines(prog)
    /\ pc \notin {"parse", "exit"} =>
         /\ stored \subseteq cmd.given
         /\ cmd.error = "syntax" => stored = {}
         /\ cmd.error = "none" => stored = cmd.given
         /\ Main[prog].onError = "return" => cmd.error = "none"
         /\ cmd.error = "none" /\ prog \in {"index", "merger"} =>
              number = IF "number" \in cmd.given THEN cmd.number ELSE Main[prog].default

\* The options that must be there are.
Given == \A clause \in Mandatory(prog) : clause \cap cmd.given # {}

\* What the steps behind main() have made sure of.
Assured ==
    pc # "exit" =>
      /\ Passed("info") => stored \cap Info(prog) = {}
      /\ Passed("check") => \A clause \in Mandatory(prog) : clause \cap stored # {}
      /\ Passed("correct") => number # 0 /\ (prog # "converter" => number > 0)
      /\ Passed("divide") => number # 0
      /\ Passed("ask") => (output = "old" => answer \in {"y", "none"})

\* The programs that open one output.
Writers == {"merger", "index", "extractor", "testset", "markovGenerator", "be2le"}

\* Until the output is opened, it is what it was, and only those that open one
\* overwrite it.
Untouched ==
    /\ output \in {"none", "old", "new", "overwritten"}
    /\ pc # "exit" /\ ~Passed("cut") => output \in {"none", "old"}
    /\ output = "overwritten" => prog \in Writers

CInv == OnTheWay /\ Parsed /\ Assured /\ Untouched /\ OverwritesKnowingly
-----------------------------------------------------------------------------
(* What the records of the programs say.                                   *)

LEMMA ProgramNames ==
    Programs = {"converter", "merger", "index", "extractor", "testset", "benchmark", "server",
                "loadtest", "markovGenerator", "markovLookup", "lookup", "be2le"}
BY DEF Programs, Main

LEMMA StepLists ==
    /\ Main["converter"].steps = <<"info", "correct", "scan", "check">>
    /\ Main["merger"].steps = <<"info", "checkInput", "scan", "check", "ask", "tmp", "cut">>
    /\ Main["index"].steps = <<"info", "check", "input", "cut">>
    /\ Main["extractor"].steps = <<"info", "check", "ask", "scan", "cut">>
    /\ Main["testset"].steps = <<"info", "check", "input", "divide", "cut">>
    /\ Main["benchmark"].steps = <<"info", "algorithm", "check", "input", "correct">>
    /\ Main["server"].steps = <<"info", "check", "correct", "address", "input">>
    /\ Main["loadtest"].steps = <<"info", "check", "correct", "address", "input">>
    /\ Main["markovGenerator"].steps = <<"info", "check", "cut", "input">>
    /\ Main["markovLookup"].steps = <<"check">>
    /\ Main["lookup"].steps = <<"check", "input">>
    /\ Main["be2le"].steps = <<"check", "cut", "input">>
BY DEF Main, Cli, ConverterCli, MergerCli, IndexCli, ExtractorCli, TestSetCli, BenchmarkCli,
       ServerCli, LoadTestCli, MarkovGeneratorCli, MarkovLookupCli, LookupCli, Be2LeCli

LEMMA StepFacts ==
    ASSUME NEW p \in Programs
    PROVE  LET s == Main[p].steps
           IN /\ s \in Seq(StepNames) /\ Len(s) \in Nat \ {0}
              /\ \A i, j \in 1..Len(s) : s[i] = s[j] => i = j
<1>1. CASE p = "converter"
  BY <1>1, StepLists DEF StepNames
<1>2. CASE p = "merger"
  BY <1>2, StepLists DEF StepNames
<1>3. CASE p = "index"
  BY <1>3, StepLists DEF StepNames
<1>4. CASE p = "extractor"
  BY <1>4, StepLists DEF StepNames
<1>5. CASE p = "testset"
  BY <1>5, StepLists DEF StepNames
<1>6. CASE p = "benchmark"
  BY <1>6, StepLists DEF StepNames
<1>7. CASE p = "server"
  BY <1>7, StepLists DEF StepNames
<1>8. CASE p = "loadtest"
  BY <1>8, StepLists DEF StepNames
<1>9. CASE p = "markovGenerator"
  BY <1>9, StepLists DEF StepNames
<1>10. CASE p = "markovLookup"
  BY <1>10, StepLists DEF StepNames
<1>11. CASE p = "lookup"
  BY <1>11, StepLists DEF StepNames
<1>12. CASE p = "be2le"
  BY <1>12, StepLists DEF StepNames
<1> QED
  BY <1>1, <1>2, <1>3, <1>4, <1>5, <1>6, <1>7, <1>8, <1>9, <1>10, <1>11, <1>12, ProgramNames

\* What the programs with a number have as its default, and who has nothing to
\* show.
LEMMA OtherFields ==
    /\ \A p \in Programs : Main[p].default \in Nat /\ Mandatory(p) # {}
    /\ Main["converter"].default = 4 /\ Main["benchmark"].default = 5
    /\ Main["server"].default = 64 /\ Main["loadtest"].default = 64
    /\ Info("markovLookup") = {} /\ Info("lookup") = {} /\ Info("be2le") = {}
    /\ Main["merger"].onError = "return"
    /\ "help" \notin Options("markovLookup") \cup Options("be2le")
    /\ \A p \in Programs \ {"markovLookup", "lookup", "be2le"} : "help" \in Info(p)
<1> USE ProgramNames DEF Mandatory, Info, Main, Cli, ConverterCli, MergerCli, IndexCli, ExtractorCli,
        TestSetCli, BenchmarkCli, ServerCli, LoadTestCli, MarkovGeneratorCli, MarkovLookupCli,
        LookupCli, Be2LeCli
<1>1. \A p \in Programs : Main[p].default \in Nat
  OBVIOUS
<1>2. \A p \in Programs : \/ {"src"} \in Mandatory(p) \/ {"input"} \in Mandatory(p)
                          \/ {"output"} \in Mandatory(p)
  OBVIOUS
<1>3. \A p \in Programs \ {"markovLookup", "lookup", "be2le"} : "help" \in Info(p)
  OBVIOUS
<1>4. "help" \notin Options("markovLookup") \cup Options("be2le")
  <2>1. /\ Main["markovLookup"].onError = "cannot" /\ Main["markovLookup"].default = 0
        /\ Mandatory("markovLookup") = {{"input"}}
    OBVIOUS
  <2>2. /\ Main["be2le"].onError = "cannot" /\ Main["be2le"].default = 0
        /\ Mandatory("be2le") = {{"input"}, {"output"}}
    OBVIOUS
  <2> QED
    BY ONLY <2>1, <2>2 DEF Options
<1> QED
  BY <1>1, <1>2, <1>3, <1>4

\* Does the program have this step?
Has(p, s) == \E i \in 1..Len(Main[p].steps) : Main[p].steps[i] = s

\* Every program checks its options and, if it has any other, its --help; those
\* that have a number to work with look at it, and those that correct it have a
\* default.
LEMMA ChecksAll ==
    ASSUME NEW p \in Programs
    PROVE  /\ Has(p, "check")
           /\ Has(p, "info") \/ Info(p) = {}
           /\ p = "testset" => Has(p, "divide")
           /\ p \in {"converter", "server", "loadtest", "benchmark"} <=> Has(p, "correct")
           /\ p \in Writers <=> Has(p, "cut")
<1> USE DEF Writers
<1>1. CASE p = "converter"
  <2>1. Len(Main[p].steps) = 4 /\ Main[p].steps[4] = "check" /\ Main[p].steps[1] = "info" /\ Main[p].steps[2] = "correct"
    BY <1>1, StepLists
  <2>2. \A i \in 1..4 : Main[p].steps[i] # "cut"
    BY <1>1, StepLists
  <2> QED
    BY <1>1, <2>1, <2>2, OtherFields DEF Has
<1>2. CASE p = "merger"
  <2>1. Len(Main[p].steps) = 7 /\ Main[p].steps[4] = "check" /\ Main[p].steps[1] = "info" /\ Main[p].steps[7] = "cut"
    BY <1>2, StepLists
  <2>2. \A i \in 1..7 : Main[p].steps[i] # "correct"
    BY <1>2, StepLists
  <2> QED
    BY <1>2, <2>1, <2>2, OtherFields DEF Has
<1>3. CASE p = "index"
  <2>1. Len(Main[p].steps) = 4 /\ Main[p].steps[2] = "check" /\ Main[p].steps[1] = "info" /\ Main[p].steps[4] = "cut"
    BY <1>3, StepLists
  <2>2. \A i \in 1..4 : Main[p].steps[i] # "correct"
    BY <1>3, StepLists
  <2> QED
    BY <1>3, <2>1, <2>2, OtherFields DEF Has
<1>4. CASE p = "extractor"
  <2>1. Len(Main[p].steps) = 5 /\ Main[p].steps[2] = "check" /\ Main[p].steps[1] = "info" /\ Main[p].steps[5] = "cut"
    BY <1>4, StepLists
  <2>2. \A i \in 1..5 : Main[p].steps[i] # "correct"
    BY <1>4, StepLists
  <2> QED
    BY <1>4, <2>1, <2>2, OtherFields DEF Has
<1>5. CASE p = "testset"
  <2>1. Len(Main[p].steps) = 5 /\ Main[p].steps[2] = "check" /\ Main[p].steps[1] = "info" /\ Main[p].steps[4] = "divide" /\ Main[p].steps[5] = "cut"
    BY <1>5, StepLists
  <2>2. \A i \in 1..5 : Main[p].steps[i] # "correct"
    BY <1>5, StepLists
  <2> QED
    BY <1>5, <2>1, <2>2, OtherFields DEF Has
<1>6. CASE p = "benchmark"
  <2>1. Len(Main[p].steps) = 5 /\ Main[p].steps[3] = "check" /\ Main[p].steps[1] = "info" /\ Main[p].steps[5] = "correct"
    BY <1>6, StepLists
  <2>2. \A i \in 1..5 : Main[p].steps[i] # "cut"
    BY <1>6, StepLists
  <2> QED
    BY <1>6, <2>1, <2>2, OtherFields DEF Has
<1>7. CASE p = "server"
  <2>1. Len(Main[p].steps) = 5 /\ Main[p].steps[2] = "check" /\ Main[p].steps[1] = "info" /\ Main[p].steps[3] = "correct"
    BY <1>7, StepLists
  <2>2. \A i \in 1..5 : Main[p].steps[i] # "cut"
    BY <1>7, StepLists
  <2> QED
    BY <1>7, <2>1, <2>2, OtherFields DEF Has
<1>8. CASE p = "loadtest"
  <2>1. Len(Main[p].steps) = 5 /\ Main[p].steps[2] = "check" /\ Main[p].steps[1] = "info" /\ Main[p].steps[3] = "correct"
    BY <1>8, StepLists
  <2>2. \A i \in 1..5 : Main[p].steps[i] # "cut"
    BY <1>8, StepLists
  <2> QED
    BY <1>8, <2>1, <2>2, OtherFields DEF Has
<1>9. CASE p = "markovGenerator"
  <2>1. Len(Main[p].steps) = 4 /\ Main[p].steps[2] = "check" /\ Main[p].steps[1] = "info" /\ Main[p].steps[3] = "cut"
    BY <1>9, StepLists
  <2>2. \A i \in 1..4 : Main[p].steps[i] # "correct"
    BY <1>9, StepLists
  <2> QED
    BY <1>9, <2>1, <2>2, OtherFields DEF Has
<1>10. CASE p = "markovLookup"
  <2>1. Len(Main[p].steps) = 1 /\ Main[p].steps[1] = "check"
    BY <1>10, StepLists
  <2>2. \A i \in 1..1 : Main[p].steps[i] # "correct" /\ Main[p].steps[i] # "cut"
    BY <1>10, StepLists
  <2> QED
    BY <1>10, <2>1, <2>2, OtherFields DEF Has
<1>11. CASE p = "lookup"
  <2>1. Len(Main[p].steps) = 2 /\ Main[p].steps[1] = "check"
    BY <1>11, StepLists
  <2>2. \A i \in 1..2 : Main[p].steps[i] # "correct" /\ Main[p].steps[i] # "cut"
    BY <1>11, StepLists
  <2> QED
    BY <1>11, <2>1, <2>2, OtherFields DEF Has
<1>12. CASE p = "be2le"
  <2>1. Len(Main[p].steps) = 3 /\ Main[p].steps[1] = "check" /\ Main[p].steps[2] = "cut"
    BY <1>12, StepLists
  <2>2. \A i \in 1..3 : Main[p].steps[i] # "correct"
    BY <1>12, StepLists
  <2> QED
    BY <1>12, <2>1, <2>2, OtherFields DEF Has
<1> QED
  BY <1>1, <1>2, <1>3, <1>4, <1>5, <1>6, <1>7, <1>8, <1>9, <1>10, <1>11, <1>12, ProgramNames

-----------------------------------------------------------------------------
(* A step that goes on, and one that ends the program.                     *)

LEMMA StepOn ==
    ASSUME OnTheWay, pc \notin {"exit", "work"}, GoOn, UNCHANGED prog
    PROVE  /\ OnTheWay' /\ pc' \notin {"exit", "parse"}
           /\ \A s : Passed(s)' => Passed(s) \/ s = pc
           /\ \A s : Passed(s) => Passed(s)'
           /\ \A s : s = pc /\ s # "parse" => Passed(s)'
<1> DEFINE n == Len(Steps)
           b == Begun
<1>1. prog \in Programs /\ todo \in Seq(StepNames) /\ Len(todo) \in Nat /\ Steps' = Steps
  BY DEF OnTheWay, Steps
<1>2. n \in Nat \ {0} /\ \A i \in 1..n : Steps[i] \in StepNames
  BY <1>1, StepFacts DEF Steps
<1>3. b = n - Len(todo) /\ b \in 0..n /\ Begun' = n - Len(todo')
  BY <1>1, <1>2 DEF OnTheWay, Begun
<1>4. /\ \A i \in 1..Len(todo) : todo[i] = Steps[b + i]
      /\ (pc = "parse" /\ b = 0) \/ (b \in 1..n /\ pc = Steps[b])
  BY <1>2, <1>3 DEF OnTheWay
<1>5. CASE todo = <<>>
  <2>1. pc' = "work" /\ todo' = <<>> /\ b = n /\ Begun' = n
    BY <1>2, <1>3, <1>5 DEF GoOn
  <2>2. OnTheWay'
    BY <1>1, <1>2, <2>1 DEF OnTheWay
  <2>3. \A i \in 1..n : i < b \/ i = b
    BY <1>2, <2>1
  <2>4. \A s : Passed(s)' <=> \E i \in 1..n : Steps[i] = s
    BY <1>1, <2>1 DEF Passed
  <2>5. pc = Steps[b] /\ b \in 1..n
    BY <1>2, <1>4, <2>1
  <2>6. \A s : Passed(s)' => Passed(s) \/ s = pc
    BY <2>3, <2>4, <2>5 DEF Passed
  <2>7. \A s : Passed(s) => Passed(s)'
    BY <2>4 DEF Passed
  <2> QED
    BY <2>1, <2>2, <2>4, <2>5, <2>6, <2>7
<1>6. CASE todo # <<>>
  <2>1. /\ pc' = todo[1] /\ todo' \in Seq(StepNames) /\ Len(todo') = Len(todo) - 1
        /\ \A i \in 1..Len(todo') : todo'[i] = todo[i + 1]
        /\ Len(todo) > 0
    BY <1>1, <1>6 DEF GoOn
  <2>2. Begun' = b + 1 /\ b + 1 \in 1..n /\ pc' = Steps[b + 1]
    BY <1>1, <1>2, <1>3, <1>4, <2>1
  <2>3. \A i \in 1..Len(todo') : todo'[i] = Steps[b + 1 + i]
    BY <1>1, <1>3, <1>4, <2>1
  <2>4. OnTheWay'
    BY <1>1, <1>2, <1>3, <2>1, <2>2, <2>3 DEF OnTheWay
  <2>5. pc' \notin {"exit", "parse", "work"}
    BY <1>2, <2>2 DEF StepNames
  <2>6. \A i \in 1..n : i < Begun' <=> (i < b \/ i = b)
    BY <1>2, <1>3, <2>2
  <2>7. \A s : Passed(s)' <=> \E i \in 1..n : Steps[i] = s /\ (i < b \/ i = b)
    BY <1>1, <2>5, <2>6 DEF Passed
  <2>8. \A s : Passed(s) <=> \E i \in 1..n : Steps[i] = s /\ i < b
    BY DEF Passed
  <2> QED
    BY <1>4, <2>4, <2>5, <2>7, <2>8
<1> QED
  BY <1>5, <1>6

\* A program is at one of its steps, which is not behind it.
LEMMA AtStep ==
    ASSUME OnTheWay, pc \in StepNames
    PROVE  /\ Begun \in 1..Len(Steps) /\ pc = Steps[Begun]
           /\ Has(prog, pc) /\ ~Passed(pc)
           /\ \A i \in 1..(Begun - 1) : Passed(Steps[i])
           /\ Begun = Len(Steps) => todo = <<>>
<1>1. pc \notin {"exit", "parse", "work"}
  BY DEF StepNames
<1>2. /\ prog \in Programs /\ Len(Steps) \in Nat /\ Len(todo) \in Nat
      /\ \A i, j \in 1..Len(Steps) : Steps[i] = Steps[j] => i = j
      /\ Len(todo) = 0 => todo = <<>>
  BY StepFacts DEF OnTheWay, Steps
<1>3. Begun \in 1..Len(Steps) /\ pc = Steps[Begun]
  BY <1>1, <1>2 DEF OnTheWay, Begun
<1>4. Has(prog, pc)
  BY <1>3 DEF Has, Steps
<1>5. ~Passed(pc)
  BY <1>1, <1>2, <1>3 DEF Passed
<1>6. \A i \in 1..(Begun - 1) : Passed(Steps[i])
  <2> SUFFICES ASSUME NEW i \in 1..(Begun - 1) PROVE Passed(Steps[i])
    OBVIOUS
  <2>1. i \in 1..Len(Steps) /\ i < Begun
    BY <1>2, <1>3
  <2> QED
    BY <2>1 DEF Passed
<1> QED
  BY <1>2, <1>3, <1>4, <1>5, <1>6 DEF Begun

\* Whoever opens an output has checked the options before, the extractor and
\* the merger have asked, and the index builder and the test set extractor do
\* nothing else after it.
LEMMA AtCut ==
    ASSUME OnTheWay, pc = "cut"
    PROVE  /\ prog \in Writers
           /\ Passed("check") /\ ~Passed("cut")
           /\ prog \in {"extractor", "merger"} => Passed("ask")
           /\ prog \in {"testset", "index"} => todo = <<>>
<1>1. /\ Begun \in 1..Len(Steps) /\ Steps[Begun] = "cut" /\ Has(prog, "cut") /\ ~Passed("cut")
      /\ \A i \in 1..(Begun - 1) : Passed(Steps[i])
      /\ Begun = Len(Steps) => todo = <<>>
  BY AtStep DEF StepNames
<1>2. prog \in Writers
  BY <1>1, ChecksAll DEF OnTheWay
<1>3. CASE prog = "extractor"
  <2>1. Steps = <<"info", "check", "ask", "scan", "cut">>
    BY <1>3, StepLists DEF Steps
  <2>2. Begun = 5
    BY <1>1, <2>1
  <2>3. Passed(Steps[2]) /\ Passed(Steps[3])
    BY <1>1, <2>2
  <2> QED
    BY <1>1, <1>3, <2>1, <2>3 DEF Writers
<1>4. CASE prog = "testset"
  <2>1. Steps = <<"info", "check", "input", "divide", "cut">>
    BY <1>4, StepLists DEF Steps
  <2>2. Begun = 5 /\ Len(Steps) = 5
    BY <1>1, <2>1
  <2>3. Passed(Steps[2])
    BY <1>1, <2>2
  <2> QED
    BY <1>1, <1>4, <2>1, <2>2, <2>3 DEF Writers
<1>5. CASE prog = "markovGenerator"
  <2>1. Steps = <<"info", "check", "cut", "input">>
    BY <1>5, StepLists DEF Steps
  <2>2. Begun = 3
    BY <1>1, <2>1
  <2>3. Passed(Steps[2])
    BY <1>1, <2>2
  <2> QED
    BY <1>1, <1>5, <2>1, <2>3 DEF Writers
<1>6. CASE prog = "be2le"
  <2>1. Steps = <<"check", "cut", "input">>
    BY <1>6, StepLists DEF Steps
  <2>2. Begun = 2
    BY <1>1, <2>1
  <2>3. Passed(Steps[1])
    BY <1>1, <2>2
  <2> QED
    BY <1>1, <1>6, <2>1, <2>3 DEF Writers
<1>7. CASE prog = "merger"
  <2>1. Steps = <<"info", "checkInput", "scan", "check", "ask", "tmp", "cut">>
    BY <1>7, StepLists DEF Steps
  <2>2. Begun = 7
    BY <1>1, <2>1
  <2>3. Passed(Steps[4]) /\ Passed(Steps[5])
    BY <1>1, <2>2
  <2> QED
    BY <1>1, <1>7, <2>1, <2>3 DEF Writers
<1>8. CASE prog = "index"
  <2>1. Steps = <<"info", "check", "input", "cut">>
    BY <1>8, StepLists DEF Steps
  <2>2. Begun = 4 /\ Len(Steps) = 4
    BY <1>1, <2>1
  <2>3. Passed(Steps[2])
    BY <1>1, <2>2
  <2> QED
    BY <1>1, <1>8, <2>1, <2>2, <2>3 DEF Writers
<1> QED
  BY <1>2, <1>3, <1>4, <1>5, <1>6, <1>7, <1>8 DEF Writers

\* What a step has to make sure of before it goes on.
Ensured ==
    /\ pc = "info" => stored \cap Info(prog) = {}
    /\ pc = "check" => \A clause \in Mandatory(prog) : clause \cap stored # {}
    /\ pc = "correct" => number' # 0 /\ (prog # "converter" => number' > 0)
    /\ pc = "divide" => number # 0
    /\ pc = "ask" => (output = "old" => answer' \in {"y", "none"})

\* Such a step keeps the invariant.
LEMMA Onward ==
    ASSUME CInv, pc \in StepNames \ {"cut"}, GoOn, UNCHANGED <<prog, cmd, stored, output>>, Ensured,
           UNCHANGED number \/ (pc = "correct" /\ number' \in Int),
           UNCHANGED answer \/ (pc = "ask" /\ output = "old")
    PROVE  CInv'
<1> USE DEF CInv
<1>1. pc \notin {"exit", "parse", "work"}
  BY DEF StepNames
<1>2. /\ OnTheWay' /\ pc' \notin {"exit", "parse"}
      /\ \A s : Passed(s)' => Passed(s) \/ s = pc
      /\ \A s : Passed(s) => Passed(s)'
  BY <1>1, StepOn
<1>3. Parsed'
  <2>1. pc = "correct" => prog \notin {"index", "merger"}
    BY AtStep, ChecksAll DEF OnTheWay
  <2>2. number' \in Int
    BY DEF Parsed
  <2> QED
    BY <1>1, <1>2, <2>1, <2>2 DEF Parsed
<1>4. Assured'
  <2>1. Passed("info")' => stored' \cap Info(prog') = {}
    BY <1>1, <1>2 DEF Assured, Ensured
  <2>2. Passed("check")' => \A clause \in Mandatory(prog') : clause \cap stored' # {}
    BY <1>1, <1>2 DEF Assured, Ensured
  <2>3. Passed("correct")' => number' # 0 /\ (prog' # "converter" => number' > 0)
    BY <1>1, <1>2 DEF Assured, Ensured
  <2>4. Passed("divide")' => number' # 0
    BY <1>1, <1>2 DEF Assured, Ensured
  <2>5. Passed("ask")' => (output' = "old" => answer' \in {"y", "none"})
    BY <1>1, <1>2 DEF Assured, Ensured
  <2> QED
    BY <2>1, <2>2, <2>3, <2>4, <2>5 DEF Assured, Mandatory, Info
<1>5. Untouched'
  BY <1>1, <1>2 DEF Untouched
<1>6. OverwritesKnowingly'
  BY <1>1 DEF OverwritesKnowingly, Mandatory
<1> QED
  BY <1>2, <1>3, <1>4, <1>5, <1>6

\* So does the end of a program, unless it has an output at work that only
\* the extractor may leave.
LEMMA Stops ==
    ASSUME CInv, NEW code, Exit(code), UNCHANGED <<prog, cmd, output, answer>>, number' \in Int,
           pc # "work" \/ prog = "extractor"
    PROVE  CInv'
<1> USE DEF CInv
<1>1. pc' = "exit" /\ todo' = <<>>
  BY DEF Exit
<1>2. OnTheWay' /\ Parsed' /\ Assured'
  BY <1>1 DEF OnTheWay, Parsed, Assured
<1>3. Untouched' /\ OverwritesKnowingly'
  BY <1>1 DEF Untouched, OverwritesKnowingly, Mandatory
<1> QED
  BY <1>2, <1>3

-----------------------------------------------------------------------------
(* The steps.                                                              *)

\* A program that was started anew, with an output that may be there.
LEMMA Started ==
    ASSUME NEW p \in Programs, Start(p), output' \in {"none", "old"}
    PROVE  CInv'
<1>1. /\ prog' = p /\ pc' = "parse" /\ todo' = Main[p].steps /\ number' = 0
      /\ cmd' \in CommandLines(p)
  BY DEF Start
<1>2. Main[p].steps \in Seq(StepNames) /\ Len(Main[p].steps) \in Nat
  BY StepFacts
<1>3. Steps' = Main[p].steps /\ Begun' = 0
  BY <1>1, <1>2 DEF Steps, Begun
<1>5. OnTheWay'
  BY <1>1, <1>2, <1>3 DEF OnTheWay
<1>6. \A s : ~Passed(s)'
  BY <1>1, <1>2, <1>3 DEF Passed
<1>7. Parsed'
  BY <1>1 DEF Parsed, CommandLines, Options, Mandatory
<1>8. Assured' /\ Untouched' /\ OverwritesKnowingly'
  BY <1>6 DEF Assured, Untouched, OverwritesKnowingly
<1> QED
  BY <1>5, <1>7, <1>8 DEF CInv

LEMMA CInit == Init => CInv
<1> SUFFICES ASSUME Init PROVE CInv
  OBVIOUS
<1>1. /\ prog \in Programs /\ pc = "parse" /\ todo = Main[prog].steps /\ number = 0
      /\ cmd \in CommandLines(prog) /\ output \in {"none", "old"}
  BY DEF Init, StartInit
<1>2. Main[prog].steps \in Seq(StepNames) /\ Len(Main[prog].steps) \in Nat
  BY <1>1, StepFacts
<1>3. Steps = Main[prog].steps /\ Begun = 0
  BY <1>1, <1>2 DEF Steps, Begun
<1>5. OnTheWay
  BY <1>1, <1>2, <1>3 DEF OnTheWay
<1>6. \A s : ~Passed(s)
  BY <1>1, <1>2, <1>3 DEF Passed
<1>7. Parsed
  BY <1>1 DEF Parsed
<1>8. Assured /\ Untouched /\ OverwritesKnowingly
  BY <1>1, <1>6 DEF Assured, Untouched, OverwritesKnowingly
<1> QED
  BY <1>5, <1>7, <1>8 DEF CInv

LEMMA CParse == CInv /\ ParseOptions => CInv'
<1> SUFFICES ASSUME CInv, ParseOptions PROVE CInv'
  OBVIOUS
<1>1. pc = "parse" /\ UNCHANGED <<prog, cmd, output, answer>> /\ prog \in Programs
  BY DEF ParseOptions, CInv, OnTheWay
<1>2. CASE Exit("failure") /\ UNCHANGED <<stored, number>>
  BY <1>1, <1>2, Stops DEF CInv, Parsed
<1>3. CASE /\ cmd.error = "none" \/ Main[prog].onError = "continue"
           /\ stored' \in CASE cmd.error = "none" -> {cmd.given}
                            [] cmd.error = "syntax" -> {{}}
                            [] cmd.error = "value" -> SUBSET cmd.given
           /\ number' \in IF "number" \in stored' THEN {cmd.number}
                          ELSE IF cmd.error = "none" \/ prog = "benchmark" THEN {Main[prog].default}
                          ELSE Garbage
           /\ GoOn
  <2>1. cmd.number \in Int
    <3>1. cmd.number \in (IF Main[prog].default = 0 THEN {0} ELSE Numbers)
      BY DEF CInv, Parsed, CommandLines
    <3>2. Numbers \subseteq Int /\ {0} \subseteq Int
      BY CommandLineAssumption
    <3> QED
      BY <3>1, <3>2, Zenon
  <2>2. Main[prog].default \in Int
    BY <1>1, OtherFields
  <2>3. number' \in Int
    BY <1>3, <2>1, <2>2, CommandLineAssumption
  <2>4. /\ OnTheWay' /\ pc' \notin {"exit", "parse"}
        /\ \A s : Passed(s)' => Passed(s) \/ s = "parse"
        /\ \A s : Passed(s) => Passed(s)'
    BY <1>1, <1>3, StepOn DEF CInv
  <2>5. \A s : ~Passed(s)
    <3>1. Len(Steps) \in Nat /\ Len(todo) \in Nat /\ \A i \in 1..Len(Steps) : Steps[i] # "parse"
      <4>1. Steps \in Seq(StepNames) /\ todo \in Seq(StepNames)
        BY <1>1, StepFacts DEF Steps, CInv, OnTheWay
      <4>2. "parse" \notin StepNames
        BY DEF StepNames
      <4> QED
        BY ONLY <4>1, <4>2
    <3>2. Begun = 0
      BY <1>1, <3>1 DEF CInv, OnTheWay, Begun
    <3> QED
      BY <1>1, <3>1, <3>2 DEF Passed
  <2>6. Parsed'
    <3>1. cmd.error \in {"none", "syntax", "value"} /\ cmd \in CommandLines(prog)
      BY DEF CInv, Parsed, CommandLines
    <3>2. /\ stored' \subseteq cmd.given
          /\ cmd.error = "syntax" => stored' = {}
          /\ cmd.error = "none" => stored' = cmd.given
      BY <1>3, <3>1
    <3>3. Main[prog].onError = "return" => cmd.error = "none"
      BY <1>3
    <3>4. cmd.error = "none" => number' = IF "number" \in cmd.given THEN cmd.number ELSE Main[prog].default
      BY <1>3, <3>2
    <3>5. cmd' \in CommandLines(prog')
      BY <1>1, <3>1 DEF CommandLines, Options, Mandatory
    <3> QED
      BY <1>1, <2>3, <3>2, <3>3, <3>4, <3>5 DEF Parsed
  <2>7. Assured'
    BY <2>4, <2>5 DEF Assured
  <2>8. Untouched' /\ OverwritesKnowingly'
    BY <1>1, <2>4, <2>5 DEF CInv, Untouched, OverwritesKnowingly
  <2> QED
    BY <2>4, <2>6, <2>7, <2>8 DEF CInv
<1> QED
  BY <1>2, <1>3 DEF ParseOptions

\* The steps that only look.
LEMMA CLook ==
    CInv /\ (ShowInfo \/ CheckOptions \/ DivideByNumber \/ ScanDirectory \/ CheckOther \/ OpenInput
             \/ ParseAddress)
      => CInv'
<1> SUFFICES ASSUME CInv, \/ ShowInfo \/ CheckOptions \/ DivideByNumber \/ ScanDirectory
                          \/ CheckOther \/ OpenInput \/ ParseAddress
             PROVE  CInv'
  OBVIOUS
<1>1. /\ UNCHANGED <<prog, cmd, stored, number, output, answer>>
      /\ pc \in StepNames \ {"cut", "ask", "correct"}
  BY DEF ShowInfo, CheckOptions, DivideByNumber, ScanDirectory, CheckOther, OpenInput, ParseAddress,
         StepNames
<1>2. number' \in Int
  BY <1>1 DEF CInv, Parsed
<1>3. CASE GoOn
  <2>1. pc # "parse" /\ pc # "exit" /\ pc' # "exit"
    BY <1>1, <1>3, StepOn DEF CInv, StepNames
  <2>2. Ensured
    BY <1>1, <1>3, <2>1
    DEF Ensured, ShowInfo, CheckOptions, DivideByNumber, ScanDirectory, CheckOther, OpenInput, ParseAddress,
        NoneMissing, Exit
  <2> QED
    BY <1>1, <1>3, <2>2, Onward
<1>4. CASE \E code : Exit(code)
  BY <1>1, <1>2, <1>4, Stops DEF StepNames
<1> QED
  BY <1>3, <1>4
  DEF ShowInfo, CheckOptions, DivideByNumber, ScanDirectory, CheckOther, OpenInput, ParseAddress

LEMMA CCorrect == CInv /\ CorrectNumber => CInv'
<1> SUFFICES ASSUME CInv, CorrectNumber PROVE CInv'
  OBVIOUS
<1>1. /\ pc = "correct" /\ number' = Corrected(number) /\ GoOn
      /\ UNCHANGED <<prog, cmd, stored, output, answer>>
  BY DEF CorrectNumber
<1>2. number \in Int /\ prog \in Programs
  BY DEF CInv, Parsed, OnTheWay
<1>3. Main[prog].default \in Nat /\ Main[prog].default > 0
  <2>1. Has(prog, "correct")
    BY <1>1, AtStep DEF CInv, StepNames
  <2>2. prog \in {"converter", "server", "loadtest", "benchmark"}
    BY <1>2, <2>1, ChecksAll
  <2> QED
    BY <2>2, OtherFields
<1>4. number' \in Int /\ number' # 0 /\ (prog # "converter" => number' > 0)
  BY <1>1, <1>2, <1>3 DEF Corrected
<1>5. Ensured
  BY <1>1, <1>4 DEF Ensured
<1> QED
  BY <1>1, <1>4, <1>5, Onward DEF StepNames

LEMMA CAsk == CInv /\ AskToOverwrite => CInv'
<1> SUFFICES ASSUME CInv, AskToOverwrite PROVE CInv'
  OBVIOUS
<1>1. pc = "ask" /\ UNCHANGED <<prog, cmd, stored, number, output>>
  BY DEF AskToOverwrite
<1>2. PICK ch \in {"y", "n", "none"} :
        /\ answer' = IF output = "old" THEN ch ELSE answer
        /\ \/ (MayOverwrite(ch) \/ ch = "none") /\ GoOn
           \/ Exit(IF prog = "merger" THEN "success" ELSE "failure")
  BY DEF AskToOverwrite
<1>3. number' \in Int
  BY <1>1 DEF CInv, Parsed
<1>4. CASE (MayOverwrite(ch) \/ ch = "none") /\ GoOn
  <2>1. Ensured
    BY <1>1, <1>2, <1>4 DEF Ensured, MayOverwrite
  <2> QED
    BY <1>1, <1>2, <1>4, <2>1, Onward DEF StepNames
<1>5. CASE Exit(IF prog = "merger" THEN "success" ELSE "failure")
  <2> USE DEF CInv
  <2>1. pc' = "exit" /\ todo' = <<>>
    BY <1>5 DEF Exit
  <2>2. OnTheWay' /\ Parsed' /\ Assured'
    BY <1>1, <2>1 DEF OnTheWay, Parsed, Assured
  <2>3. Untouched' /\ OverwritesKnowingly'
    BY <1>1, <1>2, <2>1 DEF Untouched, OverwritesKnowingly, Mandatory
  <2> QED
    BY <2>2, <2>3
<1> QED
  BY <1>2, <1>4, <1>5

LEMMA CCut == CInv /\ CutOutput => CInv'
<1> SUFFICES ASSUME CInv, CutOutput PROVE CInv'
  OBVIOUS
<1>1. pc = "cut" /\ UNCHANGED <<prog, cmd, stored, number, answer>>
  BY DEF CutOutput
<1>2. /\ prog \in Writers
      /\ Passed("check") /\ ~Passed("cut")
      /\ prog \in {"extractor", "merger"} => Passed("ask")
      /\ prog \in {"testset", "index"} => todo = <<>>
  BY <1>1, AtCut DEF CInv
<1>3. /\ output \in {"none", "old"}
      /\ prog \in {"extractor", "merger"} => (output = "old" => answer \in {"y", "none"})
  BY <1>1, <1>2 DEF CInv, Untouched, Assured
<1>4. Given
  <2>1. \A clause \in Mandatory(prog) : clause \cap stored # {}
    BY <1>1, <1>2 DEF CInv, Assured
  <2>2. \A clause \in Mandatory(prog) : clause \cap cmd.given # {}
    BY <1>1, <2>1 DEF CInv, Parsed
  <2> QED
    BY <2>2 DEF Given
<1>5. CASE /\ GoOn
           /\ UNCHANGED output \/ output' = (IF output = "none" THEN "new" ELSE "overwritten")
  <2>1. /\ OnTheWay' /\ pc' \notin {"exit", "parse"}
        /\ \A s : Passed(s)' => Passed(s) \/ s = "cut"
        /\ Passed("cut")'
    BY <1>1, <1>5, StepOn DEF CInv
  <2>2. Parsed'
    BY <1>1, <2>1 DEF CInv, Parsed
  <2>3. Assured'
    BY <1>1, <1>3, <1>5, <2>1 DEF CInv, Assured, Mandatory, Info
  <2>4. Untouched'
    BY <1>1, <1>2, <1>3, <1>5, <2>1 DEF Untouched
  <2>5. prog \in {"testset", "index"} => pc' = "work"
    BY <1>2, <1>5 DEF GoOn
  <2>6. OverwritesKnowingly'
    BY <1>1, <1>2, <1>3, <1>4, <1>5, <2>5 DEF OverwritesKnowingly, Given, Mandatory
  <2> QED
    BY <2>1, <2>2, <2>3, <2>4, <2>6 DEF CInv
<1>6. CASE UNCHANGED output /\ \E code : Exit(code)
  BY <1>1, <1>6, Stops DEF CInv, Parsed
<1> QED
  BY <1>5, <1>6 DEF CutOutput

\* Nothing that the invariant speaks of changes.
LEMMA CStutter == CInv /\ UNCHANGED startVars => CInv'
BY DEF startVars, CInv, OnTheWay, Begun, Steps, Passed, Parsed, Assured, Untouched,
       OverwritesKnowingly, Mandatory, Info, CommandLines, Options

\* The extractor at work, killed or not.
LEMMA CExtract == CInv /\ (Extract \/ Flush \/ ReadFails \/ WritesNothing \/ Kill) => CInv'
<1> SUFFICES ASSUME CInv, Extract \/ Flush \/ ReadFails \/ WritesNothing \/ Kill PROVE CInv'
  OBVIOUS
<1>1. CASE UNCHANGED startVars
  BY <1>1, CStutter
<1>2. CASE /\ \E code : Exit(code)
           /\ prog = "extractor" /\ UNCHANGED <<prog, cmd, stored, number, output, answer>>
  BY <1>2, Stops DEF CInv, Parsed
<1> QED
  BY <1>1, <1>2 DEF Extract, BeginExtraction, OpenFile, WritePassword, NoteReady, Finish, Flush,
                    ReadFails, WritesNothing, Kill, Working

LEMMA CStarts == CInv /\ (TestLoad \/ StartAgain) => CInv'
<1> SUFFICES ASSUME CInv, TestLoad \/ StartAgain PROVE CInv'
  OBVIOUS
<1>1. CASE TestLoad
  <2>1. pc = "work" /\ prog = "server" /\ Start("loadtest") /\ UNCHANGED output
    BY <1>1 DEF TestLoad
  <2>2. ~Passed("cut")
    <3>1. "server" \in Programs /\ "server" \notin Writers
      BY ProgramNames DEF Writers
    <3>2. ~Has("server", "cut")
      BY <3>1, ChecksAll
    <3> QED
      BY <2>1, <3>2 DEF Passed, Has, Steps
  <2>3. output' \in {"none", "old"}
    BY <2>1, <2>2 DEF CInv, Untouched
  <2> QED
    BY <2>1, <2>3, Started, ProgramNames
<1>2. CASE StartAgain
  BY <1>2, Started, ProgramNames DEF StartAgain
<1> QED
  BY <1>1, <1>2

-----------------------------------------------------------------------------
\* The inductive invariant holds through every start of every program.
THEOREM StartInvariance == Spec => []CInv
<1>1. CInv /\ [Next]_vars => CInv'
  BY CParse, CLook, CCorrect, CAsk, CCut, CExtract, CStarts, CStutter
  DEF Next, Step, StartUp, vars
<1> QED
  BY <1>1, CInit, PTL DEF Spec

\* Whatever is typed, however wrong, and whatever is left in memory by main()s
\* that go on after an error, no program works without its options, with a
\* number it cannot divide by or count with, or, but for pwned-lookup-cli and
\* after a bad value, although it was asked for help.
THEOREM StartedComplete == Spec => []StartsComplete
<1>1. CInv => StartsComplete
  <2> SUFFICES ASSUME CInv, pc = "work" PROVE StartsComplete
    BY DEF StartsComplete
  <2>1. prog \in Programs /\ \A s : Has(prog, s) => Passed(s)
    BY DEF CInv, OnTheWay, Passed, Has, Steps
  <2>2. /\ \A clause \in Mandatory(prog) : clause \cap stored # {}
        /\ stored \cap Info(prog) = {}
        /\ prog \in {"converter", "server", "loadtest", "benchmark"}
             => number # 0 /\ (prog # "converter" => number > 0)
        /\ prog = "testset" => number # 0
    BY <2>1, ChecksAll DEF CInv, Assured
  <2>3. stored # {}
    BY <2>1, <2>2, OtherFields
  <2>4. cmd.error # "syntax" /\ stored \subseteq cmd.given
    BY <2>3 DEF CInv, Parsed
  <2>5. \A clause \in Mandatory(prog) : clause \cap cmd.given # {}
    BY <2>2, <2>4
  <2>6. prog = "merger" \/ (prog = "index" /\ cmd.error = "none") =>
          number = IF "number" \in cmd.given THEN cmd.number ELSE Main[prog].default
    BY OtherFields DEF CInv, Parsed
  <2>7. "help" \in cmd.given => cmd.error = "value" \/ prog = "lookup"
    <3> SUFFICES ASSUME "help" \in cmd.given, cmd.error # "value" PROVE prog = "lookup"
      OBVIOUS
    <3>1. cmd \in CommandLines(prog)
      BY DEF CInv, Parsed
    <3>2. cmd.given \subseteq Options(prog) /\ cmd.error \in {"none", "syntax", "value"}
      BY <3>1 DEF CommandLines
    <3>3. stored = cmd.given
      BY <2>4, <3>2 DEF CInv, Parsed
    <3>4. "help" \notin Info(prog)
      BY <2>2, <3>3
    <3> QED
      BY <2>1, <3>2, <3>4, OtherFields
  <2> QED
    BY <2>2, <2>4, <2>5, <2>6, <2>7 DEF StartsComplete
<1> QED
  BY <1>1, StartInvariance, PTL

\* No program overwrites a file before it has all options it needs; the password
\* extractor and the merger ask, the former also when it was killed and is
\* started again, and the index builder and the test set extractor read first.
THEOREM OverwrittenKnowingly == Spec => []OverwritesKnowingly
<1>1. CInv => OverwritesKnowingly
  BY DEF CInv
<1> QED
  BY <1>1, StartInvariance, PTL

-----------------------------------------------------------------------------
(* Splitting.                                                              *)

\* The places where a text is cut, and how many of them come before i.
Cuts(text, sep) == {0, Len(text) + 1} \cup {i \in 1..Len(text) : text[i] = sep}
Before(cuts, i) == Cardinality({j \in cuts : j < i})

LEMMA SizeTwo ==
    ASSUME NEW a, NEW b, a # b
    PROVE  IsFiniteSet({a, b}) /\ Cardinality({a, b}) = 2
<1>1. {a, b} = {a} \cup {b} /\ b \notin {a}
  OBVIOUS
<1>2. IsFiniteSet({a}) /\ Cardinality({a}) = 1
  BY FS_Singleton
<1>3. IsFiniteSet({a} \cup {b}) /\ Cardinality({a} \cup {b}) = Cardinality({a}) + 1
  BY <1>1, <1>2, FS_AddElement
<1>4. Cardinality({a} \cup {b}) = 2
  BY <1>2, <1>3
<1> QED
  BY <1>1, <1>3, <1>4, Zenon

LEMMA SizeThree ==
    ASSUME NEW a, NEW b, NEW c, a # b, a # c, b # c
    PROVE  Cardinality({a, b, c}) = 3
<1>1. {a, b, c} = {a, b} \cup {c} /\ c \notin {a, b}
  OBVIOUS
<1>2. IsFiniteSet({a, b}) /\ Cardinality({a, b}) = 2
  BY SizeTwo
<1>3. Cardinality({a, b} \cup {c}) = Cardinality({a, b}) + 1
  BY <1>1, <1>2, FS_AddElement
<1>4. Cardinality({a, b} \cup {c}) = 3
  BY <1>2, <1>3
<1> QED
  BY <1>1, <1>4, Zenon

\* A text without a separator is its only part.
LEMMA SplitNone ==
    ASSUME NEW Chars, NEW t \in Seq(Chars), NEW sep, \A i \in 1..Len(t) : t[i] # sep
    PROVE  Split(t, sep) = <<t>>
<1> DEFINE n == Len(t)
           cuts == Cuts(t, sep)
           cut(k) == CHOOSE i \in cuts : Before(cuts, i) = k
<1>1. n \in Nat
  OBVIOUS
<1>2. cuts = {0, n + 1}
  BY DEF Cuts
<1> HIDE DEF n
<1>3. Cardinality(cuts) = 2
  <2>1. 0 # n + 1
    BY <1>1
  <2> HIDE DEF cuts
  <2> QED
    BY <1>2, <2>1, SizeTwo
<1>4. Before(cuts, 0) = 0 /\ Before(cuts, n + 1) = 1
  <2> HIDE DEF cuts
  <2>1. {j \in cuts : j < 0} = {} /\ {j \in cuts : j < n + 1} = {0}
    BY <1>1, <1>2
  <2> QED
    BY <2>1, FS_EmptySet, FS_Singleton DEF Before
<1>5. cut(0) = 0 /\ cut(1) = n + 1
  <2> HIDE DEF cuts
  <2> QED
    BY <1>1, <1>2, <1>4
<1>6. Split(t, sep) = [k \in 1..(Cardinality(cuts) - 1) |-> SubSeq(t, cut(k - 1) + 1, cut(k) - 1)]
  BY DEF Split, Cuts, Before
<1>7. SubSeq(t, 1, n) = t
  BY DEF n
<1> HIDE DEF cuts, cut
<1>8. Split(t, sep) = [k \in 1..1 |-> SubSeq(t, cut(k - 1) + 1, cut(k) - 1)]
  BY <1>3, <1>6
<1>9. SubSeq(t, cut(1 - 1) + 1, cut(1) - 1) = t
  BY <1>1, <1>5, <1>7
<1>10. Split(t, sep) = [k \in 1..1 |-> t]
  BY <1>8, <1>9
<1> QED
  BY <1>10

\* A text with one separator has the two parts around it.
LEMMA SplitOnce ==
    ASSUME NEW Chars, NEW a \in Seq(Chars), NEW b \in Seq(Chars), NEW sep \in Chars,
           \A i \in 1..Len(a) : a[i] # sep, \A i \in 1..Len(b) : b[i] # sep
    PROVE  Split(a \o <<sep>> \o b, sep) = <<a, b>>
<1> DEFINE t == a \o <<sep>> \o b
           m == Len(a)
           n == Len(t)
           cuts == Cuts(t, sep)
           cut(k) == CHOOSE i \in cuts : Before(cuts, i) = k
<1>1. t \in Seq(Chars) /\ m \in Nat /\ n \in Nat /\ Len(b) \in Nat /\ n = m + 1 + Len(b)
  <2>1. <<sep>> \in Seq(Chars) /\ Len(<<sep>>) = 1
    OBVIOUS
  <2> DEFINE s == a \o <<sep>>
  <2>2. s \in Seq(Chars) /\ Len(s) = Len(a) + 1
    BY <2>1
  <2> HIDE DEF s
  <2>3. s \o b \in Seq(Chars) /\ Len(s \o b) = Len(s) + Len(b) /\ Len(a) \in Nat /\ Len(b) \in Nat
    BY <2>2
  <2>4. t = s \o b
    BY DEF s
  <2> HIDE DEF t
  <2> QED
    BY <2>2, <2>3, <2>4
<1>2. /\ \A i \in 1..m : t[i] = a[i]
      /\ t[m + 1] = sep
      /\ \A i \in 1..Len(b) : t[m + 1 + i] = b[i]
  <2> DEFINE s == a \o <<sep>>
  <2>1. /\ s \in Seq(Chars) /\ Len(s) = m + 1 /\ m \in Nat /\ Len(b) \in Nat
        /\ s[m + 1] = sep /\ \A i \in 1..m : s[i] = a[i]
    OBVIOUS
  <2>2. t = s \o b
    OBVIOUS
  <2> HIDE DEF s, t, m
  <2>3. /\ \A i \in 1..Len(s) : t[i] = s[i]
        /\ \A i \in 1..Len(b) : t[Len(s) + i] = b[i]
    BY <2>1, <2>2
  <2>4. m + 1 \in 1..Len(s) /\ \A i \in 1..m : i \in 1..Len(s)
    BY <2>1
  <2> QED
    BY <2>1, <2>3, <2>4
<1>3. \A i \in 1..n : t[i] = sep <=> i = m + 1
  <2> HIDE DEF t, n
  <2> TAKE i \in 1..n
  <2>1. CASE i \in 1..m
    <3>1. t[i] # sep /\ i # m + 1
      <4>1. t[i] = a[i] /\ a[i] # sep
        BY <1>2, <2>1
      <4> HIDE DEF m
      <4> QED
        BY <1>1, <2>1, <4>1
    <3> QED
      BY <3>1
  <2> HIDE DEF m
  <2>2. CASE i > m + 1
    <3>1. i - (m + 1) \in 1..Len(b) /\ i = m + 1 + (i - (m + 1))
      BY <1>1, <2>2
    <3>2. t[i] # sep
      BY <1>2, <3>1
    <3> QED
      BY <1>1, <2>2, <3>2
  <2>3. CASE i = m + 1
    BY <1>2, <2>3
  <2> QED
    BY <1>1, <2>1, <2>2, <2>3
<1> HIDE DEF t
<1>4. cuts = {0, m + 1, n + 1}
  <2> HIDE DEF m
  <2>1. m + 1 \in 1..n
    BY <1>1
  <2>2. {i \in 1..n : t[i] = sep} = {m + 1}
    <3> HIDE DEF n
    <3> QED
      BY <1>3, <2>1
  <2>3. cuts = {0, n + 1} \cup {i \in 1..n : t[i] = sep}
    BY DEF Cuts
  <2> HIDE DEF cuts, n
  <2> QED
    BY <2>2, <2>3
<1> HIDE DEF m, n
<1>5. Cardinality(cuts) = 3
  <2>1. 0 # m + 1 /\ 0 # n + 1 /\ m + 1 # n + 1
    BY <1>1
  <2> HIDE DEF cuts
  <2> QED
    BY <1>4, <2>1, SizeThree
<1>6. Before(cuts, 0) = 0 /\ Before(cuts, m + 1) = 1 /\ Before(cuts, n + 1) = 2
  <2> HIDE DEF cuts
  <2>1. 0 # m + 1 /\ Cardinality({0, m + 1}) = 2
    <3>1. 0 # m + 1
      BY <1>1
    <3> QED
      BY <3>1, SizeTwo
  <2>2. {j \in cuts : j < 0} = {}
    BY <1>1, <1>4
  <2>3. {j \in cuts : j < m + 1} = {0}
    BY <1>1, <1>4
  <2>4. {j \in cuts : j < n + 1} = {0, m + 1}
    BY <1>1, <1>4
  <2> QED
    BY <2>1, <2>2, <2>3, <2>4, FS_EmptySet, FS_Singleton DEF Before
<1>7. cut(0) = 0 /\ cut(1) = m + 1 /\ cut(2) = n + 1
  <2> HIDE DEF cuts
  <2> QED
    BY <1>1, <1>4, <1>6
<1>8. Split(t, sep) = [k \in 1..(Cardinality(cuts) - 1) |-> SubSeq(t, cut(k - 1) + 1, cut(k) - 1)]
  BY DEF Split, Cuts, Before
<1>9. SubSeq(t, 1, m) = a
  BY <1>1, <1>2 DEF m
<1>10. SubSeq(t, m + 2, n) = b
  BY <1>1, <1>2
<1> HIDE DEF cuts, cut
<1>11. Split(t, sep) = [k \in 1..2 |-> SubSeq(t, cut(k - 1) + 1, cut(k) - 1)]
  BY <1>5, <1>8
<1>12. SubSeq(t, cut(1 - 1) + 1, cut(1) - 1) = a /\ SubSeq(t, cut(2 - 1) + 1, cut(2) - 1) = b
  <2>1. 1 - 1 = 0 /\ 2 - 1 = 1
    OBVIOUS
  <2>2. cut(1 - 1) = 0 /\ cut(2 - 1) = m + 1
    BY <1>7, <2>1, Zenon
  <2>3. cut(1) - 1 = m /\ cut(2) - 1 = n
    BY <1>1, <1>7
  <2>4. cut(1 - 1) + 1 = 1 /\ cut(2 - 1) + 1 = m + 2
    BY <1>1, <2>2
  <2> QED
    BY <1>9, <1>10, <2>3, <2>4, Zenon
<1>13. Split(t, sep) = [k \in 1..2 |-> IF k = 1 THEN a ELSE b]
  BY <1>11, <1>12
<1>14. Split(t, sep) = <<a, b>>
  BY <1>13
<1> QED
  BY <1>14 DEF t

\* The query of the load test's requests, as the server takes it apart.
LEMMA HashQuery ==
    LET q == <<"hash", "=", "md5">>
    IN /\ Split(q, "#") = <<q>>
       /\ Query(q) = [key \in {<<"hash">>} |-> <<"md5">>]
<1> DEFINE q == <<"hash", "=", "md5">>
           a == <<"hash">>
           b == <<"md5">>
           Chars == {"hash", "=", "md5"}
<1>1. q \in Seq(Chars) /\ a \in Seq(Chars) /\ b \in Seq(Chars) /\ "=" \in Chars
  OBVIOUS
<1>2. q = a \o <<"=">> \o b
  OBVIOUS
<1>3. /\ \A i \in 1..Len(q) : q[i] # "#" /\ q[i] # "&"
      /\ \A i \in 1..Len(a) : a[i] # "="
      /\ \A i \in 1..Len(b) : b[i] # "="
  OBVIOUS
<1> HIDE DEF q, a, b, Chars
<1>4. Split(q, "#") = <<q>> /\ Split(q, "&") = <<q>>
  BY <1>1, <1>3, SplitNone
<1>5. Split(q, "=") = <<a, b>>
  BY <1>1, <1>2, <1>3, SplitOnce
<1>6. KeyValues(q) = {1}
  BY <1>4, <1>5 DEF KeyValues
<1>7. Query(q) = [key \in {a} |-> b]
  <2> DEFINE pair(i) == Split(Split(q, "&")[i], "=")
             uses(key) == {i \in KeyValues(q) : pair(i)[1] = key}
             last(key) == CHOOSE i \in uses(key) : \A j \in uses(key) : j <= i
  <2>1. Query(q) = [key \in {pair(i)[1] : i \in KeyValues(q)} |-> pair(last(key))[2]]
    BY DEF Query
  <2>2. pair(1) = <<a, b>>
    BY <1>4, <1>5
  <2>3. pair(1)[1] = a /\ pair(1)[2] = b
    BY <2>2
  <2> HIDE DEF pair
  <2>4. {pair(i)[1] : i \in KeyValues(q)} = {a}
    BY <1>6, <2>3
  <2>5. uses(a) = {1}
    BY <1>6, <2>3
  <2> HIDE DEF uses
  <2>6. last(a) = 1
    BY <2>5
  <2> HIDE DEF last
  <2> QED
    BY <2>1, <2>3, <2>4, <2>6
<1> QED
  BY <1>4, <1>7 DEF q, a, b

\* A target is split where the path ends, whatever is in the path.
LEMMA TargetParsed ==
    ASSUME NEW path \in Seq(STRING), \A i \in 1..Len(path) : path[i] # "?"
    PROVE  LET t == ParseTarget(path \o <<"?", "hash", "=", "md5">>)
           IN t.path = path /\ t.query = [key \in {<<"hash">>} |-> <<"md5">>]
<1> DEFINE q == <<"hash", "=", "md5">>
           target == path \o <<"?", "hash", "=", "md5">>
           Chars == STRING \cup {"?", "hash", "=", "md5"}
<1>1. target = path \o <<"?">> \o q
  OBVIOUS
<1>2. \A i \in 1..Len(q) : q[i] # "?"
  OBVIOUS
<1>3. Split(q, "#") = <<q>> /\ Query(q) = [key \in {<<"hash">>} |-> <<"md5">>]
  BY HashQuery
<1>7. path \in Seq(Chars) /\ "?" \in Chars
  <2>1. \A S, T : S \subseteq T => Seq(S) \subseteq Seq(T)
    OBVIOUS
  <2> QED
    BY <2>1, Zenon
<1>8. q \in Seq(Chars)
  <2>1. "hash" \in Chars /\ "=" \in Chars /\ "md5" \in Chars
    BY Zenon
  <2> HIDE DEF Chars
  <2> QED
    BY <2>1
<1> HIDE DEF q, Chars
<1>4. Split(path \o <<"?">> \o q, "?") = <<path, q>>
  BY <1>2, <1>7, <1>8, SplitOnce
<1>5. Split(target, "?") = <<path, q>>
  BY <1>1, <1>4
<1> HIDE DEF target
<1>6. ParseTarget(target).path = path /\ ParseTarget(target).query = Query(q)
  BY <1>3, <1>5 DEF ParseTarget
<1> QED
  BY <1>3, <1>6 DEF target

-----------------------------------------------------------------------------
\* Once the address is parsed it is the one that was given.
AddressKnown == pc # "exit" /\ Passed("address") => uri = Parse(cmd.address)

LEMMA AddressStep == CInv /\ AddressKnown /\ [Next]_vars => AddressKnown'
<1> SUFFICES ASSUME CInv, AddressKnown, [Next]_vars PROVE AddressKnown'
  OBVIOUS
<1> USE DEF CInv
<1>1. CASE \E p \in Programs : Start(p)
  <2>1. PICK p \in Programs : Start(p)
    BY <1>1
  <2>2. prog' = p /\ pc' = "parse" /\ todo' = Main[p].steps
    BY <2>1 DEF Start
  <2>3. Main[p].steps \in Seq(StepNames) /\ Len(Main[p].steps) \in Nat
    BY StepFacts
  <2>4. Steps' = Main[p].steps /\ Begun' = 0
    BY <2>2, <2>3 DEF Steps, Begun
  <2>5. ~Passed("address")'
    BY <2>2, <2>3, <2>4 DEF Passed
  <2> QED
    BY <2>5 DEF AddressKnown
<1>2. CASE \E code : Exit(code)
  BY <1>2 DEF Exit, AddressKnown
<1>3. CASE UNCHANGED startVars
  BY <1>3 DEF startVars, AddressKnown, Passed, Begun, Steps
<1>4. CASE /\ GoOn /\ UNCHANGED <<prog, cmd>> /\ pc \notin {"exit", "work"}
           /\ (UNCHANGED uri /\ pc # "address") \/ (pc = "address" /\ uri' = Parse(cmd.address))
  <2>1. Passed("address")' => Passed("address") \/ pc = "address"
    BY <1>4, StepOn
  <2> QED
    BY <1>4, <2>1 DEF AddressKnown
<1>5. CASE StartUp
  <2>1. (\E code : Exit(code)) \/ GoOn
    BY <1>5, Zenon DEF StartUp, ParseOptions, ShowInfo, CheckOptions, CorrectNumber, DivideByNumber,
       ScanDirectory, CheckOther, OpenInput, AskToOverwrite, CutOutput, ParseAddress
  <2>2. UNCHANGED <<prog, cmd>> /\ pc \notin {"exit", "work"}
    BY <1>5 DEF StartUp, ParseOptions, ShowInfo, CheckOptions, CorrectNumber, DivideByNumber,
       ScanDirectory, CheckOther, OpenInput, AskToOverwrite, CutOutput, ParseAddress
  <2>3. \/ UNCHANGED uri /\ pc # "address"
        \/ pc = "address" /\ uri' = Parse(cmd.address)
        \/ \E code : Exit(code)
    <3>1. CASE ParseAddress
      BY <3>1 DEF ParseAddress
    <3>2. CASE \/ ParseOptions \/ ShowInfo \/ CheckOptions \/ CorrectNumber \/ DivideByNumber
               \/ ScanDirectory \/ CheckOther \/ OpenInput \/ AskToOverwrite \/ CutOutput
      <4> USE DEF ParseOptions, ShowInfo, CheckOptions, CorrectNumber, DivideByNumber,
              ScanDirectory, CheckOther, OpenInput, AskToOverwrite, CutOutput
      <4>1. uri' = uri
        BY ONLY <3>2
      <4>2. pc # "address"
        BY ONLY <3>2
      <4> QED
        BY ONLY <4>1, <4>2
    <3> QED
      BY <1>5, <3>1, <3>2 DEF StartUp
  <2> QED
    BY <1>2, <1>4, <2>1, <2>2, <2>3
<1>6. Extract \/ Flush \/ ReadFails \/ WritesNothing \/ Kill =>
        (\E code : Exit(code)) \/ UNCHANGED startVars
  BY DEF Extract, BeginExtraction, OpenFile, WritePassword, NoteReady, Finish, Flush, ReadFails,
         WritesNothing, Kill
<1>7. TestLoad \/ StartAgain => \E p \in Programs : Start(p)
  BY ProgramNames DEF TestLoad, StartAgain
<1> QED
  BY <1>1, <1>2, <1>3, <1>4, <1>5, <1>6, <1>7 DEF Next, Step, vars

LEMMA AddressInit == Init => AddressKnown
<1> SUFFICES ASSUME Init PROVE ~Passed("address")
  BY DEF AddressKnown
<1>1. prog \in Programs /\ pc = "parse" /\ todo = Main[prog].steps
  BY DEF Init, StartInit
<1>2. Len(Steps) \in Nat /\ Steps = todo
  BY <1>1, StepFacts DEF Steps
<1>3. Begun = 0
  BY <1>2 DEF Begun
<1> QED
  BY <1>1, <1>2, <1>3 DEF Passed

\* Whatever the addresses are, as long as the expression for them matches or
\* does not: a load test (loadtest.cpp's target()) with the server's path and
\* /lookup behind it asks for what the server (httpworker.cpp) looks up.
THEOREM RequestsUnderstood == Spec => []RequestUnderstood
<1>1. CInv /\ AddressKnown => RequestUnderstood
  <2> SUFFICES ASSUME CInv, AddressKnown, pc = "work", prog = "loadtest",
                      uri.path = serving.path \o <<"/", "lookup">>
               PROVE  Route(serving.path, Target(uri)) = <<"md5">>
    BY DEF RequestUnderstood
  <2>1. Passed("address")
    <3>1. Steps = <<"info", "check", "correct", "address", "input">>
      BY StepLists DEF Steps
    <3>2. 4 \in 1..Len(Steps) /\ Steps[4] = "address"
      BY <3>1
    <3> QED
      BY <3>2 DEF Passed
  <2>2. uri = Parse(cmd.address)
    BY <2>1 DEF AddressKnown
  <2>3. cmd.address \in Addresses
    BY DEF CInv, Parsed, CommandLines
  <2>4. uri.path = IF ~cmd.address.matched THEN <<>> ELSE cmd.address.path
    BY <2>2 DEF Parse
  <2>5. uri.path \in Seq(STRING) /\ \A i \in 1..Len(uri.path) : uri.path[i] # "?"
    <3>1. CASE cmd.address.matched
      BY <2>3, <2>4, <3>1, CommandLineAssumption
    <3>2. CASE ~cmd.address.matched
      BY <2>4, <3>2
    <3> QED
      BY <3>1, <3>2
  <2> DEFINE t == ParseTarget(uri.path \o <<"?", "hash", "=", "md5">>)
  <2>6. t.path = uri.path /\ t.query = [key \in {<<"hash">>} |-> <<"md5">>]
    BY <2>5, TargetParsed
  <2>7. t = ParseTarget(Target(uri))
    BY DEF Target
  <2> HIDE DEF t
  <2>8. <<"hash">> \in DOMAIN t.query /\ t.query[<<"hash">>] = <<"md5">>
    BY <2>6
  <2> QED
    BY <2>6, <2>7, <2>8 DEF Route
<1> QED
  BY <1>1, StartInvariance, AddressInit, AddressStep, PTL DEF Spec

-----------------------------------------------------------------------------
(* The reader of a file.                                                   *)

\* A record with the fields of a reader; one that is at the beginning of its
\* file
IsReader(r) == {"lines", "pos", "eof", "separator", "forceMD5", "forceHex"} \subseteq DOMAIN r
Fresh(r, lines) == IsReader(r) /\ r.lines = lines /\ r.pos = 0 /\ ~r.eof

\* The reader is moved.
Moved(r, p, e) == [r EXCEPT !.pos = p, !.eof = e]

LEMMA MovedReader ==
    ASSUME NEW r, IsReader(r), NEW p, NEW e
    PROVE  /\ IsReader(Moved(r, p, e)) /\ Moved(r, p, e).lines = r.lines
           /\ Moved(r, p, e).separator = r.separator /\ Moved(r, p, e).forceHex = r.forceHex
           /\ Moved(r, p, e).pos = p /\ Moved(r, p, e).eof = e
<1> DEFINE m == [r EXCEPT !.pos = p]
<1>1. Moved(r, p, e) = [m EXCEPT !.eof = e]
  BY Zenon DEF Moved
<1>2. /\ IsReader(m) /\ m.lines = r.lines /\ m.separator = r.separator /\ m.forceHex = r.forceHex
      /\ m.pos = p
  BY DEF IsReader
<1> HIDE DEF m
<1> QED
  BY <1>1, <1>2 DEF IsReader

LEMMA RewindFields ==
    ASSUME NEW r, IsReader(r)
    PROVE  Fresh(Rewind(r), r.lines) /\ Rewind(r).separator = r.separator
<1>1. PICK e : e = FALSE
  BY Zenon
<1>2. Rewind(r) = Moved(r, 0, e)
  BY <1>1, Zenon DEF Rewind, Moved
<1>3. /\ IsReader(Moved(r, 0, e)) /\ Moved(r, 0, e).lines = r.lines
      /\ Moved(r, 0, e).separator = r.separator
      /\ Moved(r, 0, e).pos = 0 /\ Moved(r, 0, e).eof = e
  BY MovedReader
<1>4. ~Moved(r, 0, e).eof
  BY <1>1, <1>3, Zenon
<1> QED
  BY <1>2, <1>3, <1>4, Zenon DEF Fresh

LEMMA AdvanceFields ==
    ASSUME NEW r, IsReader(r), NEW k
    PROVE  /\ IsReader(Advance(r, k)) /\ Advance(r, k).lines = r.lines
           /\ Advance(r, k).separator = r.separator
           /\ Advance(r, k).pos = r.pos + k /\ (Advance(r, k).eof <=> r.pos + k = Len(r.lines))
<1>1. PICK p, e : p = r.pos + k /\ e = (r.pos + k = Len(r.lines))
  BY Zenon
<1>2. Advance(r, k) = Moved(r, p, e)
  BY <1>1, Zenon DEF Advance, Moved
<1>3. /\ IsReader(Moved(r, p, e)) /\ Moved(r, p, e).lines = r.lines
      /\ Moved(r, p, e).separator = r.separator
      /\ Moved(r, p, e).pos = p /\ Moved(r, p, e).eof = e
  BY MovedReader
<1>4. Moved(r, p, e).eof <=> r.pos + k = Len(r.lines)
  BY <1>1, <1>3, Zenon
<1> QED
  BY <1>1, <1>2, <1>3, <1>4, Zenon

\* A new reader is at the beginning, whatever the constructor has looked at.
LEMMA ReaderIsFresh ==
    ASSUME NEW lines, NEW opts
    PROVE  Fresh(UserPasswordReader(lines, opts), lines)
<1>1. ASSUME NEW r, Fresh(r, lines), NEW x
      PROVE  /\ Fresh([r EXCEPT !.separator = x], lines)
             /\ Fresh([r EXCEPT !.forceHex = x], lines) /\ Fresh([r EXCEPT !.forceMD5 = x], lines)
  BY <1>1 DEF Fresh, IsReader
<1>2. ASSUME NEW r, Fresh(r, lines) PROVE Fresh(Rewind(r), lines)
  BY <1>2, RewindFields DEF Fresh
<1>3. ASSUME NEW r, Fresh(r, lines) PROVE Fresh(GuessSeparator(r), lines)
  <2>1. PICK x : GuessSeparator(r) = [Rewind(Advance(r, Len(Tried(r)))) EXCEPT !.separator = x]
    BY Zenon DEF GuessSeparator
  <2>2. IsReader(Advance(r, Len(Tried(r)))) /\ Advance(r, Len(Tried(r))).lines = lines
    BY <1>3, AdvanceFields DEF Fresh
  <2>3. Fresh(Rewind(Advance(r, Len(Tried(r)))), lines)
    BY <2>2, RewindFields
  <2>4. Fresh([Rewind(Advance(r, Len(Tried(r)))) EXCEPT !.separator = x], lines)
    BY <1>1, <2>3
  <2> QED
    BY <2>1, <2>4, Zenon
<1>4. ASSUME NEW r, Fresh(r, lines) PROVE Fresh(CheckForHexEncodedPasswords(r), lines)
  <2>1. \/ CheckForHexEncodedPasswords(r) = r
        \/ \E x : CheckForHexEncodedPasswords(r) = [Rewind(r) EXCEPT !.forceHex = x]
    BY Zenon DEF CheckForHexEncodedPasswords
  <2>2. Fresh(Rewind(r), lines)
    BY <1>2, <1>4
  <2>3. \A x : Fresh([Rewind(r) EXCEPT !.forceHex = x], lines)
    BY <1>1, <2>2
  <2> QED
    BY <1>4, <2>1, <2>3, Zenon
<1>5. ASSUME NEW r, Fresh(r, lines) PROVE Fresh(CheckForMD5Hashes(r), lines)
  <2>1. \E x : CheckForMD5Hashes(r) = [Rewind(r) EXCEPT !.forceMD5 = x]
    BY Zenon DEF CheckForMD5Hashes
  <2>2. Fresh(Rewind(r), lines)
    BY <1>2, <1>5
  <2>3. \A x : Fresh([Rewind(r) EXCEPT !.forceMD5 = x], lines)
    BY <1>1, <2>2
  <2> QED
    BY <2>1, <2>3, Zenon
<1>6. ASSUME NEW a, NEW b, NEW c, NEW d, NEW e, ~e
      PROVE  Fresh([lines |-> lines, pos |-> 0, eof |-> e, separator |-> NoSeparator, forceMD5 |-> a,
                    forceHex |-> b, autoMD5 |-> c, autoHex |-> d], lines)
  BY <1>6 DEF Fresh, IsReader
<1> QED
  BY <1>3, <1>4, <1>5, <1>6, Zenon DEF UserPasswordReader

\* The separator of a file of user:password lines is the colon, or none when
\* it has no colon.
Colons(f) ==
    \/ ReaderOf(f).separator = ":"
    \/ \A k \in 1..Len(Contents[f]) :
         LET s == WithoutCR(Contents[f][k])
         IN \A i \in 1..Len(s) : s[i] # ":" /\ s[i] # ReaderOf(f).separator

\* Such a line is read as it is written.
LEMMA LineRead ==
    ASSUME NEW f, Colons(f), NEW r, r.lines = Contents[f], r.separator = ReaderOf(f).separator,
           r.pos \in Nat, r.pos + 1 \in 1..Len(Contents[f])
    PROVE  NextPassword(r, 1) = Line(Contents[f][r.pos + 1])
<1> DEFINE line == r.lines[r.pos + 1]
           s == WithoutCR(line)
           seps == {i \in 1..Len(s) : s[i] = r.separator}
           at == {i \in 1..Len(s) : s[i] = ":"}
<1>1. seps = at
  <2>1. CASE r.separator = ":"
    BY <2>1
  <2>2. CASE \A i \in 1..Len(s) : s[i] # ":" /\ s[i] # r.separator
    <3> HIDE DEF s
    <3> QED
      BY <2>2
  <2> QED
    BY <2>1, <2>2 DEF Colons
<1>2. NextPassword(r, 1) = IF line = <<>> \/ HasToken(line, LongWords) THEN <<>>
                           ELSE IF seps = {} THEN s ELSE SubSeq(s, Min(seps) + 1, Len(s))
  BY Zenon DEF NextPassword, ExtractPassword
<1>3. Line(line) = IF line = <<>> \/ HasToken(line, LongWords) THEN <<>>
                   ELSE IF at = {} THEN s ELSE SubSeq(s, Min(at) + 1, Len(s))
  BY Zenon DEF Line, HasToken, WithoutCR
<1>4. line = Contents[f][r.pos + 1]
  OBVIOUS
<1> HIDE DEF seps, at, line
<1> QED
  BY <1>1, <1>2, <1>3, <1>4, Zenon

-----------------------------------------------------------------------------
(* What FlattenSeq computes.                                               *)

\* A set that has 0, and k + 1 with every k, has every natural number.
LEMMA NatSteps ==
    ASSUME NEW T, 0 \in T, \A k \in Nat : k \in T => k + 1 \in T
    PROVE  \A k \in Nat : k \in T
<1> SUFFICES ASSUME Nat \ T # {} PROVE FALSE
  OBVIOUS
<1>1. PICK m \in Nat \ T : \A y \in Nat \ T : <<y, m>> \notin OpToRel(<, Nat)
  BY WFMin, NatLessThanWellFounded
<1>2. \A y \in Nat \ T : ~(y < m)
  BY <1>1 DEF OpToRel
<1>3. m # 0 /\ m - 1 \in Nat
  OBVIOUS
<1>4. m - 1 \in T
  BY <1>2, <1>3
<1> QED
  BY <1>3, <1>4

\* g has the first i of the sequences s put together at i, for i up to n.
JoinAt(g, s, i) == g[i] = IF i = 1 THEN s[i] ELSE g[i - 1] \o s[i]
Joins(g, s, n) == \A i \in 1..n : JoinAt(g, s, i)

LEMMA JoinsExist ==
    ASSUME NEW T, NEW s \in Seq(Seq(T))
    PROVE  \E g \in [Nat -> Seq(T)] : Joins(g, s, Len(s))
<1> DEFINE n == Len(s)
           N == {k \in Nat : k <= n => \E g \in [Nat -> Seq(T)] : Joins(g, s, k)}
<1>1. 0 \in N
  <2>1. [i \in Nat |-> <<>>] \in [Nat -> Seq(T)]
    OBVIOUS
  <2>2. Joins([i \in Nat |-> <<>>], s, 0)
    BY DEF Joins
  <2> QED
    BY <2>1, <2>2
<1>2. ASSUME NEW k \in Nat, k \in N PROVE k + 1 \in N
  <2> SUFFICES ASSUME k + 1 <= n PROVE \E g \in [Nat -> Seq(T)] : Joins(g, s, k + 1)
    OBVIOUS
  <2>1. n \in Nat /\ k + 1 \in 1..n /\ k <= n
    OBVIOUS
  <2>2. PICK g \in [Nat -> Seq(T)] : Joins(g, s, k)
    BY <1>2, <2>1
  <2>3. s[k + 1] \in Seq(T)
    BY <2>1
  <2>4. PICK x \in Seq(T) : x = IF k + 1 = 1 THEN s[k + 1] ELSE g[k] \o s[k + 1]
    <3>1. g[k] \in Seq(T) /\ g[k] \o s[k + 1] \in Seq(T)
      BY <2>3
    <3> QED
      BY <2>3, <3>1, Zenon
  <2> DEFINE h == [g EXCEPT ![k + 1] = x]
  <2>5. h \in [Nat -> Seq(T)] /\ h[k + 1] = x /\ \A i \in 0..k : h[i] = g[i]
    OBVIOUS
  <2> HIDE DEF h
  <2>6. \A i \in 1..k : JoinAt(h, s, i)
    <3> TAKE i \in 1..k
    <3>1. JoinAt(g, s, i)
      BY <2>2 DEF Joins
    <3>2. h[i] = g[i] /\ h[i - 1] = g[i - 1]
      <4>1. i \in 0..k /\ i - 1 \in 0..k
        OBVIOUS
      <4> QED
        BY <2>5, <4>1, Zenon
    <3> QED
      BY <3>1, <3>2, Zenon DEF JoinAt
  <2>7. JoinAt(h, s, k + 1)
    <3>1. PICK j \in 0..k : j = k
      OBVIOUS
    <3>2. h[k] = g[k]
      BY <2>5, <3>1
    <3>3. PICK i : i = k + 1
      OBVIOUS
    <3>4. i - 1 = k
      BY <3>3
    <3>5. JoinAt(h, s, i)
      BY <2>4, <2>5, <3>2, <3>3, <3>4, Zenon DEF JoinAt
    <3> QED
      BY <3>3, <3>5, Zenon
  <2>8. Joins(h, s, k + 1)
    <3>1. \A i \in 1..(k + 1) : i \in 1..k \/ i = k + 1
      OBVIOUS
    <3> QED
      BY <2>6, <2>7, <3>1, Zenon DEF Joins
  <2> QED
    BY <2>5, <2>8
<1>3. \A k \in Nat : k \in N
  <2> HIDE DEF N
  <2> QED
    BY <1>1, <1>2, NatSteps
<1>4. n \in Nat /\ n <= n
  OBVIOUS
<1>5. n \in N
  BY <1>3, <1>4, Zenon
<1> QED
  BY <1>4, <1>5, Zenon

\* That is what FlattenSeq computes.
LEMMA FlattenIs ==
    ASSUME NEW T, NEW s \in Seq(Seq(T)), s # <<>>, NEW g, Joins(g, s, Len(s))
    PROVE  FlattenSeq(s) = g[Len(s)]
<1> DEFINE n == Len(s)
           Q(h) == h = [i \in 1..n |-> IF i = 1 THEN s[i] ELSE h[i - 1] \o s[i]]
           c == CHOOSE h : Q(h)
           e == [i \in 1..n |-> g[i]]
<1>1. n \in Nat \ {0}
  OBVIOUS
<1>2. FlattenSeq(s) = c[n]
  <2>1. Len(s) # 0
    BY <1>1
  <2> QED
    BY <2>1, Zenon DEF FlattenSeq
<1>3. Q(e)
  <2> HIDE DEF n
  <2>1. \A i \in 1..n : i # 1 => i - 1 \in 1..n
    BY <1>1
  <2>2. \A i \in 1..n : e[i] = IF i = 1 THEN s[i] ELSE e[i - 1] \o s[i]
    BY <2>1 DEF Joins, JoinAt, n
  <2> QED
    BY <2>2
<1>4. Q(c)
  <2> HIDE DEF Q
  <2> QED
    BY <1>3
<1> DEFINE N == {k \in Nat : k + 1 \in 1..n => c[k + 1] = g[k + 1]}
<1> HIDE DEF c, n
<1>5. \A i \in 1..n : JoinAt(c, s, i) /\ JoinAt(g, s, i)
  BY <1>4 DEF JoinAt, Joins, n
<1>6. 0 \in N
  BY <1>5 DEF JoinAt
<1>7. ASSUME NEW k \in Nat, k \in N PROVE k + 1 \in N
  <2> SUFFICES ASSUME NEW j \in 1..n, j = k + 1 + 1 PROVE c[j] = g[j]
    OBVIOUS
  <2>1. k + 1 \in 1..n /\ j # 1 /\ j - 1 = k + 1
    BY <1>1
  <2>2. c[j - 1] = g[j - 1]
    BY <1>7, <2>1
  <2>3. c[j] = c[j - 1] \o s[j] /\ g[j] = g[j - 1] \o s[j]
    BY <1>5, <2>1, Zenon DEF JoinAt
  <2> QED
    BY <2>2, <2>3
<1>8. \A k \in Nat : k \in N
  <2> HIDE DEF N
  <2> QED
    BY <1>6, <1>7, NatSteps
<1>9. n - 1 \in Nat /\ n - 1 + 1 = n /\ n \in 1..n
  BY <1>1
<1>10. c[n] = g[n]
  BY <1>8, <1>9
<1> QED
  BY <1>2, <1>10 DEF n

LEMMA FlattenAppend ==
    ASSUME NEW T, NEW s \in Seq(Seq(T)), NEW x \in Seq(T)
    PROVE  FlattenSeq(s) \in Seq(T) /\ FlattenSeq(Append(s, x)) = FlattenSeq(s) \o x
<1> DEFINE n == Len(s)
           t == Append(s, x)
<1>1. t \in Seq(Seq(T)) /\ n \in Nat /\ Len(t) = n + 1 /\ t[n + 1] = x
  OBVIOUS
<1>2. \A i \in 1..n : t[i] = s[i]
  OBVIOUS
<1> HIDE DEF t
<1>8. t # <<>>
  BY <1>1
<1>3. PICK g \in [Nat -> Seq(T)] : Joins(g, t, n + 1)
  BY <1>1, JoinsExist
<1>4. FlattenSeq(t) = g[n + 1]
  BY <1>1, <1>3, <1>8, FlattenIs
<1>5. g[n + 1] = IF n + 1 = 1 THEN x ELSE g[n + 1 - 1] \o x
  <2> HIDE DEF n
  <2>1. n + 1 \in 1..(n + 1)
    BY <1>1
  <2> QED
    BY <1>1, <1>3, <2>1 DEF Joins, JoinAt
<1>6. CASE n = 0
  <2>1. FlattenSeq(s) = <<>>
    <3>1. s = <<>> /\ Len(s) = 0
      BY <1>6
    <3> QED
      BY <3>1, Zenon DEF FlattenSeq
  <2>2. g[n + 1] = x
    BY <1>5, <1>6
  <2>3. <<>> \in Seq(T) /\ <<>> \o x = x
    OBVIOUS
  <2> QED
    BY <1>4, <2>1, <2>2, <2>3 DEF t
<1>7. CASE n # 0
  <2>1. Joins(g, s, n)
    <3> HIDE DEF n
    <3>1. \A i \in 1..n : i \in 1..(n + 1)
      BY <1>1
    <3> QED
      BY <1>2, <1>3, <3>1 DEF Joins, JoinAt
  <2>2. s # <<>>
    BY <1>7
  <2>3. FlattenSeq(s) = g[n]
    BY <2>1, <2>2, FlattenIs
  <2> HIDE DEF n
  <2>4. n + 1 # 1 /\ n + 1 - 1 = n
    BY <1>1, <1>7
  <2>5. g[n + 1] = g[n] \o x /\ g[n] \in Seq(T)
    BY <1>1, <1>5, <2>4
  <2> QED
    BY <1>4, <2>3, <2>5 DEF t
<1> QED
  BY <1>6, <1>7

-----------------------------------------------------------------------------
(* The passwords of the files.                                             *)

\* What can be in the output
Texts == {Mangled} \cup UNION {{Line(Contents[f][k]) : k \in 1..Len(Contents[f])} : f \in DOMAIN Contents}

\* Wanted(n), if the files in S are left out; what a run should have written
\* when it is at file n with reader r
WantedOf(n, S) ==
    FlattenSeq([i \in 1..(n - 1) |-> IF Files[i] \in S THEN <<>> ELSE Passwords(Files[i])])
Due(n, S, r) ==
    IF r = NoReader THEN WantedOf(n, S)
    ELSE WantedOf(n, S) \o SubSeq(Passwords(Files[n]), 1, r.pos)

LEMMA PasswordsType ==
    ASSUME NEW f \in DOMAIN Contents
    PROVE  /\ Passwords(f) \in Seq(Texts) /\ Len(Passwords(f)) = Len(Contents[f])
           /\ \A k \in 1..Len(Contents[f]) : Passwords(f)[k] = Line(Contents[f][k])
<1>1. Contents[f] \in Seq(Seq(STRING))
  BY ExtractorAssumption
<1>2. Len(Contents[f]) \in Nat
  BY <1>1
<1>3. \A k \in 1..Len(Contents[f]) : Line(Contents[f][k]) \in Texts
  <2> DEFINE of(g) == {Line(Contents[g][k]) : k \in 1..Len(Contents[g])}
  <2>1. Texts = {Mangled} \cup UNION {of(g) : g \in DOMAIN Contents}
    BY Zenon DEF Texts
  <2>2. \A k \in 1..Len(Contents[f]) : Line(Contents[f][k]) \in of(f)
    BY Zenon
  <2> HIDE DEF of
  <2>3. of(f) \subseteq UNION {of(g) : g \in DOMAIN Contents}
    BY Zenon
  <2> QED
    BY <2>1, <2>2, <2>3, Zenon
<1> QED
  BY <1>2, <1>3 DEF Passwords

LEMMA FileType ==
    /\ Len(Files) \in Nat
    /\ \A i \in 1..Len(Files) : Files[i] \in DOMAIN Contents /\ Passwords(Files[i]) \in Seq(Texts)
<1>1. Files \in Seq(DOMAIN Contents)
  BY ExtractorAssumption
<1>2. Len(Files) \in Nat /\ \A i \in 1..Len(Files) : Files[i] \in DOMAIN Contents
  BY <1>1
<1> QED
  BY <1>2, PasswordsType

LEMMA WantedNext ==
    ASSUME NEW n \in 1..Len(Files), NEW S
    PROVE  /\ WantedOf(n, S) \in Seq(Texts) /\ WantedOf(n + 1, S) \in Seq(Texts)
           /\ Files[n] \in S => WantedOf(n + 1, S) = WantedOf(n, S)
           /\ Files[n] \notin S => WantedOf(n + 1, S) = WantedOf(n, S) \o Passwords(Files[n])
<1> DEFINE part(i) == IF Files[i] \in S THEN <<>> ELSE Passwords(Files[i])
           s == [i \in 1..(n - 1) |-> part(i)]
           t == [i \in 1..n |-> part(i)]
<1>1. \A i \in 1..Len(Files) : part(i) \in Seq(Texts)
  <2>1. <<>> \in Seq(Texts)
    OBVIOUS
  <2> QED
    BY <2>1, FileType, Zenon
<1>2. Len(Files) \in Nat /\ n - 1 \in Nat /\ n \in Nat
  BY FileType
<1>3. WantedOf(n, S) = FlattenSeq(s) /\ WantedOf(n + 1, S) = FlattenSeq(t)
  <2>1. n + 1 - 1 = n
    BY <1>2
  <2> QED
    BY <2>1 DEF WantedOf
<1> HIDE DEF part
<1>4. s \in Seq(Seq(Texts)) /\ part(n) \in Seq(Texts) /\ t = Append(s, part(n))
  BY <1>1, <1>2
<1>5. FlattenSeq(s) \in Seq(Texts) /\ FlattenSeq(t) = FlattenSeq(s) \o part(n)
  <2> HIDE DEF s, t
  <2> QED
    BY <1>4, FlattenAppend
<1> HIDE DEF s, t
<1>6. FlattenSeq(s) \o part(n) \in Seq(Texts) /\ FlattenSeq(s) \o <<>> = FlattenSeq(s)
  BY <1>4, <1>5
<1> QED
  BY <1>3, <1>5, <1>6, Zenon DEF part

LEMMA WantedFirst == \A S : WantedOf(1, S) = <<>>
<1> TAKE S
<1>1. PICK n : n = 1
  OBVIOUS
<1> DEFINE s == [i \in 1..(n - 1) |-> IF Files[i] \in S THEN <<>> ELSE Passwords(Files[i])]
<1>2. s = <<>> /\ Len(s) = 0
  BY <1>1
<1>3. WantedOf(n, S) = FlattenSeq(s)
  BY DEF WantedOf
<1> HIDE DEF s
<1>4. FlattenSeq(s) = <<>>
  BY <1>2, Zenon DEF FlattenSeq
<1> QED
  BY <1>1, <1>3, <1>4, Zenon

\* A file that is left out from now on does not change what was wanted of the
\* files before it.
LEMMA WantedSkips ==
    ASSUME NEW n \in 1..Len(Files), NEW S
    PROVE  WantedOf(n, S \cup {Files[n]}) = WantedOf(n, S)
<1>1. Len(Files) \in Nat /\ \A i, j \in 1..Len(Files) : Files[i] = Files[j] => i = j
  BY FileType, ExtractorAssumption
<1>2. \A i \in 1..(n - 1) : i \in 1..Len(Files) /\ i # n
  BY <1>1
<1>3. \A i \in 1..(n - 1) : Files[i] \in S \cup {Files[n]} <=> Files[i] \in S
  BY <1>1, <1>2
<1>4. [i \in 1..(n - 1) |-> IF Files[i] \in S \cup {Files[n]} THEN <<>> ELSE Passwords(Files[i])]
      = [i \in 1..(n - 1) |-> IF Files[i] \in S THEN <<>> ELSE Passwords(Files[i])]
  BY <1>3
<1> QED
  BY <1>4, Zenon DEF WantedOf

-----------------------------------------------------------------------------
(* Texts that are the same, but for what is mangled.                       *)

LEMMA SameAppend ==
    ASSUME NEW T, NEW a \in Seq(T), NEW b \in Seq(T), SameText(a, b),
           NEW y \in T, NEW x \in T, x \in Written(y)
    PROVE  SameText(Append(a, x), Append(b, y))
<1> DEFINE c == Append(a, x)
           d == Append(b, y)
<1>1. /\ Len(a) \in Nat /\ Len(a) = Len(b) /\ Len(c) = Len(a) + 1 /\ Len(d) = Len(a) + 1
      /\ c[Len(a) + 1] = x /\ d[Len(a) + 1] = y
      /\ \A i \in 1..Len(a) : c[i] = a[i] /\ d[i] = b[i]
  BY DEF SameText
<1> HIDE DEF c, d
<1>2. \A i \in 1..Len(c) : i \in 1..Len(a) \/ i = Len(a) + 1
  BY <1>1
<1>3. \A i \in 1..Len(a) : c[i] \in Written(d[i])
  BY <1>1, Zenon DEF SameText
<1>4. \A i \in 1..Len(c) : c[i] \in Written(d[i])
  BY <1>1, <1>2, <1>3, Zenon
<1>5. SameText(c, d)
  BY <1>1, <1>4, Zenon DEF SameText
<1> QED
  BY <1>5 DEF c, d

LEMMA WrittenTexts ==
    ASSUME NEW y \in Texts, NEW x \in Written(y)
    PROVE  x \in Texts
<1>1. x = y \/ x = Mangled
  BY Zenon DEF Written
<1>2. Mangled \in Texts
  BY Zenon DEF Texts
<1> QED
  BY <1>1, <1>2

LEMMA NotNoReader == \A r : IsReader(r) => r # NoReader /\ r # Broken
BY DEF IsReader, NoReader, Broken

LEMMA BrokenReader == Broken # NoReader /\ ~Broken.eof
<1>1. Broken.eof = FALSE /\ NoReader.eof = TRUE
  BY DEF NoReader, Broken
<1> QED
  BY <1>1, Zenon

LEMMA AppendLast ==
    ASSUME NEW T, NEW w \in Seq(T), NEW u \in Seq(T), NEW x \in T
    PROVE  w \o Append(u, x) = Append(w \o u, x)
<1> DEFINE a == w \o Append(u, x)
           b == Append(w \o u, x)
           m == Len(w) + Len(u)
<1>1. m \in Nat /\ a \in Seq(T) /\ b \in Seq(T) /\ Len(a) = m + 1 /\ Len(b) = m + 1
  OBVIOUS
<1>2. \A i \in 1..(m + 1) : a[i] = b[i]
  OBVIOUS
<1> HIDE DEF a, b, m
<1>3. a = b
  BY <1>1, <1>2
<1> QED
  BY <1>3 DEF a, b

\* One more password
LEMMA DueAppend ==
    ASSUME NEW n \in 1..Len(Files), NEW S, NEW r, IsReader(r), NEW q, IsReader(q),
           r.pos \in 0..(Len(Contents[Files[n]]) - 1), q.pos = r.pos + 1
    PROVE  Due(n, S, q) = Append(Due(n, S, r), Passwords(Files[n])[r.pos + 1])
<1> DEFINE p == Passwords(Files[n])
           w == WantedOf(n, S)
           k == r.pos
<1>1. p \in Seq(Texts) /\ Len(p) = Len(Contents[Files[n]]) /\ w \in Seq(Texts)
  BY FileType, PasswordsType, WantedNext
<1>2. Due(n, S, q) = w \o SubSeq(p, 1, k + 1) /\ Due(n, S, r) = w \o SubSeq(p, 1, k)
  BY NotNoReader DEF Due
<1>3. k \in 0..(Len(p) - 1)
  BY <1>1
<1> HIDE DEF p, w, k
<1>4. /\ SubSeq(p, 1, k) \in Seq(Texts) /\ p[k + 1] \in Texts
      /\ SubSeq(p, 1, k + 1) = Append(SubSeq(p, 1, k), p[k + 1])
  BY <1>1, <1>3
<1>5. w \o Append(SubSeq(p, 1, k), p[k + 1]) = Append(w \o SubSeq(p, 1, k), p[k + 1])
  <2> DEFINE u == SubSeq(p, 1, k)
             x == p[k + 1]
  <2>1. u \in Seq(Texts) /\ x \in Texts
    BY <1>4
  <2> HIDE DEF u, x
  <2>2. w \o Append(u, x) = Append(w \o u, x)
    BY ONLY <1>1, <2>1, AppendLast
  <2> QED
    BY <2>2 DEF u, x
<1> QED
  BY <1>2, <1>4, <1>5 DEF p, k

-----------------------------------------------------------------------------
(* The invariant of an extraction.                                         *)

Missing == alreadyProcessed \cup skipped

\* There are files only in work, and after it.
Placed ==
    /\ fileNo \in 0..(Len(Files) + 1)
    /\ fileNo = 0 => reader = NoReader
    /\ fileNo # 0 => prog = "extractor" /\ pc \in {"work", "exit"}

InFile(f) ==
    /\ IsReader(reader) /\ reader.lines = Contents[f]
    /\ reader.separator = ReaderOf(f).separator
    /\ reader.pos \in 0..Len(Contents[f])
    /\ reader.eof <=> reader.pos = Len(Contents[f])

\* The reader is somewhere in the current file, which is not left out, or there
\* was an error.
Reading ==
    reader # NoReader =>
      LET f == Files[fileNo]
      IN /\ fileNo \in 1..Len(Files) /\ f \notin Missing
         /\ reader # Broken => InFile(f)

\* What could not be opened is behind.
Behind == fileNo # 0 => \A f \in skipped : \E i \in 1..Len(Files) : i < fileNo /\ f = Files[i]

OutputType == out \in Seq(Texts) /\ buffered \in Seq(Texts) /\ lost \in BOOLEAN

\* On disk and in the buffer is what was read so far.
SoFar ==
    Working /\ fileNo # 0 /\ ~lost /\ reader # Broken =>
      SameText(out \o buffered, Due(fileNo, Missing, reader))

EInv == Placed /\ Reading /\ Behind /\ OutputType /\ SoFar /\ ExtractsAll

LEMMA EInvInit == Init => EInv
<1> SUFFICES ASSUME Init PROVE EInv
  OBVIOUS
<1>1. Len(Files) \in Nat /\ fileNo = 0 /\ reader = NoReader /\ out = <<>> /\ buffered = <<>>
  BY FileType DEF Init
<1>5. lost \in BOOLEAN
  BY Zenon DEF Init
<1>2. 0 # Len(Files) + 1
  BY <1>1
<1>3. Placed
  BY <1>1 DEF Placed
<1>4. OutputType
  BY <1>1, <1>5 DEF OutputType
<1> QED
  BY <1>1, <1>2, <1>3, <1>4, Zenon DEF EInv, Reading, Behind, SoFar, ExtractsAll

\* A step in which no file is worked on.
LEMMA NoFile ==
    ASSUME EInv, fileNo' = 0, reader' = NoReader, UNCHANGED <<out, buffered, lost>>
    PROVE  EInv'
<1>1. Len(Files) \in Nat
  BY FileType
<1>2. 0 # Len(Files) + 1
  BY <1>1
<1>3. Placed'
  BY <1>1 DEF Placed
<1>4. OutputType'
  BY DEF EInv, OutputType
<1> QED
  BY <1>2, <1>3, <1>4, Zenon DEF EInv, Reading, Behind, SoFar, ExtractsAll

LEMMA BeginStep == EInv /\ BeginExtraction => EInv'
<1> SUFFICES ASSUME EInv, BeginExtraction PROVE EInv'
  OBVIOUS
<1>9. \/ fileNo' = 1 /\ reader' = NoReader /\ pc' = "work" /\ prog' = "extractor"
      \/ fileNo' = 0 /\ reader' = NoReader
  <2>1. fileNo = 0 /\ reader = NoReader
    BY DEF EInv, Placed, BeginExtraction
  <2> QED
    BY <2>1 DEF BeginExtraction, Working, startVars
<1>10. skipped' = {} /\ out' = <<>> /\ buffered' = <<>>
  BY DEF BeginExtraction
<1>11. lost' \in BOOLEAN
  BY Zenon DEF BeginExtraction
<1>12. CASE fileNo' = 0 /\ reader' = NoReader
  <2>1. Len(Files) \in Nat /\ 0 # Len(Files) + 1
    BY FileType
  <2>2. Placed' /\ OutputType'
    BY <1>10, <1>11, <1>12, <2>1 DEF Placed, OutputType
  <2> QED
    BY <1>12, <2>1, <2>2, Zenon DEF EInv, Reading, Behind, SoFar, ExtractsAll
<1> SUFFICES ASSUME fileNo' = 1, reader' = NoReader, pc' = "work", prog' = "extractor" PROVE EInv'
  BY <1>9, <1>12
<1>1. /\ fileNo' = 1 /\ reader' = NoReader /\ skipped' = {} /\ out' = <<>> /\ buffered' = <<>>
      /\ pc' = "work" /\ prog' = "extractor"
  BY <1>10
<1>2. Len(Files) \in Nat /\ 1 # 0
  BY FileType
<1>3. Placed'
  BY <1>1, <1>2 DEF Placed
<1>4. OutputType'
  BY <1>1, <1>11 DEF OutputType
<1>5. Behind'
  BY <1>1 DEF Behind
<1>6. SoFar'
  <2>1. Due(fileNo', Missing', reader') = <<>>
    BY <1>1, WantedFirst DEF Due
  <2>2. out' \o buffered' = <<>>
    BY <1>1
  <2>3. SameText(<<>>, <<>>)
    BY DEF SameText
  <2>4. SameText(out' \o buffered', Due(fileNo', Missing', reader'))
    BY <2>1, <2>2, <2>3, Zenon
  <2> QED
    BY <2>4 DEF SoFar
<1>7. Reading'
  BY <1>1 DEF Reading
<1>8. ExtractsAll'
  BY <1>1 DEF ExtractsAll
<1> QED
  BY <1>3, <1>4, <1>5, <1>6, <1>7, <1>8 DEF EInv

\* A file is over, or left out.
LEMMA NextStep ==
    ASSUME EInv, Working, fileNo \in 1..Len(Files), NextFile,
           UNCHANGED <<startVars, out, buffered, alreadyProcessed, lost>>,
           \/ reader = NoReader /\ Files[fileNo] \in Missing /\ UNCHANGED skipped
           \/ reader = NoReader /\ skipped' = skipped \cup {Files[fileNo]}
           \/ FileDone /\ UNCHANGED skipped
    PROVE  EInv'
<1>0. reader # Broken
  BY BrokenReader DEF FileDone
<1>1. /\ Len(Files) \in Nat /\ fileNo' = fileNo + 1 /\ reader' = NoReader
      /\ pc' = "work" /\ prog' = "extractor" /\ out' = out /\ buffered' = buffered
      /\ lost' = lost
  BY FileType DEF NextFile, Working, startVars
<1>2. Placed'
  BY <1>1 DEF Placed
<1>3. OutputType'
  BY <1>1 DEF EInv, OutputType
<1>4. Behind'
  <2> SUFFICES ASSUME NEW f \in skipped' PROVE \E i \in 1..Len(Files) : i < fileNo + 1 /\ f = Files[i]
    BY <1>1 DEF Behind
  <2>1. f \in skipped \/ f = Files[fileNo]
    OBVIOUS
  <2>2. f \in skipped => \E i \in 1..Len(Files) : i < fileNo /\ f = Files[i]
    BY DEF EInv, Behind
  <2> QED
    BY <1>1, <2>1, <2>2
<1>5. Reading'
  BY <1>1 DEF Reading
<1>6. ExtractsAll'
  BY <1>1 DEF ExtractsAll
<1>7. Due(fileNo', Missing', reader') = Due(fileNo, Missing, reader)
  <2>1. /\ Due(fileNo', Missing', reader') = WantedOf(fileNo + 1, Missing')
        /\ reader = NoReader => Due(fileNo, Missing, reader) = WantedOf(fileNo, Missing)
    BY <1>1 DEF Due
  <2>2. CASE reader = NoReader /\ Files[fileNo] \in Missing /\ UNCHANGED skipped
    <3>1. Missing' = Missing
      BY <2>2 DEF Missing
    <3> QED
      BY <2>1, <2>2, <3>1, WantedNext
  <2>3. CASE reader = NoReader /\ skipped' = skipped \cup {Files[fileNo]}
    <3>1. Missing' = Missing \cup {Files[fileNo]}
      BY <2>3 DEF Missing
    <3>2. WantedOf(fileNo + 1, Missing') = WantedOf(fileNo, Missing')
      BY <3>1, WantedNext
    <3>3. WantedOf(fileNo, Missing') = WantedOf(fileNo, Missing)
      BY <3>1, WantedSkips
    <3> QED
      BY <2>1, <2>3, <3>2, <3>3, Zenon
  <2>4. CASE FileDone /\ UNCHANGED skipped
    <3> DEFINE f == Files[fileNo]
    <3>1. Missing' = Missing
      BY <2>4 DEF Missing
    <3>2. f \notin Missing /\ reader.pos = Len(Contents[f]) /\ reader # NoReader
      BY <1>0, <2>4 DEF EInv, Reading, InFile, FileDone
    <3>3. f \in DOMAIN Contents
      BY FileType
    <3>4. Passwords(f) \in Seq(Texts) /\ Len(Passwords(f)) = Len(Contents[f])
      BY <3>3, PasswordsType
    <3>5. SubSeq(Passwords(f), 1, reader.pos) = Passwords(f)
      BY <3>2, <3>4
    <3>6. WantedOf(fileNo + 1, Missing) = WantedOf(fileNo, Missing) \o Passwords(f)
      BY <3>2, WantedNext
    <3>7. Due(fileNo, Missing, reader) = WantedOf(fileNo, Missing) \o Passwords(f)
      BY <3>2, <3>5, Zenon DEF Due
    <3> QED
      BY <2>1, <3>1, <3>6, <3>7, Zenon
  <2> QED
    BY <2>2, <2>3, <2>4
<1>8. SoFar'
  <2>1. fileNo # 0
    OBVIOUS
  <2>2. ~lost => SameText(out \o buffered, Due(fileNo, Missing, reader))
    BY <1>0, <2>1, Zenon DEF EInv, SoFar
  <2>3. out' \o buffered' = out \o buffered
    BY <1>1, Zenon
  <2>4. ~lost' => SameText(out' \o buffered', Due(fileNo', Missing', reader'))
    <3>1. ~lost' => ~lost
      <4>1. lost \in BOOLEAN
        BY DEF EInv, OutputType
      <4> QED
        BY <1>1, <4>1
    <3>2. ASSUME SameText(out \o buffered, Due(fileNo, Missing, reader))
          PROVE  SameText(out' \o buffered', Due(fileNo', Missing', reader'))
      BY ONLY <1>7, <2>3, <3>2, Zenon
    <3> QED
      BY <2>2, <3>1, <3>2, Zenon
  <2> QED
    BY <2>4, Zenon DEF SoFar
<1> QED
  BY <1>2, <1>3, <1>4, <1>5, <1>6, <1>8 DEF EInv

LEMMA OpenStep == EInv /\ OpenFile => EInv'
<1> SUFFICES ASSUME EInv, OpenFile PROVE EInv'
  OBVIOUS
<1> DEFINE f == Files[fileNo]
<1>1. /\ Working /\ fileNo \in 1..Len(Files) /\ reader = NoReader
      /\ UNCHANGED <<startVars, out, buffered, alreadyProcessed, lost>>
  BY DEF OpenFile, files
<1>2. CASE f \in alreadyProcessed /\ NextFile /\ UNCHANGED skipped
  <2>1. f \in Missing
    BY <1>2 DEF Missing
  <2> QED
    BY <1>1, <1>2, <2>1, NextStep
<1>3. CASE NextFile /\ skipped' = skipped \cup {f}
  BY <1>1, <1>3, NextStep
<1>4. CASE f \notin alreadyProcessed /\ reader' = ReaderOf(f) /\ UNCHANGED <<fileNo, skipped>>
  <2>1. /\ Len(Files) \in Nat /\ f \in DOMAIN Contents /\ Missing' = Missing
        /\ pc' = "work" /\ prog' = "extractor" /\ fileNo' = fileNo
        /\ out' = out /\ buffered' = buffered /\ lost' = lost /\ skipped' = skipped
    BY <1>1, <1>4, FileType DEF Working, startVars, Missing
  <2>2. Fresh(reader', Contents[f])
    BY <1>4, ReaderIsFresh, Zenon DEF ReaderOf
  <2>3. IsReader(reader') /\ reader'.pos = 0 /\ reader' # NoReader /\ reader # Broken
    BY <1>1, <2>2, NotNoReader, BrokenReader, Zenon DEF Fresh
  <2>4. Placed'
    BY <1>1, <2>1 DEF Placed, EInv
  <2>5. OutputType'
    BY <2>1 DEF OutputType, EInv
  <2>6. Behind'
    BY <2>1 DEF Behind, EInv
  <2>7. f \notin Missing
    <3> SUFFICES ASSUME f \in skipped PROVE FALSE
      BY <1>4 DEF Missing
    <3>1. PICK i \in 1..Len(Files) : i < fileNo /\ f = Files[i]
      BY <1>1 DEF EInv, Behind
    <3>2. i = fileNo
      BY <1>1, <3>1, ExtractorAssumption
    <3> QED
      BY <1>1, <3>1, <3>2
  <2>8. Reading'
    <3>1. Len(Contents[f]) \in Nat /\ Len(Contents[f]) # 0
      BY <2>1, ExtractorAssumption
    <3>2. 0 \in 0..Len(Contents[f]) /\ 0 # Len(Contents[f])
      BY <3>1
    <3>3. /\ reader'.pos \in 0..Len(Contents[f]) /\ reader'.pos # Len(Contents[f])
          /\ reader'.lines = Contents[f] /\ ~reader'.eof
      BY <2>2, <3>2, Zenon DEF Fresh
    <3> QED
      BY <1>1, <1>4, <2>1, <2>3, <2>7, <3>3, Zenon DEF Reading, InFile
  <2>9. ExtractsAll'
    BY <2>1 DEF ExtractsAll
  <2>10. Due(fileNo', Missing', reader') = Due(fileNo, Missing, reader)
    <3>1. SubSeq(Passwords(f), 1, 0) = <<>>
      BY <2>1, PasswordsType
    <3>2. WantedOf(fileNo, Missing) \o <<>> = WantedOf(fileNo, Missing)
      <4>1. WantedOf(fileNo, Missing) \in Seq(Texts)
        BY <1>1, WantedNext
      <4> QED
        BY <4>1
    <3>3. Due(fileNo, Missing, reader') = WantedOf(fileNo, Missing)
      BY <2>3, <3>1, <3>2, Zenon DEF Due
    <3>4. Due(fileNo, Missing, reader) = WantedOf(fileNo, Missing)
      BY <1>1, Zenon DEF Due
    <3> QED
      BY <2>1, <3>3, <3>4, Zenon
  <2>11. SoFar'
    <3>1. fileNo # 0 /\ lost \in BOOLEAN
      BY <1>1 DEF EInv, OutputType
    <3>2. ~lost => SameText(out \o buffered, Due(fileNo, Missing, reader))
      BY <1>1, <2>3, <3>1, Zenon DEF EInv, SoFar
    <3>3. ~lost' => ~lost
      BY <2>1, <3>1
    <3>4. ASSUME SameText(out \o buffered, Due(fileNo, Missing, reader))
          PROVE  SameText(out' \o buffered', Due(fileNo', Missing', reader'))
      <4>1. out' = out /\ buffered' = buffered
        BY <2>1
      <4> QED
        BY ONLY <2>10, <3>4, <4>1, Zenon
    <3> QED
      BY <3>2, <3>3, <3>4, Zenon DEF SoFar
  <2> QED
    BY <2>4, <2>5, <2>6, <2>8, <2>9, <2>11 DEF EInv
<1> QED
  BY <1>2, <1>3, <1>4 DEF OpenFile

LEMMA NoteStep == EInv /\ NoteReady => EInv'
<1> SUFFICES ASSUME EInv, NoteReady PROVE EInv'
  OBVIOUS
<1>1. /\ Working /\ FileDone /\ NextFile /\ UNCHANGED skipped
      /\ UNCHANGED <<startVars, out, buffered, alreadyProcessed, lost>>
  BY DEF NoteReady
<1>2. fileNo \in 1..Len(Files)
  BY <1>1 DEF FileDone, EInv, Reading
<1> QED
  BY <1>1, <1>2, NextStep

\* The reader goes on, and nothing else of where the run is changes.
LEMMA ReadOn ==
    ASSUME EInv, Working, reader # NoReader, reader # Broken, ~reader.eof, reader' = Advance(reader, 1),
           UNCHANGED <<prog, alreadyProcessed, skipped, fileNo>>, pc' \in {"work", "exit"}
    PROVE  /\ Placed' /\ Reading' /\ Behind'
           /\ reader.pos \in 0..(Len(Contents[Files[fileNo]]) - 1)
           /\ Due(fileNo', Missing', reader')
              = Append(Due(fileNo, Missing, reader), Passwords(Files[fileNo])[reader.pos + 1])
<1> DEFINE f == Files[fileNo]
<1>1. /\ fileNo \in 1..Len(Files) /\ f \notin Missing /\ IsReader(reader)
      /\ reader.lines = Contents[f] /\ reader.separator = ReaderOf(f).separator
      /\ reader.pos \in 0..Len(Contents[f]) /\ reader.pos # Len(Contents[f])
  BY DEF EInv, Reading, InFile
<1>2. Len(Contents[f]) \in Nat
  <2>1. Contents[f] \in Seq(Seq(STRING))
    BY <1>1, FileType, ExtractorAssumption
  <2> QED
    BY <2>1
<1>3. /\ IsReader(reader') /\ reader'.lines = Contents[f]
      /\ reader'.separator = ReaderOf(f).separator
      /\ reader'.pos = reader.pos + 1 /\ (reader'.eof <=> reader.pos + 1 = Len(Contents[f]))
  <2>1. /\ IsReader(Advance(reader, 1)) /\ Advance(reader, 1).lines = reader.lines
        /\ Advance(reader, 1).separator = reader.separator
        /\ Advance(reader, 1).pos = reader.pos + 1
        /\ Advance(reader, 1).eof <=> reader.pos + 1 = Len(reader.lines)
    BY <1>1, AdvanceFields
  <2> QED
    BY <1>1, <2>1, Zenon
<1>4. Missing' = Missing
  BY DEF Missing
<1>5. reader.pos \in 0..(Len(Contents[f]) - 1) /\ reader.pos + 1 \in 0..Len(Contents[f])
  BY <1>1, <1>2
<1>6. Reading'
  <2>1. reader'.pos \in 0..Len(Contents[f]) /\ (reader'.eof <=> reader'.pos = Len(Contents[f]))
    BY <1>3, <1>5, Zenon
  <2> QED
    BY <1>1, <1>3, <1>4, <2>1, Zenon DEF Reading, InFile
<1>7. Placed'
  BY <1>1 DEF EInv, Placed, Working
<1>8. Behind'
  BY DEF EInv, Behind
<1>9. Due(fileNo, Missing, reader')
      = Append(Due(fileNo, Missing, reader), Passwords(f)[reader.pos + 1])
  BY <1>1, <1>3, <1>5, DueAppend
<1> QED
  BY <1>4, <1>5, <1>6, <1>7, <1>8, <1>9, Zenon

LEMMA DueType ==
    ASSUME EInv, fileNo \in 1..Len(Files), reader # Broken
    PROVE  Due(fileNo, Missing, reader) \in Seq(Texts)
<1>1. WantedOf(fileNo, Missing) \in Seq(Texts)
  BY WantedNext
<1>2. CASE reader = NoReader
  BY <1>1, <1>2 DEF Due
<1>3. CASE reader # NoReader
  <2> DEFINE p == Passwords(Files[fileNo])
  <2>1. p \in Seq(Texts) /\ Len(p) = Len(Contents[Files[fileNo]])
    BY FileType, PasswordsType
  <2>2. reader.pos \in 0..Len(p)
    BY <1>3, <2>1 DEF EInv, Reading, InFile
  <2> HIDE DEF p
  <2>3. WantedOf(fileNo, Missing) \o SubSeq(p, 1, reader.pos) \in Seq(Texts)
    BY <1>1, <2>1, <2>2
  <2> QED
    BY <1>3, <2>3, Zenon DEF Due, p
<1> QED
  BY <1>2, <1>3

LEMMA WriteStep ==
    ASSUME \A f \in DOMAIN Contents : Colons(f), EInv, WritePassword
    PROVE  EInv'
<1> DEFINE f == Files[fileNo]
           y == Passwords(f)[reader.pos + 1]
<1>1. /\ Working /\ reader # NoReader /\ reader # Broken /\ ~reader.eof
      /\ reader' = Advance(reader, 1)
      /\ UNCHANGED <<prog, alreadyProcessed, skipped, fileNo>> /\ pc' \in {"work", "exit"}
  BY DEF WritePassword, startVars, Working, Exit
<1>2. /\ fileNo \in 1..Len(Files) /\ reader.lines = Contents[f]
      /\ reader.separator = ReaderOf(f).separator
  BY <1>1 DEF EInv, Reading, InFile
<1>3. f \in DOMAIN Contents /\ Len(Files) \in Nat
  BY <1>2, FileType
<1>4. /\ Placed' /\ Reading' /\ Behind' /\ reader.pos \in 0..(Len(Contents[f]) - 1)
      /\ Due(fileNo', Missing', reader') = Append(Due(fileNo, Missing, reader), y)
  BY <1>1, ReadOn
<1>5. Len(Contents[f]) \in Nat
  <2>1. Contents[f] \in Seq(Seq(STRING))
    BY <1>3, ExtractorAssumption
  <2> QED
    BY <2>1
<1>6. reader.pos \in Nat /\ reader.pos + 1 \in 1..Len(Contents[f])
  BY <1>4, <1>5
<1>7. NextPassword(reader, 1) = y /\ y \in Texts
  <2>1. NextPassword(reader, 1) = Line(Contents[f][reader.pos + 1])
    BY <1>2, <1>3, <1>6, LineRead
  <2>2. Passwords(f) \in Seq(Texts) /\ Len(Passwords(f)) = Len(Contents[f])
    BY <1>3, PasswordsType
  <2>3. y = Line(Contents[f][reader.pos + 1])
    BY <1>3, <1>6, PasswordsType
  <2>4. y \in Texts
    BY <1>6, <2>2
  <2> QED
    BY <2>1, <2>3, <2>4, Zenon
<1>8. out \in Seq(Texts) /\ buffered \in Seq(Texts) /\ lost \in BOOLEAN
  BY DEF EInv, OutputType
<1>9. ExtractsAll'
  <2>1. fileNo' # Len(Files) + 1
    BY <1>1, <1>2, <1>3
  <2> QED
    BY <2>1, Zenon DEF ExtractsAll
<1> HIDE DEF y
<1>10. CASE /\ \E text \in Written(NextPassword(reader, 1)) : buffered' = Append(buffered, text)
            /\ UNCHANGED <<out, lost>>
  <2>1. PICK text \in Written(y) : buffered' = Append(buffered, text)
    BY <1>7, <1>10, Zenon
  <2>2. text \in Texts
    BY <1>7, WrittenTexts
  <2>3. OutputType'
    BY <1>8, <1>10, <2>1, <2>2 DEF OutputType
  <2>4. SoFar'
    <3>1. fileNo # 0
      BY <1>2
    <3>2. ~lost => SameText(out \o buffered, Due(fileNo, Missing, reader))
      BY <1>1, <3>1, Zenon DEF EInv, SoFar
    <3>3. ~lost' => ~lost
      BY <1>8, <1>10
    <3>4. out' \o buffered' = Append(out \o buffered, text) /\ out \o buffered \in Seq(Texts)
      BY <1>8, <1>10, <2>1, <2>2
    <3>5. Due(fileNo, Missing, reader) \in Seq(Texts)
      BY <1>1, <1>2, DueType
    <3>6. ASSUME SameText(out \o buffered, Due(fileNo, Missing, reader))
          PROVE  SameText(Append(out \o buffered, text), Append(Due(fileNo, Missing, reader), y))
      BY <1>7, <2>1, <2>2, <3>4, <3>5, <3>6, SameAppend
    <3> QED
      BY <1>4, <3>2, <3>3, <3>4, <3>6, Zenon DEF SoFar
  <2> QED
    BY <1>4, <1>9, <2>3, <2>4 DEF EInv
<1>11. CASE lost' = TRUE /\ UNCHANGED <<out, buffered>>
  <2>1. OutputType'
    <3>1. lost' \in BOOLEAN
      BY <1>11, Zenon
    <3> QED
      BY <1>8, <1>11, <3>1 DEF OutputType
  <2>2. SoFar'
    <3>1. lost'
      BY <1>11, Zenon
    <3> QED
      BY <3>1, Zenon DEF SoFar
  <2> QED
    BY <1>4, <1>9, <2>1, <2>2 DEF EInv
<1>12. CASE Exit("failure") /\ out' = out \o buffered /\ buffered' = <<>> /\ UNCHANGED lost
  <2>1. OutputType'
    BY <1>8, <1>12 DEF OutputType
  <2>2. SoFar'
    BY <1>12 DEF SoFar, Working, Exit
  <2> QED
    BY <1>4, <1>9, <2>1, <2>2 DEF EInv
<1> QED
  BY <1>10, <1>11, <1>12 DEF WritePassword

LEMMA FlushStep == EInv /\ Flush => EInv'
<1> SUFFICES ASSUME EInv, Flush PROVE EInv'
  OBVIOUS
<1>1. /\ Working /\ buffered # <<>> /\ out' = Append(out, Head(buffered)) /\ buffered' = Tail(buffered)
      /\ prog' = prog /\ pc' = pc /\ alreadyProcessed' = alreadyProcessed /\ fileNo' = fileNo
      /\ reader' = reader /\ skipped' = skipped /\ lost' = lost
  BY DEF Flush, startVars
<1>2. out \in Seq(Texts) /\ buffered \in Seq(Texts) /\ lost \in BOOLEAN
  BY DEF EInv, OutputType
<1>3. Missing' = Missing
  BY <1>1 DEF Missing
<1>4. Placed' /\ Behind'
  BY <1>1 DEF EInv, Placed, Behind
<1>5. Reading'
  BY <1>1, <1>3, Zenon DEF EInv, Reading, InFile
<1>6. out' \in Seq(Texts) /\ buffered' \in Seq(Texts) /\ out' \o buffered' = out \o buffered
  <2>1. /\ Head(buffered) \in Texts /\ Tail(buffered) \in Seq(Texts)
        /\ buffered = <<Head(buffered)>> \o Tail(buffered)
    BY <1>1, <1>2
  <2>2. \A a, c \in Seq(Texts), x \in Texts : Append(a, x) \o c = a \o (<<x>> \o c)
    OBVIOUS
  <2>3. Append(out, Head(buffered)) \o Tail(buffered) = out \o (<<Head(buffered)>> \o Tail(buffered))
    BY <1>2, <2>1, <2>2
  <2>4. Append(out, Head(buffered)) \in Seq(Texts)
    BY <1>2, <2>1
  <2> QED
    BY <1>1, <2>1, <2>3, <2>4, Zenon
<1>7. OutputType'
  BY <1>1, <1>2, <1>6 DEF OutputType
<1>8. ExtractsAll'
  BY <1>1 DEF ExtractsAll, Working
<1>9. SoFar'
  <2>1. ~lost' => ~lost
    BY <1>1, <1>2
  <2>2. Working' <=> Working
    BY <1>1 DEF Working
  <2>3. ~lost /\ fileNo # 0 /\ reader # Broken => SameText(out \o buffered, Due(fileNo, Missing, reader))
    BY <1>1, Zenon DEF EInv, SoFar
  <2>4. Due(fileNo', Missing', reader') = Due(fileNo, Missing, reader)
    BY <1>1, <1>3, Zenon
  <2>5. ASSUME SameText(out \o buffered, Due(fileNo, Missing, reader))
        PROVE  SameText(out' \o buffered', Due(fileNo', Missing', reader'))
    BY <1>6, <2>4, <2>5, Zenon
  <2> QED
    BY <1>1, <2>1, <2>3, <2>5, Zenon DEF SoFar
<1> QED
  BY <1>4, <1>5, <1>7, <1>8, <1>9 DEF EInv

\* A read fails: the reader is in its file, but nobody knows where.
LEMMA FailStep == EInv /\ ReadFails => EInv'
<1> SUFFICES ASSUME EInv, ReadFails PROVE EInv'
  OBVIOUS
<1>1. /\ Working /\ reader # NoReader /\ reader' = Broken
      /\ prog' = prog /\ pc' = pc /\ alreadyProcessed' = alreadyProcessed /\ fileNo' = fileNo
      /\ out' = out /\ buffered' = buffered /\ skipped' = skipped /\ lost' = lost
  BY DEF ReadFails, startVars, files
<1>2. Missing' = Missing /\ fileNo \in 1..Len(Files) /\ Files[fileNo] \notin Missing /\ Len(Files) \in Nat
  BY <1>1, FileType DEF EInv, Reading, Missing
<1>3. Reading'
  BY <1>1, <1>2, Zenon DEF Reading
<1>4. Placed' /\ Behind'
  BY <1>1, <1>2 DEF EInv, Placed, Behind
<1>5. OutputType'
  BY <1>1 DEF EInv, OutputType
<1>6. SoFar'
  BY <1>1, Zenon DEF SoFar
<1>7. ExtractsAll'
  BY <1>1 DEF ExtractsAll, Working
<1> QED
  BY <1>3, <1>4, <1>5, <1>6, <1>7 DEF EInv

\* The end, however it comes.
LEMMA EndStep ==
    ASSUME EInv, Finish \/ WritesNothing \/ Kill
    PROVE  EInv'
<1>1. /\ Working /\ pc' = "exit" /\ prog' = prog /\ buffered' = <<>>
      /\ alreadyProcessed' = alreadyProcessed /\ fileNo' = fileNo
      /\ reader' = reader /\ skipped' = skipped /\ lost' = lost
      /\ out' = out \o buffered \/ out' = out
  BY DEF Finish, WritesNothing, Kill, Exit
<1>2. out \in Seq(Texts) /\ buffered \in Seq(Texts) /\ lost \in BOOLEAN /\ Len(Files) \in Nat
  BY FileType DEF EInv, OutputType
<1>3. Missing' = Missing
  BY <1>1 DEF Missing
<1>4. Placed' /\ Behind'
  BY <1>1 DEF EInv, Placed, Behind, Working
<1>5. Reading'
  BY <1>1, <1>3, Zenon DEF EInv, Reading, InFile
<1>6. OutputType'
  <2>1. <<>> \in Seq(Texts) /\ out \o buffered \in Seq(Texts)
    BY <1>2
  <2>2. out' \in Seq(Texts) /\ buffered' \in Seq(Texts)
    BY <1>1, <1>2, <2>1, Zenon
  <2> QED
    BY <1>1, <1>2, <2>2 DEF OutputType
<1>7. SoFar'
  BY <1>1 DEF SoFar, Working
<1>8. ExtractsAll'
  <2> SUFFICES ASSUME exit' = "success", ~lost', fileNo = Len(Files) + 1
               PROVE  SameText(out', Wanted(fileNo)')
    BY <1>1, Zenon DEF ExtractsAll
  <2>1. out' = out \o buffered
    BY DEF Finish, WritesNothing, Kill, Exit
  <2>2. ~lost /\ fileNo # 0
    BY <1>1, <1>2
  <2>3. reader = NoReader
    <3> SUFFICES ASSUME reader # NoReader PROVE FALSE
      OBVIOUS
    <3>1. fileNo \in 1..Len(Files)
      BY DEF EInv, Reading
    <3> QED
      BY <1>2, <3>1
  <2>4. SameText(out \o buffered, Due(fileNo, Missing, reader))
    BY <1>1, <2>2, <2>3, BrokenReader, Zenon DEF EInv, SoFar
  <2>5. Due(fileNo, Missing, reader) = WantedOf(fileNo, Missing)
    BY <2>3, Zenon DEF Due
  <2>6. Wanted(fileNo)' = WantedOf(fileNo', Missing')
    BY Zenon DEF Wanted, Parts, WantedOf, Missing
  <2> QED
    BY <1>1, <1>3, <2>1, <2>4, <2>5, <2>6, Zenon
<1> QED
  BY <1>4, <1>5, <1>6, <1>7, <1>8 DEF EInv

LEMMA EInvNext ==
    ASSUME \A f \in DOMAIN Contents : Colons(f), EInv, [Next]_vars
    PROVE  EInv'
<1>1. CASE StartUp /\ UNCHANGED extractVars
  <2>1. pc \notin {"exit", "work"}
    BY <1>1 DEF StartUp, ParseOptions, ShowInfo, CheckOptions, CorrectNumber, DivideByNumber,
       ScanDirectory, CheckOther, OpenInput, AskToOverwrite, CutOutput, ParseAddress
  <2>2. fileNo = 0 /\ reader = NoReader
    BY <2>1 DEF EInv, Placed
  <2>3. fileNo' = 0 /\ reader' = NoReader /\ UNCHANGED <<out, buffered, lost>>
    BY <1>1, <2>2 DEF extractVars, files
  <2> QED
    BY <2>3, NoFile
<1>2. CASE TestLoad /\ UNCHANGED extractVars
  <2>1. fileNo = 0 /\ reader = NoReader
    BY <1>2 DEF TestLoad, EInv, Placed
  <2>2. fileNo' = 0 /\ reader' = NoReader /\ UNCHANGED <<out, buffered, lost>>
    BY <1>2, <2>1 DEF extractVars, files
  <2> QED
    BY <2>2, NoFile
<1>3. CASE StartAgain
  <2>1. fileNo' = 0 /\ reader' = NoReader /\ UNCHANGED <<out, buffered, lost>>
    BY <1>3 DEF StartAgain, files
  <2> QED
    BY <2>1, NoFile
<1>4. CASE UNCHANGED vars
  BY <1>4, Zenon DEF vars, startVars, extractVars, files, EInv, Placed, Reading, Behind, OutputType,
     InFile, SoFar, ExtractsAll, Missing, Working, Wanted, Parts
<1> QED
  BY <1>1, <1>2, <1>3, <1>4, BeginStep, OpenStep, WriteStep, FlushStep, NoteStep,
     FailStep, EndStep
  DEF Next, Step, Extract

\* However many files there are, whatever is in them, however often the process
\* was killed and started before: a run of pwned-password-extractor that gets
\* to its end has on disk what it was to write (password-extractor.cpp's loop
\* over the files, the early note in .ready and the late flush).  The files are
\* of user:password lines: the reader's separator is the colon, or no line has
\* one.
THEOREM ExtractedAll ==
    ASSUME \A f \in DOMAIN Contents : Colons(f)
    PROVE  Spec => []ExtractsAll
<1>1. EInv /\ [Next]_vars => EInv'
  BY EInvNext
<1>2. EInv => ExtractsAll
  BY DEF EInv
<1> QED
  BY <1>1, <1>2, EInvInit, PTL DEF Spec

=============================================================================
