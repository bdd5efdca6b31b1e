----------------------------- MODULE MarkovChain -----------------------------
(***************************************************************************)
(* markov::Chain and markov::Node (pwned-lib/markovchain.hpp and           *)
(* markovnode.hpp) as their two programs use them: pwned-markov-generator  *)
(* trains a chain, updates it and saves it; pwned-markov-lookup loads the  *)
(* file, whatever happened to it in between, and asks for probabilities    *)
(* without a look at what loadBinary() returned.  A probability is an      *)
(* exact fraction <<numerator, denominator>>; a file is the sequence of    *)
(* the fields written to it, and a read at its end is premature.           *)
(***************************************************************************)
EXTENDS Integers, FiniteSets, SequencesExt

CONSTANTS Symbols,    \* the characters that occur in passwords
          MaxLength,  \* bound: length of a password
          MaxTrain,   \* bound: passwords the chain is trained with
          SumMod      \* 2^32: std::accumulate starts with 0U and adds in that type

\* What UserPasswordReader returns: "" for a line that is empty or too long.
Passwords == BoundedSeq(Symbols, MaxLength)

ASSUME MarkovAssumption ==
    /\ IsFiniteSet(Symbols) /\ Symbols # {}
    /\ {MaxLength, MaxTrain, SumMod} \subseteq Nat \ {0}

VARIABLES phase,       \* what the two programs are at
          trained,     \* how often the chain was trained with each password
          firstCounts, \* mFirstSymbolCounts
          counts,      \* mNodes: for each symbol, its node's mCounts
          first,       \* mFirstSymbolSortedProbs
          probs,       \* mNodes: for each symbol, its node's mProbs
          file,        \* the fields of the markov file
          fate,        \* what happened to the file after it was saved
          pos,         \* fields read
          todo,        \* first symbols, or nodes, that are still to be read
          node, more,  \* the node being read, and its successors to be read
          rc           \* what loadBinary() returned

training == <<trained, firstCounts, counts>>
loading  == <<pos, todo, node, more, rc>>
vars     == <<phase, training, first, probs, file, fate, loading>>

Empty == [s \in {} |-> 0]
NoNode == "none"

Init ==
    /\ phase = "train"
    /\ trained = [p \in Passwords |-> 0]
    /\ firstCounts = Empty /\ counts = Empty
    /\ first = <<>> /\ probs = Empty
    /\ file = <<>> /\ fate = "unwritten"
    /\ pos = 0 /\ todo = 0 /\ node = NoNode /\ more = 0 /\ rc = "none"

-----------------------------------------------------------------------------
(* Fractions.                                                              *)

Zero == <<0, 1>>
Times(p, q) == <<p[1] * q[1], p[2] * q[2]>>
SameProb(p, q) == p[1] * q[2] = q[1] * p[2]
NotAbove(p, q) == p[1] * q[2] <= q[1] * p[2]

-----------------------------------------------------------------------------
(* The generator.                                                          *)

\* ++count[s], with an entry for a symbol that has none
Counted(count, s) ==
    [t \in DOMAIN count \cup {s} |->
        (IF t \in DOMAIN count THEN count[t] ELSE 0) + (IF t = s THEN 1 ELSE 0)]

AddPairBackwards(nodes, a, b) ==
    [s \in DOMAIN nodes \cup {b} |->
        IF s = b THEN Counted(IF b \in DOMAIN nodes THEN nodes[b] ELSE Empty, a) ELSE nodes[s]]

\* addPair(current, successor)
AddPair(nodes, a, b) ==
    [s \in DOMAIN nodes \cup {a} |->
        IF s = a THEN Counted(IF a \in DOMAIN nodes THEN nodes[a] ELSE Empty, b) ELSE nodes[s]]

\* train(pwd): an empty password is refused
Train(pwd) ==
    /\ phase = "train"
    /\ SumFunction(trained) < MaxTrain
    /\ pwd # <<>>
    /\ trained' = [trained EXCEPT ![pwd] = @ + 1]
    /\ firstCounts' = Counted(firstCounts, pwd[1])
    /\ counts' = FoldLeftDomain(LAMBDA nodes, i : AddPair(nodes, pwd[i], pwd[i + 1]),
                                counts, Front(pwd))
    /\ UNCHANGED <<phase, first, probs, file, fate, loading>>

\* The orders in which std::sort may leave the entries of a map from symbols
\* to probabilities: ascending, ties in any order.
Sortings(p) == {s \in SetToSeqs(DOMAIN p) :
                  \A i, j \in 1..Len(s) : i < j => NotAbove(p[s[i]], p[s[j]])}

\* The entries of the map in the order s.
Entries(p, s) == [i \in 1..Len(s) |-> <<s[i], p[s[i]]>>]

\* std::accumulate(..., 0U, ...)
SumOf(count) == SumFunction(count) % SumMod

\* Node::update(), and what update() does for the first symbols
Shares(count) == [s \in DOMAIN count |-> <<count[s], SumOf(count)>>]

\* update()
Update ==
    /\ phase = "train"
    /\ \E order \in Sortings(Shares(firstCounts)) : first' = Entries(Shares(firstCounts), order)
    /\ probs' = [s \in DOMAIN counts |-> Shares(counts[s])]
    /\ phase' = "updated"
    /\ UNCHANGED <<training, file, fate, loading>>

\* The fields of the pairs of symbol and probability in ps.
Fields(ps) == FlattenSeq([i \in 1..Len(ps) |-> <<ps[i][1], ps[i][2]>>])

\* A count and the pairs that it counts.
Section(ps) == <<Len(ps)>> \o Fields(ps)

Header == "MRKV"
FileVersion == 2

\* saveBinary(): the nodes come in the order of an unordered_map.
SaveBinary ==
    /\ phase = "updated"
    /\ phase' = "saved"
    /\ fate' = "kept"
    /\ \/ /\ DOMAIN probs = {}
          /\ UNCHANGED file
       \/ /\ DOMAIN probs # {}
          /\ \E order \in SetToSeqs(DOMAIN probs),
                sorted \in [DOMAIN probs -> UNION {Sortings(probs[s]) : s \in DOMAIN probs}] :
               /\ \A s \in DOMAIN probs : sorted[s] \in Sortings(probs[s])
               /\ file' = <<Header, FileVersion>> \o Section(first)
                            \o <<Len(order)>>
                            \o FlattenSeq([i \in 1..Len(order) |->
                                 <<order[i]>> \o Section(Entries(probs[order[i]], sorted[order[i]]))])
    /\ UNCHANGED <<training, first, probs, loading>>

-----------------------------------------------------------------------------
(* What may happen to the file before it is loaded.                        *)

\* It was cut short, by a full disk or a killed generator.
Cut ==
    /\ phase = "saved" /\ fate = "kept"
    /\ \E n \in 0..(Len(file) - 1) : file' = SubSeq(file, 1, n)
    /\ fate' = "cut"
    /\ UNCHANGED <<phase, training, first, probs, loading>>

\* It is some other file, or one of another version.
Swap ==
    /\ phase = "saved" /\ fate = "kept" /\ file # <<>>
    /\ \/ file' = [file EXCEPT ![1] = "other"]
       \/ file' = [file EXCEPT ![2] = FileVersion - 1]
    /\ fate' = "foreign"
    /\ UNCHANGED <<phase, training, first, probs, loading>>

\* One of its symbols was changed.
Flip ==
    /\ phase = "saved" /\ fate = "kept"
    /\ \E i \in 3..Len(file), s \in Symbols :
         /\ file[i] \in Symbols /\ file[i] # s
         /\ file' = [file EXCEPT ![i] = s]
    /\ fate' = "flipped"
    /\ UNCHANGED <<phase, training, first, probs, loading>>

\* It cannot be opened.
Lose ==
    /\ phase = "saved" /\ fate = "kept"
    /\ fate' = "unreadable"
    /\ UNCHANGED <<phase, training, first, probs, file, loading>>

-----------------------------------------------------------------------------
(* pwned-markov-lookup: loadBinary(), one step per field.                  *)

\* loadBinary() begins with an empty chain, and ends at once with a stream
\* that is not good().
LoadBinary ==
    /\ phase = "saved"
    /\ first' = <<>> /\ probs' = Empty
    /\ pos' = 0
    /\ \/ fate = "unreadable" /\ phase' = "loaded" /\ rc' = "OK"
       \/ fate # "unreadable" /\ phase' = "header" /\ UNCHANGED rc
    /\ UNCHANGED <<training, file, fate, todo, node, more>>

\* What loadBinary() returns when a read meets the end of the file.
PrematureEof ==
    [header      |-> "BAD_HEADER_PREMATURE_EOF",
     version     |-> "BAD_VERSION_PREMATURE_EOF",
     firstCount  |-> "BAD_SYMBOL_COUNT_PREMATURE_EOF",
     firstSymbol |-> "BAD_SYMBOL_PREMATURE_EOF",
     firstProb   |-> "BAD_PROBABILITY_PREMATURE_EOF",
     symbolCount |-> "BAD_SYMBOL_COUNT_PREMATURE_EOF",
     nodeSymbol  |-> "BAD_SYMBOL_PREMATURE_EOF",
     nodeCount   |-> "BAD_NODE_COUNT_PREMATURE_EOF",
     succSymbol  |-> "BAD_SYMBOL_PREMATURE_EOF",
     succProb    |-> "BAD_PROBABILITY_PREMATURE_EOF"]

\* is.eof() after the read of one more field
AtEnd == pos = Len(file)

EofAccepted ==
    /\ phase \in DOMAIN PrematureEof /\ AtEnd
    /\ phase' = "loaded" /\ rc' = "OK"
    /\ UNCHANGED <<training, first, probs, file, fate, pos, todo, node, more>>

Eof ==
    /\ phase \in DOMAIN PrematureEof /\ AtEnd
    /\ phase' = "loaded" /\ rc' = PrematureEof[phase]
    /\ UNCHANGED <<training, first, probs, file, fate, pos, todo, node, more>>

\* The stage's next field is there and is read.
Reads(stage) ==
    /\ phase = stage /\ ~AtEnd
    /\ pos' = pos + 1
    /\ UNCHANGED <<training, file, fate>>

Field == file[pos + 1]

\* The field is compared with what it has to be.
Expects(stage, value, next, error) ==
    /\ Reads(stage)
    /\ IF Field = value THEN phase' = next /\ UNCHANGED rc
                        ELSE phase' = "loaded" /\ rc' = error
    /\ UNCHANGED <<first, probs, todo, node, more>>

ReadHeader  == Expects("header", Header, "version", "BAD_HEADER")
ReadVersion == Expects("version", FileVersion, "firstCount", "BAD_VERSION")

\* Where a loop over n entries goes: on, or out of it.
Loop(n, on, out) == IF n > 0 THEN on ELSE out

ReadFirstCount ==
    /\ Reads("firstCount")
    /\ todo' = Field
    /\ phase' = Loop(Field, "firstSymbol", "symbolCount")
    /\ UNCHANGED <<first, probs, node, more, rc>>

ReadFirstSymbol ==
    /\ Reads("firstSymbol")
    /\ node' = Field
    /\ phase' = "firstProb"
    /\ UNCHANGED <<first, probs, todo, more, rc>>

ReadFirstProb ==
    /\ Reads("firstProb")
    /\ first' = Append(first, <<node, Field>>)
    /\ todo' = todo - 1
    /\ phase' = Loop(todo', "firstSymbol", "symbolCount")
    /\ UNCHANGED <<probs, node, more, rc>>

\* The loops are over, and loadBinary() returns OK.
Loaded(n) == rc' = IF n > 0 THEN rc ELSE "OK"

ReadSymbolCount ==
    /\ Reads("symbolCount")
    /\ todo' = Field
    /\ phase' = Loop(Field, "nodeSymbol", "loaded")
    /\ Loaded(Field)
    /\ UNCHANGED <<first, probs, node, more>>

\* A symbol with a node already is an error.
ReadNodeSymbol ==
    /\ Reads("nodeSymbol")
    /\ node' = Field
    /\ \/ /\ Field \in DOMAIN probs
          /\ phase' = "loaded" /\ rc' = "BAD_SYMBOL"
          /\ UNCHANGED probs
       \/ /\ Field \notin DOMAIN probs
          /\ phase' = "nodeCount"
          /\ probs' = (Field :> Empty) @@ probs
          /\ UNCHANGED rc
    /\ UNCHANGED <<first, todo, more>>

\* The next of the nodes, when this one has no more successors.
NextNode(n, m) == Loop(m, "succSymbol", Loop(n, "nodeSymbol", "loaded"))

ReadNodeCount ==
    /\ Reads("nodeCount")
    /\ more' = Field
    /\ todo' = todo - 1
    /\ phase' = NextNode(todo', more')
    /\ Loaded(todo' + more')
    /\ UNCHANGED <<first, probs, node>>

\* The symbol is kept beside the node until its probability is read.
ReadSuccSymbol ==
    /\ Reads("succSymbol")
    /\ phase' = "succProb"
    /\ UNCHANGED <<first, probs, todo, node, more, rc>>

\* addSuccessor(symbol, probability)
AddSuccessor(succ, s, p) == (s :> p) @@ succ

ReadSuccProb ==
    /\ Reads("succProb")
    /\ probs' = [probs EXCEPT ![node] = AddSuccessor(@, file[pos], Field)]
    /\ more' = more - 1
    /\ phase' = NextNode(todo, more')
    /\ Loaded(todo + more')
    /\ UNCHANGED <<first, todo, node>>

Load ==
    \/ LoadBinary \/ Eof \/ ReadHeader \/ ReadVersion
    \/ ReadFirstCount \/ ReadFirstSymbol \/ ReadFirstProb
    \/ ReadSymbolCount \/ ReadNodeSymbol \/ ReadNodeCount \/ ReadSuccSymbol \/ ReadSuccProb

Next ==
    \/ \E pwd \in Passwords : Train(pwd)
    \/ Update \/ SaveBinary
    \/ Cut \/ Swap \/ Flip \/ Lose
    \/ Load
    \/ phase = "loaded" /\ UNCHANGED vars

Spec == Init /\ [][Next]_vars

-----------------------------------------------------------------------------
(* totalProbability(), which changes nothing.                              *)

\* std::out_of_range, out of mProbs.at()
Throws == <<0, 0>>

\* The first entry with the symbol, as std::find_if finds it.
FirstProb(s) == first[SelectInSeq(first, LAMBDA e : e[1] = s)][2]

DeadEndForgotten(pwd) == FirstProb(pwd[1])

\* There is no node for the character before: return 0
DeadEnd(pwd) == Zero

TotalProbability(pwd) ==
    LET Follows(i) == pwd[i - 1] \in DOMAIN probs /\ pwd[i] \in DOMAIN probs[pwd[i - 1]]
        broken == {i \in 2..Len(pwd) : ~Follows(i)}
        p == FoldLeftDomain(LAMBDA q, i : Times(q, probs[pwd[i]][pwd[i + 1]]),
                            FirstProb(pwd[1]), Front(pwd))
    IN CASE SelectInSeq(first, LAMBDA e : e[1] = pwd[1]) = 0 -> Zero
         [] broken = {} -> p
         [] pwd[Min(broken) - 1] \in DOMAIN probs -> Throws
         [] OTHER -> DeadEnd(pwd)

-----------------------------------------------------------------------------
(* Properties                                                              *)

\* Over all passwords the chain was trained with.
TrainedSum(f(_)) == SumFunction([p \in Passwords |-> trained[p] * f(p)])

Starts(s) == TrainedSum(LAMBDA p : IF p # <<>> /\ p[1] = s THEN 1 ELSE 0)
Pairs(a, b) ==
    TrainedSum(LAMBDA p : Cardinality({i \in 1..(Len(p) - 1) : p[i] = a /\ p[i + 1] = b}))
Followers(a) == SumFunction([b \in Symbols |-> Pairs(a, b)])

\* The probability of a password by the definition of a Markov chain: the
\* share of passwords that begin like it, times the shares of its pairs.
Reference(pwd) ==
    IF Starts(pwd[1]) = 0 \/ \E i \in 1..(Len(pwd) - 1) : Pairs(pwd[i], pwd[i + 1]) = 0
    THEN Zero
    ELSE FoldLeftDomain(
           LAMBDA q, i : Times(q, <<Pairs(pwd[i], pwd[i + 1]), Followers(pwd[i])>>),
           <<Starts(pwd[1]), SumFunction(trained)>>, Front(pwd))

\* No sum is cut off to 32 bits.
Fits == SumFunction(trained) < SumMod /\ \A a \in Symbols : Followers(a) < SumMod

\* An updated chain gives every password the probability that follows from
\* the passwords it was trained with, and throws for none that is possible,
\* as long as no sum exceeds the type update() adds in.
Frequencies ==
    phase \in {"updated", "saved"} /\ Fits =>
      \A pwd \in Passwords \ {<<>>} :
        LET p == TotalProbability(pwd)
        IN IF p = Throws THEN Reference(pwd) = Zero ELSE SameProb(p, Reference(pwd))

\* The chain is as update() left it.
Restored ==
    /\ ToSet(first) = {<<s, Shares(firstCounts)[s]>> : s \in DOMAIN firstCounts}
    /\ Len(first) = Cardinality(DOMAIN firstCounts)
    /\ probs = [s \in DOMAIN counts |-> Shares(counts[s])]

\* loadBinary() brings back exactly the chain that was saved, if it has nodes,
\* and says OK of no file that was cut short or is of another kind.
LoadExact ==
    phase = "loaded" /\ fate \in {"kept", "cut", "foreign"} =>
      IF fate = "kept" /\ DOMAIN counts # {}
      THEN rc = "OK" /\ Restored
      ELSE rc # "OK"

\* pwned-markov-lookup goes on with whatever part of a file was loaded: what
\* it answers is then right, 0 or an exception, never some other probability.
PartNeverLies ==
    phase = "loaded" /\ fate \in {"kept", "cut", "foreign", "unreadable"} /\ Fits =>
      \A pwd \in Passwords \ {<<>>} :
        LET p == TotalProbability(pwd)
        IN p \in {Throws, Zero} \/ SameProb(p, Reference(pwd))

=============================================================================
