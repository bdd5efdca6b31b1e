--------------------------- MODULE ConverterProofs ---------------------------
(***************************************************************************)
(* How much memory the operations of the converter use together, for any   *)
(* number of operations, permits and threads and for any input files.      *)
(*                                                                         *)
(* The memory is a sum over the operations, a recursive function of the    *)
(* library.  What a proof needs to know of it is shown first: that it      *)
(* exists, and how large it can be.                                        *)
(***************************************************************************)
EXTENDS Converter, FiniteSetTheorems, WellFoundedInduction, SequenceTheorems, TLAPS

-----------------------------------------------------------------------------
(* Induction.                                                              *)

\* A set that has 0, and k + 1 with every k, has every natural number.
LEMMA NatSteps ==
    ASSUME NEW T, 0 \in T, \A k \in Nat : k \in T => k + 1 \in T
    PROVE  \A k \in Nat : k \in T
<1> SUFFICES ASSUME Nat \ T # {} PROVE FALSE
  OBVIOUS
<1>1. PICK m \in Nat \ T : \A y \in Nat \ T : <<y, m>> \notin OpToRel(<, Nat)
  BY WFMin, NatLessThanWellFounded
<1>2. \A y \in Nat \ T : ~(y < m)
  BY <1>1 DEF OpToRel
<1>3. m # 0 /\ m - 1 \in Nat
  OBVIOUS
<1>4. m - 1 \in T
  BY <1>2, <1>3
<1> QED
  BY <1>3, <1>4

\* The element that a sum over s adds last.
Pick(s) == CHOOSE x \in s : TRUE

\* Without it the set is smaller.
LEMMA PickLess ==
    ASSUME NEW S, IsFiniteSet(S), NEW s \in SUBSET S, s # {}
    PROVE  /\ Pick(s) \in s
           /\ s \ {Pick(s)} \in SUBSET S
           /\ Cardinality(s) \in Nat
           /\ Cardinality(s \ {Pick(s)}) \in Nat
           /\ Cardinality(s \ {Pick(s)}) = Cardinality(s) - 1
<1>1. Pick(s) \in s
  BY DEF Pick
<1>2. IsFiniteSet(s) /\ IsFiniteSet(s \ {Pick(s)})
  BY FS_Subset
<1>3. Cardinality(s) \in Nat /\ Cardinality(s \ {Pick(s)}) \in Nat
  BY <1>2, FS_CardinalityType
<1>4. Cardinality(s \ {Pick(s)}) = Cardinality(s) - 1
  BY <1>1, <1>2, FS_RemoveElement
<1> QED
  BY <1>1, <1>3, <1>4

\* A set of sets that has {}, and s with every s \ {Pick(s)}, has every subset
\* of a finite set.
LEMMA SubsetSteps ==
    ASSUME NEW S, IsFiniteSet(S), NEW T, {} \in T,
           \A s \in SUBSET S : s # {} /\ s \ {Pick(s)} \in T => s \in T
    PROVE  \A s \in SUBSET S : s \in T
<1> DEFINE N == {k \in Nat : \A s \in SUBSET S : Cardinality(s) <= k => s \in T}
<1>1. 0 \in N
  <2> SUFFICES ASSUME NEW s \in SUBSET S, Cardinality(s) <= 0, s # {} PROVE FALSE
    OBVIOUS
  <2>1. Cardinality(s) \in Nat /\ Cardinality(s) - 1 \in Nat
    BY PickLess
  <2> QED
    BY <2>1
<1>2. ASSUME NEW k \in Nat, k \in N PROVE k + 1 \in N
  <2> SUFFICES ASSUME NEW s \in SUBSET S, Cardinality(s) <= k + 1, s # {} PROVE s \in T
    OBVIOUS
  <2>1. /\ s \ {Pick(s)} \in SUBSET S
        /\ Cardinality(s) \in Nat /\ Cardinality(s \ {Pick(s)}) = Cardinality(s) - 1
    BY PickLess
  <2>2. s \ {Pick(s)} \in T
    BY <1>2, <2>1
  <2> QED
    BY <2>2
<1>3. \A k \in Nat : k \in N
  <2> HIDE DEF N
  <2> QED
    BY <1>1, <1>2, NatSteps
<1> SUFFICES ASSUME NEW s \in SUBSET S PROVE s \in T
  OBVIOUS
<1>4. Cardinality(s) \in Nat
  BY FS_Subset, FS_CardinalityType
<1> QED
  BY <1>3, <1>4

-----------------------------------------------------------------------------
(* Sums.                                                                   *)

\* The equation of SumFunctionOnSet at s
SumAt(g, F, s) == g[s] = IF s = {} THEN 0 ELSE F[Pick(s)] + g[s \ {Pick(s)}]

\* g has the sum of F over every subset of S.
Sums(g, F, S) == g \in [SUBSET S -> Nat] /\ \A s \in SUBSET S : SumAt(g, F, s)

\* The sums exist: a function that is right up to some size of s is used once
\* more to get one that is right for the next size.
LEMMA SumsExist ==
    ASSUME NEW S, IsFiniteSet(S), NEW F \in [S -> Nat]
    PROVE  \E g : Sums(g, F, S)
<1> DEFINE Upto(g, k) == \A s \in SUBSET S : Cardinality(s) <= k => SumAt(g, F, s)
           T == {k \in Nat : \E g \in [SUBSET S -> Nat] : Upto(g, k)}
<1>1. 0 \in T
  <2> DEFINE g == [s \in SUBSET S |-> 0]
  <2>1. Upto(g, 0)
    <3> SUFFICES ASSUME NEW s \in SUBSET S, Cardinality(s) <= 0, s # {} PROVE FALSE
      BY DEF SumAt
    <3>1. Cardinality(s) \in Nat /\ Cardinality(s) - 1 \in Nat
      BY PickLess
    <3> QED
      BY <3>1
  <2>2. g \in [SUBSET S -> Nat]
    OBVIOUS
  <2> HIDE DEF g
  <2> QED
    BY <2>1, <2>2
<1>2. ASSUME NEW k \in Nat, k \in T PROVE k + 1 \in T
  <2>1. PICK g \in [SUBSET S -> Nat] : Upto(g, k)
    BY <1>2
  <2> DEFINE h == [s \in SUBSET S |-> IF s = {} THEN 0 ELSE F[Pick(s)] + g[s \ {Pick(s)}]]
  <2>2. h \in [SUBSET S -> Nat]
    <3> SUFFICES ASSUME NEW s \in SUBSET S, s # {} PROVE F[Pick(s)] + g[s \ {Pick(s)}] \in Nat
      OBVIOUS
    <3>1. Pick(s) \in S /\ s \ {Pick(s)} \in SUBSET S
      BY PickLess
    <3> QED
      BY <3>1
  <2>3. Upto(h, k + 1)
    <3> SUFFICES ASSUME NEW s \in SUBSET S, Cardinality(s) <= k + 1 PROVE SumAt(h, F, s)
      OBVIOUS
    <3>1. CASE s = {}
      BY <3>1 DEF SumAt
    <3>2. CASE s # {}
      <4> DEFINE t == s \ {Pick(s)}
      <4>1. t \in SUBSET S /\ Cardinality(s) \in Nat /\ Cardinality(t) = Cardinality(s) - 1
        BY <3>2, PickLess
      <4>2. SumAt(g, F, t)
        BY <2>1, <4>1
      <4>3. h[t] = g[t]
        BY <4>1, <4>2 DEF SumAt
      <4>4. h[s] = F[Pick(s)] + g[t]
        BY <3>2
      <4> HIDE DEF h
      <4> QED
        BY <3>2, <4>3, <4>4 DEF SumAt
    <3> QED
      BY <3>1, <3>2
  <2> HIDE DEF h
  <2> QED
    BY <2>2, <2>3
<1>3. Cardinality(S) \in Nat
  BY FS_CardinalityType
<1>4. Cardinality(S) \in T
  <2> HIDE DEF T
  <2> QED
    BY <1>1, <1>2, <1>3, NatSteps
<1>5. PICK g \in [SUBSET S -> Nat] : Upto(g, Cardinality(S))
  BY <1>4
<1>6. \A s \in SUBSET S : Cardinality(s) <= Cardinality(S)
  BY FS_Subset
<1> QED
  BY <1>5, <1>6 DEF Sums

\* There is only one.
LEMMA SumsUnique ==
    ASSUME NEW S, IsFiniteSet(S), NEW F,
           NEW g, \A s \in SUBSET S : SumAt(g, F, s),
           NEW h, \A s \in SUBSET S : SumAt(h, F, s)
    PROVE  \A s \in SUBSET S : g[s] = h[s]
<1> DEFINE T == {s \in SUBSET S : g[s] = h[s]}
<1>1. {} \in T
  BY DEF SumAt
<1>2. ASSUME NEW s \in SUBSET S, s # {}, s \ {Pick(s)} \in T PROVE s \in T
  <2>1. SumAt(g, F, s) /\ SumAt(h, F, s)
    OBVIOUS
  <2> QED
    BY <1>2, <2>1 DEF SumAt
<1>3. \A s \in SUBSET S : s \in T
  <2> HIDE DEF T
  <2> QED
    BY <1>1, <1>2, SubsetSteps
<1> QED
  BY <1>3

\* It is what SumFunctionOnSet computes.
LEMMA SumOfSums ==
    ASSUME NEW S, IsFiniteSet(S), NEW F, NEW g, Sums(g, F, S)
    PROVE  SumFunctionOnSet(F, S) = g[S]
<1> DEFINE Q(h) == h = [s \in SUBSET S |->
                          IF s = {} THEN 0
                          ELSE F[CHOOSE x \in s : TRUE] + h[s \ {CHOOSE x \in s : TRUE}]]
           c == CHOOSE h : Q(h)
<1>1. SumFunctionOnSet(F, S) = c[S]
  BY Zenon DEF SumFunctionOnSet, FoldFunctionOnSet, MapThenFoldSet
<1>2. Q(g)
  BY DEF Sums, SumAt, Pick
<1>3. Q(c)
  <2> HIDE DEF Q
  <2> QED
    BY <1>2
<1>4. \A s \in SUBSET S : SumAt(c, F, s)
  <2> HIDE DEF c
  <2> QED
    BY <1>3 DEF SumAt, Pick
<1>5. \A s \in SUBSET S : SumAt(g, F, s)
  BY DEF Sums
<1>6. \A s \in SUBSET S : c[s] = g[s]
  <2> HIDE DEF c
  <2> QED
    BY ONLY IsFiniteSet(S), <1>4, <1>5, SumsUnique
<1> QED
  BY <1>1, <1>6

\* A sum whose terms are at most b, and 0 outside of R.
LEMMA SumBound ==
    ASSUME NEW S, IsFiniteSet(S), NEW F \in [S -> Nat], NEW R \in SUBSET S, NEW b \in Nat,
           \A x \in R : F[x] <= b, \A x \in S \ R : F[x] = 0
    PROVE  SumFunctionOnSet(F, S) \in Nat /\ SumFunctionOnSet(F, S) <= Cardinality(R) * b
<1>1. PICK g : Sums(g, F, S)
  BY SumsExist
<1> DEFINE T == {s \in SUBSET S : g[s] <= Cardinality(s \cap R) * b}
<1>2. \A s \in SUBSET S : SumAt(g, F, s) /\ g[s] \in Nat
  BY <1>1 DEF Sums
<1>3. \A s \in SUBSET S : IsFiniteSet(s \cap R) /\ Cardinality(s \cap R) \in Nat
  BY FS_Subset, FS_CardinalityType
<1>4. {} \in T
  <2>1. g[{}] = 0 /\ {} \cap R = {}
    BY <1>2 DEF SumAt
  <2> QED
    BY <2>1, FS_EmptySet
<1>5. ASSUME NEW s \in SUBSET S, s # {}, s \ {Pick(s)} \in T PROVE s \in T
  <2> DEFINE x == Pick(s)
             t == s \ {x}
             m == Cardinality(t \cap R)
  <2>1. x \in s /\ t \in SUBSET S
    BY <1>5, PickLess
  <2>2. g[s] = F[x] + g[t]
    BY <1>2, <1>5 DEF SumAt
  <2>3. g[t] <= m * b /\ m \in Nat /\ g[t] \in Nat /\ F[x] \in Nat
    BY <1>2, <1>3, <1>5, <2>1
  <2>4. CASE x \in R
    <3>1. t \cap R = (s \cap R) \ {x} /\ x \in s \cap R
      BY <2>1, <2>4
    <3>2. m = Cardinality(s \cap R) - 1
      <4>1. IsFiniteSet(s \cap R)
        BY <1>3
      <4> HIDE DEF T, t
      <4>2. Cardinality((s \cap R) \ {x}) = Cardinality(s \cap R) - 1
        BY <3>1, <4>1, FS_RemoveElement
      <4> QED
        BY <3>1, <4>2
    <3>3. F[x] <= b
      BY <2>4
    <3>4. Cardinality(s \cap R) * b = m * b + b
      <4> HIDE DEF m
      <4>1. Cardinality(s \cap R) = m + 1
        BY <1>3, <2>3, <3>2
      <4>2. \A k \in Nat : (k + 1) * b = k * b + b
        OBVIOUS
      <4> QED
        BY <2>3, <4>1, <4>2
    <3>5. m * b \in Nat
      BY <2>3
    <3> HIDE DEF m, t, x
    <3> QED
      BY <2>2, <2>3, <3>3, <3>4, <3>5
  <2>5. CASE x \notin R
    <3>1. t \cap R = s \cap R
      BY <2>5
    <3>2. F[x] = 0
      BY <2>1, <2>5
    <3>3. m = Cardinality(s \cap R)
      BY <3>1
    <3>4. g[s] = g[t]
      <4> HIDE DEF T, t, x, m
      <4> QED
        BY <2>2, <2>3, <3>2
    <3> QED
      BY <2>3, <3>3, <3>4
  <2> QED
    BY <2>4, <2>5
<1>6. S \in T
  <2> HIDE DEF T
  <2> QED
    BY <1>4, <1>5, SubsetSteps
<1>7. S \cap R = R /\ SumFunctionOnSet(F, S) = g[S]
  BY <1>1, SumOfSums
<1> QED
  BY <1>2, <1>6, <1>7

-----------------------------------------------------------------------------
(* The readers.                                                            *)

\* The operation's reader as it is opened, at some place of its file
Readers(o) ==
    LET r == NewReader(o, options)
    IN [lines : {r.lines}, pos : 0..Len(Lines[o]), eof : BOOLEAN, separator : {r.separator},
        forceMD5 : {r.forceMD5}, forceHex : {r.forceHex},
        autoMD5 : {r.autoMD5}, autoHex : {r.autoHex}]

Pcs == {"queued", "begin", "read", "sorted", "exists", "open", "write", "end"}

\* Where an operation has a list of passwords in memory.
Holding == {"sorted", "exists", "open", "write"}

Types ==
    /\ ram \in Nat /\ numThreads \in Nat \ {0} /\ options \in OptionSets
    /\ pc \in [Ops -> Pcs]
    /\ mem \in [Ops -> Nat]
    /\ reader \in [Ops -> UNION {Readers(o) : o \in Ops}]
    /\ \A o \in Ops : reader[o] \in Readers(o)

\* An operation has at most one turn's entries in memory, and none when it is
\* about to read.
Share == \A o \in Ops : /\ mem[o] <= EntriesPerTurn
                        /\ pc[o] \notin Holding => mem[o] = 0

Permits == Cardinality(Running) <= Capacity

\* The inductive invariant.
CInv == Types /\ Share /\ Permits

\* The fields of a reader, at some place of its file
ReaderAt(p, e, lines, sep, md5, hex, auto5, auto16) ==
    [lines |-> lines, pos |-> p, eof |-> e, separator |-> sep,
     forceMD5 |-> md5, forceHex |-> hex, autoMD5 |-> auto5, autoHex |-> auto16]

\* Advance() and Rewind() change the place only.
Moved(r, q, f) == [r EXCEPT !.pos = q, !.eof = f]

LEMMA PlaceChanged ==
    ASSUME NEW p, NEW e, NEW lines, NEW sep, NEW a, NEW b, NEW c, NEW d, NEW q, NEW f
    PROVE  Moved(ReaderAt(p, e, lines, sep, a, b, c, d), q, f) = ReaderAt(q, f, lines, sep, a, b, c, d)
<1> DEFINE r(x, y) == ReaderAt(x, y, lines, sep, a, b, c, d)
<1>1. [r(p, e) EXCEPT !.pos = q] = r(q, e)
  BY DEF ReaderAt
<1>2. [r(q, e) EXCEPT !.eof = f] = r(q, f)
  BY DEF ReaderAt
<1> HIDE DEF r
<1>3. Moved(r(p, e), q, f) = [[r(p, e) EXCEPT !.pos = q] EXCEPT !.eof = f]
  BY Zenon DEF Moved
<1>4. Moved(r(p, e), q, f) = r(q, f)
  BY <1>1, <1>2, <1>3
<1> QED
  BY <1>4 DEF r

\* A reader at the beginning of its file
Opened(lines, sep, a, b, c, d) == ReaderAt(0, FALSE, lines, sep, a, b, c, d)

\* The constructor's looks at the file change nothing of its lines and leave
\* the reader at the beginning.
LEMMA ReaderOpened ==
    ASSUME NEW lines, NEW opts
    PROVE  \E sep, md5, hex, auto5, auto16 :
             UserPasswordReader(lines, opts) = Opened(lines, sep, md5, hex, auto5, auto16)
<1> DEFINE auto5 == "autoEvaluateMD5Hashes" \in opts
           auto16 == "autoEvaluateHexEncodedPasswords" \in opts
           r0 == Opened(lines, NoSeparator, "forceEvaluateMD5Hashes" \in opts,
                        "forceEvaluateHexEncodedPasswords" \in opts, auto5, auto16)
           r1 == GuessSeparator(r0)
           r2 == CheckForHexEncodedPasswords(r1)
           r3 == CheckForMD5Hashes(r2)
<1>1. ASSUME NEW sep, NEW a, NEW b, NEW c, NEW d, NEW k
      PROVE  LET r == Opened(lines, sep, a, b, c, d)
             IN Rewind(r) = r /\ Rewind(Advance(r, k)) = r
  <2> DEFINE r == Opened(lines, sep, a, b, c, d)
             at(p, e) == ReaderAt(p, e, lines, sep, a, b, c, d)
  <2>0. \A p, e, q, f : Moved(at(p, e), q, f) = at(q, f)
    BY PlaceChanged
  <2> r = at(0, FALSE)
    BY Zenon DEF Opened
  <2>1. ASSUME NEW p, NEW e PROVE Rewind(at(p, e)) = at(0, FALSE)
    <3>1. PICK z : z = FALSE
      BY Zenon
    <3>2. Moved(at(p, e), 0, z) = at(0, z)
      BY <2>0
    <3> QED
      BY <3>1, <3>2, Zenon DEF Rewind, Moved
  <2>2. \E p, e : Advance(r, k) = at(p, e)
    <3>1. PICK q, f : q = r.pos + k /\ f = (r.pos + k = Len(r.lines))
      BY Zenon
    <3>2. PICK z : z = FALSE
      BY Zenon
    <3>3. Moved(at(0, z), q, f) = at(q, f)
      BY <2>0
    <3>4. Advance(r, k) = Moved(r, q, f)
      BY <3>1, Zenon DEF Advance, Moved
    <3>5. Moved(r, q, f) = Moved(at(0, z), q, f)
      BY <3>2, Zenon
    <3> QED
      BY <3>3, <3>4, <3>5, Zenon
  <2>3. Rewind(r) = r /\ Rewind(Advance(r, k)) = r
    BY <2>1, <2>2, Zenon
  <2> QED
    BY <2>3 DEF r
<1>2. \E sep : r1 = [r0 EXCEPT !.separator = sep]
  <2>1. \E sep : r1 = [Rewind(Advance(r0, Len(Tried(r0)))) EXCEPT !.separator = sep]
    <3> HIDE DEF r0
    <3> QED
      BY Zenon DEF GuessSeparator
  <2>2. Rewind(Advance(r0, Len(Tried(r0)))) = r0
    BY <1>1
  <2> HIDE DEF r0, r1
  <2> QED
    BY <2>1, <2>2
<1>3. PICK sep : r1 = [r0 EXCEPT !.separator = sep]
  BY <1>2
<1>4. r1 = Opened(lines, sep, r0.forceMD5, r0.forceHex, r0.autoMD5, r0.autoHex)
  BY <1>3 DEF Opened, ReaderAt
<1> HIDE DEF r0, r1
<1>5. PICK a, b, c, d : r1 = Opened(lines, sep, a, b, c, d)
  BY <1>4
<1>6. \E h : r2 = Opened(lines, sep, a, h, c, d)
  <2>1. \E h : r2 = r1 \/ r2 = [Rewind(r1) EXCEPT !.forceHex = h]
    BY Zenon DEF CheckForHexEncodedPasswords
  <2>2. Rewind(r1) = r1
    BY <1>1, <1>5
  <2> HIDE DEF r2
  <2>3. \E h : r2 = r1 \/ r2 = [r1 EXCEPT !.forceHex = h]
    BY <2>1, <2>2
  <2> QED
    BY <1>5, <2>3 DEF Opened, ReaderAt
<1>7. PICK h : r2 = Opened(lines, sep, a, h, c, d)
  BY <1>6
<1> HIDE DEF r2
<1>8. \E m : r3 = Opened(lines, sep, m, h, c, d)
  <2>1. \E m : r3 = [Rewind(r2) EXCEPT !.forceMD5 = m]
    BY Zenon DEF CheckForMD5Hashes
  <2>2. Rewind(r2) = r2
    BY <1>1, <1>7
  <2> HIDE DEF r3
  <2>3. \E m : r3 = [r2 EXCEPT !.forceMD5 = m]
    BY <2>1, <2>2
  <2> QED
    BY <1>7, <2>3 DEF Opened, ReaderAt
<1>9. UserPasswordReader(lines, opts) = r3
  BY DEF UserPasswordReader, Opened, ReaderAt, r0, r1, r2
<1> QED
  BY <1>8, <1>9

\* So is the operation's reader, whose lines are replaced one by one.
LEMMA NewReaderOpened ==
    ASSUME NEW o \in Ops, NEW opts
    PROVE  \E S : \E lines \in Seq(S) : \E sep, a, b, c, d :
             /\ NewReader(o, opts) = Opened(lines, sep, a, b, c, d)
             /\ Len(lines) = Len(Lines[o])
<1> DEFINE r == UserPasswordReader(Lines[o], opts)
           hash(i) == NextPasswordHash([r EXCEPT !.pos = 0], i)
           lines == [i \in 1..Len(Lines[o]) |-> hash(i)]
<1>1. PICK sep, a, b, c, d : r = Opened(Lines[o], sep, a, b, c, d)
  BY ReaderOpened
<1>2. r.lines = Lines[o]
  BY <1>1 DEF Opened, ReaderAt
<1>3. NewReader(o, opts) = [r EXCEPT !.lines = lines]
  BY <1>2, Zenon DEF NewReader
<1> HIDE DEF r
<1>4. [r EXCEPT !.lines = lines] = Opened(lines, sep, a, b, c, d)
  <2> HIDE DEF lines
  <2>1. ASSUME NEW z PROVE LET f(l) == ReaderAt(0, z, l, sep, a, b, c, d)
                           IN [f(Lines[o]) EXCEPT !.lines = lines] = f(lines)
    BY DEF ReaderAt
  <2> QED
    BY <1>1, <2>1, Zenon DEF Opened
<1>5. Len(Lines[o]) \in Nat
  BY ConverterAssumption
<1>6. lines \in Seq({hash(i) : i \in 1..Len(Lines[o])}) /\ Len(lines) = Len(Lines[o])
  <2> HIDE DEF hash
  <2> QED
    BY <1>5
<1> HIDE DEF lines
<1> QED
  BY <1>3, <1>4, <1>6

LEMMA NewReaderFields ==
    ASSUME NEW o \in Ops, NEW opts
    PROVE  \E lines, sep, a, b, c, d : NewReader(o, opts) = Opened(lines, sep, a, b, c, d)
<1>1. PICK S : \E lines \in Seq(S) : \E sep, a, b, c, d :
               /\ NewReader(o, opts) = Opened(lines, sep, a, b, c, d)
               /\ Len(lines) = Len(Lines[o])
  BY NewReaderOpened
<1> QED
  BY <1>1, Zenon

\* It may be anywhere in its file.
LEMMA ReaderInFile ==
    ASSUME NEW o \in Ops, NEW lines, NEW sep, NEW a, NEW b, NEW c, NEW d, NEW q, NEW f,
           NewReader(o, options) = ReaderAt(q, f, lines, sep, a, b, c, d),
           NEW p \in 0..Len(Lines[o]), NEW e \in BOOLEAN
    PROVE  ReaderAt(p, e, lines, sep, a, b, c, d) \in Readers(o)
<1> DEFINE r == NewReader(o, options)
<1>1. /\ r.lines = lines /\ r.separator = sep /\ r.forceMD5 = a /\ r.forceHex = b
      /\ r.autoMD5 = c /\ r.autoHex = d
  BY DEF ReaderAt
<1> HIDE DEF r
<1>2. Readers(o) = [lines : {lines}, pos : 0..Len(Lines[o]), eof : BOOLEAN, separator : {sep},
                    forceMD5 : {a}, forceHex : {b}, autoMD5 : {c}, autoHex : {d}]
  BY <1>1 DEF Readers, r
<1> QED
  BY <1>2 DEF ReaderAt

\* What is known of an operation's reader
LEMMA ReaderFacts ==
    ASSUME NEW o \in Ops, NEW r \in Readers(o)
    PROVE  /\ \E S : r.lines \in Seq(S)
           /\ Len(r.lines) = Len(Lines[o]) /\ Len(Lines[o]) \in Nat
           /\ r.pos \in 0..Len(Lines[o])
<1>1. r.lines = NewReader(o, options).lines /\ r.pos \in 0..Len(Lines[o])
  BY DEF Readers
<1>2. PICK S : \E lines \in Seq(S) : \E sep, a, b, c, d :
               /\ NewReader(o, options) = Opened(lines, sep, a, b, c, d)
               /\ Len(lines) = Len(Lines[o])
  BY NewReaderOpened
<1>3. NewReader(o, options).lines \in Seq(S) /\ Len(NewReader(o, options).lines) = Len(Lines[o])
  BY <1>2 DEF Opened, ReaderAt
<1>4. Len(Lines[o]) \in Nat
  BY ConverterAssumption
<1> QED
  BY <1>1, <1>3, <1>4

\* std::getline() keeps it in the file as long as there are lines.
LEMMA AdvanceInFile ==
    ASSUME NEW o \in Ops, NEW r \in Readers(o), NEW k \in Nat, r.pos + k <= Len(Lines[o])
    PROVE  Advance(r, k) \in Readers(o)
<1>1. r.pos \in 0..Len(Lines[o]) /\ Len(Lines[o]) \in Nat
  BY ReaderFacts
<1>2. PICK p, e : p = r.pos + k /\ e \in BOOLEAN /\ Advance(r, k) = Moved(r, p, e)
  BY Zenon DEF Advance, Moved
<1>3. p \in 0..Len(Lines[o])
  BY <1>1, <1>2
<1> DEFINE n0 == NewReader(o, options)
<1>4. r = ReaderAt(r.pos, r.eof, n0.lines, n0.separator, n0.forceMD5, n0.forceHex, n0.autoMD5, n0.autoHex)
  BY DEF Readers, ReaderAt
<1>5. Moved(r, p, e)
        = ReaderAt(p, e, n0.lines, n0.separator, n0.forceMD5, n0.forceHex, n0.autoMD5, n0.autoHex)
  <2> HIDE DEF n0
  <2> QED
    BY <1>4, PlaceChanged
<1>6. PICK lines, sep, a, b, c, d, f : n0 = ReaderAt(0, f, lines, sep, a, b, c, d)
  <2>1. \A opts : \E lines, sep, a, b, c, d : NewReader(o, opts) = Opened(lines, sep, a, b, c, d)
    BY NewReaderFields
  <2>2. \E lines, sep, a, b, c, d : n0 = Opened(lines, sep, a, b, c, d)
    BY <2>1, Zenon
  <2> QED
    BY <2>2, Zenon DEF Opened
<1>7. /\ n0.lines = lines /\ n0.separator = sep /\ n0.forceMD5 = a /\ n0.forceHex = b
      /\ n0.autoMD5 = c /\ n0.autoHex = d
  <2> HIDE DEF n0
  <2> QED
    BY <1>6 DEF ReaderAt
<1>8. ReaderAt(p, e, lines, sep, a, b, c, d) \in Readers(o)
  BY <1>2, <1>3, <1>6, ReaderInFile
<1> HIDE DEF n0
<1> QED
  BY <1>2, <1>5, <1>7, <1>8

LEMMA MinOfTwo ==
    ASSUME NEW x \in Nat, NEW y \in Nat
    PROVE  Min({x, y}) \in {x, y} /\ Min({x, y}) <= x /\ Min({x, y}) <= y
<1>1. \E m \in {x, y} : \A k \in {x, y} : m <= k
  BY x <= y \/ y <= x
<1>2. Min({x, y}) \in {x, y} /\ \A k \in {x, y} : Min({x, y}) <= k
  BY <1>1 DEF Min
<1> QED
  BY <1>2

\* The share of an operation is not larger than its part of the memory, except
\* for the rest of one entry.
LEMMA ShareBound ==
    ASSUME ram \in Nat, numThreads \in Nat \ {0}
    PROVE  /\ MaxMem \in Nat /\ MaxMem * numThreads <= ram
           /\ EntriesPerTurn \in Nat
           /\ EntriesPerTurn * MemUsagePerEntry <= MaxMem + MemUsagePerEntry - 1
<1> USE ConverterAssumption
<1>1. ASSUME NEW x \in Nat, NEW y \in Nat \ {0}
      PROVE  x \div y \in Nat /\ (x \div y) * y <= x
  OBVIOUS
<1>2. MaxMem \in Nat /\ MaxMem * numThreads <= ram
  BY <1>1 DEF MaxMem
<1>3. MaxMem + MemUsagePerEntry - 1 \in Nat
  BY <1>2
<1> QED
  BY <1>1, <1>2, <1>3 DEF EntriesPerTurn

\* A turn reads no more than that, and not beyond the end of the file.
LEMMA EntriesBound ==
    ASSUME Types, NEW o \in Ops
    PROVE  /\ Len(Entries(o)) \in Nat
           /\ Len(Entries(o)) <= EntriesPerTurn
           /\ reader[o].pos + Len(Entries(o)) <= Len(Lines[o])
           /\ \E S : Entries(o) \in Seq(S)
<1> DEFINE r == reader[o]
           last == Min({Len(r.lines), r.pos + EntriesPerTurn})
<1>1. r \in Readers(o) /\ EntriesPerTurn \in Nat
  BY ShareBound DEF Types
<1>2. PICK S : r.lines \in Seq(S)
  BY <1>1, ReaderFacts
<1>3. Len(r.lines) = Len(Lines[o]) /\ Len(r.lines) \in Nat /\ r.pos \in 0..Len(r.lines)
  BY <1>1, ReaderFacts
<1> HIDE DEF r
<1>4. last \in {Len(r.lines), r.pos + EntriesPerTurn} /\ last <= Len(r.lines) /\ last <= r.pos + EntriesPerTurn
  <2>1. Len(r.lines) \in Nat /\ r.pos + EntriesPerTurn \in Nat
    BY <1>1, <1>3
  <2> QED
    BY <2>1, MinOfTwo
<1>5. last \in r.pos..Len(r.lines)
  <2> HIDE DEF last
  <2> QED
    BY <1>1, <1>3, <1>4
<1>6. Entries(o) = IF o \in Readable \ bad THEN SubSeq(r.lines, r.pos + 1, last) ELSE <<>>
  BY DEF Entries, r
<1> HIDE DEF last
<1>7. Len(SubSeq(r.lines, r.pos + 1, last)) = last - r.pos
  BY <1>2, <1>3, <1>5
<1>8. CASE o \in Readable \ bad
  <2>1. Len(Entries(o)) = last - r.pos
    BY <1>6, <1>7, <1>8
  <2>2. /\ Len(Entries(o)) \in Nat /\ Len(Entries(o)) <= EntriesPerTurn
        /\ r.pos + Len(Entries(o)) <= Len(Lines[o])
    BY ONLY <1>1, <1>3, <1>4, <1>5, <2>1
  <2>3. Entries(o) \in Seq(S)
    BY <1>2, <1>3, <1>5, <1>6, <1>8
  <2> QED
    BY <2>2, <2>3 DEF r
<1>9. CASE o \notin Readable \ bad
  BY <1>1, <1>3, <1>6, <1>9 DEF r
<1> QED
  BY <1>8, <1>9

\* What is left of them when the k-th cannot be read to its end.
LEMMA BrokenOff ==
    ASSUME NEW S, NEW e \in Seq(S), NEW k \in 1..Len(e), NEW h
    PROVE  Len(Append(SubSeq(e, 1, k - 1), h)) = k
<1> DEFINE T == S \cup {h}
<1>1. e \in Seq(T) /\ h \in T
  OBVIOUS
<1> HIDE DEF T
<1>2. PICK j \in Nat : j = k - 1 /\ j <= Len(e)
  OBVIOUS
<1>3. SubSeq(e, 1, j) \in Seq(T) /\ Len(SubSeq(e, 1, j)) = j
  <2>1. \A i \in 1..j : e[i] \in T
    BY <1>1, <1>2
  <2> QED
    BY <1>1, <1>2, <2>1, SubSeqProperties
<1>4. Len(Append(SubSeq(e, 1, j), h)) = j + 1
  BY <1>1, <1>3
<1> QED
  BY <1>2, <1>4

-----------------------------------------------------------------------------
(* The invariant is inductive.                                             *)

LEMMA CInit == Init => CInv
<1> SUFFICES ASSUME Init PROVE CInv
  OBVIOUS
<1> USE ConverterAssumption
<1>1. ASSUME NEW o \in Ops PROVE reader[o] \in Readers(o)
  <2>1. reader[o] = NewReader(o, options)
    BY DEF Init
  <2>2. PICK lines, sep, a, b, c, d : NewReader(o, options) = Opened(lines, sep, a, b, c, d)
    <3>1. \A opts : \E lines, sep, a, b, c, d : NewReader(o, opts) = Opened(lines, sep, a, b, c, d)
      BY NewReaderFields
    <3> QED
      BY <3>1, Zenon
  <2>3. 0 \in 0..Len(Lines[o])
    OBVIOUS
  <2>4. PICK z \in BOOLEAN : NewReader(o, options) = ReaderAt(0, z, lines, sep, a, b, c, d)
    BY <2>2, Zenon DEF Opened
  <2> QED
    BY <2>1, <2>3, <2>4, ReaderInFile
<1>2. Types
  <2>1. reader \in [Ops -> UNION {Readers(o) : o \in Ops}]
    <3>1. reader = [o \in Ops |-> NewReader(o, options)]
      BY DEF Init
    <3>2. \A o \in Ops : reader[o] \in UNION {Readers(p) : p \in Ops}
      BY <1>1
    <3> QED
      BY <3>1, <3>2
  <2> QED
    BY <1>1, <2>1 DEF Init, Types, Pcs
<1>3. Share
  BY <1>2, ShareBound DEF Init, Share, Types
<1>4. Permits
  <2>1. Running = {}
    BY DEF Init, Running
  <2> QED
    BY <2>1, FS_EmptySet DEF Permits
<1> QED
  BY <1>2, <1>3, <1>4 DEF CInv

\* A step of one operation, which keeps its reader on its file and no more
\* than its share.
LEMMA OwnStep ==
    ASSUME Types, Share, UNCHANGED settings, NEW o \in Ops,
           NEW to \in Pcs, pc' = [pc EXCEPT ![o] = to],
           NEW k \in Nat, mem' = [mem EXCEPT ![o] = k],
           k <= EntriesPerTurn, to \notin Holding => k = 0,
           NEW r \in Readers(o), reader' = [reader EXCEPT ![o] = r]
    PROVE  Types' /\ Share'
<1>1. \A p \in Ops : Readers(p)' = Readers(p)
  BY DEF Readers, settings
<1>2. EntriesPerTurn' = EntriesPerTurn
  BY DEF EntriesPerTurn, MaxMem, settings
<1>3. \A p \in Ops : reader'[p] = IF p = o THEN r ELSE reader[p]
  BY DEF Types
<1>4. \A p \in Ops : reader'[p] \in Readers(p)
  BY <1>3 DEF Types
<1>5. Types'
  <2>1. UNION {Readers(p)' : p \in Ops} = UNION {Readers(p) : p \in Ops}
    BY <1>1
  <2>2. reader' \in [Ops -> UNION {Readers(p) : p \in Ops}]
    BY DEF Types
  <2>3. pc' \in [Ops -> Pcs] /\ mem' \in [Ops -> Nat]
        /\ ram' \in Nat /\ numThreads' \in Nat \ {0} /\ options' \in OptionSets
    BY DEF Types, settings
  <2> QED
    BY <1>1, <1>4, <2>1, <2>2, <2>3 DEF Types
<1>6. Share'
  BY <1>2 DEF Share, Types
<1> QED
  BY <1>5, <1>6

\* The same for the steps that read nothing: they keep the list or drop it.
LEMMA OwnStepNoRead ==
    ASSUME Types, Share, UNCHANGED settings, NEW o \in Ops,
           NEW to \in Pcs, pc' = [pc EXCEPT ![o] = to],
           mem' = mem \/ mem' = [mem EXCEPT ![o] = 0],
           to \notin Holding => mem'[o] = 0,
           UNCHANGED reader
    PROVE  Types' /\ Share'
<1>1. reader[o] \in Readers(o) /\ reader' = [reader EXCEPT ![o] = reader[o]]
  BY DEF Types
<1>2. mem[o] \in Nat /\ mem[o] <= EntriesPerTurn /\ EntriesPerTurn \in Nat
  BY ShareBound DEF Types, Share
<1>3. CASE mem' = mem
  <2>1. mem' = [mem EXCEPT ![o] = mem[o]] /\ (to \notin Holding => mem[o] = 0)
    BY <1>3 DEF Types
  <2> QED
    BY ONLY Types, Share, UNCHANGED settings, o \in Ops, to \in Pcs, pc' = [pc EXCEPT ![o] = to],
            <1>1, <1>2, <2>1, OwnStep
<1>4. CASE mem' = [mem EXCEPT ![o] = 0]
  <2>1. 0 \in Nat /\ 0 <= EntriesPerTurn
    BY <1>2
  <2> QED
    BY ONLY Types, Share, UNCHANGED settings, o \in Ops, to \in Pcs, pc' = [pc EXCEPT ![o] = to],
            <1>1, <1>4, <2>1, OwnStep
<1> QED
  BY <1>3, <1>4

\* Nobody needs a permit but an operation that is started.
LEMMA KeepPermits ==
    ASSUME CInv, NEW o \in Ops, NEW to, pc' = [pc EXCEPT ![o] = to],
           o \in Running \/ to \in {"queued", "end"}
    PROVE  Permits'
<1>1. Running' \subseteq Running
  BY DEF Running, CInv, Types
<1>2. IsFiniteSet(Running)
  BY ConverterAssumption, FS_Subset DEF Running
<1>3. Cardinality(Running') <= Cardinality(Running)
  BY <1>1, <1>2, FS_Subset
<1>4. Cardinality(Running') \in Nat /\ Cardinality(Running) \in Nat
  BY <1>1, <1>2, FS_Subset, FS_CardinalityType
<1> QED
  BY <1>3, <1>4, ConverterAssumption DEF CInv, Permits

LEMMA StartStep == ASSUME CInv, NEW o \in Ops, Start(o) PROVE CInv'
<1>1. pc[o] = "queued" /\ pc' = [pc EXCEPT ![o] = "begin"] /\ "begin" \in Pcs
  BY DEF Start, Goto, Pcs
<1>2. mem[o] = 0
  BY <1>1 DEF CInv, Share, Holding
<1>3. Types' /\ Share'
  BY <1>1, <1>2, OwnStepNoRead DEF CInv, Start
<1>4. Running' = Running \cup {o} /\ o \notin Running
  BY <1>1 DEF CInv, Types, Running
<1>5. IsFiniteSet(Running)
  BY ConverterAssumption, FS_Subset DEF Running
<1>6. Cardinality(Running') = Cardinality(Running) + 1
  BY <1>4, <1>5, FS_AddElement
<1>7. Permits'
  BY <1>5, <1>6, FS_CardinalityType, ConverterAssumption DEF Permits, Start
<1> QED
  BY <1>3, <1>7 DEF CInv

\* What a turn of the outer loop does with what was read.
LEMMA Collected ==
    ASSUME NEW o \in Ops, NEW s, Collect(o, s)
    PROVE  \E to \in {"read", "sorted", "end"}, m \in {0, Len(s)} :
             /\ pc' = [pc EXCEPT ![o] = to] /\ mem' = [mem EXCEPT ![o] = m]
             /\ to # "sorted" => m = 0
<1>1. /\ mem' = [mem EXCEPT ![o] = IF o \in cancelled \/ Tally(s) = <<>> THEN 0 ELSE Len(s)]
      /\ pc' = [pc EXCEPT ![o] = IF o \in cancelled THEN "end"
                                 ELSE IF o \in cancelled \/ Tally(s) = <<>> THEN "read" ELSE "sorted"]
  BY DEF Collect, Goto
<1>2. CASE o \in cancelled
  BY <1>1, <1>2
<1>3. CASE o \notin cancelled /\ Tally(s) = <<>>
  BY <1>1, <1>3
<1>4. CASE o \notin cancelled /\ Tally(s) # <<>>
  BY <1>1, <1>4
<1> QED
  BY <1>2, <1>3, <1>4

\* A turn that keeps the reader on its file and reads no more than its share.
LEMMA CollectStep ==
    ASSUME CInv, NEW o \in Ops, pc[o] = "read", UNCHANGED settings, NEW s, Collect(o, s),
           Len(s) \in Nat, Len(s) <= EntriesPerTurn,
           NEW r \in Readers(o), reader' = [reader EXCEPT ![o] = r]
    PROVE  CInv'
<1>0. Types /\ Share
  BY DEF CInv
<1>1. PICK to \in {"read", "sorted", "end"}, m \in {0, Len(s)} :
        /\ pc' = [pc EXCEPT ![o] = to] /\ mem' = [mem EXCEPT ![o] = m]
        /\ to # "sorted" => m = 0
  BY Collected
<1>2. EntriesPerTurn \in Nat
  BY <1>0, ShareBound DEF Types
<1>3. m \in Nat /\ m <= EntriesPerTurn /\ to \in Pcs /\ (to \notin Holding => m = 0)
  BY <1>1, <1>2 DEF Pcs, Holding
<1>4. Types' /\ Share'
  BY ONLY <1>0, UNCHANGED settings, o \in Ops, <1>1, <1>3, OwnStep,
          r \in Readers(o), reader' = [reader EXCEPT ![o] = r]
<1>5. o \in Running
  BY DEF Running
<1>6. Permits'
  BY <1>1, <1>5, KeepPermits
<1> QED
  BY <1>4, <1>6 DEF CInv

LEMMA ReadStep == ASSUME CInv, NEW o \in Ops, Read(o) PROVE CInv'
<1> DEFINE e == Entries(o)
<1>0. Types /\ Share
  BY DEF CInv
<1>1. pc[o] = "read" /\ mem[o] = 0 /\ reader[o] \in Readers(o) /\ UNCHANGED settings
  <2>1. pc[o] = "read"
    BY DEF Read, Collect, Goto
  <2> QED
    BY <1>0, <2>1 DEF Read, Types, Share, Holding
<1>2. /\ Len(e) \in Nat /\ Len(e) <= EntriesPerTurn /\ reader[o].pos + Len(e) <= Len(Lines[o])
      /\ \E S : e \in Seq(S)
  BY <1>0, EntriesBound
<1>3. reader = [reader EXCEPT ![o] = reader[o]]
  BY <1>0 DEF Types
<1>4. CASE Eof(o) /\ Goto(o, "read", "end") /\ UNCHANGED <<reader, mem>>
  <2>1. pc' = [pc EXCEPT ![o] = "end"] /\ "end" \in Pcs /\ UNCHANGED <<reader, mem>>
    BY <1>4 DEF Goto, Pcs
  <2>2. Types' /\ Share'
    BY <1>0, <1>1, <2>1, OwnStepNoRead
  <2>3. o \in Running
    BY <1>1 DEF Running
  <2>4. Permits'
    BY <2>1, <2>3, KeepPermits
  <2> QED
    BY <2>2, <2>4 DEF CInv
<1>5. CASE /\ Collect(o, e)
           /\ reader' = [reader EXCEPT ![o] = IF e = <<>> THEN @ ELSE Advance(@, Len(e))]
  <2> HIDE DEF e
  <2>1. Advance(reader[o], Len(e)) \in Readers(o)
    BY <1>1, <1>2, AdvanceInFile
  <2>2. PICK r \in Readers(o) : reader' = [reader EXCEPT ![o] = r]
    BY <1>1, <1>5, <2>1
  <2> QED
    BY <1>1, <1>2, <1>5, <2>2, CollectStep
<1>6. ASSUME NEW k \in 1..Len(e), NEW h, Collect(o, Append(SubSeq(e, 1, k - 1), h)), UNCHANGED reader
      PROVE  CInv'
  <2> DEFINE s == Append(SubSeq(e, 1, k - 1), h)
  <2>1. Len(s) = k
    BY <1>2, BrokenOff
  <2>2. Len(s) \in Nat /\ Len(s) <= EntriesPerTurn
    <3>1. EntriesPerTurn \in Nat
      BY <1>0, ShareBound DEF Types
    <3> QED
      BY <1>2, <2>1, <3>1
  <2>3. Collect(o, s) /\ reader' = [reader EXCEPT ![o] = reader[o]]
    BY <1>3, <1>6
  <2> HIDE DEF s
  <2> QED
    BY <1>1, <2>2, <2>3, CollectStep
<1>7. \/ Eof(o) /\ Goto(o, "read", "end") /\ UNCHANGED <<reader, mem>>
      \/ /\ Collect(o, e)
         /\ reader' = [reader EXCEPT ![o] = IF e = <<>> THEN @ ELSE Advance(@, Len(e))]
      \/ /\ \E k \in 1..Len(e), h \in PartHashes : Collect(o, Append(SubSeq(e, 1, k - 1), h))
         /\ UNCHANGED reader
  <2>1. \A s \in CutShort(o) : \E k \in 1..Len(e), h \in PartHashes :
          s = Append(SubSeq(e, 1, k - 1), h)
    <3>1. CutShort(o) = {Append(SubSeq(e, 1, k - 1), h) : k \in 1..Len(e), h \in PartHashes}
      BY DEF CutShort, e
    <3> HIDE DEF e
    <3> QED
      BY <3>1, SMT
  <2>2. CASE Eof(o) /\ Goto(o, "read", "end") /\ UNCHANGED <<reader, mem>>
    BY <2>2
  <2>3. ASSUME NEW s \in {Entries(o)}, Collect(o, s),
               reader' = [reader EXCEPT ![o] = IF s = <<>> THEN @ ELSE Advance(@, Len(s))]
        PROVE  /\ Collect(o, e)
               /\ reader' = [reader EXCEPT ![o] = IF e = <<>> THEN @ ELSE Advance(@, Len(e))]
    <3>1. s = e
      BY <2>3 DEF e
    <3> HIDE DEF e
    <3> QED
      BY <2>3, <3>1
  <2>4. ASSUME NEW s \in CutShort(o), Collect(o, s)
        PROVE  \E k \in 1..Len(e), h \in PartHashes : Collect(o, Append(SubSeq(e, 1, k - 1), h))
    <3>1. PICK k \in 1..Len(e), h \in PartHashes : s = Append(SubSeq(e, 1, k - 1), h)
      BY <2>1, <2>4
    <3>2. Collect(o, Append(SubSeq(e, 1, k - 1), h))
      BY <2>4, <3>1
    <3> HIDE DEF e
    <3> QED
      BY <3>1, <3>2
  <2>5. \/ Eof(o) /\ Goto(o, "read", "end") /\ UNCHANGED <<reader, mem>>
        \/ \E s \in {Entries(o)} :
             /\ Collect(o, s)
             /\ reader' = [reader EXCEPT ![o] = IF s = <<>> THEN @ ELSE Advance(@, Len(s))]
        \/ /\ \E s \in CutShort(o) : Collect(o, s)
           /\ UNCHANGED reader
    BY Zenon DEF Read
  <2> HIDE DEF e
  <2> QED
    BY Zenon, <2>2, <2>3, <2>4, <2>5
<1> HIDE DEF e
<1> QED
  BY <1>4, <1>5, <1>6, <1>7

LEMMA WriteSteps ==
    ASSUME CInv, NEW o \in Ops, Begin(o) \/ ChooseName(o) \/ Exists(o) \/ Open(o) \/ Write(o)
    PROVE  CInv'
<1>0. Types /\ Share
  BY DEF CInv
<1>1. PICK to \in {"end", "read", "exists", "open", "write"} :
        /\ pc' = [pc EXCEPT ![o] = to]
        /\ mem' = mem \/ mem' = [mem EXCEPT ![o] = 0]
        /\ to \in {"end", "read"} => mem'[o] = 0
        /\ UNCHANGED <<settings, reader>>
        /\ pc[o] \notin {"queued", "end"}
  <2>0. mem \in [Ops -> Nat] /\ (pc[o] = "begin" => mem[o] = 0)
    BY <1>0 DEF Types, Share, Holding
  <2>1. CASE Begin(o)
    BY <2>0, <2>1 DEF Begin, Goto
  <2>2. CASE ChooseName(o)
    BY <2>0, <2>2 DEF ChooseName, Goto
  <2>3. CASE Exists(o)
    BY <2>0, <2>3 DEF Exists, Goto
  <2>4. CASE Open(o)
    BY <2>0, <2>4 DEF Open, Goto
  <2>5. CASE Write(o)
    BY <2>0, <2>5 DEF Write, Goto
  <2> QED
    BY <2>1, <2>2, <2>3, <2>4, <2>5
<1>2. to \in Pcs /\ (to \notin Holding => to \in {"end", "read"})
  BY DEF Pcs, Holding
<1>3. Types' /\ Share'
  BY <1>0, <1>1, <1>2, OwnStepNoRead
<1>4. Permits'
  <2>1. o \in Running
    BY <1>1 DEF Running
  <2> QED
    BY <1>1, <2>1, KeepPermits
<1> QED
  BY <1>3, <1>4 DEF CInv

LEMMA CStutter == CInv /\ UNCHANGED <<settings, pc, reader, mem>> => CInv'
BY DEF CInv, Types, Share, Permits, Running, Readers, EntriesPerTurn, MaxMem, settings

LEMMA CNext == CInv /\ [Next]_vars => CInv'
<1> SUFFICES ASSUME CInv, [Next]_vars PROVE CInv'
  OBVIOUS
<1>1. CASE UNCHANGED vars
  BY <1>1, CStutter DEF vars
<1>2. ASSUME NEW o \in Ops, Execute(o) PROVE CInv'
  BY <1>2, StartStep, ReadStep, WriteSteps DEF Execute
<1>3. ASSUME NEW o \in Ops, Cancel(o) PROVE CInv'
  BY <1>3, CStutter DEF Cancel
<1> QED
  BY <1>1, <1>2, <1>3 DEF Next

LEMMA CInvariant == Spec => []CInv
BY CInit, CNext, PTL DEF Spec

\* The memory in use, for whatever the queue lets run at the same time.
LEMMA MemoryOfRunning ==
    ASSUME CInv
    PROVE  /\ Cardinality(Running) \in Nat
           /\ SumFunction(MemUsage) \in Nat
           /\ SumFunction(MemUsage)
                <= Cardinality(Running) * (MaxMem + MemUsagePerEntry - 1)
<1> DEFINE b == MaxMem + MemUsagePerEntry - 1
<1> USE ConverterAssumption
<1>1. Running \in SUBSET Ops
  BY DEF Running
<1>2. MaxMem \in Nat /\ EntriesPerTurn \in Nat /\ EntriesPerTurn * MemUsagePerEntry <= b /\ b \in Nat
  BY ShareBound DEF CInv, Types
<1>3. \A o \in Ops : mem[o] \in Nat /\ mem[o] <= EntriesPerTurn
  BY DEF CInv, Types, Share
<1>4. MemUsage \in [Ops -> Nat]
  BY <1>3 DEF MemUsage
<1> HIDE DEF b
<1>5. ASSUME NEW o \in Running PROVE MemUsage[o] <= b
  <2>1. MemUsage[o] = mem[o] * MemUsagePerEntry
    BY <1>1 DEF MemUsage
  <2>2. \A x \in Nat : x <= EntriesPerTurn => x * MemUsagePerEntry <= EntriesPerTurn * MemUsagePerEntry
    BY <1>2
  <2>3. mem[o] * MemUsagePerEntry <= EntriesPerTurn * MemUsagePerEntry
    BY <1>1, <1>3, <2>2
  <2>4. mem[o] * MemUsagePerEntry \in Nat /\ EntriesPerTurn * MemUsagePerEntry \in Nat
    BY <1>1, <1>2, <1>3
  <2> QED
    BY <1>2, <2>1, <2>3, <2>4
<1>6. ASSUME NEW o \in Ops \ Running PROVE MemUsage[o] = 0
  <2>1. mem[o] = 0
    BY DEF Running, Holding, CInv, Share
  <2> QED
    BY <2>1 DEF MemUsage
<1>7. SumFunctionOnSet(MemUsage, Ops) \in Nat /\ SumFunctionOnSet(MemUsage, Ops) <= Cardinality(Running) * b
  BY <1>1, <1>2, <1>4, <1>5, <1>6, SumBound
<1>8. Cardinality(Running) \in Nat
  BY <1>1, FS_Subset, FS_CardinalityType
<1>9. SumFunction(MemUsage) = SumFunctionOnSet(MemUsage, Ops)
  BY DEF SumFunction, MemUsage
<1> QED
  BY <1>7, <1>8, <1>9 DEF b

\* What the help text says of --ram holds when --threads is not below the number
\* of permits: the operations together keep to it, but for an entry each.
LEMMA RamIsPromised ==
    ASSUME CInv, Capacity <= numThreads
    PROVE  RamPromised
<1> DEFINE s == SumFunction(MemUsage)
           k == Cardinality(Running)
<1>1. k \in Nat /\ s \in Nat /\ s <= k * (MaxMem + MemUsagePerEntry - 1)
  BY MemoryOfRunning
<1>2. k <= numThreads /\ numThreads \in Nat /\ MemUsagePerEntry \in Nat \ {0} /\ ram \in Nat
  BY <1>1, ConverterAssumption DEF CInv, Permits, Types
<1>3. MaxMem \in Nat /\ MaxMem * numThreads <= ram
  BY ShareBound DEF CInv, Types
<1>4. s <= ram + MemUsagePerEntry * k
  <2> HIDE DEF s, k
  <2>1. \A a, m, x, t \in Nat : x <= t => x * (a + m - 1) <= a * t + m * x
    <3> SUFFICES ASSUME NEW a \in Nat, NEW m \in Nat, NEW x \in Nat, NEW t \in Nat, x <= t
                 PROVE  x * (a + m - 1) <= a * t + m * x
      OBVIOUS
    <3>1. x * (a + m - 1) = a * x + m * x - x
      OBVIOUS
    <3>2. a * x <= a * t
      <4>1. PICK j \in Nat : t = x + j
        BY t - x \in Nat
      <4>2. a * t = a * x + a * j /\ a * j \in Nat /\ a * x \in Nat
        BY <4>1
      <4> QED
        BY <4>2
    <3>3. a * x \in Nat /\ m * x \in Nat /\ a * t \in Nat
      OBVIOUS
    <3> QED
      BY <3>1, <3>2, <3>3
  <2>2. k * (MaxMem + MemUsagePerEntry - 1) <= MaxMem * numThreads + MemUsagePerEntry * k
    BY <1>1, <1>2, <1>3, <2>1
  <2>4. /\ k * (MaxMem + MemUsagePerEntry - 1) \in Int /\ MaxMem * numThreads \in Nat
        /\ MemUsagePerEntry * k \in Nat
    BY <1>1, <1>2, <1>3
  <2> QED
    BY <1>1, <1>2, <1>3, <2>2, <2>4
<1> QED
  BY <1>4 DEF RamPromised

\* However many permits the queue has and whatever --threads says, each
\* operation reads until it has its part, and it has nothing in memory when it
\* waits, begins a turn or ends, whatever it found in its file, whether it could
\* read or write on and wherever it was cancelled; if there are no more permits
\* than threads, that is within --ram.
THEOREM RamIsRespected == Spec => []RamRespected
<1>1. CInv => RamRespected
  <2> SUFFICES ASSUME CInv PROVE RamRespected
    OBVIOUS
  <2>1. SumFunction(MemUsage) <= Cardinality(Running) * (ram \div numThreads + MemUsagePerEntry - 1)
    BY MemoryOfRunning DEF MaxMem
  <2>2. Cardinality(Running) <= Capacity
    BY DEF CInv, Permits
  <2> QED
    BY <2>1, <2>2, RamIsPromised DEF RamRespected
<1> QED
  BY <1>1, CInvariant, PTL

=============================================================================
