---------------------------- MODULE LookupProofs ----------------------------
(***************************************************************************)
(* First, the lookups of PasswordInspector are sound and complete for      *)
(* every sorted file, every index of it and every sequence of lookups.     *)
(* The inductive invariant says that the bounds of a search enclose the    *)
(* record sought, and that the one read that can fail is the one past the  *)
(* end.                                                                    *)
(*                                                                         *)
(* Then the programs around a data file, for every sorted file, every      *)
(* index size, every test set and any number of runs.  Their lookups keep  *)
(* that invariant; what the programs add is how far pwned-index has come,  *)
(* what is in the test set, and that a benchmark's lookup is one of the    *)
(* test set's hashes.                                                      *)
(***************************************************************************)
EXTENDS Lookup, WellFoundedInduction, TLAPS

-----------------------------------------------------------------------------
(* The searches of one data file.                                          *)

\* Record number i begins at this byte.
Pos(i) == Size * (i - 1)

\* The search of a good file encloses the record: everything before lo is
\* smaller and everything after hi is larger than the hash sought.
BelowLo == \A i \in 1..Len(db) : Pos(i) < lo => db[i].hash < sought
AboveHi == \A i \in 1..Len(db) : Pos(i) > hi => db[i].hash > sought

Aligned(x) == x % Size = 0

\* The bounds and buffers of a lookup that is under way.
Bounds ==
    /\ pc = "smartLo" => lo \in 0..(FileSize - Size) /\ Aligned(lo)
    /\ pc \in {"smartLo", "smartHi"} =>
         /\ hi \in 0..(FileSize - Size) /\ Aligned(hi)
         /\ offset > 0 /\ Aligned(offset)
         /\ at = Bucket(sought)
    /\ pc \in {"idxLo", "idxHi"} => phc = NoRecord
    /\ pc = "idxLo" => lo \in {0, Missing} /\ hi = FileSize
    /\ pc = "idxLo" /\ indexOk => at \in -1..Bucket(sought)
    /\ pc = "idxHi" =>
         /\ lo >= 0 /\ lo < FileSize /\ Aligned(lo) /\ BelowLo
         /\ hi \in {FileSize, Missing}
    /\ pc = "idxHi" /\ indexOk => at > Bucket(sought)
    /\ pc = "probe" =>
         /\ lo >= 0 /\ Aligned(lo)
         /\ hi >= -Size /\ hi <= FileSize /\ Aligned(hi)
         /\ phc = NoRecord \/ \E i \in 1..Len(db) : phc = db[i]

\* What holds when the stream was good at the call.
Good ==
    pc = "probe" /\ trusted =>
      /\ BelowLo /\ AboveHi
      /\ lo >= FileSize => phc.hash < sought
      /\ ~dataOk => lo > hi

\* The streams: failed only after a hash beyond all records.
Streams ==
    /\ ~beyond => dataOk /\ trusted
    /\ pc \in {"smartLo", "smartHi", "idxLo", "idxHi"} /\ trusted => dataOk
    /\ pc \notin {"idle", "done"} /\ AboveAll(sought) => beyond
    /\ pc # "idle" => sought \in Hashes

IInv == TypeOK /\ Bounds /\ Good /\ Streams /\ LookupSound /\ LookupComplete

-----------------------------------------------------------------------------
(* Arithmetic on byte offsets.                                             *)

LEMMA AlignedOps ==
    ASSUME NEW a \in Int, NEW b \in Int, Aligned(a), Aligned(b)
    PROVE  /\ Aligned(a + b) /\ Aligned(a - b) /\ Aligned(2 * b)
           /\ Aligned(a + Size) /\ Aligned(a - Size)
BY DEF Aligned, Size

LEMMA AlignedMultiple == ASSUME NEW n \in Int PROVE Aligned(Size * n)
BY DEF Aligned, Size

\* The middle record lies between the bounds and halves them.
LEMMA MiddleRecord ==
    ASSUME NEW a \in Int, NEW b \in Int, Aligned(a), Aligned(b), 0 <= a, a <= b,
           NEW p, p = ((a + b) \div 2) - (((a + b) \div 2) % Size)
    PROVE  /\ p \in Int /\ Aligned(p)
           /\ a <= p /\ p <= b
           /\ 2 * p <= a + b /\ a + b <= 2 * p + Size
BY DEF Aligned, Size

\* smart_binsearch's first window lies within the file.
LEMMA Window ==
    ASSUME NEW f \in Int, NEW g \in Int, NEW o \in Int, Aligned(f), Aligned(g), Aligned(o),
           0 <= g, g <= f, o >= Size, f >= Size
    PROVE  /\ LET l == IF g >= o THEN g - o ELSE 0
              IN l \in 0..(f - Size) /\ Aligned(l)
           /\ LET u == IF g + o <= f - Size THEN g + o ELSE f - Size
              IN u \in 0..(f - Size) /\ Aligned(u)
BY DEF Aligned, Size

LEMMA DbFacts ==
    ASSUME IsDb(db)
    PROVE  /\ Len(db) \in Nat \ {0} /\ FileSize \in Nat /\ Aligned(FileSize)
           /\ FileSize = Size * Len(db)
           /\ \A i \in 1..Len(db) : /\ db[i] \in [hash : Hashes, count : Nat \ {0}]
                                     /\ db[i].hash \in Nat
           /\ \A i, j \in 1..Len(db) : i < j => db[i].hash < db[j].hash
<1>1. Len(db) \in Nat \ {0}
  BY DEF IsDb
<1>2. FileSize \in Nat /\ Aligned(FileSize) /\ FileSize = Size * Len(db)
  BY <1>1, AlignedMultiple DEF FileSize, Size
<1>3. ASSUME NEW i \in 1..Len(db)
      PROVE db[i] \in [hash : Hashes, count : Nat \ {0}] /\ db[i].hash \in Nat
  <2> DEFINE R == [hash : Hashes, count : Nat \ {0}]
  <2>0. db \in Seq(R)
    BY DEF IsDb
  <2>1. db[i] \in R
    <3> HIDE DEF R
    <3> QED
      BY <1>3, <2>0
  <2>2. db[i].hash \in Hashes
    BY <2>1
  <2> QED
    BY <2>1, <2>2, InspectorAssumption
<1> QED
  BY <1>1, <1>2, <1>3 DEF IsDb

LEMMA OffsetFacts ==
    ASSUME FileSize \in Nat
    PROVE  InitialOffset \in Nat /\ InitialOffset >= Size /\ Aligned(InitialOffset)
<1> DEFINE o == IF FileSize \div 4096 > Size THEN FileSize \div 4096 ELSE Size
<1>1. o \in Nat /\ o >= Size
  BY DEF Size
<1>2. InitialOffset = o - (o % Size)
  BY DEF InitialOffset
<1> HIDE DEF o
<1>3. o - (o % Size) \in Nat /\ o - (o % Size) >= Size /\ (o - (o % Size)) % Size = 0
  BY <1>1, SMTT(30) DEF Size
<1> QED
  BY <1>2, <1>3 DEF Aligned

LEMMA Quotient ==
    ASSUME NEW p \in Int, NEW n \in Nat, Aligned(p), 0 <= p, p + Size <= Size * n
    PROVE  (p \div Size) + 1 \in 1..n /\ p = Size * (p \div Size)
BY SMTT(30) DEF Aligned, Size

\* A readable, aligned offset is the offset of a record.
LEMMA RecordAt ==
    ASSUME IsDb(db), NEW probe \in Int, Aligned(probe), probe >= 0, probe + Size <= FileSize
    PROVE  \E i \in 1..Len(db) : probe = Pos(i) /\ Record(probe) = db[i]
<1>0. Len(db) \in Nat /\ FileSize = Size * Len(db)
  BY DbFacts
<1>1. (probe \div Size) + 1 \in 1..Len(db) /\ probe = Size * (probe \div Size)
  BY <1>0, Quotient
<1>2. probe = Pos((probe \div Size) + 1)
  BY <1>1 DEF Pos, Size
<1> QED
  BY <1>1, <1>2 DEF Record

LEMMA CountFacts ==
    ASSUME IsDb(db), NEW h \in Nat
    PROVE  /\ \A i \in 1..Len(db) : db[i].hash = h => CountOf(h) = db[i].count
           /\ (\A i \in 1..Len(db) : db[i].hash # h) => CountOf(h) = 0
<1>1. ASSUME NEW i \in 1..Len(db), db[i].hash = h
      PROVE  CountOf(h) = db[i].count
  <2> DEFINE c == CHOOSE k \in 1..Len(db) : db[k].hash = h
  <2>1. c \in 1..Len(db) /\ db[c].hash = h
    BY <1>1
  <2>2. c = i
    BY <1>1, <2>1, DbFacts
  <2> QED
    BY <1>1, <2>2 DEF CountOf
<1>2. ASSUME \A i \in 1..Len(db) : db[i].hash # h PROVE CountOf(h) = 0
  BY <1>2 DEF CountOf
<1> QED
  BY <1>1, <1>2

\* A key of the index is the offset of the first record of its bucket.
LEMMA KeyFacts ==
    ASSUME IsDb(db), NEW k \in Int
    PROVE  \/ KeyAt(k) = Missing
           \/ \E i \in 1..Len(db) : /\ KeyAt(k) = Pos(i)
                                     /\ Bucket(db[i].hash) = k
                                     /\ \A j \in 1..(i - 1) : Bucket(db[j].hash) # k
<1> DEFINE T == {i \in 1..Len(db) : Bucket(db[i].hash) = k}
<1>1. CASE T = {}
  BY <1>1 DEF KeyAt
<1>2. CASE T # {}
  <2>1. T \subseteq Nat
    OBVIOUS
  <2>2. \E x \in T : \A y \in T : ~(<<y, x>> \in OpToRel(<, Nat))
    BY <1>2, <2>1, NatLessThanWellFounded, WFMin
  <2>3. \E x \in T : \A y \in T : ~(y < x)
    BY <2>1, <2>2 DEF OpToRel
  <2> DEFINE first(i) == /\ Bucket(db[i].hash) = k
                         /\ \A j \in 1..(i - 1) : Bucket(db[j].hash) # k
             c == CHOOSE i \in 1..Len(db) : first(i)
  <2>4. \E i \in 1..Len(db) : first(i)
    BY <2>3, DbFacts
  <2>5. c \in 1..Len(db) /\ first(c)
    BY <2>4
  <2>6. KeyAt(k) = Size * (c - 1)
    BY <1>2 DEF KeyAt
  <2> QED
    BY <2>5, <2>6 DEF Pos
<1> QED
  BY <1>1, <1>2

-----------------------------------------------------------------------------
(* The invariant.                                                          *)

LEMMA InitInv == Init => IInv
<1> SUFFICES ASSUME Init PROVE IInv
  OBVIOUS
<1>1. TypeOK
  <2>1. IsDb(db) /\ phc \in [hash : Nat, count : Nat]
    BY InspectorAssumption DEF Init, NoRecord
  <2>2. lo = 0 /\ hi = 0 /\ 0 % Size = 0
    BY DEF Init, Size
  <2>3. /\ indexed \in BOOLEAN /\ dataOk \in BOOLEAN /\ indexOk \in BOOLEAN
        /\ trusted \in BOOLEAN /\ beyond \in BOOLEAN
    BY DEF Init
  <2>4. pc \in Pcs /\ sought \in Nat /\ result \in Nat /\ at \in Int /\ offset \in Int
    BY DEF Init, Pcs
  <2> QED
    BY <2>1, <2>2, <2>3, <2>4 DEF TypeOK
<1>2. Bounds /\ Good /\ Streams /\ LookupSound /\ LookupComplete
  BY DEF Init, Bounds, Good, Streams, LookupSound, LookupComplete
<1> QED
  BY <1>1, <1>2 DEF IInv

LEMMA CallInv == ASSUME NEW h \in Hashes, IInv, Binsearch(h) \/ SmartBinsearch(h)
                 PROVE  IInv'
<1> USE DEF IInv
<1>1. IsDb(db) /\ h \in Nat
  BY InspectorAssumption DEF TypeOK
<1>2. Len(db) \in Nat \ {0} /\ FileSize \in Nat /\ Aligned(FileSize) /\ FileSize >= Size
  BY <1>1, DbFacts DEF Size
<1>3. Bucket(h) \in 0..(NKeys - 1) /\ NKeys \in Nat
  BY InspectorAssumption
<1>4. db' = db /\ indexed' = indexed /\ dataOk' = dataOk /\ indexOk' = indexOk
      /\ result' = result /\ Asked(h) /\ FileSize' = FileSize /\ phc' = NoRecord
      /\ at' = Bucket(h)
  BY DEF Binsearch, SmartBinsearch, file, FileSize, EnterBinsearch
<1>5. Streams' /\ LookupSound' /\ LookupComplete'
  BY <1>4
  DEF Binsearch, SmartBinsearch, EnterBinsearch, Asked, Streams, AboveAll,
      LookupSound, LookupComplete
<1>6. CASE Binsearch(h)
  <2>1. TypeOK'
    BY <1>1, <1>2, <1>3, <1>4, <1>6
    DEF Binsearch, EnterBinsearch, Asked, TypeOK, Pcs, NoRecord, Aligned, Size
  <2>2. Bounds'
    BY <1>1, <1>2, <1>3, <1>4, <1>6
    DEF Binsearch, EnterBinsearch, Asked, Bounds, NoRecord, Aligned, Size
  <2>3. Good'
    BY <1>1, <1>2, <1>4, <1>6, DbFacts
    DEF Binsearch, EnterBinsearch, Asked, Good, BelowLo, AboveHi, Pos, Size
  <2> QED
    BY <1>5, <2>1, <2>2, <2>3
<1>7. CASE SmartBinsearch(h)
  <2>1. offset' \in Nat /\ offset' >= Size /\ Aligned(offset')
    BY <1>2, <1>7, OffsetFacts DEF SmartBinsearch
  <2>2. PICK guess \in {Size * n : n \in 0..Len(db)} :
          /\ lo' = IF guess >= offset' THEN guess - offset' ELSE 0
          /\ hi' = IF guess + offset' <= FileSize - Size
                   THEN guess + offset' ELSE FileSize - Size
    BY <1>7 DEF SmartBinsearch
  <2>3. guess \in Nat /\ Aligned(guess) /\ guess <= FileSize
    BY <1>2 DEF Aligned, Size, FileSize
  <2>4. /\ lo' \in 0..(FileSize - Size) /\ Aligned(lo')
        /\ hi' \in 0..(FileSize - Size) /\ Aligned(hi')
    <3>1. guess \in Int /\ 0 <= guess /\ offset' \in Int /\ FileSize \in Int
      BY <1>2, <2>1, <2>3
    <3> QED
      BY <1>2, <2>1, <2>2, <2>3, <3>1, Window
  <2>5. TypeOK'
    BY <1>1, <1>2, <1>3, <1>4, <1>7, <2>1, <2>4
    DEF SmartBinsearch, Asked, TypeOK, Pcs, NoRecord, Aligned
  <2>6. Bounds' /\ Good'
    BY <1>4, <1>7, <2>1, <2>4 DEF SmartBinsearch, Asked, Bounds, Good, Size
  <2> QED
    BY <1>5, <2>5, <2>6
<1> QED
  BY <1>6, <1>7

LEMMA SmartLoInv == IInv /\ SmartLo => IInv'
<1> SUFFICES ASSUME IInv, SmartLo PROVE IInv'
  OBVIOUS
<1> USE DEF IInv
<1>1. IsDb(db) /\ lo \in Int /\ hi \in Int /\ offset \in Int
  BY DEF TypeOK
<1>2. Len(db) \in Nat \ {0} /\ FileSize \in Nat /\ FileSize >= Size
  BY <1>1, DbFacts DEF Size
<1>3. /\ lo \in 0..(FileSize - Size) /\ Aligned(lo)
      /\ hi \in 0..(FileSize - Size) /\ Aligned(hi)
      /\ offset > 0 /\ Aligned(offset)
  BY DEF SmartLo, Bounds
<1>4. PICK i \in 1..Len(db) : Record(lo) = db[i]
  <2>1. lo >= 0 /\ lo + Size <= FileSize
    BY <1>1, <1>2, <1>3 DEF Size
  <2> QED
    BY <1>1, <1>3, <2>1, RecordAt
<1>5. dataOk' = dataOk /\ phc' \in [hash : Nat, count : Nat]
  <2>1. Readable(lo) = dataOk
    BY <1>2, <1>3 DEF Readable, Size, TypeOK
  <2>2. db[i] \in [hash : Nat, count : Nat]
    BY <1>1, DbFacts, InspectorAssumption
  <2>3. dataOk' = Readable(lo) /\ phc' = IF Readable(lo) THEN Record(lo) ELSE phc
    BY DEF SmartLo
  <2>4. phc' \in [hash : Nat, count : Nat]
    BY <1>4, <2>2, <2>3 DEF TypeOK
  <2> QED
    BY <2>1, <2>3, <2>4 DEF TypeOK
<1>6. /\ db' = db /\ indexed' = indexed /\ indexOk' = indexOk /\ sought' = sought
      /\ hi' = hi /\ at' = at /\ result' = result /\ trusted' = trusted
      /\ beyond' = beyond /\ FileSize' = FileSize /\ pc = "smartLo"
      /\ pc' \in {"smartLo", "smartHi"}
  BY DEF SmartLo, file, hist, FileSize
<1> DEFINE moved == lo >= offset /\ lo' = lo - offset /\ offset' = 2 * offset
           left  == lo' = lo /\ offset' = InitialOffset
<1>m. moved \/ left
  BY DEF SmartLo
<1>7. lo' \in 0..(FileSize - Size) /\ Aligned(lo')
  <2>1. CASE moved
    BY <1>1, <1>2, <1>3, <2>1 DEF Aligned, Size
  <2>2. CASE left
    BY <1>3, <2>2
  <2> QED
    BY <1>m, <2>1, <2>2
<1>8. offset' \in Int /\ offset' > 0 /\ Aligned(offset')
  <2>1. CASE moved
    BY <1>1, <1>3, <2>1 DEF Aligned, Size
  <2>2. CASE left
    BY <1>2, <2>2, OffsetFacts, SMTT(30) DEF Aligned, Size
  <2> QED
    BY <1>m, <2>1, <2>2
<1>9. TypeOK'
  BY <1>2, <1>5, <1>6, <1>7, <1>8 DEF TypeOK, Pcs, Aligned
<1>10. Bounds' /\ Good'
  BY <1>3, <1>6, <1>7, <1>8 DEF Bounds, Good
<1>11. Streams' /\ LookupSound' /\ LookupComplete'
  BY <1>5, <1>6 DEF Streams, AboveAll, LookupSound, LookupComplete
<1> QED
  BY <1>9, <1>10, <1>11

LEMMA SmartHiInv == IInv /\ SmartHi => IInv'
<1> SUFFICES ASSUME IInv, SmartHi PROVE IInv'
  OBVIOUS
<1> USE DEF IInv
<1>1. IsDb(db) /\ lo \in Int /\ hi \in Int /\ offset \in Int
  BY DEF TypeOK
<1>2. Len(db) \in Nat \ {0} /\ FileSize \in Nat /\ FileSize >= Size /\ Aligned(FileSize)
  BY <1>1, DbFacts DEF Size
<1>3. /\ hi \in 0..(FileSize - Size) /\ Aligned(hi)
      /\ offset > 0 /\ Aligned(offset) /\ pc = "smartHi"
  BY DEF SmartHi, Bounds
<1>4. dataOk' = dataOk
  BY <1>2, <1>3 DEF SmartHi, Readable, Size, TypeOK
<1>5. /\ db' = db /\ indexed' = indexed /\ indexOk' = indexOk /\ sought' = sought
      /\ at' = at /\ result' = result /\ trusted' = trusted
      /\ beyond' = beyond /\ FileSize' = FileSize
  BY DEF SmartHi, file, hist, FileSize
<1>6. CASE /\ hi <= FileSize - offset - Size /\ hi' = hi + offset
           /\ offset' = 2 * offset /\ UNCHANGED <<pc, lo, phc>>
  <2>1. hi' \in 0..(FileSize - Size) /\ Aligned(hi')
    BY <1>1, <1>2, <1>3, <1>6, AlignedOps DEF Size
  <2>2. offset' \in Int /\ offset' > 0 /\ Aligned(offset')
    BY <1>1, <1>3, <1>6, AlignedOps
  <2>3. TypeOK'
    BY <1>4, <1>5, <1>6, <2>1, <2>2 DEF TypeOK, Aligned
  <2>4. Bounds' /\ Good' /\ Streams' /\ LookupSound' /\ LookupComplete'
    BY <1>3, <1>4, <1>5, <1>6, <2>1, <2>2
    DEF Bounds, Good, Streams, AboveAll, LookupSound, LookupComplete
  <2> QED
    BY <2>3, <2>4
<1>7. CASE EnterBinsearch /\ offset' = offset
  <2>1. TypeOK'
    BY <1>1, <1>2, <1>4, <1>5, <1>7
    DEF EnterBinsearch, TypeOK, Pcs, NoRecord, Aligned, Size
  <2>2. Bounds'
    <3>1. at = Bucket(sought) /\ Bucket(sought) \in 0..(NKeys - 1) /\ NKeys \in Nat
      BY <1>3, InspectorAssumption DEF Bounds, Streams
    <3> QED
      BY <1>2, <1>5, <1>7, <3>1
      DEF EnterBinsearch, Bounds, NoRecord, Aligned, Size
  <2>3. Good'
    BY <1>1, <1>2, <1>3, <1>4, <1>5, <1>7, DbFacts
    DEF EnterBinsearch, Good, BelowLo, AboveHi, Pos, Size, Streams
  <2>4. Streams' /\ LookupSound' /\ LookupComplete'
    BY <1>3, <1>4, <1>5, <1>7
    DEF EnterBinsearch, Streams, AboveAll, LookupSound, LookupComplete
  <2> QED
    BY <2>1, <2>2, <2>3, <2>4
<1> QED
  BY <1>6, <1>7 DEF SmartHi

LEMMA IdxLoInv == IInv /\ IdxLo => IInv'
<1> SUFFICES ASSUME IInv, IdxLo PROVE IInv'
  OBVIOUS
<1> USE DEF IInv
<1>1. IsDb(db) /\ lo \in Int /\ hi \in Int /\ at \in Int /\ sought \in Hashes
      /\ sought \in Nat /\ pc = "idxLo"
  BY DEF IdxLo, TypeOK, Streams
<1>2. Len(db) \in Nat \ {0} /\ FileSize \in Nat /\ FileSize >= Size /\ Aligned(FileSize)
  BY <1>1, DbFacts DEF Size
<1>3. Bucket(sought) \in 0..(NKeys - 1) /\ NKeys \in Nat
  BY <1>1, InspectorAssumption
<1>4. /\ db' = db /\ indexed' = indexed /\ dataOk' = dataOk /\ sought' = sought
      /\ hi' = hi /\ offset' = offset /\ phc' = phc /\ result' = result
      /\ trusted' = trusted /\ beyond' = beyond /\ FileSize' = FileSize
  BY DEF IdxLo, file, hist, FileSize
<1>5. hi = FileSize /\ phc = NoRecord /\ lo \in {0, Missing}
      /\ (indexOk => at \in -1..Bucket(sought))
  BY <1>1 DEF Bounds
<1>6. CASE lo' = Missing
  <2>1. pc' = pc /\ at' = (IF at >= 0 THEN at - 1 ELSE at)
        /\ indexOk' = KeyReadable(at)
    BY <1>6 DEF IdxLo
  <2>2. indexOk' \in BOOLEAN
    BY <2>1 DEF KeyReadable, TypeOK
  <2>3. at' \in Int /\ (indexOk' => at' \in -1..Bucket(sought))
    <3>1. at' \in Int
      BY <1>1, <2>1
    <3>2. ASSUME indexOk' PROVE at' \in -1..Bucket(sought)
      <4>1. indexOk /\ at \in 0..(NKeys - 1)
        BY <2>1, <3>2 DEF KeyReadable
      <4> QED
        BY <1>1, <1>3, <1>5, <2>1, <4>1
    <3> QED
      BY <3>1, <3>2
  <2>4. TypeOK'
    BY <1>4, <1>6, <2>1, <2>2, <2>3 DEF TypeOK, Missing
  <2>5. Bounds' /\ Good'
    BY <1>1, <1>4, <1>5, <1>6, <2>1, <2>3 DEF Bounds, Good
  <2>6. Streams' /\ LookupSound' /\ LookupComplete'
    BY <1>1, <1>4, <2>1 DEF Streams, AboveAll, LookupSound, LookupComplete
  <2> QED
    BY <2>4, <2>5, <2>6
<1>7. CASE lo' # Missing
  <2>1. pc' = "idxHi" /\ at' = Bucket(sought) + 1 /\ indexOk' = KeyReadable(at)
    BY <1>7 DEF IdxLo
  <2>2. indexOk' \in BOOLEAN
    BY <2>1 DEF KeyReadable, TypeOK
  <2>3. lo' \in Int /\ lo' >= 0 /\ lo' < FileSize /\ Aligned(lo') /\ BelowLo'
    <3>1. CASE KeyReadable(at)
      <4>1. lo' = KeyAt(at) /\ indexOk
        BY <3>1 DEF IdxLo, KeyReadable
      <4>2. PICK i \in 1..Len(db) : /\ KeyAt(at) = Pos(i)
                                     /\ Bucket(db[i].hash) = at
                                     /\ \A j \in 1..(i - 1) : Bucket(db[j].hash) # at
        BY <1>1, <1>7, <4>1, KeyFacts
      <4>3. lo' \in Int /\ lo' >= 0 /\ lo' < FileSize /\ Aligned(lo')
        BY <1>1, <4>1, <4>2, DbFacts DEF Pos, Aligned, Size
      <4>4. ASSUME NEW j \in 1..Len(db), Pos(j) < lo' PROVE db[j].hash < sought
        <5>1. j < i
          BY <1>2, <4>1, <4>2, <4>4 DEF Pos, Size
        <5>2. /\ db[j].hash \in Hashes /\ db[i].hash \in Hashes
              /\ db[j].hash \in Nat /\ db[i].hash \in Nat /\ db[j].hash < db[i].hash
          BY <1>1, <5>1, DbFacts
        <5>3. Bucket(db[j].hash) <= at /\ Bucket(db[j].hash) # at
          BY <1>2, <4>2, <5>1, <5>2, InspectorAssumption
        <5>4. ~(sought <= db[j].hash)
          BY <1>1, <1>3, <1>5, <4>1, <5>2, <5>3, InspectorAssumption
        <5> QED
          BY <1>1, <5>2, <5>4
      <4> QED
        BY <1>4, <4>3, <4>4 DEF BelowLo
    <3>2. CASE ~KeyReadable(at)
      <4>1. lo' = 0
        BY <1>5, <1>7, <3>2 DEF IdxLo
      <4> QED
        BY <1>2, <1>4, <4>1 DEF BelowLo, Pos, Aligned, Size
    <3> QED
      BY <3>1, <3>2
  <2>4. TypeOK'
    BY <1>3, <1>4, <2>1, <2>2, <2>3 DEF TypeOK, Pcs, Aligned
  <2>5. Bounds' /\ Good'
    BY <1>3, <1>4, <1>5, <2>1, <2>3 DEF Bounds, Good
  <2>6. Streams' /\ LookupSound' /\ LookupComplete'
    BY <1>1, <1>4, <2>1 DEF Streams, AboveAll, LookupSound, LookupComplete
  <2> QED
    BY <2>4, <2>5, <2>6
<1> QED
  BY <1>6, <1>7

LEMMA IdxHiInv == IInv /\ IdxHi => IInv'
<1> SUFFICES ASSUME IInv, IdxHi PROVE IInv'
  OBVIOUS
<1> USE DEF IInv
<1>1. IsDb(db) /\ lo \in Int /\ hi \in Int /\ at \in Int /\ sought \in Hashes
      /\ sought \in Nat /\ pc = "idxHi"
  BY DEF IdxHi, TypeOK, Streams
<1>2. Len(db) \in Nat \ {0} /\ FileSize \in Nat /\ FileSize >= Size /\ Aligned(FileSize)
  BY <1>1, DbFacts DEF Size
<1>3. Bucket(sought) \in 0..(NKeys - 1) /\ NKeys \in Nat
  BY <1>1, InspectorAssumption
<1>4. /\ db' = db /\ indexed' = indexed /\ dataOk' = dataOk /\ sought' = sought
      /\ lo' = lo /\ offset' = offset /\ phc' = phc /\ result' = result
      /\ trusted' = trusted /\ beyond' = beyond /\ FileSize' = FileSize
  BY DEF IdxHi, file, hist, FileSize
<1>5. /\ lo >= 0 /\ lo < FileSize /\ Aligned(lo) /\ BelowLo
      /\ hi \in {FileSize, Missing} /\ phc = NoRecord
      /\ (indexOk => at > Bucket(sought))
  BY <1>1 DEF Bounds
<1>6. indexOk' = KeyReadable(at) /\ indexOk' \in BOOLEAN
  BY DEF IdxHi, KeyReadable, TypeOK
<1>7. Streams' /\ LookupSound' /\ LookupComplete'
  BY <1>1, <1>4 DEF IdxHi, Streams, AboveAll, LookupSound, LookupComplete
<1>8. BelowLo'
  BY <1>4, <1>5 DEF BelowLo, Pos
<1>9. CASE hi' = Missing
  <2>1. pc' = pc /\ at' = (IF at < NKeys THEN at + 1 ELSE at)
    BY <1>9 DEF IdxHi
  <2>2. at' \in Int /\ (indexOk' => at' > Bucket(sought))
    <3>1. at' \in Int
      BY <1>1, <1>3, <2>1
    <3>2. ASSUME indexOk' PROVE at' > Bucket(sought)
      <4>1. indexOk
        BY <1>6, <3>2 DEF KeyReadable
      <4> QED
        BY <1>1, <1>3, <1>5, <2>1, <4>1
    <3> QED
      BY <3>1, <3>2
  <2>3. TypeOK'
    BY <1>4, <1>6, <1>9, <2>1, <2>2 DEF TypeOK, Missing
  <2>4. Bounds' /\ Good'
    BY <1>1, <1>4, <1>5, <1>8, <1>9, <2>1, <2>2 DEF Bounds, Good
  <2> QED
    BY <1>7, <2>3, <2>4
<1>10. CASE hi' # Missing
  <2>1. pc' = "probe" /\ at' = at
    BY <1>10 DEF IdxHi
  <2>2. hi' \in Int /\ hi' >= 0 /\ hi' <= FileSize /\ Aligned(hi') /\ AboveHi'
    <3>1. CASE KeyReadable(at)
      <4>1. hi' = KeyAt(at) /\ indexOk
        BY <3>1 DEF IdxHi, KeyReadable
      <4>2. PICK i \in 1..Len(db) : KeyAt(at) = Pos(i) /\ Bucket(db[i].hash) = at
        BY <1>1, <1>10, <4>1, KeyFacts
      <4>3. hi' \in Int /\ hi' >= 0 /\ hi' <= FileSize /\ Aligned(hi')
        BY <1>1, <4>1, <4>2, DbFacts DEF Pos, Aligned, Size
      <4>4. ASSUME NEW j \in 1..Len(db), Pos(j) > hi' PROVE db[j].hash > sought
        <5>1. i < j
          BY <1>2, <4>1, <4>2, <4>4 DEF Pos, Size
        <5>2. /\ db[i].hash \in Hashes /\ db[j].hash \in Nat
              /\ db[i].hash \in Nat /\ db[i].hash < db[j].hash
          BY <1>1, <5>1, DbFacts
        <5>3. ~(db[i].hash <= sought)
          BY <1>1, <1>3, <1>5, <4>1, <4>2, <5>2, InspectorAssumption
        <5> QED
          BY <1>1, <5>2, <5>3
      <4> QED
        BY <1>4, <4>3, <4>4 DEF AboveHi
    <3>2. CASE ~KeyReadable(at)
      <4>1. hi' = FileSize
        BY <1>5, <1>10, <3>2 DEF IdxHi
      <4> QED
        BY <1>1, <1>2, <1>4, <4>1, DbFacts DEF AboveHi, Pos, Size
    <3> QED
      BY <3>1, <3>2
  <2>3. TypeOK'
    BY <1>4, <1>6, <2>1, <2>2 DEF TypeOK, Pcs, Aligned
  <2>4. Bounds'
    BY <1>4, <1>5, <2>1, <2>2 DEF Bounds, Size, NoRecord
  <2>5. Good'
    BY <1>1, <1>2, <1>4, <1>5, <1>8, <2>1, <2>2 DEF Good, Streams
  <2> QED
    BY <1>7, <2>3, <2>4, <2>5
<1> QED
  BY <1>9, <1>10

LEMMA ProbeInv == IInv /\ Probe => IInv'
<1> SUFFICES ASSUME IInv, Probe PROVE IInv'
  OBVIOUS
<1> USE DEF IInv
<1>1. IsDb(db) /\ lo \in Int /\ hi \in Int /\ sought \in Hashes /\ sought \in Nat
      /\ pc = "probe" /\ lo <= hi /\ phc \in [hash : Nat, count : Nat]
  BY DEF Probe, TypeOK, Streams
<1>2. Len(db) \in Nat \ {0} /\ FileSize \in Nat /\ FileSize >= Size /\ Aligned(FileSize)
  BY <1>1, DbFacts DEF Size
<1>3. /\ lo >= 0 /\ Aligned(lo) /\ hi >= -Size /\ hi <= FileSize /\ Aligned(hi)
      /\ phc = NoRecord \/ \E i \in 1..Len(db) : phc = db[i]
  BY <1>1 DEF Bounds
<1>4. /\ db' = db /\ indexed' = indexed /\ indexOk' = indexOk /\ sought' = sought
      /\ at' = at /\ offset' = offset /\ trusted' = trusted /\ beyond' = beyond
      /\ FileSize' = FileSize
  BY DEF Probe, file, hist, FileSize
<1> DEFINE probe == ProbeAt
           got == IF Readable(probe) THEN Record(probe) ELSE phc
<1>5. probe \in Int /\ Aligned(probe) /\ lo <= probe /\ probe <= hi
  BY <1>1, <1>3, MiddleRecord DEF ProbeAt
<1>6. /\ dataOk' = Readable(probe) /\ phc' = got
      /\ \/ sought > got.hash /\ lo' = probe + Size /\ UNCHANGED <<hi, pc, result>>
         \/ sought < got.hash /\ hi' = probe - Size /\ UNCHANGED <<lo, pc, result>>
         \/ /\ sought = got.hash /\ result' = got.count /\ pc' = "done"
            /\ UNCHANGED <<lo, hi>>
  BY DEF Probe, AboveProbe, BelowProbe
<1> HIDE DEF probe
<1>7. dataOk' \in BOOLEAN
  BY <1>6 DEF Readable, TypeOK
\* Either a record is read, or the buffer is left alone.
<1>8. \/ Readable(probe) /\ \E i \in 1..Len(db) : probe = Pos(i) /\ got = db[i]
      \/ ~Readable(probe) /\ got = phc
  <2>1. ASSUME Readable(probe) PROVE \E i \in 1..Len(db) : probe = Pos(i) /\ Record(probe) = db[i]
    BY <1>1, <1>5, <2>1, RecordAt DEF Readable
  <2> QED
    BY <2>1
<1>9. got = NoRecord \/ \E i \in 1..Len(db) : got = db[i]
  BY <1>3, <1>8
<1>10. got \in [hash : Nat, count : Nat] /\ got.hash \in Nat
  <2>1. ASSUME NEW i \in 1..Len(db) PROVE db[i] \in [hash : Nat, count : Nat]
    BY <1>1, <2>1, DbFacts, InspectorAssumption
  <2> QED
    BY <1>9, <2>1 DEF NoRecord
\* In a trusted lookup a read fails only past the end, above all records.
<1>11. ASSUME trusted, ~Readable(probe)
       PROVE  /\ lo >= FileSize /\ probe >= FileSize /\ hi <= probe
              /\ AboveAll(sought) /\ got.hash < sought
  <2>1. dataOk
    BY <1>1, <1>11 DEF Good
  <2>2. probe >= 0 /\ probe + Size > FileSize
    BY <1>1, <1>3, <1>5, <1>11, <2>1, <1>2 DEF Readable, Size
  <2>3. probe >= FileSize
    BY <1>2, <1>5, <2>2 DEF Aligned, Size
  <2>4. probe = FileSize /\ hi = FileSize
    BY <1>1, <1>2, <1>3, <1>5, <2>3
  <2>5. lo >= FileSize
    BY <1>1, <1>2, <1>3, <2>4 DEF probe, ProbeAt, Aligned, Size
  <2>6. AboveAll(sought)
    <3>1. ASSUME NEW i \in 1..Len(db) PROVE Pos(i) < lo
      BY <1>1, <1>2, <2>5, <3>1, DbFacts DEF Pos, Size
    <3> QED
      BY <1>1, <1>11, <3>1 DEF Good, BelowLo, AboveAll
  <2>7. got.hash < sought
    BY <1>1, <1>8, <1>11, <2>5 DEF Good
  <2> QED
    BY <2>3, <2>4, <2>5, <2>6, <2>7
<1>12. Streams'
  <2>1. ASSUME ~beyond PROVE dataOk' /\ trusted
    <3>1. trusted /\ ~AboveAll(sought)
      BY <1>1, <2>1 DEF Streams
    <3>2. Readable(probe)
      BY <1>11, <3>1
    <3> QED
      BY <1>6, <3>1, <3>2
  <2> QED
    BY <1>1, <1>4, <1>6, <2>1 DEF Streams, AboveAll
<1>13. CASE sought > got.hash /\ lo' = probe + Size /\ UNCHANGED <<hi, pc, result>>
  <2>1. lo' \in Int /\ lo' >= 0 /\ Aligned(lo')
    <3>1. Aligned(probe + Size)
      BY <1>5, AlignedOps
    <3>2. probe + Size \in Int /\ probe + Size >= 0
      BY <1>1, <1>3, <1>5 DEF Size
    <3> QED
      BY <1>13, <3>1, <3>2
  <2>2. TypeOK'
    BY <1>4, <1>6, <1>7, <1>10, <1>13, <2>1 DEF TypeOK, Aligned
  <2>3. Bounds'
    BY <1>1, <1>3, <1>4, <1>6, <1>9, <1>13, <2>1 DEF Bounds
  <2>4. Good'
    <3> SUFFICES ASSUME trusted
                 PROVE  BelowLo' /\ AboveHi' /\ (lo' >= FileSize => phc'.hash < sought)
                        /\ (~dataOk' => lo' > hi')
      BY <1>4 DEF Good
    <3>1. AboveHi'
      BY <1>1, <1>4, <1>13 DEF Good, AboveHi
    <3>2. BelowLo'
      <4>1. CASE Readable(probe)
        <5>1. PICK i \in 1..Len(db) : probe = Pos(i) /\ got = db[i]
          BY <1>8, <4>1
        <5>2. ASSUME NEW j \in 1..Len(db), Pos(j) < lo' PROVE db[j].hash < sought
          <6>1. j <= i
            BY <1>2, <1>13, <5>1, <5>2 DEF Pos, Size
          <6>2. db[j].hash <= db[i].hash /\ db[j].hash \in Nat /\ db[i].hash \in Nat
            BY <1>1, <6>1, DbFacts
          <6> QED
            BY <1>1, <1>13, <5>1, <6>2
        <5> QED
          BY <1>4, <5>2 DEF BelowLo
      <4>2. CASE ~Readable(probe)
        BY <1>4, <1>11, <4>2 DEF BelowLo, AboveAll
      <4> QED
        BY <4>1, <4>2
    <3>3. lo' >= FileSize => phc'.hash < sought
      BY <1>1, <1>6, <1>10, <1>13
    <3>4. ~dataOk' => lo' > hi'
      BY <1>1, <1>2, <1>5, <1>6, <1>11, <1>13 DEF Size
    <3> QED
      BY <3>1, <3>2, <3>3, <3>4
  <2>5. LookupSound' /\ LookupComplete'
    BY <1>1, <1>13 DEF LookupSound, LookupComplete
  <2> QED
    BY <1>12, <2>2, <2>3, <2>4, <2>5
<1>14. CASE sought < got.hash /\ hi' = probe - Size /\ UNCHANGED <<lo, pc, result>>
  <2>1. hi' \in Int /\ hi' >= -Size /\ hi' <= FileSize /\ Aligned(hi')
    <3>1. Aligned(probe - Size)
      BY <1>5, AlignedOps
    <3>2. probe - Size \in Int /\ probe - Size >= -Size /\ probe - Size <= FileSize
      BY <1>1, <1>2, <1>3, <1>5 DEF Size
    <3> QED
      BY <1>14, <3>1, <3>2
  <2>2. TypeOK'
    BY <1>4, <1>6, <1>7, <1>10, <1>14, <2>1 DEF TypeOK, Aligned
  <2>3. Bounds'
    BY <1>1, <1>3, <1>4, <1>6, <1>9, <1>14, <2>1 DEF Bounds
  <2>4. Good'
    <3> SUFFICES ASSUME trusted
                 PROVE  BelowLo' /\ AboveHi' /\ (lo' >= FileSize => phc'.hash < sought)
                        /\ (~dataOk' => lo' > hi')
      BY <1>4 DEF Good
    <3>1. BelowLo'
      BY <1>1, <1>4, <1>14 DEF Good, BelowLo
    <3>2. Readable(probe)
      BY <1>1, <1>10, <1>11, <1>14
    <3>3. PICK i \in 1..Len(db) : probe = Pos(i) /\ got = db[i]
      BY <1>8, <3>2
    <3>4. ASSUME NEW j \in 1..Len(db), Pos(j) > hi' PROVE db[j].hash > sought
      <4>1. i <= j
        BY <1>2, <1>14, <3>3, <3>4 DEF Pos, Size
      <4>2. db[i].hash <= db[j].hash /\ db[j].hash \in Nat /\ db[i].hash \in Nat
        BY <1>1, <4>1, DbFacts
      <4> QED
        BY <1>1, <1>14, <3>3, <4>2
    <3>5. ~(lo' >= FileSize)
      BY <1>1, <1>2, <1>5, <1>14, <3>2 DEF Readable, Size
    <3> QED
      BY <1>4, <1>6, <3>1, <3>2, <3>4, <3>5 DEF AboveHi
  <2>5. LookupSound' /\ LookupComplete'
    BY <1>1, <1>14 DEF LookupSound, LookupComplete
  <2> QED
    BY <1>12, <2>2, <2>3, <2>4, <2>5
\* A hash that was found is the one sought, with its count.
<1>15. CASE sought = got.hash /\ result' = got.count /\ pc' = "done" /\ UNCHANGED <<lo, hi>>
  <2>1. got.count \in Nat
    BY <1>10
  <2>2. TypeOK'
    BY <1>4, <1>6, <1>7, <1>10, <1>15, <2>1 DEF TypeOK, Pcs
  <2>3. Bounds' /\ Good'
    BY <1>15 DEF Bounds, Good
  <2>4. LookupSound'
    BY <1>4, <1>9, <1>15 DEF LookupSound, NoRecord
  <2>5. LookupComplete'
    <3> SUFFICES ASSUME trusted PROVE got.count = CountOf(sought)
      BY <1>4, <1>15 DEF LookupComplete, CountOf
    <3>1. Readable(probe)
      BY <1>1, <1>10, <1>11, <1>15
    <3> QED
      BY <1>1, <1>8, <1>15, <3>1, CountFacts
  <2> QED
    BY <1>12, <2>2, <2>3, <2>4, <2>5
<1> QED
  BY <1>6, <1>13, <1>14, <1>15

LEMMA NotFoundInv == IInv /\ NotFound => IInv'
<1> SUFFICES ASSUME IInv, NotFound PROVE IInv'
  OBVIOUS
<1> USE DEF IInv
<1>1. IsDb(db) /\ lo \in Int /\ hi \in Int /\ sought \in Nat /\ pc = "probe" /\ lo > hi
  BY DEF NotFound, TypeOK
<1>2. pc' = "done" /\ result' = 0 /\ db' = db /\ sought' = sought /\ trusted' = trusted
  BY DEF NotFound, file, hist
<1>3. TypeOK'
  BY DEF NotFound, TypeOK, Pcs, file, hist
<1>4. Bounds' /\ Good' /\ Streams' /\ LookupSound'
  BY <1>2 DEF NotFound, Bounds, Good, Streams, LookupSound, AboveAll, file, hist
<1>5. LookupComplete'
  <2> SUFFICES ASSUME trusted PROVE CountOf(sought) = 0
    BY <1>2 DEF LookupComplete, CountOf
  <2>1. ASSUME NEW i \in 1..Len(db) PROVE db[i].hash # sought
    <3>1. Pos(i) \in Int /\ db[i].hash \in Nat
      BY <1>1, <2>1, DbFacts DEF Pos, Size
    <3>2. Pos(i) < lo \/ Pos(i) > hi
      BY <1>1, <3>1
    <3> QED
      BY <1>1, <2>1, <3>1, <3>2 DEF Good, BelowLo, AboveHi
  <2> QED
    BY <1>1, <2>1, CountFacts
<1> QED
  BY <1>3, <1>4, <1>5

LEMMA ReturnInv == IInv /\ Return => IInv'
<1> SUFFICES ASSUME IInv, Return PROVE IInv'
  OBVIOUS
<1> USE DEF IInv
<1>1. TypeOK'
  BY DEF Return, TypeOK, Pcs, NoRecord, file, Size
<1>2. Bounds' /\ Good' /\ Streams' /\ LookupSound' /\ LookupComplete'
  BY DEF Return, Bounds, Good, Streams, LookupSound, LookupComplete, file
<1> QED
  BY <1>1, <1>2

LEMMA StutterInv == IInv /\ UNCHANGED vars => IInv'
BY DEF vars, file, hist, IInv, TypeOK, Bounds, Good, Streams, LookupSound,
       LookupComplete, BelowLo, AboveHi, AboveAll, CountOf, FileSize

LEMMA NextInv == IInv /\ [Next]_vars => IInv'
BY CallInv, SmartLoInv, SmartHiInv, IdxLoInv, IdxHiInv, ProbeInv, NotFoundInv,
   ReturnInv, StutterInv
DEF Next, Step

\* The inductive invariant holds in every reachable state.
THEOREM Invariance == Spec => []IInv
BY InitInv, NextInv, PTL DEF Spec

\* Type correctness, with the alignment of every offset to whole records.
THEOREM TypeCorrect == Spec => []TypeOK
<1>1. IInv => TypeOK
  BY DEF IInv
<1> QED
  BY <1>1, Invariance, PTL

\* For every sorted file: a count that is returned is the count of the hash.
THEOREM Soundness == Spec => []LookupSound
<1>1. IInv => LookupSound
  BY DEF IInv
<1> QED
  BY <1>1, Invariance, PTL

\* For every sorted file and every index of it: a lookup that begins with a
\* good stream returns the exact count, zero included.
THEOREM Completeness == Spec => []LookupComplete
<1>1. IInv => LookupComplete
  BY DEF IInv
<1> QED
  BY <1>1, Invariance, PTL

\* No lookup of a hash up to the largest one in the file reads past its end.
THEOREM BreaksOnlyBeyond == Spec => []OnlyBeyondBreaks
<1>1. IInv => OnlyBeyondBreaks
  BY DEF IInv, Streams, OnlyBeyondBreaks
<1> QED
  BY <1>1, Invariance, PTL

\* Every probe at least halves what is left, so a search takes a number of
\* reads that is logarithmic in the size of the file.
THEOREM Halving == Spec => ProbeHalves
<1>1. IInv /\ [Next]_vars =>
        [pc = "probe" /\ pc' = "probe" => 2 * (hi' - lo') < hi - lo]_vars
  <2> SUFFICES ASSUME IInv, Next, pc = "probe", pc' = "probe"
               PROVE  2 * (hi' - lo') < hi - lo
    OBVIOUS
  <2>1. Probe
    BY DEF Next, Step, Binsearch, SmartBinsearch, SmartLo, SmartHi, IdxLo, IdxHi,
           NotFound, Return
  <2>2. lo \in Int /\ hi \in Int /\ lo >= 0 /\ Aligned(lo) /\ Aligned(hi) /\ lo <= hi
    BY <2>1 DEF IInv, TypeOK, Bounds, Probe
  <2>3. \/ lo' = ProbeAt + Size /\ hi' = hi
        \/ hi' = ProbeAt - Size /\ lo' = lo
    BY <2>1 DEF Probe, AboveProbe, BelowProbe
  <2>4. /\ ProbeAt \in Int /\ 2 * ProbeAt <= lo + hi
        /\ lo + hi <= 2 * ProbeAt + Size
    BY <2>2, MiddleRecord DEF ProbeAt
  <2> QED
    BY <2>2, <2>3, <2>4 DEF Size
<1> QED
  BY <1>1, Invariance, PTL DEF Spec, ProbeHalves

-----------------------------------------------------------------------------
(* The programs around them.                                               *)

BucketOf(i) == Bucket(db[i].hash)

\* v is the key of bucket k after the first m records.
IsKey(k, v, m) ==
    \/ v = Missing /\ \A i \in 1..m : BucketOf(i) # k
    \/ \E i \in 1..m : v = Pos(i) /\ BucketOf(i) = k /\ \A j \in 1..(i - 1) : BucketOf(j) # k

\* pwned-index: the keys are those of the records read so far, and idx and pos,
\* written once more at the end, are the last bucket's.
Scanned ==
    /\ opened \in BOOLEAN /\ eof \in BOOLEAN
    /\ ~opened => ipc = "scan" /\ ~eof
    /\ opened =>
         /\ nRead \in 1..Len(db) /\ hash = db[nRead].hash /\ lastIdx = BucketOf(nRead)
         /\ indexes \in [0..(NKeys - 1) -> Int]
         /\ \A k \in 0..(NKeys - 1) : IsKey(k, indexes[k], nRead)
         /\ pos = indexes[lastIdx]
         /\ eof => idx = lastIdx /\ nRead = Len(db)
         /\ ipc = "done" => eof

InFile(h) == \E i \in 1..Len(db) : db[i].hash = h

\* Nobody looks anything up before the index is there, or draws what is read
\* from the file; between lookups nothing is known to have failed.
Quiet ==
    /\ pc = "idle" => trusted
    /\ phase = "index" \/ (phase = "draw" /\ kind = "existing") => pc = "idle"

\* The test set.
SetMade ==
    phase \in {"draw", "bench"} =>
      /\ testset \in Seq(Hashes)
      /\ kind = "existing" => num \in Nums /\ testset = ExistingSet(num)
      /\ kind = "absent" /\ ~spoiled => \A i \in 1..Len(testset) : ~InFile(testset[i])

\* The benchmark looks up the test set and nothing else.
Benched ==
    phase = "bench" =>
      /\ next \in Nat \ {0}
      /\ pc # "idle" => next <= Len(testset) /\ sought = testset[next]
      /\ kind = "existing" => ~beyond /\ notFound = 0
      /\ kind = "absent" /\ ~spoiled => found = 0

PInv == IInv /\ Scanned /\ Quiet /\ SetMade /\ Benched

-----------------------------------------------------------------------------
(* pwned-index.                                                            *)

LEMMA BucketFacts ==
    ASSUME IsDb(db)
    PROVE  /\ \A i \in 1..Len(db) : BucketOf(i) \in 0..(NKeys - 1)
           /\ \A i, j \in 1..Len(db) : i <= j => BucketOf(i) <= BucketOf(j)
           /\ NKeys \in Nat \ {0}
<1>1. \A i \in 1..Len(db) : db[i].hash \in Hashes /\ db[i].hash \in Nat
  BY DbFacts
<1>2. \A i, j \in 1..Len(db) : i <= j => db[i].hash <= db[j].hash
  BY <1>1, DbFacts
<1> QED
  BY <1>1, <1>2, InspectorAssumption DEF BucketOf

\* The key of a bucket is unique.
LEMMA KeyUnique ==
    ASSUME IsDb(db), NEW k \in Int, NEW v, IsKey(k, v, Len(db))
    PROVE  v = KeyAt(k)
<1> DEFINE first(i) == /\ Bucket(db[i].hash) = k
                       /\ \A j \in 1..(i - 1) : Bucket(db[j].hash) # k
<1>1. CASE \A i \in 1..Len(db) : BucketOf(i) # k
  <2>1. v = Missing
    BY <1>1 DEF IsKey
  <2>2. KeyAt(k) = Missing
    BY <1>1 DEF KeyAt, BucketOf
  <2> QED
    BY <2>1, <2>2
<1>2. CASE ~(\A i \in 1..Len(db) : BucketOf(i) # k)
  <2>1. PICK i \in 1..Len(db) : v = Pos(i) /\ first(i)
    BY <1>2 DEF IsKey, BucketOf
  <2> DEFINE c == CHOOSE x \in 1..Len(db) : first(x)
  <2>2. c \in 1..Len(db) /\ first(c)
    BY <2>1
  <2>3. KeyAt(k) = Size * (c - 1)
    BY <2>1 DEF KeyAt
  <2> HIDE DEF c
  <2>4. c = i
    BY <2>1, <2>2, DbFacts
  <2> QED
    BY <2>1, <2>3, <2>4 DEF Pos
<1> QED
  BY <1>1, <1>2

\* The hashes that pwned-index reads.
LEMMA BuilderFile ==
    ASSUME IsDb(db), opened
    PROVE  LET d == IF opened THEN [i \in 1..Len(db) |-> db[i].hash] ELSE <<>>
           IN Len(d) = Len(db) /\ d # <<>> /\ \A i \in 1..Len(db) : d[i] = db[i].hash
<1>1. Len(db) \in Nat \ {0} /\ \A i \in 1..Len(db) : db[i].hash \in Nat
  BY DbFacts
<1> QED
  BY <1>1

LEMMA StartScanned == ASSUME IsDb(db), opened \in BOOLEAN, Builder!Start, ipc = "scan"
                      PROVE  Scanned
<1>1. Len(db) \in Nat \ {0} /\ \A i \in 1..Len(db) : db[i].hash \in Nat
  BY DbFacts
<1>2. CASE opened
  <2>1. /\ nRead = 1 /\ eof = FALSE /\ hash = db[1].hash /\ lastIdx = Bucket(hash) /\ pos = 0
        /\ indexes = [k \in 0..(NKeys - 1) |-> IF k = lastIdx THEN 0 ELSE Missing]
    <3> DEFINE d == IF opened THEN [i \in 1..Len(db) |-> db[i].hash] ELSE <<>>
    <3>1. d # <<>> /\ d[1] = db[1].hash
      BY <1>1, <1>2, BuilderFile
    <3>2. /\ nRead = IF d = <<>> THEN 0 ELSE 1
          /\ hash = IF d = <<>> THEN 0 ELSE d[1]
      BY DEF Builder!Start
    <3>3. eof = (opened /\ d = <<>>)
      BY DEF Builder!Start
    <3>4. /\ lastIdx = Bucket(hash) /\ pos = 0
          /\ indexes = [k \in 0..(NKeys - 1) |-> IF k = lastIdx THEN 0 ELSE Missing]
      BY DEF Builder!Start, Builder!Missing, Missing
    <3> HIDE DEF d
    <3>5. eof = FALSE
      BY <3>1, <3>3
    <3> QED
      BY <3>1, <3>2, <3>4, <3>5
  <2>2. lastIdx = BucketOf(1) /\ lastIdx \in 0..(NKeys - 1) /\ Pos(1) = 0
    BY <1>1, <2>1, BucketFacts DEF BucketOf, Pos, Size
  <2>3. \A k \in 0..(NKeys - 1) : IsKey(k, indexes[k], 1)
    BY <2>1, <2>2 DEF IsKey
  <2> QED
    <3>1. indexes \in [0..(NKeys - 1) -> Int] /\ indexes[lastIdx] = 0
      BY <2>1, <2>2 DEF Missing
    <3>2. nRead \in 1..Len(db)
      BY <1>1, <2>1
    <3> QED
      BY <1>2, <2>1, <2>2, <2>3, <3>1, <3>2 DEF Scanned
<1>3. CASE ~opened
  BY <1>3 DEF Builder!Start, Scanned
<1> QED
  BY <1>2, <1>3

LEMMA ScanScanned ==
    ASSUME IsDb(db), Scanned, Builder!Scan, UNCHANGED <<db, opened>>
    PROVE  Scanned'
<1>1. Len(db) \in Nat \ {0} /\ \A i \in 1..Len(db) : db[i].hash \in Nat
  BY DbFacts
<1>2. ipc = "scan" /\ ipc' = "scan" /\ ~eof
  BY DEF Builder!Scan
<1>3. CASE ~opened
  <2>1. eof' = FALSE
    BY <1>2, <1>3 DEF Builder!Scan, Builder!AtEnd, Scanned
  <2> QED
    BY <1>2, <1>3, <2>1 DEF Scanned
<1>4. CASE opened
  <2>1. /\ nRead \in 1..Len(db) /\ hash = db[nRead].hash /\ lastIdx = BucketOf(nRead)
        /\ indexes \in [0..(NKeys - 1) -> Int]
        /\ \A k \in 0..(NKeys - 1) : IsKey(k, indexes[k], nRead)
        /\ pos = indexes[lastIdx]
    BY <1>4 DEF Scanned
  <2>2. \/ /\ nRead < Len(db) /\ nRead' = nRead + 1 /\ hash' = db[nRead + 1].hash /\ eof' = eof
        \/ nRead = Len(db) /\ nRead' = nRead /\ hash' = hash /\ eof' = TRUE
    <3> DEFINE d == IF opened THEN [i \in 1..Len(db) |-> db[i].hash] ELSE <<>>
    <3>1. Len(d) = Len(db) /\ \A i \in 1..Len(db) : d[i] = db[i].hash
      BY <1>1, <1>4, BuilderFile
    <3>2. IF nRead < Len(d) THEN nRead' = nRead + 1 /\ hash' = d[nRead + 1] /\ UNCHANGED eof
                            ELSE eof' = opened /\ UNCHANGED <<nRead, hash>>
      BY DEF Builder!Scan, Builder!AtEnd
    <3> HIDE DEF d
    <3>3. CASE nRead < Len(db)
      BY <1>1, <2>1, <3>1, <3>2, <3>3
    <3>4. CASE ~(nRead < Len(db))
      <4>1. nRead = Len(db)
        BY <1>1, <2>1, <3>4
      <4>2. eof' = opened /\ opened = TRUE
        BY <1>4, <3>1, <3>2, <3>4 DEF Scanned
      <4> QED
        BY <3>1, <3>2, <3>4, <4>1, <4>2
    <3> QED
      BY <3>3, <3>4
  <2>3. nRead' \in 1..Len(db) /\ hash' = db[nRead'].hash /\ eof' \in BOOLEAN
    <3>1. eof \in BOOLEAN
      BY DEF Scanned
    <3>2. CASE nRead' = nRead + 1 /\ nRead < Len(db) /\ hash' = db[nRead + 1].hash /\ eof' = eof
      BY <1>1, <2>1, <3>1, <3>2
    <3>3. CASE nRead' = nRead /\ hash' = hash /\ eof' = TRUE
      BY <2>1, <3>3
    <3> QED
      BY <2>2, <3>2, <3>3
  <2>4. idx' = BucketOf(nRead') /\ idx' \in 0..(NKeys - 1)
    BY <2>3, BucketFacts DEF Builder!Scan, BucketOf
  <2>5. lastIdx \in 0..(NKeys - 1) /\ lastIdx <= idx' /\ NKeys \in Nat
    BY <1>1, <2>1, <2>2, <2>3, <2>4, BucketFacts
  <2>6. \/ /\ idx' > lastIdx /\ pos' = Size * nRead' - Size
           /\ indexes' = [indexes EXCEPT ![idx'] = pos'] /\ lastIdx' = idx'
        \/ ~(idx' > lastIdx) /\ UNCHANGED <<pos, indexes, lastIdx>>
    BY DEF Builder!Scan, Builder!NewBucket, Builder!RecordStart, Builder!Size, Size
  <2>7. db' = db /\ opened' = opened
    OBVIOUS
  \* A new bucket begins with the record just read.
  <2>8. CASE idx' > lastIdx
    <3>1. /\ pos' = Pos(nRead') /\ pos' \in Int /\ lastIdx' = idx'
          /\ indexes' = [indexes EXCEPT ![idx'] = pos']
      BY <2>3, <2>6, <2>8 DEF Pos, Size
    <3>2. nRead' = nRead + 1 /\ eof' = eof
      BY <2>1, <2>2, <2>4, <2>5, <2>8
    <3>3. \A j \in 1..nRead : BucketOf(j) # idx'
      BY <1>1, <2>1, <2>5, <2>8, BucketFacts
    <3>4. ASSUME NEW k \in 0..(NKeys - 1) PROVE IsKey(k, indexes'[k], nRead')
      <4>1. CASE k = idx'
        <5>1. indexes'[k] = Pos(nRead')
          BY <2>1, <3>1, <4>1
        <5>2. \A j \in 1..(nRead' - 1) : BucketOf(j) # k
          BY <2>1, <3>2, <3>3, <4>1
        <5>3. nRead' \in 1..nRead' /\ BucketOf(nRead') = k
          BY <2>3, <2>4, <4>1
        <5> QED
          BY <5>1, <5>2, <5>3 DEF IsKey
      <4>2. CASE k # idx'
        <5>1. indexes'[k] = indexes[k] /\ IsKey(k, indexes[k], nRead)
          BY <2>1, <3>1, <4>2
        <5>2. \A i \in 1..nRead' : i \in 1..nRead \/ BucketOf(i) # k
          BY <2>1, <2>4, <3>2, <4>2
        <5>3. 1..nRead \subseteq 1..nRead'
          BY <2>1, <3>2
        <5> QED
          BY <5>1, <5>2, <5>3 DEF IsKey
      <4> QED
        BY <4>1, <4>2
    <3>5. pos' = indexes'[lastIdx']
      BY <2>1, <2>4, <3>1
    <3>6. indexes' \in [0..(NKeys - 1) -> Int]
      BY <2>1, <3>1
    <3>7. \A k \in 0..(NKeys - 1) : IsKey(k, indexes[k], nRead)'
      BY <2>7, <3>4 DEF IsKey, BucketOf
    <3> QED
      BY <1>2, <1>4, <2>3, <2>4, <2>7, <3>1, <3>2, <3>5, <3>6, <3>7 DEF Scanned, BucketOf
  <2>9. CASE ~(idx' > lastIdx)
    <3>1. idx' = lastIdx /\ UNCHANGED <<pos, indexes, lastIdx>>
      BY <2>4, <2>5, <2>6, <2>9
    <3>2. ASSUME NEW k \in 0..(NKeys - 1) PROVE IsKey(k, indexes[k], nRead')
      <4>1. IsKey(k, indexes[k], nRead)
        BY <2>1
      <4>2. CASE nRead' = nRead
        BY <4>1, <4>2
      <4>3. CASE nRead' = nRead + 1
        <5>1. \A i \in 1..nRead' : i \in 1..nRead \/ i = nRead'
          BY <2>1, <4>3
        <5>2. 1..nRead \subseteq 1..nRead' /\ nRead \in 1..nRead
          BY <2>1, <4>3
        <5>3. BucketOf(nRead') = BucketOf(nRead)
          BY <2>1, <2>4, <3>1
        <5> QED
          BY <4>1, <5>1, <5>2, <5>3 DEF IsKey
      <4> QED
        BY <2>2, <4>2, <4>3
    <3>3. \A k \in 0..(NKeys - 1) : IsKey(k, indexes[k], nRead)'
      BY <2>7, <3>1, <3>2 DEF IsKey, BucketOf
    <3>4. eof' => nRead' = Len(db)
      BY <1>2, <2>2
    <3>5. lastIdx' = BucketOf(nRead')
      BY <2>4, <3>1
    <3> QED
      BY <1>2, <1>4, <2>1, <2>3, <2>7, <3>1, <3>3, <3>4, <3>5 DEF Scanned, BucketOf
  <2> QED
    BY <2>8, <2>9
<1> QED
  BY <1>3, <1>4 DEF Scanned

LEMMA FinishScanned ==
    ASSUME IsDb(db), Scanned, Builder!Finish, UNCHANGED <<db, opened>>
    PROVE  Scanned'
<1>1. /\ ipc = "scan" /\ eof /\ ipc' = "done" /\ indexes' = [indexes EXCEPT ![idx] = pos]
      /\ UNCHANGED <<nRead, eof, hash, idx, lastIdx, pos>>
  BY DEF Builder!Finish
<1>2. opened /\ indexes \in [0..(NKeys - 1) -> Int] /\ pos = indexes[idx]
  BY <1>1 DEF Scanned
<1>3. indexes' = indexes
  BY <1>1, <1>2
<1> QED
  BY <1>1, <1>2, <1>3 DEF Scanned, IsKey, BucketOf

LEMMA ScannedKept == Scanned /\ UNCHANGED <<db, indexVars>> => Scanned'
BY DEF indexVars, Scanned, IsKey, BucketOf

-----------------------------------------------------------------------------
(* test-set-extractor.                                                     *)

LEMMA DivBound ==
    ASSUME NEW a \in Nat, NEW n \in Nat \ {0}
    PROVE  (a \div n) \in Nat /\ n * (a \div n) <= a /\ a < n * (a \div n) + n
BY SMTT(30)

LEMMA ProductGap ==
    ASSUME NEW i \in Nat, NEW n \in Nat, NEW d \in Nat, i < n
    PROVE  i * d + d <= n * d /\ i * d \in Nat /\ n * d \in Nat
<1>1. PICK k \in Nat : n = i + 1 + k
  <2>1. n - i - 1 \in Nat /\ n = i + 1 + (n - i - 1)
    OBVIOUS
  <2> QED
    BY <2>1
<1>2. k * d >= 0 /\ n * d = i * d + d + k * d
  BY <1>1, SMTT(30)
<1> QED
  BY <1>2, SMTT(30)

\* The n places at equal distances lie in a file of l records, in different ones
\* if there are as many.
LEMMA Spread ==
    ASSUME NEW l \in Nat \ {0}, NEW n \in Nat \ {0}, NEW d, d = (Size * l) \div n
    PROVE  /\ \A i \in 1..n : ((i - 1) * d) \div Size + 1 \in 1..l
           /\ n <= l => \A i, j \in 1..n :
                          ((i - 1) * d) \div Size = ((j - 1) * d) \div Size => i = j
<1>1. d \in Nat /\ n * d <= 20 * l /\ 20 * l < n * d + n /\ n * d \in Nat
  <2>1. d \in Nat /\ n * d <= 20 * l /\ 20 * l < n * d + n
    BY DivBound DEF Size
  <2> QED
    BY <2>1, SMTT(30)
<1>2. ASSUME NEW i \in 1..n PROVE ((i - 1) * d) \div Size + 1 \in 1..l
  <2>1. (i - 1) * d + d <= n * d /\ (i - 1) * d \in Nat
    BY <1>1, ProductGap
  <2>2. PICK x \in Nat : x = (i - 1) * d
    BY <2>1
  <2>3. x < 20 * l
    <3>1. CASE d = 0
      BY <2>2, <3>1
    <3>2. CASE d > 0
      BY <1>1, <2>1, <2>2, <3>2
    <3> QED
      BY <1>1, <3>1, <3>2
  <2>4. x \div 20 + 1 \in 1..l
    BY <2>3
  <2> QED
    BY <2>2, <2>4 DEF Size
<1>3. ASSUME n <= l, NEW i \in 1..n, NEW j \in 1..n, i < j
      PROVE  ((i - 1) * d) \div Size # ((j - 1) * d) \div Size
  <2>1. d >= 20
    <3>1. ASSUME d <= 19 PROVE FALSE
      <4>1. n * d <= n * 19
        BY <1>1, <3>1, SMTT(30)
      <4> QED
        BY <1>1, <1>3, <4>1
    <3> QED
      BY <1>1, <3>1
  <2>2. (i - 1) * d + d <= (j - 1) * d /\ (i - 1) * d \in Nat /\ (j - 1) * d \in Nat
    BY <1>1, <1>3, ProductGap
  <2>3. PICK x \in Nat, y \in Nat : x = (i - 1) * d /\ y = (j - 1) * d
    BY <2>2
  <2>4. x \div 20 # y \div 20
    BY <1>1, <2>1, <2>2, <2>3
  <2> QED
    BY <2>3, <2>4 DEF Size
<1> QED
  BY <1>2, <1>3

\* The set of existing hashes: all are in the file, and none twice if possible.
LEMMA ExistingFacts ==
    ASSUME IsDb(db), NEW n \in Nums
    PROVE  LET s == ExistingSet(n)
           IN /\ s \in Seq(Hashes) /\ Len(s) = n
              /\ \A i \in 1..n : InFile(s[i])
              /\ n <= Len(db) => \A i, j \in 1..n : s[i] = s[j] => i = j
<1> DEFINE d == FileSize \div n
           at0(i) == ((i - 1) * d) \div Size + 1
           s == ExistingSet(n)
<1>1. n \in Nat \ {0} /\ Len(db) \in Nat \ {0} /\ FileSize = Size * Len(db)
  BY LookupAssumption, DbFacts
<1>2. /\ \A i \in 1..n : at0(i) \in 1..Len(db)
      /\ n <= Len(db) => \A i, j \in 1..n : at0(i) = at0(j) => i = j
  <2>1. /\ \A i \in 1..n : ((i - 1) * d) \div Size + 1 \in 1..Len(db)
        /\ n <= Len(db) => \A i, j \in 1..n :
             ((i - 1) * d) \div Size = ((j - 1) * d) \div Size => i = j
    BY <1>1, Spread
  <2>2. \A i \in 1..n : ((i - 1) * d) \div Size \in Int
    <3>1. d \in Nat
      BY <1>1, DivBound DEF Size
    <3> HIDE DEF d
    <3>2. \A i \in 1..n : (i - 1) * d \in Nat
      BY <1>1, <3>1, ProductGap
    <3>3. \A x \in Nat : x \div 20 \in Int
      OBVIOUS
    <3> QED
      BY <3>2, <3>3 DEF Size
  <2> QED
    BY <2>1, <2>2
<1>3. s = [i \in 1..n |-> db[at0(i)].hash]
  BY DEF ExistingSet, Record
<1> HIDE DEF at0, s
<1>4. \A i \in 1..Len(db) : db[i].hash \in Hashes /\ db[i].hash \in Nat
  BY <1>1, DbFacts
<1>5. s \in Seq(Hashes) /\ Len(s) = n
  BY <1>1, <1>2, <1>3, <1>4
<1>6. \A i \in 1..n : InFile(s[i])
  BY <1>2, <1>3 DEF InFile
<1>7. \A i, j \in 1..Len(db) : db[i].hash = db[j].hash => i = j
  BY <1>1, <1>4, DbFacts
<1>8. n <= Len(db) => \A i, j \in 1..n : s[i] = s[j] => i = j
  BY <1>2, <1>3, <1>7
<1> QED
  BY <1>5, <1>6, <1>8 DEF s

-----------------------------------------------------------------------------
(* The programs, one after the other.                                      *)

LEMMA PInit == LookupInit => PInv
<1> SUFFICES ASSUME LookupInit PROVE PInv
  OBVIOUS
<1>1. IInv
  BY InitInv DEF LookupInit
<1>2. Scanned
  <2>1. IsDb(db) /\ opened \in BOOLEAN /\ Builder!Start /\ ipc = "scan"
    BY <1>1 DEF LookupInit, IInv, TypeOK, Builder!Start
  <2> QED
    BY <2>1, StartScanned
<1>3. Quiet /\ SetMade /\ Benched
  BY DEF LookupInit, Init, Quiet, SetMade, Benched
<1> QED
  BY <1>1, <1>2, <1>3 DEF PInv

LEMMA PBuildIndex == PInv /\ BuildIndex => PInv'
<1> SUFFICES ASSUME PInv, BuildIndex PROVE PInv'
  OBVIOUS
<1>1. phase = "index" /\ UNCHANGED <<vars, phase, opened, setVars, benchVars>>
  BY DEF BuildIndex
<1>2. IInv'
  BY <1>1, StutterInv DEF PInv
<1>3. Scanned'
  <2>1. IsDb(db) /\ Scanned /\ UNCHANGED <<db, opened>>
    BY <1>1 DEF PInv, IInv, TypeOK, vars, file
  <2> QED
    BY <2>1, ScanScanned, FinishScanned DEF BuildIndex
<1>4. Quiet' /\ SetMade' /\ Benched'
  BY <1>1 DEF PInv, Quiet, SetMade, Benched, vars, hist
<1> QED
  BY <1>2, <1>3, <1>4 DEF PInv

LEMMA PUseIndex == PInv /\ UseIndex => PInv'
<1> SUFFICES ASSUME PInv, UseIndex PROVE PInv'
  OBVIOUS
<1>1. /\ phase = "index" /\ pc = "idle" /\ pc' = pc /\ phase' \in {"ask", "draw"}
      /\ UNCHANGED <<db, dataOk, indexOk, sought, lo, hi, at, offset, phc, result, trusted, beyond,
                     indexVars, spoiled>>
  BY DEF UseIndex, PInv, Quiet, hist
<1>2. indexed' \in BOOLEAN
  BY DEF UseIndex, PInv, IInv, TypeOK
<1>3. IInv'
  <2>1. TypeOK'
    BY <1>1, <1>2 DEF PInv, IInv, TypeOK
  <2> QED
    BY <1>1, <2>1 DEF PInv, IInv, Bounds, Good, Streams, LookupSound, LookupComplete
<1>4. Scanned'
  BY <1>1, ScannedKept DEF PInv
<1>5. Quiet' /\ Benched'
  BY <1>1 DEF PInv, Quiet, Benched
<1>6. SetMade'
  <2> SUFFICES ASSUME phase' = "draw" PROVE SetMade'
    BY <1>1 DEF SetMade
  <2>1. /\ num' \in Nums /\ kind' \in {"existing", "absent"}
        /\ testset' = IF kind' = "existing" THEN ExistingSet(num') ELSE <<>>
    BY DEF UseIndex
  <2>2. IsDb(db)
    BY DEF PInv, IInv, TypeOK
  <2>3. ExistingSet(num)' = ExistingSet(num')
    BY <1>1 DEF ExistingSet, FileSize, Record
  <2>4. ExistingSet(num') \in Seq(Hashes)
    BY <2>1, <2>2, ExistingFacts
  <2>5. CASE kind' = "existing"
    BY <2>1, <2>3, <2>4, <2>5 DEF SetMade
  <2>6. CASE kind' = "absent"
    BY <2>1, <2>6 DEF SetMade
  <2> QED
    BY <2>1, <2>5, <2>6
<1> QED
  BY <1>3, <1>4, <1>5, <1>6 DEF PInv

\* What the file holds, and the test set, stay as long as these do.
LEMMA SetKept ==
    ASSUME SetMade, UNCHANGED <<db, num, kind, testset, spoiled>>,
           phase' = phase \/ (phase = "draw" /\ phase' = "bench") \/ phase' = "end"
    PROVE  SetMade'
BY DEF SetMade, InFile, ExistingSet, FileSize, Record

\* A lookup goes on.
LEMMA PSearch ==
    PInv /\ Search /\ UNCHANGED <<phase, indexVars, setVars, benchVars>> => PInv'
<1> SUFFICES ASSUME PInv, Search, UNCHANGED <<phase, indexVars, setVars, benchVars>> PROVE PInv'
  OBVIOUS
<1>1. IInv'
  BY SmartLoInv, SmartHiInv, IdxLoInv, IdxHiInv, ProbeInv, NotFoundInv DEF PInv, Search
<1>2. pc # "idle" /\ pc' # "idle" /\ UNCHANGED <<db, sought, trusted, beyond>>
  BY DEF Search, SmartLo, SmartHi, IdxLo, IdxHi, Probe, NotFound, EnterBinsearch, file, hist
<1>3. Scanned' /\ SetMade'
  BY <1>2, ScannedKept, SetKept DEF PInv, setVars
<1>4. Quiet' /\ Benched'
  BY <1>2 DEF PInv, Quiet, Benched, setVars, benchVars
<1> QED
  BY <1>1, <1>3, <1>4 DEF PInv

\* Somebody asks, and gets an answer.
LEMMA PAsk ==
    PInv /\ (Ask \/ (phase = "ask" /\ Return))
         /\ UNCHANGED <<phase, indexVars, setVars, benchVars>> => PInv'
<1> SUFFICES ASSUME PInv, Ask \/ (phase = "ask" /\ Return),
                    UNCHANGED <<phase, indexVars, setVars, benchVars>>
             PROVE  PInv'
  OBVIOUS
<1>1. IInv'
  BY CallInv, ReturnInv DEF PInv, Ask
<1>2. phase = "ask" /\ db' = db /\ (pc' = "idle" => trusted')
  BY DEF Ask, Return, Binsearch, SmartBinsearch, EnterBinsearch, file
<1>3. Scanned' /\ Quiet' /\ SetMade' /\ Benched'
  BY <1>2, ScannedKept DEF PInv, Quiet, SetMade, Benched
<1> QED
  BY <1>1, <1>3 DEF PInv

\* A random hash is looked up.
LEMMA PDraw == PInv /\ Draw /\ UNCHANGED <<phase, indexVars, benchVars>> => PInv'
<1> SUFFICES ASSUME PInv, Draw, UNCHANGED <<phase, indexVars, benchVars>> PROVE PInv'
  OBVIOUS
<1>1. PICK h \in Hashes : Binsearch(h)
  BY DEF Draw
<1>2. IInv'
  BY <1>1, CallInv DEF PInv
<1>3. phase = "draw" /\ kind = "absent" /\ UNCHANGED <<db, num, kind, testset, spoiled>> /\ pc' # "idle"
  BY <1>1 DEF Draw, Binsearch, EnterBinsearch, file
<1>4. Scanned' /\ SetMade'
  BY <1>3, ScannedKept, SetKept DEF PInv
<1>5. Quiet' /\ Benched'
  BY <1>3 DEF Quiet, Benched
<1> QED
  BY <1>2, <1>4, <1>5 DEF PInv

\* It joins the test set if it was not found; then it is not in the file, unless
\* the stream had failed before.
LEMMA PTakeDrawn == PInv /\ TakeDrawn /\ UNCHANGED <<phase, indexVars, benchVars>> => PInv'
<1> SUFFICES ASSUME PInv, TakeDrawn, UNCHANGED <<phase, indexVars, benchVars>> PROVE PInv'
  OBVIOUS
<1>1. IInv'
  BY ReturnInv DEF PInv, TakeDrawn
<1>2. /\ phase = "draw" /\ pc = "done" /\ pc' = "idle" /\ trusted' = TRUE
      /\ testset' = (IF result = 0 THEN Append(testset, sought) ELSE testset)
      /\ spoiled' = (spoiled \/ ~trusted)
      /\ UNCHANGED <<db, num, kind>>
  BY DEF TakeDrawn, Return, Absent, file
<1>3. kind # "existing"
  BY <1>2 DEF PInv, Quiet
<1>4. testset \in Seq(Hashes) /\ sought \in Hashes /\ sought \in Nat /\ IsDb(db)
  BY <1>2 DEF PInv, SetMade, IInv, Streams, TypeOK
<1>5. testset' \in Seq(Hashes)
  BY <1>2, <1>4
<1>6. ASSUME kind = "absent", ~spoiled', NEW i \in 1..Len(testset')
      PROVE  ~InFile(testset'[i])
  <2>1. ~spoiled /\ trusted
    BY <1>2, <1>6
  <2>2. \A k \in 1..Len(testset) : ~InFile(testset[k])
    BY <1>2, <1>6, <2>1 DEF PInv, SetMade
  <2>3. CASE result = 0
    <3>1. CountOf(sought) = 0
      BY <1>2, <2>1, <2>3 DEF PInv, IInv, LookupComplete
    <3>2. ~InFile(sought)
      <4> SUFFICES ASSUME NEW k \in 1..Len(db), db[k].hash = sought PROVE FALSE
        BY DEF InFile
      <4>1. CountOf(sought) = db[k].count /\ db[k].count # 0
        BY <1>4, CountFacts, DbFacts
      <4> QED
        BY <3>1, <4>1
    <3>3. testset'[i] = sought \/ (i \in 1..Len(testset) /\ testset'[i] = testset[i])
      BY <1>2, <1>4, <2>3
    <3> QED
      BY <2>2, <3>2, <3>3
  <2>4. CASE result # 0
    BY <1>2, <2>2, <2>4
  <2> QED
    BY <2>3, <2>4
<1>7. SetMade'
  BY <1>2, <1>3, <1>5, <1>6 DEF SetMade, InFile
<1>8. Scanned' /\ Quiet' /\ Benched'
  BY <1>2, ScannedKept DEF PInv, Quiet, Benched
<1> QED
  BY <1>1, <1>7, <1>8 DEF PInv

\* A run begins with streams that are good.
LEMMA PNewInspector == PInv /\ NewInspector => PInv'
<1> SUFFICES ASSUME PInv, NewInspector PROVE PInv'
  OBVIOUS
<1>1. /\ pc = "idle" /\ dataOk' = TRUE /\ indexOk' = TRUE /\ beyond' = FALSE
      /\ next' = 1 /\ found' = 0 /\ notFound' = 0
      /\ UNCHANGED <<db, pc, sought, lo, hi, at, offset, phc, result, trusted, indexVars, setVars>>
  BY DEF NewInspector
<1>2. indexed' \in BOOLEAN
  BY DEF NewInspector, ReadTestSet, NextRun, PInv, IInv, TypeOK
<1>3. \/ phase = "draw" /\ phase' = "bench"
      \/ phase = "bench" /\ phase' \in {"bench", "end"}
  BY DEF NewInspector, ReadTestSet, NextRun
<1>4. trusted
  BY <1>1 DEF PInv, Quiet
<1>5. IInv'
  <2>1. TypeOK'
    BY <1>1, <1>2 DEF PInv, IInv, TypeOK
  <2> QED
    BY <1>1, <1>4, <2>1 DEF PInv, IInv, Bounds, Good, Streams, LookupSound, LookupComplete
<1>6. Scanned' /\ SetMade'
  BY <1>1, <1>3, ScannedKept, SetKept DEF PInv, setVars
<1>7. Quiet' /\ Benched'
  BY <1>1, <1>3, <1>4 DEF Quiet, Benched
<1> QED
  BY <1>5, <1>6, <1>7 DEF PInv

\* The next hash of the test set is looked up.
LEMMA PLookupNext == PInv /\ LookupNext /\ UNCHANGED <<phase, indexVars, setVars>> => PInv'
<1> SUFFICES ASSUME PInv, LookupNext, UNCHANGED <<phase, indexVars, setVars>> PROVE PInv'
  OBVIOUS
<1> DEFINE h == testset[next]
<1>1. /\ phase = "bench" /\ next <= Len(testset)
      /\ Binsearch(h) \/ SmartBinsearch(h)
      /\ UNCHANGED <<num, kind, testset, spoiled, next, found, notFound>>
  BY DEF LookupNext, BenchmarkWithoutIndex, BenchmarkWithIndex, setVars
<1>2. IsDb(db) /\ next \in Nat \ {0} /\ testset \in Seq(Hashes)
  BY <1>1 DEF PInv, IInv, TypeOK, Benched, SetMade
<1>3. next \in 1..Len(testset) /\ h \in Hashes
  BY <1>1, <1>2
<1>4. IInv'
  BY <1>1, <1>3, CallInv DEF PInv
<1>5. /\ pc = "idle" /\ pc' # "idle" /\ sought' = h /\ db' = db
      /\ beyond' = (beyond \/ AboveAll(h))
  BY <1>1 DEF Binsearch, SmartBinsearch, EnterBinsearch, Asked, file
<1>6. Scanned' /\ SetMade'
  BY <1>1, <1>5, ScannedKept, SetKept DEF PInv
<1>7. kind = "existing" => ~AboveAll(h)
  <2> SUFFICES ASSUME kind = "existing" PROVE InFile(h)
    BY <1>2, DbFacts DEF InFile, AboveAll
  <2>1. num \in Nums /\ testset = ExistingSet(num)
    BY <1>1 DEF PInv, SetMade
  <2>2. Len(testset) = num /\ \A i \in 1..num : InFile(testset[i])
    BY <1>2, <2>1, ExistingFacts
  <2> QED
    BY <1>3, <2>2
<1>8. Quiet'
  BY <1>1, <1>5 DEF Quiet
<1>9. Benched'
  BY <1>1, <1>2, <1>5, <1>7 DEF PInv, Benched
<1> QED
  BY <1>4, <1>6, <1>8, <1>9 DEF PInv

\* An existing hash is found, because no earlier lookup of the run can have
\* spoiled the stream; an absent one is not, whatever has happened.
LEMMA PCount == PInv /\ Count /\ UNCHANGED <<phase, indexVars, setVars>> => PInv'
<1> SUFFICES ASSUME PInv, Count, UNCHANGED <<phase, indexVars, setVars>> PROVE PInv'
  OBVIOUS
<1>1. /\ phase = "bench" /\ Return /\ next' = next + 1
      /\ found' = (IF result > 0 THEN found + 1 ELSE found)
      /\ notFound' = (IF result > 0 THEN notFound ELSE notFound + 1)
      /\ UNCHANGED <<num, kind, testset, spoiled>>
  BY DEF Count, setVars
<1>2. IInv'
  BY <1>1, ReturnInv DEF PInv
<1>3. pc = "done" /\ pc' = "idle" /\ trusted' = TRUE /\ UNCHANGED <<db, beyond>>
  BY <1>1 DEF Return, file
<1>4. /\ IsDb(db) /\ result \in Nat /\ sought \in Nat
      /\ next \in Nat \ {0} /\ next <= Len(testset) /\ sought = testset[next]
      /\ testset \in Seq(Hashes)
  BY <1>1, <1>3 DEF PInv, IInv, TypeOK, Benched, SetMade
<1>5. next \in 1..Len(testset)
  BY <1>4
<1>6. ASSUME kind = "existing" PROVE result > 0
  <2>1. num \in Nums /\ testset = ExistingSet(num) /\ ~beyond
    BY <1>1, <1>6 DEF PInv, SetMade, Benched
  <2>2. InFile(sought)
    <3>1. Len(testset) = num /\ \A i \in 1..num : InFile(testset[i])
      BY <1>4, <2>1, ExistingFacts
    <3> QED
      BY <1>4, <1>5, <3>1
  <2>3. trusted
    BY <2>1 DEF PInv, IInv, Streams
  <2>4. result = CountOf(sought)
    BY <1>3, <2>3 DEF PInv, IInv, LookupComplete
  <2>5. PICK k \in 1..Len(db) : db[k].hash = sought
    BY <2>2 DEF InFile
  <2>6. CountOf(sought) = db[k].count /\ db[k].count \in Nat \ {0}
    BY <1>4, <2>5, CountFacts, DbFacts
  <2> QED
    BY <2>4, <2>6
<1>7. ASSUME kind = "absent", ~spoiled PROVE ~(result > 0)
  <2>1. ~InFile(sought)
    BY <1>1, <1>4, <1>5, <1>7 DEF PInv, SetMade
  <2> QED
    BY <1>3, <2>1 DEF PInv, IInv, LookupSound, InFile
<1>8. Scanned' /\ SetMade'
  BY <1>1, <1>3, ScannedKept, SetKept DEF PInv
<1>9. Quiet' /\ Benched'
  BY <1>1, <1>3, <1>4, <1>6, <1>7 DEF PInv, Quiet, Benched
<1> QED
  BY <1>2, <1>8, <1>9 DEF PInv

LEMMA PStutter == PInv /\ UNCHANGED allVars => PInv'
<1> SUFFICES ASSUME PInv, UNCHANGED allVars PROVE PInv'
  OBVIOUS
<1>1. IInv'
  BY StutterInv DEF PInv, allVars
<1>2. UNCHANGED <<db, pc, sought, trusted, beyond, phase, num, kind, testset, spoiled, next, found,
                  notFound, indexVars>>
  BY DEF allVars, vars, file, hist, setVars, benchVars
<1>3. Scanned' /\ SetMade'
  BY <1>2, ScannedKept, SetKept DEF PInv
<1>4. Quiet' /\ Benched'
  BY <1>2 DEF PInv, Quiet, Benched
<1> QED
  BY <1>1, <1>3, <1>4 DEF PInv

-----------------------------------------------------------------------------
\* The inductive invariant holds whatever program runs on the data file.
THEOREM ProgramsInvariance == LookupSpec => []PInv
<1>1. PInv /\ [LookupNextStep]_allVars => PInv'
  BY PBuildIndex, PUseIndex, PSearch, PAsk, PDraw, PTakeDrawn, PNewInspector, PLookupNext, PCount,
     PStutter
  DEF LookupNextStep, LookupStep
<1> QED
  BY <1>1, PInit, PTL DEF LookupSpec

\* The one pass of pwned-index writes the index that the search works with, for
\* every sorted file, however its hashes fall into buckets: the key written once
\* more after the loop is the one that is there.
THEOREM IndexIsExact == LookupSpec => []IndexAgrees
<1>1. PInv => IndexAgrees
  <2> SUFFICES ASSUME PInv, ipc = "done", NEW k \in 0..(NKeys - 1) PROVE indexes[k] = KeyAt(k)
    BY DEF IndexAgrees
  <2>1. IsDb(db) /\ opened /\ nRead = Len(db) /\ IsKey(k, indexes[k], nRead)
    BY DEF PInv, IInv, TypeOK, Scanned
  <2> QED
    BY <2>1, KeyUnique, InspectorAssumption
<1> QED
  BY <1>1, ProgramsInvariance, PTL

\* A benchmark reports the truth about its test set in every run: all hashes of
\* a set of existing ones are found, none of a set of absent ones that was made
\* with a good stream, and the set of existing hashes has none twice if the file
\* is large enough.
THEOREM BenchmarksTellTheTruth == LookupSpec => []BenchmarkTruthful
<1>1. PInv => BenchmarkTruthful
  <2> SUFFICES ASSUME PInv, phase = "bench"
               PROVE  /\ kind = "existing" => notFound = 0
                      /\ kind = "absent" /\ ~spoiled => found = 0
                      /\ kind = "existing" /\ num <= Len(db) =>
                           \A i, j \in 1..num : testset[i] = testset[j] => i = j
    BY DEF BenchmarkTruthful
  <2>1. kind = "existing" /\ num <= Len(db) =>
          \A i, j \in 1..num : testset[i] = testset[j] => i = j
    BY ExistingFacts DEF PInv, IInv, TypeOK, SetMade
  <2> QED
    BY <2>1 DEF PInv, Benched
<1> QED
  BY <1>1, ProgramsInvariance, PTL

\* Whichever program looks something up, a count that is returned is in the
\* file, a lookup that begins with a good stream is exact, and only a hash above
\* all records spoils the stream of the inspector at hand.
THEOREM ProgramsLookUpExactly ==
    LookupSpec => [](LookupSound /\ LookupComplete /\ OnlyBeyondBreaks)
<1>1. PInv => LookupSound /\ LookupComplete /\ OnlyBeyondBreaks
  BY DEF PInv, IInv, Streams, OnlyBeyondBreaks
<1> QED
  BY <1>1, ProgramsInvariance, PTL

=============================================================================
