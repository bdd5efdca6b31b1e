------------------------- MODULE PasswordInspector --------------------------
(***************************************************************************)
(* PasswordInspector (pwned-lib/passwordinspector.cpp): lookups in a file  *)
(* of records sorted by hash, by binary search, with or without an index   *)
(* file, by the interpolating variant smart_binsearch, one read per step.  *)
(* The object outlives its lookups (pwned-server keeps one per worker,     *)
(* pwned-lookup-cli one for the session), and so does the error state of   *)
(* its two streams: seekg() clears eofbit but not failbit, and every read  *)
(* of a failed stream fails and leaves its buffer alone.                   *)
(***************************************************************************)
EXTENDS Integers, Sequences

CONSTANTS Dbs,        \* the data files: sequences of records [hash, count]
          Hashes,     \* the possible hashes, ordered as numbers
          Bucket(_),  \* the upper bits of a hash: hash.quad.upper >> mShift
          NKeys       \* number of keys in the index file

\* PasswordHashAndCount::size
Size == 20

\* A file as the converter and the merger write it: whole records, each hash
\* once, in ascending order, found at least once; at least one record.
IsDb(d) ==
    /\ d # <<>>
    /\ d \in Seq([hash : Hashes, count : Nat \ {0}])
    /\ \A i, j \in 1..Len(d) : i < j => d[i].hash < d[j].hash

ASSUME InspectorAssumption ==
    /\ \A d \in Dbs : IsDb(d)
    /\ Hashes \subseteq Nat
    /\ NKeys \in Nat \ {0}
    /\ \A h \in Hashes : Bucket(h) \in 0..(NKeys - 1)
    /\ \A h, k \in Hashes : h <= k => Bucket(h) <= Bucket(k)

VARIABLES
    db,         \* the data file
    indexed,    \* mIndexFile.is_open()
    dataOk,     \* mInputFile has no failbit
    indexOk,    \* mIndexFile has no failbit
    pc,         \* where the current lookup is
    sought,     \* its argument, hash
    lo, hi,     \* byte offsets into the data file
    at,         \* loIdx, hiIdx: key number in the index file
    offset,     \* loOffset, hiOffset of smart_binsearch
    phc,        \* the record buffer of binsearch
    result,     \* the count returned
    trusted,    \* was mInputFile good when this lookup began?
    beyond      \* was a hash above all records ever looked up?

file  == <<db, indexed>>
hist  == <<trusted, beyond>>
vars  == <<file, dataOk, indexOk, pc, sought, lo, hi, at, offset, phc, result, hist>>

FileSize == Size * Len(db)
Record(pos) == db[pos \div Size + 1]
NoRecord == [hash |-> 0, count |-> 0]     \* PasswordHashAndCount()

\* A read of mInputFile at pos succeeds.
Readable(pos) == dataOk /\ pos >= 0 /\ pos + Size <= FileSize

\* The key of an empty bucket: 0xff.. in the file, -1 as std::streamoff.
Missing == -1

\* The index file as pwned-index builds it: where each bucket begins.
KeyAt(k) ==
    IF \E i \in 1..Len(db) : Bucket(db[i].hash) = k
    THEN Size * ((CHOOSE i \in 1..Len(db) :
                     /\ Bucket(db[i].hash) = k
                     /\ \A j \in 1..(i - 1) : Bucket(db[j].hash) # k) - 1)
    ELSE Missing

\* How often the hash is in the file: the reference for every lookup.
CountOf(h) ==
    IF \E i \in 1..Len(db) : db[i].hash = h
    THEN db[CHOOSE i \in 1..Len(db) : db[i].hash = h].count
    ELSE 0

AboveAll(h) == \A i \in 1..Len(db) : db[i].hash < h

Init ==
    /\ db \in Dbs /\ indexed \in BOOLEAN
    /\ dataOk = TRUE /\ indexOk = TRUE
    /\ pc = "idle" /\ sought = 0
    /\ lo = 0 /\ hi = 0 /\ at = 0 /\ offset = 0
    /\ phc = NoRecord /\ result = 0
    /\ trusted = TRUE /\ beyond = FALSE

-----------------------------------------------------------------------------
(* The calls.                                                              *)

\* The local variables of binsearch when it starts.
EnterBinsearch ==
    /\ lo' = 0 /\ hi' = FileSize
    /\ phc' = NoRecord
    /\ pc' = IF indexed THEN "idxLo" ELSE "probe"

Asked(h) ==
    /\ sought' = h
    /\ trusted' = dataOk
    /\ beyond' = (beyond \/ AboveAll(h))

\* binsearch(hash), lookup(pwd)
Binsearch(h) ==
    /\ pc = "idle"
    /\ Asked(h)
    /\ EnterBinsearch
    /\ at' = Bucket(h)
    /\ UNCHANGED <<file, dataOk, indexOk, offset, result>>

\* The width of smart_binsearch's first window on either side of the guess.
InitialOffset ==
    LET o == IF FileSize \div 4096 > Size THEN FileSize \div 4096 ELSE Size
    IN o - (o % Size)

\* smart_binsearch(hash): the guess is a floating-point interpolation.
SmartBinsearch(h) ==
    /\ pc = "idle"
    /\ Asked(h)
    /\ offset' = InitialOffset
    /\ \E guess \in {Size * n : n \in 0..Len(db)} :
         /\ lo' = IF guess >= offset' THEN guess - offset' ELSE 0
         /\ hi' = IF guess + offset' <= FileSize - Size
                  THEN guess + offset' ELSE FileSize - Size
    /\ phc' = NoRecord
    /\ pc' = "smartLo"
    /\ at' = Bucket(h)
    /\ UNCHANGED <<file, dataOk, indexOk, result>>

-----------------------------------------------------------------------------
(* smart_binsearch: it widens a window around the guess, and then searches *)
(* the whole file all the same.                                            *)

\* h0.read(mInputFile, lo), and the loop that moves lo down
SmartLo ==
    /\ pc = "smartLo"
    /\ dataOk' = Readable(lo)
    /\ phc' = IF Readable(lo) THEN Record(lo) ELSE phc
    /\ \/ /\ sought < phc'.hash /\ lo >= offset
          /\ lo' = lo - offset
          /\ offset' = 2 * offset
          /\ UNCHANGED pc
       \/ /\ ~(sought < phc'.hash /\ lo >= offset)
          /\ offset' = InitialOffset
          /\ pc' = "smartHi"
          /\ UNCHANGED lo
    /\ UNCHANGED <<file, indexOk, sought, hi, at, result, hist>>

\* h1.read(mInputFile, hi), the loop that moves hi up, then binsearch(hash)
SmartHi ==
    /\ pc = "smartHi"
    /\ dataOk' = Readable(hi)
    /\ LET h1 == IF Readable(hi) THEN Record(hi).hash ELSE 0
           again == sought > h1 /\ hi <= FileSize - offset - Size
       IN \/ /\ again
             /\ hi' = hi + offset
             /\ offset' = 2 * offset
             /\ UNCHANGED <<pc, lo, phc>>
          \/ /\ ~again
             /\ EnterBinsearch
             /\ UNCHANGED offset
    /\ UNCHANGED <<file, indexOk, sought, at, result, hist>>

-----------------------------------------------------------------------------
(* binsearch with an index: the bounds come from the index file.           *)

\* A read of key number k succeeds.
KeyReadable(k) == indexOk /\ k \in 0..(NKeys - 1)

\* Down to the first bucket at or below the hash's that is not empty.
IdxLo ==
    /\ pc = "idxLo"
    /\ indexOk' = KeyReadable(at)
    /\ lo' = IF KeyReadable(at) THEN KeyAt(at) ELSE lo
    /\ \/ /\ lo' = Missing
          /\ at' = IF at >= 0 THEN at - 1 ELSE at    \* once failed, at is idle
          /\ UNCHANGED pc
       \/ /\ lo' # Missing
          /\ at' = Bucket(sought) + 1
          /\ pc' = "idxHi"
    /\ UNCHANGED <<file, dataOk, sought, hi, offset, phc, result, hist>>

\* Up to the first bucket above the hash's that is not empty.
IdxHi ==
    /\ pc = "idxHi"
    /\ indexOk' = KeyReadable(at)
    /\ hi' = IF KeyReadable(at) THEN KeyAt(at) ELSE hi
    /\ \/ /\ hi' = Missing
          /\ at' = IF at < NKeys THEN at + 1 ELSE at
          /\ UNCHANGED pc
       \/ /\ hi' # Missing
          /\ pc' = "probe"
          /\ UNCHANGED at
    /\ UNCHANGED <<file, dataOk, sought, lo, offset, phc, result, hist>>

-----------------------------------------------------------------------------
(* The binary search itself.                                               *)

ProbeAtRoundedUp == LET mid == (lo + hi) \div 2 IN mid + ((Size - (mid % Size)) % Size)

\* The offset of the middle record.
ProbeAt == LET mid == (lo + hi) \div 2 IN mid - (mid % Size)

AboveProbeStuck(pos) == pos

\* The lower bound after a probe at pos found a smaller hash.
AboveProbe(pos) == pos + Size

BelowProbeTooFar(pos) == pos - 2 * Size

\* The upper bound after a probe at pos found a larger hash.
BelowProbe(pos) == pos - Size

\* One turn of while (lo <= hi)
Probe ==
    /\ pc = "probe" /\ lo <= hi
    /\ LET pos == ProbeAt
           got == IF Readable(pos) THEN Record(pos) ELSE phc
       IN /\ dataOk' = Readable(pos)
          /\ phc' = got
          /\ \/ /\ sought > got.hash
                /\ lo' = AboveProbe(pos)
                /\ UNCHANGED <<hi, pc, result>>
             \/ /\ sought < got.hash
                /\ hi' = BelowProbe(pos)
                /\ UNCHANGED <<lo, pc, result>>
             \/ /\ sought = got.hash
                /\ result' = got.count
                /\ pc' = "done"
                /\ UNCHANGED <<lo, hi>>
    /\ UNCHANGED <<file, indexOk, sought, at, offset, hist>>

NotFoundKeepsCount ==
    /\ pc = "probe" /\ lo > hi
    /\ result' = phc.count
    /\ pc' = "done"
    /\ UNCHANGED <<file, dataOk, indexOk, sought, lo, hi, at, offset, phc, hist>>

\* The loop ends: phc.count = 0
NotFound ==
    /\ pc = "probe" /\ lo > hi
    /\ result' = 0
    /\ phc' = [phc EXCEPT !.count = 0]
    /\ pc' = "done"
    /\ UNCHANGED <<file, dataOk, indexOk, sought, lo, hi, at, offset, hist>>

\* The caller has the result; the inspector is ready for the next lookup.
Return ==
    /\ pc = "done"
    /\ pc' = "idle"
    /\ sought' = 0 /\ lo' = 0 /\ hi' = 0 /\ at' = 0 /\ offset' = 0
    /\ phc' = NoRecord /\ result' = 0 /\ trusted' = TRUE
    /\ UNCHANGED <<file, dataOk, indexOk, beyond>>

Step == SmartLo \/ SmartHi \/ IdxLo \/ IdxHi \/ Probe \/ NotFound \/ Return

Next == (\E h \in Hashes : Binsearch(h) \/ SmartBinsearch(h)) \/ Step

\* A lookup that was called is executed; nobody has to call one.
Spec == Init /\ [][Next]_vars /\ WF_vars(Step)

-----------------------------------------------------------------------------
(* Properties                                                              *)

Pcs == {"idle", "smartLo", "smartHi", "idxLo", "idxHi", "probe", "done"}

\* Every variable keeps its type; offsets into the data file stay aligned to
\* whole records through every halving.
TypeOK ==
    /\ IsDb(db) /\ indexed \in BOOLEAN
    /\ dataOk \in BOOLEAN /\ indexOk \in BOOLEAN
    /\ pc \in Pcs /\ sought \in Nat /\ result \in Nat
    /\ lo \in Int /\ hi \in Int /\ at \in Int /\ offset \in Int
    /\ lo # Missing => lo % Size = 0
    /\ hi # Missing => hi % Size = 0
    /\ phc \in [hash : Nat, count : Nat]
    /\ trusted \in BOOLEAN /\ beyond \in BOOLEAN

\* A count that is returned is in the file, next to the hash that was sought,
\* whatever happened to the streams in earlier lookups.
LookupSound ==
    pc = "done" /\ result > 0 =>
      \E i \in 1..Len(db) : db[i].hash = sought /\ db[i].count = result

\* A lookup that begins with a good stream returns exactly how often the hash
\* is in the file: the bounds of the search, from the index or not, never
\* leave the record out.
LookupComplete == pc = "done" /\ trusted => result = CountOf(sought)

\* Only a lookup of a hash above all records spoils the stream: no other
\* search reads past the end of the file, smart_binsearch's window included.
OnlyBeyondBreaks == ~beyond => dataOk

\* Every probe at least halves what is left to search.
ProbeHalves == [][pc = "probe" /\ pc' = "probe" => 2 * (hi' - lo') < hi - lo]_vars

\* The index has a key at or below the hash's bucket and, unless that is the
\* last one, a key above it; or its stream has failed and it is not used.
Covered ==
    \/ ~indexed \/ ~indexOk
    \/ /\ \E i \in 1..Len(db) : Bucket(db[i].hash) <= Bucket(sought)
       /\ \/ Bucket(sought) = NKeys - 1
          \/ \E i \in 1..Len(db) : Bucket(db[i].hash) > Bucket(sought)

\* A lookup that the index covers returns.
CoveredReturns ==
    (pc \in {"idxLo", "probe", "smartLo"} /\ lo # Missing /\ Covered) ~> (pc = "done")

\* "Query an MD5 hash and return the numbers of times it was found", every
\* time it is asked.
LookupExact == pc = "done" => result = CountOf(sought)

=============================================================================
