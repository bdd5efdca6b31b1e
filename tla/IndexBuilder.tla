---------------------------- MODULE IndexBuilder ----------------------------
(***************************************************************************)
(* pwned-index (pwned-index/index.cpp): one pass over a sorted data file,  *)
(* noting where the records of each bucket (upper bits of the hash) begin. *)
(* The loop runs until a read hits the end of the file, and that last,     *)
(* failed read leaves the record of the read before it in place.           *)
(***************************************************************************)
EXTENDS Integers, Sequences

CONSTANTS Bucket(_),  \* hash.quad.upper >> shift
          NKeys       \* maxIdx

\* PasswordHashAndCount::size, and 0xff.. as the key of an empty bucket
Size == 20
Missing == -1

VARIABLES db,        \* the data file: its hashes, in file order
          opened,    \* could the stream open it?
          nRead,     \* the records read so far
          eof,       \* input.eof()
          hash,      \* phc.hash
          idx, lastIdx, pos,
          indexes,
          pc

\* memset(0xff), the first read, and its bucket's key; an empty file leaves
\* the default hash, 0, and so does one that is not there (db is then empty,
\* but no read reaches its end).
Start ==
    /\ nRead = IF db = <<>> THEN 0 ELSE 1
    /\ eof = (opened /\ db = <<>>)
    /\ hash = IF db = <<>> THEN 0 ELSE db[1]
    /\ lastIdx = Bucket(hash)
    /\ indexes = [k \in 0..(NKeys - 1) |-> IF k = lastIdx THEN 0 ELSE Missing]
    /\ idx = 0 /\ pos = 0
    /\ pc = "scan"

RecordStartLate(n) == Size * n

\* uint64_t(input.tellg()) - size: where the last of n records read begins
RecordStart(n) == Size * n - Size

\* idx > lastIdx
NewBucket(i) == i > lastIdx

AtEndMissed == FALSE

\* input.eof() after a read that found no record
AtEnd == opened

\* phc.read(input), and the key of the bucket, if the record begins one
Scan ==
    /\ pc = "scan" /\ ~eof
    /\ IF nRead < Len(db)
       THEN nRead' = nRead + 1 /\ hash' = db[nRead + 1] /\ UNCHANGED eof
       ELSE eof' = AtEnd /\ UNCHANGED <<nRead, hash>>
    /\ idx' = Bucket(hash')
    /\ \/ /\ NewBucket(idx')
          /\ pos' = RecordStart(nRead')
          /\ indexes' = [indexes EXCEPT ![idx'] = pos']
          /\ lastIdx' = idx'
       \/ /\ ~NewBucket(idx')
          /\ UNCHANGED <<pos, indexes, lastIdx>>
    /\ UNCHANGED pc

\* The loop is over: *(indexes + idx) = pos, and the index is written.
Finish ==
    /\ pc = "scan" /\ eof
    /\ indexes' = [indexes EXCEPT ![idx] = pos]
    /\ pc' = "done"
    /\ UNCHANGED <<nRead, eof, hash, idx, lastIdx, pos>>

=============================================================================
