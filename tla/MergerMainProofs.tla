-------------------------- MODULE MergerMainProofs --------------------------
(***************************************************************************)
(* The merger's main loop for any number of files, any order of them and   *)
(* any limit, whatever fails, vanishes or is cancelled.  The argument is   *)
(* about Pending, the list as it will be once the merge that has ended is  *)
(* accounted for: as long as nobody quits, it either contains an           *)
(* intermediate file that was never written, which stops the program when  *)
(* its turn comes, or its files hold every input that has not vanished.    *)
(***************************************************************************)
EXTENDS MergerMain, SequenceTheorems, TLAPS

States == {"loop", "merging", "merged", "done", "aborted"}

\* The files of a list, up to its n-th.
Firsts(l, n) == {l[i] : i \in 1..n}

Types ==
    /\ maxFilesAtOnce \in Nat /\ intermediates \in Nat /\ slice \in Nat
    /\ inputFiles \in Seq(Files \cup Temps)
    /\ dstFile \in Destinations /\ target \in {dstFile} \cup Temps
    /\ vanished \subseteq Files
    /\ exists \subseteq Files \cup {dstFile} \cup Temps
    /\ DOMAIN holds \subseteq Files \cup {dstFile} \cup Temps
    /\ \A f \in DOMAIN holds : holds[f] \subseteq Files
    /\ isCancelled \in BOOLEAN /\ quit \in BOOLEAN /\ failed \in BOOLEAN
    /\ written \in BOOLEAN
    /\ sized \subseteq Files \cup Temps
    /\ pc \in States
    /\ ~quit => ~isCancelled

\* Only the destination is ever an input that is written to, and an intermediate
\* file whose size is known was written.
Disk ==
    /\ Files \subseteq exists \cup vanished
    /\ \A f \in Files : (f = dstFile /\ written) \/ holds[f] = {f}
    /\ Files \subseteq DOMAIN holds
    /\ exists \cap Temps \subseteq DOMAIN holds
    /\ pc # "done" => sized \cap Temps \subseteq exists

\* The chunk a merge works on.  Its target is the destination just when the
\* chunk is the whole list; otherwise it is the newest intermediate file, and
\* not on the list.
ChunkChosen ==
    pc \in {"merging", "merged"} =>
      /\ slice <= Len(inputFiles) /\ inputFiles # <<>>
      /\ target = dstFile <=> slice = Len(inputFiles)
      /\ target # dstFile => \A i \in 1..Len(inputFiles) : inputFiles[i] # target

\* Once the destination is written, nothing more is merged.
LastChunk ==
    written => \/ pc = "merged" /\ target = dstFile
               \/ pc = "loop" /\ (inputFiles = <<>> \/ isCancelled)
               \/ pc = "done"

\* What a merge has opened, and that its target is not there yet.
ChunkOpened ==
    pc = "merging" =>
      /\ opened = Firsts(inputFiles, slice) \cap exists
      /\ Firsts(inputFiles, slice) \cap Temps \subseteq exists
      /\ target # dstFile => target \notin DOMAIN holds /\ target \notin exists

\* The list after the merge that has ended.
Pending ==
    IF pc = "merged" THEN IF target = dstFile THEN Rest ELSE Append(Rest, target) ELSE inputFiles

\* Does the list hold all of S, and each once?
Covers(l, S) == \A f \in S : \E i \in 1..Len(l) : f \in HeldBy(l[i])
Once(l) == \A i, j \in 1..Len(l) : HeldBy(l[i]) \cap HeldBy(l[j]) # {} => i = j
Missing(l) == \E i \in 1..Len(l) : l[i] \in Temps \ exists

Active == pc \in {"loop", "merging", "merged"}

NothingLost ==
    ~quit /\ Active /\ Pending # <<>> => Missing(Pending) \/ Covers(Pending, Files \ vanished)

\* What EveryInputOnce says, of the list to come.
Complete ==
    Undisturbed /\ Active =>
      IF Pending = <<>>
      THEN Files # {} => dstFile \in exists /\ (HeldBy(dstFile) = Files \/ dstFile \in opened)
      ELSE Covers(Pending, Files) /\ Once(Pending)

MInv ==
    /\ Types /\ Disk /\ ChunkChosen /\ LastChunk /\ ChunkOpened
    /\ NothingLost /\ Complete /\ NoSilentGap

-----------------------------------------------------------------------------
LEMMA Names ==
    /\ \A d \in Destinations : d \notin Nat
    /\ \A f \in Files : f \notin Nat
    /\ \A n \in Nat : 1..n \subseteq Nat
BY MergerAssumption

\* What is left of a list without its first n.
LEMMA RestFacts ==
    ASSUME NEW S, NEW l \in Seq(S), NEW n \in Nat, n <= Len(l)
    PROVE  LET r == SubSeq(l, n + 1, Len(l))
           IN /\ r \in Seq(S)
              /\ Len(r) = Len(l) - n
              /\ \A i \in 1..Len(r) : r[i] = l[n + i]
              /\ r = <<>> <=> n = Len(l)
<1> DEFINE r == SubSeq(l, n + 1, Len(l))
<1>1. \A i \in (n + 1)..Len(l) : l[i] \in S
  OBVIOUS
<1>2. /\ r \in Seq(S)
      /\ Len(r) = IF n + 1 <= Len(l) THEN Len(l) - (n + 1) + 1 ELSE 0
      /\ \A i \in 1..(Len(l) - (n + 1) + 1) : r[i] = l[n + 1 + i - 1]
  BY <1>1, SubSeqProperties
<1> HIDE DEF r
<1>3. Len(r) = Len(l) - n
  BY <1>2
<1>4. \A i \in 1..Len(r) : r[i] = l[n + i]
  BY <1>2, <1>3
<1>5. r = <<>> <=> n = Len(l)
  BY <1>2, <1>3
<1> QED
  BY <1>2, <1>3, <1>4, <1>5 DEF r

\* The same with a file at the end.
LEMMA RequeuedFacts ==
    ASSUME NEW S, NEW l \in Seq(S), NEW n \in Nat, n <= Len(l), NEW t \in S,
           NEW q, q = Append(SubSeq(l, n + 1, Len(l)), t)
    PROVE  /\ q \in Seq(S) /\ q # <<>>
           /\ Len(q) = Len(l) - n + 1
           /\ \A i \in 1..(Len(l) - n) : q[i] = l[n + i]
           /\ q[Len(q)] = t
<1> DEFINE r == SubSeq(l, n + 1, Len(l))
<1>1. /\ r \in Seq(S) /\ Len(r) = Len(l) - n
      /\ \A i \in 1..Len(r) : r[i] = l[n + i]
  BY RestFacts
<1> HIDE DEF r
<1>2. q = Append(r, t)
  BY DEF r
<1>3. /\ q \in Seq(S) /\ q # <<>> /\ Len(q) = Len(r) + 1
      /\ \A i \in 1..Len(r) : q[i] = r[i]
      /\ q[Len(q)] = t
  <2>1. Len(r) \in Nat /\ q \in Seq(S) /\ Len(q) = Len(r) + 1
    BY <1>1, <1>2
  <2>2. \A i \in 1..Len(r) : q[i] = r[i]
    BY <1>1, <1>2
  <2>3. q[Len(r) + 1] = t
    BY <1>1, <1>2
  <2>4. q # <<>>
    BY ONLY <2>1
  <2>5. q[Len(q)] = t
    BY ONLY <2>1, <2>3
  <2> QED
    BY ONLY <2>1, <2>2, <2>4, <2>5
<1>4. \A i \in 1..(Len(l) - n) : q[i] = l[n + i]
  BY <1>1, <1>3
<1>5. Len(q) = Len(l) - n + 1
  BY <1>1, <1>3
<1> QED
  BY <1>3, <1>4, <1>5

-----------------------------------------------------------------------------
LEMMA MInit == Init => MInv
<1> SUFFICES ASSUME Init PROVE MInv
  OBVIOUS
<1> USE Names
<1>d. dstFile \in Destinations
  BY DEF Init
<1> USE <1>d
<1>1. /\ inputFiles \in Seq(Files) /\ intermediates = 0 /\ Temps = {}
      /\ \A f \in Files : \E i \in 1..Len(inputFiles) : inputFiles[i] = f
      /\ \A i, j \in 1..Len(inputFiles) : inputFiles[i] = inputFiles[j] => i = j
  BY MergerAssumption DEF Init, Temps
<1>2. Types
  <2>1. inputFiles \in Seq(Files \cup Temps)
    BY <1>1
  <2>2. maxFilesAtOnce \in Nat
    BY MergerAssumption DEF Init
  <2>3. /\ DOMAIN holds = Files /\ \A f \in Files : holds[f] = {f}
        /\ exists \subseteq Files \cup {dstFile} /\ sized \subseteq Files
    BY DEF Init
  <2>4. /\ isCancelled \in BOOLEAN /\ quit \in BOOLEAN /\ failed \in BOOLEAN /\ pc \in States
        /\ (~quit => ~isCancelled) /\ written \in BOOLEAN
    BY DEF Init, States
  <2>5. slice \in Nat /\ target = dstFile /\ vanished = {}
    BY DEF Init
  <2> QED
    BY <1>1, <2>1, <2>2, <2>3, <2>4, <2>5 DEF Types
<1>3. Disk /\ ChunkChosen /\ LastChunk /\ ChunkOpened /\ NoSilentGap
  BY <1>1 DEF Init, Disk, ChunkChosen, LastChunk, ChunkOpened, NoSilentGap
<1>4. \A f \in Files : HeldBy(f) = {f}
  BY DEF Init, HeldBy
<1>5. \A i \in 1..Len(inputFiles) : HeldBy(inputFiles[i]) = {inputFiles[i]}
  BY <1>1, <1>4
<1>6. Covers(inputFiles, Files) /\ Once(inputFiles) /\ Pending = inputFiles
  <2>1. Covers(inputFiles, Files)
    BY <1>1, <1>5 DEF Covers
  <2>2. Once(inputFiles)
    <3> SUFFICES ASSUME NEW i \in 1..Len(inputFiles), NEW j \in 1..Len(inputFiles),
                        HeldBy(inputFiles[i]) \cap HeldBy(inputFiles[j]) # {}
                 PROVE  i = j
      BY DEF Once
    <3>1. inputFiles[i] = inputFiles[j]
      BY <1>5
    <3> QED
      BY <1>1, <3>1
  <2>3. Pending = inputFiles
    BY DEF Pending, Init
  <2> QED
    BY <2>1, <2>2, <2>3
<1>7. NothingLost /\ Complete
  <2>1. Files \ vanished = Files
    BY DEF Init
  <2>2. inputFiles = <<>> => Files = {}
    BY <1>1
  <2> QED
    BY <1>6, <2>1, <2>2 DEF NothingLost, Complete
<1> QED
  BY <1>2, <1>3, <1>7 DEF MInv

LEMMA MChunk == MInv /\ Chunk => MInv'
<1> SUFFICES ASSUME MInv, Chunk PROVE MInv'
  OBVIOUS
<1> USE Names
<1>d. dstFile \in Destinations /\ dstFile' = dstFile
  BY DEF MInv, Types, Chunk, fileVars
<1> USE <1>d
<1> DEFINE S == Firsts(inputFiles, slice')
<1>1. /\ UNCHANGED <<fileVars, inputFiles, holds, exists, isCancelled, quit, failed, written>>
      /\ ~written
      /\ pc = "loop" /\ inputFiles # <<>> /\ ~isCancelled
      /\ slice' = SliceLength
      /\ pc' = (IF SizesKnown(S) THEN "merging" ELSE "aborted")
      /\ sized' = sized \cup (S \cap exists)
      /\ opened' = S \cap exists
  BY DEF Chunk, Firsts, Opened, MInv, LastChunk, Types
<1>2. /\ SliceLength \in Nat /\ SliceLength <= Len(inputFiles)
  BY DEF MInv, Types, SliceLength
<1>3. \/ slice' = Len(inputFiles) /\ target' = dstFile /\ intermediates' = intermediates
      \/ slice' # Len(inputFiles) /\ intermediates' = intermediates + 1 /\ target' = intermediates'
  BY <1>1 DEF Chunk, IsLastChunk
<1>4. /\ Temps \subseteq Temps' /\ intermediates' \in Nat /\ target' \in {dstFile} \cup Temps'
      /\ target' # dstFile => target' \notin Temps /\ target' \notin Files
      /\ dstFile \notin Temps' /\ \A f \in Files : f \notin Temps'
  BY <1>3 DEF Temps, MInv, Types
<1>5. \A i \in 1..Len(inputFiles) : inputFiles[i] \in Files \cup Temps
  BY DEF MInv, Types
<1>6. S \subseteq Files \cup Temps
  BY <1>1, <1>2, <1>5 DEF Firsts
<1>7. Types'
  <2>1. inputFiles' \in Seq(Files \cup Temps')
    BY <1>1, <1>4 DEF MInv, Types
  <2>2. pc' \in States
    BY <1>1 DEF States
  <2>3. sized' \subseteq Files \cup Temps'
    BY <1>1, <1>4, <1>6 DEF MInv, Types
  <2>4. /\ exists' \subseteq Files \cup {dstFile} \cup Temps'
        /\ DOMAIN holds' \subseteq Files \cup {dstFile} \cup Temps'
        /\ \A f \in DOMAIN holds' : holds'[f] \subseteq Files
    BY <1>1, <1>4 DEF MInv, Types
  <2>5. slice' \in Nat /\ maxFilesAtOnce' \in Nat /\ vanished' \subseteq Files
    BY <1>1, <1>2 DEF MInv, Types, fileVars
  <2>6. /\ isCancelled' \in BOOLEAN /\ quit' \in BOOLEAN /\ failed' \in BOOLEAN
        /\ written' \in BOOLEAN
        /\ ~quit' => ~isCancelled'
    BY <1>1 DEF MInv, Types
  <2> QED
    BY <1>4, <2>1, <2>2, <2>3, <2>4, <2>5, <2>6 DEF Types
<1>8. sized' \subseteq Files \cup Temps /\ sized' \cap Temps' \subseteq exists
  BY <1>1, <1>4, <1>6 DEF MInv, Types, Disk
<1>9. Disk'
  <2>1. exists \cap Temps' \subseteq DOMAIN holds
    BY <1>4 DEF MInv, Types, Disk
  <2> QED
    BY <1>1, <1>8, <2>1 DEF MInv, Disk, fileVars
<1>10. ChunkChosen'
  <2>1. target' # dstFile => \A i \in 1..Len(inputFiles) : inputFiles[i] # target'
    BY <1>4, <1>5
  <2>2. target' = dstFile <=> slice' = Len(inputFiles)
    BY <1>3 DEF MInv, Types
  <2> QED
    BY <1>1, <1>2, <2>1, <2>2 DEF ChunkChosen
<1>11. ChunkOpened'
  <2>1. pc' = "merging" => S \ sized \subseteq exists
    BY <1>1 DEF SizesKnown
  <2>2. pc' = "merging" => S \cap Temps' \subseteq exists
    BY <1>1, <1>4, <1>6, <2>1 DEF MInv, Disk
  <2>3. target' # dstFile => target' \notin DOMAIN holds /\ target' \notin exists
    BY <1>4 DEF MInv, Types
  <2> QED
    BY <1>1, <2>2, <2>3 DEF ChunkOpened
<1>12. Pending' = Pending /\ Pending = inputFiles
  BY <1>1 DEF Pending
<1>13. NothingLost'
  <2>1. Missing(inputFiles) => Missing(inputFiles)'
    BY <1>1, <1>4 DEF Missing
  <2>2. Covers(inputFiles, Files \ vanished) => Covers(inputFiles, Files \ vanished)'
    BY <1>1 DEF Covers, HeldBy, fileVars
  <2> QED
    BY <1>1, <1>12, <2>1, <2>2 DEF MInv, NothingLost, Active
<1>14. Complete' /\ LastChunk' /\ NoSilentGap'
  BY <1>1, <1>12
     DEF MInv, Complete, LastChunk, NoSilentGap, Undisturbed, Active, Covers, Once, HeldBy, fileVars
<1> QED
  BY <1>7, <1>9, <1>10, <1>11, <1>13, <1>14 DEF MInv

-----------------------------------------------------------------------------
\* A merge that ends.  Only its target may have changed.
LEMMA MergeEffect ==
    ASSUME MInv, MergeEnds
    PROVE  /\ pc = "merging" /\ pc' = "merged" /\ isCancelled' = FALSE
           /\ UNCHANGED <<fileVars, inputFiles, sized, intermediates, slice, opened, target, quit>>
           /\ exists \subseteq exists' /\ exists' \subseteq exists \cup {target}
           /\ DOMAIN holds \subseteq DOMAIN holds'
           /\ DOMAIN holds' \subseteq DOMAIN holds \cup {target}
           /\ \A f \in DOMAIN holds \ {target} : holds'[f] = holds[f]
           /\ target \in DOMAIN holds' =>
                \/ holds'[target] = Merged \/ holds'[target] = {}
                \/ target \in DOMAIN holds /\ holds'[target] = holds[target]
           /\ failed' = failed \/ failed' = TRUE
           /\ target \in exists' => target \in exists \/ target \in DOMAIN holds'
           /\ ~written
           /\ \/ written' = (target = dstFile)
              \/ written' = FALSE /\ holds' = holds
<1>0. ~written /\ pc = "merging"
  BY DEF MInv, LastChunk, Types, MergeEnds
<1>1. CASE OpenTarget
           /\ (holds' = Holds(Merged) \/ holds' = Holds({}))
  BY <1>0, <1>1 DEF MergeEnds, OpenTarget, Holds, MInv, Types
<1>2. CASE UNCHANGED <<exists, holds, written>> /\ (failed' = TRUE \/ UNCHANGED failed)
  BY <1>0, <1>2 DEF MergeEnds, MInv, Types
<1> QED
  BY <1>1, <1>2 DEF MergeEnds

\* As long as nobody quits, a merge that ends has either written what its
\* chunk holds, or written nothing: then it failed, or the chunk is empty.
LEMMA MergeOutcome ==
    ASSUME MInv, MergeEnds, ~quit
    PROVE  \/ /\ slice > 0 /\ exists' = exists \cup {target} /\ UNCHANGED failed
              /\ target \in DOMAIN holds' /\ (holds'[target] = Merged \/ target \in opened)
           \/ /\ UNCHANGED <<exists, holds, written>>
              /\ failed' \/ slice = 0
<1>1. ~isCancelled
  BY DEF MInv, Types
<1> QED
  BY <1>1 DEF MergeEnds, OpenTarget, Holds, ReadsItself

\* What a complete merge of a chunk holds.
LEMMA MergedFacts ==
    ASSUME MInv, pc = "merging"
    PROVE  /\ Merged \subseteq Files
           /\ \A f \in Merged : \E i \in 1..slice : f \in HeldBy(inputFiles[i])
           /\ \A i \in 1..slice : \A f \in HeldBy(inputFiles[i]) \ vanished : f \in Merged
<1> USE Names
<1>d. dstFile \in Destinations
  BY DEF MInv, Types
<1> USE <1>d
<1>1. /\ opened = Firsts(inputFiles, slice) \cap exists
      /\ Firsts(inputFiles, slice) \cap Temps \subseteq exists
      /\ slice \in Nat /\ slice <= Len(inputFiles)
  BY DEF MInv, ChunkOpened, ChunkChosen, Types
<1>2. \A i \in 1..slice : inputFiles[i] \in Files \cup Temps
  BY <1>1 DEF MInv, Types
<1>3. \A f \in Merged : \E i \in 1..slice : f \in holds[inputFiles[i]] /\ inputFiles[i] \in exists
  BY <1>1 DEF Merged, Firsts
<1>4. Merged \subseteq Files /\ \A f \in Merged : \E i \in 1..slice : f \in HeldBy(inputFiles[i])
  <2>1. \A i \in 1..slice : inputFiles[i] \in exists => inputFiles[i] \in DOMAIN holds
    BY <1>2 DEF MInv, Disk
  <2> QED
    BY <1>3, <2>1 DEF HeldBy, MInv, Types
<1>5. ASSUME NEW i \in 1..slice, NEW f \in HeldBy(inputFiles[i]) \ vanished PROVE f \in Merged
  <2>1. f \in holds[inputFiles[i]]
    BY DEF HeldBy
  <2>2. inputFiles[i] \in exists
    <3>1. CASE inputFiles[i] \in Temps
      BY <1>1, <3>1 DEF Firsts
    <3>2. CASE inputFiles[i] \in Files
      <4>1. ~written
        BY DEF MInv, LastChunk, Types
      <4> QED
        BY <2>1, <3>2, <4>1 DEF MInv, Disk
    <3> QED
      BY <1>2, <3>1, <3>2
  <2>3. inputFiles[i] \in opened
    BY <1>1, <2>2 DEF Firsts
  <2> QED
    BY <2>1, <2>3 DEF Merged
<1> QED
  BY <1>4, <1>5

LEMMA MMergeEnds == MInv /\ MergeEnds => MInv'
<1> SUFFICES ASSUME MInv, MergeEnds PROVE MInv'
  OBVIOUS
<1> USE Names
<1>d. dstFile \in Destinations /\ dstFile' = dstFile
  BY DEF MInv, Types, MergeEnds, fileVars
<1> USE <1>d
<1>1. /\ pc = "merging" /\ pc' = "merged" /\ isCancelled' = FALSE
      /\ UNCHANGED <<fileVars, inputFiles, sized, intermediates, slice, opened, target, quit>>
      /\ exists \subseteq exists' /\ exists' \subseteq exists \cup {target}
      /\ DOMAIN holds \subseteq DOMAIN holds'
      /\ DOMAIN holds' \subseteq DOMAIN holds \cup {target}
      /\ \A f \in DOMAIN holds \ {target} : holds'[f] = holds[f]
      /\ failed' = failed \/ failed' = TRUE
  BY MergeEffect
<1>2. \A f \in DOMAIN holds' : holds'[f] \subseteq Files
  BY <1>1, MergeEffect, MergedFacts DEF MInv, Types
<1>3. /\ Temps' = Temps /\ target \in {dstFile} \cup Temps /\ dstFile \notin Temps
      /\ target # dstFile => target \notin Files
  BY <1>1 DEF Temps, MInv, Types
<1>4. Types'
  <2>1. /\ exists' \subseteq Files \cup {dstFile} \cup Temps
        /\ DOMAIN holds' \subseteq Files \cup {dstFile} \cup Temps
    BY <1>1, <1>3 DEF MInv, Types
  <2>2. /\ isCancelled' \in BOOLEAN /\ quit' \in BOOLEAN /\ failed' \in BOOLEAN /\ pc' \in States
        /\ (~quit' => ~isCancelled') /\ written' \in BOOLEAN
    BY <1>1, MergeEffect DEF MInv, Types, States
  <2>3. /\ maxFilesAtOnce' \in Nat /\ vanished' \subseteq Files
    BY <1>1 DEF MInv, Types, fileVars
  <2> QED
    BY <1>1, <1>2, <1>3, <2>1, <2>2, <2>3 DEF MInv, Types
<1>5. Disk'
  <2>1. exists' \cap Temps \subseteq DOMAIN holds'
    BY <1>1, MergeEffect DEF MInv, Disk
  <2>2. /\ Files \subseteq exists' \cup vanished'
        /\ \A f \in Files : (f = dstFile /\ written') \/ holds'[f] = {f}
    BY <1>1, <1>3, MergeEffect DEF MInv, Disk, fileVars
  <2> QED
    BY <1>1, <1>3, <2>1, <2>2 DEF MInv, Disk
<1>6. ChunkChosen' /\ LastChunk' /\ ChunkOpened'
  BY <1>1, MergeEffect DEF MInv, ChunkChosen, LastChunk, ChunkOpened
\* The list to come
<1>7. /\ slice \in Nat /\ slice <= Len(inputFiles) /\ inputFiles # <<>>
      /\ inputFiles \in Seq(Files \cup Temps)
      /\ target = dstFile <=> slice = Len(inputFiles)
      /\ target # dstFile => \A i \in 1..Len(inputFiles) : inputFiles[i] # target
  BY <1>1 DEF MInv, Types, ChunkChosen
<1>8. \A i \in 1..Len(inputFiles) : inputFiles[i] \in Files \cup Temps
  BY <1>7
<1>10. Pending = inputFiles
  BY <1>1 DEF Pending
<1>11. CASE target = dstFile
  <2>1. slice > 0 /\ Rest = <<>> /\ Pending' = <<>>
    BY <1>1, <1>7, <1>11, RestFacts DEF Rest, Pending
  <2>2. ASSUME ~quit, ~Missing(inputFiles)
        PROVE  Files \ vanished \subseteq Merged
    <3>1. Covers(inputFiles, Files \ vanished)
      BY <1>1, <1>7, <1>10, <2>2 DEF MInv, NothingLost, Active
    <3> QED
      BY <1>1, <1>7, <1>11, <3>1, MergedFacts DEF Covers
  <2>3. ~Missing(inputFiles)
    BY <1>1, <1>7, <1>11 DEF Missing, MInv, ChunkOpened, Firsts
  <2>4. NoSilentGap'
    <3>1. CASE quit
      BY <1>1, <3>1 DEF NoSilentGap
    <3>2. CASE ~quit
      BY <1>1, <1>11, <2>2, <2>3, <3>2, MergeOutcome, MergeEffect DEF NoSilentGap, HeldBy, fileVars
    <3> QED
      BY <3>1, <3>2
  <2>5. Complete'
    <3> SUFFICES ASSUME Undisturbed' PROVE dstFile \in exists' /\ (HeldBy(dstFile)' = Files \/ dstFile \in opened')
      BY <2>1 DEF Complete
    <3>1. ~quit /\ ~failed' /\ vanished = {}
      BY <1>1 DEF Undisturbed, fileVars
    <3>2. /\ dstFile \in exists' /\ dstFile \in DOMAIN holds'
          /\ holds'[dstFile] = Merged \/ dstFile \in opened'
      BY <1>1, <1>11, <2>1, <3>1, MergeOutcome
    <3>3. Merged = Files
      BY <1>1, <2>2, <2>3, <3>1, MergedFacts
    <3> QED
      BY <3>2, <3>3 DEF HeldBy
  <2>6. NothingLost'
    BY <2>1 DEF NothingLost
  <2> QED
    BY <1>4, <1>5, <1>6, <2>4, <2>5, <2>6 DEF MInv
<1>12. CASE target # dstFile
  <2>1. PICK q : q = Append(Rest, target)
    OBVIOUS
  <2>2. PICK n \in Nat : n = Len(inputFiles) - slice
    BY <1>7
  <2>3. /\ q # <<>> /\ Len(q) = n + 1 /\ q[n + 1] = target
        /\ \A i \in 1..n : q[i] = inputFiles[slice + i]
    <3> DEFINE A == Files \cup Temps
    <3>1. inputFiles \in Seq(A) /\ target \in A
      BY <1>3, <1>7, <1>12
    <3> HIDE DEF A
    <3>2. q = Append(SubSeq(inputFiles, slice + 1, Len(inputFiles)), target)
      BY <2>1 DEF Rest
    <3> QED
      BY ONLY <1>7, <2>2, <3>1, <3>2, RequeuedFacts
  <2>4. Pending' = q
    BY <1>1, <1>12, <2>1 DEF Pending, Rest
  <2>5. \A i \in 1..n : HeldBy(q[i])' = HeldBy(inputFiles[slice + i])
    <3> SUFFICES ASSUME NEW i \in 1..n PROVE HeldBy(q[i])' = HeldBy(inputFiles[slice + i])
      OBVIOUS
    <3>1. slice + i \in 1..Len(inputFiles) /\ q[i] = inputFiles[slice + i]
      BY <1>7, <2>2, <2>3
    <3> QED
      BY <1>1, <1>7, <1>12, <3>1 DEF HeldBy
  <2>6. \A i \in 1..Len(inputFiles) : i \in 1..slice \/ \E k \in 1..n : i = slice + k
    <3> SUFFICES ASSUME NEW i \in 1..Len(inputFiles), i \notin 1..slice
                 PROVE  i - slice \in 1..n /\ i = slice + (i - slice)
      OBVIOUS
    <3> QED
      BY <1>7, <2>2
  \* A merge that was written, and one that was not.
  <2>7. ~quit => \/ HeldBy(target)' = Merged
                 \/ /\ target \notin exists' /\ HeldBy(target)' = {}
                    /\ failed' \/ slice = 0
    BY <1>1, <1>12, MergeOutcome DEF HeldBy, MInv, ChunkOpened
  <2>8. ASSUME NEW X, X \subseteq Files \ vanished, ~quit, Covers(inputFiles, X),
               HeldBy(target)' = Merged \/ slice = 0
        PROVE  \A f \in X : \E i \in 1..(n + 1) : f \in HeldBy(q[i])'
    <3> SUFFICES ASSUME NEW f \in X PROVE \E i \in 1..(n + 1) : f \in HeldBy(q[i])'
      OBVIOUS
    <3>1. PICK k \in 1..Len(inputFiles) : f \in HeldBy(inputFiles[k])
      BY <2>8 DEF Covers
    <3>2. CASE k \in 1..slice
      <4>1. f \in HeldBy(q[n + 1])'
        BY <1>1, <1>7, <2>3, <2>8, <3>1, <3>2, MergedFacts
      <4> QED
        BY <4>1
    <3>3. CASE k \notin 1..slice
      <4>1. PICK j \in 1..n : k = slice + j
        BY <2>6, <3>3
      <4>2. f \in HeldBy(q[j])'
        BY <2>5, <3>1, <4>1
      <4> QED
        BY <4>2
    <3> QED
      BY <3>2, <3>3
  <2>9. NothingLost'
    <3> SUFFICES ASSUME ~quit, ~(\E i \in 1..(n + 1) : q[i] \in Temps \ exists')
                 PROVE  \A f \in Files \ vanished : \E i \in 1..(n + 1) : f \in HeldBy(q[i])'
      BY <1>1, <1>3, <2>3, <2>4 DEF NothingLost, Missing, Covers, fileVars
    <3>1. HeldBy(target)' = Merged
      BY <1>3, <1>12, <2>3, <2>7
    <3>2. ~Missing(inputFiles)
      <4> SUFFICES ASSUME NEW k \in 1..Len(inputFiles), inputFiles[k] \in Temps \ exists
                   PROVE  FALSE
        BY DEF Missing
      <4>1. k \notin 1..slice
        BY <1>1 DEF MInv, ChunkOpened, Firsts
      <4>2. PICK j \in 1..n : k = slice + j
        BY <2>6, <4>1
      <4>3. q[j] \in Temps \ exists'
        BY <1>1, <1>7, <1>12, <2>3, <4>2
      <4> QED
        BY <4>3
    <3>3. Covers(inputFiles, Files \ vanished)
      BY <1>1, <1>7, <1>10, <3>2 DEF MInv, NothingLost, Active
    <3> QED
      BY <2>8, <3>1, <3>3
  <2>10. Complete'
    <3> SUFFICES ASSUME Undisturbed'
                 PROVE  /\ \A f \in Files : \E i \in 1..(n + 1) : f \in HeldBy(q[i])'
                        /\ \A i, j \in 1..(n + 1) :
                             HeldBy(q[i])' \cap HeldBy(q[j])' # {} => i = j
      BY <2>3, <2>4 DEF Complete, Covers, Once
    <3>1. ~quit /\ ~failed' /\ ~failed /\ vanished = {}
      BY <1>1 DEF Undisturbed, fileVars
    <3>2. Covers(inputFiles, Files) /\ Once(inputFiles)
      BY <1>1, <1>7, <1>10, <3>1 DEF MInv, Complete, Undisturbed, Active
    <3>3. \A f \in Files : \E i \in 1..(n + 1) : f \in HeldBy(q[i])'
      BY <2>7, <2>8, <3>1, <3>2
    <3>4. \A f \in HeldBy(target)' : \E k \in 1..slice : f \in HeldBy(inputFiles[k])
      BY <1>1, <2>7, <3>1, MergedFacts
    <3>5. ASSUME NEW i \in 1..n, NEW j \in 1..n, HeldBy(q[i])' \cap HeldBy(q[j])' # {} PROVE i = j
      <4>1. slice + i \in 1..Len(inputFiles) /\ slice + j \in 1..Len(inputFiles)
        BY <1>7, <2>2
      <4>2. slice + i = slice + j
        BY <2>5, <3>2, <3>5, <4>1 DEF Once
      <4> QED
        BY <1>7, <4>2
    <3>6. ASSUME NEW i \in 1..n PROVE HeldBy(q[i])' \cap HeldBy(target)' = {}
      <4> SUFFICES ASSUME NEW f \in HeldBy(q[i])', f \in HeldBy(target)' PROVE FALSE
        OBVIOUS
      <4>1. PICK k \in 1..slice : f \in HeldBy(inputFiles[k])
        BY <3>4
      <4>2. f \in HeldBy(inputFiles[slice + i])
        BY <2>5
      <4>3. slice + i \in 1..Len(inputFiles) /\ k \in 1..Len(inputFiles)
        BY <1>7, <2>2
      <4>4. k = slice + i
        BY <3>2, <4>1, <4>2, <4>3 DEF Once
      <4> QED
        BY <1>7, <4>4
    <3>7. ASSUME NEW i \in 1..(n + 1), NEW j \in 1..(n + 1),
                 HeldBy(q[i])' \cap HeldBy(q[j])' # {}
          PROVE  i = j
      <4>1. CASE i \in 1..n /\ j \in 1..n
        BY <3>5, <3>7, <4>1
      <4>2. CASE i = n + 1 /\ j \in 1..n
        <5>1. q[i] = target
          BY <2>3, <4>2
        <5> QED
          BY <1>1, <3>6, <3>7, <4>2, <5>1 DEF HeldBy
      <4>3. CASE i \in 1..n /\ j = n + 1
        <5>1. q[j] = target
          BY <2>3, <4>3
        <5> QED
          BY <1>1, <3>6, <3>7, <4>3, <5>1 DEF HeldBy
      <4> QED
        BY <4>1, <4>2, <4>3
    <3> QED
      BY <3>3, <3>7
  <2>11. NoSilentGap'
    BY <1>1, <1>12, MergeEffect DEF NoSilentGap
  <2> QED
    BY <1>4, <1>5, <1>6, <2>9, <2>10, <2>11 DEF MInv
<1> QED
  BY <1>11, <1>12

LEMMA MRequeue == MInv /\ Requeue => MInv'
<1> SUFFICES ASSUME MInv, Requeue PROVE MInv'
  OBVIOUS
<1> USE Names
<1>d. dstFile \in Destinations /\ dstFile' = dstFile
  BY DEF MInv, Types, Requeue, fileVars
<1> USE <1>d
<1>1. /\ pc = "merged" /\ pc' = "loop"
      /\ UNCHANGED <<fileVars, sized, holds, exists, intermediates, slice, opened, target,
                     isCancelled, quit, failed, written>>
      /\ inputFiles' = IF isCancelled THEN inputFiles
                       ELSE IF target = dstFile THEN Rest ELSE Append(Rest, target)
  BY DEF Requeue
<1>2. Temps' = Temps
  BY <1>1 DEF Temps
<1>3. inputFiles' \in Seq(Files \cup Temps)
  <2>1. /\ slice \in Nat /\ slice <= Len(inputFiles) /\ inputFiles \in Seq(Files \cup Temps)
        /\ target \in {dstFile} \cup Temps
    BY <1>1 DEF MInv, Types, ChunkChosen
  <2> DEFINE A == Files \cup Temps
  <2> HIDE DEF A
  <2>2. Rest \in Seq(A)
    <3>1. SubSeq(inputFiles, slice + 1, Len(inputFiles)) \in Seq(A)
      <4>1. inputFiles \in Seq(A)
        BY <2>1 DEF A
      <4> QED
        BY ONLY <2>1, <4>1, RestFacts
    <3> QED
      BY <3>1 DEF Rest
  <2>3. target # dstFile => Append(Rest, target) \in Seq(A)
    <3>1. target # dstFile => target \in A
      BY <2>1 DEF A
    <3> QED
      BY <2>2, <3>1
  <2> QED
    BY <1>1, <2>1, <2>2, <2>3 DEF A
<1>4. Types' /\ Disk'
  BY <1>1, <1>2, <1>3 DEF MInv, Types, Disk, States, fileVars
<1>5. ChunkChosen' /\ LastChunk' /\ ChunkOpened' /\ NoSilentGap'
  <2>1. written => target = dstFile /\ slice = Len(inputFiles)
    BY <1>1 DEF MInv, LastChunk, ChunkChosen, Types
  <2>2. slice = Len(inputFiles) => Rest = <<>>
    BY <1>1, RestFacts DEF MInv, Types, Rest
  <2>3. LastChunk'
    BY <1>1, <2>1, <2>2 DEF LastChunk
  <2> QED
    BY <1>1, <2>3 DEF MInv, ChunkChosen, ChunkOpened, NoSilentGap, HeldBy, fileVars
<1>6. ~quit => Pending' = Pending
  BY <1>1 DEF Pending, MInv, Types
<1>7. NothingLost'
  BY <1>1, <1>2, <1>6 DEF MInv, NothingLost, Active, Missing, Covers, HeldBy, fileVars
<1>8. Complete'
  BY <1>1, <1>6 DEF MInv, Complete, Undisturbed, Active, Covers, Once, HeldBy, fileVars
<1> QED
  BY <1>4, <1>5, <1>7, <1>8 DEF MInv

LEMMA MFinish == MInv /\ Finish => MInv'
<1> SUFFICES ASSUME MInv, Finish PROVE MInv'
  OBVIOUS
<1> USE Names
<1>d. dstFile \in Destinations /\ dstFile' = dstFile
  BY DEF MInv, Types, Finish, fileVars
<1> USE <1>d
<1>1. /\ exists' = exists \ Temps /\ pc' = "done"
      /\ UNCHANGED <<fileVars, inputFiles, sized, holds, intermediates, slice, opened, target,
                     isCancelled, quit, failed, written>>
  BY DEF Finish
<1>2. Temps' = Temps /\ \A f \in Files : f \notin Temps
  BY <1>1 DEF Temps, MInv, Types
<1>3. Types'
  BY <1>1, <1>2 DEF MInv, Types, States, fileVars
<1>4. Disk'
  BY <1>1, <1>2 DEF MInv, Disk, fileVars
<1> QED
  BY <1>1, <1>3, <1>4
     DEF MInv, ChunkChosen, LastChunk, ChunkOpened, NothingLost, Complete, Active, NoSilentGap,
         HeldBy, fileVars

LEMMA MQuit == MInv /\ Quit => MInv'
<1> SUFFICES ASSUME MInv, Quit PROVE MInv'
  OBVIOUS
<1>d. dstFile' = dstFile
  BY DEF Quit, fileVars
<1> USE <1>d
<1>1. /\ quit' = TRUE /\ isCancelled' = TRUE /\ pc' # "done"
      /\ UNCHANGED <<fileVars, inputFiles, sized, holds, exists, intermediates, slice, opened,
                     target, pc, failed, written>>
  BY DEF Quit
<1>2. Temps' = Temps
  BY <1>1 DEF Temps
<1>3. Types'
  BY <1>1, <1>2 DEF MInv, Types, fileVars
<1>4. Disk'
  BY <1>1, <1>2 DEF MInv, Disk, fileVars
<1>5. ChunkChosen' /\ LastChunk' /\ ChunkOpened'
  BY <1>1, <1>2 DEF MInv, ChunkChosen, LastChunk, ChunkOpened, Firsts
<1> QED
  BY <1>1, <1>3, <1>4, <1>5 DEF MInv, NothingLost, Complete, Undisturbed, NoSilentGap

LEMMA MVanish == MInv /\ Vanish => MInv'
<1> SUFFICES ASSUME MInv, Vanish PROVE MInv'
  OBVIOUS
<1> USE Names
<1>d. dstFile \in Destinations /\ dstFile' = dstFile
  BY DEF MInv, Types, Vanish
<1> USE <1>d
<1>1. PICK f \in Files \cap exists : exists' = exists \ {f} /\ vanished' = vanished \cup {f}
  BY DEF Vanish
<1>2. /\ pc = "loop" /\ pc' = "loop"
      /\ UNCHANGED <<maxFilesAtOnce, dstFile, inputFiles, sized, holds, intermediates, slice, opened,
                     target, isCancelled, pc, quit, failed, written>>
  BY DEF Vanish
<1>3. Temps' = Temps /\ f \notin Temps
  BY <1>2 DEF Temps, MInv, Types
<1>4. Types'
  BY <1>1, <1>2, <1>3 DEF MInv, Types
<1>5. Disk'
  BY <1>1, <1>2, <1>3 DEF MInv, Disk
<1>6. ChunkChosen' /\ LastChunk' /\ ChunkOpened'
  BY <1>2 DEF MInv, ChunkChosen, LastChunk, ChunkOpened
<1>7. Pending' = Pending /\ Pending = inputFiles
  BY <1>2 DEF Pending
<1>8. NothingLost'
  <2>1. Missing(inputFiles) => Missing(inputFiles)'
    BY <1>1, <1>2, <1>3 DEF Missing
  <2>2. Covers(inputFiles, Files \ vanished) => Covers(inputFiles, Files \ vanished)'
    BY <1>1, <1>2 DEF Covers, HeldBy
  <2> QED
    BY <1>2, <1>7, <2>1, <2>2 DEF MInv, NothingLost, Active
<1>9. Complete'
  BY <1>1 DEF Complete, Undisturbed
<1>10. NoSilentGap'
  BY <1>1, <1>2 DEF MInv, NoSilentGap, HeldBy
<1> QED
  BY <1>4, <1>5, <1>6, <1>8, <1>9, <1>10 DEF MInv

LEMMA MStutter == MInv /\ UNCHANGED vars => MInv'
<1> SUFFICES ASSUME MInv, UNCHANGED vars PROVE MInv'
  OBVIOUS
<1> USE DEF vars, fileVars
<1>1. Types' /\ Disk'
  BY DEF MInv, Types, Disk, Temps
<1>2. ChunkChosen' /\ LastChunk' /\ ChunkOpened' /\ NoSilentGap'
  BY DEF MInv, ChunkChosen, LastChunk, ChunkOpened, Firsts, NoSilentGap, HeldBy, Temps
<1>3. Pending' = Pending
  BY DEF Pending, Rest
<1>4. NothingLost' /\ Complete'
  BY <1>3 DEF MInv, NothingLost, Complete, Undisturbed, Active, Missing, Covers, Once, HeldBy, Temps
<1> QED
  BY <1>1, <1>2, <1>4 DEF MInv

-----------------------------------------------------------------------------
\* The inductive invariant holds in every reachable state of the main loop.
THEOREM MergerInvariance == Spec => []MInv
<1>1. MInv /\ [Next]_vars => MInv'
  BY MChunk, MMergeEnds, MRequeue, MFinish, MQuit, MVanish, MStutter DEF Next, Main
<1> QED
  BY <1>1, MInit, PTL DEF Spec

\* As long as nobody quits and nothing fails, no chunk of the main loop loses an
\* input or merges one twice, whatever --max-files-at-once is and however many
\* files there are.
THEOREM InputsMergedOnce == Spec => []EveryInputOnce
<1>1. MInv => EveryInputOnce
  <2> SUFFICES ASSUME MInv, Undisturbed, pc \in {"loop", "merging"}
               PROVE  IF inputFiles = <<>>
                      THEN Files # {} => dstFile \in exists /\ (HeldBy(dstFile) = Files \/ dstFile \in opened)
                      ELSE \A f \in Files : \E i \in 1..Len(inputFiles) :
                             /\ f \in HeldBy(inputFiles[i])
                             /\ \A j \in 1..Len(inputFiles) : f \in HeldBy(inputFiles[j]) => j = i
    BY DEF EveryInputOnce
  <2>1. Pending = inputFiles
    BY DEF Pending
  <2>2. CASE inputFiles = <<>>
    BY <2>1, <2>2 DEF MInv, Complete, Active
  <2>3. CASE inputFiles # <<>>
    <3>1. Covers(inputFiles, Files) /\ Once(inputFiles)
      BY <2>1, <2>3 DEF MInv, Complete, Active
    <3> QED
      BY <2>3, <3>1 DEF Covers, Once
  <2> QED
    BY <2>2, <2>3
<1> QED
  BY <1>1, MergerInvariance, PTL

\* A merge that fails, in a chunk of any size, never leads to a destination with
\* a gap: the missing intermediate file stops the program.
THEOREM NoGapUnnoticed == Spec => []NoSilentGap
<1>1. MInv => NoSilentGap
  BY DEF MInv
<1> QED
  BY <1>1, MergerInvariance, PTL

=============================================================================
