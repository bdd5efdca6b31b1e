---------------------------- MODULE MergeProofs -----------------------------
(***************************************************************************)
(* What MergeOperation writes is sorted, loses no hash and invents none,   *)
(* for any number of sorted inputs of any length.  The invariant relates   *)
(* the record being summed up to the heads of the queued inputs.  From it  *)
(* follows that the merge implements SortedUnion.  The last part bounds    *)
(* how often a record can be counted more than once.                       *)
(***************************************************************************)
EXTENDS Merge, FiniteSetTheorems, WellFoundedInduction, TLAPS

\* Every input is a sorted suffix of its file behind its current record.
Tails ==
    /\ \A i \in Inputs : Ascending(content[i])
    /\ \A i \in Inputs :
         /\ Ascending(rest[i])
         /\ \A k \in 1..Len(rest[i]) : phc[i].hash < rest[i][k].hash
         /\ i \notin isValid => rest[i] = <<>>

\* The top is a smallest head, and nothing queued is below the current record.
Order ==
    /\ \A j \in pq : phc[top].hash <= phc[j].hash
    /\ pc = "merge" => pq # {} /\ \A j \in pq : current.hash <= phc[j].hash
    /\ pc = "start" => out = <<>> /\ pq = Inputs
    /\ pc = "done" => pq = {}
    /\ pc \in {"merge", "stopped"} => \A m \in 1..Len(out) : out[m].hash < current.hash
    /\ OutSorted

\* Only the top, and inputs that were empty from the start, are exhausted;
\* the last record of an exhausted top is the current one.
Exhausted ==
    /\ \A i \in pq \ isValid :
         content[i] # <<>> => /\ pc \in {"merge", "stopped"}
                              /\ i = top
                              /\ current.hash = phc[i].hash

\* Where the records of the inputs are.
Kept ==
    pc \in {"start", "merge", "done"} =>
      \A i \in Inputs : \A k \in 1..Len(content[i]) :
        \/ HashIn(content[i][k].hash, out)
        \/ pc = "merge" /\ content[i][k].hash = current.hash
        \/ i \in pq /\ (content[i][k].hash = phc[i].hash \/ HashIn(content[i][k].hash, rest[i]))

\* Everything that is queued, summed up or written was read.
AllGenuine ==
    /\ \A i \in Inputs : Genuine(phc[i].hash)
    /\ \A i \in Inputs : \A k \in 1..Len(rest[i]) : Genuine(rest[i][k].hash)
    /\ pc \in {"merge", "stopped"} => Genuine(current.hash)
    /\ NothingInvented

IInv == TypeOK /\ Tails /\ Order /\ Exhausted /\ Kept /\ AllGenuine

-----------------------------------------------------------------------------
\* The head of a non-empty file and what is behind it.
LEMMA HeadTail ==
    ASSUME NEW s \in Seq(Records), s # <<>>
    PROVE  /\ Head(s) \in Records /\ Tail(s) \in Seq(Records)
           /\ Head(s) = s[1] /\ Len(s) \in Nat /\ Len(s) > 0
           /\ Len(Tail(s)) = Len(s) - 1
           /\ \A k \in 1..Len(Tail(s)) : Tail(s)[k] = s[k + 1]
  OBVIOUS

\* A file that continues an ascending one behind all of its records ascends.
LEMMA AppendAscends ==
    ASSUME NEW s \in Seq(Records), NEW r \in Records, Ascending(s),
           \A m \in 1..Len(s) : s[m].hash < r.hash
    PROVE  /\ Ascending(Append(s, r))
           /\ \A m \in 1..Len(Append(s, r)) : \/ m \in 1..Len(s) /\ Append(s, r)[m] = s[m]
                                              \/ Append(s, r)[m] = r
           /\ HashIn(r.hash, Append(s, r))
           /\ \A h : HashIn(h, s) => HashIn(h, Append(s, r))
  <1> DEFINE t == Append(s, r)
  <1>1. Len(t) = Len(s) + 1 /\ t[Len(s) + 1] = r /\ \A m \in 1..Len(s) : t[m] = s[m]
    OBVIOUS
  <1>2. Len(s) \in Nat /\ r.hash \in Nat /\ \A m \in 1..Len(s) : s[m].hash \in Nat
    <2>1. Len(s) \in Nat /\ \A m \in 1..Len(s) : s[m] \in Records
      OBVIOUS
    <2> QED BY <2>1 DEF Records
  <1> HIDE DEF t
  <1>3. Ascending(t)
    <2> SUFFICES ASSUME NEW i \in 1..Len(t), NEW j \in 1..Len(t), i < j
                 PROVE  t[i].hash < t[j].hash
      BY DEF Ascending
    <2>1. i \in 1..Len(s)
      BY <1>1, <1>2
    <2>2. CASE j \in 1..Len(s)
      BY <2>1, <2>2, <1>1 DEF Ascending
    <2>3. CASE j \notin 1..Len(s)
      <3>1. j = Len(s) + 1
        BY <2>3, <1>1, <1>2
      <3> QED BY <2>1, <3>1, <1>1
    <2> QED BY <2>2, <2>3
  <1>4. \A m \in 1..Len(t) : (m \in 1..Len(s) /\ t[m] = s[m]) \/ t[m] = r
    BY <1>1, <1>2
  <1>5. HashIn(r.hash, t) /\ \A h : HashIn(h, s) => HashIn(h, t)
    BY <1>1, <1>2 DEF HashIn
  <1> QED BY <1>3, <1>4, <1>5 DEF t

LEMMA InitIInv == Init => IInv
  <1> SUFFICES ASSUME Init PROVE IInv
    OBVIOUS
  <1> USE MergeAssumption
  <1>c. content \in [Inputs -> Seq(Records)] /\ \A i \in Inputs : Ascending(content[i])
    BY DEF Init
  <1>n. NoRecord \in Records
    BY DEF NoRecord, Records
  <1>1. ASSUME NEW i \in Inputs, content[i] # <<>>
        PROVE  /\ phc[i] = content[i][1] /\ phc[i] \in Records
               /\ rest[i] \in Seq(Records) /\ Len(content[i]) \in Nat /\ Len(content[i]) > 0
               /\ Len(rest[i]) = Len(content[i]) - 1
               /\ \A k \in 1..Len(rest[i]) : rest[i][k] = content[i][k + 1]
    <2>1. phc[i] = Head(content[i]) /\ rest[i] = Tail(content[i])
      BY <1>1 DEF Init
    <2> QED BY <2>1, <1>1, <1>c, HeadTail
  <1>2. ASSUME NEW i \in Inputs, content[i] = <<>>
        PROVE  phc[i] = NoRecord /\ rest[i] = <<>> /\ i \notin isValid
    BY <1>2 DEF Init
  <1>3. TypeOK
    <2>1. phc \in [Inputs -> Records] /\ rest \in [Inputs -> Seq(Records)]
      BY <1>1, <1>2, <1>n DEF Init
    <2>2. pq # {} => top \in pq
      BY DEF Init, Tops
    <2>3. out \in Seq(Records) /\ isValid \subseteq Inputs /\ pq \subseteq Inputs
      BY DEF Init
    <2>4. current \in Records /\ pc = "start" /\ isCancelled = FALSE
      BY <1>n DEF Init
    <2> QED BY <2>1, <2>2, <2>3, <2>4, <1>c DEF TypeOK
  <1>4. Tails
    <2>1. ASSUME NEW i \in Inputs, content[i] # <<>>
          PROVE  Ascending(rest[i]) /\ \A k \in 1..Len(rest[i]) : phc[i].hash < rest[i][k].hash
      <3> DEFINE c == content[i]  t == rest[i]
      <3>1. /\ phc[i] = c[1] /\ Len(c) \in Nat /\ Len(c) > 0 /\ Len(t) = Len(c) - 1
            /\ \A k \in 1..Len(t) : t[k] = c[k + 1]
            /\ \A a, b \in 1..Len(c) : a < b => c[a].hash < c[b].hash
        BY <2>1, <1>1, <1>c DEF Ascending
      <3> HIDE DEF c, t
      <3>2. \A a, b \in 1..Len(t) : a < b => t[a].hash < t[b].hash
        <4> TAKE a, b \in 1..Len(t)
        <4>1. a + 1 \in 1..Len(c) /\ b + 1 \in 1..Len(c)
          BY <3>1
        <4> QED BY <3>1, <4>1
      <3>3. \A k \in 1..Len(t) : phc[i].hash < t[k].hash
        <4> TAKE k \in 1..Len(t)
        <4>1. k + 1 \in 1..Len(c) /\ 1 \in 1..Len(c) /\ 1 < k + 1
          BY <3>1
        <4> QED BY <3>1, <4>1
      <3> QED BY <3>2, <3>3 DEF t, Ascending
    <2>2. ASSUME NEW i \in Inputs, i \notin isValid PROVE rest[i] = <<>>
      BY <2>2 DEF Init
    <2> QED BY <2>1, <2>2, <1>2, <1>c DEF Tails, Ascending
  <1>5. Order
    <2>1. pc = "start" /\ out = <<>> /\ pq = Inputs
      BY DEF Init
    <2>2. \A j \in pq : phc[top].hash <= phc[j].hash
      BY DEF Init, Tops
    <2>3. OutSorted
      BY <2>1 DEF OutSorted, Ascending
    <2> QED BY <2>1, <2>2, <2>3 DEF Order
  <1>6. Exhausted
    BY DEF Exhausted, Init
  <1>7. Kept
    <2> SUFFICES ASSUME NEW i \in Inputs, NEW k \in 1..Len(content[i])
                 PROVE  content[i][k].hash = phc[i].hash \/ HashIn(content[i][k].hash, rest[i])
      BY DEF Kept, Init
    <2>1. content[i] # <<>>
      OBVIOUS
    <2>2. CASE k = 1
      BY <1>1, <2>1, <2>2
    <2>3. CASE k # 1
      <3>1. k - 1 \in 1..Len(rest[i]) /\ rest[i][k - 1] = content[i][k]
        BY <1>1, <2>1, <2>3
      <3> QED BY <3>1 DEF HashIn
    <2> QED BY <2>2, <2>3
  <1>8. AllGenuine
    <2>1. ASSUME NEW i \in Inputs
          PROVE  Genuine(phc[i].hash) /\ \A k \in 1..Len(rest[i]) : Genuine(rest[i][k].hash)
      <3>1. CASE content[i] = <<>>
        BY <3>1, <1>2 DEF Genuine, NoRecord
      <3>2. CASE content[i] # <<>>
        <4>1. HashIn(phc[i].hash, content[i])
          BY <3>2, <1>1 DEF HashIn
        <4>2. \A k \in 1..Len(rest[i]) : HashIn(rest[i][k].hash, content[i])
          <5> TAKE k \in 1..Len(rest[i])
          <5>1. k + 1 \in 1..Len(content[i])
            BY <3>2, <1>1
          <5> QED BY <5>1, <3>2, <1>1 DEF HashIn
        <4> QED BY <4>1, <4>2 DEF Genuine
      <3> QED BY <3>1, <3>2
    <2>2. pc = "start" /\ NothingInvented
      <3>1. pc = "start" /\ out = <<>>
        BY DEF Init
      <3> QED BY <3>1 DEF NothingInvented
    <2> QED BY <2>1, <2>2 DEF AllGenuine
  <1> QED BY <1>3, <1>4, <1>5, <1>6, <1>7, <1>8 DEF IInv

-----------------------------------------------------------------------------
\* The steps that leave the inputs, the queue and the output alone.
LEMMA StillIInv ==
    ASSUME IInv, UNCHANGED <<inputVars, pq, top, out>>, isCancelled' \in BOOLEAN,
           \/ UNCHANGED <<current, pc>>
           \/ pc = "start" /\ pc' \in {"returned", "threw"} /\ UNCHANGED current
           \/ pc = "start" /\ pc' = "merge" /\ pq # {} /\ current' = phc[top]
           \/ pc = "merge" /\ pc' = "stopped" /\ UNCHANGED current
    PROVE  IInv'
  <1>1. UNCHANGED <<content, phc, rest, isValid, pq, top, out>>
    BY DEF inputVars
  <1>0. pq # {} => top \in Inputs /\ phc[top] \in Records
    BY DEF IInv, TypeOK
  <1>2. TypeOK'
    <2>1. current' \in Records
      BY <1>0 DEF IInv, TypeOK
    <2>2. pc' \in {"start", "merge", "returned", "threw", "done", "stopped"}
      BY DEF IInv, TypeOK
    <2> QED BY <1>1, <2>1, <2>2 DEF IInv, TypeOK
  <1>3. Tails'
    BY <1>1 DEF IInv, Tails, Ascending
  <1>4. Order'
    <2>1. OutSorted' /\ \A j \in pq' : phc'[top'].hash <= phc'[j].hash
      BY <1>1 DEF IInv, Order, OutSorted, Ascending
    <2>2. CASE pc = "start" /\ pc' = "merge" /\ pq # {} /\ current' = phc[top]
      <3>1. out' = <<>>
        BY <1>1, <2>2 DEF IInv, Order
      <3> QED BY <1>1, <2>1, <2>2, <3>1 DEF Order
    <2>3. CASE UNCHANGED <<current, pc>>
      BY <1>1, <2>1, <2>3 DEF IInv, Order
    <2>4. CASE pc' \in {"returned", "threw"}
      BY <2>1, <2>4 DEF Order
    <2>5. CASE pc = "merge" /\ pc' = "stopped" /\ UNCHANGED current
      BY <1>1, <2>1, <2>5 DEF IInv, Order
    <2> QED BY <2>2, <2>3, <2>4, <2>5
  <1>5. Exhausted'
    BY <1>1 DEF IInv, Exhausted
  <1>6. Kept'
    BY <1>1 DEF IInv, Kept, HashIn
  <1>7. AllGenuine'
    <2>1. \A h : Genuine(h) <=> Genuine(h)'
      BY <1>1 DEF Genuine, HashIn
    <2>2. pc' \in {"merge", "stopped"} => Genuine(current'.hash)
      BY <1>0 DEF IInv, AllGenuine
    <2> QED BY <1>1, <2>1, <2>2 DEF IInv, AllGenuine, NothingInvented
  <1> QED BY <1>2, <1>3, <1>4, <1>5, <1>6, <1>7 DEF IInv

\* What a turn does to the inputs: the top's record is consumed.
LEMMA TurnInputs ==
    ASSUME IInv, Turn
    PROVE  /\ top \in pq /\ pq' \subseteq pq /\ pq \ pq' \subseteq {top}
           /\ content' = content /\ phc' \in [Inputs -> Records]
           /\ rest' \in [Inputs -> Seq(Records)] /\ isValid' \subseteq isValid
           /\ pq' # {} => top' \in Tops(pq', phc')
           /\ Tails'
           /\ \A i \in Inputs : phc[i].hash <= phc'[i].hash
           /\ \A i \in Inputs : phc'[i] = phc[i] \/ HashIn(phc'[i].hash, rest[i])
           /\ \A i \in Inputs : \A k \in 1..Len(rest'[i]) : HashIn(rest'[i][k].hash, rest[i])
           /\ \A i \in Inputs : \A h : HashIn(h, rest[i]) =>
                i \in pq' \/ i \notin pq
           /\ \A i \in Inputs : \A h : HashIn(h, rest[i]) =>
                h = phc'[i].hash \/ HashIn(h, rest'[i])
           /\ \A i \in Inputs : phc'[i] # phc[i] => i = top
           /\ \A i \in pq' \ isValid' : content[i] # <<>> => i = top' /\ i = top /\ phc' = phc
  <1> USE DEF Tails
  <1>1. top \in pq /\ top \in Inputs
    BY DEF Turn, IInv, TypeOK, Order
  <1>2. CASE NextValid /\ rest[top] # <<>>
    <2> DEFINE s == rest[top]
    <2>1. /\ s \in Seq(Records) /\ s # <<>> /\ Ascending(s)
          /\ \A k \in 1..Len(s) : phc[top].hash < s[k].hash
      BY <1>1, <1>2 DEF IInv, TypeOK
    <2>2. /\ phc' = [phc EXCEPT ![top] = Head(s)] /\ rest' = [rest EXCEPT ![top] = Tail(s)]
          /\ isValid' = isValid /\ top' \in Tops(pq, phc') /\ content' = content /\ pq' = pq
          /\ top \in isValid
      BY <1>2 DEF NextValid
    <2>3. /\ Head(s) \in Records /\ Tail(s) \in Seq(Records)
          /\ Head(s) = s[1] /\ Len(s) \in Nat /\ Len(s) > 0
          /\ Len(Tail(s)) = Len(s) - 1
          /\ \A k \in 1..Len(Tail(s)) : Tail(s)[k] = s[k + 1]
      <3> HIDE DEF s
      <3> QED BY <2>1, HeadTail
    <2>4. /\ phc' \in [Inputs -> Records] /\ rest' \in [Inputs -> Seq(Records)]
          /\ phc'[top] = Head(s) /\ rest'[top] = Tail(s)
          /\ \A i \in Inputs \ {top} : phc'[i] = phc[i] /\ rest'[i] = rest[i]
      BY <1>1, <2>2, <2>3 DEF IInv, TypeOK
    <2> DEFINE t == Tail(s)
    <2>5. /\ Head(s).hash = s[1].hash /\ phc[top].hash < Head(s).hash /\ phc[top].hash \in Nat
          /\ Head(s).hash \in Nat
      BY <1>1, <2>1, <2>3 DEF IInv, TypeOK, Records
    <2> HIDE DEF s, t
    <2>6. Ascending(t) /\ \A k \in 1..Len(t) : Head(s).hash < t[k].hash
      <3>1. \A a, b \in 1..Len(t) : a < b => t[a].hash < t[b].hash
        <4> TAKE a, b \in 1..Len(t)
        <4>1. a + 1 \in 1..Len(s) /\ b + 1 \in 1..Len(s)
          BY <2>3 DEF t
        <4> QED BY <2>1, <2>3, <4>1 DEF Ascending, t
      <3>2. \A k \in 1..Len(t) : s[1].hash < t[k].hash
        <4> TAKE k \in 1..Len(t)
        <4>1. k + 1 \in 1..Len(s) /\ 1 \in 1..Len(s) /\ 1 < k + 1
          BY <2>3 DEF t
        <4> QED BY <2>1, <2>3, <4>1 DEF Ascending, t
      <3> QED BY <3>1, <3>2, <2>3 DEF Ascending
    <2>7. /\ \A k \in 1..Len(t) : HashIn(t[k].hash, s)
          /\ HashIn(Head(s).hash, s)
      <3>1. \A k \in 1..Len(t) : k + 1 \in 1..Len(s) /\ t[k] = s[k + 1]
        BY <2>3 DEF t
      <3>2. 1 \in 1..Len(s)
        BY <2>3
      <3> QED BY <3>1, <3>2, <2>3 DEF HashIn
    <2>8. \A h : HashIn(h, s) => h = Head(s).hash \/ HashIn(h, t)
      <3> SUFFICES ASSUME NEW h, NEW k \in 1..Len(s), s[k].hash = h, k # 1
                   PROVE  HashIn(h, t)
        BY <2>3 DEF HashIn
      <3>1. k - 1 \in 1..Len(t) /\ t[k - 1] = s[k]
        BY <2>3 DEF t
      <3> QED BY <3>1 DEF HashIn
    <2>9. Tails'
      <3> SUFFICES ASSUME NEW i \in Inputs
                   PROVE  /\ Ascending(content[i]) /\ Ascending(rest'[i])
                          /\ \A k \in 1..Len(rest'[i]) : phc'[i].hash < rest'[i][k].hash
                          /\ i \notin isValid => rest'[i] = <<>>
        BY <2>2 DEF Ascending
      <3>1. CASE i = top
        BY <3>1, <2>2, <2>4, <2>6 DEF IInv, t
      <3>2. CASE i # top
        BY <3>2, <2>2, <2>4 DEF IInv
      <3> QED BY <3>1, <3>2
    <2>10. \A i \in pq' \ isValid' : content[i] = <<>>
      BY <2>2 DEF IInv, Exhausted
    <2>11. \A i \in Inputs : phc[i].hash <= phc'[i].hash
      <3> TAKE i \in Inputs
      <3>1. CASE i = top
        BY <3>1, <2>4, <2>5
      <3>2. CASE i # top
        BY <3>2, <2>4 DEF IInv, TypeOK, Records
      <3> QED BY <3>1, <3>2
    <2>12. /\ \A i \in Inputs : phc'[i] = phc[i] \/ HashIn(phc'[i].hash, rest[i])
           /\ \A i \in Inputs : phc'[i] # phc[i] => i = top
      BY <2>4, <2>7 DEF s
    <2>13. \A i \in Inputs : \A k \in 1..Len(rest'[i]) : HashIn(rest'[i][k].hash, rest[i])
      <3> TAKE i \in Inputs
      <3>1. CASE i = top
        BY <3>1, <2>4, <2>7 DEF s, t
      <3>2. CASE i # top
        BY <3>2, <2>4 DEF HashIn
      <3> QED BY <3>1, <3>2
    <2>14. \A i \in Inputs : \A h : HashIn(h, rest[i]) => h = phc'[i].hash \/ HashIn(h, rest'[i])
      BY <2>4, <2>8 DEF s, t
    <2> QED BY <1>1, <2>2, <2>4, <2>9, <2>10, <2>11, <2>12, <2>13, <2>14
  <1>3. CASE NextValid /\ rest[top] = <<>>
    <2>1. /\ isValid' = isValid \ {top} /\ phc' = phc /\ rest' = rest /\ top' = top
          /\ content' = content /\ pq' = pq /\ top \in isValid
      BY <1>3 DEF NextValid
    <2>2. top' \in Tops(pq', phc')
      BY <1>1, <2>1 DEF IInv, Order, Tops
    <2>3. Tails'
      BY <2>1, <1>3 DEF IInv, Ascending
    <2>4. \A i \in pq' \ isValid' : content[i] # <<>> => i = top
      BY <2>1 DEF IInv, Exhausted
    <2>5. \A i \in Inputs : phc[i].hash <= phc'[i].hash
      BY <2>1 DEF IInv, TypeOK, Records
    <2>6. \A i \in Inputs : \A k \in 1..Len(rest'[i]) : HashIn(rest'[i][k].hash, rest[i])
      BY <2>1 DEF HashIn
    <2> QED BY <1>1, <2>1, <2>2, <2>3, <2>4, <2>5, <2>6 DEF IInv, TypeOK
  <1>4. CASE NextExhausted
    <2>1. /\ isValid' = isValid /\ phc' = phc /\ rest' = rest /\ content' = content
          /\ pq' = pq \ {top} /\ top \notin isValid
          /\ pq' # {} => top' \in Tops(pq', phc')
      BY <1>4 DEF NextExhausted, Popped, inputVars
    <2>2. rest[top] = <<>>
      BY <1>1, <2>1 DEF IInv
    <2>3. Tails'
      BY <2>1 DEF IInv, Ascending
    <2>4. \A i \in pq' \ isValid' : content[i] = <<>>
      BY <2>1 DEF IInv, Exhausted
    <2>5. \A i \in Inputs : phc[i].hash <= phc'[i].hash
      BY <2>1 DEF IInv, TypeOK, Records
    <2>6. \A i \in Inputs : \A k \in 1..Len(rest'[i]) : HashIn(rest'[i][k].hash, rest[i])
      BY <2>1 DEF HashIn
    <2>7. \A i \in Inputs : \A h : HashIn(h, rest[i]) => i \in pq' \/ i \notin pq
      BY <2>1, <2>2 DEF HashIn
    <2> QED BY <1>1, <2>1, <2>3, <2>4, <2>5, <2>6, <2>7 DEF IInv, TypeOK
  <1> QED BY <1>2, <1>3, <1>4 DEF Turn

\* What a turn does to the record being summed up and to the output.
LEMMA TurnOutput ==
    ASSUME IInv, Turn
    PROVE  /\ current' \in Records /\ pc' \in {"merge", "done"} /\ pc = "merge"
           /\ pc' = "merge" => pq' # {} /\ current'.hash = phc[top].hash
           /\ pc' = "done" => pq' = {} /\ out' = Append(out, current)
           /\ \/ out' = out /\ pc' = "merge" /\ current'.hash = current.hash
              \/ /\ out' = Append(out, current)
                 /\ pc' = "merge" => current.hash < current'.hash
  <1>1. top \in pq /\ top \in Inputs /\ phc[top] \in Records /\ current \in Records
    BY DEF Turn, IInv, TypeOK, Order
  <1>2. current.hash <= phc[top].hash /\ current.hash \in Nat /\ phc[top].hash \in Nat
    BY <1>1 DEF Turn, IInv, Order, Records
  <1>3. \A a, b \in Nat : AddCount(a, b) \in Nat
    BY MergeAssumption DEF AddCount
  <1>4. CASE /\ pq' # {} /\ current.hash = phc[top].hash
             /\ current' = [current EXCEPT !.count = AddCount(@, phc[top].count)]
             /\ UNCHANGED <<out, pc>>
    <2>1. current' \in Records /\ current'.hash = current.hash
      BY <1>1, <1>3, <1>4 DEF Records
    <2> QED BY <2>1, <1>4 DEF Turn
  <1>5. CASE /\ pq' # {} /\ current.hash # phc[top].hash
             /\ out' = Append(out, current) /\ current' = phc[top] /\ UNCHANGED pc
    BY <1>1, <1>2, <1>5 DEF Turn
  <1>6. CASE pq' = {} /\ out' = LastWritten /\ pc' = "done" /\ UNCHANGED current
    BY <1>1, <1>6 DEF Turn, LastWritten
  <1> QED BY <1>4, <1>5, <1>6 DEF Turn, Peek

LEMMA TurnIInv == IInv /\ Turn => IInv'
  <1> SUFFICES ASSUME IInv, Turn PROVE IInv'
    OBVIOUS
  <1> USE TurnInputs, TurnOutput
  <1>1. /\ out \in Seq(Records) /\ current \in Records /\ Ascending(out)
        /\ \A m \in 1..Len(out) : out[m].hash < current.hash
    BY DEF IInv, TypeOK, Order, OutSorted
  <1>2. /\ Ascending(Append(out, current))
        /\ \A m \in 1..Len(Append(out, current)) :
             \/ m \in 1..Len(out) /\ Append(out, current)[m] = out[m]
             \/ Append(out, current)[m] = current
        /\ HashIn(current.hash, Append(out, current))
        /\ \A h : HashIn(h, out) => HashIn(h, Append(out, current))
    <2> QED BY ONLY <1>1, AppendAscends
  <1>3. TypeOK'
    <2>1. out' \in Seq(Records)
      BY <1>1, SMTT(30)
    <2>2. pq' # {} => top' \in pq'
      BY DEF Tops
    <2>3. isCancelled' = isCancelled
      BY DEF Turn
    <2> QED BY <2>1, <2>2, <2>3 DEF IInv, TypeOK
  <1>4. Order'
    <2>1. OutSorted'
      BY <1>1, <1>2 DEF OutSorted
    <2>2. \A j \in pq' : phc'[top'].hash <= phc'[j].hash
      BY DEF Tops
    <2>3. pc' = "merge" => \A j \in pq' : current'.hash <= phc'[j].hash
      <3> SUFFICES ASSUME pc' = "merge", NEW j \in pq' PROVE phc[top].hash <= phc'[j].hash
        OBVIOUS
      <3>1. j \in pq /\ j \in Inputs /\ top \in Inputs
        BY DEF IInv, TypeOK
      <3>2. phc[top].hash <= phc[j].hash /\ phc[j].hash <= phc'[j].hash
        BY <3>1 DEF IInv, Order
      <3>3. phc[top].hash \in Nat /\ phc[j].hash \in Nat /\ phc'[j].hash \in Nat
        BY <3>1 DEF IInv, TypeOK, Records
      <3> QED BY <3>2, <3>3
    <2>4. pc' = "merge" => \A m \in 1..Len(out') : out'[m].hash < current'.hash
      <3> SUFFICES ASSUME pc' = "merge", NEW m \in 1..Len(out') PROVE out'[m].hash < current'.hash
        OBVIOUS
      <3>1. CASE out' = out
        BY <3>1, <1>1, <1>2
      <3>2. CASE out' = Append(out, current) /\ current.hash < current'.hash
        <4>1. current.hash \in Nat /\ current'.hash \in Nat
          BY <1>1 DEF Records
        <4>2. CASE out'[m] = current
          BY <4>2, <3>2
        <4>3. CASE m \in 1..Len(out) /\ out'[m] = out[m]
          <5>1. out[m].hash \in Nat
            <6>1. out[m] \in Records
              BY <4>3, <1>1
            <6> QED BY <6>1 DEF Records
          <5> QED BY <5>1, <4>1, <4>3, <3>2, <1>1
        <4> QED BY <4>2, <4>3, <3>2, <1>2
      <3> QED BY <3>1, <3>2
    <2> QED BY <2>1, <2>2, <2>3, <2>4 DEF Order
  <1>5. Exhausted'
    BY DEF Exhausted
  <1>6. Kept'
    <2> SUFFICES ASSUME NEW i \in Inputs, NEW k \in 1..Len(content[i]), NEW h,
                        h = content[i][k].hash
                 PROVE  \/ HashIn(h, out')
                        \/ pc' = "merge" /\ h = current'.hash
                        \/ i \in pq' /\ (h = phc'[i].hash \/ HashIn(h, rest'[i]))
      BY DEF Kept
    <2>1. content[i] # <<>>
      OBVIOUS
    <2>2. CASE HashIn(h, out)
      BY <2>2, <1>2
    <2>3. CASE h = current.hash
      <3>1. CASE out' = Append(out, current)
        BY <2>3, <3>1, <1>2
      <3> QED BY <2>3, <3>1
    <2>4. CASE i \in pq /\ HashIn(h, rest[i])
      BY <2>4
    <2>5. CASE i \in pq /\ h = phc[i].hash
      <3>1. CASE i \in pq' /\ phc'[i] = phc[i]
        BY <2>5, <3>1
      <3>2. CASE i = top /\ pc' = "merge"
        BY <2>5, <3>2
      <3>3. CASE i = top /\ pc' = "done"
        <4>1. top \notin isValid
          <5>1. pq' # pq
            BY <3>3
          <5> QED BY <5>1 DEF Turn, NextValid, NextExhausted
        <4>2. h = current.hash
          BY <2>1, <2>5, <3>3, <4>1 DEF IInv, Exhausted
        <4> QED BY <4>2, <2>3
      <3> QED BY <3>1, <3>2, <3>3, <2>5
    <2> QED BY <2>2, <2>3, <2>4, <2>5 DEF IInv, Kept
  <1>7. AllGenuine'
    <2>1. \A h : Genuine(h)' <=> Genuine(h)
      BY DEF Genuine, HashIn
    <2>2. ASSUME NEW i \in Inputs, NEW h, HashIn(h, rest[i]) PROVE Genuine(h)
      BY <2>2 DEF IInv, AllGenuine, HashIn
    <2>3. \A i \in Inputs : Genuine(phc'[i].hash)
      BY <2>2 DEF IInv, AllGenuine
    <2>4. \A i \in Inputs : \A k \in 1..Len(rest'[i]) : Genuine(rest'[i][k].hash)
      BY <2>2
    <2>5. pc' = "merge" => Genuine(current'.hash)
      BY DEF IInv, AllGenuine, TypeOK
    <2>6. \A m \in 1..Len(out') : Genuine(out'[m].hash)
      BY <1>2 DEF IInv, AllGenuine, NothingInvented
    <2> QED BY <2>1, <2>3, <2>4, <2>5, <2>6 DEF AllGenuine, NothingInvented
  <1> QED BY <1>3, <1>4, <1>5, <1>6, <1>7 DEF IInv

\* The invariant holds in every state of every merge.
THEOREM Invariance == Spec => []IInv
  <1>1. IInv /\ [Next]_vars => IInv'
    <2> SUFFICES ASSUME IInv, [Next]_vars PROVE IInv'
      OBVIOUS
    <2>1. CASE Start
      <3>1. UNCHANGED <<inputVars, pq, top, out, isCancelled>>
        BY <2>1 DEF Start
      <3>2. isCancelled' \in BOOLEAN
        BY <3>1 DEF IInv, TypeOK
      <3>3. \/ pc = "start" /\ pc' \in {"returned", "threw"} /\ UNCHANGED current
            \/ pc = "start" /\ pc' = "merge" /\ pq # {} /\ current' = phc[top]
        BY <2>1 DEF Start
      <3> QED BY <3>1, <3>2, <3>3, StillIInv
    <2>2. CASE Turn
      BY <2>2, TurnIInv
    <2>3. CASE Stop
      <3>1. isCancelled' \in BOOLEAN
        BY <2>3 DEF Stop, IInv, TypeOK
      <3> QED BY <2>3, <3>1, StillIInv DEF Stop
    <2>4. CASE Cancel
      BY <2>4, StillIInv DEF Cancel
    <2>5. CASE UNCHANGED vars
      <3>1. isCancelled' \in BOOLEAN
        BY <2>5 DEF vars, IInv, TypeOK
      <3> QED BY <2>5, <3>1, StillIInv DEF vars
    <2> QED BY <2>1, <2>2, <2>3, <2>4, <2>5 DEF Next
  <1> QED BY <1>1, InitIInv, PTL DEF Spec

\* What is written is strictly ascending (mergeoperation.cpp's dump() calls),
\* for any number of inputs and any files, cancelled or not.
THEOREM Sorted == Spec => []OutSorted
  <1>1. IInv => OutSorted
    BY DEF IInv, Order
  <1> QED BY <1>1, Invariance, PTL

\* A merge that ends by itself has written every hash of every input.
THEOREM Lossless == Spec => []NothingLost
  <1>1. IInv => NothingLost
    BY DEF IInv, Kept, NothingLost, Order
  <1> QED BY <1>1, Invariance, PTL

\* Every hash written was read from an input, or is 0 because one was empty.
THEOREM NoInvention == Spec => []NothingInvented
  <1>1. IInv => NothingInvented
    BY DEF IInv, AllGenuine
  <1> QED BY <1>1, Invariance, PTL

-----------------------------------------------------------------------------
(* MergeOperation implements the sorted union of its inputs.  Beyond the    *)
(* invariant this needs to know where the hash 0 is that an empty input     *)
(* stands for.                                                              *)

\* The 0 of an empty input is written, summed up or queued.
ZeroKept ==
    pc \in {"start", "merge", "done"} =>
      \A i \in Inputs : content[i] = <<>> =>
        \/ HashIn(0, out)
        \/ pc = "merge" /\ current.hash = 0
        \/ i \in pq /\ phc[i].hash = 0

LEMMA ZeroKeptInit == Init => ZeroKept
  BY DEF Init, ZeroKept, NoRecord

LEMMA ZeroKeptNext == IInv /\ ZeroKept /\ [Next]_vars => ZeroKept'
  <1> SUFFICES ASSUME IInv, ZeroKept, [Next]_vars PROVE ZeroKept'
    OBVIOUS
  <1>1. CASE Turn
    <2> USE <1>1, TurnInputs, TurnOutput
    <2> SUFFICES ASSUME NEW i \in Inputs, content[i] = <<>>
                 PROVE  \/ HashIn(0, out')
                        \/ pc' = "merge" /\ current'.hash = 0
                        \/ i \in pq' /\ phc'[i].hash = 0
      BY DEF ZeroKept
    <2>1. /\ out \in Seq(Records) /\ current \in Records /\ Ascending(out)
          /\ \A m \in 1..Len(out) : out[m].hash < current.hash
      BY DEF IInv, TypeOK, Order, OutSorted
    <2>2. /\ HashIn(current.hash, Append(out, current))
          /\ \A h : HashIn(h, out) => HashIn(h, Append(out, current))
      BY ONLY <2>1, AppendAscends
    <2>3. CASE HashIn(0, out)
      BY <2>2, <2>3
    <2>4. CASE current.hash = 0
      BY <2>2, <2>4
    <2>5. CASE i \in pq /\ phc[i].hash = 0
      <3>1. CASE i = top /\ pc' = "merge"
        BY <2>5, <3>1
      <3>2. CASE i = top /\ pc' = "done"
        <4>1. current.hash <= phc[top].hash /\ current.hash \in Nat
          BY <2>1 DEF IInv, Order, Records
        <4> QED BY <4>1, <3>2, <2>4, <2>5
      <3>3. CASE i # top
        BY <2>5, <3>3
      <3> QED BY <3>1, <3>2, <3>3
    <2> QED BY <2>3, <2>4, <2>5 DEF ZeroKept
  <1>2. CASE UNCHANGED <<inputVars, pq, top, out>> /\ ~Turn
    <2>1. \/ UNCHANGED <<current, pc>>
          \/ pc' \in {"returned", "threw", "stopped"}
          \/ pc = "start" /\ pc' = "merge"
      BY <1>2 DEF Next, Start, Stop, Cancel, vars
    <2> QED BY <1>2, <2>1 DEF ZeroKept, inputVars, HashIn, IInv, Order
  <1> QED BY <1>1, <1>2 DEF Next, Start, Stop, Cancel, vars

-----------------------------------------------------------------------------
\* The sources are the genuine hashes.
LEMMA SourcesGenuine ==
    ASSUME NEW h PROVE h \in Sources <=> Genuine(h)
  <1> DEFINE a == UNION {{content[i][k].hash : k \in 1..Len(content[i])} : i \in Inputs}
             b == {0 : i \in {j \in Inputs : content[j] = <<>>}}
  <1>1. h \in a <=> \E i \in Inputs : HashIn(h, content[i])
    <2>1. h \in a <=> \E i \in Inputs : h \in {content[i][k].hash : k \in 1..Len(content[i])}
      OBVIOUS
    <2>2. ASSUME NEW i \in Inputs
          PROVE  h \in {content[i][k].hash : k \in 1..Len(content[i])} <=> HashIn(h, content[i])
      BY DEF HashIn
    <2> HIDE DEF a
    <2> QED BY <2>1, <2>2
  <1>2. h \in b <=> h = 0 /\ \E i \in Inputs : content[i] = <<>>
    OBVIOUS
  <1> HIDE DEF a, b
  <1>3. h \in a \cup b <=> Genuine(h)
    BY <1>1, <1>2 DEF Genuine
  <1> QED BY <1>3 DEF Sources, a, b

\* The hashes of a file are a sequence of numbers, and grow with it.
LEMMA HashesGrow ==
    ASSUME NEW s \in Seq(Records)
    PROVE  /\ HashesOf(s) \in Seq(Nat)
           /\ \A h : h \in Union!In(HashesOf(s)) <=> HashIn(h, s)
           /\ \A r \in Records : HashesOf(Append(s, r)) = Append(HashesOf(s), r.hash)
  <1>1. \A m \in 1..Len(s) : s[m].hash \in Nat
    <2>1. \A m \in 1..Len(s) : s[m] \in Records
      OBVIOUS
    <2> QED BY <2>1 DEF Records
  <1>2. HashesOf(s) \in Seq(Nat) /\ Len(HashesOf(s)) = Len(s)
    BY <1>1 DEF HashesOf
  <1>3. \A m \in 1..Len(s) : HashesOf(s)[m] = s[m].hash
    BY DEF HashesOf
  <1>4. \A h : h \in Union!In(HashesOf(s)) <=> HashIn(h, s)
    BY <1>2, <1>3 DEF Union!In, HashIn
  <1>5. ASSUME NEW r \in Records
        PROVE  HashesOf(Append(s, r)) = Append(HashesOf(s), r.hash)
    <2> DEFINE a == HashesOf(Append(s, r))  b == Append(HashesOf(s), r.hash)
    <2>1. Append(s, r) \in Seq(Records) /\ Len(Append(s, r)) = Len(s) + 1 /\ Len(s) \in Nat
      OBVIOUS
    <2>2. r.hash \in Nat
      BY DEF Records
    <2>3. a = [m \in 1..(Len(s) + 1) |-> Append(s, r)[m].hash]
      BY <2>1 DEF HashesOf
    <2>4. b = [m \in 1..(Len(s) + 1) |-> IF m = Len(s) + 1 THEN r.hash ELSE s[m].hash]
      BY <1>2, <1>3, <2>1, <2>2
    <2>5. \A m \in 1..(Len(s) + 1) :
            Append(s, r)[m].hash = IF m = Len(s) + 1 THEN r.hash ELSE s[m].hash
      BY <2>1
    <2> HIDE DEF a, b
    <2>6. a = b
      BY <2>3, <2>4, <2>5
    <2> QED BY <2>6 DEF a, b
  <1> QED BY <1>2, <1>4, <1>5

\* A hash that is missing in the output of a running merge is not below the
\* record being summed up, which is missing itself.
LEMMA CurrentIsNext ==
    ASSUME IInv, ZeroKept, pc = "merge"
    PROVE  /\ Genuine(current.hash) /\ ~HashIn(current.hash, out)
           /\ \A g : Genuine(g) /\ ~HashIn(g, out) => current.hash <= g
  <1>0. /\ current.hash \in Nat /\ out \in Seq(Records)
        /\ \A m \in 1..Len(out) : out[m].hash \in Nat
    <2>1. current \in Records /\ out \in Seq(Records)
      BY DEF IInv, TypeOK
    <2>2. \A m \in 1..Len(out) : out[m] \in Records
      BY <2>1
    <2> QED BY <2>1, <2>2 DEF Records
  <1>1. Genuine(current.hash)
    BY DEF IInv, AllGenuine
  <1>2. ~HashIn(current.hash, out)
    BY <1>0 DEF IInv, Order, HashIn
  <1>3. ASSUME NEW g, Genuine(g), ~HashIn(g, out) PROVE current.hash <= g
    <2>1. CASE g = 0 /\ \E i \in Inputs : content[i] = <<>>
      <3> PICK i \in Inputs : content[i] = <<>>
        BY <2>1
      <3>1. CASE i \in pq /\ phc[i].hash = 0
        BY <3>1, <2>1 DEF IInv, Order
      <3> QED BY <3>1, <2>1, <1>3 DEF ZeroKept
    <2>2. CASE \E i \in Inputs : HashIn(g, content[i])
      <3> PICK i \in Inputs : HashIn(g, content[i])
        BY <2>2
      <3> PICK k \in 1..Len(content[i]) : content[i][k].hash = g
        BY DEF HashIn
      <3>1. CASE g = current.hash
        BY <3>1, <1>0
      <3>2. CASE i \in pq /\ (g = phc[i].hash \/ HashIn(g, rest[i]))
        <4>1. current.hash <= phc[i].hash /\ phc[i].hash \in Nat
          BY <3>2 DEF IInv, Order, TypeOK, Records
        <4>2. CASE HashIn(g, rest[i])
          <5> PICK j \in 1..Len(rest[i]) : rest[i][j].hash = g
            BY <4>2 DEF HashIn
          <5>1. phc[i].hash < g /\ rest[i][j] \in Records
            BY DEF IInv, Tails, TypeOK
          <5> QED BY <5>1, <4>1, <1>0 DEF Records
        <4> QED BY <4>1, <4>2, <3>2
      <3> QED BY <3>1, <3>2, <1>3 DEF IInv, Kept
    <2> QED BY <2>1, <2>2, <1>3 DEF Genuine
  <1> QED BY <1>1, <1>2, <1>3

-----------------------------------------------------------------------------
\* A turn writes the next hash of the union, or nothing.
LEMMA TurnRefines ==
    ASSUME IInv, ZeroKept, IInv', ZeroKept', Turn
    PROVE  [Union!Next]_(Union!vars)
  <1> USE TurnInputs, TurnOutput
  <1>1. content' = content /\ pc = "merge" /\ pc' \in {"merge", "done"}
    OBVIOUS
  <1>2. Sources' = Sources
    BY <1>1 DEF Sources
  <1>3. CASE out' = out /\ pc' = "merge"
    BY <1>1, <1>2, <1>3 DEF Union!vars, Progress
  <1>4. CASE out' = Append(out, current)
    <2>1. out \in Seq(Records) /\ out' \in Seq(Records) /\ current \in Records
      BY DEF IInv, TypeOK
    <2>2. HashesOf(out)' = Append(HashesOf(out), current.hash)
      BY <1>4, <2>1, HashesGrow
    <2>3. \A h : h \in Union!In(HashesOf(out)) <=> HashIn(h, out)
      BY <2>1, HashesGrow
    <2>4. \A h : h \in Union!In(HashesOf(out)') <=> HashIn(h, out')
      BY <2>1, HashesGrow
    <2>5. /\ current.hash \in Sources \ Union!In(HashesOf(out))
          /\ \A g \in Sources \ Union!In(HashesOf(out)) : current.hash <= g
      BY <1>1, <2>3, CurrentIsNext, SourcesGenuine
    <2>6. \A h : Genuine(h)' <=> Genuine(h)
      BY <1>1 DEF Genuine, HashIn
    <2>7. CASE pc' = "merge"
      <3>1. Genuine(current'.hash) /\ ~HashIn(current'.hash, out')
        <4>1. Genuine(current.hash)'
          BY <2>7 DEF IInv, AllGenuine
        <4>2. \A m \in 1..Len(out') : out'[m] \in Records /\ out'[m].hash < current'.hash
          <5>1. \A m \in 1..Len(out') : out'[m].hash < current'.hash
            BY <2>7 DEF IInv, Order
          <5> QED BY <5>1, <2>1
        <4> QED BY <4>1, <4>2, <2>6 DEF HashIn, Records
      <3>2. ~(Sources \subseteq Union!In(HashesOf(out)'))
        BY <3>1, <2>4, SourcesGenuine
      <3> QED BY <1>1, <1>2, <2>2, <2>5, <2>7, <3>2 DEF Union!Next, Union!Write, Progress
    <2>8. CASE pc' = "done"
      <3>1. ASSUME NEW g, Genuine(g) PROVE HashIn(g, out')
        <4>1. pq' = {}
          BY <2>8
        <4>2. CASE g = 0 /\ \E i \in Inputs : content[i] = <<>>
          BY <4>1, <4>2, <2>8, <1>1 DEF ZeroKept
        <4>3. CASE \E i \in Inputs : HashIn(g, content[i])
          <5>1. PICK i \in Inputs : \E k \in 1..Len(content[i]) : content[i][k].hash = g
            BY <4>3 DEF HashIn
          <5> QED BY <5>1, <4>1, <2>8, <1>1 DEF IInv, Kept
        <4> QED BY <4>2, <4>3, <3>1 DEF Genuine
      <3>2. Sources \subseteq Union!In(HashesOf(out)')
        BY <3>1, <2>4, SourcesGenuine
      <3> QED BY <1>1, <1>2, <2>2, <2>5, <2>8, <3>2 DEF Union!Next, Union!Write, Progress
    <2> QED BY <1>1, <2>7, <2>8
  <1> QED BY <1>1, <1>3, <1>4

\* The merge writes exactly the sorted union of the hashes of its inputs, for
\* any number of inputs and any files (mergeoperation.cpp's execute()).
THEOREM Refinement == Spec => ImplementsUnion
  <1>1. Init => Union!Init
    <2> SUFFICES ASSUME Init PROVE Union!Init
      OBVIOUS
    <2>1. HashesOf(out) = <<>> /\ Progress = "running"
      BY DEF Init, HashesOf, Progress
    <2>2. Sources \subseteq Nat
      <3> SUFFICES ASSUME NEW i \in Inputs, NEW k \in 1..Len(content[i])
                   PROVE  content[i][k].hash \in Nat
        BY DEF Sources
      <3>1. content[i] \in Seq(Records)
        BY MergeAssumption DEF Init
      <3>2. content[i][k] \in Records
        BY <3>1
      <3> QED BY <3>2 DEF Records
    <2> QED BY <2>1, <2>2 DEF Union!Init
  <1>2. ASSUME IInv, ZeroKept, IInv', ZeroKept', [Next]_vars
        PROVE  [Union!Next]_(Union!vars)
    <2>1. CASE Turn
      BY <1>2, <2>1, TurnRefines
    <2>2. CASE ~Turn
      <3>1. UNCHANGED <<content, out>>
        BY <1>2, <2>2 DEF Next, Start, Stop, Cancel, vars, inputVars
      <3>2. \/ UNCHANGED Progress
            \/ Progress = "running" /\ Progress' = "abandoned"
        BY <1>2, <2>2 DEF Next, Start, Stop, Cancel, vars, Progress
      <3>3. UNCHANGED <<Sources, HashesOf(out)>>
        BY <3>1 DEF Sources, HashesOf
      <3> QED BY <3>2, <3>3 DEF Union!Next, Union!Abandon, Union!vars
    <2> QED BY <2>1, <2>2
  <1>3. Spec => []ZeroKept
    <2>1. IInv /\ IInv' /\ ZeroKept /\ [Next]_vars => ZeroKept'
      BY ZeroKeptNext
    <2> QED BY <2>1, ZeroKeptInit, Invariance, PTL DEF Spec
  <1> QED BY <1>1, <1>2, <1>3, Invariance, PTL DEF Spec, ImplementsUnion, Union!Spec

-----------------------------------------------------------------------------
(* Induction.                                                              *)

\* A set that has 0, and k + 1 with every k, has every natural number.
LEMMA NatSteps ==
    ASSUME NEW T, 0 \in T, \A k \in Nat : k \in T => k + 1 \in T
    PROVE  \A k \in Nat : k \in T
<1> SUFFICES ASSUME Nat \ T # {} PROVE FALSE
  OBVIOUS
<1>1. PICK m \in Nat \ T : \A y \in Nat \ T : <<y, m>> \notin OpToRel(<, Nat)
  BY WFMin, NatLessThanWellFounded
<1>2. \A y \in Nat \ T : ~(y < m)
  BY <1>1 DEF OpToRel
<1>3. m # 0 /\ m - 1 \in Nat
  OBVIOUS
<1>4. m - 1 \in T
  BY <1>2, <1>3
<1> QED
  BY <1>3, <1>4

\* The element that a sum over s adds last.
Pick(s) == CHOOSE x \in s : TRUE

\* Without it the set is smaller.
LEMMA PickLess ==
    ASSUME NEW S, IsFiniteSet(S), NEW s \in SUBSET S, s # {}
    PROVE  /\ Pick(s) \in s
           /\ s \ {Pick(s)} \in SUBSET S
           /\ Cardinality(s) \in Nat
           /\ Cardinality(s \ {Pick(s)}) \in Nat
           /\ Cardinality(s \ {Pick(s)}) = Cardinality(s) - 1
<1>1. Pick(s) \in s
  BY DEF Pick
<1>2. IsFiniteSet(s) /\ IsFiniteSet(s \ {Pick(s)})
  BY FS_Subset
<1>3. Cardinality(s) \in Nat /\ Cardinality(s \ {Pick(s)}) \in Nat
  BY <1>2, FS_CardinalityType
<1>4. Cardinality(s \ {Pick(s)}) = Cardinality(s) - 1
  BY <1>1, <1>2, FS_RemoveElement
<1> QED
  BY <1>1, <1>3, <1>4

\* A set of sets that has {}, and s with every s \ {Pick(s)}, has every subset
\* of a finite set.
LEMMA SubsetSteps ==
    ASSUME NEW S, IsFiniteSet(S), NEW T, {} \in T,
           \A s \in SUBSET S : s # {} /\ s \ {Pick(s)} \in T => s \in T
    PROVE  \A s \in SUBSET S : s \in T
<1> DEFINE N == {k \in Nat : \A s \in SUBSET S : Cardinality(s) <= k => s \in T}
<1>1. 0 \in N
  <2> SUFFICES ASSUME NEW s \in SUBSET S, Cardinality(s) <= 0, s # {} PROVE FALSE
    OBVIOUS
  <2>1. Cardinality(s) \in Nat /\ Cardinality(s) - 1 \in Nat
    BY PickLess
  <2> QED
    BY <2>1
<1>2. ASSUME NEW k \in Nat, k \in N PROVE k + 1 \in N
  <2> SUFFICES ASSUME NEW s \in SUBSET S, Cardinality(s) <= k + 1, s # {} PROVE s \in T
    OBVIOUS
  <2>1. /\ s \ {Pick(s)} \in SUBSET S
        /\ Cardinality(s) \in Nat /\ Cardinality(s \ {Pick(s)}) = Cardinality(s) - 1
    BY PickLess
  <2>2. s \ {Pick(s)} \in T
    BY <1>2, <2>1
  <2> QED
    BY <2>2
<1>3. \A k \in Nat : k \in N
  <2> HIDE DEF N
  <2> QED
    BY <1>1, <1>2, NatSteps
<1> SUFFICES ASSUME NEW s \in SUBSET S PROVE s \in T
  OBVIOUS
<1>4. Cardinality(s) \in Nat
  BY FS_Subset, FS_CardinalityType
<1> QED
  BY <1>3, <1>4

-----------------------------------------------------------------------------
(* Sums.                                                                   *)

\* The equation of SumFunctionOnSet at s
SumAt(g, F, s) == g[s] = IF s = {} THEN 0 ELSE F[Pick(s)] + g[s \ {Pick(s)}]

\* g has the sum of F over every subset of S.
Sums(g, F, S) == g \in [SUBSET S -> Nat] /\ \A s \in SUBSET S : SumAt(g, F, s)

\* The sums exist: a function that is right up to some size of s is used once
\* more to get one that is right for the next size.
LEMMA SumsExist ==
    ASSUME NEW S, IsFiniteSet(S), NEW F \in [S -> Nat]
    PROVE  \E g : Sums(g, F, S)
<1> DEFINE Upto(g, k) == \A s \in SUBSET S : Cardinality(s) <= k => SumAt(g, F, s)
           T == {k \in Nat : \E g \in [SUBSET S -> Nat] : Upto(g, k)}
<1>1. 0 \in T
  <2> DEFINE g == [s \in SUBSET S |-> 0]
  <2>1. Upto(g, 0)
    <3> SUFFICES ASSUME NEW s \in SUBSET S, Cardinality(s) <= 0, s # {} PROVE FALSE
      BY DEF SumAt
    <3>1. Cardinality(s) \in Nat /\ Cardinality(s) - 1 \in Nat
      BY PickLess
    <3> QED
      BY <3>1
  <2>2. g \in [SUBSET S -> Nat]
    OBVIOUS
  <2> HIDE DEF g
  <2> QED
    BY <2>1, <2>2
<1>2. ASSUME NEW k \in Nat, k \in T PROVE k + 1 \in T
  <2>1. PICK g \in [SUBSET S -> Nat] : Upto(g, k)
    BY <1>2
  <2> DEFINE h == [s \in SUBSET S |-> IF s = {} THEN 0 ELSE F[Pick(s)] + g[s \ {Pick(s)}]]
  <2>2. h \in [SUBSET S -> Nat]
    <3> SUFFICES ASSUME NEW s \in SUBSET S, s # {} PROVE F[Pick(s)] + g[s \ {Pick(s)}] \in Nat
      OBVIOUS
    <3>1. Pick(s) \in S /\ s \ {Pick(s)} \in SUBSET S
      BY PickLess
    <3> QED
      BY <3>1
  <2>3. Upto(h, k + 1)
    <3> SUFFICES ASSUME NEW s \in SUBSET S, Cardinality(s) <= k + 1 PROVE SumAt(h, F, s)
      OBVIOUS
    <3>1. CASE s = {}
      BY <3>1 DEF SumAt
    <3>2. CASE s # {}
      <4> DEFINE t == s \ {Pick(s)}
      <4>1. t \in SUBSET S /\ Cardinality(s) \in Nat /\ Cardinality(t) = Cardinality(s) - 1
        BY <3>2, PickLess
      <4>2. SumAt(g, F, t)
        BY <2>1, <4>1
      <4>3. h[t] = g[t]
        BY <4>1, <4>2 DEF SumAt
      <4>4. h[s] = F[Pick(s)] + g[t]
        BY <3>2
      <4> HIDE DEF h
      <4> QED
        BY <3>2, <4>3, <4>4 DEF SumAt
    <3> QED
      BY <3>1, <3>2
  <2> HIDE DEF h
  <2> QED
    BY <2>2, <2>3
<1>3. Cardinality(S) \in Nat
  BY FS_CardinalityType
<1>4. Cardinality(S) \in T
  <2> HIDE DEF T
  <2> QED
    BY <1>1, <1>2, <1>3, NatSteps
<1>5. PICK g \in [SUBSET S -> Nat] : Upto(g, Cardinality(S))
  BY <1>4
<1>6. \A s \in SUBSET S : Cardinality(s) <= Cardinality(S)
  BY FS_Subset
<1> QED
  BY <1>5, <1>6 DEF Sums

\* There is only one.
LEMMA SumsUnique ==
    ASSUME NEW S, IsFiniteSet(S), NEW F,
           NEW g, \A s \in SUBSET S : SumAt(g, F, s),
           NEW h, \A s \in SUBSET S : SumAt(h, F, s)
    PROVE  \A s \in SUBSET S : g[s] = h[s]
<1> DEFINE T == {s \in SUBSET S : g[s] = h[s]}
<1>1. {} \in T
  BY DEF SumAt
<1>2. ASSUME NEW s \in SUBSET S, s # {}, s \ {Pick(s)} \in T PROVE s \in T
  <2>1. SumAt(g, F, s) /\ SumAt(h, F, s)
    OBVIOUS
  <2> QED
    BY <1>2, <2>1 DEF SumAt
<1>3. \A s \in SUBSET S : s \in T
  <2> HIDE DEF T
  <2> QED
    BY <1>1, <1>2, SubsetSteps
<1> QED
  BY <1>3

\* It is what SumFunctionOnSet computes.
LEMMA SumOfSums ==
    ASSUME NEW S, IsFiniteSet(S), NEW F, NEW g, Sums(g, F, S)
    PROVE  SumFunctionOnSet(F, S) = g[S]
<1> DEFINE Q(h) == h = [s \in SUBSET S |->
                          IF s = {} THEN 0
                          ELSE F[CHOOSE x \in s : TRUE] + h[s \ {CHOOSE x \in s : TRUE}]]
           c == CHOOSE h : Q(h)
<1>1. SumFunctionOnSet(F, S) = c[S]
  BY Zenon DEF SumFunctionOnSet, FoldFunctionOnSet, MapThenFoldSet
<1>2. Q(g)
  BY DEF Sums, SumAt, Pick
<1>3. Q(c)
  <2> HIDE DEF Q
  <2> QED
    BY <1>2
<1>4. \A s \in SUBSET S : SumAt(c, F, s)
  <2> HIDE DEF c
  <2> QED
    BY <1>3 DEF SumAt, Pick
<1>5. \A s \in SUBSET S : SumAt(g, F, s)
  BY DEF Sums
<1>6. \A s \in SUBSET S : c[s] = g[s]
  <2> HIDE DEF c
  <2> QED
    BY ONLY IsFiniteSet(S), <1>4, <1>5, SumsUnique
<1> QED
  BY <1>1, <1>6

LEMMA SumIsNat ==
    ASSUME NEW S, IsFiniteSet(S), NEW F \in [S -> Nat]
    PROVE  SumFunctionOnSet(F, S) \in Nat
<1>1. PICK g : Sums(g, F, S)
  BY SumsExist
<1>2. g[S] \in Nat
  BY <1>1 DEF Sums
<1> QED
  BY <1>1, <1>2, SumOfSums

\* A sum whose terms are at most k times those of another one
LEMMA SumScaled ==
    ASSUME NEW S, IsFiniteSet(S), NEW F \in [S -> Nat], NEW G \in [S -> Nat], NEW k \in Nat,
           \A x \in S : F[x] <= k * G[x]
    PROVE  SumFunctionOnSet(F, S) <= k * SumFunctionOnSet(G, S)
<1>1. PICK f : Sums(f, F, S)
  BY SumsExist
<1>2. PICK g : Sums(g, G, S)
  BY SumsExist
<1>3. \A s \in SUBSET S : SumAt(f, F, s) /\ SumAt(g, G, s) /\ f[s] \in Nat /\ g[s] \in Nat
  BY <1>1, <1>2 DEF Sums
<1> DEFINE T == {s \in SUBSET S : f[s] <= k * g[s]}
<1>4. {} \in T
  <2>1. f[{}] = 0 /\ g[{}] = 0
    BY <1>3 DEF SumAt
  <2> QED
    BY <2>1
<1>5. ASSUME NEW s \in SUBSET S, s # {}, s \ {Pick(s)} \in T PROVE s \in T
  <2> DEFINE x == Pick(s)
             t == s \ {x}
  <2>1. x \in S /\ t \in SUBSET S
    BY <1>5, PickLess
  <2>2. f[s] = F[x] + f[t] /\ g[s] = G[x] + g[t]
    BY <1>3, <1>5 DEF SumAt
  <2>3. f[t] <= k * g[t] /\ F[x] <= k * G[x]
    BY <1>5, <2>1
  <2>4. f[t] \in Nat /\ g[t] \in Nat /\ F[x] \in Nat /\ G[x] \in Nat
    BY <1>3, <2>1
  <2> HIDE DEF x, t
  <2>5. k * (G[x] + g[t]) = k * G[x] + k * g[t] /\ k * G[x] \in Nat /\ k * g[t] \in Nat
    BY <2>4
  <2> QED
    BY <2>2, <2>3, <2>4, <2>5
<1>6. S \in T
  <2> HIDE DEF T
  <2> QED
    BY <1>4, <1>5, SubsetSteps
<1> QED
  BY <1>1, <1>2, <1>6, SumOfSums

\* Two sums that differ in one term
LEMMA SumChanged ==
    ASSUME NEW S, IsFiniteSet(S), NEW F \in [S -> Nat], NEW G \in [S -> Nat], NEW y \in S,
           \A x \in S \ {y} : F[x] = G[x]
    PROVE  SumFunctionOnSet(F, S) + G[y] = SumFunctionOnSet(G, S) + F[y]
<1>1. PICK f : Sums(f, F, S)
  BY SumsExist
<1>2. PICK g : Sums(g, G, S)
  BY SumsExist
<1>3. \A s \in SUBSET S : SumAt(f, F, s) /\ SumAt(g, G, s) /\ f[s] \in Nat /\ g[s] \in Nat
  BY <1>1, <1>2 DEF Sums
<1> DEFINE T == {s \in SUBSET S : IF y \in s THEN f[s] + G[y] = g[s] + F[y] ELSE f[s] = g[s]}
<1>4. {} \in T
  BY <1>3 DEF SumAt
<1>5. ASSUME NEW s \in SUBSET S, s # {}, s \ {Pick(s)} \in T PROVE s \in T
  <2> DEFINE x == Pick(s)
             t == s \ {x}
  <2>1. x \in s /\ x \in S /\ t \in SUBSET S
    BY <1>5, PickLess
  <2>2. f[s] = F[x] + f[t] /\ g[s] = G[x] + g[t]
    BY <1>3, <1>5 DEF SumAt
  <2>3. f[t] \in Nat /\ g[t] \in Nat /\ F[x] \in Nat /\ G[x] \in Nat /\ F[y] \in Nat /\ G[y] \in Nat
    BY <1>3, <2>1
  <2>4. CASE x = y
    <3>1. y \notin t /\ y \in s
      BY <2>1, <2>4
    <3>2. f[t] = g[t]
      BY <1>5, <3>1
    <3> HIDE DEF x, t
    <3> QED
      BY <2>2, <2>3, <2>4, <3>1, <3>2
  <2>5. CASE x # y
    <3>1. F[x] = G[x] /\ (y \in s <=> y \in t)
      BY <2>1, <2>5
    <3>2. IF y \in t THEN f[t] + G[y] = g[t] + F[y] ELSE f[t] = g[t]
      BY <1>5
    <3> HIDE DEF x, t
    <3> QED
      BY <2>2, <2>3, <3>1, <3>2
  <2> QED
    BY <2>4, <2>5
<1>6. S \in T
  <2> HIDE DEF T
  <2> QED
    BY <1>4, <1>5, SubsetSteps
<1>7. f[S] + G[y] = g[S] + F[y]
  BY <1>6
<1> QED
  BY <1>1, <1>2, <1>7, SumOfSums

\* A sum is not smaller than one of its terms.
LEMMA SumHasTerm ==
    ASSUME NEW S, IsFiniteSet(S), NEW F \in [S -> Nat], NEW y \in S
    PROVE  F[y] <= SumFunctionOnSet(F, S)
<1> DEFINE G == [F EXCEPT ![y] = 0]
<1>1. G \in [S -> Nat] /\ G[y] = 0 /\ \A x \in S \ {y} : F[x] = G[x]
  OBVIOUS
<1> HIDE DEF G
<1>2. SumFunctionOnSet(F, S) + G[y] = SumFunctionOnSet(G, S) + F[y]
  BY <1>1, SumChanged
<1>3. SumFunctionOnSet(F, S) \in Nat /\ SumFunctionOnSet(G, S) \in Nat /\ F[y] \in Nat
  BY <1>1, SumIsNat
<1> QED
  BY <1>1, <1>2, <1>3

-----------------------------------------------------------------------------
(* Counting.                                                               *)

LEMMA Fields ==
    ASSUME NEW s \in Seq(Records), NEW k \in 1..Len(s)
    PROVE  s[k] \in Records /\ s[k].hash \in Nat /\ s[k].count \in Nat
<1>1. s[k] \in Records
  OBVIOUS
<1> QED
  BY <1>1 DEF Records

\* A sorted file has one record of a hash.
LEMMA CountAt ==
    ASSUME NEW s \in Seq(Records), Ascending(s), NEW k \in 1..Len(s)
    PROVE  CountIn(s[k].hash, s) = s[k].count
<1> DEFINE h == s[k].hash
           j == CHOOSE m \in 1..Len(s) : s[m].hash = h
<1>1. HashIn(h, s)
  BY DEF HashIn
<1>2. j \in 1..Len(s) /\ s[j].hash = h
  OBVIOUS
<1>3. \A m \in 1..Len(s) : s[m].hash \in Nat
  BY Fields
<1>4. j = k
  <2> HIDE DEF j
  <2>1. ~(j < k) /\ ~(k < j)
    BY <1>2, <1>3 DEF Ascending
  <2> QED
    BY <1>2, <2>1
<1>5. CountIn(h, s) = s[j].count
  BY <1>1 DEF CountIn
<1> QED
  BY <1>4, <1>5

LEMMA CountIsNat ==
    ASSUME NEW s \in Seq(Records), NEW h
    PROVE  CountIn(h, s) \in Nat
<1>1. CASE HashIn(h, s)
  <2> DEFINE k == CHOOSE m \in 1..Len(s) : s[m].hash = h
  <2>1. k \in 1..Len(s)
    BY <1>1 DEF HashIn
  <2>2. CountIn(h, s) = s[k].count
    BY <1>1 DEF CountIn
  <2> HIDE DEF k
  <2> QED
    BY <2>1, <2>2, Fields
<1>2. CASE ~HashIn(h, s)
  BY <1>2 DEF CountIn
<1> QED
  BY <1>1, <1>2

\* What a record adds that is written behind all others.
LEMMA CountAppended ==
    ASSUME NEW s \in Seq(Records), NEW r \in Records, Ascending(s),
           \A m \in 1..Len(s) : s[m].hash < r.hash, NEW h
    PROVE  CountIn(h, Append(s, r)) = IF h = r.hash THEN r.count ELSE CountIn(h, s)
<1> DEFINE t == Append(s, r)
<1>1. /\ t \in Seq(Records) /\ Len(t) = Len(s) + 1 /\ t[Len(s) + 1] = r
      /\ Len(s) \in Nat /\ \A m \in 1..Len(s) : t[m] = s[m]
  OBVIOUS
<1>2. Ascending(t)
  BY AppendAscends
<1> HIDE DEF t
<1>3. CASE h = r.hash
  <2>1. Len(s) + 1 \in 1..Len(t)
    BY <1>1
  <2>2. CountIn(t[Len(s) + 1].hash, t) = t[Len(s) + 1].count
    BY <1>1, <1>2, <2>1, CountAt
  <2> QED
    BY <1>1, <1>3, <2>2 DEF t
<1>4. CASE h # r.hash /\ HashIn(h, s)
  <2>1. PICK k \in 1..Len(s) : s[k].hash = h
    BY <1>4 DEF HashIn
  <2>2. k \in 1..Len(t) /\ t[k] = s[k]
    BY <1>1
  <2>3. CountIn(t[k].hash, t) = t[k].count /\ CountIn(s[k].hash, s) = s[k].count
    BY <1>1, <1>2, <2>2, CountAt
  <2> QED
    BY <1>4, <2>1, <2>2, <2>3 DEF t
<1>5. CASE h # r.hash /\ ~HashIn(h, s)
  <2>1. ~HashIn(h, t)
    BY <1>1, <1>5 DEF HashIn
  <2> QED
    BY <1>5, <2>1 DEF CountIn, t
<1> QED
  BY <1>3, <1>4, <1>5

\* Of a file, the record p and what is unread behind it, r, are the end; an
\* empty one has a record without a count.
Follows(c, p, r) ==
    IF c = <<>> THEN p = NoRecord /\ r = <<>>
    ELSE LET at == Len(c) - Len(r)
         IN /\ at \in 1..Len(c) /\ p = c[at]
            /\ \A k \in 1..Len(r) : r[k] = c[at + k]

Places ==
    /\ \A i \in Inputs : Follows(content[i], phc[i], rest[i])
    /\ \A i \in isValid : i \in pq /\ content[i] # <<>>

\* The inputs whose record of h next() has returned, and those whose record
\* it has returned again when it removed them
Returned(i, h) == h < phc[i].hash \/ (h = phc[i].hash /\ i \notin isValid)
Again(i, h) == i \notin pq /\ h = phc[i].hash

\* What next() has returned of h, without and with that
Once(h) == [i \in Inputs |-> IF Returned(i, h) THEN CountIn(h, content[i]) ELSE 0]
Twice(h) == [i \in Inputs |-> Once(h)[i] + (IF Again(i, h) THEN CountIn(h, content[i]) ELSE 0)]

\* What has become of it
Total(h) == CountIn(h, out) + (IF pc = "merge" /\ h = current.hash THEN current.count ELSE 0)

\* Nothing that next() has returned is lost, and at most the first record is
\* counted without being returned.
Counted ==
    pc \in {"start", "merge", "done"} =>
      \A h \in Nat : 3 * Expected(h) < CountMod =>
        /\ SumFunctionOnSet(Once(h), Inputs) <= Total(h)
        /\ Total(h) <= SumFunctionOnSet(Twice(h), Inputs) + (IF pc = "start" THEN 0 ELSE Expected(h))

\* The inductive invariant for the counts.
CInv == IInv /\ Places /\ Counted

\* The record at the head of an input, as the file has it.
LEMMA HeadCount ==
    ASSUME IInv, Places, NEW i \in Inputs
    PROVE  /\ phc[i].hash \in Nat /\ phc[i].count \in Nat
           /\ phc[i].count = CountIn(phc[i].hash, content[i])
           /\ \A h \in Nat : HashIn(h, content[i]) /\ h > phc[i].hash =>
                rest[i] # <<>> /\ rest[i][1].hash <= h
<1>1. content[i] \in Seq(Records) /\ Ascending(content[i]) /\ phc[i] \in Records /\ rest[i] \in Seq(Records)
  BY DEF IInv, TypeOK, Tails
<1>2. phc[i].hash \in Nat /\ phc[i].count \in Nat
  BY <1>1 DEF Records
<1>3. CASE content[i] = <<>>
  <2>1. \A h : ~HashIn(h, content[i])
    BY <1>3 DEF HashIn
  <2>2. phc[i] = NoRecord
    BY <1>3 DEF Places, Follows
  <2>3. phc[i].count = 0
    BY <2>2 DEF NoRecord
  <2> QED
    BY <1>2, <2>1, <2>3 DEF CountIn
<1>4. CASE content[i] # <<>>
  <2> DEFINE at == Len(content[i]) - Len(rest[i])
  <2>1. /\ at \in 1..Len(content[i]) /\ phc[i] = content[i][at]
        /\ \A k \in 1..Len(rest[i]) : rest[i][k] = content[i][at + k]
    BY <1>4 DEF Places, Follows
  <2>2. Len(content[i]) \in Nat /\ Len(rest[i]) \in Nat /\ Len(content[i]) = at + Len(rest[i])
    BY <1>1
  <2>3. phc[i].count = CountIn(phc[i].hash, content[i])
    BY <1>1, <2>1, CountAt
  <2> HIDE DEF at
  <2>4. ASSUME NEW h \in Nat, HashIn(h, content[i]), h > phc[i].hash
        PROVE  rest[i] # <<>> /\ rest[i][1].hash <= h
    <3>1. PICK k \in 1..Len(content[i]) : content[i][k].hash = h
      BY <2>4 DEF HashIn
    <3>2. \A m \in 1..Len(content[i]) : content[i][m].hash \in Nat
      BY <1>1, Fields
    <3>3. ~(k < at) /\ k # at
      BY <1>1, <2>1, <2>4, <3>1, <3>2 DEF Ascending
    <3>4. at + 1 \in 1..Len(content[i]) /\ (k = at + 1 \/ at + 1 < k)
      BY <2>1, <2>2, <3>1, <3>3
    <3>5. 1 \in 1..Len(rest[i]) /\ rest[i][1] = content[i][at + 1]
      BY <2>1, <2>2, <3>4
    <3>6. content[i][at + 1].hash <= h
      BY <1>1, <3>1, <3>2, <3>4 DEF Ascending
    <3> QED
      BY <3>5, <3>6
  <2> QED
    BY <1>2, <2>3, <2>4
<1> QED
  BY <1>3, <1>4

LEMMA FollowsFirst ==
    ASSUME NEW s \in Seq(Records), s # <<>>
    PROVE  Follows(s, Head(s), Tail(s))
<1>1. /\ Head(s) = s[1] /\ Len(s) \in Nat /\ Len(s) > 0 /\ Len(Tail(s)) = Len(s) - 1
      /\ \A k \in 1..Len(Tail(s)) : Tail(s)[k] = s[k + 1]
  BY HeadTail
<1> DEFINE t == Tail(s)
<1>2. Len(s) - Len(t) = 1 /\ 1 \in 1..Len(s)
  BY <1>1
<1>3. \A k \in 1..Len(t) : t[k] = s[1 + k]
  BY <1>1
<1> HIDE DEF t
<1> QED
  BY <1>1, <1>2, <1>3 DEF Follows, t

LEMMA FollowsNext ==
    ASSUME NEW c \in Seq(Records), NEW p, NEW s \in Seq(Records), s # <<>>, Follows(c, p, s)
    PROVE  Follows(c, Head(s), Tail(s))
<1> DEFINE n == Len(c)
           at == n - Len(s)
           t == Tail(s)
<1>1. c # <<>>
  BY DEF Follows
<1>2. at \in 1..n /\ \A k \in 1..Len(s) : s[k] = c[at + k]
  BY <1>1 DEF Follows
<1>3. /\ Head(s) = s[1] /\ Len(s) \in Nat /\ Len(s) > 0 /\ Len(t) = Len(s) - 1 /\ n \in Nat
      /\ \A k \in 1..Len(t) : t[k] = s[k + 1]
  BY HeadTail
<1>4. n - Len(t) = at + 1 /\ n = at + Len(s)
  <2> HIDE DEF t, n
  <2> QED
    BY <1>2, <1>3
<1> HIDE DEF n, at, t
<1>5. at + 1 \in 1..n /\ 1 \in 1..Len(s) /\ Head(s) = c[at + 1]
  BY <1>2, <1>3, <1>4
<1>6. \A k \in 1..Len(t) : t[k] = c[at + 1 + k]
  <2> TAKE k \in 1..Len(t)
  <2>1. k + 1 \in 1..Len(s) /\ at + (k + 1) = at + 1 + k
    BY <1>2, <1>3
  <2> QED
    BY <1>2, <1>3, <2>1
<1> QED
  BY <1>1, <1>4, <1>5, <1>6 DEF Follows, n, t

LEMMA PlacesInit == Init => Places
<1> SUFFICES ASSUME Init, NEW i \in Inputs PROVE Follows(content[i], phc[i], rest[i])
  BY DEF Places, Init
<1>1. content[i] \in Seq(Records)
  BY MergeAssumption DEF Init
<1>2. CASE content[i] = <<>>
  BY <1>2 DEF Init, Follows
<1>3. CASE content[i] # <<>>
  <2>1. phc[i] = Head(content[i]) /\ rest[i] = Tail(content[i])
    BY <1>3 DEF Init
  <2> QED
    BY <1>1, <1>3, <2>1, FollowsFirst
<1> QED
  BY <1>2, <1>3

\* A read moves the place by one record.
LEMMA PlacesTurn == IInv /\ Places /\ Turn => Places'
<1> SUFFICES ASSUME IInv, Places, Turn PROVE Places'
  OBVIOUS
<1>1. top \in pq /\ top \in Inputs /\ content' = content
  BY TurnInputs DEF IInv, TypeOK
<1>2. CASE NextValid /\ rest[top] # <<>>
  <2> DEFINE s == rest[top]
  <2>1. /\ phc' = [phc EXCEPT ![top] = Head(s)] /\ rest' = [rest EXCEPT ![top] = Tail(s)]
        /\ isValid' = isValid /\ pq' = pq
    BY <1>2 DEF NextValid
  <2>2. s \in Seq(Records) /\ content[top] \in Seq(Records)
    BY <1>1 DEF IInv, TypeOK
  <2>3. phc'[top] = Head(s) /\ rest'[top] = Tail(s)
    BY <1>1, <2>1 DEF IInv, TypeOK
  <2>4. \A i \in Inputs \ {top} : phc'[i] = phc[i] /\ rest'[i] = rest[i]
    BY <2>1 DEF IInv, TypeOK
  <2>5. Follows(content[top], phc[top], s)
    BY <1>1 DEF Places
  <2> HIDE DEF s
  <2>6. Follows(content[top], Head(s), Tail(s))
    BY <1>2, <2>2, <2>5, FollowsNext DEF s
  <2>7. \A i \in Inputs : Follows(content'[i], phc'[i], rest'[i])
    BY <1>1, <2>3, <2>4, <2>6 DEF Places
  <2> QED
    BY <1>1, <2>1, <2>7 DEF Places
<1>3. CASE NextValid /\ rest[top] = <<>>
  <2>1. phc' = phc /\ rest' = rest /\ isValid' = isValid \ {top} /\ pq' = pq
    BY <1>3 DEF NextValid
  <2> QED
    BY <1>1, <2>1 DEF Places
<1>4. CASE NextExhausted
  <2>1. phc' = phc /\ rest' = rest /\ isValid' = isValid /\ top \notin isValid /\ pq' = pq \ {top}
    BY <1>4 DEF NextExhausted, inputVars, Popped
  <2> QED
    BY <1>1, <2>1 DEF Places
<1> QED
  BY <1>2, <1>3, <1>4 DEF Turn

\* What next() returns, as the sums see it: of the top's record only.
Adds(h) == IF h = phc[top].hash THEN phc[top].count ELSE 0

\* The terms of the sums.
LEMMA Terms ==
    ASSUME IInv, NEW h \in Nat
    PROVE  /\ \A i \in Inputs : CountIn(h, content[i]) \in Nat
           /\ Once(h) \in [Inputs -> Nat] /\ Twice(h) \in [Inputs -> Nat]
           /\ Total(h) \in Nat
<1>1. \A i \in Inputs : CountIn(h, content[i]) \in Nat
  BY CountIsNat DEF IInv, TypeOK
<1>2. Once(h) \in [Inputs -> Nat]
  BY <1>1 DEF Once
<1>3. Twice(h) \in [Inputs -> Nat]
  BY <1>1, <1>2 DEF Twice
<1>4. CountIn(h, out) \in Nat /\ current.count \in Nat
  BY CountIsNat DEF IInv, TypeOK, Records
<1> QED
  BY <1>1, <1>2, <1>3, <1>4 DEF Total

\* A turn changes the terms of the top only, by what next() returns; when it
\* removes the last input it returns nothing new.
LEMMA TurnTerms ==
    ASSUME IInv, Places, Turn, NEW h \in Nat
    PROVE  /\ Adds(h) \in Nat
           /\ Once(h)' \in [Inputs -> Nat] /\ Twice(h)' \in [Inputs -> Nat]
           /\ \A i \in Inputs \ {top} : Once(h)'[i] = Once(h)[i] /\ Twice(h)'[i] = Twice(h)[i]
           /\ Once(h)'[top] <= Once(h)[top] + Adds(h)
           /\ pq' = {} => Once(h)'[top] = Once(h)[top]
           /\ Twice(h)'[top] = Twice(h)[top] + Adds(h)
           /\ \A i \in Inputs : Twice(h)'[i] <= 2 * CountIn(h, content[i])
<1> DEFINE n(i) == CountIn(h, content[i])
<1>1. top \in pq /\ top \in Inputs /\ content' = content
  BY TurnInputs DEF IInv, TypeOK
<1>2. PICK y \in Inputs : y = top
  BY <1>1
<1>3. \A i \in Inputs : n(i) \in Nat
  BY Terms
<1>4. \A i \in Inputs : /\ Once(h)[i] = IF Returned(i, h) THEN n(i) ELSE 0
                        /\ Twice(h)[i] = Once(h)[i] + (IF Again(i, h) THEN n(i) ELSE 0)
  BY DEF Once, Twice
<1>5. \A i \in Inputs : /\ Once(h)'[i] = IF Returned(i, h)' THEN n(i) ELSE 0
                        /\ Twice(h)'[i] = Once(h)'[i] + (IF Again(i, h)' THEN n(i) ELSE 0)
  BY <1>1 DEF Once, Twice
<1>6. Once(h)' \in [Inputs -> Nat] /\ Twice(h)' \in [Inputs -> Nat]
  <2>1. Once(h)' = [i \in Inputs |-> Once(h)'[i]] /\ Twice(h)' = [i \in Inputs |-> Twice(h)'[i]]
    BY DEF Once, Twice
  <2>2. \A i \in Inputs : Once(h)'[i] \in Nat /\ Twice(h)'[i] \in Nat
    <3> HIDE DEF n
    <3> QED
      BY <1>3, <1>5
  <2> QED
    BY <2>1, <2>2
<1>7. /\ phc[y].hash \in Nat /\ phc[y].count \in Nat /\ phc[y].count = CountIn(phc[y].hash, content[y])
      /\ h > phc[y].hash /\ HashIn(h, content[y]) => rest[y] # <<>> /\ rest[y][1].hash <= h
  BY HeadCount
<1>8. Adds(h) \in Nat /\ (h = phc[y].hash => Adds(h) = n(y)) /\ (h # phc[y].hash => Adds(h) = 0)
  BY <1>2, <1>7 DEF Adds
<1>9. ~HashIn(h, content[y]) => n(y) = 0
  BY DEF CountIn
<1> HIDE DEF n
<1>10. \A i \in Inputs : Twice(h)'[i] <= 2 * n(i)
  BY <1>3, <1>5
<1>11. ASSUME \A i \in Inputs \ {y} : (Returned(i, h)' <=> Returned(i, h)) /\ (Again(i, h)' <=> Again(i, h))
       PROVE  \A i \in Inputs \ {top} : Once(h)'[i] = Once(h)[i] /\ Twice(h)'[i] = Twice(h)[i]
  BY <1>2, <1>4, <1>5, <1>11
<1>12. CASE NextValid
  <2>1. y \in isValid /\ y \in pq /\ pq' = pq /\ pq' # {} /\ rest[y] \in Seq(Records)
    BY <1>1, <1>2, <1>12 DEF NextValid, IInv, TypeOK
  <2>2. ~Again(y, h) /\ ~Again(y, h)'
    BY <2>1 DEF Again
  <2>3. Returned(y, h) <=> h < phc[y].hash
    BY <2>1 DEF Returned
  <2>4. \A i \in Inputs \ {y} : phc'[i] = phc[i] /\ (i \in isValid' <=> i \in isValid)
    BY <1>2, <1>12 DEF NextValid, IInv, TypeOK
  <2>5. \A i \in Inputs \ {y} : (Returned(i, h)' <=> Returned(i, h)) /\ (Again(i, h)' <=> Again(i, h))
    BY <2>1, <2>4 DEF Returned, Again
  <2>6. /\ h <= phc[y].hash => Returned(y, h)'
        /\ h > phc[y].hash /\ Returned(y, h)' => n(y) = 0
    <3>1. CASE rest[y] # <<>>
      <4>1. phc'[y] = Head(rest[y]) /\ y \in isValid'
        BY <1>2, <1>12, <2>1, <3>1 DEF NextValid, IInv, TypeOK
      <4>2. phc'[y] = rest[y][1] /\ 1 \in 1..Len(rest[y])
        BY <2>1, <3>1, <4>1, HeadTail
      <4>3. phc'[y].hash \in Nat /\ phc[y].hash < phc'[y].hash
        BY <2>1, <4>2, Fields DEF IInv, Tails
      <4>4. Returned(y, h)' <=> h < phc'[y].hash
        BY <4>1 DEF Returned
      <4> QED
        BY <1>7, <1>9, <4>2, <4>3, <4>4
    <3>2. CASE rest[y] = <<>>
      <4>1. phc' = phc /\ y \notin isValid'
        BY <1>2, <1>12, <3>2 DEF NextValid
      <4>2. Returned(y, h)' <=> h <= phc[y].hash
        BY <1>7, <4>1 DEF Returned
      <4> QED
        BY <1>7, <1>9, <3>2, <4>2
    <3> QED
      BY <3>1, <3>2
  <2>7. Once(h)'[y] = Once(h)[y] + Adds(h) /\ Twice(h)'[y] = Twice(h)[y] + Adds(h)
    <3>1. Twice(h)'[y] = Once(h)'[y] /\ Twice(h)[y] = Once(h)[y] /\ Once(h)[y] \in Nat
      BY <1>3, <1>4, <1>5, <2>2
    <3>2. CASE h < phc[y].hash
      BY <1>3, <1>4, <1>5, <1>7, <1>8, <2>3, <2>6, <3>1, <3>2
    <3>3. CASE h = phc[y].hash
      BY <1>3, <1>4, <1>5, <1>7, <1>8, <2>3, <2>6, <3>1, <3>3
    <3>4. CASE h > phc[y].hash
      BY <1>3, <1>4, <1>5, <1>7, <1>8, <2>3, <2>6, <3>1, <3>4
    <3> QED
      BY <1>7, <3>2, <3>3, <3>4
  <2>8. Once(h)'[y] \in Nat
    BY <1>6
  <2> QED
    BY <1>2, <1>6, <1>8, <1>10, <1>11, <2>1, <2>5, <2>7, <2>8 DEF n
<1>13. CASE NextExhausted
  <2>1. y \notin isValid /\ phc' = phc /\ isValid' = isValid /\ pq' = pq \ {y} /\ y \in pq
    BY <1>1, <1>2, <1>13 DEF NextExhausted, inputVars, Popped
  <2>2. \A i \in Inputs : Returned(i, h)' <=> Returned(i, h)
    BY <2>1 DEF Returned
  <2>3. /\ \A i \in Inputs \ {y} : Again(i, h)' <=> Again(i, h)
        /\ ~Again(y, h) /\ (Again(y, h)' <=> h = phc[y].hash)
    BY <2>1 DEF Again
  <2>4. Once(h)'[y] = Once(h)[y] /\ Once(h)[y] \in Nat
    BY <1>3, <1>4, <1>5, <2>2
  <2>5. Twice(h)'[y] = Twice(h)[y] + Adds(h)
    BY <1>3, <1>4, <1>5, <1>8, <2>3, <2>4
  <2> QED
    BY <1>2, <1>6, <1>8, <1>10, <1>11, <2>2, <2>3, <2>4, <2>5 DEF n
<1> QED
  BY <1>12, <1>13 DEF Turn

\* Nothing is lost between the record being summed up and the output: a turn
\* adds to the total what next() returned, unless that emptied the queue.
LEMMA TurnTotal ==
    ASSUME IInv, Turn, NEW h \in Nat, Adds(h) \in Nat, Total(h) + Adds(h) < CountMod
    PROVE  Total(h)' = Total(h) + (IF pq' = {} THEN 0 ELSE Adds(h))
<1>1. top \in pq /\ top \in Inputs /\ pc = "merge"
  BY TurnInputs DEF IInv, TypeOK, Turn
<1>2. /\ current \in Records /\ current.hash \in Nat /\ current.count \in Nat
      /\ phc[top] \in Records /\ phc[top].hash \in Nat /\ phc[top].count \in Nat
  BY <1>1 DEF IInv, TypeOK, Records
<1>3. out \in Seq(Records) /\ Ascending(out) /\ \A m \in 1..Len(out) : out[m].hash < current.hash
  BY <1>1 DEF IInv, TypeOK, Order, OutSorted
<1>4. CountIn(h, Append(out, current)) = IF h = current.hash THEN current.count ELSE CountIn(h, out)
  BY <1>2, <1>3, CountAppended
<1>5. h = current.hash => CountIn(h, out) = 0
  <2>1. h = current.hash => ~HashIn(h, out)
    BY <1>2, <1>3, Fields DEF HashIn
  <2> QED
    BY <2>1 DEF CountIn
<1>6. CountIn(h, out) \in Nat
  BY <1>3, CountIsNat
<1>7. Total(h) = CountIn(h, out) + (IF h = current.hash THEN current.count ELSE 0)
  BY <1>1 DEF Total
<1>8. CASE pq' # {} /\ current.hash = Peek.hash
  <2>1. /\ current' = [current EXCEPT !.count = AddCount(@, Peek.count)]
        /\ out' = out /\ pc' = pc
    BY <1>8 DEF Turn
  <2>2. current'.hash = current.hash /\ current'.count = AddCount(current.count, phc[top].count)
    BY <1>2, <2>1 DEF Records, Peek
  <2>3. Total(h)' = CountIn(h, out) + (IF h = current.hash THEN current'.count ELSE 0)
    BY <1>1, <2>1, <2>2 DEF Total
  <2>4. Adds(h) = IF h = current.hash THEN phc[top].count ELSE 0
    BY <1>8 DEF Adds, Peek
  <2>5. CASE h = current.hash
    <3>1. current.count + phc[top].count < CountMod
      BY <1>2, <1>5, <1>7, <2>4, <2>5
    <3>2. current.count + phc[top].count \in Nat
      BY <1>2
    <3>3. \A n \in Nat : n < CountMod => n % CountMod = n
      BY MergeAssumption
    <3>4. current'.count = (current.count + phc[top].count) % CountMod
      BY <2>2 DEF AddCount
    <3>5. current'.count = current.count + phc[top].count
      BY <3>1, <3>2, <3>3, <3>4
    <3> QED
      BY <1>2, <1>5, <1>7, <1>8, <2>3, <2>4, <2>5, <3>5
  <2>6. CASE h # current.hash
    BY <1>6, <1>7, <1>8, <2>3, <2>4, <2>6
  <2> QED
    BY <2>5, <2>6
<1>9. CASE pq' # {} /\ current.hash # Peek.hash
  <2>1. out' = Append(out, current) /\ current' = phc[top] /\ pc' = pc
    BY <1>9 DEF Turn, Peek
  <2>2. Total(h)' = CountIn(h, Append(out, current)) + Adds(h)
    BY <1>1, <2>1 DEF Total, Adds
  <2>3. h = current.hash => Adds(h) = 0
    BY <1>9 DEF Adds, Peek
  <2> QED
    BY <1>2, <1>4, <1>5, <1>6, <1>7, <1>9, <2>2, <2>3
<1>10. CASE pq' = {}
  <2>1. out' = Append(out, current) /\ pc' = "done"
    BY <1>10 DEF Turn, LastWritten
  <2>2. Total(h)' = CountIn(h, Append(out, current)) + 0
    BY <2>1 DEF Total
  <2> QED
    BY <1>2, <1>4, <1>5, <1>6, <1>7, <1>10, <2>2
<1> QED
  BY <1>8, <1>9, <1>10

LEMMA ExpectedSum ==
    ASSUME IInv, NEW h \in Nat
    PROVE  /\ [i \in Inputs |-> CountIn(h, content[i])] \in [Inputs -> Nat]
           /\ Expected(h) = SumFunctionOnSet([i \in Inputs |-> CountIn(h, content[i])], Inputs)
           /\ Expected(h) \in Nat
<1> DEFINE C == [i \in Inputs |-> CountIn(h, content[i])]
<1>1. C \in [Inputs -> Nat] /\ DOMAIN C = Inputs
  BY Terms
<1>2. Expected(h) = SumFunctionOnSet(C, DOMAIN C)
  BY DEF Expected, SumFunction
<1> HIDE DEF C
<1>3. Expected(h) = SumFunctionOnSet(C, Inputs)
  BY <1>1, <1>2
<1>4. SumFunctionOnSet(C, Inputs) \in Nat
  BY <1>1, SumIsNat, MergeAssumption
<1> QED
  BY <1>1, <1>3, <1>4 DEF C

\* A turn keeps the sums and the totals together.
LEMMA TurnCounted == CInv /\ Turn => Counted'
<1> SUFFICES ASSUME CInv, Turn PROVE Counted'
  OBVIOUS
<1> SUFFICES ASSUME NEW h \in Nat, 3 * Expected(h)' < CountMod
             PROVE  /\ SumFunctionOnSet(Once(h)', Inputs) <= Total(h)'
                    /\ Total(h)' <= SumFunctionOnSet(Twice(h)', Inputs) + Expected(h)'
  <2>1. pc = "merge" /\ (pc' = pc \/ pc' = "done")
    BY Zenon DEF Turn
  <2>2. pc' # "start"
    BY <2>1
  <2> QED
    BY <2>2 DEF Counted
<1>1. IInv /\ Places
  BY DEF CInv
<1>2. top \in Inputs /\ content' = content /\ pc = "merge"
  BY <1>1, TurnInputs DEF IInv, TypeOK, Turn
<1> DEFINE C == [i \in Inputs |-> CountIn(h, content[i])]
           O == Once(h)
           P == Once(h)'
           T == Twice(h)
           U == Twice(h)'
           S(F) == SumFunctionOnSet(F, Inputs)
<1>3. Expected(h)' = Expected(h)
  BY <1>2 DEF Expected
<1>4. C \in [Inputs -> Nat] /\ Expected(h) = S(C) /\ Expected(h) \in Nat
  BY <1>1, ExpectedSum
<1>5. O \in [Inputs -> Nat] /\ T \in [Inputs -> Nat] /\ Total(h) \in Nat
  BY <1>1, Terms
<1>6. /\ Adds(h) \in Nat
      /\ P \in [Inputs -> Nat] /\ U \in [Inputs -> Nat]
      /\ \A i \in Inputs \ {top} : P[i] = O[i] /\ U[i] = T[i]
      /\ P[top] <= O[top] + Adds(h)
      /\ pq' = {} => P[top] = O[top]
      /\ U[top] = T[top] + Adds(h)
      /\ \A i \in Inputs : U[i] <= 2 * CountIn(h, content[i])
  BY <1>1, TurnTerms
<1>7. \A i \in Inputs : U[i] <= 2 * C[i]
  BY <1>6
<1>8. S(O) <= Total(h) /\ Total(h) <= S(T) + Expected(h)
  BY <1>2, <1>3 DEF CInv, Counted
<1> HIDE DEF C, O, P, T, U
<1>9. S(P) + O[top] = S(O) + P[top] /\ S(U) + T[top] = S(T) + U[top]
  <2>1. \A i \in Inputs \ {top} : P[i] = O[i]
    BY <1>6
  <2>2. \A i \in Inputs \ {top} : U[i] = T[i]
    BY <1>6
  <2>3. P \in [Inputs -> Nat] /\ U \in [Inputs -> Nat] /\ IsFiniteSet(Inputs)
    BY <1>6, MergeAssumption
  <2>4. S(P) + O[top] = S(O) + P[top]
    BY ONLY <1>2, <1>5, <2>1, <2>3, SumChanged
  <2>5. S(U) + T[top] = S(T) + U[top]
    BY ONLY <1>2, <1>5, <2>2, <2>3, SumChanged
  <2> QED
    BY <2>4, <2>5
<1>10. S(O) \in Nat /\ S(P) \in Nat /\ S(T) \in Nat /\ S(U) \in Nat
  BY <1>5, <1>6, SumIsNat, MergeAssumption
<1>11. S(U) <= 2 * S(C)
  BY <1>4, <1>6, <1>7, SumScaled, MergeAssumption
<1>12. O[top] \in Nat /\ P[top] \in Nat /\ T[top] \in Nat /\ U[top] \in Nat
  BY <1>2, <1>5, <1>6
<1> HIDE DEF S
<1>13. /\ S(U) = S(T) + Adds(h) /\ S(P) <= S(O) + Adds(h)
       /\ pq' = {} => S(P) = S(O)
  BY <1>6, <1>9, <1>10, <1>12
<1>14. Total(h) + Adds(h) < CountMod
  BY <1>3, <1>4, <1>5, <1>6, <1>8, <1>10, <1>11, <1>13, MergeAssumption
<1>15. Total(h)' = Total(h) + (IF pq' = {} THEN 0 ELSE Adds(h))
  BY <1>1, <1>6, <1>14, TurnTotal
<1>16. S(P) <= Total(h)' /\ Total(h)' <= S(U) + Expected(h)'
  BY <1>3, <1>4, <1>5, <1>6, <1>8, <1>10, <1>13, <1>15
<1> QED
  BY <1>16 DEF P, U, S

\* Before the first read nothing is returned and nothing written.
LEMMA InitCounted == Init => Counted
<1> SUFFICES ASSUME Init PROVE Counted
  OBVIOUS
<1> SUFFICES ASSUME NEW h \in Nat
             PROVE  /\ SumFunctionOnSet(Once(h), Inputs) <= Total(h)
                    /\ Total(h) <= SumFunctionOnSet(Twice(h), Inputs)
  <2>1. pc = "start" /\ IInv
    <3>1. pc = "start"
      BY DEF Init
    <3> QED
      BY <3>1, InitIInv
  <2>2. \A h \in Nat : Total(h) \in Nat /\ SumFunctionOnSet(Twice(h), Inputs) \in Nat
    BY <2>1, Terms, SumIsNat, MergeAssumption
  <2> QED
    BY <2>1, <2>2 DEF Counted
<1>1. IInv /\ Places
  BY InitIInv, PlacesInit
<1>2. Once(h) \in [Inputs -> Nat] /\ Twice(h) \in [Inputs -> Nat]
  BY <1>1, Terms
<1>3. Total(h) = 0
  <2>1. out = <<>> /\ pc = "start"
    BY DEF Init
  <2>2. ~HashIn(h, out)
    BY <2>1 DEF HashIn
  <2> QED
    BY <2>1, <2>2 DEF Total, CountIn
<1>4. \A i \in Inputs : Once(h)[i] = 0
  <2> TAKE i \in Inputs
  <2>1. Once(h)[i] = IF Returned(i, h) THEN CountIn(h, content[i]) ELSE 0
    BY DEF Once
  <2>2. Returned(i, h) => ~HashIn(h, content[i])
    <3>1. CASE content[i] = <<>>
      BY <3>1 DEF HashIn
    <3>2. CASE content[i] # <<>>
      <4>1. i \in isValid /\ content[i] \in Seq(Records) /\ Ascending(content[i])
        BY <1>1, <3>2 DEF Init, IInv, TypeOK, Tails
      <4>2. phc[i] = content[i][1] /\ 1 \in 1..Len(content[i])
        BY <3>2, <4>1, HeadTail DEF Init
      <4>3. \A k \in 1..Len(content[i]) : content[i][k].hash \in Nat /\ content[i][1].hash <= content[i][k].hash
        BY <4>1, <4>2, Fields DEF Ascending
      <4> QED
        BY <4>1, <4>2, <4>3 DEF Returned, HashIn
    <3> QED
      BY <3>1, <3>2
  <2> QED
    BY <2>1, <2>2 DEF CountIn
<1> DEFINE O == Once(h)
<1>5. \A i \in Inputs : O[i] <= 0 * O[i]
  BY <1>4
<1> HIDE DEF O
<1>6. SumFunctionOnSet(O, Inputs) <= 0 * SumFunctionOnSet(O, Inputs)
  BY <1>2, <1>5, SumScaled, MergeAssumption DEF O
<1>7. SumFunctionOnSet(O, Inputs) \in Nat
  BY <1>2, SumIsNat, MergeAssumption DEF O
<1>8. SumFunctionOnSet(O, Inputs) <= 0
  BY <1>6, <1>7
<1>9. SumFunctionOnSet(Twice(h), Inputs) \in Nat
  BY <1>2, SumIsNat, MergeAssumption
<1> QED
  BY <1>3, <1>8, <1>9 DEF O

\* The first record is counted when execute() starts, before next() returns it.
LEMMA StartCounted ==
    ASSUME CInv, UNCHANGED <<inputVars, pq, top, out>>,
           pc = "start", pc' = "merge", pq # {}, current' = phc[top]
    PROVE  Counted'
<1> SUFFICES ASSUME NEW h \in Nat, 3 * Expected(h)' < CountMod
             PROVE  /\ SumFunctionOnSet(Once(h)', Inputs) <= Total(h)'
                    /\ Total(h)' <= SumFunctionOnSet(Twice(h)', Inputs) + Expected(h)'
  BY DEF Counted
<1>1. IInv /\ Places
  BY DEF CInv
<1>2. top \in Inputs
  BY <1>1 DEF IInv, TypeOK
<1>3. UNCHANGED <<content, phc, rest, isValid, pq, out>>
  BY DEF inputVars
<1>4. Once(h)' = Once(h) /\ Twice(h)' = Twice(h) /\ Expected(h)' = Expected(h)
  BY <1>3 DEF Once, Twice, Returned, Again, Expected
<1> DEFINE C == [i \in Inputs |-> CountIn(h, content[i])]
<1>5. C \in [Inputs -> Nat] /\ Expected(h) = SumFunctionOnSet(C, Inputs) /\ Expected(h) \in Nat
  BY <1>1, ExpectedSum
<1>6. Adds(h) \in Nat /\ Adds(h) <= C[top]
  <2>1. /\ phc[top].hash \in Nat /\ phc[top].count \in Nat
        /\ phc[top].count = CountIn(phc[top].hash, content[top])
    BY <1>1, <1>2, HeadCount
  <2>2. C[top] = CountIn(h, content[top]) /\ C[top] \in Nat
    BY <1>2, <1>5
  <2> HIDE DEF C
  <2> QED
    BY <2>1, <2>2 DEF Adds
<1> HIDE DEF C
<1>7. C[top] <= Expected(h) /\ C[top] \in Nat
  BY <1>2, <1>5, SumHasTerm, MergeAssumption
<1>8. Total(h) = CountIn(h, out) /\ Total(h) \in Nat
  <2>1. Total(h) \in Nat
    BY <1>1, Terms
  <2>2. CountIn(h, out) \in Nat
    BY <1>1, CountIsNat DEF IInv, TypeOK
  <2>3. Total(h) = CountIn(h, out) + 0
    BY DEF Total
  <2> QED
    BY <2>1, <2>2, <2>3
<1>9. Total(h)' = Total(h) + Adds(h)
  BY <1>3, <1>8 DEF Total, Adds
<1> DEFINE O == SumFunctionOnSet(Once(h), Inputs)
           T == SumFunctionOnSet(Twice(h), Inputs)
<1>10. O <= Total(h) /\ Total(h) <= T + 0
  BY <1>4 DEF CInv, Counted
<1>11. O \in Nat /\ T \in Nat
  BY <1>1, Terms, SumIsNat, MergeAssumption
<1> HIDE DEF O, T
<1>12. O <= Total(h)' /\ Total(h)' <= T + Expected(h)'
  BY <1>4, <1>5, <1>6, <1>7, <1>8, <1>9, <1>10, <1>11
<1> QED
  BY <1>4, <1>12 DEF O, T

\* The counts' invariant holds in every state of every merge.
LEMMA CInvariance == Spec => []CInv
<1>1. Init => CInv
  BY InitIInv, PlacesInit, InitCounted DEF CInv
<1>2. CInv /\ IInv' /\ [Next]_vars => CInv'
  <2> SUFFICES ASSUME CInv, IInv', [Next]_vars PROVE Places' /\ Counted'
    BY DEF CInv
  <2>1. ASSUME UNCHANGED <<inputVars, pq>> PROVE Places'
    BY <2>1 DEF inputVars, CInv, Places
  <2>2. ASSUME pc' \notin {"start", "merge", "done"} PROVE Counted'
    BY <2>2 DEF Counted
  <2>3. ASSUME UNCHANGED <<inputVars, pq, current, out, pc>> PROVE Counted'
    <3>1. UNCHANGED <<content, phc, rest, isValid, pq, current, out, pc>>
      BY <2>3 DEF inputVars
    <3>2. \A h \in Nat : /\ Once(h)' = Once(h) /\ Twice(h)' = Twice(h) /\ Expected(h)' = Expected(h)
                         /\ Total(h)' = Total(h)
      BY <3>1 DEF Once, Twice, Returned, Again, Expected, Total
    <3> QED
      BY <3>1, <3>2 DEF CInv, Counted
  <2>4. CASE Start
    <3>1. UNCHANGED <<inputVars, pq, top, out>>
      BY <2>4 DEF Start
    <3>2. \/ pc' \in {"returned", "threw"}
          \/ pc = "start" /\ pc' = "merge" /\ pq # {} /\ current' = phc[top]
      BY <2>4 DEF Start
    <3>3. Counted'
      BY <2>2, <3>1, <3>2, StartCounted
    <3> QED
      BY <2>1, <3>1, <3>3
  <2>5. CASE Turn
    BY <2>5, PlacesTurn, TurnCounted DEF CInv
  <2>6. CASE Stop
    BY <2>1, <2>2, <2>6 DEF Stop
  <2>7. CASE Cancel
    BY <2>1, <2>3, <2>7 DEF Cancel
  <2>8. CASE UNCHANGED vars
    BY <2>1, <2>3, <2>8 DEF vars
  <2> QED
    BY <2>4, <2>5, <2>6, <2>7, <2>8 DEF Next
<1> QED
  BY <1>1, <1>2, Invariance, PTL DEF Spec

\* Once the queue is empty next() has returned every record of every input, so
\* the bounds of the invariant are those of the inputs.
LEMMA DoneBounded == CInv => CountsBounded
<1> SUFFICES ASSUME CInv, pc = "done", NEW h \in Sources, 3 * Expected(h) < CountMod
             PROVE  CountIn(h, out) >= Expected(h) /\ CountIn(h, out) <= 3 * Expected(h)
  BY DEF CountsBounded
<1>1. IInv /\ Places
  BY DEF CInv
<1>2. h \in Nat
  BY <1>1, Fields DEF Sources, IInv, TypeOK
<1> DEFINE C == [i \in Inputs |-> CountIn(h, content[i])]
           O == Once(h)
           T == Twice(h)
           S(F) == SumFunctionOnSet(F, Inputs)
<1>3. C \in [Inputs -> Nat] /\ Expected(h) = S(C) /\ Expected(h) \in Nat
  BY <1>1, <1>2, ExpectedSum
<1>4. O \in [Inputs -> Nat] /\ T \in [Inputs -> Nat] /\ Total(h) \in Nat
  BY <1>1, <1>2, Terms
<1>5. \A i \in Inputs : i \notin isValid /\ rest[i] = <<>>
  BY <1>1 DEF IInv, Order, Tails, Places
<1>6. \A i \in Inputs : O[i] = C[i] /\ T[i] <= 2 * C[i]
  <2> TAKE i \in Inputs
  <2>1. /\ O[i] = IF Returned(i, h) THEN C[i] ELSE 0
        /\ T[i] = O[i] + (IF Again(i, h) THEN C[i] ELSE 0)
    BY DEF Once, Twice
  <2>2. phc[i].hash \in Nat /\ (HashIn(h, content[i]) => ~(h > phc[i].hash))
    BY <1>1, <1>2, <1>5, HeadCount
  <2>3. Returned(i, h) \/ h > phc[i].hash
    BY <1>2, <1>5, <2>2 DEF Returned
  <2>4. h > phc[i].hash => C[i] = 0
    BY <2>2 DEF CountIn
  <2>5. C[i] \in Nat
    BY <1>3
  <2> HIDE DEF C, O, T
  <2> QED
    BY <2>1, <2>3, <2>4, <2>5
<1>7. Total(h) = CountIn(h, out) + 0 /\ CountIn(h, out) \in Nat
  BY <1>1, CountIsNat DEF Total, IInv, TypeOK
<1>8. S(O) <= Total(h) /\ Total(h) <= S(T) + Expected(h)
  BY <1>2 DEF CInv, Counted
<1> HIDE DEF C, O, T
<1>9. O = C
  BY <1>3, <1>4, <1>6
<1>10. S(T) <= 2 * S(C) /\ S(T) \in Nat
  BY <1>3, <1>4, <1>6, SumScaled, SumIsNat, MergeAssumption
<1> HIDE DEF S
<1> QED
  BY <1>3, <1>7, <1>8, <1>9, <1>10

\* A merge that ends by itself (mergeoperation.cpp's loop over next()) gives
\* every hash at least the count its inputs have together, and at most three
\* times that, for any inputs whose sums fit into a count: what next() returns
\* twice is never more than the last record of an input and the first of all.
THEOREM CountsKept == Spec => []CountsBounded
<1> QED
  BY CInvariance, DoneBounded, PTL

=============================================================================
