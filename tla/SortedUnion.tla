---------------------------- MODULE SortedUnion -----------------------------
(***************************************************************************)
(* What a merge promises about the hashes it writes: those of its sources, *)
(* each once, the smallest first, until all are written or it gives up.    *)
(***************************************************************************)
EXTENDS Integers, Sequences

VARIABLES source,    \* the hashes of all inputs
          written,   \* the hashes in the output, in file order
          state      \* "running", "done" or "abandoned"

vars == <<source, written, state>>

\* The hashes that are in a sequence.
In(s) == {s[m] : m \in 1..Len(s)}

Init == written = <<>> /\ state = "running" /\ source \subseteq Nat

\* The smallest hash that is missing is written; with the last one the merge
\* is done.
Write ==
    /\ state = "running"
    /\ \E h \in source \ In(written) :
         /\ \A g \in source \ In(written) : h <= g
         /\ written' = Append(written, h)
    /\ state' = IF source \subseteq In(written') THEN "done" ELSE "running"
    /\ UNCHANGED source

Abandon ==
    /\ state = "running"
    /\ state' = "abandoned"
    /\ UNCHANGED <<source, written>>

Next == Write \/ Abandon

Spec == Init /\ [][Next]_vars
=============================================================================
