-------------------------------- MODULE URI ---------------------------------
(***************************************************************************)
(* URI (pwned-server/uri.cpp): the addresses of pwned-server and of the    *)
(* load test, and the targets of HTTP requests.  Text is a sequence of     *)
(* tokens: the characters that have a meaning here, and words between      *)
(* them.  The groups of the regular expression are a record; an address    *)
(* it does not match is NoMatch.                                           *)
(***************************************************************************)
EXTENDS Integers, Sequences, FiniteSets, SequencesExt

CONSTANT IntMax  \* std::numeric_limits<int>::max()

ASSUME URIAssumption == IntMax \in Nat

NoMatch == [matched |-> FALSE]

\* SchemeToPort, and the range of port_type
SchemeToPort == [s \in {"http", "https"} |-> IF s = "http" THEN 80 ELSE 443]
PortModulus == 65536

\* boost::split(): never empty, one more part than separators
Split(text, sep) ==
    LET cuts == {0, Len(text) + 1} \cup {i \in 1..Len(text) : text[i] = sep}
        cut(k) == CHOOSE i \in cuts : Cardinality({j \in cuts : j < i}) = k
    IN [k \in 1..(Cardinality(cuts) - 1) |-> SubSeq(text, cut(k - 1) + 1, cut(k) - 1)]

\* The parameters key=value among the parts of a query.
KeyValues(text) ==
    LET params == Split(text, "&")
    IN {i \in 1..Len(params) : Len(Split(params[i], "=")) = 2}

\* mQuery: of several values of a key, the last one
Query(text) ==
    LET params == Split(text, "&")
        pair(i) == Split(params[i], "=")
    IN [key \in {pair(i)[1] : i \in KeyValues(text)} |->
          LET uses == {i \in KeyValues(text) : pair(i)[1] = key}
          IN pair(CHOOSE i \in uses : \A j \in uses : j <= i)[2]]

\* std::stoi() throws std::out_of_range; -1 stands for no port.
ParseThrows(m) == m.matched /\ m.port > IntMax

\* parse().  An address without user:password, or without a query, is split
\* into one part, which is not two, and so it is not valid; one that is no URI
\* at all stays valid.
Parse(m) ==
    IF ~m.matched
    THEN [valid |-> TRUE, scheme |-> "", credentials |-> << <<>>, <<>> >>, host |-> <<>>, port |-> 0,
          path |-> <<>>, query |-> <<>>, fragment |-> <<>>]
    ELSE LET kv == Split(m.credentials, ":")
    IN   [valid |-> Len(kv) = 2 /\ Cardinality(KeyValues(m.query)) = Len(Split(m.query, "&")),
          credentials |-> IF Len(kv) = 2 THEN kv ELSE << <<>>, <<>> >>,
          scheme |-> m.scheme, host |-> m.host,
          port |-> IF m.port # -1 THEN m.port % PortModulus
                   ELSE IF m.scheme \in DOMAIN SchemeToPort THEN SchemeToPort[m.scheme] ELSE 0,
          path |-> m.path, query |-> Query(m.query), fragment |-> m.fragment]

\* parseTarget(): what follows a second question mark is dropped.
ParseTarget(target) ==
    LET pathAndQuery == Split(target, "?")
        rest == IF Len(pathAndQuery) > 1 THEN Split(pathAndQuery[2], "#") ELSE << <<>> >>
    IN [path |-> pathAndQuery[1], query |-> Query(rest[1]),
        fragment |-> IF Len(rest) > 1 THEN rest[2] ELSE <<>>]

=============================================================================
