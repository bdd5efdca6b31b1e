------------------------- MODULE UserPasswordReader -------------------------
(***************************************************************************)
(* UserPasswordReader (pwned-lib/userpasswordreader.cpp) and the           *)
(* conversions it calls (hash.cpp, util.cpp), as operators on a record: a  *)
(* stream of user:pass lines, the separator and the encodings the          *)
(* constructor found in its first lines.  The constructor reads the stream *)
(* up to three times and rewinds it each time; pwned-converter-cli and the *)
(* password extractor then read it once, line by line.                     *)
(*                                                                         *)
(* A line is a sequence of tokens: the four separators, "\r" and words,    *)
(* which have no separator in them.  A file is the sequence of its lines,  *)
(* the last one being what follows the last newline, possibly nothing.     *)
(***************************************************************************)
EXTENDS Integers, Sequences, FiniteSets, SequencesExt, FiniteSetsExt

CONSTANTS NTries,      \* nTries: how many lines the guesses look at
          LongWords,   \* words that make a line longer than 200 characters
          MD5Words,    \* words of 32 letters and digits
          HexWords,    \* words of the form $HEX[...]
          Pairs,       \* of those two kinds: the values of their pairs of
                       \* digits, negative where one is no hex digit
          Char,        \* the word a byte stands for
          ByteValues,  \* the number of byte values
          HashSize,    \* Hash::size
          MD5(_),      \* the digest of a password
          NoHash       \* Hash(): !isValid

ASSUME ReaderAssumption ==
    /\ NTries \in Nat \ {0} /\ ByteValues \in Nat \ {0} /\ HashSize \in Nat \ {0}
    /\ \A w \in MD5Words : Len(Pairs[w]) = HashSize
    /\ \A w \in HexWords : Pairs[w] # <<>>

-----------------------------------------------------------------------------
(* Conversions.                                                            *)

\* hexToCharSeq(): the bytes up to the first pair that is no byte
HexToCharSeq(seq) ==
    LET ok == {k \in 0..Len(seq) : \A i \in 1..k : seq[i] >= 0}
    IN [i \in 1..Max(ok) |-> Char[seq[i]]]

\* Hash::fromHex(): the bytes in big-endian order, valid if all of them are
FromHex(seq) ==
    IF Len(seq) = HashSize /\ \A i \in 1..Len(seq) : seq[i] >= 0
    THEN FoldLeft(LAMBDA value, byte : value * ByteValues + byte, 0, seq)
    ELSE NoHash

-----------------------------------------------------------------------------
(* The stream.                                                             *)

\* std::getline() n times: the last line ends without a newline, at eof.
Advance(r, n) == [r EXCEPT !.pos = @ + n, !.eof = (r.pos + n = Len(r.lines))]

NotRewound(r) == r

\* input.clear(), input.seekg(0)
Rewind(r) == [r EXCEPT !.pos = 0, !.eof = FALSE]

\* The lines a loop of at most nTries turns reads.
Tried(r) == SubSeq(r.lines, r.pos + 1, Min({Len(r.lines), r.pos + NTries}))

HasToken(line, Tokens) == \E i \in 1..Len(line) : line[i] \in Tokens

WithoutCR(line) == SelectSeq(line, LAMBDA t : t # "\r")

-----------------------------------------------------------------------------
(* The constructor.                                                        *)

\* In the order of their character codes, as std::map has them.
Separators == <<"\t", " ", ":", ";">>
NoSeparator == "none"

\* successfulSplits
Splits(lines, sep) == Cardinality({i \in 1..Len(lines) : HasToken(lines[i], {sep})})

\* guessSeparator(): the one that splits most of the first lines; of several
\* the one std::max_element meets first.
GuessSeparator(r) ==
    LET split(i) == Splits(Tried(r), Separators[i])
        best == {i \in 1..4 : split(i) > 0 /\ \A j \in 1..4 : split(j) <= split(i)}
    IN [Rewind(Advance(r, Len(Tried(r)))) EXCEPT
          !.separator = IF best = {} THEN NoSeparator ELSE Separators[Min(best)]]

\* Is there a line with the separator and one of these words among the first?
FoundIn(r, Words) ==
    \E i \in 1..Len(Tried(r)) :
      HasToken(Tried(r)[i], {r.separator}) /\ HasToken(Tried(r)[i], Words)

\* checkForHexEncodedPasswords(): without a look, and a rewind, when forced
CheckForHexEncodedPasswords(r) ==
    IF r.forceHex THEN r
    ELSE [Rewind(r) EXCEPT !.forceHex = r.autoHex /\ FoundIn(r, HexWords)]

\* checkForMD5Hashes(): a long word has 32 letters in a row, too.
CheckForMD5Hashes(r) ==
    [Rewind(r) EXCEPT
       !.forceMD5 = @ \/ (r.autoMD5 /\ FoundIn(r, MD5Words \cup LongWords))]

\* UserPasswordReader(inputStream, options), evaluateContents()
UserPasswordReader(lines, options) ==
    CheckForMD5Hashes(CheckForHexEncodedPasswords(GuessSeparator(
      [lines |-> lines, pos |-> 0, eof |-> FALSE, separator |-> NoSeparator,
       forceMD5 |-> "forceEvaluateMD5Hashes" \in options,
       forceHex |-> "forceEvaluateHexEncodedPasswords" \in options,
       autoMD5 |-> "autoEvaluateMD5Hashes" \in options,
       autoHex |-> "autoEvaluateHexEncodedPasswords" \in options])))

-----------------------------------------------------------------------------
(* Reading.                                                                *)

\* extractPassword(): what follows the first separator, or the whole line
ExtractPassword(r, line) ==
    LET s == WithoutCR(line)
        seps == {i \in 1..Len(s) : s[i] = r.separator}
    IN IF seps = {} THEN s ELSE SubSeq(s, Min(seps) + 1, Len(s))

\* nextPassword() of the k-th of the lines that are left; the caller advances.
\* A stream that is bad() has none left and never reaches its eof: the modules
\* that read one say so.
NextPassword(r, k) ==
    LET currentLine == r.lines[r.pos + k]
    IN IF currentLine = <<>> \/ HasToken(currentLine, LongWords)
       THEN <<>> ELSE ExtractPassword(r, currentLine)

\* std::regex_match() takes the whole password.
IsWord(pwd, Words) == Len(pwd) = 1 /\ pwd[1] \in Words

\* nextPasswordHash(): an MD5 word that is no hash is hashed as a password, and
\* of a hex word that breaks off, what comes before.
NextPasswordHash(r, k) ==
    LET pwd == NextPassword(r, k)
        hash == IF r.forceMD5 /\ pwd # <<>> /\ IsWord(pwd, MD5Words)
                THEN FromHex(Pairs[pwd[1]]) ELSE NoHash
    IN IF pwd = <<>> THEN NoHash
       ELSE IF hash # NoHash THEN hash
       ELSE IF r.forceHex /\ IsWord(pwd, HexWords) THEN MD5(HexToCharSeq(Pairs[pwd[1]]))
       ELSE MD5(pwd)

=============================================================================
