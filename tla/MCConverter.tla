---------------------------- MODULE MCConverter -----------------------------
(* Two input files that can be read, a/x.txt and b/x.txt with the stem       *)
(* <<100>>, and one that cannot; x-0001.md5 is <<100, 1>>.                   *)
EXTENDS Converter, TLC

CONSTANTS o1, o2, o3

\* The passwords of the files; a hash is the place of its password here.
Passwords == << <<"a">>, <<"b">>, <<"a", "b">>, <<"md5(a)">>, <<"md5?">>, <<"hex(b)">>,
                <<"hex(a?)">>, <<"a", ";", "b">>, <<"u", ":", "b">>, <<"u", "b">> >>
MCMD5(p) == CHOOSE i \in 1..Len(Passwords) : Passwords[i] = p

\* MD5(<<"a">>) = 1 is the bytes 0 and 1.
MCPairs == ("md5(a)" :> <<0, 1>>) @@ ("md5?" :> <<3, -1>>)
           @@ ("hex(b)" :> <<2>>) @@ ("hex(a?)" :> <<1, -1>>)
MCChar == (0 :> "?") @@ (1 :> "a") @@ (2 :> "b") @@ (3 :> "?")

\* Most lines of the first are split by a colon, and one has a semicolon in its
\* password; two are encoded, one is too long and one is empty.  The second file
\* has a tie of two separators and a line that breaks off; its third line shows
\* both encodings.
ThreeInputs ==
    (o1 :> << <<"u", ":", "a", ";", "b", "\r">>, <<"u", ":", "md5(a)">>, <<"u", ":", "long">>,
              <<"u", ":", "hex(b)", "\r">>, <<>> >>)
    @@ (o2 :> << <<"hex(a?)">>, <<"u", ":", "b">>, <<"hex(b)", " ", "md5?">> >>)
    @@ (o3 :> << <<>> >>)

\* Two of the same name from two directories.
ThreeStems == (o1 :> <<100>>) @@ (o2 :> <<100>>) @@ (o3 :> <<300>>)

\* Nothing, every encoding forced, every encoding if found.
ThreeOptions == {{}, {"forceEvaluateMD5Hashes", "forceEvaluateHexEncodedPasswords"},
                 {"autoEvaluateMD5Hashes", "autoEvaluateHexEncodedPasswords"}}

\* Left over from an earlier conversion of x.txt.
Before == <<100, 1>> :> <<[hash |-> 2, count |-> 1]>>
=============================================================================
