----------------------------- MODULE MCPrograms -----------------------------
(* Every program with every command line over its options; the extractor    *)
(* with two small files, restarted up to MaxStarts times.                 *)
EXTENDS PasswordExtractor, TLC

Address(path, query, port) ==
    [matched |-> TRUE, scheme |-> "http", credentials |-> <<>>, host |-> <<"127.0.0.1">>,
     port |-> port, path |-> path, query |-> query, fragment |-> <<>>]
MCIPHosts == {<<"127.0.0.1">>}
MCAddresses ==
    {NoMatch, Address(<<"/", "api">>, <<>>, 31337), Address(<<"/", "api", "/", "lookup">>, <<>>, 31337),
     Address(<<"/", "a", "&", "hash", "=", "b">>, <<"hash", "=", "c">>, -1),
     Address(<<"/", "a", "&", "hash", "=", "b", "/", "lookup">>, <<>>, 65536 + 80),
     Address(<<"/", "api">>, <<>>, 100001),
     [Address(<<"/", "api">>, <<>>, -1) EXCEPT !.host = <<"localhost">>]}

MCFiles == <<"x", "y">>
MCContents == ("x" :> << <<"u", ":", "a", "\r">>, <<"u", ":", "b", ":", "c">> >>)
              @@ ("y" :> << <<"$HEX">>, <<>> >>)
MCGarbage == {-1, 0, 7}
MCMangled == <<"?">>
MCMD5(p) == 0
MCPairs == ("$HEX" :> <<1>>)
MCChar == (1 :> "a")
=============================================================================
