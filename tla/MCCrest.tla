------------------------------ MODULE MCCrest ------------------------------
(* An instance of Crest for TLC.  The patterns overlap in every way that    *)
(* the router tells apart; two of them are the same but for a name.         *)
EXTENDS Crest

CONSTANTS c1

R(path, ops, checks) == [path |-> path, ops |-> ops, checks |-> checks]
SomeResources ==
    {R(<<"", "a", "b">>, {"GET"}, {}),
     R(<<"a", ":x">>, {"GET", "PUT", "POST", "DELETE"}, {"exists", "forbidden"}),
     R(<<"a", ":y">>, {"GET"}, {"authorized", "accepts"}),
     R(<<"a", "*">>, {"PUT", "POST"}, {"exists", "accepts"}),
     R(<<":x", "b", "c">>, {"GET", "POST"}, {}),
     R(<<"*x", "b">>, {"GET"}, {"authorized"}),
     R(<<>>, {"GET"}, {})}

Url == {<<"">>, <<"a">>, <<"a", "", "b">>, <<"a", "c", "?", "b">>, <<"a", "b", "c">>,
        <<"b", "b", "c">>, <<"b", "b">>}
SomeRequests ==
    [url : Url, method : {"GET", "PUT"}, length : {0}, bytes : {0}]
    \cup [url : {<<"a", "b">>, <<"a", "c">>}, method : {"POST", "DELETE", "unsupported"},
          length : {-1, 2}, bytes : {1, 2, 3}]
=============================================================================
