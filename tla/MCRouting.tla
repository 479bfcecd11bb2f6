------------------------------ MODULE MCRouting ------------------------------
(* Routes like those main adds, and some that share their prefixes. *)
EXTENDS Routing

Component == {"test", "admin", "a", ".."}
AllNames == Component \cup {"login", "webroot", "srv", "html", "index.html"}
AllUris == UNION {[1..n -> Component] : n \in 1..5}

R(prefix, methods, webroot) == [prefix |-> prefix, methods |-> methods, webroot |-> webroot]
SomeRoutes ==
    << R(<<"test">>, {"POST", "DELETE"}, <<"webroot">>),
       R(<<"test">>, {"GET"}, <<"webroot">>),
       R(<<"login">>, {"POST"}, <<>>),
       R(<<"admin">>, {"GET"}, <<"srv", "html">>),
       R(<<"test", "a">>, {"GET"}, <<"srv", "html">>),
       R(<<"a", "test">>, {"POST"}, <<>>),
       R(<<"a", "a">>, {"POST", "GET"}, <<"html">>) >>
SomeMethods == {"GET", "POST", "DELETE", "HEAD"}
BothDots == {".", ".."}
=============================================================================
