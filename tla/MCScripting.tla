----------------------------- MODULE MCScripting -----------------------------
(***************************************************************************)
(* The scripts of a request, and the request as their helpers see it and   *)
(* change it, each on instances of its own: a behaviour runs one of the    *)
(* two, the other rests.                                                   *)
(***************************************************************************)
EXTENDS ScriptRequest, ScriptRun

-----------------------------------------------------------------------------
(* The request: heads, and the operations a script applies to them.          *)

MCDecode == [c \in {"%.", "%/", "%a", "%&", "%="} |->
               CASE c = "%." -> "." [] c = "%/" -> "/" [] c = "%a" -> "a" [] c = "%&" -> "&" [] c = "%=" -> "="]
MCLower == [c \in {"A"} |-> "a"]

XA == <<"x", "a">>
XB == <<"x", "b">>
V == <<"v">>
W == <<"w">>
VW == <<"v", "w">>

P(path, query, headers) == [method |-> <<"get">>, path |-> path, query |-> query, uri |-> Target(path, query), headers |-> headers]
XC == <<"x", "c">>
Two == [n \in {Host, XA, XB, XC} |->
          CASE n = Host -> <<V>> [] n = XA -> <<V, VW>> [] n = XB -> <<Opaque, W>> [] n = XC -> <<Opaque>>]
MCHeads == {P(<<"/", ".", "/", "A", "/", "/", "b">>, <<"a", "=", "b">>, Two)}

MCVars == [p \in {"{v}", "{long}"} |-> IF p = "{v}" THEN <<"a", "?", "b", "&">> ELSE <<"a", "a", "a", "a", "a">>]

MCUris == {<<>>, <<"/", "a", "/", "/", "b", "/", ".", ".", "/", "A">>, <<"/", "a", "/", "%.", ".", "/", "b", "/">>,
           <<"b", "?", "a", "=", "b", "&", "a", "=", "&", "b">>, <<"/", "%!", "?", "a", ";", "&", "b", "=", "%!">>,
           <<"/", "a", "%/", "b", "#", "a">>, <<"/", ".", ".", "/", "a">>}

MCTemplates == {<<"/", "b", "{path}">>, <<"?", "a", "=", "{v}">>, <<"?", "{query}", "&", "b", "=", "{query}">>,
                <<"/", "a", "?", "{?}", "&", "b">>, <<"{v}", "?", "#", "a">>}

UOps(prefix, suffix, substring, regexp) == [prefix |-> prefix, suffix |-> suffix, substring |-> substring, regexp |-> regexp]
MCUriOps == {UOps(<<"a">>, <<>>, <<>>, <<>>), UOps(<<"/", "A", "/">>, <<>>, <<>>, <<>>), UOps(<<>>, <<"/", "b">>, <<>>, <<>>),
             UOps(<<>>, <<>>, <<[find |-> <<"a">>, rep |-> <<".">>, limit |-> 1]>>, <<>>),
             UOps(<<>>, <<>>, <<[find |-> <<"{?}">>, rep |-> <<"b">>, limit |-> 2]>>, <<>>),
             UOps(<<>>, <<>>, <<>>, <<[class |-> {"a", "b"}, rep |-> <<".", ".">>]>>)}

QOps(rename, set, add, replace, delete) ==
  [rename |-> rename, set |-> set, add |-> add, replace |-> replace, delete |-> delete]
A1 == <<"a">>
B1 == <<"b">>
RepOp(search, class, rep) == [search |-> search, class |-> class, rep |-> rep]
MCQueryOps == {QOps(<<>>, <<>>, <<>>, <<>>, <<>>),
               QOps(<<<<A1, B1>>, <<B1, <<>>>>>>, <<>>, <<<<B1, <<"{v}">>>>>>, <<>>, <<>>),
               QOps(<<>>, <<<<<<"{v}">>, A1>>>>, <<>>, <<RepOp(B1, {}, <<"=", "&">>)>>, <<A1>>),
               QOps(<<>>, <<<<A1, B1>>, <<<<>>, A1>>>>, <<<<A1, A1>>>>, <<RepOp(<<>>, {"a"}, <<>>)>>, <<<<>>>>),
               QOps(<<>>, <<>>, <<>>, <<RepOp(<<>>, {"bad"}, <<>>)>>, <<>>)}

Ed(f, name, value) == [f |-> f, name |-> name, value |-> value]
MCHeaderEdits == {Ed("set", XA, W), Ed("set", Host, <<"nl">>), Ed("append", XA, W),
                  Ed("append", XB, V), Ed("delete", <<"x", "*">>, <<>>), Ed("delete", <<"*">>, <<>>)}

HOps(delete, add, set, replace) == [delete |-> delete, add |-> add, set |-> set, replace |-> replace]
MCHeaderOps == {HOps(<<<<"*">>>>, <<<<XA, <<V, W>>>>>>, <<>>, <<>>),
                HOps(<<<<"*", "b", "*">>>>, <<<<XB, <<W>>>>>>, <<<<XA, <<V, <<"{?}">>>>>>>>, <<>>),
                HOps(<<>>, <<<<XA, <<<<"{long}">>>>>>>>, <<<<XB, <<<<>>>>>>>>, <<>>),
                HOps(<<<<"{?}">>>>, <<>>, <<>>, <<<<<<"*">>, <<RepOp(V, {}, W), RepOp(<<>>, {"w"}, VW)>>>>>>),
                HOps(<<>>, <<>>, <<>>, <<<<XA, <<RepOp(W, {}, <<"nl">>), RepOp(<<>>, {"bad"}, V)>>>>>>)}

PR(uri, ops, query) == [uri |-> uri, ops |-> ops, query |-> query]
NoOps == UOps(<<>>, <<>>, <<>>, <<>>)
MCProxyRewrites == {PR(<<"/", "b", "{path}">>, NoOps, None), PR(<<>>, UOps(<<"a">>, <<>>, <<>>, <<>>), Some(QOps(<<>>, <<>>, <<>>, <<>>, <<A1>>))),
                    PR(<<"{?}", "?">>, NoOps, None)}

MCPathPatterns == {<<"/", "a", "*">>, <<"*", "b">>, <<"*", "a", "*">>, <<"/", "a", "/", "/", "*">>, <<"/", "*", "/", "b">>,
                   <<"/", "%a", "*">>, <<"/", "a", "%/", "%*">>, <<"/", "a", "/", "b">>}

-----------------------------------------------------------------------------
(* The scripts: two of them, one with an entry that others call.             *)

MCScripts == <<"a", "b">>
MCCallable == {<<"b", "f">>}
MCAsked == {<<"b", "f">>, <<"c", "g">>}
MCCredentials == {<<>>, <<"u1", "p1">>, <<"u2", "fake">>}
MCAccounts == [u \in {"u1"} |-> "p1"]

-----------------------------------------------------------------------------
VARIABLE running   \* the component that runs

vars == <<running, requestVars, runVars>>

\* A request for the root, which nobody looks at; scripts that have not begun.
RestingHead == P(<<"/">>, <<>>, [n \in {Host} |-> <<V>>])
RestingRequest == build_script_request(RestingHead)
RequestRests == /\ head = RestingHead /\ req = RestingRequest /\ memo = None /\ matched = None
                /\ stage = "failed" /\ pass = 1 /\ calls = 0
RunRests == RunInit /\ shared.auth = <<>>

Init == \/ running = "request" /\ RequestInit /\ RunRests
        \/ running = "scripts" /\ RequestRests /\ RunInit

Next == /\ UNCHANGED running
        /\ \/ running = "request" /\ RequestNext /\ UNCHANGED runVars
           \/ running = "scripts" /\ RunNext /\ UNCHANGED requestVars

Spec == Init /\ [][Next]_vars
=============================================================================
