------------------------------ MODULE MCServing ------------------------------
(***************************************************************************)
(* A request through the compiled program of a Caddy configuration, and a  *)
(* request for a file, each on instances of its own: a behaviour runs one  *)
(* of the two, the other rests.                                            *)
(***************************************************************************)
EXTENDS FileServer, CaddyRoutes

-----------------------------------------------------------------------------
(* Files: three site generations (the second a rollback with older dates,    *)
(* where a directory has become a file), one file of the exposed filesystem  *)
(* that changes, a slot with the full set of requests and one with a few.    *)

File(size, mtime, etag) == [size |-> size, mtime |-> mtime, etag |-> etag, text |-> TRUE]

MCSlots == {1, 2}
MCAddrs == {1, 2, 3}
MCSites == <<
  (<<"a">> :> File(3, 5, 11) @@ <<"a.gz">> :> File(3, 5, 12)
   @@ <<"d", "index">> :> File(1, 7, 13) @@ <<"d", "h">> :> File(2, 0, 14)
   @@ <<"e", "x">> :> File(0, 6, 15) @@ <<"b.html">> :> File(1, 6, 16)
   @@ <<".zeroserve", "s">> :> File(1, 5, 17)),
  (<<"a">> :> File(2, 3, 21) @@ <<"d">> :> File(3, 3, 22)
   @@ <<"d.gz">> :> File(1, 4, 23)),
  (<<"a">> :> File(3, 5, 31) @@ <<"e", "index">> :> File(2, 6, 32)) >>

MCDecode == [x \in {"", "a", "d", "e", "h", "x", "b", "f", "g", "k", "l", "m", "p", "s", "index", "no", ".zeroserve", "b.html",
                    ".", "..", "%2e%2e", "%2f", "%zz"} |->
               CASE x = "%2e%2e" -> ".." [] x = "%2f" -> "/" [] x = "%zz" -> "!"
                 [] OTHER -> x]
NamesInOrder == <<".zeroserve", "a", "a.gz", "b.html", "d", "d.gz", "e", "f", "g", "gz", "h",
                  "index", "k", "l", "m", "p", "s", "x">>
MCRank == [n \in ToSet(NamesInOrder) |->
             CHOOSE i \in DOMAIN NamesInOrder : NamesInOrder[i] = n]

MCFsRoot == <<"srv">>
MCFsTree == <<>> :> "dir" @@ <<"f">> :> "file" @@ <<"f", "gz">> :> "none"
            @@ <<"p">> :> "denied" @@ <<"g">> :> "dir" @@ <<"g", "index">> :> "file"
            @@ <<"k">> :> "dir" @@ <<"l">> :> "locked" @@ <<"m">> :> "broken"
MCDisks == {[size |-> 3, mtime |-> 5], [size |-> 1, mtime |-> 6]}
MCFsFile == <<"f">>

Hide == {[kind |-> "name", names |-> {"h"}, path |-> <<>>],
         [kind |-> "path", names |-> {}, path |-> <<"e", "x">>]}
Plain == [kind |-> "static", root |-> <<>>, hide |-> {}, index |-> <<"index">>,
          canonical |-> TRUE, browse |-> FALSE, passThru |-> FALSE, fileLimit |-> 0,
          precompressed |-> <<>>, encode |-> <<>>, status |-> 0, tryHtml |-> TRUE,
          template |-> FALSE, try |-> <<>>, policy |-> "first_exist"]
Tar == [Plain EXCEPT !.kind = "tar", !.hide = Hide]
Fs == [Plain EXCEPT !.kind = "fs", !.hide = Hide]

Get(path, cfg) ==
  [method |-> "GET", path |-> path, seen |-> path, orig |-> path, inm |-> <<>>, im |-> <<>>,
   ims |-> 0, ius |-> 0, ifrange |-> [k |-> "absent", v |-> 0],
   range |-> [k |-> "absent", parts |-> <<>>], accept |-> <<>>, cfg |-> cfg,
   proto |-> "h1", errStatus |-> 0, offset |-> 0, limit |-> <<>>]

PA == <<"", "a">>
Paths == {PA, <<"", "">>, <<"", "d">>, <<"", "d", "">>, <<"", "d", "h">>,
          <<"", "e", "">>, <<"", "e", "x">>, <<"", "no", "">>, <<"", "b">>,
          <<"", ".zeroserve", "s">>, <<"", "a", "">>, <<"", "b.html">>,
          <<"", "d", "..", "a">>, <<"", "%2e%2e", "a">>, <<"", "d", "%2f">>, <<"", "%zz">>}

\* Which entry: every path, served plainly, with pass_thru, and with browsing.
Lookups ==
  {Get(p, c) : p \in Paths,
     c \in {Plain, [Tar EXCEPT !.passThru = TRUE],
            [Tar EXCEPT !.browse = TRUE, !.passThru = TRUE],
            [Tar EXCEPT !.browse = TRUE, !.canonical = FALSE],
            [Tar EXCEPT !.root = <<"d">>, !.passThru = TRUE],
            [Tar EXCEPT !.root = <<".", "d">>, !.passThru = TRUE]}}
  \cup {[Get(PA, [Tar EXCEPT !.passThru = TRUE]) EXCEPT !.errStatus = 404, !.seen = p] :
           p \in {PA, <<"", "no">>}}

\* Which of them: the filesystem.
FsLookups ==
  {[Get(p, [Fs EXCEPT !.passThru = b, !.browse = b]) EXCEPT !.proto = h] :
     p \in {<<"", "f">>, <<"", "g", "">>, <<"", "k", "">>, <<"", "p">>, <<"", "no">>,
            <<"", "l", "">>, <<"", "m", "">>, <<"", "">>},
     b \in BOOLEAN, h \in {"h1", "h2"}}

\* Which bytes.
Part(k, a, b) == [k |-> k, a |-> a, b |-> b]
Bytes(parts) == [k |-> "bytes", parts |-> parts]
Ranges ==
  {Bytes(<<Part("range", a, b)>>) : a \in 0..3, b \in 0..4}
  \cup {Bytes(<<Part(k, a, 0)>>) : k \in {"open", "suffix"}, a \in 0..4}
  \cup {Bytes(<<Part("bad", 0, 0)>>), Bytes(<<>>), [k |-> "other", parts |-> <<>>],
        Bytes(<<Part("open", 9, 0), Part("range", 1, 1)>>),
        Bytes(<<Part("range", 0, 0), Part("range", 2, 2)>>)}
Ranged ==
  {[Get(PA, c) EXCEPT !.range = r] : r \in Ranges,
     c \in {Plain, Tar, [Tar EXCEPT !.encode = <<"zstd", "gzip">>]}}
  \cup {[Get(<<"", "f">>, Fs) EXCEPT !.range = Bytes(<<Part("open", 1, 0)>>)]}
  \cup {[Get(PA, Tar) EXCEPT !.range = Bytes(<<Part("open", 1, 0)>>),
                             !.ifrange = f] :
          f \in {[k |-> "tag", v |-> 11], [k |-> "tag", v |-> 9],
                 [k |-> "date", v |-> 5], [k |-> "weak", v |-> 0]}}

\* Whether to send it.
Tag(t, w) == [k |-> "tag", tag |-> t, weak |-> w]
Star == [k |-> "star", tag |-> 0, weak |-> FALSE]
Bad == [k |-> "bad", tag |-> 0, weak |-> FALSE]
Tags == {<<Tag(11, FALSE)>>, <<Tag(9, FALSE), Tag(31, TRUE)>>, <<Bad, Tag(11, FALSE)>>,
         <<Star>>}
Conditional ==
  {[Get(PA, c) EXCEPT !.method = m, !.inm = t, !.ims = d] :
     c \in {Plain, Tar}, m \in {"GET", "HEAD"}, t \in Tags \cup {<<>>}, d \in {0, 5}}
  \cup {[Get(PA, Tar) EXCEPT !.method = m, !.im = t, !.ius = d] :
     m \in {"GET", "POST"}, t \in Tags \cup {<<>>}, d \in {0, 4}}
  \cup {[Get(<<"", x, "">>, [c EXCEPT !.browse = TRUE]) EXCEPT !.inm = t, !.ims = d] :
     x \in {"e", "k"}, c \in {Tar, Fs}, t \in {<<>>, <<Tag(9, FALSE)>>}, d \in {5, 7}}
  \cup {[Get(PA, [Tar EXCEPT !.status = 404]) EXCEPT !.inm = <<Star>>],
        [Get(PA, Tar) EXCEPT !.method = "POST", !.errStatus = 404]}

\* In which encoding.
Acc(e, q) == [enc |-> e, q |-> q]
Encoded ==
  {[Get(p, c) EXCEPT !.accept = a, !.method = m, !.proto = h] :
     p \in {PA, <<"", "d">>}, m \in {"GET", "HEAD"}, h \in {"h1", "h2"},
     a \in {<<Acc("gzip", 10)>>, <<Acc("gzip", 5), Acc("zstd", 10)>>,
            <<Acc("gzip", 0), Acc("br", 1)>>},
     c \in {[Tar EXCEPT !.precompressed = <<"gzip">>],
            [Tar EXCEPT !.precompressed = <<"gzip">>,
                        !.hide = {[kind |-> "name", names |-> {"a.gz"}, path |-> <<>>]}],
            [Tar EXCEPT !.encode = <<"zstd", "gzip">>],
            [Tar EXCEPT !.precompressed = <<"br", "gzip">>, !.encode = <<"gzip">>]}}
  \cup {[Get(<<"", "f">>, [Fs EXCEPT !.encode = <<"gzip">>])
           EXCEPT !.accept = <<Acc("gzip", 10)>>, !.proto = h] : h \in {"h1", "h2"}}
  \cup {[Get(PA, Plain) EXCEPT !.proto = "h2"]}

\* The listing window, the file matcher, and a templated page.
Cand(k, p, d) == [k |-> k, path |-> p, dir |-> d]
Rooted == [Tar EXCEPT !.root = <<"d">>, !.try = <<Cand("uri", <<>>, FALSE),
                                                 Cand("path", <<"index">>, FALSE)>>]
Others ==
  {Get(p, [Rooted EXCEPT !.root = t, !.policy = y]) :
     p \in {PA, <<"", "h">>}, t \in {<<"d">>, <<".", "d">>},
     y \in {"first_exist", "first_exist_fallback"}} \cup
  {[Get(<<"", "">>, [Tar EXCEPT !.browse = TRUE, !.fileLimit = f])
      EXCEPT !.offset = o, !.limit = l] :
     o \in 0..4, l \in {<<>>} \cup {<<n>> : n \in 0..4}, f \in {0, 2}}
  \cup {Get(p, [Tar EXCEPT !.try = t, !.policy = y]) :
     p \in {PA, <<"", "no">>, <<"", "no", "">>, <<"", "d">>},
     t \in {<<Cand("uri", <<>>, FALSE), Cand("uri", <<"index">>, FALSE)>>,
            <<Cand("uri", <<>>, TRUE), Cand("path", <<"a">>, FALSE)>>,
            <<Cand("uri", <<>>, FALSE), Cand("error", <<>>, FALSE)>>},
     y \in {"first_exist", "first_exist_fallback", "smallest_size", "largest_size",
            "most_recently_modified"}}
  \cup {Get(PA, [Plain EXCEPT !.template = TRUE])}

\* One request of any kind, or two that share the handle cache and the disk.
MCWorkloads ==
  {<<<<r>>, <<>>>> : r \in Lookups \cup FsLookups \cup Ranged \cup Conditional
                           \cup Encoded \cup Others}
  \cup {<<<<Get(PA, Plain)>>, <<Get(PA, Tar)>>>>}

-----------------------------------------------------------------------------
(* Routes: configurations that use every handler and matcher, in the         *)
(* combinations the emitted program treats differently, and the requests     *)
(* they tell apart.                                                          *)

\* matchers
Hs(x)     == [k |-> "host", vs |-> <<[hosts |-> {x}, exact |-> TRUE]>>]
AnyHost   == [k |-> "host", vs |-> <<[hosts |-> {"a", "b"}, exact |-> FALSE]>>]
Pt(x)     == [k |-> "path", vs |-> <<{x}>>]
GetOnly   == [k |-> "method", vs |-> <<"GET">>]
Rx(p)     == [k |-> "path_regexp", p |-> p]
HdrRx     == [k |-> "header_regexp", name |-> "h", p |-> {"v"}]
VarRx     == [k |-> "vars_regexp", p |-> {"set"}]
Hdr(kd)   == [k |-> "header", fields |-> <<[name |-> "h", kind |-> kd, vs |-> <<{"v"}>>]>>]
Qry(fs)   == [k |-> "query", fields |-> fs]
Fld(kd, vs) == [name |-> "q", kind |-> kd, vs |-> vs]
Ip        == [k |-> "remote_ip", vs |-> <<{1}>>]
Cip       == [k |-> "client_ip", vs |-> <<{1}>>]
Var(v)    == [k |-> "vars", fields |-> <<[name |-> "var", vs |-> <<v>>]>>]
Proto(p)  == [k |-> "protocol", proto |-> p]
Tls       == [k |-> "tls", complete |-> TRUE]
Fl(try)   == [k |-> "file", try |-> try]
F(f)      == [file |-> f, status |-> 0]
St(n)     == [file |-> "", status |-> n]
Ex(a)     == [k |-> "expression", ast |-> a]
Not(s)    == [k |-> "not", sets |-> <<s>>]
And(a, b) == [k |-> "and", l |-> a, r |-> b]
Or(a, b)  == [k |-> "or", l |-> a, r |-> b]
Neg(a)    == [k |-> "neg", x |-> a]
Call(m)   == [k |-> "call", m |-> m]
CapIs(v)  == [k |-> "eq", key |-> "cap", v |-> v, equal |-> TRUE]
PathIn(s) == [k |-> "in", key |-> "path", vs |-> s]
PathLike(s) == [k |-> "matches", key |-> "path", p |-> s]
ErrGe(n)  == [k |-> "num", op |-> ">=", r |-> n]
ErrCmp(op, n) == [k |-> "num", op |-> op, r |-> n]

\* handlers
Reply(n, st)  == [h |-> "static_response", n |-> n, abort |-> FALSE, status |-> st]
AbortWith(n)  == [h |-> "static_response", n |-> n, abort |-> TRUE, status |-> 0]
Err(n, st)    == [h |-> "error", n |-> n, status |-> st]
Auth(n)       == [h |-> "authentication", n |-> n]
Script(n)     == [h |-> "zeroserve_call", n |-> n, sethost |-> "b"]
Headers(n, q, r) == [h |-> "headers", n |-> n, req |-> q, resp |-> r, sts |-> {}]
Rewrite(n, p) == [h |-> "rewrite", n |-> n, path |-> p]
BodyMax(n)    == [h |-> "request_body", n |-> n, max |-> 1]
Vars(n, v)    == [h |-> "vars", n |-> n, val |-> v]
Encode(n)     == [h |-> "encode", n |-> n]
Files(n, p)   == [h |-> "file_server", n |-> n, pass |-> p]
Proxy(n, hr)  == [h |-> "reverse_proxy", n |-> n, hr |-> hr]
Intercept(n, hr) == [h |-> "intercept", n |-> n, hr |-> hr]
Sub(n, rs, es) == [h |-> "subroute", n |-> n, routes |-> rs, errors |-> es]
Invoke(n)     == [h |-> "invoke", n |-> n]
On(sts, st, rs) == [sts |-> sts, status |-> st, routes |-> rs]

\* routes
R(sets, hs)    == [sets |-> sets, group |-> "", terminal |-> FALSE, hs |-> hs]
T(sets, hs)    == [sets |-> sets, group |-> "", terminal |-> TRUE, hs |-> hs]
G(g, sets, hs) == [sets |-> sets, group |-> g, terminal |-> FALSE, hs |-> hs]
C(rs, es, named) == [routes |-> rs, errors |-> es, named |-> named, policy |-> FALSE]
NoNamed == R(<<>>, <<>>)
Final(n) == T(<<>>, <<Reply(n, 0)>>)
Fwd(n)  == Proxy(n, <<On({200}, -1, <<R(<<>>, <<Vars(90, "set")>>)>>)>>)

MCConfigs == <<
  \* the exact-host switch
  C(<<T(<<<<Hs("a")>>>>, <<Headers(1, "b", "now"), Reply(2, 201)>>), T(<<<<Hs("b")>>>>, <<Files(3, TRUE)>>)>>, <<>>, NoNamed),
  [C(<<T(<<<<Hs("a")>>>>, <<AbortWith(1)>>), R(<<<<AnyHost>>>>, <<BodyMax(2), Encode(3), Files(4, FALSE)>>)>>, <<>>, NoNamed)
      EXCEPT !.policy = TRUE],
  \* groups, a rewrite between them, and a nested group
  C(<<G("g", <<<<Pt("/")>>>>, <<Rewrite(1, "/x")>>), G("g", <<<<Pt("/x")>>>>, <<Reply(2, 202)>>),
      R(<<>>, <<Sub(3, <<G("k", <<>>, <<Vars(4, "set")>>), G("k", <<>>, <<Reply(5, 0)>>),
                         T(<<<<Var("set"), VarRx>>>>, <<Invoke(6)>>)>>, <<>>)>>)>>, <<>>,
    G("k", <<>>, <<Reply(7, 207)>>)),
  \* the host changed between routes
  C(<<R(<<<<Hs("a")>>>>, <<Headers(1, "b", "deferred")>>), R(<<<<Hs("b")>>>>, <<Script(2), Sub(3, <<T(<<<<Hs("a")>>>>, <<Reply(4, 204)>>)>>, <<>>)>>),
      T(<<<<Not(<<Hs("a")>>)>>>>, <<Reply(5, 205)>>)>>, <<Final(6)>>, NoNamed),
  \* errors of handlers, inside subroutes with and without error routes
  C(<<R(<<>>, <<Headers(1, "none", "deferred"), Sub(2, <<R(<<<<GetOnly>>>>, <<Auth(3), Script(4)>>)>>, <<R(<<<<Ex(ErrGe(418))>>>>, <<Reply(5, 0)>>), T(<<>>, <<>>)>>)>>),
      R(<<<<Pt("/x")>>>>, <<Err(6, 410)>>), R(<<>>, <<Files(7, FALSE)>>)>>,
    <<R(<<<<Ex(ErrGe(404))>>>>, <<Headers(8, "none", "deferred")>>), T(<<>>, <<>>)>>, NoNamed),
  C(<<R(<<>>, <<Auth(1), Files(2, TRUE), Sub(3, <<R(<<<<Pt("/")>>>>, <<Err(4, 404)>>), R(<<>>, <<Reply(5, 0)>>)>>, <<>>)>>)>>,
    <<R(<<<<Ex(ErrGe(404))>>>>, <<Reply(6, 0)>>), R(<<>>, <<Invoke(7)>>)>>, T(<<<<GetOnly>>>>, <<Reply(8, 208)>>)),
  C(<<R(<<>>, <<Auth(1), Script(2), Err(3, 500)>>)>>, <<>>, NoNamed),
  C(<<R(<<>>, <<Invoke(1)>>), R(<<<<Tls>>, <<Proto("http/1.1"), Ip>>>>, <<Reply(2, 206)>>), R(<<<<Cip>>>>, <<Files(3, FALSE)>>)>>,
    <<R(<<<<Pt("/")>>>>, <<Reply(4, 0)>>)>>, R(<<<<Pt("/x")>>>>, <<Err(5, 404)>>)),
  C(<<R(<<>>, <<Sub(1, <<R(<<>>, <<Err(2, 404)>>)>>, <<R(<<<<Pt("/")>>>>, <<Reply(4, 0)>>)>>), Reply(5, 205)>>)>>,
    <<>>, NoNamed),
  \* matcher errors and captures
  C(<<R(<<<<Fl(<<F("f"), St(404)>>), Pt("/"), Hdr("list")>>>>, <<Reply(1, 201)>>),
      R(<<<<Ex(CapIs("/x")), Rx({"/x"}), Hdr("null")>>>>, <<Reply(2, 202)>>),
      R(<<<<Ex(And(Call(Fl(<<St(403)>>)), Call(GetOnly))), HdrRx>>>>, <<Reply(3, 203)>>),
      R(<<<<Not(<<Fl(<<F("f")>>), Hdr("empty")>>)>>>>, <<Sub(4, <<R(<<<<Fl(<<F("f"), St(405)>>)>>>>, <<Reply(5, 0)>>)>>, <<>>)>>)>>,
    <<R(<<<<Ex(ErrGe(404))>>>>, <<Reply(6, 0)>>)>>, NoNamed),
  C(<<R(<<<<Qry(<<Fld("list", <<"1">>), Fld("null", <<>>)>>)>>>>, <<Reply(1, 201)>>),
      R(<<<<Qry(<<>>), Ex(PathIn({}))>>>>, <<Reply(2, 201)>>),
      R(<<<<Qry(<<Fld("list", <<"1", "2">>)>>)>>, <<Ex(Neg(Or(PathLike({"/x"}), Call(Proto("https")))))>>>>, <<Reply(3, 203)>>),
      R(<<<<GetOnly>>, <<Proto("gopher")>>>>, <<Reply(4, 204)>>), T(<<<<Qry(<<>>)>>>>, <<>>)>>, <<>>, NoNamed),
  \* proxies
  C(<<R(<<<<Pt("/")>>>>, <<Headers(1, "add", "deferred"), Rewrite(2, "/x"), Fwd(3), Headers(4, "none", "now"), Proxy(5, <<>>)>>)>>,
    <<R(<<<<Ex(ErrGe(502)), Pt("/")>>>>, <<Reply(6, 0)>>)>>, NoNamed),
  C(<<G("g", <<>>, <<Proxy(1, <<On({401}, 403, <<>>), On({200}, -1,
          <<G("g", <<>>, <<Headers(91, "a", "none")>>), G("m", <<>>, <<Vars(92, "set"), Invoke(93), Vars(94, "no")>>), G("m", <<>>, <<Vars(95, "no")>>)>>)>>),
          Reply(2, 200)>>)>>, <<>>, T(<<>>, <<Sub(96, <<R(<<<<Var("set")>>>>, <<Headers(97, "b", "none")>>)>>, <<>>)>>)),
  C(<<R(<<>>, <<Fwd(1), Fwd(2), Reply(3, 203)>>)>>, <<>>, NoNamed),
  C(<<R(<<>>, <<Intercept(1, <<On({500}, 200, <<>>), On({200}, 0, <<R(<<>>, <<Headers(2, "none", "now")>>)>>)>>), Proxy(3, <<On({401}, 0, <<>>)>>), Reply(4, 204)>>)>>,
    <<T(<<>>, <<Intercept(5, <<>>), Reply(6, 0)>>)>>, NoNamed),
  \* an error in a subroute that the error routes around it do not take
  C(<<R(<<>>, <<Sub(1, <<R(<<>>, <<Err(2, 404)>>), R(<<>>, <<Reply(3, 0)>>)>>, <<>>)>>)>>, <<R(<<<<Pt("/")>>>>, <<Reply(4, 0)>>)>>, NoNamed),
  \* the remaining protocols and comparisons; matchers of a route that cannot match
  C(<<R(<<<<Proto("http/1.0"), GetOnly>>, <<Proto("grpc"), Proto("http/2")>>>>, <<Reply(1, 201)>>),
      R(<<<<Rx({"/x"}), Cip, Proto("gopher")>>>>, <<Reply(2, 202)>>), R(<<<<Proto("http/1.1+"), Ex(CapIs("/x"))>>>>, <<Err(3, 404)>>), R(<<<<Proto("http/1.0+")>>>>, <<Err(4, 410)>>)>>,
    <<R(<<<<Ex(ErrCmp(">", 404))>>>>, <<Reply(5, 0)>>), R(<<<<Ex(ErrCmp("<=", 404)), Ex(ErrCmp("<", 425))>>>>, <<Reply(6, 206)>>)>>, NoNamed)>>

MCRequests == {
    [host |-> h, hoist |-> "", hook |-> FALSE, stale |-> FALSE, path |-> p, orig |-> p, method |-> m,
     ip |-> 1, clientip |-> 1, tls |-> t # "plain", early |-> t = "early", cert |-> t = "h2", proto |-> IF t = "h2" THEN 2 ELSE 1,
     minor |-> IF t = "h2" \/ m = "GET" THEN 0 ELSE 1, grpc |-> v # {}, nested |-> FALSE, loose |-> FALSE,
     hdr |-> [x \in {"h"} |-> v], query |-> [x \in {"q"} |-> v], files |-> {"f"} \cap v, vars |-> "", cap |-> "", err |-> 0,
     out |-> NoOut, st |-> 0, groups |-> {}, mgroups |-> {}, passed |-> <<>>, hooks |-> <<>>, early_headers |-> {},
     late_headers |-> {}, adds |-> 0, limit |-> 0, encode |-> FALSE, skip |-> {}, cont |-> FALSE, ran |-> <<>>,
     has_error |-> FALSE, cleared |-> FALSE]
    : h \in {"a", "b"}, p \in {"/", "/x"}, m \in {"GET", "PUT"}, t \in {"plain", "early", "h2"},
      v \in {{}, {"v", "1", "f"}}}

\* The outcomes of what the configuration calls.
Ups == {[n \in 1..7 |-> IF n = 5 THEN x ELSE y] : x \in {200, 0}, y \in {200, 401, 500, 0}}
Oracle(a, c, f, u) == [auth |-> a, call |-> c, file |-> f, up |-> u]
MCOracles == {Oracle(TRUE, c, f, [n \in 1..7 |-> 200]) :
                 c \in {"continue", "respond", "proxy", "abort", "error"}, f \in 0..2}
             \cup {Oracle(TRUE, "proxy", 0, [n \in 1..7 |-> 0])}
             \cup {Oracle(FALSE, c, 0, [n \in 1..7 |-> 200]) : c \in {"continue", "error"}}
             \cup {Oracle(TRUE, "continue", 0, u) : u \in Ups}

-----------------------------------------------------------------------------
VARIABLE running   \* the component that runs

vars == <<running, fileVars, routeVars>>

SomeDisk == CHOOSE d \in Disks : TRUE
SomeWork == CHOOSE w \in Workloads : TRUE
SomeProgram == CHOOSE n \in Programs : TRUE
SomeOracle == CHOOSE o \in Oracles : TRUE
SomeRequest == CHOOSE r \in Requests : TRUE

\* Two idle slots; a request that nobody answered, after the last reload.
FileRests == FileInit /\ work = SomeWork /\ disk.size = SomeDisk.size
RouteRests == /\ config = SomeProgram /\ mine = SomeProgram
              /\ orc = SomeOracle /\ cx = SomeRequest /\ arrived = SomeRequest
              /\ phase = "done" /\ reruns = 0 /\ reloads = MaxReloads

Init == \/ running = "files" /\ FileInit /\ RouteRests
        \/ running = "routes" /\ FileRests /\ RouteInit

Next == /\ UNCHANGED running
        /\ \/ running = "files" /\ FileNext /\ UNCHANGED routeVars
           \/ running = "routes" /\ RouteNext /\ UNCHANGED fileVars

Spec == Init /\ [][Next]_vars
=============================================================================
