----------------------------- MODULE CaddyRoutes ------------------------------
(***************************************************************************)
(* The request program the Caddy compiler emits (caddy_compile.rs), run on  *)
(* one request from its routes to its answer.                               *)
(*                                                                          *)
(* A configuration is a record [routes, errors, named, policy]: the routes  *)
(* and error routes of the server, its named routes, and the TLS client     *)
(* policy.  A route is [sets, group, terminal, hs]: matcher sets, a group   *)
(* name or "", the terminal flag and the handlers, records with their kind  *)
(* in "h" and a number "n".  An operator emit_x(.., e, cx) is what the code *)
(* emitted by emit_x does in the request context cx; the emission context   *)
(* e = [errs, inErr, fall, named, depth] is the generator's error_routes,   *)
(* in_error_route, error_routes_fallthrough and named_routes.  The program  *)
(* touches nothing but the request's own context, so a run of it is one     *)
(* step; the steps of the environment are the upstream's answers, and the   *)
(* installation of another program while the request waits for one.         *)
(***************************************************************************)
EXTENDS CaddyMatch

CONSTANTS
    Configs,     \* the configurations a program is compiled from, by name
    Requests,    \* the request contexts a request may start with
    Oracles,     \* results of the calls out of a program: [auth, call, file, up]
    MaxGroups,   \* route groups a program has room for (32 in the code)
    MaxReloads,  \* bound: installations of another program
    MaxDepth     \* bound: nesting of error routes and named routes in emission

VARIABLES
    config,   \* the name of the configuration installed now
    mine,     \* the one whose program runs this request
    orc,      \* the results of the calls out of the program
    cx,       \* the request's context
    arrived,  \* its first value
    phase,    \* "run", "sent" to the upstream, "hooks", "done"
    reruns,   \* runs of the program after the first
    reloads   \* installations so far

routeVars == <<config, mine, orc, cx, arrived, phase, reruns, reloads>>

NoOut == [k |-> "none", st |-> 0, by |-> 0]
Out(k, st, by) == [k |-> k, st |-> st, by |-> by]

\* What a piece of a helper does: the context after it, and whether it returned
\* from entry() (every helper call is "if (fn()) return 0;").
Ret(c) == [ret |-> TRUE, cx |-> c]
Go(c)  == [ret |-> FALSE, cx |-> c]
Then(r, F(_)) == IF r.ret THEN r ELSE F(r.cx)

Respond(c, st, by) == [c EXCEPT !.out = Out("resp", st, by)]
Pending(c) == c.out.k = "resp"
\* h_caddy_set_error
set_error(c, st) == [c EXCEPT !.err = st]
\* A respond with {http.error.status_code} where none is pending yet.
RespondErr(c, by) == IF Pending(c) THEN c ELSE Respond(c, c.err, by)

(***************************************************************************)
(* Route groups and the checks made before anything is emitted.             *)
(***************************************************************************)
RECURSIVE collect_route_groups(_)
collect_route_groups(rs) ==
    UNION {(IF r.group = "" THEN {} ELSE {r.group})
           \cup UNION {CASE h.h = "subroute" /\ h.routes # <<>> ->
                               collect_route_groups(h.routes) \cup collect_route_groups(h.errors)
                         [] h.h \in {"reverse_proxy", "intercept"} ->
                               UNION {collect_route_groups(x.routes) : x \in Range(h.hr)}
                         [] OTHER -> {} : h \in Range(r.hs)} : r \in Range(rs)}
GroupsOf(c) == collect_route_groups(c.routes) \cup collect_route_groups(c.errors)
               \cup collect_route_groups(<<c.named>>)

RECURSIVE route_contains_error_handler(_)
route_contains_error_handler(r) ==
    \E h \in Range(r.hs) :
        \/ h.h = "error"
        \/ h.h = "subroute" /\ \E x \in Range(h.routes) : route_contains_error_handler(x)
validate_error_routes(rs) == \A r \in Range(rs) : ~route_contains_error_handler(r)

\* The response routes of a reverse_proxy may neither replace the body nor do
\* anything but change the request before it continues.
RECURSIVE response_routes_replace_body(_), response_routes_are_request_continuation_only(_)
response_routes_replace_body(rs) ==
    \E r \in Range(rs) : \E h \in Range(r.hs) :
        \/ h.h \in {"static_response", "error", "file_server"}
        \/ h.h = "subroute" /\ response_routes_replace_body(h.routes)
response_routes_are_request_continuation_only(rs) ==
    \A r \in Range(rs) : \A h \in Range(r.hs) :
        CASE h.h = "headers"           -> h.resp = "none"
          [] h.h \in {"vars", "map"}   -> TRUE
          [] h.h = "subroute"          -> response_routes_are_request_continuation_only(h.routes)
          [] OTHER                     -> FALSE

RECURSIVE HandlersOk(_)
HandlersOk(rs) ==
    \A r \in Range(rs) : \A h \in Range(r.hs) :
        CASE h.h = "subroute" -> HandlersOk(h.routes) /\ validate_error_routes(h.errors) /\ HandlersOk(h.errors)
          [] h.h = "reverse_proxy" ->
                \A x \in Range(h.hr) : x.status < 0 => /\ ~response_routes_replace_body(x.routes)
                                                       /\ response_routes_are_request_continuation_only(x.routes)
          [] h.h = "intercept" -> \A x \in Range(h.hr) : ~response_routes_replace_body(x.routes)
          [] OTHER -> TRUE
compile_ok(c) ==
    /\ validate_error_routes(c.errors)
    /\ Cardinality(GroupsOf(c)) <= MaxGroups
    /\ HandlersOk(c.routes) /\ HandlersOk(c.errors) /\ HandlersOk(<<c.named>>)

(***************************************************************************)
(* The request helpers.                                                     *)
(***************************************************************************)
\* Bug: a helper takes the copy its caller holds.
host_inherited(uses, c) == c
host_hoist_load_stmts(uses, c) == IF uses THEN [c EXCEPT !.hoist = c.host] ELSE c
\* A helper has its own copy of the host, loaded at its top when a matcher of
\* its own reads it; the caller's copy is as before when it is back.
capture_request_route(uses, c, F(_)) ==
    LET r == F(host_hoist_load_stmts(uses, c))
    IN  [r EXCEPT !.cx.hoist = c.hoist]
emit_host_refresh(c) == [c EXCEPT !.hoist = c.host]

GroupTaken(route, c) == route.group \in c.groups
emit_route_group_guard(route, c) ==
    IF route.group = "" THEN c
    ELSE [c EXCEPT !.groups = @ \cup {route.group}, !.mgroups = @ \cup {route.group},
                   !.passed = Append(@, route.group)]

\* What emit_handler returns: code after this handler is unreachable.
Stops(h, e) ==
    CASE h.h = "static_response" -> TRUE
      [] h.h = "error"           -> e.errs = <<>> \/ ~e.fall
      [] h.h = "reverse_proxy"   -> h.hr = <<>>
      [] h.h = "file_server"     -> ~h.pass
      [] OTHER                   -> FALSE
HandlersStop(hs, e) == \E i \in DOMAIN hs : Stops(hs[i], e)
can_leave_pending(route, e) == ~route.terminal /\ ~HandlersStop(route.hs, e)

emit_terminal_empty_handler(e, c) ==
    Ret(IF e.inErr THEN Respond(c, c.err, 0) ELSE Respond(c, 200, 0))

\* The handlers that only change the request, its response headers or the
\* options of its answer: headers, rewrite, request_body, vars, map, encode.
emit_headers(h, c) ==
    LET d == CASE h.req = "none" -> c
               [] h.req = "add"  -> [c EXCEPT !.adds = @ + 1]
               [] OTHER          -> emit_host_refresh([c EXCEPT !.host = h.req])
    IN  CASE h.resp = "none"     -> d
          [] h.resp = "now"      -> [d EXCEPT !.early_headers = @ \cup {h.n}]
          [] h.resp = "deferred" -> [d EXCEPT !.hooks = Append(@, h.n)]
emit_rewrite(h, c)      == [c EXCEPT !.path = h.path]
emit_request_body(h, c) == IF h.max > 0 THEN [c EXCEPT !.limit = h.max] ELSE c
emit_vars(h, c)         == [c EXCEPT !.vars = h.val]
emit_encode(h, c)       == [c EXCEPT !.encode = TRUE]
emit_intercept(h, c)    == IF h.hr = <<>> THEN c ELSE [c EXCEPT !.hooks = Append(@, h.n)]
IsEffect(h) == h.h \in {"headers", "rewrite", "request_body", "vars", "encode", "intercept"}
Effect(h, c) ==
    CASE h.h = "headers"      -> emit_headers(h, c)
      [] h.h = "rewrite"      -> emit_rewrite(h, c)
      [] h.h = "request_body" -> emit_request_body(h, c)
      [] h.h = "vars"         -> emit_vars(h, c)
      [] h.h = "encode"       -> emit_encode(h, c)
      [] h.h = "intercept"    -> emit_intercept(h, c)

emit_static_response(h, e, c) ==
    Ret(IF h.abort THEN [c EXCEPT !.out = Out("abort", 0, h.n)]
        ELSE Respond(c, IF h.status # 0 THEN h.status ELSE IF e.inErr THEN c.err ELSE 200, h.n))

\* A proxy with handle_response is passed once when its skip mark is set.
emit_reverse_proxy(h, e, c) ==
    IF h.hr # <<>> /\ h.n \in c.skip THEN Go([c EXCEPT !.skip = @ \ {h.n}])
    ELSE Ret([c EXCEPT !.hooks = IF h.hr = <<>> THEN @ ELSE Append(@, h.n),
                       !.out = Out("proxy", 0, h.n)])

\* The emitters reach one another through the code that emit(code, e, o, c)
\* runs: a list of handlers, the routes of a subroute, the error routes.
RECURSIVE emit(_, _, _, _)
Handlers(hs) == [k |-> "handlers", hs |-> hs]
Routes(rs, pending) == [k |-> "routes", routes |-> rs, pending |-> pending]
ErrorRoutes == [k |-> "errors"]

emit_pending_matcher_error(e, o, c) ==
    IF c.err = 0 THEN Go(c)
    ELSE IF e.errs # <<>> /\ ~e.inErr
         THEN Then(emit(ErrorRoutes, e, o, c),
                   LAMBDA d : Ret(IF Pending(d) THEN d ELSE Respond(d, c.err, 0)))
         ELSE Ret(Respond(c, c.err, 0))

EarlyData(e, o, c) ==
    LET d == set_error(c, 425)
    IN  IF e.errs # <<>> /\ ~e.inErr
        THEN Then(emit(ErrorRoutes, e, o, d),
                  LAMBDA x : Ret(IF Pending(x) THEN x ELSE Respond(x, 425, 0)))
        ELSE Ret(Respond(d, 425, 0))

Matched(v, e, o, look, Yes(_), No(_)) ==
    IF v.early THEN EarlyData(e, o, v.cx)
    ELSE Then(IF look THEN emit_pending_matcher_error(e, o, v.cx) ELSE Go(v.cx),
              LAMBDA d : IF v.ok THEN Yes(d) ELSE No(d))
\* The shape every route shares: match; if an error may have been raised, look
\* for one; when matched, return if a response is pending, else body under the
\* group guard; when not, clear a pending response.  Of a route that cannot match
\* only the statements of its matchers are emitted.
MatchThen(route, e, o, c, look, pend, clear, Body(_)) ==
    IF match_is_statically_false(route) THEN Matched(emit_route_match(route, c), e, o, FALSE, Go, Go)
    ELSE Matched(emit_route_match(route, c), e, o, look /\ route_match_can_set_error(route),
           LAMBDA d : IF pend /\ Pending(d) THEN Ret(d)
                      ELSE IF GroupTaken(route, d) THEN Go(d)
                      ELSE Body(emit_route_group_guard(route, d)),
           LAMBDA d : Go(IF clear /\ Pending(d) THEN [d EXCEPT !.out = NoOut, !.cleared = TRUE] ELSE d))

\* The body of a route: its handlers, and the empty handler if it is terminal.
RouteBody(route, e, o, c) ==
    Then(emit(Handlers(route.hs), e, o, c),
         LAMBDA d : IF route.terminal /\ ~HandlersStop(route.hs, e)
                    THEN emit_terminal_empty_handler(e, d) ELSE Go(d))

emit_subroute_route_inline(route, e, o, c, pending) ==
    LET may == pending \/ route_match_can_set_error(route)
    IN  MatchThen(route, e, o, c, TRUE, may, may, LAMBDA d : RouteBody(route, e, o, d))
emit_subroute_route(route, e, o, c, pending) ==
    capture_request_route(host_hoist_scope_used(route), c,
        LAMBDA d : emit_subroute_route_inline(route, e, o, d, pending))
emit_subroute_routes(rs, e, o, c, pending) ==
    IF rs = <<>> THEN Go(c)
    ELSE Then(emit_subroute_route(Head(rs), e, o, c, pending),
              LAMBDA d : emit(Routes(Tail(rs), pending \/ can_leave_pending(Head(rs), e)), e, o, d))
emit_subroute(h, e, o, c) ==
    emit_subroute_routes(h.routes,
        [e EXCEPT !.errs = IF h.errors = <<>> THEN e.errs ELSE h.errors, !.fall = TRUE], o, c, FALSE)

emit_invoke_inline(e, o, c) ==
    MatchThen(e.named, e, o, c, TRUE, TRUE, TRUE, LAMBDA d : RouteBody(e.named, e, o, d))
emit_invoke(e, o, c) ==
    IF e.depth = 0 THEN Ret([c EXCEPT !.out = Out("overflow", 0, 0)])
    ELSE capture_request_route(host_hoist_scope_used(e.named), c,
             LAMBDA d : emit_invoke_inline([e EXCEPT !.depth = @ - 1], o, d))

\* An error route answers with the error's status when its handlers did not.
emit_error_route_inline(route, e, o, c) ==
    MatchThen(route, e, o, c, FALSE, TRUE, TRUE,
        LAMBDA d : Then(emit(Handlers(route.hs), e, o, d),
                        LAMBDA x : IF route.terminal /\ ~HandlersStop(route.hs, e)
                                   THEN Ret(RespondErr(x, 0)) ELSE Go(x)))
emit_error_route(route, e, o, c) ==
    capture_request_route(host_hoist_scope_used(route), c,
        LAMBDA d : emit_error_route_inline(route, [e EXCEPT !.inErr = TRUE, !.depth = @ - 1], o, d))
\* The hooks registered before the error are dropped.
h_res_hooks_clear(e, c) == IF e.inErr THEN c ELSE [c EXCEPT !.hooks = <<>>]
emit_error_routes(e, o, c) ==
    IF e.depth = 0 THEN Ret([c EXCEPT !.out = Out("overflow", 0, 0)])
    ELSE FoldLeft(LAMBDA r, route : Then(r, LAMBDA d : emit_error_route(route, e, o, d)),
                  Go(h_res_hooks_clear(e, c)), e.errs)

\* After the error routes of an error: inside a subroute the code goes on when
\* none of them answered, elsewhere it answers with the status.
AfterErrorRoutes(e, o, c, st) ==
    Then(emit(ErrorRoutes, e, o, c),
         LAMBDA d : IF e.fall THEN (IF Pending(d) THEN Ret(d) ELSE Go(d))
                    ELSE Ret(IF Pending(d) THEN d ELSE Respond(d, st, 0)))

emit_static_error(h, e, o, c) ==
    IF e.errs = <<>> THEN Ret(Respond(c, h.status, 0))
    ELSE AfterErrorRoutes(e, o, set_error(c, h.status), h.status)

emit_authentication(h, e, o, c) ==
    IF o.auth THEN Go(c)
    ELSE LET d == set_error(c, 401)
         IN  IF e.errs = <<>> THEN Ret(Respond(d, 401, 0))
             ELSE Then(emit(ErrorRoutes, e, o, d), LAMBDA x : Ret(RespondErr(x, 0)))

\* The called script may set the Host and continue, respond, proxy, abort, or set
\* the Host and fail with an error.
emit_zeroserve_call(h, e, o, c) ==
    CASE o.call = "continue" -> Go(emit_host_refresh([c EXCEPT !.host = h.sethost]))
      [] o.call = "respond"  -> Ret(Respond(c, 203, h.n))
      [] o.call = "proxy"    -> Ret([c EXCEPT !.out = Out("proxy", 0, h.n)])
      [] o.call = "abort"    -> Ret([c EXCEPT !.out = Out("abort", 0, h.n)])
      [] o.call = "error"    ->
            LET d == set_error([c EXCEPT !.host = h.sethost], 418)
            IN  IF e.errs = <<>> THEN Ret(Respond(d, 418, 0))
                ELSE Then(AfterErrorRoutes(e, o, d, 418), LAMBDA x : Go(emit_host_refresh(x)))

\* zs_file_server: 0 the file server answers, 1 (only asked to pass through) it
\* has no such file, 2 it raised an error.
emit_file_server_error_response(e, o, c) ==
    IF e.errs = <<>> \/ e.inErr THEN Ret(Respond(c, c.err, 0))
    ELSE Then(emit(ErrorRoutes, e, o, c), LAMBDA x : Ret(RespondErr(x, 0)))
emit_file_server(h, e, o, c) ==
    CASE o.file = 0 -> Ret([c EXCEPT !.out = Out("file", 200, h.n)])
      [] o.file = 1 -> IF h.pass THEN Go(c)
                       ELSE IF e.errs # <<>> /\ ~e.inErr
                            THEN emit_file_server_error_response(e, o, set_error(c, 404))
                            ELSE Ret([c EXCEPT !.out = Out("file", 404, 0)])
      [] o.file = 2 -> emit_file_server_error_response(e, o, set_error(c, 403))

emit_handler(h, e, o, c) ==
    CASE h.h = "static_response" -> emit_static_response(h, e, c)
      [] h.h = "error"           -> emit_static_error(h, e, o, c)
      [] h.h = "reverse_proxy"   -> emit_reverse_proxy(h, e, c)
      [] h.h = "file_server"     -> emit_file_server(h, e, o, c)
      [] h.h = "zeroserve_call"  -> emit_zeroserve_call(h, e, o, c)
      [] h.h = "authentication"  -> emit_authentication(h, e, o, c)
      [] h.h = "invoke"          -> emit_invoke(e, o, c)
      [] h.h = "subroute"        -> emit_subroute(h, e, o, c)
      [] IsEffect(h)             -> Go(Effect(h, c))

emit_handlers(hs, e, o, c) ==
    IF hs = <<>> THEN Go(c)
    ELSE Then(emit_handler(Head(hs), e, o, [c EXCEPT !.ran = Append(@, Head(hs).n)]),
              LAMBDA d : IF Stops(Head(hs), e) THEN Go(d) ELSE emit(Handlers(Tail(hs)), e, o, d))
emit(code, e, o, c) ==
    CASE code.k = "handlers" -> emit_handlers(code.hs, e, o, c)
      [] code.k = "routes"   -> emit_subroute_routes(code.routes, e, o, c, code.pending)
      [] code.k = "errors"   -> emit_error_routes(e, o, c)

(***************************************************************************)
(* entry(): the whole program.                                              *)
(***************************************************************************)
\* A route of the server.  has_error tells the server that a failed upstream
\* is to be handled by this program.
ServerRoute(route, e, o, c, pending) ==
    LET c2 == IF e.errs = <<>> THEN c ELSE [c EXCEPT !.has_error = TRUE]
    IN  capture_request_route(host_hoist_scope_used(route), c2,
          LAMBDA d : Then(IF e.errs = <<>> THEN Go(d) ELSE emit_pending_matcher_error(e, o, d),
            LAMBDA x : MatchThen(route, e, o, x, TRUE, TRUE,
                          pending \/ route_match_can_set_error(route),
                          LAMBDA y : RouteBody(route, e, o, y))))
RECURSIVE ServerRoutes(_, _, _, _, _)
ServerRoutes(rs, e, o, c, pending) ==
    IF rs = <<>> THEN Go(c)
    ELSE Then(ServerRoute(Head(rs), e, o, c, pending),
              LAMBDA d : ServerRoutes(Tail(rs), e, o, d,
                  pending \/ (~match_is_statically_false(Head(rs)) /\ can_leave_pending(Head(rs), e))))

\* The host of a route whose one matcher is one exact host, else "".
route_single_exact_host_id(route) ==
    IF Len(route.sets) = 1 /\ Len(route.sets[1]) = 1 /\ route.sets[1][1].k = "host"
       /\ Len(route.sets[1][1].vs) = 1 /\ route.sets[1][1].vs[1].exact
    THEN CHOOSE x \in route.sets[1][1].vs[1].hosts : TRUE ELSE ""
ExactHostSwitch(c) ==
    /\ Len(c.routes) >= 2 /\ GroupsOf(c) = {} /\ c.errors = <<>>
    /\ \A i \in DOMAIN c.routes :
          /\ c.routes[i].terminal /\ ~route_match_can_set_error(c.routes[i])
          /\ route_single_exact_host_id(c.routes[i]) # ""
          /\ \A j \in DOMAIN c.routes : i # j =>
                route_single_exact_host_id(c.routes[i]) # route_single_exact_host_id(c.routes[j])
emit_exact_host_route_switch(c, e, o, d) ==
    LET at == {i \in DOMAIN c.routes : route_single_exact_host_id(c.routes[i]) = d.hoist}
    IN  IF at = {} THEN Go(d)
        ELSE LET r == c.routes[CHOOSE i \in at : TRUE]
             IN  capture_request_route(FALSE, d, LAMBDA x : RouteBody(r, e, o, x))

\* A request whose TLS client did not satisfy the policy is aborted.
emit_tls_client_auth_checks(c, d) == c.policy /\ ~d.cert
emit_tls_request_checks(c, d) ==
    IF emit_tls_client_auth_checks(c, d) THEN Ret([d EXCEPT !.out = Out("abort", 0, 0)]) ELSE Go(d)

compile_caddy_json_collecting(c, o, d) ==
    LET e == [errs |-> c.errors, inErr |-> FALSE, fall |-> FALSE, named |-> c.named, depth |-> MaxDepth]
    IN  Then(emit_tls_request_checks(c, d), LAMBDA x :
          LET y == [x EXCEPT !.groups = {}, !.passed = <<>>, !.hoist = x.host]
          IN  Then(IF ExactHostSwitch(c) THEN emit_exact_host_route_switch(c, e, o, y)
                   ELSE ServerRoutes(c.routes, e, o, y, FALSE),
                   LAMBDA z : Ret(Respond(z, 200, 0))))

(***************************************************************************)
(* Response hooks.                                                          *)
(***************************************************************************)
RECURSIVE HandlersIn(_)
HandlersIn(rs) ==
    UNION {UNION {{h} \cup (IF h.h = "subroute" THEN HandlersIn(h.routes) \cup HandlersIn(h.errors) ELSE {})
                  : h \in Range(r.hs)} : r \in Range(rs)}
AllHandlers(c) == HandlersIn(c.routes) \cup HandlersIn(c.errors) \cup HandlersIn(<<c.named>>)
\* The hook functions of the program of c, by number.
IsHook(h) == \/ h.h = "headers" /\ h.resp = "deferred"
             \/ h.h \in {"reverse_proxy", "intercept"} /\ h.hr # <<>>
HooksOf(c) == {h \in AllHandlers(c) : IsHook(h)}

\* The groups a request passed are known to the response routes too.
emit_response_route_group_guard(route, c) ==
    IF route.group = "" THEN c ELSE [c EXCEPT !.mgroups = @ \cup {route.group}]
emit_response_route_headers(h, c) ==
    LET d == IF h.req \in {"none", "add"} THEN c ELSE [c EXCEPT !.host = h.req]
    IN  IF h.resp = "none" THEN d ELSE [d EXCEPT !.late_headers = @ \cup {h.n}]
RECURSIVE emit_response_routes(_, _, _), emit_response_route_handlers(_, _, _)
emit_response_subroute(h, named, c) == emit_response_routes(h.routes, named, c)
emit_response_invoke(named, c) == emit_response_routes(<<named>>, named, c)
emit_response_handler(h, named, c) ==
    CASE h.h = "headers"  -> Go(emit_response_route_headers(h, c))
      [] h.h = "vars"     -> Go(emit_vars(h, c))
      [] h.h = "subroute" -> emit_response_subroute(h, named, c)
      [] h.h = "invoke"   -> emit_response_invoke(named, c)
emit_response_route_handlers(hs, named, c) ==
    IF hs = <<>> THEN Go(c)
    ELSE Then(emit_response_handler(Head(hs), named, c),
              LAMBDA d : emit_response_route_handlers(Tail(hs), named, d))
ResponseRoute(route, named, v) ==
    IF ~v.ok \/ route.group \in v.cx.mgroups THEN Go(v.cx)
    ELSE [emit_response_route_handlers(route.hs, named, emit_response_route_group_guard(route, v.cx))
             EXCEPT !.ret = @ \/ route.terminal]
emit_response_routes(rs, named, c) ==
    IF rs = <<>> THEN Go(c)
    ELSE Then(ResponseRoute(Head(rs), named, emit_route_match(Head(rs), c)),
              LAMBDA d : emit_response_routes(Tail(rs), named, d))

\* Whether an entry of handle_response or a deferred header takes this status.
emit_response_require(x, st) == x.sts = {} \/ st \in x.sts
Entries(h, st) == {i \in DOMAIN h.hr : emit_response_require(h.hr[i], st)}
FirstEntry(h, st) == h.hr[CHOOSE i \in Entries(h, st) : \A j \in Entries(h, st) : i <= j]
ContinueAfter(h, c) == [c EXCEPT !.path = c.orig, !.skip = @ \cup {h.n}, !.cont = TRUE]
\* Bug: the match of an entry is not looked at.
handle_any_response(h, named, c) ==
    IF h.hr = <<>> \/ h.hr[1].status >= 0 THEN c ELSE ContinueAfter(h, c)
\* The first entry that matches: a status replaces the upstream's (intercept
\* replaces nothing), routes run, and a reverse_proxy then marks itself done,
\* takes the original URI back and asks for the request to continue.
emit_status_handle_response(h, named, c) ==
    IF Entries(h, c.st) = {} THEN c
    ELSE LET x == FirstEntry(h, c.st)
         IN  IF h.h = "intercept"
             THEN IF x.status > 0 THEN c ELSE emit_response_routes(x.routes, named, c).cx
             ELSE IF x.status >= 0 THEN [c EXCEPT !.st = x.status]
             ELSE ContinueAfter(h, emit_response_routes(x.routes, named, c).cx)
RunHook(h, named, c) ==
    IF h.h = "headers"
    THEN IF emit_response_require(h, c.st) THEN [c EXCEPT !.late_headers = @ \cup {h.n}] ELSE c
    ELSE emit_status_handle_response(h, named, c)

RunHooksNumbered(n, p, c) ==
    FoldSet(LAMBDA h, d : RunHook(h, p.named, d), c, {h \in HooksOf(p) : h.n = n})
\* The hooks a request registered run in order in the program installed now; a
\* hook that program does not have is skipped.
run_response_hooks(p, c) ==
    [FoldLeft(LAMBDA d, n : RunHooksNumbered(n, p, d), [c EXCEPT !.hook = TRUE], c.hooks)
       EXCEPT !.hook = FALSE, !.st = IF @ \in 100..999 THEN @ ELSE c.st]

(***************************************************************************)
(* The request.                                                             *)
(***************************************************************************)
Programs == {n \in DOMAIN Configs : compile_ok(Configs[n])}
Mine == Configs[mine]
NoAnswer == Out("none", 0, 0)

RouteInit ==
    /\ config \in Programs /\ mine = config
    /\ orc \in Oracles
    /\ cx \in Requests /\ arrived = cx
    /\ phase = "run" /\ reruns = 0 /\ reloads = 0

\* The program's first response, proxy or file outcome; an abort closes.
Ran(c) ==
    /\ cx' = [c EXCEPT !.st = c.out.st]
    /\ phase' = CASE c.out.k = "proxy" -> "sent"
                  [] c.out.k \in {"resp", "file"} -> "hooks"
                  [] OTHER -> "done"
run_request ==
    /\ phase = "run"
    /\ Ran(compile_caddy_json_collecting(Mine, orc, cx).cx)
    /\ UNCHANGED <<config, mine, orc, arrived, reruns, reloads>>

\* Run the program installed now on the same request: metadata stays, what the
\* last run decided is gone.
Again(c) == [c EXCEPT !.out = NoOut, !.hooks = <<>>, !.early_headers = {}, !.encode = FALSE,
                      !.limit = 0, !.cont = FALSE, !.ran = <<>>]

UpstreamAnswers ==
    /\ phase = "sent" /\ orc.up[cx.out.by] # 0
    /\ cx' = [cx EXCEPT !.st = orc.up[cx.out.by]]
    /\ phase' = "hooks"
    /\ UNCHANGED <<config, mine, orc, arrived, reruns, reloads>>

set_proxy_error_metadata(c) == [c EXCEPT !.path = c.orig, !.err = 502]
\* HTTP/1: the error routes get a failed upstream, once.  HTTP/2: it is a 502.
UpstreamFails ==
    /\ phase = "sent" /\ orc.up[cx.out.by] = 0
    /\ \/ /\ cx.has_error /\ cx.proto = 1 /\ reruns = 0
          /\ cx' = Again(set_proxy_error_metadata(cx))
          /\ phase' = "run" /\ mine' = config /\ reruns' = 1
       \/ /\ cx.has_error /\ cx.proto = 1 /\ reruns > 0
          /\ cx' = [cx EXCEPT !.out = NoOut] /\ phase' = "done"
          /\ UNCHANGED <<mine, reruns>>
       \/ /\ ~cx.has_error \/ cx.proto # 1
          /\ cx' = [cx EXCEPT !.out = Out("resp", 502, 0), !.st = 502] /\ phase' = "hooks"
          /\ UNCHANGED <<mine, reruns>>
    /\ UNCHANGED <<config, orc, arrived, reloads>>

HooksRan(c) ==
    \/ /\ c.cont /\ c.out.k = "proxy" /\ reruns = 0
       /\ cx' = Again(c) /\ phase' = "run" /\ mine' = config /\ reruns' = 1
    \/ /\ c.cont /\ c.out.k = "proxy" /\ reruns > 0
       /\ cx' = [c EXCEPT !.out = NoOut] /\ phase' = "done" /\ UNCHANGED <<mine, reruns>>
    \/ /\ ~(c.cont /\ c.out.k = "proxy")
       /\ cx' = [c EXCEPT !.out.st = c.st] /\ phase' = "done" /\ UNCHANGED <<mine, reruns>>
RunHooks ==
    /\ phase = "hooks"
    /\ HooksRan(run_response_hooks(Configs[config], cx))
    /\ UNCHANGED <<config, orc, arrived, reloads>>

\* A reload installs another program while the request is under way.
install_scripts ==
    /\ reloads < MaxReloads /\ phase = "sent"
    /\ \E c \in Programs \ {config} : config' = c
    /\ reloads' = reloads + 1
    /\ UNCHANGED <<mine, orc, cx, arrived, phase, reruns>>

RouteQuiet == phase = "done" /\ UNCHANGED routeVars

RouteNext == run_request \/ UpstreamAnswers \/ UpstreamFails \/ RunHooks \/ install_scripts \/ RouteQuiet
RouteSpec == RouteInit /\ [][RouteNext]_routeVars

(***************************************************************************)
(* What Caddy does with the configuration: each route's handlers wrap those *)
(* after them, an error unwinds to the nearest error routes, a proxied      *)
(* request that handle_response takes goes on with the next handler.  A     *)
(* result is "next", "stop" with an answer in cx.out, or "err" in cx.err.   *)
(* An error of a handler that stands in a subroute is marked as "nested";   *)
(* when the error routes it unwinds to do not answer it, it is "loose", and *)
(* so is a failed upstream in a subroute with error routes of its own.      *)
(***************************************************************************)
Outcome(k, c) == [k |-> k, cx |-> c]
Answer(c, st, by) == Outcome("stop", Respond(c, st, by))
Fails(c, st) == Outcome("err", [set_error(c, st) EXCEPT !.nested = FALSE])
FailsIn(e, c, st) == Outcome("err", [set_error(c, st) EXCEPT !.nested = e.sub])
NoUpstream(e, c) == Outcome("err", [set_error(c, 502) EXCEPT !.nested = FALSE, !.loose = @ \/ e.own])

RECURSIVE RefRoutes(_, _, _, _), RefHandlers(_, _, _, _), RefHandler(_, _, _, _), RefErrors(_, _, _, _)
RefMatch(route, c) == emit_route_match(route, [c EXCEPT !.hoist = c.host])
\* The error routes are done with an error and none of them answered.
Unanswered(r) == IF r.k = "next" THEN [r EXCEPT !.cx.loose = @ \/ r.cx.nested] ELSE r
\* What follows an outcome of kind k.
After(k, r, F(_)) == IF r.k = k THEN F(r.cx) ELSE r
RefHandler(h, e, o, c) ==
    CASE h.h = "static_response" ->
            IF h.abort THEN Outcome("stop", [c EXCEPT !.out = Out("abort", 0, h.n)])
            ELSE Answer(c, IF h.status # 0 THEN h.status ELSE IF e.inErr THEN c.err ELSE 200, h.n)
      [] h.h = "error" -> FailsIn(e, c, h.status)
      [] h.h = "authentication" -> IF o.auth THEN Outcome("next", c) ELSE Fails(c, 401)
      [] h.h = "zeroserve_call" ->
           (CASE o.call = "continue" -> Outcome("next", [c EXCEPT !.host = h.sethost])
              [] o.call = "respond"  -> Answer(c, 203, h.n)
              [] o.call = "proxy"    -> IF o.up[h.n] = 0 THEN NoUpstream(e, c) ELSE Answer(c, o.up[h.n], h.n)
              [] o.call = "abort"    -> Outcome("stop", [c EXCEPT !.out = Out("abort", 0, h.n)])
              [] o.call = "error"    -> FailsIn(e, [c EXCEPT !.host = h.sethost], 418))
      [] h.h = "file_server" ->
           (CASE o.file = 0 -> Answer(c, 200, h.n)
              [] o.file = 1 -> IF h.pass THEN Outcome("next", c) ELSE Fails(c, 404)
              [] o.file = 2 -> Fails(c, 403))
      [] h.h = "reverse_proxy" ->
            LET st == o.up[h.n]
                x  == FirstEntry(h, st)
            IN  IF st = 0 THEN NoUpstream(e, c)
                ELSE IF Entries(h, st) = {} THEN Answer(c, st, h.n)
                ELSE IF x.status >= 0 THEN Answer(c, IF x.status = 0 THEN st ELSE x.status, h.n)
                ELSE Outcome("next", emit_response_routes(x.routes, e.named, c).cx)
      [] h.h = "subroute" ->
            LET e2 == [e EXCEPT !.sub = TRUE, !.own = @ \/ h.errors # <<>>]
            IN  After(IF h.errors = <<>> THEN "handled" ELSE "err", RefRoutes(h.routes, e2, o, c),
                      LAMBDA d : Unanswered(RefRoutes(h.errors, [e2 EXCEPT !.inErr = TRUE], o, d)))
      [] h.h = "invoke" -> RefRoutes(<<e.named>>, e, o, c)
      [] OTHER -> Outcome("next", Effect(h, c))
RefHandlers(hs, e, o, c) ==
    IF hs = <<>> THEN Outcome("next", c)
    ELSE After("next", RefHandler(Head(hs), e, o, c), LAMBDA d : RefHandlers(Tail(hs), e, o, d))
RefBody(route, e, o, c) ==
    After("next", RefHandlers(route.hs, e, o, c),
          LAMBDA d : IF route.terminal THEN Answer(d, IF e.inErr THEN d.err ELSE 200, 0) ELSE Outcome("next", d))
RefRoute(route, e, o, c, v) ==
    CASE v.early -> Fails(v.cx, 425)
      [] ~v.early /\ v.cx.err # c.err -> Outcome("err", v.cx)
      [] ~v.early /\ v.cx.err = c.err ->
            IF v.ok /\ (route.group = "" \/ route.group \notin v.cx.groups)
            THEN RefBody(route, e, o, [v.cx EXCEPT !.groups = @ \cup {route.group}])
            ELSE Outcome("next", v.cx)
RefRoutes(rs, e, o, c) ==
    IF rs = <<>> THEN Outcome("next", c)
    ELSE After("next", RefRoute(Head(rs), e, o, c, RefMatch(Head(rs), c)),
               LAMBDA d : RefRoutes(Tail(rs), e, o, d))
\* The server's error routes, and the error's status when none of them answers.
RefErrors(c, e, o, d) ==
    After("next", Unanswered(RefRoutes(c.errors, [e EXCEPT !.inErr = TRUE], o,
                                       IF d.err = 502 THEN [d EXCEPT !.path = d.orig] ELSE d)),
          LAMBDA x : Outcome("err", x))
RefAnswer(r) == CASE r.k = "stop" -> r.cx.out
                  [] r.k = "err"  -> Out("resp", r.cx.err, 0)
                  [] r.k = "next" -> Out("resp", 200, 0)
Reference(c, o, d) ==
    LET e == [inErr |-> FALSE, named |-> c.named, sub |-> FALSE, own |-> FALSE]
    IN  IF c.policy /\ ~d.cert THEN Outcome("stop", [d EXCEPT !.out = Out("abort", 0, 0)])
        ELSE After("err", RefRoutes(c.routes, e, o, [d EXCEPT !.hooks = <<>>]),
                   LAMBDA x : IF c.errors = <<>> THEN Outcome("err", x) ELSE RefErrors(c, e, o, x))

SameAnswer(out, ref) == /\ out.st = ref.st /\ out.by = ref.by
                        /\ (out.k = "abort") = (ref.k = "abort")

\* The answer a request gets from the emitted program, over however many runs
\* of it, is the one its configuration stands for: the same status from the
\* same handler.  Four things are left out.  An error raised in a subroute that
\* the error routes it reaches do not answer: the comment at
\* caddy_compile.rs:2447-2454 has it propagate as in Caddy, the emitted code lets
\* go of it and runs the next handler of the subroute (caddy_compile.rs:2662,
\* 2778), so an `error 404` before a `respond` is answered 200.  An upstream that
\* fails in a subroute with error routes of its own: the second run of the program
\* takes it to the error routes of the server.  A request whose second run asks
\* for a third, which is not answered at all.  A failed upstream over HTTP/2,
\* which never reaches the error routes.
AnswerAsWritten ==
    (phase = "done" /\ reloads = 0 /\ cx.out.k # "none"
       /\ (arrived.proto = 1 \/ \A n \in DOMAIN orc.up : orc.up[n] # 0))
    => LET ref == Reference(Mine, orc, arrived)
       IN  ~ref.cx.loose => SameAnswer(cx.out, RefAnswer(ref))

\* The handlers behind handler n, and whether its upstream answer lets go on.
Behind(c, n) ==
    LET rs == {r \in Range(c.routes) : \E h \in Range(r.hs) : h.n = n}
    IN  UNION {{r.hs[j].n : j \in {k \in DOMAIN r.hs : \E i \in 1..(k - 1) : r.hs[i].n = n}} : r \in rs}
Opens(h) ==
    orc.up[h.n] # 0 /\ Entries(h, orc.up[h.n]) # {} /\ FirstEntry(h, orc.up[h.n]).status < 0
Gates(c) == {h \in AllHandlers(c) : h.h = "reverse_proxy" /\ h.hr # <<>>}
\* The handlers behind a reverse_proxy with handle_response (forward_auth) run
\* only for a request whose upstream answer one of its entries lets continue.
GateHolds ==
    reloads = 0 => \A g \in Gates(Mine) : (Range(cx.ran) \cap Behind(Mine, g.n) # {}) => Opens(g)

\* In one run of the program a route group is entered at most once.
GroupOnce == \A i, j \in DOMAIN cx.passed : cx.passed[i] = cx.passed[j] => i = j

\* A host matcher never tests a copy of the Host header that a handler before
\* it has replaced (the copies the helpers hoist are refreshed).
FreshHost == ~cx.stale

\* A response a handler decided on is never dropped by a route after it: every
\* helper returns once a response is pending, so no clean-up finds one.
NeverCleared == ~cx.cleared

\* The response to an error carries no header that a handler outside the error
\* routes deferred to the response: those hooks were registered for the response
\* that the error replaced.
ErrorDropsHooks ==
    (phase = "done" /\ cx.err # 0 /\ Mine.errors # <<>> /\ reloads = 0
       /\ cx.out.k = "resp" /\ cx.out.by \notin {h.n : h \in HandlersIn(Mine.routes)})
    => cx.late_headers \cap {h.n : h \in HandlersIn(Mine.routes)} = {}

SetVerdict(ms) == emit_matcher_set(InPhases(ms), [cx EXCEPT !.hoist = cx.host])
SameVerdict(v, w) == v.ok = w.ok /\ v.cx.err = w.cx.err
\* Whether a matcher set holds, and whether it raises an error, does not depend
\* on the order its matchers are written in, once the handshake is complete:
\* captures come first, and a matcher that can raise an error is reached only
\* when all others hold.
OrderFree ==
    (phase = "run" /\ ~cx.early) =>
    \A r \in Range(Mine.routes) : \A s \in Range(r.sets) :
        \A p \in [DOMAIN s -> DOMAIN s] : (\A i, j \in DOMAIN s : p[i] = p[j] => i = j) =>
            SameVerdict(SetVerdict([i \in DOMAIN s |-> s[p[i]]]), SetVerdict(s))

\* A route whose handlers are left out because its condition is statically
\* false matches nothing: its matchers, which are evaluated all the same, fail
\* or end the helper on an incomplete handshake.
StaticFalseSound ==
    phase = "run" => \A r \in Range(Mine.routes) :
        match_is_statically_false(r) => LET v == emit_route_match(r, cx) IN ~v.ok \/ v.early

\* The answer is the one the configuration stands for, unless an error raised in
\* a subroute went unanswered: given by the handler the routes name, behind
\* every gate before it, dropped by no later route, and without the deferred
\* headers of a response that an error replaced.
RightAnswer == AnswerAsWritten /\ GateHolds /\ NeverCleared /\ ErrorDropsHooks

\* The matching of a route means what it says: on the headers of now, once for
\* a group, whatever the order its matchers are written in, and left out of the
\* program only where it can match nothing.
MatchersSound == FreshHost /\ GroupOnce /\ OrderFree /\ StaticFalseSound
=============================================================================
