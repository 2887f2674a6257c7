------------------------------ MODULE CaddyMatch ------------------------------
(***************************************************************************)
(* The matchers of a compiled Caddy route (caddy_compile.rs).  A matcher is *)
(* a record with its kind in "k"; a pattern (a path glob, a regular         *)
(* expression, an address range) is the set of the values it matches.  An   *)
(* operator emit_x says what the C expression emitted by emit_x computes,   *)
(* over the request context cx of CaddyRoutes:                              *)
(*   host, hoist   the Host header and the copy the current helper holds    *)
(*   path, method, ip, tls, early, hdr, query, files, vars                  *)
(*   proto, minor, grpc   the version, and a gRPC Content-Type              *)
(*   cap, err      the regexp capture and http.error.status_code, "" and 0  *)
(*                 when they are absent                                     *)
(* Matching may change cap and err, so it returns them with its verdict.    *)
(***************************************************************************)
EXTENDS Integers, Sequences, FiniteSets, SequencesExt

\* The verdict of a matcher: ok, the context after it, and whether an address
\* matcher found the TLS handshake incomplete (the helper then returns at once).
Verdict(ok, cx) == [ok |-> ok, cx |-> cx, early |-> FALSE]

\* The text of a list matcher with no value is "(0)".
emit_string_list_match(m, cx) == cx.method \in Range(m.vs)

emit_path_match(m, cx) == \E p \in Range(m.vs) : cx.path \in p

\* In a request helper the hoisted copy is tested, in a response hook the
\* header itself.
emit_host_match(m, cx) ==
    LET h == IF cx.hook THEN cx.host ELSE cx.hoist
    IN  \E p \in Range(m.vs) : h \in p.hosts

emit_header_list_match(vs, got) == \E p \in Range(vs) : \E v \in got : v \in p

\* null: the field is absent; [] : it is present; otherwise one value matches.
emit_header_match(m, cx) ==
    \A f \in Range(m.fields) :
        CASE f.kind = "null"  -> cx.hdr[f.name] = {}
          [] f.kind = "empty" -> cx.hdr[f.name] # {}
          [] f.kind = "list"  -> emit_header_list_match(f.vs, cx.hdr[f.name])

\* No field: the query is empty.  A field with null or [] never matches.
emit_query_match(m, cx) ==
    IF m.fields = <<>> THEN \A k \in DOMAIN cx.query : cx.query[k] = {}
    ELSE \A f \in Range(m.fields) :
            /\ f.kind = "list"
            /\ \E v \in Range(f.vs) : v \in cx.query[f.name]

emit_remote_ip_match(m, cx) == \E r \in Range(m.vs) : cx.ip \in r

emit_client_ip_match(m, cx) == \E r \in Range(m.vs) : cx.clientip \in r

\* What a placeholder expands to: a capture, a variable or the path.
Placeholder(cx, key) ==
    CASE key = "cap"  -> cx.cap
      [] key = "var"  -> cx.vars
      [] key = "path" -> cx.path

\* One key with one of its values suffices; no key at all matches.
emit_vars_match(m, cx) ==
    \/ m.fields = <<>>
    \/ \E f \in Range(m.fields) : \E v \in Range(f.vs) : Placeholder(cx, f.name) = v

emit_protocol_match(m, cx) ==
    CASE m.proto = "grpc"      -> cx.grpc
      [] m.proto = "https"     -> cx.tls
      [] m.proto = "http"      -> ~cx.tls
      [] m.proto = "http/1.0"  -> cx.proto = 1 /\ cx.minor = 0
      [] m.proto = "http/1.0+" -> cx.proto >= 1
      [] m.proto = "http/1.1"  -> cx.proto = 1 /\ cx.minor = 1
      [] m.proto = "http/1.1+" -> cx.proto > 1 \/ (cx.proto = 1 /\ cx.minor >= 1)
      [] m.proto = "http/2"    -> cx.proto = 2
      [] m.proto = "http/2+"   -> cx.proto >= 2
      [] m.proto = "http/3"    -> cx.proto = 3
      [] m.proto = "http/3+"   -> cx.proto >= 3
      [] OTHER                 -> FALSE
\* The protocols there is a test for; the text of any other is 0.
Protocols == {"grpc", "https", "http", "http/1.0", "http/1.0+", "http/1.1", "http/1.1+",
              "http/2", "http/2+", "http/3", "http/3+"}

emit_tls_match(m, cx) == cx.tls /\ (m.complete => ~cx.early)

\* A regular expression stores its capture when it matches.
emit_path_regexp_match(m, cx) ==
    LET ok == cx.path \in m.p
    IN  Verdict(ok, IF ok THEN [cx EXCEPT !.cap = cx.path] ELSE cx)

emit_header_regexp_match(m, cx) ==
    LET hits == cx.hdr[m.name] \cap m.p
    IN  Verdict(hits # {}, IF hits # {} THEN [cx EXCEPT !.cap = CHOOSE v \in hits : TRUE] ELSE cx)

emit_vars_regexp_match(m, cx) ==
    LET ok == cx.vars \in m.p
    IN  Verdict(ok, IF ok THEN [cx EXCEPT !.cap = cx.vars] ELSE cx)

\* first_exist: the first candidate that exists matches; a "=404" candidate
\* reached before one exists raises that error and does not match.
FirstReached(m, cx) ==
    LET hit(i) == m.try[i].status # 0 \/ m.try[i].file \in cx.files
    IN  {i \in DOMAIN m.try : hit(i) /\ \A j \in 1..(i - 1) : ~hit(j)}
emit_file_match(m, cx) ==
    LET hit == FirstReached(m, cx)
    IN  IF hit = {} THEN Verdict(FALSE, cx)
        ELSE LET t == m.try[CHOOSE i \in hit : TRUE]
             IN  IF t.status # 0 THEN Verdict(FALSE, [cx EXCEPT !.err = t.status])
                                 ELSE Verdict(TRUE, cx)

file_matcher_has_status_fallback(m) == \E t \in Range(m.try) : t.status # 0

(***************************************************************************)
(* What a matcher may do, read from its configuration.                      *)
(***************************************************************************)
RECURSIVE matcher_can_set_error(_), expression_ast_can_set_error(_)
matcher_set_can_set_error(set) == \E m \in Range(set) : matcher_can_set_error(m)
expression_ast_can_set_error(a) ==
    CASE a.k \in {"and", "or"} -> expression_ast_can_set_error(a.l) \/ expression_ast_can_set_error(a.r)
      [] a.k = "neg"           -> expression_ast_can_set_error(a.x)
      [] a.k = "call"          -> a.m.k = "file" /\ file_matcher_has_status_fallback(a.m)
      [] OTHER                 -> FALSE
matcher_can_set_error(m) ==
    CASE m.k = "file"       -> file_matcher_has_status_fallback(m)
      [] m.k = "expression" -> expression_ast_can_set_error(m.ast)
      [] m.k = "not"        -> \E s \in Range(m.sets) : matcher_set_can_set_error(s)
      [] OTHER              -> FALSE

matcher_sets_captures(m) == m.k \in {"path_regexp", "header_regexp", "vars_regexp"}

matcher_eval_phase(m) ==
    IF matcher_can_set_error(m) THEN 3 ELSE IF matcher_sets_captures(m) THEN 1 ELSE 2

route_match_can_set_error(route) ==
    \E s \in Range(route.sets) : matcher_set_can_set_error(s)

\* Whether the matchers of a route read the hoisted host.
RECURSIVE ReadsHost(_), AstReadsHost(_)
AstReadsHost(a) ==
    CASE a.k \in {"and", "or"} -> AstReadsHost(a.l) \/ AstReadsHost(a.r)
      [] a.k = "neg"           -> AstReadsHost(a.x)
      [] a.k = "call"          -> ReadsHost(a.m)
      [] OTHER                 -> FALSE
ReadsHost(m) ==
    CASE m.k = "host"       -> m.vs # <<>>
      [] m.k = "not"        -> \E s \in Range(m.sets) : \E x \in Range(s) : ReadsHost(x)
      [] m.k = "expression" -> AstReadsHost(m.ast)
      [] OTHER              -> FALSE
host_hoist_scope_used(route) ==
    \E s \in Range(route.sets) : \E m \in Range(s) : ReadsHost(m)

(***************************************************************************)
(* match_is_statically_false looks at the text of a condition: it is false  *)
(* when, with its outer parentheses removed, it is 0 or a conjunction with  *)
(* a 0 in it, and "||" occurs nowhere.                                      *)
(***************************************************************************)
ZeroField(f) == f.kind # "list" \/ f.vs = <<>>
QueryText(m) ==
    [zero |-> \E f \in Range(m.fields) : ZeroField(f),
     or   |-> \E f \in Range(m.fields) : ~ZeroField(f) /\ Len(f.vs) > 1]
\* Inside a negation the text still holds a "(0)&&" when a query has two fields.
RECURSIVE AstStaticallyFalse(_), StaticallyFalse(_), ZeroConjunct(_)
ZeroConjunct(a) ==
    CASE a.k = "neg"  -> ZeroConjunct(a.x)
      [] a.k = "call" -> a.m.k = "query" /\ Len(a.m.fields) > 1 /\ QueryText(a.m).zero /\ ~QueryText(a.m).or
      [] OTHER        -> FALSE
AstStaticallyFalse(a) ==
    CASE a.k = "bool" -> ~a.v
      [] a.k = "in"   -> a.vs = {}
      [] a.k = "call" -> StaticallyFalse(a.m)
      [] a.k = "neg"  -> ZeroConjunct(a.x)
      [] OTHER        -> FALSE
StaticallyFalse(m) ==
    CASE m.k \in {"method", "path", "host"} -> m.vs = <<>>
      [] m.k = "query"      -> QueryText(m).zero /\ ~QueryText(m).or
      [] m.k = "protocol"   -> m.proto \notin Protocols
      [] m.k = "expression" -> AstStaticallyFalse(m.ast)
      [] OTHER              -> FALSE
match_is_statically_false(route) ==
    /\ route.sets # <<>>
    /\ \A s \in Range(route.sets) : \E m \in Range(s) : StaticallyFalse(m)

(***************************************************************************)
(* Evaluation.                                                              *)
(***************************************************************************)
emit_expression_numeric_compare(a, cx) ==
    LET n == IF cx.err = 0 THEN -1 ELSE cx.err
    IN  /\ n >= 0
        /\ CASE a.op = ">"  -> n > a.r
             [] a.op = ">=" -> n >= a.r
             [] a.op = "<"  -> n < a.r
             [] a.op = "<=" -> n <= a.r
emit_expression_string_compare(a, cx) == (Placeholder(cx, a.key) = a.v) = a.equal
emit_expression_string_in(a, cx) == Placeholder(cx, a.key) \in a.vs
emit_expression_string_matches(a, cx) ==
    LET v == Placeholder(cx, a.key)
    IN  Verdict(v \in a.p, IF v \in a.p THEN [cx EXCEPT !.cap = v] ELSE cx)

AndThen(v, F(_)) == IF v.early \/ ~v.ok THEN v ELSE F(v.cx)
OrElse(v, F(_))  == IF v.early \/ v.ok THEN v ELSE F(v.cx)

RECURSIVE emit_matcher(_, _), emit_matcher_set(_, _), emit_expression_ast(_, _), AnySet(_, _)
\* The matchers of a set run one after another while they hold.
emit_matcher_set(ms, cx) ==
    IF ms = <<>> THEN Verdict(TRUE, cx)
    ELSE AndThen(emit_matcher(Head(ms), cx), LAMBDA d : emit_matcher_set(Tail(ms), d))
\* ... in three phases: captures, plain tests, tests that can raise an error.
InPhases(set) ==
    LET phase(n) == SelectSeq(set, LAMBDA m : matcher_eval_phase(m) = n)
    IN  phase(1) \o phase(2) \o phase(3)
\* The sets of a route run one after another until one holds.
AnySet(sets, cx) ==
    IF sets = <<>> THEN Verdict(FALSE, cx)
    ELSE OrElse(emit_matcher_set(InPhases(Head(sets)), cx), LAMBDA d : AnySet(Tail(sets), d))
emit_route_match(route, cx) ==
    IF route.sets = <<>> THEN Verdict(TRUE, cx) ELSE AnySet(route.sets, cx)

emit_not(m, cx) ==
    IF m.sets = <<>> THEN Verdict(TRUE, cx)
    ELSE [AnySet(m.sets, cx) EXCEPT !.ok = ~@]

\* A matcher written as a call, path('/x') or file({...}).
emit_expression_call(m, cx) == emit_matcher(m, cx)
emit_expression_ast(a, cx) ==
    CASE a.k = "bool" -> Verdict(a.v, cx)
      [] a.k = "and"  -> AndThen(emit_expression_ast(a.l, cx), LAMBDA d : emit_expression_ast(a.r, d))
      [] a.k = "or"   -> OrElse(emit_expression_ast(a.l, cx), LAMBDA d : emit_expression_ast(a.r, d))
      [] a.k = "neg"  -> [emit_expression_ast(a.x, cx) EXCEPT !.ok = ~@]
      [] a.k = "eq"   -> Verdict(emit_expression_string_compare(a, cx), cx)
      [] a.k = "num"  -> Verdict(emit_expression_numeric_compare(a, cx), cx)
      [] a.k = "in"   -> Verdict(emit_expression_string_in(a, cx), cx)
      [] a.k = "matches" -> emit_expression_string_matches(a, cx)
      [] a.k = "call" -> emit_expression_call(a.m, cx)

\* An address cannot be trusted before the handshake completes.
emit_ip_matcher_early_data_guard(cx, ok) ==
    [Verdict(ok, cx) EXCEPT !.early = cx.tls /\ cx.early]

emit_matcher(m, cx) ==
    CASE m.k = "method"        -> Verdict(emit_string_list_match(m, cx), cx)
      [] m.k = "path"          -> Verdict(emit_path_match(m, cx), cx)
      [] m.k = "path_regexp"   -> emit_path_regexp_match(m, cx)
      [] m.k = "host"          -> Verdict(emit_host_match(m, cx), [cx EXCEPT
                                      !.stale = cx.stale \/ (~cx.hook /\ cx.hoist # cx.host)])
      [] m.k = "header"        -> Verdict(emit_header_match(m, cx), cx)
      [] m.k = "header_regexp" -> emit_header_regexp_match(m, cx)
      [] m.k = "query"         -> Verdict(emit_query_match(m, cx), cx)
      [] m.k = "remote_ip"     -> emit_ip_matcher_early_data_guard(cx, emit_remote_ip_match(m, cx))
      [] m.k = "client_ip"     -> emit_ip_matcher_early_data_guard(cx, emit_client_ip_match(m, cx))
      [] m.k = "file"          -> emit_file_match(m, cx)
      [] m.k = "vars"          -> Verdict(emit_vars_match(m, cx), cx)
      [] m.k = "vars_regexp"   -> emit_vars_regexp_match(m, cx)
      [] m.k = "expression"    -> emit_expression_ast(m.ast, cx)
      [] m.k = "not"           -> emit_not(m, cx)
      [] m.k = "protocol"      -> Verdict(emit_protocol_match(m, cx), cx)
      [] m.k = "tls"           -> Verdict(emit_tls_match(m, cx), cx)
=============================================================================
