---------------------------- MODULE ScriptRequest ----------------------------
(***************************************************************************)
(* The request as a script sees and edits it (script.rs ScriptRequest): a   *)
(* copy of the received head that keeps every datum several times - the URI *)
(* with its path, query, normalised path and three parses of the query; the *)
(* headers as one value each, as lists, and as a log of changes.  Helpers   *)
(* of helpers/caddy.rs and helpers/generic.rs edit the copy; when the       *)
(* script is done apply_script_request replays the log on the real head.    *)
(* One action per helper; a helper that returns an error ends the script.   *)
(***************************************************************************)
EXTENDS CaddyUri
LOCAL INSTANCE SequencesExt

CONSTANTS
  Heads,         \* the received heads
  Uris,          \* what scripts pass to zs_req_set_uri
  Templates,     \* rewrite templates
  UriOps,        \* rewrite operations on path and query
  QueryOps,      \* rewrite operations on the query's parameters
  HeaderEdits,   \* single header calls of a script
  HeaderOps,     \* header operations of a headers handler
  ProxyRewrites, \* rewrites of the proxied request: a template, URI and query operations
  PathPatterns,  \* patterns of path matchers
  Vars,          \* variables: placeholder symbol -> text
  ExpandCap,     \* room for an expanded header name or value
  MaxCalls,      \* bound on the helpers one request calls
  MaxMatchAfter, \* path matchers are tried after at most this many edits
  MaxPasses      \* bound on the times one request runs the middleware

VARIABLES
  head,     \* the received head
  req,      \* ScriptRequest
  memo,     \* the one-entry memo of caddy_cleaned_path_subject
  matched,  \* the path match just made: what was asked and what was answered
  stage,    \* "script", "applied", "failed" or "refused"
  pass,     \* how often the middleware has been started
  calls     \* helpers called so far

requestVars == <<head, req, memo, matched, stage, pass, calls>>

Host == <<"host">>
Opaque == <<"bytes">>    \* a header value that is not text
NewLine == "nl"          \* what no header value may hold
ValidValue(v) == NewLine \notin Range(v)

----------------------------------------------------------------------------
\* Every view of the query is computed again from the query.
WithQuery(r, query) ==
  [r EXCEPT !.query = query, !.params = parse_query_params(query),
            !.values = parse_query_param_values(query), !.caddy = parse_caddy_query_params(query)]
Target(path, query) == IF query = <<>> THEN path ELSE path \o <<"?">> \o query

set_query(r, query) == [WithQuery(r, query) EXCEPT !.uri = Target(r.path, query), !.uriChanged = TRUE]

set_path(r, path) ==
  [r EXCEPT !.path = path, !.uri = Target(path, r.query), !.norm = relative_of(path), !.uriChanged = TRUE,
            !.restored = FALSE]

\* http::Uri, as the code uses it: an origin-form target up to its fragment.
ParseUri(uri) == Before(uri, IF "#" \in Range(uri) THEN FirstAt(uri, "#") ELSE Len(uri) + 1)
\* split_relative_request_target and the parse it falls back on; None is an error.
PathAndQuery(plain) == OrElse(SplitOnce(plain, "?"), <<plain, <<>>>>)
SplitTarget(uri) ==
  IF uri = <<>> \/ Head(uri) \in {"#", "?"} THEN None ELSE Some(PathAndQuery(ParseUri(uri)))

keep_parsed_query(r, pq) ==
  [r EXCEPT !.uri = Target(pq[1], pq[2]), !.path = pq[1], !.query = pq[2],
            !.norm = relative_of(pq[1]), !.uriChanged = TRUE, !.restored = FALSE]
put_target(r, pq) ==
  [WithQuery(r, pq[2]) EXCEPT !.uri = Target(pq[1], pq[2]), !.path = pq[1],
                              !.norm = relative_of(pq[1]), !.uriChanged = TRUE, !.restored = FALSE]
set_uri(r, uri) == Then(SplitTarget(uri), LAMBDA pq : Some(put_target(r, pq)))

clear_proxy_overrides(r) == [r EXCEPT !.proxyMethod = None, !.proxyUri = None, !.proxyHeaders = None]

\* The URI and the query's views are restored; the normalised path is not (the
\* field "restored" is not the program's: it remembers this for the properties).
restore_original_uri(r) ==
  clear_proxy_overrides([WithQuery(r, r.orig.query) EXCEPT
                           !.uri = r.orig.uri, !.path = r.orig.path, !.uriChanged = TRUE, !.restored = TRUE])

----------------------------------------------------------------------------
\* Headers: hdr is one value per name, hv the list, changes the log.
With(f, k, v) == [n \in DOMAIN f \cup {k} |-> IF n = k THEN v ELSE f[n]]
Without(f, K) == [n \in DOMAIN f \ K |-> f[n]]
Get(f, k) == IF k \in DOMAIN f THEN f[k] ELSE <<>>
Log(r, changes) == [r EXCEPT !.changes = @ \o changes]
Change(op, name, value) == [op |-> op, name |-> name, value |-> value]

header_pattern_matches(name, pat) ==
  LET n == Len(pat) IN
  CASE n >= 2 /\ Head(pat) = "*" /\ Last(pat) = "*" -> Occurs(SubSeq(pat, 2, n - 1), name)
    [] n >= 1 /\ Head(pat) = "*"                    -> EndsWith(name, Tail(pat))
    [] n >= 1 /\ Last(pat) = "*"                    -> StartsWith(name, Front(pat))
    [] OTHER                                        -> name = pat

\* A call without a value removes the header.
set_header(r, name, value) ==
  CASE name = <<>> \/ ~ValidValue(value) -> None
    [] value = <<>> -> Some(Log([r EXCEPT !.hdr = Without(@, {name}), !.hv = Without(@, {name})],
                                <<Change("remove", name, <<>>)>>))
    [] OTHER -> Some(Log([r EXCEPT !.hdr = With(@, name, value), !.hv = With(@, name, <<value>>)],
                         <<Change("set", name, value)>>))

\* Host keeps one value: the last one appended is the one that is sent.
append_header(r, name, value) ==
  LET lists == With(r.hv, name, Append(Get(r.hv, name), value))
      joined == IF name \in DOMAIN r.hdr THEN r.hdr[name] \o <<",">> \o value ELSE value
  IN  CASE name = <<>> \/ ~ValidValue(value) -> None
        [] name = Host -> Some(Log([r EXCEPT !.hdr = With(@, name, value), !.hv = lists],
                                   <<Change("set", name, value)>>))
        [] OTHER -> Some(Log([r EXCEPT !.hdr = With(@, name, joined), !.hv = lists],
                             <<Change("append", name, value)>>))

delete_header_pattern(r, pat) ==
  LET gone(f) == {n \in DOMAIN f : header_pattern_matches(n, pat)} IN
  CASE pat = <<>>     -> None
    [] pat = <<"*">>  -> Some(Log([r EXCEPT !.hdr = <<>>, !.hv = <<>>], <<Change("clear", <<>>, <<>>)>>))
    [] OTHER          -> Some(Log([r EXCEPT !.hdr = Without(@, gone(@)), !.hv = Without(@, gone(@))],
                                  <<Change("pattern", pat, <<>>)>>))

\* What a replacement leaves of a list of values; invalid results are dropped.
Rewritten(values, By(_)) == SelectSeq(Mapped(values, By), ValidValue)

PutValues(r, name, values) ==
  IF name = Host
  THEN Log([r EXCEPT !.hdr = With(@, name, Last(values)), !.hv = With(@, name, values)],
           <<Change("set", name, Last(values))>>)
  ELSE Log([r EXCEPT !.hdr = With(@, name, Joined(values, <<",">>)), !.hv = With(@, name, values)],
           <<Change("remove", name, <<>>)>> \o [i \in DOMAIN values |-> Change("append", name, values[i])])

PutUnlessEmpty(r, name, values) == IF values = <<>> THEN r ELSE PutValues(r, name, values)
ReplaceIn(r, name, By(_)) ==
  IF name = <<>> THEN None
  ELSE Some(FoldSet(LAMBDA n, acc : PutUnlessEmpty(acc, n, Rewritten(acc.hv[n], By)), r,
                    {n \in DOMAIN r.hdr : name = <<"*">> \/ n = name}))

replace_header(r, name, search, rep) == ReplaceIn(r, name, LAMBDA v : replace_with_limit(v, search, rep, 0))
replace_header_regex(r, name, class, rep) == ReplaceIn(r, name, LAMBDA v : regex_replace_all(v, class, rep))

----------------------------------------------------------------------------
\* Rewrites.  {path} and {query} read the URI as it is now.
EnvOf(pq) ==
  [p \in {"{path}", "{query}"} \cup DOMAIN Vars |->
     CASE p = "{path}" -> pq[1] [] p = "{query}" -> pq[2] [] OTHER -> Vars[p]]
Env(r) == EnvOf(OrElse(SplitTarget(r.uri), <<r.path, r.query>>))

TemplateParts(plain) ==
  IF "?" \in Range(plain)
  THEN [path |-> SplitOnce(plain, "?")[1][1], query |-> Some(SplitOnce(plain, "?")[1][2])]
  ELSE [path |-> plain, query |-> None]
split_caddy_rewrite_uri_template(t) ==
  [TemplateParts(ParseUri(t)) EXCEPT !.path = IF @ = <<>> THEN None ELSE Some(@)]

\* The path is put in before the other placeholders are expanded.
escape_caddy_rewrite_path_placeholders(r, path) ==
  Flat([i \in DOMAIN path |-> IF path[i] = "{path}" THEN r.path ELSE <<path[i]>>])

\* Only a {query} where a key is expected goes in unescaped.
ExpandedSymbol(c, raw, query, env) ==
  CASE c = "{query}" /\ raw -> query
    [] c \in DOMAIN env /\ ~(c = "{query}" /\ raw) -> caddy_query_escape(env[c])
    [] c = "{?}"            -> <<>>
    [] OTHER                -> <<c>>
ExpandedComponent(component, raw, query, env) ==
  Flat(Mapped(component, LAMBDA c : ExpandedSymbol(c, raw, query, env)))
expand_caddy_query_component(r, component, raw) == ExpandedComponent(component, raw, r.query, Env(r))

\* A component ends before the next separator.
ComponentEnd(query) == Least({i \in DOMAIN query : query[i] \in {"=", "&"}} \cup {Len(query) + 1})
WithPart(out, wrote, part) ==
  out \o (CASE ~wrote -> <<"=">>
            [] wrote /\ out # <<>> /\ part # <<>> -> <<"&">>
            [] OTHER -> <<>>) \o part
RECURSIVE BuildQuery(_, _, _, _)
BuildQuery(r, query, wrote, out) ==
  IF query = <<>> THEN out
  ELSE LET end == ComponentEnd(query)
       IN  BuildQuery(r, After(query, end), end <= Len(query) /\ query[end] = "&",
                      WithPart(out, wrote, expand_caddy_query_component(r, Before(query, end), wrote)))
caddy_build_rewrite_query(r, query) == BuildQuery(r, query, TRUE, <<>>)

\* Braces that came out of a placeholder are escaped before they can be read again.
Neutral(s) == SelectSeq(s, LAMBDA c : c \notin DOMAIN Vars \cup {"{path}", "{query}", "{?}"})

RewriteTo(r, path, query) ==
  CASE path # None /\ query # None -> set_uri(r, Target(path[1], query[1]))
    [] path # None /\ query = None -> Some(set_path(r, path[1]))
    [] path = None /\ query # None -> Some(set_query(r, query[1]))
    [] OTHER                       -> Some(r)
\* A '?' that came out of a placeholder of the path starts the query, unless the
\* template has one of its own.
WithInjected(cx, r, path, injected, query) ==
  RewriteTo(r, path, IF query = None \/ (query = Some(<<>>) /\ injected # None)
                     THEN Then(injected, LAMBDA q : Some(caddy_build_rewrite_query(cx, Neutral(q))))
                     ELSE Some(caddy_build_rewrite_query(cx, query[1])))
WithPath(cx, r, path, query) ==
  IF "?" \in Range(path)
  THEN WithInjected(cx, r, Some(SplitOnce(path, "?")[1][1]), Some(SplitOnce(path, "?")[1][2]), query)
  ELSE WithInjected(cx, r, Some(path), None, query)
WithTemplate(cx, r, t) ==
  IF t.path = None THEN WithInjected(cx, r, None, None, t.query)
  ELSE WithPath(cx, r, expand_caddy_placeholders(Env(cx), escape_caddy_rewrite_path_placeholders(cx, t.path[1])), t.query)
apply_caddy_uri_template(cx, r, template) == WithTemplate(cx, r, split_caddy_rewrite_uri_template(template))

PrefixStripped(path, full) == trim_path_prefix_caddy(clean_path_caddy(path, MergesSlashes(full)), full, FALSE)
Absolute(p) == IF p # <<>> /\ Head(p) = Sl THEN p ELSE <<Sl>> \o p
StripPrefix(cx, path, prefix) ==
  IF prefix = <<>> THEN path
  ELSE PrefixStripped(path, Absolute(expand_caddy_placeholders(Env(cx), prefix)))

SuffixStripped(path, x) ==
  Reverse(trim_path_prefix_caddy(Reverse(clean_path_caddy(path, MergesSlashes(x))), Reverse(x), TRUE))
StripSuffix(cx, path, suffix) ==
  IF suffix = <<>> THEN path ELSE SuffixStripped(path, expand_caddy_placeholders(Env(cx), suffix))

ReplacedBoth(pq, op, find, rep) ==
  <<replace_with_limit(clean_path_caddy(pq[1], MergesSlashes(op.find)), find, rep, op.limit),
    replace_with_limit(pq[2], find, rep, op.limit)>>
SubstringReplaced(env, pq, op) ==
  IF op.find = <<>> THEN pq
  ELSE ReplacedBoth(pq, op, expand_caddy_placeholders(env, op.find), expand_caddy_placeholders(env, op.rep))

RegexpReplaced(env, path, op) == regex_replace_all(path, op.class, expand_caddy_placeholders(env, op.rep))
WithUriOps(r, ops, env, pq) ==
  set_query(set_path(r, FoldLeft(LAMBDA path, op : RegexpReplaced(env, path, op), pq[1], ops.regexp)), pq[2])
apply_caddy_uri_ops(cx, r, ops) ==
  WithUriOps(r, ops, Env(cx),
             FoldLeft(LAMBDA pq, op : SubstringReplaced(Env(cx), pq, op),
                      <<StripSuffix(cx, StripPrefix(cx, r.path, ops.prefix), ops.suffix), r.query>>, ops.substring))

\* rename, set, add, replace, delete, in this order whatever the order they are
\* written in; replace looks at every key.  None: a regexp does not compile.
Renamed(f, op) ==
  IF op[1] = <<>> \/ op[2] = <<>> \/ op[1] = op[2] \/ op[1] \notin DOMAIN f THEN f
  ELSE With(Without(f, {op[1]}), op[2], f[op[1]])
SetTo(f, op) == IF op[1] = <<>> THEN f ELSE With(f, op[1], <<op[2]>>)
AddedTo(f, op) == IF op[1] = <<>> THEN f ELSE With(f, op[1], Append(Get(f, op[1]), op[2]))
ReplacedIn(f, op) ==
  [k \in DOMAIN f |-> Mapped(f[k], LAMBDA v :
     IF op.class # {} THEN regex_replace_all(v, op.class, op.rep) ELSE replace_with_limit(v, op.search, op.rep, 0))]

\* Keys and values are expanded before they are used.
OpsIn(env, ops) ==
  LET X(s) == expand_caddy_placeholders(env, s)
      K(s) == expand_known_caddy_placeholders(env, s)
      Pairs(l) == Mapped(l, LAMBDA p : <<X(p[1]), X(p[2])>>)
  IN  [rename |-> Pairs(ops.rename), set |-> Pairs(ops.set), add |-> Pairs(ops.add),
       replace |-> Mapped(ops.replace, LAMBDA o : [o EXCEPT !.search = K(@), !.rep = K(@)]),
       delete |-> Mapped(ops.delete, X)]
ExpandedOps(cx, ops) == OpsIn(Env(cx), ops)

QueryValues(query, ops) ==
  Without(FoldLeft(ReplacedIn,
            FoldLeft(AddedTo,
              FoldLeft(SetTo,
                FoldLeft(Renamed, parse_query_param_values(query), ops.rename), ops.set), ops.add), ops.replace),
          ToSet(ops.delete) \ {<<>>})

\* The pairs of a map, key by key in one fixed order.
RECURSIVE PairsOf(_)
PairsOf(f) ==
  IF DOMAIN f = {} THEN <<>>
  ELSE LET k == CHOOSE x \in DOMAIN f : TRUE
       IN  [i \in DOMAIN f[k] |-> <<k, f[k][i]>>] \o PairsOf(Without(f, {k}))

serialized_by_hand(pairs) == Joined(Mapped(pairs, LAMBDA p : p[1] \o <<"=">> \o p[2]), <<"&">>)
Serialized(pairs) == Joined(Mapped(pairs, append_pair), <<"&">>)
rewrite_caddy_query(cx, query, ops) ==
  IF \E i \in DOMAIN ops.replace : "bad" \in ops.replace[i].class THEN None
  ELSE Some(Serialized(PairsOf(QueryValues(query, ExpandedOps(cx, ops)))))

apply_caddy_query_ops(cx, r, ops) ==
  Then(rewrite_caddy_query(cx, r.query, ops), LAMBDA q : Some(set_query(r, q)))

----------------------------------------------------------------------------
\* Header operations.  A request handler is compiled into one helper call per
\* operation; a name or a value that does not fit its buffer once expanded
\* skips the call.
Known(cx, s) == expand_known_caddy_placeholders(Env(cx), s)
IsTemplate(s) == \E i \in DOMAIN s : s[i] \in DOMAIN Vars \cup {"{path}", "{query}", "{?}"}
Fits(cx, s) == IsTemplate(s) => Len(Known(cx, s)) < ExpandCap

emit_set_header(r, name, value) ==
  IF Fits(r, name) /\ Fits(r, value) THEN set_header(r, Known(r, name), Known(r, value)) ELSE Some(r)
emit_append_header(r, name, value) ==
  IF Fits(r, name) /\ Fits(r, value) THEN append_header(r, Known(r, name), Known(r, value)) ELSE Some(r)
emit_delete_header(r, pat) == IF Fits(r, pat) THEN delete_header_pattern(r, Known(r, pat)) ELSE Some(r)
emit_conditional_delete_header(r, pat, onlyStar) ==
  IF Fits(r, pat) /\ (Known(r, pat) = <<"*">>) = onlyStar THEN delete_header_pattern(r, Known(r, pat)) ELSE Some(r)

h_req_replace_header(r, name, op) ==
  IF op.class # {}
  THEN IF "bad" \in op.class THEN Some(r) ELSE replace_header_regex(r, Known(r, name), op.class, Known(r, op.rep))
  ELSE replace_header(r, Known(r, name), Known(r, op.search), Known(r, op.rep))

\* "*" is deleted first, so that what is added survives; the others last.
star_deleted_first(r, pat) ==
  IF pat = <<"*">> \/ IsTemplate(pat) THEN emit_conditional_delete_header(r, pat, TRUE) ELSE Some(r)

DeleteLater(r, pat) ==
  CASE IsTemplate(pat) -> emit_conditional_delete_header(r, pat, FALSE)
    [] pat = <<"*">>   -> Some(r)
    [] OTHER           -> emit_delete_header(r, pat)
AppendAll(r, name, values) ==
  FoldLeft(LAMBDA acc, v : Then(acc, LAMBDA q : emit_append_header(q, name, v)), Some(r), values)
ReplaceEach(r, name, ops) ==
  FoldLeft(LAMBDA acc, o : Then(acc, LAMBDA q : h_req_replace_header(q, name, o)), Some(r), ops)
Each(acc, entries, Step(_, _)) == FoldLeft(LAMBDA o, e : Then(o, LAMBDA q : Step(q, e)), acc, entries)
emit_header_ops(r, ops) ==
  Each(Each(Each(Each(Each(Some(r),
    ops.delete, star_deleted_first),
    ops.add, LAMBDA q, e : AppendAll(q, e[1], e[2])),
    ops.set, LAMBDA q, e : emit_set_header(q, e[1], Joined(e[2], <<",">>))),
    ops.delete, DeleteLater),
    ops.replace, LAMBDA q, e : ReplaceEach(q, e[1], e[2]))

\* A response handler hands the same operations to one helper, which edits a
\* header map; what it cannot apply it skips.
apply_caddy_header_replacement(hs, name, op) ==
  LET By(v) == IF op.class # {} THEN regex_replace_all(v, op.class, op.rep)
               ELSE replace_with_limit(v, op.search, op.rep, 0)
      targets == {n \in DOMAIN hs : name = <<"*">> \/ n = name}
      kept == [n \in DOMAIN hs |-> IF n \in targets THEN Rewritten(hs[n], By) ELSE hs[n]]
  IN  IF name = <<>> \/ "bad" \in op.class THEN hs
      ELSE Without(kept, {n \in DOMAIN kept : kept[n] = <<>>})

AddValue(hs, name, value) ==
  IF name = <<>> \/ ~ValidValue(value) THEN hs ELSE With(hs, name, Append(Get(hs, name), value))
SetValue(hs, name, value) == IF name = <<>> \/ ~ValidValue(value) THEN hs ELSE With(hs, name, <<value>>)
DeletePattern(hs, pat) ==
  IF pat = <<"*">> THEN hs ELSE Without(hs, {n \in DOMAIN hs : header_pattern_matches(n, pat)})
HeaderOpsIn(env, hs, ops) ==
  LET X(s) == expand_known_caddy_placeholders(env, s)
  IN  FoldLeft(LAMBDA acc, e : FoldLeft(LAMBDA a, o :
                 apply_caddy_header_replacement(a, X(e[1]), [o EXCEPT !.search = X(@), !.rep = X(@)]), acc, e[2]),
       FoldLeft(LAMBDA acc, pat : DeletePattern(acc, X(pat)),
        FoldLeft(LAMBDA acc, e : SetValue(acc, X(e[1]), Joined(Mapped(e[2], X), <<",">>)),
         FoldLeft(LAMBDA acc, e : FoldLeft(LAMBDA a, v : AddValue(a, X(e[1]), X(v)), acc, e[2]),
          FoldLeft(LAMBDA acc, pat : IF X(pat) = <<"*">> THEN <<>> ELSE acc, hs, ops.delete),
          ops.add), ops.set), ops.delete), ops.replace)
apply_caddy_header_ops_value(cx, hs, ops) == HeaderOpsIn(Env(cx), hs, ops)

----------------------------------------------------------------------------
Text1(hs) == [n \in DOMAIN hs |-> SelectSeq(hs[n], LAMBDA v : v # Opaque)]
Visible(hs) == Without(Text1(hs), {n \in DOMAIN hs : Text1(hs)[n] = <<>>})

\* The script sees the normalised path, encoded as it was received.
build_script_request(h) ==
  LET shown == Visible(h.headers)
      path == encoded_path_with_dir_hint(h.path)
      base == [method |-> h.method, path |-> path, query |-> h.query, uri |-> Target(path, h.query),
               norm |-> relative_of(h.path), params |-> <<>>, values |-> <<>>, caddy |-> <<>>,
               hdr |-> [n \in DOMAIN shown |-> Last(shown[n])], hv |-> shown, changes |-> <<>>,
               proxyMethod |-> None, proxyUri |-> None, proxyHeaders |-> None,
               uriChanged |-> FALSE, methodChanged |-> FALSE, restored |-> FALSE,
               orig |-> [path |-> path, query |-> h.query, uri |-> Target(path, h.query)]]
  IN  WithQuery(base, h.query)

Replay(hs, c) ==
  CASE c.op = "set"     -> With(hs, c.name, <<c.value>>)
    [] c.op = "append"  -> With(hs, c.name, Append(Get(hs, c.name), c.value))
    [] c.op = "remove"  -> Without(hs, {c.name})
    [] c.op = "pattern" -> Without(hs, {n \in DOMAIN hs : header_pattern_matches(n, c.name)})
    [] c.op = "clear"   -> <<>>

script_request_wire_uri(r) ==
  CASE r.uri = <<>> \/ r.uri = <<"?">> -> <<Sl>>
    [] Head(r.uri) = "?"              -> <<Sl>> \o r.uri
    [] OTHER                          -> r.uri

apply_script_request(h, r) ==
  [h EXCEPT !.method = IF r.methodChanged THEN r.method ELSE @,
            !.uri = IF r.uriChanged THEN ParseUri(script_request_wire_uri(r)) ELSE @,
            !.headers = FoldLeft(Replay, @, r.changes)]

----------------------------------------------------------------------------
RequestInit ==
  /\ head \in Heads
  /\ req = build_script_request(head)
  /\ memo = None /\ matched = None
  /\ stage = "script" /\ pass = 1 /\ calls = 0

\* A helper call; None is the error return, which ends the script.
Edit(result) ==
  /\ stage = "script" /\ calls < MaxCalls
  /\ calls' = calls + 1
  /\ IF result = None THEN stage' = "failed" /\ req' = req ELSE stage' = stage /\ req' = result[1]
  /\ matched' = None
  /\ UNCHANGED <<head, memo, pass>>

set_method(r, m) == IF m = <<>> THEN None ELSE Some([r EXCEPT !.method = m, !.methodChanged = TRUE])
h_caddy_rewrite_method(m) == Edit(set_method(req, expand_caddy_placeholders(Env(req), m)))
h_req_set_uri(u) == Edit(set_uri(req, u))
h_req_edit_header(e) ==
  Edit(CASE e.f = "set"    -> set_header(req, e.name, e.value)
         [] e.f = "append" -> append_header(req, e.name, e.value)
         [] e.f = "delete" -> delete_header_pattern(req, e.name))
h_req_rewrite_uri(ops) == Edit(Some(apply_caddy_uri_ops(req, req, ops)))
h_caddy_rewrite_uri(t) == Edit(apply_caddy_uri_template(req, req, t))
h_req_rewrite_query(ops) == Edit(apply_caddy_query_ops(req, req, ops))
request_headers(ops) == Edit(emit_header_ops(req, ops))

\* The proxied request is rewritten in a copy; only its method and URI are kept.
ProxyRewritten(c) ==
  Then(Then(IF c.uri = <<>> THEN Some(req) ELSE apply_caddy_uri_template(req, req, c.uri),
            LAMBDA r : Some(apply_caddy_uri_ops(req, r, c.ops))),
       LAMBDA r : IF c.query = None THEN Some(r) ELSE apply_caddy_query_ops(req, r, c.query[1]))
h_caddy_reverse_proxy_rewrite(c) ==
  Edit(Then(ProxyRewritten(c), LAMBDA p :
         IF p.uri = <<>> THEN None
         ELSE Some([req EXCEPT !.proxyMethod = Some(p.method), !.proxyUri = Some(p.uri)])))

\* Its headers are a copy of their own from the first operation on them.
caddy_proxy_headers(r) == OrElse(r.proxyHeaders, r.hv)
h_caddy_reverse_proxy_request_headers(ops) ==
  Edit(Some([req EXCEPT !.proxyHeaders =
               Some(apply_caddy_header_ops_value(req, caddy_proxy_headers(req), ops))]))

\* The memo holds one subject, keyed by the path and by whether slashes merge.
forgetful_key(path, merge) == <<path, TRUE>>
SubjectKey(path, merge) == <<path, merge>>
caddy_cleaned_path_subject(path, merge) ==
  IF memo # None /\ memo[1].key = SubjectKey(path, merge) THEN memo[1].subject ELSE caddy_path_subject(path, merge)

Holds(o, P(_)) == o # None /\ P(o[1])
caddy_match_path(path, pat) ==
  CASE pat = <<"*">>  -> TRUE
    [] HasEscape(pat) ->
         Holds(caddy_escaped_path_match_subject(clean_path_caddy(path, MergesSlashes(pat)), pat),
               LAMBDA h : caddy_http_path_glob_match(Mapped(pat, LAMBDA c : IF c = "%*" THEN "*" ELSE c), h))
    [] OTHER          ->
         Holds(caddy_cleaned_path_subject(path, MergesSlashes(pat)), LAMBDA s : caddy_match_cleaned_path(s, pat))

h_caddy_path_match(pat) ==
  LET path == Lowered(req.path)
      merge == MergesSlashes(pat)
  IN  /\ stage = "script" /\ calls <= MaxMatchAfter
      /\ UNCHANGED <<head, req, stage, pass, calls>>
      /\ matched' = Some([path |-> path, pat |-> pat, ok |-> caddy_match_path(path, pat)])
      /\ memo' = IF pat = <<"*">> \/ HasEscape(pat) THEN memo
                 ELSE Some([key |-> SubjectKey(path, merge), subject |-> caddy_cleaned_path_subject(path, merge)])

\* The script returns; the head takes over what it changed.  A path that does
\* not normalise is answered with 400.
ScriptReturns ==
  /\ stage = "script"
  /\ head' = apply_script_request(head, req)
  /\ stage' = IF (req.uriChanged \/ pass > 1) /\ normalize_request_path(req.path) = None THEN "refused" ELSE "applied"
  /\ matched' = None
  /\ UNCHANGED <<req, memo, pass, calls>>

\* A failed upstream runs the error routes on the same request object, with the
\* URI as received; a hook that continues runs the middleware again with the
\* URI as it is.  Both drop the overrides, and the log is kept.
set_proxy_error_metadata ==
  /\ stage = "applied" /\ pass < MaxPasses
  /\ req' = restore_original_uri(req)
  /\ stage' = "script" /\ pass' = pass + 1
  /\ UNCHANGED <<head, memo, matched, calls>>
continue_request ==
  /\ stage = "applied" /\ pass < MaxPasses
  /\ req' = clear_proxy_overrides(req)
  /\ stage' = "script" /\ pass' = pass + 1
  /\ UNCHANGED <<head, memo, matched, calls>>

Sent == stage \in {"applied", "failed", "refused"} /\ UNCHANGED requestVars

RequestNext ==
  \/ \E m \in {<<>>, <<"put">>} : h_caddy_rewrite_method(m)
  \/ \E u \in Uris : h_req_set_uri(u)
  \/ \E e \in HeaderEdits : h_req_edit_header(e)
  \/ \E o \in UriOps : h_req_rewrite_uri(o)
  \/ \E t \in Templates : h_caddy_rewrite_uri(t)
  \/ \E o \in QueryOps : h_req_rewrite_query(o)
  \/ \E o \in HeaderOps : request_headers(o)
  \/ \E c \in ProxyRewrites : h_caddy_reverse_proxy_rewrite(c)
  \/ \E o \in HeaderOps : h_caddy_reverse_proxy_request_headers(o)
  \/ \E p \in PathPatterns : h_caddy_path_match(p)
  \/ ScriptReturns \/ set_proxy_error_metadata \/ continue_request \/ Sent

RequestSpec == RequestInit /\ [][RequestNext]_requestVars

----------------------------------------------------------------------------

Plain(s) == {"?", "#"} \cap Range(s) = {}
\* ScriptRequest keeps the query four times and the path three times: whatever
\* the order of rewrites, every parse of the query is a parse of the query of
\* now, a URI made of a path without '?' and '#' splits into that path and that
\* query, the normalised path is that of the path, and the two header maps know
\* the same names.  One view is left out: restore_original_uri (script.rs:629-640),
\* which runs when an upstream failed, puts the path back and not the normalised
\* path, so until a script sets the path again zs_req_normalized_path and the
\* pass-through test of the file server (helpers/caddy.rs:4808) see the path that
\* was proxied, although docs/user_manual.md:883 calls it the path "used by
\* zeroserve static-file lookup".
ViewsAgree ==
  /\ ~req.restored => req.norm = relative_of(req.path)
  /\ req.params = parse_query_params(req.query)
  /\ req.values = parse_query_param_values(req.query)
  /\ req.caddy = parse_caddy_query_params(req.query)
  /\ (req.path # <<>> /\ Plain(req.path) /\ "#" \notin Range(req.query))
       => SplitTarget(req.uri) = Some(<<req.path, req.query>>)
  /\ DOMAIN req.hdr = DOMAIN req.hv

\* A log that has the same effect when it is replayed on its own result.
Emptied(log, i) ==
  \E j \in 1..(i - 1) : \/ log[j].op = "clear"
                        \/ log[j].op = "remove" /\ log[j].name = log[i].name
                        \/ log[j].op = "set" /\ log[j].name = log[i].name
                        \/ log[j].op = "pattern" /\ header_pattern_matches(log[i].name, log[j].name)
Repeatable(log) == \A i \in DOMAIN log : log[i].op = "append" => Emptied(log, i)
\* The log that apply_script_request replays on the received head leaves on it
\* exactly the headers the script saw last, values that are not text aside; of
\* Host, which is sent once, the last.  A rerun replays the whole log again,
\* so there the log must not append to what it has already appended.
LogReplayed ==
  stage = "applied" /\ (pass = 1 \/ Repeatable(req.changes)) =>
    LET sent == Visible(head.headers) IN
    /\ Without(sent, {Host}) = Without(req.hv, {Host})
    /\ (Host \in DOMAIN sent) = (Host \in DOMAIN req.hv)
    /\ Host \in DOMAIN sent => Last(sent[Host]) = Last(req.hv[Host])

Segments(s) == SelectSeq(Split(s, Sl), LAMBDA p : p # <<>>)
Unless(o, P(_)) == o = None \/ P(o[1])
\* The path a Caddy path matcher tests (decoded, then cleaned) names the file
\* that static lookup opens for the same request, for every absolute path that
\* lookup accepts.
MatcherSeesServed ==
  (req.path # <<>> /\ Head(req.path) = Sl) =>
     Unless(normalize_request_path(req.path), LAMBDA n :
       Holds(caddy_path_subject(req.path, TRUE), LAMBDA s : Segments(s) = Mapped(n, Lowered)))

Canonical(c, merge) ==
  /\ clean_path_caddy(c, merge) = c
  /\ \A part \in Range(Split(c, Sl)) : part # <<".", ".">> /\ (Len(c) > 2 => part # <<".">>)
  /\ merge => ~Occurs(<<Sl, Sl>>, c)
  /\ (req.path # <<>> /\ Last(req.path) = Sl) => Last(c) = Sl
\* Cleaning gives a path with no empty or dot segment (two slashes in a row may
\* stay when asked for), keeps a final slash, and cleaning again changes nothing.
CleanIsCanonical ==
  \A merge \in BOOLEAN : Canonical(clean_path_caddy(req.path, merge), merge)

\* What a path match answers without the memo.
Unmemoised(path, pat) ==
  Holds(caddy_path_subject(path, MergesSlashes(pat)), LAMBDA s : caddy_match_cleaned_path(s, pat))
\* A path match answers as if there were no memo, although the path may have
\* been rewritten, and a pattern that keeps double slashes tried, since the
\* memo was filled (caddy_cleaned_path_subject).
MemoFresh ==
  matched # None =>
    LET m == matched[1] IN
    m.pat # <<"*">> /\ ~HasEscape(m.pat) => m.ok = Unmemoised(m.path, m.pat)

\* A rewritten query, parsed again, holds exactly the parameters the operations
\* left: serialising them loses no separator (rewrite_caddy_query; the escaping of
\* a single pair is form_urlencoded's).
QuerySurvives ==
  calls' # calls /\ req'.path = req.path /\ req'.changes = req.changes =>
    \A o \in QueryOps : h_req_rewrite_query(o) /\ stage' = "script" =>
      req'.values = QueryValues(req.query, ExpandedOps(req, o))

\* Operations both sides can carry out.
Comparable(r, o) ==
  /\ \A i \in DOMAIN o.set : Known(r, Joined(o.set[i][2], <<",">>)) # <<>> /\ Fits(r, Joined(o.set[i][2], <<",">>))
  /\ \A i \in DOMAIN o.add : \A j \in DOMAIN o.add[i][2] : Fits(r, o.add[i][2][j])
  /\ \A i \in DOMAIN o.replace : \A j \in DOMAIN o.replace[i][2] : NewLine \notin Range(o.replace[i][2][j].rep)
\* The compiled calls for request headers do what the one helper for response
\* headers does with the same operations, when every expansion fits its buffer,
\* no value is set to nothing, no replacement is invalid and Host is not named.
HeaderOpsAgree ==
  calls' # calls /\ req'.uri = req.uri =>
    \A o \in HeaderOps : request_headers(o) /\ stage' = "script" /\ Comparable(req, o) =>
      Without(req'.hv, {Host}) = Without(apply_caddy_header_ops_value(req, req.hv, o), {Host})

\* What a script sees of a request is what is sent: the views of the target and
\* of the headers agree at every moment (the normalised path after a restored
\* URI aside), and the log replayed on the received head gives the headers seen
\* last.
SeenIsSent == ViewsAgree /\ LogReplayed

\* The path that is judged is the path that is served: matchers test the cleaned
\* form that lookup uses, cleaning is idempotent, and no memo of it is stale.
JudgedIsServed == MatcherSeesServed /\ CleanIsCanonical /\ MemoFresh

\* A rewrite by a helper does what its operations say: on the query what they
\* do to its parameters, on request headers what they do to response headers.
RewritesAgree == [][QuerySurvives /\ HeaderOpsAgree]_requestVars
=============================================================================
