---------------------------- MODULE CaddyAdapter ----------------------------
(***************************************************************************)
(* From site blocks to servers (caddyfile/adapter/mod.rs, address.rs and   *)
(* the end of handlers.rs): the blocks of a Caddyfile are told apart, the  *)
(* global options applied, every site's directives compiled to routes and  *)
(* sorted, the sites distributed over listeners, ordered by how specific   *)
(* their addresses are, and the certificates to obtain worked out.         *)
(*                                                                         *)
(* A block is [keys, named, braces, dirs]; a key is a sequence of lexical  *)
(* pieces of an address; a directive is [dir, ms, arg], ms its matcher     *)
(* sets and arg, where it has a block, the directives in it.  What a       *)
(* directive does when it runs is left out: its route carries the place it *)
(* was written at.                                                         *)
(***************************************************************************)
EXTENDS Integers, Sequences, FiniteSets

CONSTANTS
    Files,          \* the parsed files by kind: [blocks, orders, names, http, https, email, ca, eab]
    DirectiveOrder  \* DIRECTIVE_ORDER

VARIABLES
    source,    \* the file
    stage,     \* "blocks" | "options" | "named" | "sites" | "tls" | "servers" | "done" | "error"
    order,     \* options.directive_order
    nameds,    \* named routes built so far
    compiled,  \* CompiledBlocks
    counter,   \* Counter: groups handed out
    tlsApp,    \* the TLS automation app
    groups,    \* listener sets not yet turned into servers
    servers    \* the servers, by name

adapterVars == <<source, stage, order, nameds, compiled, counter, tlsApp, groups, servers>>

Range(s) == {s[i] : i \in DOMAIN s}

RECURSIVE Concat(_)
Concat(ss) == IF ss = <<>> THEN <<>> ELSE Head(ss) \o Concat(Tail(ss))

-----------------------------------------------------------------------------
(* address.rs. *)

\* split_once: the parts around the first occurrence of c.
FirstAt(s, c) == CHOOSE i \in DOMAIN s : s[i] = c /\ \A j \in 1..(i - 1) : s[j] # c
Has(s, c) == c \in Range(s)
BeforeFirst(s, c) == IF Has(s, c) THEN SubSeq(s, 1, FirstAt(s, c) - 1) ELSE s
AfterFirst(s, c) == SubSeq(s, FirstAt(s, c) + 1, Len(s))

SplitHostPort(s) ==
    LET colons == {i \in DOMAIN s : s[i] = ":"} IN
    CASE s # <<>> /\ s[1] = "[" /\ Has(s, "]") ->
           [host |-> Tail(BeforeFirst(s, "]")),
            port |-> LET after == AfterFirst(s, "]") IN
                     IF after # <<>> /\ after[1] = ":" THEN Tail(after) ELSE <<>>]
      [] s # <<>> /\ s[1] # "[" /\ Cardinality(colons) = 1 ->
           [host |-> BeforeFirst(s, ":"), port |-> AfterFirst(s, ":")]
      [] OTHER -> [host |-> s, port |-> <<>>]

Numbers == {"80", "443", "8080"}

ParseAddress(key) ==
    LET rest == IF Has(key, "://") THEN AfterFirst(key, "://") ELSE key
        scheme == IF Has(key, "://") THEN BeforeFirst(key, "://") ELSE <<>>
        hp == SplitHostPort(BeforeFirst(rest, "/"))
    IN [ok |-> /\ hp.port = <<>> \/ (Len(hp.port) = 1 /\ hp.port[1] \in Numbers)
               /\ scheme \in {<<>>, <<"http">>, <<"https">>},
        scheme |-> scheme, host |-> hp.host, port |-> hp.port,
        path |-> IF Has(rest, "/") THEN <<"/">> \o AfterFirst(rest, "/") ELSE <<>>]

\* The length without wildcards and placeholders.
RECURSIVE Placeholders(_)
Placeholders(s) ==
    IF ~Has(s, "{") \/ ~Has(AfterFirst(s, "{"), "}") THEN 0
    ELSE LET close == FirstAt(s, "{") + FirstAt(AfterFirst(s, "{"), "}") IN
         close - FirstAt(s, "{") + 1 + Placeholders(SubSeq(s, close + 1, Len(s)))
Specificity(s) == Len(s) - Cardinality({i \in DOMAIN s : s[i] = "*"}) - Placeholders(s)

-----------------------------------------------------------------------------
(* Sorting, grouping and merging the routes of a site. *)

NoMatch == <<>>

NormalizeDirectiveName(dir) == IF dir = "handle_path" THEN "handle" ELSE dir

Ordered(dir, ord) == dir \in Range(ord)
DirectivePosition(dir, ord) ==
    IF Ordered(dir, ord) THEN CHOOSE i \in DOMAIN ord : ord[i] = dir ELSE Len(ord) + 1

\* A matcher set is [host, path, other]: hosts and paths as sequences, other for
\* the rest of it.
SinglePath(r) ==
    IF Len(r.ms) = 1 /\ Len(r.ms[1].path) = 1 THEN r.ms[1].path ELSE <<>>

Trimmed(p) == IF p[Len(p)] = "*" THEN SubSeq(p, 1, Len(p) - 1) ELSE p

Letters == <<"*", ".", "/", "a", "b", "c", "x">>
LetterAt(c) == CHOOSE i \in DOMAIN Letters : Letters[i] = c

\* Comparisons are -1, 0 or 1.
CompareInts(m, n) == IF m < n THEN -1 ELSE IF m > n THEN 1 ELSE 0
CompareText(s, t) ==
    LET diff == {i \in DOMAIN s : s[i] # t[i]} IN
    IF diff = {} THEN 0
    ELSE LET i == CHOOSE k \in diff : \A j \in diff : k <= j IN CompareInts(LetterAt(s[i]), LetterAt(t[i]))

SortByPath(a, b) ==
    LET ap == SinglePath(a)
        bp == SinglePath(b)
    IN IF ap # <<>> /\ bp # <<>>
       THEN LET at == Trimmed(ap[1])
                bt == Trimmed(bp[1])
            IN CASE at = bt -> CompareInts(Len(ap[1]), Len(bp[1]))
                 [] at # bt /\ Len(at) = Len(bt) -> CompareText(at, bt)
                 [] OTHER -> CompareInts(Len(bt), Len(at))
       ELSE CASE a.ms # NoMatch /\ b.ms = NoMatch -> -1
              [] a.ms = NoMatch /\ b.ms # NoMatch -> 1
              [] OTHER -> 0

\* Mutant: the path before the directive.
CompareRoutesByPath(a, b, ord) ==
    LET byPath == SortByPath(a, b) IN
    IF byPath # 0 THEN byPath
    ELSE CompareInts(DirectivePosition(a.dir, ord), DirectivePosition(b.dir, ord))

ThenByPlace(byPath, a, b) == IF byPath = 0 THEN CompareInts(a.idx, b.idx) ELSE byPath
CompareRoutes(a, b, ord) ==
    CASE a.dir # b.dir -> CompareInts(DirectivePosition(a.dir, ord), DirectivePosition(b.dir, ord))
      [] a.dir = b.dir /\ a.dir = "vars" -> -ThenByPlace(SortByPath(a, b), a, b)
      [] OTHER -> ThenByPlace(SortByPath(a, b), a, b)

\* slice::sort_by, which inserts one element after the other when there are few.
RECURSIVE InsertRoute(_, _, _), InsertionSort(_, _)
InsertRoute(s, r, ord) ==
    IF s # <<>> /\ CompareRoutes(r, s[Len(s)], ord) = -1
    THEN Append(InsertRoute(SubSeq(s, 1, Len(s) - 1), r, ord), s[Len(s)])
    ELSE Append(s, r)
InsertionSort(s, ord) ==
    IF s = <<>> THEN <<>> ELSE InsertRoute(InsertionSort(SubSeq(s, 1, Len(s) - 1), ord), s[Len(s)], ord)

SortRoutes(routes, ord) == InsertionSort([i \in DOMAIN routes |-> [routes[i] EXCEPT !.idx = i]], ord)

\* Adjacent routes that agree in matcher, terminal and group become one.
RECURSIVE ConsolidateRoutes(_)
ConsolidateRoutes(rs) ==
    IF Len(rs) < 2 THEN rs
    ELSE IF rs[1].ms = rs[2].ms /\ rs[1].group = rs[2].group
         THEN ConsolidateRoutes(<<[rs[1] EXCEPT !.hs = @ \o rs[2].hs]>> \o SubSeq(rs, 3, Len(rs)))
         ELSE <<rs[1]>> \o ConsolidateRoutes(Tail(rs))

\* The groups a subroute takes from the counter: one for each directive of which
\* at most one may run, if there are several; always one for rewrite.
Exclusive == <<"handle", "rewrite", "root">>
Grouped(routes) ==
    SelectSeq(Exclusive, LAMBDA d : d = "rewrite" \/ Cardinality({i \in DOMAIN routes : routes[i].dir = d}) > 1)

\* build_subroute: [ok, routes, counter].  Only routes may stand in a subroute.
GroupOf(names, d, n) == IF Has(names, d) THEN n + FirstAt(names, d) ELSE 0
GroupedRoutes(sorted, names, n) ==
    [i \in DOMAIN sorted |-> [ms |-> sorted[i].ms, hs |-> <<sorted[i].at>>, group |-> GroupOf(names, sorted[i].dir, n)]]
BuildSubroute(routes, n, sorting, ord) ==
    [ok |-> \A i \in DOMAIN routes : routes[i].dir # "tls" /\ (sorting => Ordered(routes[i].dir, ord)),
     routes |-> ConsolidateRoutes(GroupedRoutes(IF sorting THEN SortRoutes(routes, ord) ELSE routes, Grouped(routes), n)),
     counter |-> n + Len(Grouped(routes))]

-----------------------------------------------------------------------------
(* The blocks of the file. *)

IsRegisteredDirectiveName(key) ==
    Len(key) = 1 /\ key[1] \in Range(DirectiveOrder) \cup {"header", "request_header", "try_files",
                                                          "handle_errors", "log", "bind", "tls"}

Blocks == source.blocks
Keyless == {i \in DOMAIN Blocks : Blocks[i].keys = <<>>}
Sites == SelectSeq(Blocks, LAMBDA b : b.keys # <<>> /\ ~b.named)
Nameds == SelectSeq(Blocks, LAMBDA b : b.keys # <<>> /\ b.named)

BlocksAreFine ==
    /\ \A i \in DOMAIN Blocks : Blocks[i].keys # <<>> => Blocks[i].keys[1][1] # "@m"
    /\ Keyless \subseteq {1}
    /\ \A i \in DOMAIN Sites : ~Sites[i].braces => ~IsRegisteredDirectiveName(Sites[i].keys[1])

AdaptFails == stage' = "error" /\ UNCHANGED <<source, order, nameds, compiled, counter, tlsApp, groups, servers>>

ClassifyBlocks ==
    /\ stage = "blocks"
    /\ stage' = IF BlocksAreFine THEN "options" ELSE "error"
    /\ UNCHANGED <<source, order, nameds, compiled, counter, tlsApp, groups, servers>>

\* parse_order: takes the directive out and puts it back where it is asked for.
RemoveDir(ord, d) == SelectSeq(ord, LAMBDA x : x # d)
InsertAt(ord, i, d) == SubSeq(ord, 1, i - 1) \o <<d>> \o SubSeq(ord, i, Len(ord))
ParseOrder(ord, o) ==
    LET rest == RemoveDir(ord, o.dir)
        place == CASE o.pos = "first" -> 1
                   [] o.pos = "last" -> Len(rest) + 1
                   [] o.pos = "before" -> DirectivePosition(o.other, rest)
                   [] OTHER -> DirectivePosition(o.other, rest) + 1
    IN [ok |-> /\ o.dir \in Range(DirectiveOrder)
               /\ o.pos \in {"before", "after"} => Ordered(o.other, rest),
        order |-> InsertAt(rest, place, o.dir)]

\* evaluate_global_options, one `order` at a time.
EvaluateGlobalOptions ==
    /\ stage = "options"
    /\ LET done == source.orders = <<>>
           p == ParseOrder(order, Head(source.orders))
       IN CASE done -> stage' = "named" /\ UNCHANGED <<source, order>>
            [] ~done /\ p.ok -> order' = p.order /\ source' = [source EXCEPT !.orders = Tail(@)] /\ UNCHANGED stage
            [] OTHER -> stage' = "error" /\ UNCHANGED <<source, order>>
    /\ UNCHANGED <<nameds, compiled, counter, tlsApp, groups, servers>>

-----------------------------------------------------------------------------
(* Compiling a block. *)

Known == Range(DirectiveOrder) \cup {"handle_errors", "log", "bind", "tls"}

\* What parse_bind returns, and parse_log unless it is to write to a file.
Silent(d) == d.dir = "bind" \/ (d.dir = "log" /\ d.arg # <<"file">>)

\* parse_handle, parse_handle_path, parse_route and parse_handle_errors: the
\* block of a directive is compiled, and takes its groups, when the directive is
\* met; handle_path puts a rewrite in front, route keeps the order written.
RECURSIVE ConfigValues(_, _, _)
StripRoute == [ms |-> NoMatch, hs |-> <<0>>, group |-> 0]
WithStrip(sub) == [sub EXCEPT !.routes = <<StripRoute>> \o @]
SubrouteOf(d, v) ==
    CASE ~v.ok -> v
      [] v.ok /\ d.dir = "handle_path" -> WithStrip(BuildSubroute(v.routes, v.counter, TRUE, order))
      [] OTHER -> BuildSubroute(v.routes, v.counter, d.dir # "route", order)
ValueOf(d, n) ==
    IF d.dir \in {"handle", "handle_path", "route", "handle_errors"}
    THEN SubrouteOf(d, ConfigValues(d.arg, 1, [ok |-> TRUE, routes |-> <<>>, counter |-> n]))
    ELSE [ok |-> d.dir \in Known, routes |-> <<>>, counter |-> n]

\* dispatch for each directive in turn: [ok, routes, counter].
AddValue(acc, i, d, sub) ==
    [ok |-> sub.ok, counter |-> sub.counter,
     routes |-> IF Silent(d) THEN acc.routes
                ELSE Append(acc.routes, [dir |-> NormalizeDirectiveName(d.dir), ms |-> d.ms, at |-> i, idx |-> 0,
                                         sub |-> sub.routes])]
ConfigValues(dirs, i, acc) ==
    IF i > Len(dirs) \/ ~acc.ok THEN acc
    ELSE ConfigValues(dirs, i + 1, AddValue(acc, i, dirs[i], ValueOf(dirs[i], acc.counter)))

\* compile_block_routes: every directive's values, by class.
RoutesOf(v) == SelectSeq(v.routes, LAMBDA r : r.dir \notin {"handle_errors", "tls"})
ErrorsOf(v) == SelectSeq(v.routes, LAMBDA r : r.dir = "handle_errors")
TlsOf(dirs) == LET t == SelectSeq(dirs, LAMBDA x : x.dir = "tls") IN [i \in DOMAIN t |-> t[i].arg]
BindHosts(dirs) == UNION {Range(dirs[i].arg) : i \in {j \in DOMAIN dirs : dirs[j].dir = "bind"}}
CompileBlockRoutes(b) == ConfigValues(b.dirs, 1, [ok |-> TRUE, routes |-> <<>>, counter |-> counter])

CompileBlock(b, v) ==
    [texts |-> Range(b.keys), binds |-> BindHosts(b.dirs),
     keys |-> [i \in DOMAIN b.keys |-> ParseAddress(b.keys[i])],
     routes |-> RoutesOf(v), errors |-> ErrorsOf(v), tls |-> TlsOf(b.dirs)]

\* build_named_routes, a block at a time: [name, routes, errors].
AddNamed(b, sub, errors) ==
    IF sub.ok /\ \A i \in DOMAIN nameds : nameds[i].name # b.keys[1]
    THEN /\ nameds' = Append(nameds, [name |-> b.keys[1], routes |-> sub.routes, errors |-> errors,
                                     bare |-> errors = <<>> /\ Len(sub.routes) = 1 /\ sub.routes[1].ms = NoMatch])
         /\ counter' = sub.counter
         /\ UNCHANGED <<source, stage, order, compiled, tlsApp, groups, servers>>
    ELSE AdaptFails
NamedBlock(b, v) == AddNamed(b, IF v.ok THEN BuildSubroute(RoutesOf(v), v.counter, TRUE, order) ELSE v, ErrorsOf(v))
BuildNamedRoute ==
    /\ stage = "named" /\ Len(nameds) < Len(Nameds)
    /\ LET b == Nameds[Len(nameds) + 1] IN NamedBlock(b, CompileBlockRoutes(b))

NamedRoutesDone == /\ stage = "named" /\ Len(nameds) = Len(Nameds)
                   /\ stage' = "sites"
                   /\ UNCHANGED <<source, order, nameds, compiled, counter, tlsApp, groups, servers>>

AddSiteBlock(b, v) ==
    IF v.ok /\ \A i \in DOMAIN b.keys : ParseAddress(b.keys[i]).ok
    THEN /\ compiled' = Append(compiled, CompileBlock(b, v))
         /\ counter' = v.counter
         /\ UNCHANGED <<source, stage, order, nameds, tlsApp, groups, servers>>
    ELSE AdaptFails
CompileSite ==
    /\ stage = "sites" /\ Len(compiled) < Len(Sites)
    /\ LET b == Sites[Len(compiled) + 1] IN AddSiteBlock(b, CompileBlockRoutes(b))

-----------------------------------------------------------------------------
(* Certificates. *)

Unset == ""

\* set_unique_acme_field: a value may be set again only to what it is.
SetUnique(slot, value) ==
    CASE value = Unset -> [ok |-> TRUE, v |-> slot]
      [] value # Unset /\ slot \notin {Unset, value} -> [ok |-> FALSE, v |-> slot]
      [] OTHER -> [ok |-> TRUE, v |-> value]

IsAcmeSubject(host) == host # <<>> /\ Range(host) \cap {"*", "{", "}"} = {}
AcmeHosts(c) == {c.keys[i].host : i \in {j \in DOMAIN c.keys : IsAcmeSubject(c.keys[j].host)}}

Excluded(c) == \E i \in DOMAIN c.tls : c.tls[i].kind \in {"off", "internal"}
Issuing(c) == \E i \in DOMAIN c.tls : c.tls[i].kind = "acme"

RECURSIVE AcmeAccount(_, _)
\* The entries of all blocks in order: the one account they must agree on.
AcmeAccount(entries, acc) ==
    IF entries = <<>> \/ ~acc.ok THEN acc
    ELSE LET e == Head(entries)
             mail == SetUnique(acc.email, e.email)
             ca == SetUnique(acc.ca, e.ca)
             eab == SetUnique(acc.eab, e.eab)
         IN AcmeAccount(Tail(entries),
                        IF e.kind # "acme" THEN acc
                        ELSE [ok |-> mail.ok /\ ca.ok /\ eab.ok, email |-> mail.v, ca |-> ca.v, eab |-> eab.v])

AutomationSubjects(c, global) ==
    UNION {AcmeHosts(c[i]) : i \in {j \in DOMAIN c : (global \/ Issuing(c[j])) /\ ~Excluded(c[j])}}
InternalSubjects(c) ==
    UNION {AcmeHosts(c[i]) : i \in {j \in DOMAIN c : \E k \in DOMAIN c[j].tls : c[j].tls[k].kind = "internal"}}

TlsAutomation(c, given) ==
    LET acc == AcmeAccount(Concat([i \in DOMAIN c |-> c[i].tls]),
                           [ok |-> TRUE, email |-> given.email, ca |-> given.ca, eab |-> given.eab])
    IN [ok |-> acc.ok, email |-> acc.email, ca |-> acc.ca, eab |-> acc.eab,
        acme |-> AutomationSubjects(c, {given.email, given.ca, given.eab} # {Unset}), internal |-> InternalSubjects(c)]

BuildTlsAutomation ==
    /\ stage = "sites" /\ Len(compiled) = Len(Sites)
    /\ LET t == TlsAutomation(compiled, source) IN
       IF t.ok THEN tlsApp' = t /\ stage' = "tls" /\ UNCHANGED <<source, order, nameds, compiled, counter, groups, servers>>
       ELSE AdaptFails

-----------------------------------------------------------------------------
(* Servers. *)

\* The port of an address, or the one the options http_port and https_port give.
PortOf(a) == CASE a.port # <<>> -> a.port[1]
               [] a.port = <<>> /\ a.scheme = <<"http">> -> source.http
               [] OTHER -> source.https

ListenAddrs(a, binds) == IF binds = {} THEN {<<"", PortOf(a)>>} ELSE {<<h, PortOf(a)>> : h \in binds}

\* block_placements: the keys of block i that listen together, in order.
ListenSets(i) == {ListenAddrs(compiled[i].keys[k], compiled[i].binds) : k \in DOMAIN compiled[i].keys}
KeysAt(i, listen) == SelectSeq(compiled[i].keys, LAMBDA a : ListenAddrs(a, compiled[i].binds) = listen)

Ambiguous ==
    \E i, j \in DOMAIN compiled :
        /\ i < j
        /\ UNION ListenSets(i) \cap UNION ListenSets(j) # {}
        /\ compiled[i].texts \cap compiled[j].texts # {}

PlaceSites ==
    /\ stage = "tls"
    /\ IF Ambiguous THEN AdaptFails
       ELSE /\ groups' = UNION {ListenSets(i) : i \in DOMAIN compiled}
            /\ stage' = "servers"
            /\ UNCHANGED <<source, order, nameds, compiled, counter, tlsApp, servers>>

\* longest_host_path: the first of the most specific ones.
FirstOf(S) == CHOOSE i \in S : \A j \in S : i <= j
UnlessVague(s) == IF Specificity(s) = 0 THEN <<>> ELSE s
MostSpecific(ss) ==
    IF ss = <<>> THEN <<>>
    ELSE UnlessVague(ss[FirstOf({i \in DOMAIN ss : \A j \in DOMAIN ss : Specificity(ss[j]) <= Specificity(ss[i])})])
LongestHost(keys) == MostSpecific([i \in DOMAIN keys |-> keys[i].host])
LongestPath(keys) == MostSpecific([i \in DOMAIN keys |-> keys[i].path])
WildHost(keys) == \E i \in DOMAIN keys : keys[i].host = <<>> \/ Has(keys[i].host, "*")

\* Mutant: wildcards are not told apart.
BlockSpecificityCmpWild(a, b) ==
    LET ah == Specificity(LongestHost(a))
        bh == Specificity(LongestHost(b))
    IN CASE ah = 0 /\ bh = 0 -> 0
         [] ah = bh /\ ah # 0 -> CompareInts(Len(LongestPath(b)), Len(LongestPath(a)))
         [] OTHER -> CompareInts(ah, bh)

CompareSites(a, b, ah, bh) ==
    CASE ah = 0 \/ bh = 0 -> IF ah = 0 /\ bh = 0 THEN 0 ELSE IF ah = 0 THEN 1 ELSE -1
      [] ah # 0 /\ bh # 0 /\ WildHost(a) # WildHost(b) -> IF WildHost(b) THEN -1 ELSE 1
      [] ah # 0 /\ ah = bh /\ WildHost(a) = WildHost(b) -> CompareInts(Len(LongestPath(b)), Len(LongestPath(a)))
      [] OTHER -> CompareInts(bh, ah)
BlockSpecificityCmp(a, b) == CompareSites(a, b, Specificity(LongestHost(a)), Specificity(LongestHost(b)))

RECURSIVE InsertPlacement(_, _)
InsertPlacement(s, p) ==
    IF s # <<>> /\ BlockSpecificityCmp(p.keys, s[Len(s)].keys) = -1
    THEN Append(InsertPlacement(SubSeq(s, 1, Len(s) - 1), p), s[Len(s)])
    ELSE Append(s, p)
RECURSIVE SortPlacements(_)
SortPlacements(s) ==
    IF s = <<>> THEN <<>> ELSE InsertPlacement(SortPlacements(SubSeq(s, 1, Len(s) - 1)), s[Len(s)])

PlacementsAt(listen) ==
    LET blocks == {i \in DOMAIN compiled : listen \in ListenSets(i)}
        nth(k) == CHOOSE i \in blocks : Cardinality({j \in blocks : j <= i}) = k
    IN SortPlacements([k \in 1..Cardinality(blocks) |-> [block |-> nth(k), keys |-> KeysAt(nth(k), listen)]])

\* compile_encoded_matcher_sets: keys grouped by path; from the first key without
\* a host on no host is added to any group.
RECURSIVE MatcherPairs(_, _, _)
MatcherPairs(keys, pairs, catchAll) ==
    IF keys = <<>> THEN pairs
    ELSE LET a == Head(keys)
             known == {i \in DOMAIN pairs : pairs[i].path = a.path}
             all == IF known = {} THEN Append(pairs, [path |-> a.path, hosts |-> <<>>]) ELSE pairs
             at == CHOOSE i \in DOMAIN all : all[i].path = a.path
             first == a.host = <<>> /\ ~catchAll
             any == catchAll \/ first
         IN MatcherPairs(Tail(keys),
                         CASE first -> [all EXCEPT ![at].hosts = <<>>]
                           [] ~any /\ ~Has(all[at].hosts, a.host) -> [all EXCEPT ![at].hosts = Append(@, a.host)]
                           [] OTHER -> all,
                         any)

KeyMatcherSets(keys) ==
    LET pairs == MatcherPairs(keys, <<>>, FALSE)
        sets == [i \in DOMAIN pairs |->
                   [host |-> pairs[i].hosts, path |-> IF pairs[i].path = <<>> THEN <<>> ELSE <<pairs[i].path>>,
                    other |-> FALSE]]
    IN SelectSeq(sets, LAMBDA s : s.host # <<>> \/ s.path # <<>>)

SniHosts(keys) == IF \E i \in DOMAIN keys : keys[i].host = <<>> THEN {} ELSE {keys[i].host : i \in DOMAIN keys}

\* sort_error_subroutes: the last one written first, those without a matcher last.
Reversed(s) == [i \in DOMAIN s |-> s[Len(s) + 1 - i]]
SortErrors(errs) == Reversed(SelectSeq(errs, LAMBDA e : e.ms # NoMatch)) \o SelectSeq(errs, LAMBDA e : e.ms = NoMatch)

\* append_subroute_to_route_list: [ms, block, routes] entries; a site that is
\* alone and has no address to match is not wrapped.
AppendSubroute(list, block, sub, ms, single) ==
    LET hostInside == \E i \in DOMAIN sub : \E j \in DOMAIN sub[i].ms : sub[i].ms[j].host # <<>>
    IN IF ms = NoMatch /\ sub = <<>> THEN list
       ELSE Append(list, [ms |-> ms, block |-> block, routes |-> sub, wrapped |-> ms # NoMatch \/ ~single \/ hostInside])

\* scope_tls_policy_to_sni, for the certificate policies of a site.
ScopedPolicies(c, sni) ==
    LET certs == SelectSeq(c.tls, LAMBDA e : e.kind = "cert") IN [i \in DOMAIN certs |-> sni]

RECURSIVE ServerRoutes(_, _, _)
\* The sites of a listener in order.
AddSite(acc, p, c, sub, ms, single) ==
    [ok |-> sub.ok, counter |-> sub.counter,
     list |-> AppendSubroute(acc.list, p.block, sub.routes, ms, single),
     errors |-> IF c.errors = <<>> THEN acc.errors
                ELSE AppendSubroute(acc.errors, p.block, SortErrors(c.errors), ms, TRUE),
     policies |-> acc.policies \o ScopedPolicies(c, SniHosts(p.keys)),
     skip |-> acc.skip \cup (IF \E i \in DOMAIN c.tls : c.tls[i].kind = "off" THEN SniHosts(p.keys) ELSE {})]
SiteRoutes(acc, p, c, single) ==
    AddSite(acc, p, c, BuildSubroute(c.routes, acc.counter, TRUE, order), KeyMatcherSets(p.keys), single)
ServerRoutes(ps, acc, single) ==
    IF ps = <<>> \/ ~acc.ok THEN acc
    ELSE ServerRoutes(Tail(ps), SiteRoutes(acc, Head(ps), compiled[Head(ps).block], single), single)

\* options.server_names, or the number of the server.
ServerName(listen, index) ==
    LET given == {n \in source.names : n.addr \in listen} IN
    IF given = {} THEN index ELSE (CHOOSE n \in given : TRUE).name

\* build_servers, a listener set at a time.  The code goes through them in the
\* order of their texts; here they come in any order.
NoRoutes == [ok |-> TRUE, counter |-> counter, list |-> <<>>, errors |-> <<>>, policies |-> <<>>, skip |-> {}]
RoutesFor(ps) == ServerRoutes(ps, NoRoutes, Len(ps) = 1)
Built == Cardinality(UNION {ListenSets(i) : i \in DOMAIN compiled}) - Cardinality(groups)
AddServer(listen, name, s) ==
    IF s.ok
    THEN /\ servers' = [n \in DOMAIN servers \cup {name} |->
                          IF n # name THEN servers[n]
                          ELSE [listen |-> listen, list |-> s.list, errors |-> s.errors,
                                policies |-> s.policies, skip |-> s.skip]]
         /\ counter' = s.counter
         /\ groups' = groups \ {listen}
         /\ UNCHANGED <<source, stage, order, nameds, compiled, tlsApp>>
    ELSE AdaptFails
BuildServer(listen) ==
    /\ stage = "servers" /\ listen \in groups
    /\ AddServer(listen, ServerName(listen, Built), RoutesFor(PlacementsAt(listen)))

ServersDone == /\ stage = "servers" /\ groups = {}
               /\ stage' = "done"
               /\ UNCHANGED <<source, order, nameds, compiled, counter, tlsApp, groups, servers>>

AdapterInit ==
    /\ \E f \in DOMAIN Files : source \in Files[f]
    /\ stage = "blocks" /\ order = DirectiveOrder
    /\ nameds = <<>> /\ compiled = <<>> /\ counter = 0
    /\ tlsApp = [ok |-> FALSE, email |-> Unset, ca |-> Unset, eab |-> Unset, acme |-> {}, internal |-> {}]
    /\ groups = {} /\ servers = <<>>

AdapterIdle == stage \in {"done", "error"} /\ UNCHANGED adapterVars

AdapterNext ==
    \/ ClassifyBlocks \/ EvaluateGlobalOptions \/ BuildNamedRoute \/ NamedRoutesDone \/ CompileSite
    \/ BuildTlsAutomation \/ PlaceSites \/ ServersDone \/ AdapterIdle
    \/ \E listen \in groups : BuildServer(listen)

-----------------------------------------------------------------------------
(* Properties. *)

Done == stage = "done"

\* What a host or a path of a matcher stands for.
HostMatches(pattern, host) ==
    Len(pattern) = Len(host) /\ \A i \in DOMAIN host : pattern[i] \in {host[i], "*"}
PathMatches(pattern, path) ==
    IF pattern[Len(pattern)] = "*"
    THEN Len(path) >= Len(pattern) - 1 /\ SubSeq(path, 1, Len(pattern) - 1) = Trimmed(pattern)
    ELSE path = pattern
KeyMatches(a, q) == (a.host = <<>> \/ HostMatches(a.host, q.host)) /\ (a.path = <<>> \/ PathMatches(a.path, q.path))
SetMatches(m, q) ==
    /\ m.host = <<>> \/ \E i \in DOMAIN m.host : HostMatches(m.host[i], q.host)
    /\ m.path = <<>> \/ \E i \in DOMAIN m.path : PathMatches(m.path[i], q.path)
Reached(ms, q) == ms = NoMatch \/ \E i \in DOMAIN ms : SetMatches(ms[i], q)

Requests == [host : {<<"a", ".", "x">>, <<"b", ".", "x">>, <<"c">>},
             path : {<<"/">>, <<"/", "a">>, <<"/", "a", "b">>, <<"/", "b">>}]

\* Keys whose matcher sets the code does not keep apart: one without a host and
\* one with another path.
Mixed(keys) == \E i, j \in DOMAIN keys : keys[i].host = <<>> /\ keys[i].path # keys[j].path

Entries(n) == {servers[n].list[i] : i \in DOMAIN servers[n].list}
KeysOf(e, n) == KeysAt(e.block, servers[n].listen)

\* The matchers of a site on a server accept a request exactly when one of the
\* site's keys for that listener does (compile_encoded_matcher_sets), as long as
\* no key without a host is mixed with keys that have another path.
SiteMatchesItsKeys ==
    Done => \A n \in DOMAIN servers : \A e \in Entries(n) : \A q \in Requests :
        Mixed(KeysOf(e, n)) \/ (Reached(e.ms, q) <=> \E i \in DOMAIN KeysOf(e, n) : KeyMatches(KeysOf(e, n)[i], q))

\* One address is more specific than another: an exact host before a wildcard,
\* a wildcard before none, and for one host the longer path.
Beats(a, b) ==
    LET rank(k) == IF k.host = <<>> THEN 0 ELSE IF Has(k.host, "*") THEN 1 ELSE 2
    IN rank(a) > rank(b) \/ (a.host = b.host /\ a.host # <<>> /\ Len(a.path) > Len(b.path))

\* The first site of a server that accepts a request is not less specific than
\* another one with a single address that accepts it (block_specificity_cmp and
\* the stable sort in build_servers).
MostSpecificSite ==
    Done => \A n \in DOMAIN servers : \A q \in Requests :
        LET list == servers[n].list
            hits == {i \in DOMAIN list : Reached(list[i].ms, q)}
            first == CHOOSE i \in hits : \A j \in hits : i <= j
            key(i) == KeysOf(list[i], n)[1]
        IN (hits # {} /\ Len(KeysOf(list[first], n)) = 1) =>
             \A j \in hits : Len(KeysOf(list[j], n)) = 1 => ~Beats(key(j), key(first))

NamesCollide ==
    LET sets == UNION {ListenSets(i) : i \in DOMAIN compiled}
        given(listen) == {n.name : n \in {m \in source.names : m.addr \in listen}}
    IN \E l1, l2 \in sets : l1 # l2 /\ \E name \in given(l1) : name \in given(l2) \/ name < Cardinality(sets)

\* Every site keeps a place on every listener its keys ask for, unless it has
\* nothing to do there: grouping by listener loses no site (build_servers), as
\* long as no two servers are given the same name.
EverySiteServed ==
    (Done /\ ~NamesCollide) => \A i \in DOMAIN compiled : \A listen \in ListenSets(i) :
        \/ compiled[i].routes = <<>> /\ KeyMatcherSets(KeysAt(i, listen)) = NoMatch
        \/ \E n \in DOMAIN servers : /\ servers[n].listen = listen
                                     /\ Cardinality({k \in DOMAIN servers[n].list : servers[n].list[k].block = i}) = 1

HandlersOf(e) == Concat([i \in DOMAIN e.routes |-> e.routes[i].hs])
DirAt(e, at) == NormalizeDirectiveName(Sites[e.block].dirs[at].dir)

\* Sorting, grouping and merging keep every handler of a site once, and run the
\* directives in the directive order the options leave (sort_routes,
\* consolidate_routes).
OrderRespected ==
    Done => \A n \in DOMAIN servers : \A e \in Entries(n) :
        LET hs == HandlersOf(e)
            rs == compiled[e.block].routes
        IN /\ Len(hs) = Len(rs) /\ Range(hs) = {rs[i].at : i \in DOMAIN rs}
           /\ \A i, j \in DOMAIN hs : i < j =>
                DirectivePosition(DirAt(e, hs[i]), order) <= DirectivePosition(DirAt(e, hs[j]), order)

\* The grouped routes of a site: those at its top, and those in the blocks of its
\* directives, with the block they stand in and the directive they come from.
DirIn(ds, at) == IF at = 0 THEN "rewrite" ELSE NormalizeDirectiveName(ds[at].dir)
GroupsIn(rs, ds, where) == {<<rs[i].group, where, DirIn(ds, rs[i].hs[1])>> : i \in {j \in DOMAIN rs : rs[j].group # 0}}
SiteGroups(e, n) ==
    GroupsIn(e.routes, Sites[e.block].dirs, <<n, e.block>>)
    \cup UNION {GroupsIn(r.sub, Sites[e.block].dirs[r.at].arg, <<e.block, "in", r.at>>) :
                  r \in {x \in Range(compiled[e.block].routes) : x.sub # <<>>}}

\* Two routes are alternatives of one another only if they stand in one block of
\* one site and come from one of the directives that exclude each other: no
\* group is handed out twice, neither to two sites nor to a site and a block in
\* it, which takes its groups before the site does (next_group).
GroupsApart ==
    Done => LET all == UNION {UNION {SiteGroups(e, n) : e \in Entries(n)} : n \in DOMAIN servers}
            IN \A g, h \in all : g[1] = h[1] => g = h

Plainly(r) == r.ms = NoMatch \/ (SinglePath(r) # <<>> /\ r.ms[1].host = <<>> /\ ~r.ms[1].other)

\* When the routes of an exclusive directive (handle, rewrite, root) match by one
\* path or not at all, the first that accepts a request, the one that runs, has
\* the longest path of those that do (sort_by_path).
LongestPathRuns ==
    Done => \A n \in DOMAIN servers : \A e \in Entries(n) : \A d \in Range(Exclusive) :
        LET at == {i \in DOMAIN e.routes : DirAt(e, e.routes[i].hs[1]) = d}
            length(i) == IF e.routes[i].ms = NoMatch THEN 0 ELSE Len(Trimmed(SinglePath(e.routes[i])[1]))
        IN (\A i \in at : Plainly(e.routes[i])) => \A q \in Requests :
             LET hits == {i \in at : Reached(e.routes[i].ms, q)} IN
             \A i, j \in hits : i < j => length(j) <= length(i)

Orders(s) == {p \in [DOMAIN s -> DOMAIN s] : Range(p) = DOMAIN s}

\* The certificates to obtain, and whether the file is accepted, do not depend
\* on the order in which the sites are written (build_tls_automation).
TlsOrderFree ==
    stage = "tls" => \A p \in Orders(compiled) :
        TlsAutomation([i \in DOMAIN compiled |-> compiled[p[i]]], source) = tlsApp

\* A name that is to get a certificate reaches, on some server, a site that
\* asked for it: one that is not marked `tls off` or `tls internal`.
SubjectsServed ==
    Done => \A h \in tlsApp.acme : \E n \in DOMAIN servers : \E e \in Entries(n) :
        ~Excluded(compiled[e.block]) /\ \E q \in Requests : q.host = h /\ Reached(e.ms, q)

\* A request reaches the site its address asks for: sites accept what their keys
\* accept, the most specific first, none is lost, and a name that is to get a
\* certificate belongs to a site that wants it, in whichever order they stand.
RightSite == SiteMatchesItsKeys /\ MostSpecificSite /\ EverySiteServed
             /\ TlsOrderFree /\ SubjectsServed

\* The routes of a site run as documented: in the order of their directives,
\* with alternatives told apart and the longest path first.
RoutesInOrder == OrderRespected /\ GroupsApart /\ LongestPathRuns
=============================================================================
