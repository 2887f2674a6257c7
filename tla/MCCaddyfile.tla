---------------------------- MODULE MCCaddyfile ----------------------------
(***************************************************************************)
(* The stages of reading a Caddyfile, each on instances of its own: a      *)
(* behaviour runs one stage, the others rest.                              *)
(***************************************************************************)
EXTENDS CaddyLexer, CaddyImport, CaddyBlocks, CaddyParse, CaddyAdapter

-----------------------------------------------------------------------------
(* Text for the lexer: every character in short texts, and longer ones with  *)
(* the characters of heredocs, so that a heredoc has a word before and after *)
(* it, and of quotes, escapes and carriage returns.                          *)

TextOf(chars, n) == [chars |-> chars, left |-> n]
MCTexts == {TextOf({"a", "<", " ", "\n", "dq", "bt", "\\", "#", "\r"}, 5),
            TextOf({"a", "<", "\n", " "}, 11),
            TextOf({"a", " ", "\n", "\r", "\\", "dq"}, 6), TextOf({"a", "\n", "\\", "#", "bt"}, 6)}

-----------------------------------------------------------------------------
(* Programs for the importer: two snippets, a file they may import, a main   *)
(* part of up to two imports; every way they can call each other.            *)

MCParenName == ("(s)" :> "s") @@ ("(t)" :> "t")
MCBlocksKey == "{blocks.k}" :> "k"
MCGlobs == ("*.c" :> <<"f", "g">>) @@ ("*" :> <<"dir", "f", "g">>)

UpToTwo(S) == {<<>>} \cup {a : a \in S} \cup {a \o b : a \in S, b \in S}
MainRows == {<<<<"x">>>>, <<<<"import", "s">>>>, <<<<"import", "t", "p">>>>, <<<<"import", "*.c">>>>, <<<<"import", "*">>>>,
             <<<<"import", "s", "{">>, <<"k", "y">>, <<"}">>>>,
             <<<<"import", "s", "{">>, <<"k", "{">>, <<"y">>, <<"}", "z">>, <<"}">>>>}
SRows == {<<<<"a">>>>, <<<<"import", "t", "q">>>>, <<<<"import", "f">>>>, <<<<"{block}">>>>}
TRows == {<<<<"b", "{args[0]}">>>>, <<<<"import", "s">>>>, <<<<"{blocks.k}">>>>}
FRows == {<<<<"e">>>>, <<<<"(s)", "{">>, <<"c">>, <<"}">>, <<"import", "s">>>>, <<<<"import", "t">>>>}
MCPrograms ==
    {[main |-> <<<<"(s)", "{">>>> \o s \o <<<<"}">>, <<"(t)", "{">>>> \o t \o <<<<"}">>>> \o m,
      f |-> f, g |-> <<<<"h">>>>] : s \in UpToTwo(SRows), t \in TRows, m \in UpToTwo(MainRows), f \in FRows}

-----------------------------------------------------------------------------
(* Words for the parser. *)

MCFileWords == {"a", "a,", "{", "}"}

-----------------------------------------------------------------------------
(* Segments for CaddyParse, derived from the tables themselves: for every    *)
(* row of every table, lines with too few, enough and too many arguments,    *)
(* with a bad word, with each shape the row asks for and with a block;       *)
(* alone, and in pairs of acceptable lines.                                  *)

L(s, a, b) == [s |-> s, a |-> a, b |-> b]
\* Arguments for a row, n of them.
Pick(K) == IF "w" \in K THEN "w" ELSE CHOOSE x \in K : TRUE
ArgsOf(r, n) == [i \in 1..n |-> IF i = 1 THEN Pick(r.first) ELSE Pick(r.other)]
Counts(r) == {r.lo - 1, r.lo, r.lo + 1, r.hi, r.hi + 1} \cap 0..4
\* Arguments for the rows that ask for more than words of a kind.
FormArgs == [f \in {"inline", "header", "replace", "named", "upstreams", "query", "query_line", "tls", "distinct", "limit", "off", "fields", "status"} |->
  CASE f = "inline" -> {<<"status", "200">>, <<"status">>, <<"status", "zz">>, <<"header", "!F">>, <<"header", "F">>, <<"header", "F", "w">>}
    [] f = "header" -> {<<"!F">>, <<"F">>, <<"F", "w">>, <<"!F", "w">>, <<"F", "w", "w">>}
    [] f = "replace" -> {<<"200">>, <<"@r", "200">>, <<"@x", "200">>, <<"w", "200">>}
    [] f = "named" -> {<<"@r">>, <<"@x">>}
    [] f = "upstreams" -> {<<"a:1">>, <<"https://a">>, <<"a:1", "https://a">>, <<"https://a", "a:1">>, <<"ws://a">>}
    [] f = "query" -> {<<"-k">>, <<"-k", "w">>, <<"+k", "w">>, <<"a>b">>}
    [] f = "query_line" -> {<<"w">>}
    [] f = "tls" -> {<<"internal">>, <<"m@h">>, <<"w", "w">>}
    [] f = "distinct" -> {<<"h1", "h2">>}
    [] f = "limit" -> {<<"w", "w", "1">>, <<"w", "w", "zz">>}
    [] f = "off" -> {<<"off">>}
    [] f = "fields" -> {<<"F", "w">>, <<"w", "F", "w">>}
    [] f = "status" -> {<<"200">>}]
GoodOf(r) ==
  CASE r.form = "header" -> <<"F", "w">>
    [] r.form = "replace" -> <<"200">>
    [] r.form = "query_line" -> <<"w">>
    [] r.form = "upstreams" -> <<"a:1">>
    [] r.form = "status" -> <<"200">>
    [] r.wants # {} -> <<"w">>
    [] OTHER -> ArgsOf(r, r.lo)
Args(r) ==
  {ArgsOf(r, n) : n \in Counts(r)}
  \cup (IF r.form \in DOMAIN FormArgs THEN FormArgs[r.form] ELSE {})
  \cup {GoodOf(r)}
  \cup (IF r.hi = 0 THEN {} ELSE LET a == ArgsOf(r, IF r.lo = 0 THEN 1 ELSE r.lo) IN {[a EXCEPT ![Len(a)] = "zz"]})
PathLine == L("path", <<"w">>, <<>>)
\* Blocks, by what is to be read in them.
SiteBlocks == {<<L("respond", <<"200">>, <<>>)>>, <<L("zz", <<>>, <<>>)>>,
   <<L("respond", <<"@n", "200">>, <<>>), L("@n", <<"path", "w">>, <<>>)>>,
   <<L("@m", <<"path", "w">>, <<>>)>>, <<L("respond", <<"@n", "200">>, <<>>)>>,
   <<L("handle", <<>>, <<L("header", <<"F">>, <<>>)>>), L("file_server", <<>>, <<L("index", <<"w">>, <<>>)>>)>>}
MatcherBlocks == {<<PathLine>>, <<PathLine, L("method", <<"w">>, <<>>), PathLine>>, <<L("not", <<>>, <<PathLine>>)>>, <<L("zz", <<>>, <<>>)>>}
ResponseBlocks == {<<L("status", <<"200">>, <<>>)>>, <<L("header", <<"F", "w">>, <<>>), L("header", <<"!F">>, <<>>)>>, <<L("status", <<>>, <<>>)>>}
OpaqueBlocks == {<<L("w", <<"w">>, <<>>)>>, <<L("w", <<"w">>, <<L("w", <<>>, <<>>)>>), L("w", <<>>, <<>>)>>}
Starred(t) == IF t.star = None THEN {} ELSE {"w"}
RECURSIVE Variants(_, _, _)
LineSet(t, depth) == {L("zz", <<>>, <<>>)} \cup UNION {Variants(w, RowFor(t, w), depth) : w \in DOMAIN t.rows \cup Starred(t)}
OneOrTwo(ls) == {<<l>> : l \in ls} \cup {<<l, l>> : l \in {x \in ls : x.b = <<>>}}
BlocksFor(r, depth) ==
  CASE r.nest = "none" -> {<<L("w", <<>>, <<>>)>>}
    [] r.nest \in {"skip", "lines", "refuse"} -> OpaqueBlocks
    [] r.nest = "site" -> SiteBlocks
    [] r.nest = "matchers" -> MatcherBlocks
    [] r.nest = "response" -> ResponseBlocks
    [] OTHER -> OneOrTwo(LineSet(BlockTables[r.nest], depth - 1))
Inline(r) == CASE r.nest = "matchers" -> {<<"path", "w">>, <<"not", "path", "w">>}
               [] r.nest = "response" -> {<<"status", "200">>, <<"header", "F", "w">>, <<"header", "F", "w", "status", "200">>}
               [] OTHER -> {}
ViaVariants(w, t, depth) ==
  UNION {{L(w, <<x>> \o l.a, l.b) : l \in Variants(x, RowFor(t, x), depth)} : x \in DOMAIN t.rows \cup Starred(t)}
Variants(w, r, depth) ==
  IF r.via # "" THEN {L(w, <<>>, <<>>), L(w, <<"zz">>, <<>>)} \cup ViaVariants(w, BlockTables[r.via], depth)
  ELSE {L(w, a, <<>>) : a \in Args(r) \cup Inline(r)}
       \cup (IF depth = 0 THEN {} ELSE
             {L(w, a, b) : a \in {GoodOf(r)} \cup (IF r.nest = "none" \/ depth = 1 THEN {} ELSE {ArgsOf(r, IF r.lo + 1 > 4 THEN 4 ELSE r.lo + 1)}), b \in BlocksFor(r, depth)})
\* One acceptable line for each row.
ViaLine(w, t, x) == L(w, <<x>> \o GoodOf(RowFor(t, x)), <<>>)
GoodVia(w, t) == ViaLine(w, t, CHOOSE y \in DOMAIN t.rows : TRUE)
GoodLine(w, r) == IF r.via # "" THEN GoodVia(w, BlockTables[r.via])
                  ELSE L(w, GoodOf(r), IF r.nest = "response" THEN <<L("status", <<"200">>, <<>>)>> ELSE <<>>)
GoodLines(t) == {GoodLine(w, RowFor(t, w)) : w \in DOMAIN t.rows \cup Starred(t)}
Job(k, w, a, b) == [kind |-> k, w |-> w, a |-> a, b |-> b, dns |-> FALSE]
Fixed(w) == IF w = "forward_auth" THEN <<L("uri", <<"w">>, <<>>)>> ELSE <<>>
\* The segments of one directive or option.
HeadJobs(k, w, t, good, heads) ==
  {Job(k, w, a, <<>>) : a \in heads}
  \cup (IF k = "directive" THEN {Job(k, w, <<x>> \o good, <<>>) : x \in {"*", "/p", "@m", "@x"}} ELSE {})
  \cup {Job(k, w, a, b) : a \in heads, b \in IF t.body = "site" THEN SiteBlocks ELSE OpaqueBlocks}
  \cup (IF t.head.via # "" THEN {Job(k, w, l.a, l.b) : l \in Variants(w, t.head, 2)} ELSE {})
\* The lines php_fastcgi and forward_auth share with reverse_proxy go less deep.
Shares(w) == w \in {"php_fastcgi", "forward_auth"}
LinesFor(w, t) ==
  IF Shares(w) THEN {l \in LineSet(t, 1) : l.b = <<>> \/ l.s \notin DOMAIN ReverseProxyRows} ELSE LineSet(t, 2)
LineJobs(k, w, good, lines) == {Job(k, w, good, <<l>> \o Fixed(w)) : l \in lines}
PairJobs(k, w, good, goods) ==
  {Job(k, w, good, <<l1, l2>> \o Fixed(w)) :
     l1 \in {l \in goods : Shares(w) => l.s \notin DOMAIN ReverseProxyRows \/ l.s = "to"}, l2 \in goods}
TableJobs(k, w, part, t, good) ==
  CASE part = "heads" ->
         HeadJobs(k, w, t, good, IF t.head.via # "" THEN {l.a : l \in Variants(w, t.head, 0)} ELSE Args(t.head))
    [] part = "lines" -> LineJobs(k, w, good, LinesFor(w, t))
    [] part = "pairs" -> PairJobs(k, w, good, GoodLines(t))
HeadOf(w, t) == IF w = "servers" THEN <<"w">> ELSE GoodOf(t.head)
JobsIn(k, w, part, t) == TableJobs(k, w, part, t, HeadOf(w, t))
JobsOf(k, w, part) == JobsIn(k, w, part, IF k = "option" THEN OptionTables[w] ELSE DirectiveTables[w])
MatcherLines(w, t) ==
    Variants(w, t.head, 0) \cup {L(w, <<"w">>, <<L("w", <<>>, <<>>)>>)}
    \cup (IF t.rows = None THEN {} ELSE {L(w, <<>>, <<l>>) : l \in LineSet(t, 1)})
MatcherGood(tables) == {L(w, GoodOf(tables[w].head), <<>>) : w \in DOMAIN tables}
JobsWith(lines, goods) ==
    UNION {{Job("matcher", "@n", <<>>, <<l>>), Job("matcher", "@n", <<l.s>> \o l.a, l.b)} : l \in lines}
    \cup {Job("matcher", "@n", <<>>, <<l, g>>) : l \in lines, g \in goods}
MatcherJobs(w) == JobsWith(MatcherLines(w, MatcherTables[w]), MatcherGood(MatcherTables))
Parts(t) == IF t.body = "lines" THEN {"heads", "lines", "pairs"} ELSE {"heads"}
KeysFor(kind, tables) == UNION {{<<kind, w, part, FALSE>> : part \in Parts(tables[w])} : w \in DOMAIN tables}
JobKeys == KeysFor("directive", DirectiveTables) \cup KeysFor("option", OptionTables)
           \cup {<<"matcher", w, "", FALSE>> : w \in DOMAIN MatcherTables} \cup {<<"directive", "tls", "lines", TRUE>>}
JobsByTable == [g \in JobKeys |->
        IF g[1] = "matcher" THEN MatcherJobs(g[2])
        ELSE {[x EXCEPT !.dns = g[4]] : x \in JobsOf(g[1], g[2], g[3])}]

-----------------------------------------------------------------------------
(* Files for the adapter. *)

MCDirectiveOrder == <<"vars", "root", "log", "rewrite", "handle", "handle_path", "route", "respond">>

PathA == <<"/", "a", "*">>
PathAB == <<"/", "a", "b", "*">>
PathB == <<"/", "b">>
OnPath(p) == <<[host |-> <<>>, path |-> <<p>>, other |-> FALSE]>>
OnHost == <<[host |-> <<<<"a", ".", "x">>>>, path |-> <<>>, other |-> FALSE]>>
OnOther == <<[host |-> <<>>, path |-> <<>>, other |-> TRUE]>>

D(d, ms) == [dir |-> d, ms |-> ms, arg |-> <<>>]
With(d, ms, ds) == [dir |-> d, ms |-> ms, arg |-> ds]
BindTo(hosts) == [dir |-> "bind", ms |-> NoMatch, arg |-> hosts]
Account(kind, email, ca, eab) ==
    [dir |-> "tls", ms |-> NoMatch, arg |-> [kind |-> kind, email |-> email, ca |-> ca, eab |-> eab]]
Tls(kind, email, ca) == Account(kind, email, ca, "")

DirectivePool ==
    {D("handle", OnPath(PathA)), D("handle_path", OnPath(PathAB)), D("handle", NoMatch), D("handle", OnHost),
     D("handle", OnPath(PathB)), D("respond", NoMatch), D("root", NoMatch), D("root", OnPath(PathA)),
     D("vars", NoMatch), D("vars", OnPath(PathA)), D("rewrite", OnOther),
     D("rewrite", OnPath(PathA)), D("rewrite", OnPath(PathAB)), D("log", NoMatch), With("log", NoMatch, <<"file">>),
     D("zz", NoMatch)}
TlsPool ==
    {<<>>, <<Tls("off", "", "")>>, <<Tls("internal", "", "")>>, <<Tls("acme", "m", "")>>, <<Tls("acme", "n", "")>>,
     <<Tls("acme", "", "c")>>, <<Tls("cert", "", "")>>, <<Tls("cert", "", ""), Account("acme", "m", "c", "k")>>,
     <<Account("acme", "", "", "l")>>}
OrderPool ==
    {[dir |-> "respond", pos |-> "first", other |-> ""], [dir |-> "vars", pos |-> "last", other |-> ""],
     [dir |-> "respond", pos |-> "before", other |-> "handle"], [dir |-> "root", pos |-> "after", other |-> "respond"],
     [dir |-> "zz", pos |-> "first", other |-> ""], [dir |-> "root", pos |-> "before", other |-> "root"]}

HostA == <<"a", ".", "x">>
HostB == <<"b", ".", "x">>
HostW == <<"*", ".", "x">>
HttpA == <<"http", "://">> \o HostA
Any443 == <<":", "443">>
KeyPool == {HostA, HostB, HostW, Any443, HttpA, HostA \o PathA, HostB \o PathB, Any443 \o PathA, <<"{", "c", "}">>}
MoreKeys == KeyPool \cup {HostW \o PathA, <<"https", "://">> \o HostA, <<"ws", "://", "a">>, <<"[", "a", "]", ":", "8080">>}

Site(keys, dirs) == [keys |-> keys, named |-> FALSE, braces |-> TRUE, dirs |-> dirs]
File(blocks) == [blocks |-> blocks, orders |-> <<>>, names |-> {}, http |-> "80", https |-> "443",
                 email |-> "", ca |-> "", eab |-> ""]
JustRespond == <<D("respond", NoMatch)>>
Alternatives == <<D("handle", OnPath(PathA)), D("handle", NoMatch), D("respond", NoMatch)>>
SeqsUpTo(S, m, n) == UNION {[1..k -> S] : k \in m..n}

OddBlocks ==
    {Site(<<>>, JustRespond), Site(<<<<"@m">>>>, JustRespond), [Site(<<<<"respond">>>>, JustRespond) EXCEPT !.braces = FALSE],
     [Site(<<<<"n">>>>, Alternatives) EXCEPT !.named = TRUE],
     Site(<<HostA>>, <<D("handle_errors", OnOther), D("handle_errors", NoMatch), D("handle_errors", OnHost)>> \o JustRespond),
     Site(<<Any443>>, <<D("handle_errors", NoMatch), D("handle_errors", OnHost)>>)}

InnerBlocks == {<<>>, Alternatives, <<D("rewrite", OnPath(PathA)), D("root", NoMatch), D("root", OnPath(PathB))>>,
                <<D("handle_errors", NoMatch)>>, <<Tls("off", "", "")>>}
NestingPool ==
    {With(d, OnPath(PathA), ds) : d \in {"handle", "handle_path", "route"}, ds \in InnerBlocks}
    \cup {With("handle_errors", NoMatch, Alternatives), D("handle", NoMatch), D("rewrite", OnOther)}

MCFiles == [k \in {"dirs", "nested", "orders", "keys", "three", "ports", "binds", "tls", "odd"} |->
    CASE k = "dirs" -> {File(<<Site(<<HostA>>, ds)>>) : ds \in SeqsUpTo(DirectivePool, 0, 3)}
                       \cup {File(<<Site(<<Any443>>, ds)>>) : ds \in [1..2 -> DirectivePool]}
      [] k = "nested" -> {File(<<Site(<<HostA, HttpA>>, <<d1, d2>>), Site(<<Any443>>, <<d3>>)>>) :
                            d1, d2 \in NestingPool, d3 \in {D("respond", NoMatch), With("route", NoMatch, Alternatives)}}
      [] k = "orders" -> {[File(<<Site(<<HostA>>, ds)>>) EXCEPT !.orders = o] :
                            o \in SeqsUpTo(OrderPool, 1, 2),
                            ds \in [1..2 -> {D("respond", NoMatch), D("root", NoMatch), D("vars", NoMatch),
                                             D("handle", OnPath(PathA))}]}
      [] k = "keys" -> UNION {{File(<<Site(k1, Alternatives), Site(<<k2>>, Alternatives)>>),
                               File(<<Site(<<k2>>, Alternatives), Site(k1, Alternatives)>>)} :
                                 k1 \in SeqsUpTo(KeyPool, 1, 2), k2 \in KeyPool}
      [] k = "three" -> {File(<<Site(<<k1>>, JustRespond), Site(<<k2>>, Alternatives), Site(<<k3>>, JustRespond)>>) : k1, k2, k3 \in MoreKeys}
      [] k = "ports" -> {[File(<<Site(<<k1, k2>>, JustRespond), Site(<<k3>>, Alternatives)>>) EXCEPT !.http = p, !.https = s] :
                            k1, k2, k3 \in {HostA, HttpA, Any443, HostB \o <<":", "8080">>},
                            p \in {"80", "8080"}, s \in {"443", "8080"}}
      [] k = "binds" -> {[File(<<Site(<<k1>>, <<BindTo(b1)>> \o JustRespond), Site(<<k2>>, <<BindTo(b2)>> \o Alternatives)>>)
                            EXCEPT !.names = ns] :
                            k1, k2 \in {HostA, Any443, HttpA}, b1, b2 \in {<<>>, <<"p">>, <<"p", "q">>},
                            ns \in {{}, {[addr |-> <<"p", "443">>, name |-> 7]}, {[addr |-> <<"", "80">>, name |-> 0]}}}
      [] k = "tls" -> {[File(<<Site(<<HostA>>, t1 \o JustRespond), Site(<<k2>>, t2 \o JustRespond), Site(<<HostB>>, t3 \o JustRespond)>>)
                          EXCEPT !.email = e] :
                          k2 \in {HostA \o PathA, HostW, HostB \o PathB}, t1, t2 \in TlsPool,
                          t3 \in {<<>>, <<Tls("acme", "n", "")>>, <<Tls("internal", "", "")>>}, e \in {"", "m"}}
      [] OTHER -> {File(bs) : bs \in SeqsUpTo(OddBlocks, 0, 3)}]

-----------------------------------------------------------------------------
(* One stage at a time. *)

LexRests == lexed = "idle" /\ lex = Fresh(1, 0, 0, FALSE) /\ out = <<>> /\ text = TextOf({}, 0)
ImportRests == /\ imported = "idle" /\ files = <<>> /\ toks = <<>> /\ snippets = <<>> /\ graph = {}
               /\ expanded = <<>> /\ repeated = FALSE
ParseRests == at = "idle" /\ job = Job("", "", <<>>, <<>>) /\ cur = Dispenser(<<>>) /\ fields = <<>>
AdapterRests == /\ stage = "idle" /\ source = File(<<>>) /\ order = <<>> /\ nameds = <<>> /\ compiled = <<>>
                /\ counter = 0 /\ groups = {} /\ servers = <<>>
                /\ tlsApp = [ok |-> FALSE, email |-> "", ca |-> "", eab |-> "", acme |-> {}, internal |-> {}]

Init == \/ LexInit /\ ImportRests /\ BlocksInit /\ ParseRests /\ AdapterRests
        \/ LexRests /\ ImportInit /\ BlocksInit /\ ParseRests /\ AdapterRests
        \/ LexRests /\ ImportRests /\ BlocksInit /\ ParseInit /\ AdapterRests
        \/ LexRests /\ ImportRests /\ BlocksInit /\ ParseRests /\ AdapterInit
        \/ LexRests /\ ImportRests /\ BlocksInit /\ ParseRests /\ AdapterRests

vars == <<lexVars, importVars, file, parseVars, adapterVars>>

Resting == lexed = "idle" /\ imported = "idle" /\ at = "idle" /\ stage = "idle"

\* A stage that has come to its end stays there.
Ended == /\ lexed # "reading" /\ imported # "expanding"
         /\ at \in {"idle", "done", "error"} /\ stage \in {"idle", "done", "error"}
         /\ UNCHANGED vars

Next == \/ LexNext /\ UNCHANGED <<importVars, file, parseVars, adapterVars>>
        \/ ImportNext /\ UNCHANGED <<lexVars, file, parseVars, adapterVars>>
        \/ Resting /\ BlocksNext /\ UNCHANGED <<lexVars, importVars, parseVars, adapterVars>>
        \/ ParseNext /\ UNCHANGED <<lexVars, importVars, file, adapterVars>>
        \/ AdapterNext /\ UNCHANGED <<lexVars, importVars, file, parseVars>>
        \/ Ended

Spec == Init /\ [][Next]_vars

\* Each stage before the directives keeps what the author wrote: the lexer its
\* lines, imports their expansion (refused only for a real cycle, and ending),
\* the cutting into blocks and segments every word.
ReadAsWritten == LineGroups /\ ExpandsAsWritten /\ CyclesAreReal /\ ExpansionEnds
                 /\ SegmentsAgree /\ FileKept
=============================================================================
