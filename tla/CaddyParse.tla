----------------------------- MODULE CaddyParse -----------------------------
(***************************************************************************)
(* Reading one directive, one global option or one named matcher turn by   *)
(* turn (CaddyDirectives), and what that should amount to: every line read *)
(* once, on its own, with its own arguments and its own block.             *)
(***************************************************************************)
EXTENDS CaddyDirectives

\* Named sets of jobs [kind, w, a, b, dns]: a "directive", "option" or "matcher"
\* named w, its arguments and the lines of its block; dns: a DNS provider is
\* configured.
CONSTANT Jobs

VARIABLES
    job,     \* the segment being read, as lines
    cur,     \* the parser's Dispenser
    fields,  \* what has been recorded
    at       \* "head" | "body" | "done" | "error"

parseVars == <<job, cur, fields, at>>

-----------------------------------------------------------------------------
(* A segment's tokens: a brace opens at the end of its line and closes on a  *)
(* line of its own.                                                          *)

RECURSIVE Render(_, _), RenderAll(_, _)
Render(l, n) ==
    LET head == [i \in 1..(1 + Len(l.a)) |-> [w |-> IF i = 1 THEN l.s ELSE l.a[i - 1], ln |-> n]]
        inner == RenderAll(l.b, n + 1)
    IN IF l.b = <<>> THEN [ts |-> head, n |-> n + 1]
       ELSE [ts |-> head \o <<[w |-> "{", ln |-> n]>> \o inner.ts \o <<[w |-> "}", ln |-> inner.n]>>,
             n |-> inner.n + 1]
RenderAll(ls, n) ==
    IF ls = <<>> THEN [ts |-> <<>>, n |-> n]
    ELSE LET one == Render(Head(ls), n)
             rest == RenderAll(Tail(ls), one.n)
         IN [ts |-> one.ts \o rest.ts, n |-> rest.n]

SegmentOf(j) == Render([s |-> j.w, a |-> j.a, b |-> j.b], 1).ts

TablesFor(kind) == IF kind = "option" THEN OptionTables ELSE DirectiveTables
TableOf(j) == TablesFor(j.kind)[j.w]

-----------------------------------------------------------------------------
(* The parser. *)

\* A DNS provider of the global options stands before the directive's own.
DnsGiven(j) == IF j.dns THEN <<"dns">> :> <<<<>>>> ELSE <<>>

\* Dispenser::new and d.next().
JobIn(sets) == \E g \in DOMAIN sets : job \in sets[g]
ParseInit == /\ JobIn(Jobs)
             /\ cur = NextTok(Dispenser(SegmentOf(job))).d
             /\ fields = DnsGiven(job)
             /\ at = "head"

Took(r, next) == /\ cur' = r.d
                 /\ fields' = r.m
                 /\ at' = IF r.ok THEN next ELSE "error"
                 /\ UNCHANGED job

\* The matcher and the arguments of the directive's own line.
ParseHead ==
    /\ at = "head" /\ job.kind # "matcher"
    /\ Took(GoOn(IF job.kind = "directive" THEN Extracted(job.w, cur, Defined)
                 ELSE [ok |-> TRUE, d |-> cur, m |-> <<>>],
                 LAMBDA e : ReadHead(TableOf(job), e.d, e.m @@ fields)), "body")

\* parse_matcher_definitions.
ParseMatcher == /\ at = "head" /\ job.kind = "matcher"
                /\ Took(MatcherSet(cur, <<>>, <<>>), "done")

\* A turn of `while d.next_block(0)`.
LineIn(t, b) == /\ t.body = "lines" /\ b.ok
                /\ Took(Line(b.d, t, fields, <<>>), "body")
ParseLine == at = "body" /\ LineIn(TableOf(job), NextBlock(cur, 0))

\* The loop is over.
EndOf(t) == /\ t.body = "lines" => ~NextBlock(cur, 0).ok
            /\ Took([ok |-> Complete(t, fields, <<>>) /\ (t.body = "site" => SiteBody(cur, Defined)),
                     d |-> cur, m |-> fields], "done")
ParseEnd == at = "body" /\ EndOf(TableOf(job))

\* Nothing is left to read.
ParseIdle == at \in {"done", "error"} /\ UNCHANGED parseVars

ParseNext == ParseHead \/ ParseMatcher \/ ParseLine \/ ParseEnd \/ ParseIdle

-----------------------------------------------------------------------------
(* The lines of a segment read as lines: [ok, m, stray].  A reading is stray  *)
(* once a parser has walked past arguments or a block without looking at      *)
(* them, so that the next turn finds them where it expects a line.            *)

Reading(ok, m, stray) == [ok |-> ok, m |-> m, stray |-> stray]

\* The next line is read only if this one was, and nothing was left of it.
IfRead(one, F(_)) == IF one.stray \/ ~one.ok THEN one ELSE F(one)

RECURSIVE AsRow(_, _, _, _, _), AsLines(_, _, _, _), AsRepeat(_, _, _, _), AsDirective(_, _)

AsLine(l, t, m, p) ==
    IF HasRow(t, l.s) THEN AsRow(l, RowFor(t, l.s), l.s, m, p) ELSE Reading(FALSE, m, FALSE)

AsLines(ls, t, m, p) ==
    IF ls = <<>> THEN Reading(Complete(t, m, p), m, FALSE)
    ELSE IfRead(AsLine(Head(ls), t, m, p), LAMBDA one : AsLines(Tail(ls), t, one.m, p))

\* The lines of a matcher that name it, one after the other.
AsRepeated(ls, t, m, p, h) ==
    IF t.body = "none" THEN [h EXCEPT !.stray = @ \/ Len(ls) > 1]
    ELSE IfRead(IF t.head.nest # "none" THEN AsRow(Head(ls), t.head, "head", m, p)
                ELSE IfRead(h, LAMBDA one : AsLines(Head(ls).b, t, one.m, p)),
                LAMBDA one : AsRepeat(Tail(ls), t, one.m, p))
AsRepeat(ls, t, m, p) ==
    IF ls = <<>> THEN Reading(TRUE, m, FALSE)
    ELSE AsRepeated(ls, t, m, p, AsRow([Head(ls) EXCEPT !.b = <<>>], t.head, "head", m, p))

AsSet(r, m) ==
    IF \A w \in DOMAIN r : r[w].ok THEN Reading(TRUE, Merged(r) @@ m, \E w \in DOMAIN r : r[w].stray)
    ELSE Reading(FALSE, m, \E w \in DOMAIN r : r[w].stray)
MatchersNamed(names, ls, tables, m, p) ==
    IF names \subseteq DOMAIN tables
    THEN AsSet([w \in names |-> AsRepeat(SelectSeq(ls, LAMBDA l : l.s = w), tables[w], <<>>, Append(p, w))], m)
    ELSE Reading(FALSE, m, FALSE)
AsMatchers(ls, m, p) == MatchersNamed({ls[i].s : i \in DOMAIN ls}, ls, MatcherTables, m, p)

AsMatcher(l) == AsRow(l, Opening(Unread, "matchers"), "head", <<>>, <<>>)

AsAll(ls, names, defs, r) ==
    Reading(/\ \A i \in DOMAIN ls : r[i].ok
            /\ names \cap defs = {}
            /\ \A i, j \in DOMAIN ls : ls[i].s \in names /\ ls[i].s = ls[j].s => i = j,
            <<>>, \E i \in DOMAIN ls : r[i].stray)
WithNames(ls, names, defs) ==
    AsAll(ls, names, defs,
          [i \in DOMAIN ls |->
             IF ls[i].s \in names THEN AsMatcher(ls[i])
             ELSE AsDirective([kind |-> "directive", w |-> ls[i].s, a |-> ls[i].a, b |-> ls[i].b, dns |-> FALSE],
                              defs \cup names)])
AsSite(ls, defs) == WithNames(ls, {"@m", "@n"} \cap {ls[i].s : i \in DOMAIN ls}, defs)

\* What stands in a line's block, or on the rest of the line.
OnTheLine(l) == [s |-> l.a[1], a |-> Tail(l.a), b |-> l.b]
Within(s, kept) == Reading(s.ok, kept, s.stray)
AsNested(l, r, kept, path) ==
    CASE r.nest \in {"skip", "lines"} -> Reading(TRUE, kept, FALSE)
      [] r.nest = "refuse" -> Reading(l.b = <<>>, kept, FALSE)
      [] r.nest = "site" -> Within(AsSite(l.b, Defined), kept)
      [] r.nest = "matchers" -> AsMatchers(IF l.a = <<>> THEN l.b ELSE <<OnTheLine(l)>>, kept, path)
      [] r.nest = "response" ->
           AsLines(IF l.a = <<>> THEN l.b ELSE <<[OnTheLine(l) EXCEPT !.b = <<>>]>> \o l.b, ResponseLines, kept, path)
      [] OTHER -> AsLines(l.b, BlockTables[r.nest], kept, path)

Leaves(r, args) == r.rest = "leave" /\ Len(args) > r.hi
AsKept(l, r, a, kept, path) ==
    CASE r.via # "" -> AsLine(OnTheLine(l), BlockTables[r.via], kept, path)
      [] r.via = "" /\ (r.nest = "none" \/ ~Looks(r, a)) -> Reading(TRUE, kept, Leaves(r, l.a) \/ l.b # <<>>)
      [] r.via = "" /\ Looks(r, a) /\ r.nest \notin {"none", "matchers", "response"} /\ Leaves(r, l.a) ->
           Reading(TRUE, kept, TRUE)
      [] OTHER -> Named(r, a, path, AsNested(l, r, kept, path))
AsTaken(l, r, w, m, p, a, path) ==
    IF Accepted(r, w, a, m, p, path) THEN AsKept(l, r, a, Recorded(r, a, m, path), path) ELSE Reading(FALSE, m, FALSE)
AsRow(l, r, w, m, p) == AsTaken(l, r, w, m, p, Looked(r, l.a), FieldPath(r, w, p))

\* The matcher a directive's arguments begin with.
TakesMatcher(j) ==
    /\ j.kind = "directive" /\ j.a # <<>>
    /\ j.w \notin MatcherIfTwo \cup NoMatcher \/ (j.w \in MatcherIfTwo /\ Len(j.a) = 2)

AsBody(j, defs, t, kept) ==
    CASE t.body = "lines" -> AsLines(j.b, t, kept, <<>>)
      [] t.body = "site" -> Within(AsSite(j.b, defs), kept)
      [] OTHER -> Reading(Complete(t, kept, <<>>), kept, j.b # <<>>)
AsHeadKept(j, defs, t, args, a, path, kept) ==
    CASE t.head.via # "" -> AsLine(OnTheLine([a |-> args, b |-> j.b]), BlockTables[t.head.via], kept, path)
      [] t.head.via = "" /\ Leaves(t.head, args) -> Reading(TRUE, kept, TRUE)
      [] t.head.via = "" /\ ~Leaves(t.head, args) /\ t.head.nest # "none" /\ a # <<>> ->
           Reading(~(t.head.nest = "refuse" /\ j.b # <<>>) /\ Complete(t, kept, <<>>), kept, FALSE)
      [] OTHER -> AsBody(j, defs, t, kept)
AsHead(j, defs, t, args, start, a, path) ==
    IF /\ Accepted(t.head, "head", a, start, <<>>, path)
       /\ j.kind = "directive" /\ j.w \in MatcherIfTwo => Len(j.a) \in {1, 2}
       /\ TakesMatcher(j) => j.a[1] \notin {"@m", "@n", "@x", "@r"} \ defs
    THEN AsHeadKept(j, defs, t, args, a, path, HeadFields(t.head, a, path) @@ start)
    ELSE Reading(FALSE, start, FALSE)
AsArgs(j, defs, t, args, start) ==
    AsHead(j, defs, t, args, start, Looked(t.head, args), FieldPath(t.head, "head", <<>>))
AsNamed(j, defs, t, named) ==
    AsArgs(j, defs, t, IF named THEN Tail(j.a) ELSE j.a,
           DnsGiven(j) @@ (IF named THEN <<"matcher">> :> <<<<j.a[1]>>>> ELSE <<>>))
AsIn(tables, j, defs) ==
    IF j.w \in DOMAIN tables THEN AsNamed(j, defs, tables[j.w], TakesMatcher(j) /\ j.a[1] \in Catchall \cup defs)
    ELSE Reading(FALSE, <<>>, FALSE)
AsDirective(j, defs) == AsIn(TablesFor(j.kind), j, defs)

Structured(j) ==
    IF j.kind = "matcher" THEN AsMatcher([s |-> j.w, a |-> j.a, b |-> j.b]) ELSE AsDirective(j, Defined)

-----------------------------------------------------------------------------
(* Properties. *)

Agrees(s) == \/ s.stray
             \/ at = "error" /\ ~s.ok
             \/ at = "done" /\ s.ok /\ (job.kind # "matcher" => fields = s.m)

\* However its cursor gets there, a parser that never walks past something unread
\* (handlers.rs, options.rs, matchers.rs over dispenser.rs) accepts a directive
\* exactly when each of its lines is acceptable where it stands, and has then
\* recorded of each line that line's own arguments: no line is skipped, read twice
\* or given a neighbour's arguments or block.
WalkIsStructural == at \in {"done", "error"} => Agrees(Structured(job))

Swapped(j) == [j EXCEPT !.b = <<j.b[2], j.b[1]>> \o SubSeq(j.b, 3, Len(j.b))]

FieldOf(t, l) == IF HasRow(t, l.s) THEN FieldPath(RowFor(t, l.s), l.s, <<>>) ELSE <<l.s>>

\* What the walk makes of a whole segment.
Whole(j, t) ==
    IF j.kind = "directive" /\ ~j.dns THEN Directive(SegmentOf(j), Defined)
    ELSE GoOn(ReadHead(t, NextTok(Dispenser(SegmentOf(j))).d, DnsGiven(j)),
              LAMBDA h : Lines(h.d, t, h.m, <<>>, 0))

SameReading(there) == (at = "done") = there.ok /\ (there.ok => fields = there.m)
OrderFree(t) ==
    t.body = "lines" =>
        \/ FieldOf(t, job.b[1]) = FieldOf(t, job.b[2])
        \/ {job.b[1].s, job.b[2].s} = {"health_port", "health_upstream"}
        \/ \E j \in {job, Swapped(job)} : Structured(j).stray
        \/ SameReading(Whole(Swapped(job), t))

\* The order of the lines in a directive's block does not matter (the arms of
\* parse_reverse_proxy_inner, parse_tls, parse_servers ... each fill a field of
\* their own): two lines about different fields give the same result either way
\* round.  health_port is an exception, being refused after health_upstream and
\* accepted before it.
BlockOrderFree ==
    at \in {"done", "error"} /\ job.kind # "matcher" /\ Len(job.b) >= 2 => OrderFree(TableOf(job))

\* A directive is read line by line: the walk of the cursor gives what its lines
\* give one by one, in either order.
DirectivesRead == WalkIsStructural /\ BlockOrderFree
=============================================================================
