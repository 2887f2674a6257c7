-------------------------- MODULE CaddyDirectives ---------------------------
(***************************************************************************)
(* The parsers of the Caddyfile adapter: how a directive, a global option  *)
(* or a named matcher is read from its segment, as a walk of the           *)
(* Dispenser's cursor through the tables of CaddyHandlers and              *)
(* CaddyOptions.  A parser reads the arguments of its own line, then goes  *)
(* round `while d.next_block(nesting)`, one line a turn; the steps below   *)
(* are those turns.                                                        *)
(*                                                                         *)
(* A line is [s, a, b]: its first word, its arguments, the lines of its    *)
(* block (<<>> when there is none).  What has been parsed is a function    *)
(* set from paths of field names to the argument lists recorded there.     *)
(***************************************************************************)
EXTENDS CaddyDispenser, CaddyHandlers, CaddyOptions

BlockTables == HandlerBlocks @@ OptionBlocks

\* The named matchers of the enclosing site.
Defined == {"@m"}

-----------------------------------------------------------------------------
(* What a parser checks and keeps of a line. *)

IsUnder(path, q) == Len(q) >= Len(path) /\ SubSeq(q, 1, Len(path)) = path

IsSet(m, path) == \E q \in DOMAIN m : IsUnder(path, q)

Kept(m, path) == IF path \in DOMAIN m THEN m[path] ELSE <<>>

RECURSIVE Joined(_)
Joined(seqs) == IF seqs = <<>> THEN <<>> ELSE Head(seqs) \o Joined(Tail(seqs))

\* A query operation: -k | +k v | a>b | k search replacement | k v.
QueryShape(ws) ==
    CASE ws[1] \in {"-k", "a>b"} -> Len(ws) = 1
      [] ws[1] = "+k" -> Len(ws) = 2
      [] OTHER -> Len(ws) \in {2, 3}

\* The arguments of `match` in encode.
InlineShape(a) ==
    \/ a = <<>>
    \/ a[1] = "status" /\ Len(a) > 1 /\ \A i \in 2..Len(a) : a[i] \in Statuses
    \/ a[1] = "header" /\ (Len(a) = 3 \/ (Len(a) = 2 /\ a[2] = "!F"))

\* The header field a header_regexp is about.
RegexpField(a) == IF Len(a) = 3 THEN a[2] ELSE a[1]

Names == {"@r", "@x", "@m"}

FormHolds(f, w, a, m, path) ==
    CASE f = "pair" -> Len(a) # 1
      [] f = "outputs" -> Len(a) < Len(m[<<"head">>][1])
      [] f = "tls" -> Len(a) = 1 => a[1] \in TlsModes
      [] f = "inline" -> InlineShape(a)
      [] f = "header" -> IF a[1] = "!F" THEN Len(a) = 1 ELSE Len(a) = 2
      [] f = "replace" -> Len(a) = 2 => a[1] \in Names
      [] f = "upstreams" -> SameScheme(Joined(Kept(m, path)) \o a)
      [] f = "limit" -> Len(a) = 3 => a[3] \in Ints
      [] f = "query" -> a = <<>> \/ QueryShape(a)
      [] f = "query_line" -> QueryShape(<<w>> \o a)
      [] f = "distinct" -> \A i, j \in DOMAIN a : a[i] = a[j] => i = j
      [] f = "fields" -> \A i \in DOMAIN Kept(m, path) : RegexpField(m[path][i]) # RegexpField(a)
      [] OTHER -> TRUE

\* Of the n arguments of a line those the parser looks at.
Looked(r, a) == IF r.rest = "refuse" \/ Len(a) <= r.hi THEN a ELSE SubSeq(a, 1, r.hi)

FieldPath(r, w, p) == Append(p, IF r.field = "" THEN w ELSE r.field)

Free(r, m, p, path) == /\ \A f \in r.bars : ~IsSet(m, Append(p, f))
                       /\ r.once => ~IsSet(m, path)

Accepted(r, w, a, m, p, path) ==
    /\ Len(a) \in r.lo..r.hi
    /\ Free(r, m, p, path)
    /\ a = <<>> /\ r.wants # {} => \E f \in r.wants : IsSet(m, Append(p, f))
    /\ r.via = "" => \A i \in DOMAIN a : a[i] \in IF i = 1 THEN r.first ELSE r.other
    /\ FormHolds(r.form, w, a, m, path)

Without(m, path) == [q \in {x \in DOMAIN m : ~IsUnder(path, x)} |-> m[q]]

\* Fields the arguments set in the scope p the line opens.
Positional(r, a, p) ==
    LET names == IF r.form = "status" /\ Len(a) = 1 /\ a[1] \in StatusCodes THEN <<"status">> ELSE r.sets
        n == IF Len(names) < Len(a) THEN Len(names) ELSE Len(a)
    IN [q \in {Append(p, names[i]) : i \in 1..n} |->
          LET i == CHOOSE k \in 1..n : q = Append(p, names[k]) IN <<<<a[i]>>>>]

Marks(r, a) == IF r.form \in {"replace", "named"} /\ a # <<>> /\ a[1] \in Names
               THEN <<"uses", a[1]>> :> <<a>> ELSE <<>>

\* A line that adds starts the fields of its own block afresh.
Recorded(r, a, m, path) ==
    Positional(r, a, path)
    @@ path :> (IF r.adds THEN Append(Kept(m, path), a) ELSE <<a>>)
    @@ Marks(r, a) @@ Without(m, path)

\* What the parser checks after its loop.
Complete(t, m, p) ==
    /\ \A fields \in t.needs : \E f \in fields : IsSet(m, Append(p, f))
    /\ \A pair \in t.implies : IsSet(m, Append(p, pair[1])) => IsSet(m, Append(p, pair[2]))
    /\ p = <<>> => \A q \in DOMAIN m : q[1] = "uses" => IsSet(m, <<q[2]>>)

\* The block belongs to the line only in some forms of it.
Looks(r, a) ==
    CASE r.form = "inline" -> a = <<>>
      [] r.wants # {} -> a # <<>>
      [] OTHER -> TRUE

HasRow(t, w) == w \in DOMAIN t.rows \/ t.star # None
RowFor(t, w) == IF w \in DOMAIN t.rows THEN t.rows[w] ELSE t.star[1]

\* copy_headers: a name on the line or in the block.
SomeName(r, a, m, path) == r.form = "some" => a # <<>> \/ \E q \in DOMAIN m : IsUnder(path, q) /\ q # path

-----------------------------------------------------------------------------
(* The walk.  Results are [ok, d, m]. *)

Failed(d, m) == [ok |-> FALSE, d |-> d, m |-> m]

\* next_arg until the row has what it wants.
TakenBy(r, d, all) ==
    [args |-> Looked(r, all.args),
     d |-> IF r.rest = "leave" THEN Move(d, Len(Looked(r, all.args))) ELSE all.d]
TakeFor(r, d) == TakenBy(r, d, RemainingArgs(d))

\* The rest of a parser runs only on what was read so far without an error.
GoOn(l, F(_)) == IF l.ok THEN F(l) ELSE l

RECURSIVE SkipLines(_, _)
SkipLines(d, initial) ==
    When(NextBlock(d, initial), LAMBDA e : SkipLines(RemainingArgs(e).d, initial), LAMBDA e : e)

\* A word of the line itself, or the first of a line of the block.
InlineOrBlock(a, initial) == IF a.ok THEN a ELSE NextBlock(a.d, initial)

RECURSIVE GroupSegments(_, _, _)
AddGroup(w, s, initial, groups) ==
    GroupSegments(s.d, initial, w :> (IF w \in DOMAIN groups THEN groups[w] \o s.tokens ELSE s.tokens) @@ groups)
\* parse_nested_matcher_set: the tokens of the segments that start with each name.
GroupSegments(d, initial, groups) ==
    When(InlineOrBlock(NextArg(d), initial),
         LAMBDA e : AddGroup(Val(e), NextSegment(e), initial, groups),
         LAMBDA e : [d |-> e, groups |-> groups])

RECURSIVE ReadRow(_, _, _, _, _), Lines(_, _, _, _, _), ResponseLoop(_, _, _, _), Repeat(_, _, _), Directive(_, _)

\* One turn of a parser's loop: the cursor is at the first word of a line.
OwnLine(seg, r, w, m, p) == [ReadRow(NextTok(Dispenser(seg.tokens)).d, r, w, m, p) EXCEPT !.d = seg.d]
LineOf(d, r, w, m, p) == IF r.own THEN OwnLine(NextSegment(d), r, w, m, p) ELSE ReadRow(d, r, w, m, p)
Line(d, t, m, p) == IF HasRow(t, Val(d)) THEN LineOf(d, RowFor(t, Val(d)), Val(d), m, p) ELSE Failed(d, m)

Lines(d, t, m, p, initial) ==
    When(NextBlock(d, initial),
         LAMBDA e : GoOn(Line(e, t, m, p), LAMBDA l : Lines(l.d, t, l.m, p, initial)),
         LAMBDA e : [ok |-> Complete(t, m, p), d |-> e, m |-> m])

\* parse_response_matcher_definition: its lines may stand on the line itself.
ResponseLoop(d, m, p, initial) ==
    When(InlineOrBlock(NextArg(d), initial),
         LAMBDA e : GoOn(Line(e, ResponseLines, m, p), LAMBDA l : ResponseLoop(l.d, l.m, p, initial)),
         LAMBDA e : [ok |-> TRUE, d |-> e, m |-> m])

\* A matcher's parser: `while d.next()` over the lines that name it.
AfterHead(h, t, p) ==
    IF t.body = "none" THEN h
    ELSE GoOn(Lines(h.d, t, h.m, p, 0), LAMBDA l : Repeat(l.d, t, [m |-> l.m, p |-> p]))
Repeat(d, t, mp) ==
    When(NextTok(d),
         LAMBDA e : GoOn(ReadRow(e, t.head, "head", mp.m, mp.p), LAMBDA h : AfterHead(h, t, mp.p)),
         LAMBDA e : [ok |-> TRUE, d |-> e, m |-> mp.m])

\* make_matcher for every name; the matchers of a set do not depend on one another.
Merged(r) == [q \in UNION {DOMAIN r[w].m : w \in DOMAIN r} |-> r[CHOOSE w \in DOMAIN r : q \in DOMAIN r[w].m].m[q]]
AllMatchers(r, d, m) ==
    IF \A w \in DOMAIN r : r[w].ok THEN [ok |-> TRUE, d |-> d, m |-> Merged(r) @@ m] ELSE Failed(d, m)
MatchersOf(g, m, p) ==
    IF DOMAIN g.groups \subseteq DOMAIN MatcherTables
    THEN AllMatchers([w \in DOMAIN g.groups |->
                        Repeat(Dispenser(g.groups[w]), MatcherTables[w], [m |-> <<>>, p |-> Append(p, w)])], g.d, m)
    ELSE Failed(g.d, m)
MatcherSet(d, m, p) == MatchersOf(GroupSegments(d, d.n, <<>>), m, p)

\* config_values_from_segments: first the matchers, each defined once, then the
\* directives.
IsDef(seg) == seg[1].w \in {"@m", "@n"}
DefNames(segs) == {segs[i][1].w : i \in {j \in DOMAIN segs : IsDef(segs[j])}}
SiteOk(segs, defs) ==
    /\ \A i, j \in DOMAIN segs : IsDef(segs[i]) /\ IsDef(segs[j]) /\ segs[i][1].w = segs[j][1].w => i = j
    /\ DefNames(segs) \cap defs = {}
    /\ \A i \in DOMAIN segs :
         IF IsDef(segs[i]) THEN MatcherSet(NextTok(Dispenser(segs[i])).d, <<>>, <<>>).ok
         ELSE Directive(segs[i], defs \cup DefNames(segs)).ok

\* What stands in the block of a line, by what its row opens.
Refused(b, m) == [ok |-> ~b.ok, d |-> b.d, m |-> m]
NestedIn(r, d, m, path) ==
    CASE r.nest = "skip" -> [ok |-> TRUE, d |-> ConsumeBlock(d, d.n, <<>>).d, m |-> m]
      [] r.nest = "lines" -> [ok |-> TRUE, d |-> SkipLines(d, d.n), m |-> m]
      [] r.nest = "refuse" -> Refused(NextBlock(d, d.n), m)
      [] r.nest = "site" -> [ok |-> SiteOk(BlockSegments(d, d.n, <<>>), Defined),
                             d |-> ConsumeBlock(d, d.n, <<>>).d, m |-> m]
      [] r.nest = "matchers" -> MatcherSet(d, m, path)
      [] r.nest = "response" -> ResponseLoop(d, m, path, d.n)
      [] OTHER -> Lines(d, BlockTables[r.nest], m, path, d.n)

Chosen(d, t, w, m, kept, path) ==
    IF HasRow(t, w) THEN ReadRow(d, RowFor(t, w), w, kept, path) ELSE Failed(d, m)
Named(r, a, path, n) == [n EXCEPT !.ok = @ /\ SomeName(r, a, n.m, path)]
RowKept(r, d, a, m, path, kept) ==
    CASE r.via # "" -> Chosen(d, BlockTables[r.via], Val(d), m, kept, path)
      [] r.via = "" /\ (r.nest = "none" \/ ~Looks(r, a)) -> [ok |-> TRUE, d |-> d, m |-> kept]
      [] OTHER -> Named(r, a, path, NestedIn(r, d, kept, path))
RowTaken(t, r, w, m, p, path) ==
    IF Accepted(r, w, t.args, m, p, path) THEN RowKept(r, t.d, t.args, m, path, Recorded(r, t.args, m, path))
    ELSE Failed(t.d, m)
ReadRow(d, r, w, m, p) == RowTaken(TakeFor(r, d), r, w, m, p, FieldPath(r, w, p))

-----------------------------------------------------------------------------
(* A whole directive. *)

Catchall == {"*", "/p"}

\* extract_matcher_set: the token after the directive is taken out if it is a
\* matcher, and the cursor goes back to the start.
MatcherTaken(d, a, w, defs) ==
    CASE a.ok /\ w \in {"@m", "@n", "@x", "@r"} \ defs -> Failed(d, <<>>)
      [] a.ok /\ w \in Catchall \cup defs -> [ok |-> TRUE, d |-> Reset(Delete(a.d)), m |-> <<"matcher">> :> <<<<w>>>>]
      [] OTHER -> [ok |-> TRUE, d |-> Reset(a.d), m |-> <<>>]
ArgAt(d, a, defs) == MatcherTaken(d, a, Val(a.d), defs)
ExtractMatcherSet(d, defs) == ArgAt(d, NextArg(d), defs)

\* The matcher, if the directive takes one; the cursor at the directive.
Extracted(w, d, defs) ==
    CASE w \notin MatcherIfTwo \cup NoMatcher \/ (w \in MatcherIfTwo /\ CountRemainingArgs(d) = 2) ->
              GoOn(ExtractMatcherSet(d, defs), LAMBDA e : [e EXCEPT !.d = NextTok(@).d])
      [] w \in MatcherIfTwo /\ CountRemainingArgs(d) \notin {1, 2} -> Failed(d, <<>>)
      [] OTHER -> [ok |-> TRUE, d |-> d, m |-> <<>>]

\* The directive's own line.
HeadFields(r, a, path) ==
    Positional(r, a, <<>>) @@ (IF r.form = "off" /\ a = <<"off">> THEN <<"off">> :> <<a>> ELSE <<>>)
    @@ (IF a = <<>> THEN <<>> ELSE path :> <<a>>)
HeadKept(r, d, got, m, kept) ==
    CASE r.via # "" -> Chosen(got.d, BlockTables[r.via], got.args[1], m, kept, FieldPath(r, "head", <<>>))
      [] r.via = "" /\ (r.nest = "none" \/ got.args = <<>>) -> [ok |-> TRUE, d |-> got.d, m |-> kept]
      [] OTHER -> [ReadRow(d, [r EXCEPT !.field = "module"], "head", m, <<>>) EXCEPT !.m = kept]
HeadTaken(r, d, got, m, path) ==
    IF Accepted(r, "head", got.args, m, <<>>, path)
    THEN HeadKept(r, d, got, m, HeadFields(r, got.args, path) @@ m) ELSE Failed(d, m)
HeadRead(r, d, m) == HeadTaken(r, d, TakeFor(r, d), m, FieldPath(r, "head", <<>>))
ReadHead(t, d, m) == HeadRead(t.head, d, m)

\* handle, route, handle_path and handle_errors: the cursor at the last argument.
SiteBody(d, defs) == SiteOk(BlockSegments(d, d.n, <<>>), defs)

Body(t, h, defs) ==
    CASE t.body = "lines" -> Lines(h.d, t, h.m, <<>>, 0)
      [] t.body = "site" -> [h EXCEPT !.ok = SiteBody(h.d, defs)]
      [] OTHER -> [h EXCEPT !.ok = Complete(t, h.m, <<>>)]
DirectiveWith(t, e, defs) == GoOn(e, LAMBDA x : GoOn(ReadHead(t, x.d, x.m), LAMBDA h : Body(t, h, defs)))
DirectiveIn(tables, w, seg, defs) ==
    IF w \in DOMAIN tables THEN DirectiveWith(tables[w], Extracted(w, NextTok(Dispenser(seg)).d, defs), defs)
    ELSE Failed(Dispenser(seg), <<>>)
Directive(seg, defs) == DirectiveIn(DirectiveTables, seg[1].w, seg, defs)
=============================================================================
