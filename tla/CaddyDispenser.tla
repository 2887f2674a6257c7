--------------------------- MODULE CaddyDispenser ---------------------------
(***************************************************************************)
(* The two readers of a Caddyfile's tokens.  The grammar                   *)
(* (caddyfile/grammar.lalrpop over toks.rs) cuts the body of a site into   *)
(* segments: a directive, the rest of its line, and any block opened on    *)
(* that line.  The Dispenser (caddyfile/dispenser.rs) is the cursor the    *)
(* directives' parsers walk those segments with, and it cuts nested blocks *)
(* into segments of its own.  parser.rs splits the file into site blocks   *)
(* with the Dispenser and hands their bodies to the grammar.               *)
(*                                                                         *)
(* A token is [w, ln], its text and its line.  A Dispenser is [t, c, n]:   *)
(* the tokens, the place of the current one (0 before the first) and the   *)
(* nesting; an operation that returns a Boolean in the code returns        *)
(* [ok, d] here.                                                           *)
(***************************************************************************)
EXTENDS Integers, Sequences, FiniteSets

-----------------------------------------------------------------------------
(* The Dispenser. *)

Dispenser(tokens) == [t |-> tokens, c |-> 0, n |-> 0]

Loaded(d) == d.c \in DOMAIN d.t

Val(d) == IF Loaded(d) THEN d.t[d.c].w ELSE ""

TokenAt(d) == IF Loaded(d) THEN d.t[d.c] ELSE [w |-> "", ln |-> 0]

\* What follows an operation that did or did not succeed.
When(r, Yes(_), No(_)) == IF r.ok THEN Yes(r.d) ELSE No(r.d)

Did(d) == [ok |-> TRUE, d |-> d]
DidNot(d) == [ok |-> FALSE, d |-> d]

Move(d, by) == [d EXCEPT !.c = @ + by]

\* is_next_on_new_line, for tokens of one file and one import chain.
BreakAfter(ts, i) == ts[i].ln < ts[i + 1].ln

NextTok(d) == IF d.c < Len(d.t) THEN Did(Move(d, 1)) ELSE DidNot(d)

PrevTok(d) == CASE d.c = 0 -> DidNot(d)
                [] d.c = 1 -> DidNot(Move(d, -1))
                [] OTHER -> Did(Move(d, -1))

NextOnSameLine(d) ==
    CASE d.c = 0 -> Did(Move(d, 1))
      [] d.c >= Len(d.t) -> DidNot(d)
      [] BreakAfter(d.t, d.c) -> DidNot(d)
      [] OTHER -> Did(Move(d, 1))

\* Mutant: the brace is not put back.
NextArgTakesBrace(d) == LET r == NextOnSameLine(d) IN IF r.ok /\ Val(r.d) = "{" THEN DidNot(r.d) ELSE r

Unbraced(r) == IF r.ok /\ Val(r.d) = "{" THEN DidNot(Move(r.d, -1)) ELSE r
NextArg(d) == Unbraced(NextOnSameLine(d))

\* next_block.  The look for a further token on the line of a brace moves the
\* cursor when it finds one, and the brace then counts for nothing.
Opened(d) == [d EXCEPT !.n = @ + 1]
AtBrace(d, s) ==
    CASE Val(d) = "}" /\ ~s.ok -> [s.d EXCEPT !.n = @ - 1]
      [] Val(d) = "{" /\ ~s.ok -> Opened(s.d)
      [] Val(d) = "}" /\ s.ok /\ Val(s.d) = "{" -> When(NextOnSameLine(s.d), LAMBDA e : e, Opened)
      [] Val(d) \in {"{", "}"} /\ s.ok /\ ~(Val(d) = "}" /\ Val(s.d) = "{") -> s.d
      [] OTHER -> d
Deeper(d, initial) == [ok |-> d.n > initial, d |-> d]
NotEmpty(d) == IF Val(d) = "}" THEN DidNot(d) ELSE Did(Opened(d))
NextBlock(d, initial) ==
    IF d.n > initial
    THEN When(NextTok(d), LAMBDA e : Deeper(AtBrace(e, NextOnSameLine(e)), initial), LAMBDA e : DidNot(d))
    ELSE When(NextOnSameLine(d),
              LAMBDA e : IF Val(e) = "{" THEN NotEmpty(NextTok(e).d) ELSE DidNot(Move(e, -1)),
              LAMBDA e : DidNot(d))

\* The place the cursor ends at when next_arg is called until it answers no.
LastArg(d) ==
    LET stop == {i \in (d.c + 1)..Len(d.t) : d.t[i].w = "{" \/ (i > 1 /\ BreakAfter(d.t, i - 1))}
    IN IF stop = {} THEN Len(d.t) ELSE (CHOOSE i \in stop : \A j \in stop : i <= j) - 1

CountRemainingArgs(d) == LastArg(d) - d.c

Words(ts) == [i \in DOMAIN ts |-> ts[i].w]

\* remaining_args: the arguments and the Dispenser after them.
RemainingArgs(d) == [args |-> Words(SubSeq(d.t, d.c + 1, LastArg(d))), d |-> [d EXCEPT !.c = LastArg(d)]]

\* args: up to n arguments; the cursor stays behind the last one read.
TakeArgs(d, n) ==
    LET k == IF CountRemainingArgs(d) < n THEN CountRemainingArgs(d) ELSE n IN
    [ok |-> k = n, args |-> Words(SubSeq(d.t, d.c + 1, d.c + k)), d |-> Move(d, k)]

\* all_args: exactly n.
AllArgs(d, n) == LET r == TakeArgs(d, n) IN [r EXCEPT !.ok = @ /\ CountRemainingArgs(r.d) = 0]

\* The loop `while d.next_block(nesting) {}` with its body left empty.
RECURSIVE ConsumeBlock(_, _, _)
ConsumeBlock(d, initial, taken) ==
    When(NextBlock(d, initial), LAMBDA e : ConsumeBlock(e, initial, Append(taken, e)),
         LAMBDA e : [d |-> e, taken |-> taken])

\* next_segment: the current token, its arguments, and the block that follows,
\* with its braces.  A block opened and closed right away is left out.
Segment(line, b) ==
    [d |-> b.d,
     tokens |-> line \o (IF b.taken = <<>> THEN <<>>
                         ELSE <<TokenAt(Move(b.taken[1], -1))>>
                              \o [i \in DOMAIN b.taken |-> TokenAt(b.taken[i])] \o <<TokenAt(b.d)>>)]
NextSegment(d) == Segment(SubSeq(d.t, d.c, LastArg(d)), ConsumeBlock([d EXCEPT !.c = LastArg(d)], d.n, <<>>))

\* parse_segment_as_config: the segments of the block of the current directive.
RECURSIVE BlockSegments(_, _, _)
SegmentsFrom(s, initial, segs) == BlockSegments(s.d, initial, Append(segs, s.tokens))
BlockSegments(d, initial, segs) ==
    When(NextBlock(d, initial), LAMBDA e : SegmentsFrom(NextSegment(e), initial, segs), LAMBDA e : segs)

\* delete: takes the current token out.
Delete(d) ==
    IF Loaded(d)
    THEN [d EXCEPT !.t = SubSeq(@, 1, d.c - 1) \o SubSeq(@, d.c + 1, Len(@)), !.c = @ - 1]
    ELSE d

Reset(d) == [d EXCEPT !.c = 0, !.n = 0]

\* is_new_line.
IsNewLine(d) == d.c <= 1 \/ (Loaded(d) /\ BreakAfter(d.t, d.c - 1))

-----------------------------------------------------------------------------
(* The grammar. *)

Opens(ts, from, to) == Cardinality({i \in from..to : ts[i].w = "{"})
Closes(ts, from, to) == Cardinality({i \in from..to : ts[i].w = "}"})

Balanced(ts) == /\ \A i \in DOMAIN ts : Opens(ts, 1, i) >= Closes(ts, 1, i)
                /\ Opens(ts, 1, Len(ts)) = Closes(ts, 1, Len(ts))

\* to_spanned puts a separator between two tokens of different lines; inside a
\* block the grammar absorbs it, so a segment starts where one stands at the top.
StartsSegment(ts, i) ==
    i = 1 \/ (BreakAfter(ts, i - 1) /\ Opens(ts, 1, i - 1) = Closes(ts, 1, i - 1))

\* A segment begins with a word.
Parses(ts) == Balanced(ts) /\ \A i \in DOMAIN ts : StartsSegment(ts, i) => ts[i].w \notin {"{", "}"}

RECURSIVE CutSegments(_, _, _)
CutSegments(ts, i, segs) ==
    IF i > Len(ts) THEN segs
    ELSE LET next == {j \in (i + 1)..Len(ts) : StartsSegment(ts, j)}
             last == IF next = {} THEN Len(ts) ELSE (CHOOSE j \in next : \A k \in next : j <= k) - 1
         IN CutSegments(ts, last + 1, Append(segs, SubSeq(ts, i, last)))

\* parse_segments.
ParseSegments(ts) == [ok |-> Parses(ts), segs |-> CutSegments(ts, 1, <<>>)]

-----------------------------------------------------------------------------
(* The file's blocks. *)

NoBlock == [keys |-> <<>>, braces |-> FALSE, body |-> <<>>]

\* The words of an address list, as the parser sees them: ending in a comma,
\* holding one, ending in a brace, or naming a matcher.
CommaKey == "a,"
Commas == {CommaKey, ","}
BadKeys == {"a,b", "a{", "@m"}
KeyOf(w) == CASE w = CommaKey -> <<"a">> [] w = "," -> <<>> [] OTHER -> <<w>>

\* addresses: from the current token to the block or to the first line that
\* does not follow a comma.
RECURSIVE Addresses(_, _, _)
Addresses(d, block, expecting) ==
    LET w == Val(d)
        more == w \in Commas
        b == [block EXCEPT !.keys = @ \o KeyOf(w)]
        r == NextTok(d)
    IN CASE w = "{" -> [st |-> IF expecting THEN "error" ELSE "block", d |-> d,
                        block |-> [block EXCEPT !.braces = TRUE]]
         [] w \in BadKeys -> [st |-> "error", d |-> d, block |-> block]
         [] ~r.ok /\ w # "{" /\ w \notin BadKeys ->
              [st |-> IF more THEN "error" ELSE "eof", d |-> r.d, block |-> b]
         [] r.ok /\ ~more /\ IsNewLine(r.d) /\ w # "{" /\ w \notin BadKeys ->
              [st |-> "block", d |-> r.d, block |-> b]
         [] OTHER -> Addresses(r.d, b, more)

\* block_tokens: the interior of the block at the current brace.
BlockTokens(d) ==
    LET at == {j \in d.c..Len(d.t) : Opens(d.t, d.c, j) = Closes(d.t, d.c, j)}
        close == CHOOSE j \in at : \A k \in at : j <= k
    IN IF Val(d) # "{" \/ at = {} THEN [ok |-> FALSE, d |-> d, tokens |-> <<>>]
       ELSE [ok |-> TRUE, d |-> [d EXCEPT !.c = close], tokens |-> SubSeq(d.t, d.c + 1, close - 1)]

\* block_contents: a block in braces, or the rest of the file.
BlockContents(d) ==
    IF Val(d) = "{" THEN BlockTokens(d)
    ELSE [ok |-> TRUE, d |-> [d EXCEPT !.c = Len(d.t)], tokens |-> SubSeq(d.t, d.c, Len(d.t))]

\* A definition left over by the importer is consumed and dropped; a named
\* route is a block of its own.
SnippetKey == "(s)"
RouteKey == "&(r)"

\* begin.
BlockWith(block, c, s) ==
    IF block.keys = <<SnippetKey>> THEN [ok |-> c.ok, d |-> c.d, blocks |-> <<>>]
    ELSE [ok |-> c.ok /\ s.ok, d |-> c.d, blocks |-> <<[block EXCEPT !.body = s.segs]>>]
BlockOf(block, c) == BlockWith(block, c, ParseSegments(c.tokens))
BlockAfter(d, a) ==
    CASE a.st = "error" -> [ok |-> FALSE, d |-> d, blocks |-> <<>>]
      [] a.st = "eof" -> [ok |-> TRUE, d |-> a.d, blocks |-> <<a.block>>]
      [] a.st = "block" -> BlockOf(a.block, IF a.block.keys \in {<<SnippetKey>>, <<RouteKey>>} THEN BlockTokens(a.d)
                                            ELSE BlockContents(a.d))
Begin(d) == BlockAfter(d, Addresses(d, NoBlock, FALSE))

\* parse_all: a block with neither keys nor segments is not kept.
RECURSIVE ParseAll(_, _)
ParseRest(b, blocks) ==
    IF b.ok THEN ParseAll(b.d, blocks \o SelectSeq(b.blocks, LAMBDA x: x.keys # <<>> \/ x.body # <<>>))
    ELSE [ok |-> FALSE, blocks |-> blocks]
ParseAll(d, blocks) ==
    When(NextTok(d), LAMBDA e : ParseRest(Begin(e), blocks), LAMBDA e : [ok |-> TRUE, blocks |-> blocks])

ParseFile(ts) == ParseAll(Dispenser(ts), <<>>)
=============================================================================
