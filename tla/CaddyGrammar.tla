---------------------------- MODULE CaddyGrammar ----------------------------
(***************************************************************************)
(* How a parser of the Caddyfile adapter describes the lines it accepts.   *)
(* Every parser of caddyfile/adapter/ is the same loop over next_block     *)
(* with a match on the first word of the line; what differs is the table   *)
(* of that match.  A row of a table says how many arguments the line       *)
(* takes, what the reader does with those beyond that, what they must be,  *)
(* which lines must or must not have come before, and what becomes of the  *)
(* block the line may open.  CaddyHandlers and CaddyOptions hold the       *)
(* tables, CaddyDirectives the loop.                                       *)
(***************************************************************************)
EXTENDS Integers, Sequences, TLC

-----------------------------------------------------------------------------
(* Arguments are drawn from a few words that the conversions tell apart. *)

\* What i64::parse accepts.
Ints == {"-1", "0", "1", "5", "200"}

\* parse_duration_ns: an integer is taken as nanoseconds, a number needs a
\* known unit, and a text in which no number is found ("w") sums up to zero.
Durations == Ints \cup {"1s", "w", "off"}

\* parse_go_duration_ns: a unit is required, and so is a number.
GoDurations == {"1s"}

\* parse_tls_duration: parse_duration_ns with those two cases taken out.
TlsDurations == {x \in Durations : x \notin Ints /\ x \notin {"w", "off"}}

\* parse_bytes: a number, and a known unit if any.
ByteSizes == Ints \cup {"0.5", "1kb"}

\* parse_proxy_buffer_size.
BufferSizes == ByteSizes \cup {"unlimited"}

\* parse_reverse_proxy_health_status and parse_response_status_match.
Statuses == Ints \cup {"2xx"}

\* is_status_code.
StatusCodes == {"200"}

\* validate_health_upstream.
HostPorts == {"a:1"}

\* A ratio strictly between zero and one, and one that may be one.
OpenRatios == {"0.5"}
Ratios == {"0.5", "1"}

AnyWord == Durations \cup BufferSizes \cup Statuses \cup HostPorts
       \cup {"/p", "*", "@m", "@x", "@r", "zz", "status", "header", "F", "!F", "a>b", ">b", "-k", "+k", "k=v"}

-----------------------------------------------------------------------------
(* Rows. *)

Many == 9

\* rest: what is done with arguments beyond hi (refused, consumed, or left for
\* the next call of the loop).  first and other: what the first argument and the
\* others must be.  bars, wants: fields that exclude the line, and fields it
\* needs when it has no argument.  nest: what follows the line's arguments.
\* once: the field may be set only once; adds: its values accumulate; sets: the
\* fields its arguments set in the block it opens; form: a check of CaddyDirectives
\* on the arguments together.
Row(lo, hi, rest, first, other) ==
    [lo |-> lo, hi |-> hi, rest |-> rest, first |-> first, other |-> other, sets |-> <<>>,
     bars |-> {}, wants |-> {}, field |-> "", once |-> FALSE, adds |-> FALSE, nest |-> "none",
     via |-> "", form |-> "", own |-> FALSE]

Between(m, n, K) == Row(m, n, "refuse", K, K)
Exactly(n, K) == Between(n, n, K)
One(K) == Exactly(1, K)
Flag == Exactly(0, AnyWord)
AtLeast(n, K) == Row(n, Many, "refuse", K, K)
Leaving(n, K) == Row(n, n, "leave", K, K)
LeavingUpTo(n, K) == Row(0, n, "leave", K, K)
Dropping(n, K) == Row(n, n, "drop", K, AnyWord)
DroppingAll == Row(0, 0, "drop", AnyWord, AnyWord)
Unread == LeavingUpTo(0, AnyWord)

Once(r) == [r EXCEPT !.once = TRUE]
Unless(r, fields) == [r EXCEPT !.bars = fields]
Wanting(r, fields) == [r EXCEPT !.wants = fields]
As(r, f) == [r EXCEPT !.field = f]
Adds(r) == [r EXCEPT !.adds = TRUE]
Setting(r, fields) == [r EXCEPT !.sets = fields]
Shaped(r, f) == [r EXCEPT !.form = f]
FirstIs(r, K) == [r EXCEPT !.first = K]
\* The line opens a block read by the named parser; a block skipped token by
\* token or line by line; a block that is an error; a block of directives; a
\* set of matchers.
Opening(r, parser) == [r EXCEPT !.nest = parser]
Skipping(r) == Opening(r, "skip")
SkippingLines(r) == Opening(r, "lines")
Refusing(r) == Opening(r, "refuse")
\* The line and its block are handed over as a Dispenser of their own.
Owning(r, parser) == [Opening(r, parser) EXCEPT !.own = TRUE]
\* The next argument selects the row of another table.
Via(table) == [Row(1, 1, "leave", AnyWord, AnyWord) EXCEPT !.via = table]

-----------------------------------------------------------------------------
(* Tables. *)

None == <<>>

\* head: the arguments on the directive's own line.  star: the row for any other
\* first word, if the match has a catch-all arm.  body: "lines" for the loop,
\* "site" for a block of directives, "none" if the parser never looks for one,
\* "repeat" for a matcher.  needs: of each set one field must have been set;
\* implies: pairs of fields of which the first asks for the second.
Table(head, rows, star) ==
    [head |-> head, rows |-> rows, star |-> star, body |-> "lines", needs |-> {}, implies |-> {}]

Rowless(head) == Table(head, <<>>, None)
HeadOnly(head) == [Rowless(head) EXCEPT !.body = "none"]
OfDirectives(head) == [Rowless(head) EXCEPT !.body = "site"]
Repeated(head, rows) == [Table(head, rows, None) EXCEPT !.body = "repeat"]
Needing(t, sets) == [t EXCEPT !.needs = sets]
Implying(t, pairs) == [t EXCEPT !.implies = pairs]
Failing(t) == Needing(t, {{}})

\* The same row for several words.
Each(words, r) == [w \in words |-> r]
=============================================================================
