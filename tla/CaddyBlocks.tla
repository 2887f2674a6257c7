---------------------------- MODULE CaddyBlocks ----------------------------
(***************************************************************************)
(* The block structure of a Caddyfile is found twice: the parser cuts the  *)
(* token stream into site blocks and their segments with the grammar, and  *)
(* the adapter walks the blocks inside a segment with the Dispenser.  This *)
(* module grows a token stream, one token at a time, and compares the two. *)
(***************************************************************************)
EXTENDS CaddyDispenser

CONSTANTS FileWords,  \* the words of the stream
          MaxTokens   \* its length

VARIABLE file         \* the tokens

BlocksInit == file = <<>>

\* Expanded tokens reach the parser one after the other, on the same line or on
\* the next; a brace is closed only if one is open.
AddToken(w, breaks) ==
    /\ Len(file) < MaxTokens
    /\ Opens(file, 1, Len(file)) >= Closes(file, 1, Len(file)) + (IF w = "}" THEN 1 ELSE 0)
    /\ file' = Append(file, [w |-> w, ln |-> IF file = <<>> THEN 1
                                             ELSE file[Len(file)].ln + (IF breaks THEN 1 ELSE 0)])

BlocksNext == \E w \in FileWords, b \in BOOLEAN : AddToken(w, b)

-----------------------------------------------------------------------------
(* Properties. *)

\* The tokens as the block of a directive, read by parse_segment_as_config.
Wrapped(ts) == <<[w |-> "route", ln |-> 0], [w |-> "{", ln |-> 0]>> \o ts
               \o <<[w |-> "}", ln |-> 99]>>
Nested(ts) == BlockSegments(NextTok(Dispenser(Wrapped(ts))).d, 0, <<>>)

\* An empty block at the end of a segment is nothing to the Dispenser.
NoEmpty(ts) ==
    IF Len(ts) > 1 /\ ts[Len(ts) - 1].w = "{" /\ ts[Len(ts)].w = "}" THEN SubSeq(ts, 1, Len(ts) - 2) ELSE ts

AllNoEmpty(segs) == [i \in DOMAIN segs |-> NoEmpty(segs[i])]

\* The layout Caddyfiles have: a brace opens at the end of a line that has
\* something before it, and closes at the end of a line.
LaidOut(ts) == \A i \in DOMAIN ts :
    /\ ts[i].w = "{" => /\ i < Len(ts) /\ BreakAfter(ts, i)
                        /\ i > 1 /\ ~BreakAfter(ts, i - 1)
    /\ ts[i].w = "}" => (i = Len(ts) \/ BreakAfter(ts, i))

\* The segments the grammar cuts the contents of a site block into are those
\* next_segment cuts the same tokens into when they stand in a nested block.
SegmentsAgree == (Parses(file) /\ LaidOut(file)) =>
    Nested(file) = AllNoEmpty(ParseSegments(file).segs)

RECURSIVE Flatten(_)
Flatten(ss) == IF ss = <<>> THEN <<>> ELSE Head(ss) \o Flatten(Tail(ss))
BareWords(ws) == SelectSeq(Flatten([i \in DOMAIN ws |-> KeyOf(ws[i])]), LAMBDA w : w \notin {"{", "}"})
Written(bs) == Flatten([i \in DOMAIN bs |-> bs[i].keys \o Words(Flatten(bs[i].body))])

KeepsWords(p) == p.ok => BareWords(Written(p.blocks)) = BareWords(Words(file))
\* A file that parses keeps every word, as a key of a block or in its contents,
\* in the order written (parse_all, addresses, block_contents).
FileKept == KeepsWords(ParseFile(file))
=============================================================================
