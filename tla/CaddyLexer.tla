----------------------------- MODULE CaddyLexer -----------------------------
(***************************************************************************)
(* The Caddyfile lexer (caddyfile/lexer.rs).  Everything downstream groups *)
(* tokens into segments by comparing their line numbers, so what matters   *)
(* is not the text of a token but whether the line it is given agrees with *)
(* the line breaks the author wrote: quoted text and heredocs span lines,  *)
(* an escaped line break joins two lines, a comment ends at its line.      *)
(*                                                                         *)
(* `lex` holds the locals of next_token and the counters of the Lexer,     *)
(* `out` the tokens returned, one step reads one character.  The ghost     *)
(* fields `brk` (line breaks seen that separate lines), `at` (its value at *)
(* the token's first character) and `odd` (a spelling was met for which    *)
(* the two notions of a line are known to differ) are not in the code.     *)
(***************************************************************************)
EXTENDS Integers, Sequences

CONSTANT Inputs  \* the texts: records of the characters and the greatest length

VARIABLES lex, out, lexed, text

lexVars == <<lex, out, lexed, text>>

\* The locals of next_token at its entry; line and skipped_lines belong to the
\* Lexer and survive from one token to the next.
Fresh(line, skipped, brk, odd) ==
    [val |-> <<>>, comment |-> FALSE, quoted |-> FALSE, bt_quoted |-> FALSE,
     in_heredoc |-> FALSE, heredoc_escaped |-> FALSE, escaped |-> FALSE,
     marker |-> <<>>, token_line |-> line, line |-> line, skipped |-> skipped,
     brk |-> brk, at |-> brk, odd |-> odd]

LexInit == /\ lex = Fresh(1, 0, 0, FALSE)
           /\ out = <<>>
           /\ lexed = "reading"
           /\ text \in Inputs

NewlinesIn(s) == Len(SelectSeq(s, LAMBDA c: c = "\n"))

\* Token::num_line_breaks.
NumLineBreaks(val, quote) == NewlinesIn(val) + (IF quote = "heredoc" THEN 2 ELSE 0)

\* make_token returns the token to the caller, which calls next_token again.
Return(l, val, quote) ==
    /\ out' = Append(IF Len(out) < 2 THEN out ELSE Tail(out),
                     [line |-> l.token_line, breaks |-> NumLineBreaks(val, quote),
                      quote |-> quote, at |-> l.at])
    /\ lex' = Fresh(l.line, l.skipped, l.brk, l.odd)

Keep(l) == lex' = l /\ UNCHANGED out

LexFails(how) == lexed' = how /\ UNCHANGED <<lex, out>>

Going == UNCHANGED lexed

\* The test for the start of a heredoc.
OpensHeredoc(l) == /\ ~l.quoted /\ ~l.bt_quoted /\ ~l.in_heredoc /\ ~l.heredoc_escaped
                   /\ Len(l.val) > 1 /\ l.val[1] = "<" /\ l.val[2] = "<"

\* is_valid_heredoc_marker.
IsValidMarker(m) == m # <<>> /\ \A i \in DOMAIN m : m[i] \in {"a", "b"}

\* A token that begins with two '<': a space makes it an ordinary token, a line
\* break makes what follows the '<<' the marker of a heredoc, a carriage return
\* is skipped.
LexMarker(ch) ==
    /\ OpensHeredoc(lex)
    /\ \/ ch = " " /\ Return(lex, lex.val, "none") /\ Going
       \/ ch = "\n" /\ LET m == SubSeq(lex.val, 3, Len(lex.val)) IN
            IF m # <<>> /\ m[1] # "<" /\ IsValidMarker(m)
            THEN Keep([lex EXCEPT !.in_heredoc = TRUE, !.marker = m, !.val = <<>>,
                                  !.skipped = @ + 1, !.odd = @ \/ lex.skipped > 0]) /\ Going
            ELSE LexFails("error")
       \/ ch = "\r" /\ Keep(lex) /\ Going
       \/ ch \notin {" ", "\n", "\r"} /\ Keep([lex EXCEPT !.val = Append(@, ch)]) /\ Going

EndsWithMarker(val, m) ==
    Len(val) >= Len(m) /\ SubSeq(val, Len(val) - Len(m) + 1, Len(val)) = m

LastNewline(val) ==
    LET at == {i \in DOMAIN val : val[i] = "\n"} IN
    IF at = {} THEN 1 ELSE CHOOSE i \in at : \A j \in at : j <= i

\* The lines before the line of the closing marker.
HeredocLines(val) ==
    LET last == LastNewline(val)
        ends == {i \in 1..last : val[i] = "\n"}
        Begin(e) == LET b == {i \in ends : i < e} IN
                    IF b = {} THEN 1 ELSE 1 + (CHOOSE i \in b : \A j \in b : j <= i)
    IN {SubSeq(val, Begin(e), e - 1) : e \in ends}

Padding(val, m) == SubSeq(val, LastNewline(val) + 1, Len(val) - Len(m))

StartsWith(s, p) == Len(s) >= Len(p) /\ SubSeq(s, 1, Len(p)) = p

\* finalize_heredoc.  The search for the last line break answers 0 both for a
\* break in the first place and for none at all, so a marker that follows its
\* opening line directly leaves a slice that ends before it starts.
FinalizeHeredoc(val, m) ==
    CASE LastNewline(val) > Len(val) - Len(m) -> "panic"
      [] \E l \in HeredocLines(val) \ {<<>>, <<"\r">>} : ~StartsWith(l, Padding(val, m)) -> "error"
      [] OTHER -> "ok"

\* The text of a heredoc has one line break fewer than it has lines.
HeredocText(val) ==
    LET n == NewlinesIn(val) IN IF n = 0 THEN <<>> ELSE [i \in 1..(n - 1) |-> "\n"]

\* Inside a heredoc every character is kept until the text ends with the marker.
LexHeredoc(ch) ==
    /\ lex.in_heredoc
    /\ LET val == Append(lex.val, ch)
           skipped == lex.skipped + (IF ch = "\n" THEN 1 ELSE 0)
           how == FinalizeHeredoc(val, lex.marker)
       IN IF ~EndsWithMarker(val, lex.marker)
          THEN Keep([lex EXCEPT !.val = val, !.skipped = skipped]) /\ Going
          ELSE IF how # "ok" THEN LexFails(how)
          ELSE /\ Return([lex EXCEPT !.line = @ + skipped, !.skipped = 0,
                                     !.odd = @ \/ NewlinesIn(val) = 0],
                         HeredocText(val), "heredoc")
               /\ Going

Escapes(ch) == ~OpensHeredoc(lex) /\ ~lex.in_heredoc /\ ~lex.escaped /\ ~lex.bt_quoted /\ ch = "\\"

LexEscape(ch) == Escapes(ch) /\ Keep([lex EXCEPT !.escaped = TRUE]) /\ Going

\* Inside double quotes only a quote can be escaped; inside backticks nothing
\* can.  Quoted text may wrap onto further lines.
LexQuoted(ch) ==
    /\ (lex.quoted \/ lex.bt_quoted) /\ ~Escapes(ch)
    /\ LET esc == lex.quoted /\ lex.escaped
           val == IF esc /\ ch # "dq" THEN Append(lex.val, "\\") ELSE lex.val
           nl == ch = "\n"
       IN IF ~esc /\ ((lex.quoted /\ ch = "dq") \/ (lex.bt_quoted /\ ch = "bt"))
          THEN Return(lex, val, IF lex.quoted THEN "double" ELSE "backtick")
          ELSE Keep([lex EXCEPT !.val = Append(val, ch),
                                !.escaped = IF lex.quoted THEN FALSE ELSE @,
                                !.line = IF nl THEN @ + 1 + lex.skipped ELSE @,
                                !.skipped = IF nl THEN 0 ELSE @,
                                !.odd = @ \/ (nl /\ lex.skipped > 0)])
    /\ Going

Unquoted(ch) == /\ ~OpensHeredoc(lex) /\ ~lex.in_heredoc /\ ~Escapes(ch)
             /\ ~lex.quoted /\ ~lex.bt_quoted

\* The line break ends the comment, whether it was escaped or not.
LineBreak ==
    LET l == [lex EXCEPT !.comment = FALSE,
                         !.brk = IF lex.escaped /\ ~lex.comment THEN @ ELSE @ + 1,
                         !.odd = @ \/ (lex.escaped /\ lex.comment)]
    IN IF lex.escaped THEN [l EXCEPT !.skipped = @ + 1, !.escaped = FALSE]
       ELSE [l EXCEPT !.line = @ + 1 + lex.skipped, !.skipped = 0]

\* White space ends the token begun; a line break counts unless it is escaped;
\* a carriage return is nothing at all.
LexSpace(ch) ==
    /\ Unquoted(ch) /\ ch \in {" ", "\n", "\r"}
    /\ LET l == IF ch = "\n" THEN LineBreak ELSE lex IN
       IF lex.val # <<>> /\ ch # "\r" THEN Return(l, lex.val, "none") ELSE Keep(l)
    /\ Going

\* A comment starts where a token could; a quote only at the start of a token.
LexPlain(ch) ==
    /\ Unquoted(ch) /\ ch \notin {" ", "\n", "\r"}
    /\ LET first == lex.val = <<>>
           begun == [lex EXCEPT !.token_line = IF first THEN lex.line ELSE @,
                                !.at = IF first THEN lex.brk ELSE @]
           val == IF lex.escaped /\ ch # "<" THEN Append(lex.val, "\\") ELSE lex.val
       IN CASE lex.comment \/ (ch = "#" /\ first) -> Keep([lex EXCEPT !.comment = TRUE])
            [] ~lex.comment /\ first /\ ch = "dq" -> Keep([begun EXCEPT !.quoted = TRUE])
            [] ~lex.comment /\ first /\ ch = "bt" -> Keep([begun EXCEPT !.bt_quoted = TRUE])
            [] OTHER -> Keep([begun EXCEPT !.val = Append(val, ch), !.escaped = FALSE,
                                           !.heredoc_escaped = @ \/ (lex.escaped /\ ch = "<")])
    /\ Going

\* read: the next character of the text.
Read(ch) == /\ lexed = "reading"
            /\ text.left > 0
            /\ text' = [text EXCEPT !.left = @ - 1]

\* The end of the text: a token begun is returned, an open heredoc is an error
\* unless nothing of it has been read.
LexEof ==
    /\ lexed = "reading"
    /\ IF lex.val # <<>> /\ lex.in_heredoc THEN LexFails("error")
       ELSE /\ IF lex.val # <<>> THEN Return(lex, lex.val, "none") ELSE Keep(lex)
            /\ lexed' = "done"
    /\ UNCHANGED text

LexNext == \/ \E ch \in text.chars : Read(ch) /\ LexMarker(ch)
           \/ \E ch \in text.chars : Read(ch) /\ LexHeredoc(ch)
           \/ \E ch \in text.chars : Read(ch) /\ LexEscape(ch)
           \/ \E ch \in text.chars : Read(ch) /\ LexQuoted(ch)
           \/ \E ch \in text.chars : Read(ch) /\ LexSpace(ch)
           \/ \E ch \in text.chars : Read(ch) /\ LexPlain(ch)
           \/ LexEof

-----------------------------------------------------------------------------
(* Properties. *)

\* is_next_on_new_line, for two tokens of one file.
NewLine(t1, t2) == t1.line + t1.breaks < t2.line

\* Two neighbouring tokens are on different lines for the parser exactly when
\* the author put an unescaped line break, outside quotes and heredocs, between
\* them: the line a token is given, its own line breaks and skipped_lines agree
\* through quotes, escapes, heredocs and comments.  The spellings in `odd` are
\* left out: there the lexer's lines are not the author's.
LineGroups == lex.odd \/ \A i \in 1..(Len(out) - 1) :
    NewLine(out[i], out[i + 1]) = (out[i].at < out[i + 1].at)
=============================================================================
