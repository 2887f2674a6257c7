------------------------------ MODULE CaddyUri ------------------------------
(***************************************************************************)
(* Paths and queries of a request: Caddy's path cleaning and matching       *)
(* (helpers/caddy.rs), its rewrite operations, and the query parsers        *)
(* (script.rs).  A path is a sequence of symbols; an escape is one symbol   *)
(* that Decode maps to the character it stands for, and a {placeholder} is  *)
(* one symbol that an environment maps to text.                             *)
(***************************************************************************)
EXTENDS Text
LOCAL INSTANCE SequencesExt

CONSTANTS Decode,  \* escape symbol -> the character it decodes to
          Lower    \* upper-case symbol -> its lower case

Sl == "/"
Decoded(s) == Mapped(s, LAMBDA c : IF c \in DOMAIN Decode THEN Decode[c] ELSE c)
Lowered(s) == Mapped(s, LAMBDA c : IF c \in DOMAIN Lower THEN Lower[c] ELSE c)
Fold(c) == Lowered(Decoded(<<c>>))[1]
\* An escape that does not decode makes the whole string undecodable.
BadEscape == "%!"
Decodable(s) == BadEscape \notin Range(s)

\* site.rs normalize_request_path keeps the segments both decoded and as they
\* were written; a segment is judged by what it decodes to.
Push(acc, seg, d) ==
  CASE d = <<>> \/ d = <<".">>     -> Some(acc)
    [] d = <<".", ".">>            -> IF acc = <<>> THEN None ELSE Some(Front(acc))
    [] BadEscape \in Range(d)      -> None
    [] Sl \in Range(d)             -> None
    [] OTHER                       -> Some(Append(acc, seg))
PushDecoded(acc, seg) == Then(acc, LAMBDA parts : Push(parts, seg, Decoded(seg)))
RawSegments(path) == FoldLeft(PushDecoded, Some(<<>>), Split(path, Sl))

normalize_request_path(path) == Then(RawSegments(path), LAMBDA parts : Some(Mapped(parts, Decoded)))

\* The segments as they were written, with the final slash of the path.
WithDirHint(encoded, path) ==
  IF encoded # <<Sl>> /\ path # <<>> /\ Last(path) = Sl THEN Append(encoded, Sl) ELSE encoded
encoded_path_with_dir_hint(path) == WithDirHint(<<Sl>> \o Joined(RawSegments(path)[1], <<Sl>>), path)

\* ScriptRequest keeps the raw path, less its slashes in front, when it does
\* not normalise.
RECURSIVE trim_start_slashes(_)
trim_start_slashes(p) == IF p # <<>> /\ Head(p) = Sl THEN trim_start_slashes(Tail(p)) ELSE p
relative_of(path) ==
  OrElse(Then(normalize_request_path(path), LAMBDA parts : Some(Joined(parts, <<Sl>>))), trim_start_slashes(path))

----------------------------------------------------------------------------
PushPart(acc, part) ==
  CASE part = <<>> \/ part = <<".">> -> acc
    [] part = <<".", ".">>           -> IF acc = <<>> THEN acc ELSE Front(acc)
    [] OTHER                         -> Append(acc, part)

Rooted(body, absolute) == IF absolute THEN <<Sl>> \o body ELSE IF body = <<>> THEN <<".">> ELSE body
Trailed(out, trailing) == IF trailing /\ out # <<Sl>> THEN Append(out, Sl) ELSE out
clean_path_preserve_trailing(path) ==
  Trailed(Rooted(Joined(FoldLeft(PushPart, <<>>, Split(path, Sl)), <<Sl>>),
                 path # <<>> /\ Head(path) = Sl),
          path # <<>> /\ Last(path) = Sl)

Tmp == "tmp" \* the character no path holds, put between two slashes
clean_path_preserving_double_slashes(path) ==
  LET marked == Flat([i \in DOMAIN path |->
                        IF path[i] = Sl /\ i > 1 /\ path[i - 1] = Sl THEN <<Tmp, Sl>> ELSE <<path[i]>>])
  IN  SelectSeq(clean_path_preserve_trailing(marked), LAMBDA c : c # Tmp)

clean_path_caddy(path, merge) ==
  IF merge THEN clean_path_preserve_trailing(path) ELSE clean_path_preserving_double_slashes(path)

MergesSlashes(pattern) == ~Occurs(<<Sl, Sl>>, pattern)

\* The prefix is compared case-blind, an escape of the path by what it decodes
\* to; read backwards, for a suffix, an escape is only equal to itself.
SameSymbol(c, p, backwards) == c = p \/ (IF backwards THEN Lowered(<<c>>)[1] ELSE Fold(c)) = Lowered(<<p>>)[1]
trim_path_prefix_caddy(path, prefix, backwards) ==
  IF /\ Len(prefix) <= Len(path)
     /\ \A i \in DOMAIN prefix : SameSymbol(path[i], prefix[i], backwards)
  THEN SubSeq(path, Len(prefix) + 1, Len(path))
  ELSE path

replace_with_limit(value, find, rep, limit) ==
  LET n == IF limit <= 0 THEN -1 ELSE limit IN
  CASE find # <<>> -> Replaced(value, find, rep, n)
    [] rep = <<>>  -> value
    [] OTHER       -> rep \o Flat([i \in DOMAIN value |->
                        <<value[i]>> \o IF n < 0 \/ i < n THEN rep ELSE <<>>])

\* A regular expression is the set of symbols it matches one at a time.
regex_replace_all(value, class, rep) ==
  Flat([i \in DOMAIN value |-> IF value[i] \in class THEN rep ELSE <<value[i]>>])

----------------------------------------------------------------------------
\* Placeholder expansion: one pass, so text that came out of a placeholder is
\* never read as one.  An unknown placeholder becomes nothing, or stays.
expand_caddy_placeholders_inner(env, input, unknown_as_empty) ==
  Flat([i \in DOMAIN input |->
          CASE input[i] \in DOMAIN env -> env[input[i]]
            [] input[i] = "{?}"        -> IF unknown_as_empty THEN <<>> ELSE <<"{?}">>
            [] OTHER                   -> <<input[i]>>])
expand_caddy_placeholders(env, input) == expand_caddy_placeholders_inner(env, input, TRUE)
expand_known_caddy_placeholders(env, input) == expand_caddy_placeholders_inner(env, input, FALSE)

\* caddy_query_escape and form_urlencoded escape the two separators of a query.
Escape == [c \in {"&", "="} |-> IF c = "&" THEN "%&" ELSE "%="]
Escaped(s) == Mapped(s, LAMBDA c : IF c \in DOMAIN Escape THEN Escape[c] ELSE c)
caddy_query_escape(s) == Escaped(s)

\* form_urlencoded::parse: empty pieces dropped, key and value unescaped.
Pieces(query) == SelectSeq(Split(query, "&"), LAMBDA p : p # <<>>)
ParsedPairs(query) ==
  Mapped(Pieces(query), LAMBDA p : Mapped(OrElse(SplitOnce(p, "="), <<p, <<>>>>), Decoded))

parse_query_param_values(query) == Grouped(ParsedPairs(query))
FirstValues(values) == [k \in DOMAIN values |-> values[k][1]]
parse_query_params(query) == FirstValues(parse_query_param_values(query))

\* caddy_query_unescape fails on a malformed escape; a piece holding ';' is dropped.
caddy_query_unescape(s) == IF Decodable(s) THEN Some(Decoded(s)) ELSE None
SoundPiece(p) == ";" \notin Range(p) /\ caddy_query_unescape(p) # None
parse_caddy_query_params(query) ==
  [values |-> Grouped(ParsedPairs(Joined(SelectSeq(Pieces(query), SoundPiece), <<"&">>))),
   valid  |-> \A p \in Range(Pieces(query)) : SoundPiece(p)]

\* One pair of form_urlencoded::Serializer.
append_pair(p) == Escaped(p[1]) \o <<"=">> \o Escaped(p[2])

----------------------------------------------------------------------------
\* Path matchers.  '*' in a pattern is any text without a slash.
RECURSIVE glob_match(_, _)
glob_match(pat, text) ==
  IF pat = <<>> THEN text = <<>>
  ELSE IF Head(pat) = "*"
       THEN \E n \in 0..Len(text) : glob_match(Tail(pat), SubSeq(text, n + 1, Len(text)))
       ELSE text # <<>> /\ Head(pat) = Head(text) /\ glob_match(Tail(pat), Tail(text))

caddy_http_path_glob_match(pat, value) ==
  LET pp == Split(pat, Sl)
      vp == Split(value, Sl)
  IN  Len(pp) = Len(vp) /\ \A i \in DOMAIN pp : glob_match(pp[i], vp[i])

caddy_match_cleaned_path(path, pat) ==
  LET stars == {i \in DOMAIN pat : pat[i] = "*"}
      n == Len(pat)
  IN  CASE stars = {1, n} /\ n >= 2 -> Occurs(SubSeq(pat, 2, n - 1), path)
        [] stars = {1}              -> EndsWith(path, Tail(pat))
        [] stars = {n} /\ n >= 1    -> StartsWith(path, Front(pat))
        [] OTHER                    -> caddy_http_path_glob_match(pat, path)

\* The decoded, lower-cased and cleaned path, or None when it does not decode.
caddy_path_subject(path, merge) ==
  IF Decodable(path) THEN Some(clean_path_caddy(Lowered(Decoded(path)), merge)) ELSE None

\* A pattern that holds escapes is matched against a copy of the path in which
\* only the characters the pattern escapes are left escaped.
\* A wildcard that meets an escape has already stepped over all of it but its
\* last hexadecimal digit.
HexDigit == "h"
IsEscape(c) == c \in DOMAIN Decode \/ c \in {"%*", BadEscape}
WildcardStop(path, pat) ==
  IF Len(pat) = 1 THEN Len(path) + 1
  ELSE Least({i \in DOMAIN path : path[i] = pat[2] \/ (IsEscape(path[i]) /\ IsEscape(pat[2]))})

RECURSIVE HybridPath(_, _)
WildcardTakes(from, pat, stop) ==
  IF stop = 0 \/ (Head(pat) = "*" /\ ~Decodable(Before(from, stop))) THEN None
  ELSE Then(HybridPath(SubSeq(from, stop, Len(from)), Tail(pat)), LAMBDA rest :
         Some((IF Head(pat) = "*" THEN Decoded(Before(from, stop)) ELSE Before(from, stop)) \o rest))
WildcardFrom(from, pat) == WildcardTakes(from, pat, WildcardStop(from, pat))
caddy_escaped_path_wildcard(path, pat) ==
  WildcardFrom(IF IsEscape(Head(path)) THEN <<HexDigit>> \o Tail(path) ELSE path, pat)

HybridPath(path, pat) ==
  IF path = <<>> \/ pat = <<>> THEN Some(<<>>)
  ELSE IF Head(path) = BadEscape THEN None
  ELSE IF Head(pat) \in {"*", "%*"} THEN caddy_escaped_path_wildcard(path, pat)
  ELSE Then(HybridPath(Tail(path), Tail(pat)), LAMBDA rest :
         Some((CASE ~IsEscape(Head(pat)) -> Decoded(<<Head(path)>>)
                 [] IsEscape(Head(pat)) /\ IsEscape(Head(path)) -> <<Head(path)>>
                 [] OTHER                -> <<>>) \o rest))

caddy_escaped_path_match_subject(path, pat) ==
  Then(HybridPath(path, pat), LAMBDA h : Some(Lowered(h)))

HasEscape(pat) == \E i \in DOMAIN pat : pat[i] = "%*" \/ pat[i] \in DOMAIN Decode
=============================================================================
