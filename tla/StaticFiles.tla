---------------------------- MODULE StaticFiles ----------------------------
(* The decisions behind serving a file: which entry a request names, which  *)
(* representation of it is sent, which bytes of that, and under which       *)
(* status.  They are the pure part of the plain static site (Site::lookup   *)
(* and prepare_static_response) and of the Caddy-compatible file server     *)
(* (prepare_caddy_file_server_response and its filesystem twin).            *)
(*                                                                          *)
(* A path is a sequence of components.  An optional value is a sequence of  *)
(* length at most one.  A hide pattern is the set of component names its    *)
(* glob matches, or a path.  An entity tag is a number that identifies the  *)
(* content it was computed from.                                            *)
EXTENDS Integers, Sequences, FiniteSets, SequencesExt

CONSTANTS
  Decode,    \* percent_decode on the raw segments in use: name -> decoded name
  MinLength  \* EncodeConfig.min_length

Reserved == ".zeroserve"
NoneIdx == 0
Slash == "/"       \* a segment that decodes to something holding a separator
Undecodable == "!" \* a segment whose escapes are malformed

\* The members of S in the order Lt, a strict order on S.
Sorted(S, Lt(_, _)) ==
  [k \in 1..Cardinality(S) |->
     CHOOSE x \in S : Cardinality({y \in S : Lt(y, x)}) = k - 1]

Opt(cond, x) == IF cond THEN <<x>> ELSE <<>>

---------------------------------------------------------------------------
(* Paths.                                                                   *)

\* A raw path is split at '/', so it starts with an empty segment and ends
\* with one exactly when it has a trailing slash.
DirHint(raw) == Last(raw) = ""

PushSegment(acc, seg) ==
  LET d == Decode[seg] IN
  CASE ~acc.ok \/ seg = ""                -> acc
    [] d \in {Undecodable, Slash}         -> [acc EXCEPT !.ok = FALSE]
    [] d = "."                            -> acc
    [] d = ".." /\ acc.rel = <<>>         -> [acc EXCEPT !.ok = FALSE]
    [] d = ".."                           -> [acc EXCEPT !.rel = Front(@),
                                                         !.raw = Front(@)]
    [] OTHER                              -> [acc EXCEPT !.rel = Append(@, d),
                                                         !.raw = Append(@, seg)]

normalize_request_path(raw) ==
  FoldLeft(PushSegment, [ok |-> TRUE, rel |-> <<>>, raw |-> <<>>], raw)

\* join_file_path: None when a component of the joined path is "." or "..".
join_file_path(root, rel) ==
  Opt({".", ".."} \cap ToSet(root \o rel) = {}, root \o rel)

mark_parents(path) == {SubSeq(path, 1, n) : n \in 1..(Len(path) - 1)}

Directories(entries) == UNION {mark_parents(p) : p \in DOMAIN entries}

path_hidden(pat, path) ==
  /\ Len(pat) <= Len(path)
  /\ SubSeq(path, 1, Len(pat)) = pat

file_hidden(path, hide) ==
  \E pat \in hide :
    \/ pat.kind = "path" /\ path_hidden(pat.path, path)
    \/ pat.kind = "name" /\ ToSet(path) \cap pat.names # {}

\* The joined filesystem path is root \o logical, so its components include
\* the logical ones.
fs_file_hidden(root, logical, hide) == file_hidden(root \o logical, hide)

get_entry_safe(entries, path) ==
  /\ path \in DOMAIN entries
  /\ ~(Len(path) > 1 /\ path[1] = Reserved)

Suffixed(path, suffix) == [path EXCEPT ![Len(path)] = @ \o suffix]

\* Site::lookup: the entry itself, its index, and with try_html its .html
\* sibling.  The two index attempts of the code look up the same key.
lookup(entries, rel, index, tryHtml) ==
  LET html == IF rel = <<>> THEN <<>> ELSE Suffixed(rel, ".html")
      isHtml == \E n \in DOMAIN Decode : rel # <<>> /\ Last(rel) = n \o ".html"
  IN CASE get_entry_safe(entries, rel)                        -> <<rel>>
       [] get_entry_safe(entries, Append(rel, index))         -> <<Append(rel, index)>>
       [] tryHtml /\ ~isHtml /\ get_entry_safe(entries, html) -> <<html>>
       [] OTHER                                               -> <<>>

---------------------------------------------------------------------------
(* Content negotiation.  An Accept-Encoding list is a sequence of            *)
(* [enc, q], q in tenths.                                                    *)

PreferOrder(prefer, enc) ==
  IF enc \in ToSet(prefer)
  THEN Len(prefer) - CHOOSE i \in DOMAIN prefer : prefer[i] = enc
  ELSE -1

\* A stable sort by descending q, then descending preference, with q = 0
\* dropped.
Before(prefer, accept, i, j) ==
  LET p == PreferOrder(prefer, accept[i].enc)
      r == PreferOrder(prefer, accept[j].enc)
  IN \/ accept[i].q > accept[j].q
     \/ accept[i].q = accept[j].q /\ p > r
     \/ accept[i].q = accept[j].q /\ p = r /\ i < j

accepted_encodings(accept, prefer) ==
  LET kept == {i \in DOMAIN accept : accept[i].q > 0}
      order == Sorted(kept, LAMBDA i, j : Before(prefer, accept, i, j))
  IN [k \in DOMAIN order |-> accept[order[k]].enc]

FirstIn(list, S) ==
  LET hits == {k \in DOMAIN list : list[k] \in S} IN
  IF hits = {} THEN <<>>
  ELSE <<list[CHOOSE k \in hits : \A m \in hits : k <= m]>>

negotiate(accept, prefer) == FirstIn(accepted_encodings(accept, prefer), ToSet(prefer))

SidecarSuffix == [gzip |-> ".gz", br |-> ".br", zstd |-> ".zst"]

\* The first accepted and configured encoding with a sidecar file.
select_caddy_precompressed_entry(accept, order, path, files) ==
  FirstIn(accepted_encodings(accept, order),
          {enc \in ToSet(order) \cap DOMAIN SidecarSuffix :
             Suffixed(path, SidecarSuffix[enc]) \in files})

\* EncodeState::decide for a body of known length.
encode_decide(req, encoded, text, len) ==
  IF encoded \/ ~text \/ len <= MinLength THEN <<>>
  ELSE negotiate(req.accept, req.cfg.encode)

---------------------------------------------------------------------------
(* Conditional requests.  A tag list is a sequence of [k, tag, weak] with k  *)
(* one of "tag", "star" and "bad"; a date is a number, 0 meaning absent.     *)

\* Scanning stops at the first element that is not a well-formed tag.
Scanned(list) ==
  {i \in DOMAIN list : \A j \in 1..i : list[j].k # "bad"}

if_none_match_matches(list, etag) ==
  \E i \in Scanned(list) :
    list[i].k = "star" \/ (etag # NoneIdx /\ list[i].tag = etag)

if_match_condition(list, etag) ==
  \E i \in Scanned(list) :
    list[i].k = "star" \/ (list[i].tag = etag /\ ~list[i].weak)

DateCovers(date, mtime) == mtime # 0 /\ date # 0 /\ mtime <= date

not_modified_by_either(req, etag, mtime) ==
  if_none_match_matches(req.inm, etag) \/ DateCovers(req.ims, mtime)

not_modified_by_request(req, etag, mtime) ==
  IF req.inm # <<>> THEN if_none_match_matches(req.inm, etag)
  ELSE DateCovers(req.ims, mtime)

\* caddy_precondition_response: the status it answers with, or none.
caddy_precondition(req, etag, mtime) ==
  LET read == req.method \in {"GET", "HEAD"}
      stale == IF req.im # <<>> THEN ~if_match_condition(req.im, etag)
               ELSE req.ius # 0 /\ mtime # 0 /\ mtime > req.ius
      same == IF req.inm # <<>> THEN if_none_match_matches(req.inm, etag)
              ELSE read /\ DateCovers(req.ims, mtime)
  IN CASE stale         -> <<412>>
       [] same /\ read  -> <<304>>
       [] same /\ ~read -> <<412>>
       [] OTHER         -> <<>>

if_range_allows_range(req, etag, mtime) ==
  CASE req.ifrange.k = "absent" -> TRUE
    [] req.ifrange.k = "tag"    -> etag # NoneIdx /\ req.ifrange.v = etag
    [] req.ifrange.k = "date"   -> mtime # 0 /\ mtime = req.ifrange.v
    [] OTHER                    -> FALSE

---------------------------------------------------------------------------
(* Byte ranges.  A Range header is [k, parts]: k is "absent", "other" (not   *)
(* a bytes range) or "bytes"; a part is [k, a, b] with k "range" (a-b),      *)
(* "open" (a-), "suffix" (-a) or "bad".  The outcome is the status, the      *)
(* window of the file that is sent, and the Content-Range it is announced    *)
(* with: <<first, last>>, <<>> for none.                                     *)

\* What a byte range stands for, straight from its definition.
RangeBytes(p, size) ==
  {b \in 0..(size - 1) :
     CASE p.k = "suffix" -> b >= size - p.a
       [] p.k = "open"   -> b >= p.a
       [] OTHER          -> p.a <= b /\ b <= p.b}

Whole(size) == [status |-> 200, start |-> 0, len |-> size, crange |-> <<>>]
Window(start, len) ==
  [status |-> 206, start |-> start, len |-> len,
   crange |-> <<start, start + len - 1>>]
Unsatisfiable(msg) == [status |-> 416, start |-> 0, len |-> msg, crange |-> <<>>]

\* apply_static_range: the plain site's reading of the header.
apply_static_range(req, size, etag, mtime) ==
  LET p == req.range.parts[1]
      n == IF p.a > size THEN size ELSE p.a
      parsed == CASE p.k = "suffix" /\ p.a = 0 -> <<>>
                  [] p.k = "suffix" /\ p.a > 0 -> <<size - n, size - 1>>
                  [] p.k = "open"              -> <<p.a, size - 1>>
                  [] OTHER                     -> <<p.a, p.b>>
  IN IF \/ req.range.k # "bytes" \/ Len(req.range.parts) # 1
        \/ p.k = "bad" \/ ~if_range_allows_range(req, etag, mtime)
     THEN Whole(size)
     ELSE IF \/ parsed = <<>> \/ size = 0
             \/ parsed[1] >= size \/ parsed[2] < parsed[1]
     THEN Unsatisfiable(0)
     ELSE LET end == IF parsed[2] > size - 1 THEN size - 1 ELSE parsed[2]
          IN Window(parsed[1], end - parsed[1] + 1)

\* parse_byte_range_spec on one part: "bad", "beyond" or its (start, len).
ParsePart(p, size) ==
  LET n == IF p.a > size THEN size ELSE p.a
      j == IF p.b >= size THEN size - 1 ELSE p.b
  IN IF p.k = "bad"         THEN [k |-> "bad"]
     ELSE IF p.k = "suffix" THEN [k |-> "ok", s |-> size - n, n |-> n]
     ELSE IF p.a >= size    THEN [k |-> "beyond"]
     ELSE IF p.k = "open"   THEN [k |-> "ok", s |-> p.a, n |-> size - p.a]
     ELSE IF p.b < p.a      THEN [k |-> "bad"]
     ELSE [k |-> "ok", s |-> p.a, n |-> j - p.a + 1]

\* apply_caddy_range: Go's http.ServeContent without multipart bodies.  The
\* error body of a 416 has a length of its own.
MsgLen == 1
apply_caddy_range(req, size, etag, mtime) ==
  LET parsed == [i \in DOMAIN req.range.parts |-> ParsePart(req.range.parts[i], size)]
      ok == SelectSeq(parsed, LAMBDA r : r.k = "ok")
      sum == FoldLeft(LAMBDA acc, r : acc + r.n, 0, ok)
  IN IF \/ req.range.k = "absent" \/ req.method \notin {"GET", "HEAD"}
        \/ ~if_range_allows_range(req, etag, mtime)
     THEN Whole(size)
     ELSE IF req.range.k = "other" \/ \E i \in DOMAIN parsed : parsed[i].k = "bad"
     THEN Unsatisfiable(MsgLen)
     ELSE IF ok = <<>>
     THEN IF parsed = <<>> \/ size = 0 THEN Whole(size) ELSE Unsatisfiable(MsgLen)
     ELSE IF sum > size \/ Len(ok) > 1 THEN Whole(size)
     ELSE Window(ok[1].s, ok[1].n)

---------------------------------------------------------------------------
(* The file matcher.  A candidate is a path with a flag for a trailing      *)
(* slash; its k is "refused" when join_file_path rejected the path.         *)
(* stats[i] has its kind ("file", "dir" or "none"), size and mtime.          *)

StatOk(st, wantsDir, strict) ==
  st.kind # "none" /\ (strict => (st.kind = "dir") = wantsDir)

\* first_exist and first_exist_fallback: the index of the candidate chosen, 0
\* for none; an error pattern ends the search.
first_exist(cands, fallback, stats) ==
  LET ends == {i \in DOMAIN cands :
                 \/ cands[i].k = "error"
                 \/ fallback /\ i = Len(cands) /\ cands[i].k # "refused"
                 \/ StatOk(stats[i], cands[i].dir, TRUE)}
      first == CHOOSE i \in ends : \A j \in ends : i <= j
  IN IF ends = {} THEN 0 ELSE IF cands[first].k = "error" THEN -1 ELSE first

\* The replace test of the size and date policies.
Replaces(policy, cur, st) ==
  CASE policy = "largest_size"  -> IF cur = <<>> THEN st.size > 0
                                   ELSE st.size > cur[1].size
    [] policy = "smallest_size" -> cur = <<>> \/ cur[1].size = 0 \/ st.size < cur[1].size
    [] OTHER                    -> cur = <<>> \/ st.mtime > cur[1].mtime

best_match(cands, policy, stats) ==
  LET Better(acc, i) ==
        IF StatOk(stats[i], cands[i].dir, FALSE) /\ Replaces(policy, acc.cur, stats[i])
        THEN [idx |-> i, cur |-> <<stats[i]>>] ELSE acc
  IN FoldLeft(Better, [idx |-> 0, cur |-> <<>>], [i \in DOMAIN cands |-> i]).idx

caddy_file_match(cands, policy, stats) ==
  IF policy \in {"first_exist", "first_exist_fallback"}
  THEN first_exist(cands, policy = "first_exist_fallback", stats)
  ELSE best_match(cands, policy, stats)

---------------------------------------------------------------------------
(* Directory listings.                                                       *)

\* The names directly below dir, files and directories alike.
direct_children(entries, dir) ==
  {p \in DOMAIN entries \cup Directories(entries) :
     Len(p) = Len(dir) + 1 /\ SubSeq(p, 1, Len(dir)) = dir}

\* caddy_browse_items: the read limit cuts the candidates, taken in
\* descending order of name, before hidden names are dropped.  rank orders
\* the names.
caddy_browse_items(entries, dir, hide, limit, rank) ==
  LET order == Sorted(direct_children(entries, dir),
                            LAMBDA p, q : rank[Last(p)] > rank[Last(q)])
      read == IF limit = 0 \/ limit > Len(order) THEN order
              ELSE SubSeq(order, 1, limit)
  IN SelectSeq(read, LAMBDA p : ~file_hidden(<<Last(p)>>, hide))

\* caddy_browse_window and the slice bounds its callers derive from it.
caddy_browse_window(offset, limit, count) ==
  LET off == IF offset > count THEN 0 ELSE offset
      all == limit = <<>> \/ limit = <<0>> \/ limit[1] > count - off
      end == IF ~all /\ off + limit[1] < count THEN off + limit[1] ELSE count
  IN [from |-> off, to |-> end]
=============================================================================
