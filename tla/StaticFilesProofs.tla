-------------------------- MODULE StaticFilesProofs --------------------------
(* What the arithmetic of byte ranges and of listing windows yields, for    *)
(* files, ranges, offsets and limits of every size.                        *)
EXTENDS StaticFiles, TLAPS

\* A part of a Range header as the parsers hand it on.
Parts == [k : {"range", "open", "suffix", "bad"}, a : Nat, b : Nat]

\* A window is announced as what it is, lies in the file, and covers exactly
\* the bytes B.
Covers(w, size, B) ==
    /\ w.start \in Nat /\ w.len \in Nat /\ w.start + w.len <= size
    /\ w.crange = <<w.start, w.start + w.len - 1>>
    /\ \A i \in 0 .. size - 1 : i \in B <=> w.start <= i /\ i < w.start + w.len

\* A window from first to last.
LEMMA WindowCovers ==
    ASSUME NEW size \in Nat, NEW start \in Nat, NEW len \in Nat,
           start + len <= size, NEW B,
           \A i \in 0 .. size - 1 : i \in B <=> start <= i /\ i < start + len
    PROVE  Covers(Window(start, len), size, B)
BY DEF Covers, Window

\* apply_static_range (server.rs): a 206 announces and sends exactly the bytes
\* of the file that the range asks for, at least one; a 416 is sent only when
\* there are none.  Whatever the file's size and the numbers in the header.
THEOREM StaticRangeExact ==
    ASSUME NEW req, NEW size \in Nat, NEW etag, NEW mtime,
           req.range.parts[1] \in Parts,
           NEW w, w = apply_static_range(req, size, etag, mtime)
    PROVE  /\ w.status = 206 =>
                /\ Covers(w, size, RangeBytes(req.range.parts[1], size))
                /\ RangeBytes(req.range.parts[1], size) # {}
           /\ w.status = 416 => RangeBytes(req.range.parts[1], size) = {}
           /\ w.status \notin {206, 416} => w = Whole(size)
<1> DEFINE p == req.range.parts[1]
           m == IF p.a > size THEN size ELSE p.a
           parsed == CASE p.k = "suffix" /\ p.a = 0 -> <<>>
                       [] p.k = "suffix" /\ p.a > 0 -> <<size - m, size - 1>>
                       [] p.k = "open"              -> <<p.a, size - 1>>
                       [] OTHER                     -> <<p.a, p.b>>
           whole == \/ req.range.k # "bytes" \/ Len(req.range.parts) # 1
                    \/ p.k = "bad" \/ ~if_range_allows_range(req, etag, mtime)
           none == \/ parsed = <<>> \/ size = 0
                   \/ parsed[1] >= size \/ parsed[2] < parsed[1]
           end == IF parsed[2] > size - 1 THEN size - 1 ELSE parsed[2]
<1>1. w = IF whole THEN Whole(size)
          ELSE IF none THEN Unsatisfiable(0)
          ELSE Window(parsed[1], end - parsed[1] + 1)
  BY Zenon DEF apply_static_range
<1>2. /\ Whole(size).status = 200 /\ Unsatisfiable(0).status = 416
      /\ \A s, n : Window(s, n).status = 206
  BY DEF Whole, Unsatisfiable, Window
<1>3. p.a \in Nat /\ p.b \in Nat /\ p.k \in {"range", "open", "suffix", "bad"}
  BY DEF Parts
<1> HIDE DEF p
<1>4. ASSUME ~whole, none PROVE RangeBytes(p, size) = {}
  BY <1>3, <1>4 DEF RangeBytes
<1>5. ASSUME ~whole, ~none
      PROVE  /\ parsed[1] \in 0 .. size - 1 /\ end \in parsed[1] .. size - 1
             /\ \A i \in 0 .. size - 1 :
                   i \in RangeBytes(p, size) <=> parsed[1] <= i /\ i <= end
  BY <1>3, <1>5 DEF RangeBytes
<1> HIDE DEF parsed, whole, none, end
<1>6. CASE whole
  BY <1>1, <1>2, <1>6
<1>7. CASE ~whole /\ none
  BY <1>1, <1>2, <1>4, <1>7 DEF p
<1>8. CASE ~whole /\ ~none
  <2> DEFINE len == end - parsed[1] + 1
  <2>1. /\ parsed[1] \in Nat /\ len \in Nat /\ parsed[1] + len <= size
        /\ \A i \in 0 .. size - 1 :
              i \in RangeBytes(p, size) <=> parsed[1] <= i /\ i < parsed[1] + len
    BY <1>5, <1>8
  <2>2. w = Window(parsed[1], len)
    BY <1>1, <1>8
  <2> HIDE DEF len
  <2>3. Covers(w, size, RangeBytes(p, size))
    BY <2>1, <2>2, WindowCovers
  <2>4. RangeBytes(p, size) # {}
    BY <1>5, <1>8
  <2> QED
    BY <1>2, <2>2, <2>3, <2>4 DEF p
<1> QED
  BY <1>6, <1>7, <1>8

\* parse_byte_range_spec (server.rs): the window of a part that is accepted is
\* exactly the bytes of the file it asks for; a part is found to lie beyond the
\* file only when it asks for none; and a part is refused only when it is
\* malformed or its last byte precedes its first.
THEOREM CaddyPartExact ==
    ASSUME NEW size \in Nat, NEW p \in Parts, NEW r, r = ParsePart(p, size)
    PROVE  /\ r.k = "ok" => Covers(Window(r.s, r.n), size, RangeBytes(p, size))
           /\ r.k = "beyond" => RangeBytes(p, size) = {}
           /\ r.k = "bad" => p.k = "bad" \/ (p.k = "range" /\ p.b < p.a)
<1>1. p.a \in Nat /\ p.b \in Nat /\ p.k \in {"range", "open", "suffix", "bad"}
  BY DEF Parts
<1>2. CASE p.k = "bad"
  <2>1. r = [k |-> "bad"]
    BY <1>2 DEF ParsePart
  <2>2. r.k # "ok" /\ r.k # "beyond"
    BY <2>1
  <2> QED
    BY <2>2, <1>2, Zenon
<1>3. CASE p.k = "suffix"
  <2> DEFINE n == IF p.a > size THEN size ELSE p.a
  <2>1. r = [k |-> "ok", s |-> size - n, n |-> n]
    BY <1>3 DEF ParsePart
  <2>2. /\ n \in Nat /\ size - n \in Nat /\ (size - n) + n <= size
        /\ \A i \in 0 .. size - 1 :
              i \in RangeBytes(p, size) <=> size - n <= i /\ i < (size - n) + n
    BY <1>1, <1>3 DEF RangeBytes
  <2> HIDE DEF n
  <2>3. Covers(Window(size - n, n), size, RangeBytes(p, size))
    BY <2>2, WindowCovers
  <2> QED
    BY <2>1, <2>3
<1>4. CASE p.k \in {"open", "range"} /\ p.a >= size
  <2>1. r = [k |-> "beyond"]
    BY <1>4 DEF ParsePart
  <2>2. RangeBytes(p, size) = {}
    BY <1>1, <1>4 DEF RangeBytes
  <2> QED
    BY <2>1, <2>2
<1>5. CASE p.k = "open" /\ p.a < size
  <2>1. r = [k |-> "ok", s |-> p.a, n |-> size - p.a]
    BY <1>1, <1>5 DEF ParsePart
  <2>2. /\ size - p.a \in Nat /\ p.a + (size - p.a) <= size
        /\ \A i \in 0 .. size - 1 :
              i \in RangeBytes(p, size) <=> p.a <= i /\ i < p.a + (size - p.a)
    BY <1>1, <1>5 DEF RangeBytes
  <2>3. Covers(Window(p.a, size - p.a), size, RangeBytes(p, size))
    BY <1>1, <2>2, WindowCovers
  <2> QED
    BY <2>1, <2>3
<1>6. CASE p.k = "range" /\ p.a < size /\ p.b < p.a
  <2>1. r = [k |-> "bad"]
    BY <1>1, <1>6 DEF ParsePart
  <2> QED
    BY <2>1, <1>6
<1>7. CASE p.k = "range" /\ p.a < size /\ p.b >= p.a
  <2> DEFINE j == IF p.b >= size THEN size - 1 ELSE p.b
             n == j - p.a + 1
  <2>1. r = [k |-> "ok", s |-> p.a, n |-> n]
    BY <1>1, <1>7 DEF ParsePart
  <2>2. /\ n \in Nat /\ p.a + n <= size
        /\ \A i \in 0 .. size - 1 :
              i \in RangeBytes(p, size) <=> p.a <= i /\ i < p.a + n
    BY <1>1, <1>7 DEF RangeBytes
  <2> HIDE DEF n
  <2>3. Covers(Window(p.a, n), size, RangeBytes(p, size))
    BY <1>1, <2>2, WindowCovers
  <2> QED
    BY <2>1, <2>3
<1> QED
  BY <1>1, <1>2, <1>3, <1>4, <1>5, <1>6, <1>7

\* caddy_browse_window (server.rs): the slice a listing takes of its items is
\* in bounds for every offset, limit and number of items, and it is as long as
\* the limit allows.
THEOREM BrowseWindowInBounds ==
    ASSUME NEW offset \in Nat, NEW limit \in {<<>>} \cup {<<n>> : n \in Nat},
           NEW count \in Nat, NEW w, w = caddy_browse_window(offset, limit, count)
    PROVE  /\ w.from \in 0 .. w.to /\ w.to \in 0 .. count
           /\ limit # <<>> /\ limit[1] # 0 => w.to - w.from <= limit[1]
           /\ offset <= count => w.from = offset
           /\ w.to < count => w.to - w.from = limit[1]
<1> DEFINE off == IF offset > count THEN 0 ELSE offset
           all == limit = <<>> \/ limit = <<0>> \/ limit[1] > count - off
           end == IF ~all /\ off + limit[1] < count THEN off + limit[1] ELSE count
<1>1. w = [from |-> off, to |-> end]
  BY Zenon DEF caddy_browse_window
<1>2. off \in 0 .. count /\ (offset <= count => off = offset)
  OBVIOUS
<1> HIDE DEF off
<1>3. CASE limit = <<>>
  BY <1>1, <1>2, <1>3
<1>4. CASE limit # <<>>
  <2>1. limit[1] \in Nat /\ limit = <<limit[1]>>
    BY <1>4
  <2>2. limit = <<0>> <=> limit[1] = 0
    BY <2>1
  <2>3. all <=> limit[1] = 0 \/ limit[1] > count - off
    BY <2>2, <1>4, Zenon
  <2> HIDE DEF all
  <2> QED
    BY <1>1, <1>2, <1>4, <2>1, <2>3
<1> QED
  BY <1>3, <1>4
=============================================================================
