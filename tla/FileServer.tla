---------------------------- MODULE FileServer ----------------------------
(* Requests for files, from the script that picks the file server to the   *)
(* last byte: the decision taken while the script runs (pass_thru, file     *)
(* matcher), the preparation against the site that is current afterwards,   *)
(* the response head, the reads that stream the body, and the per-thread    *)
(* cache of tarball handles.  Meanwhile hot reloads replace the site, the   *)
(* exposed filesystem changes and clients go away.                          *)
(*                                                                          *)
(* A site generation is a function from paths to [size, mtime, etag, text]. *)
(* Its Arc<Site> lives at an address: the allocator reuses an address once   *)
(* nothing, weak references included, points at it.                         *)
EXTENDS StaticFiles

CONSTANTS
  Slots,       \* connections of one worker, each serving one request
  Workloads,   \* slot -> the request it receives, optional
  Sites,       \* the generations, in the order reloads install them
  Addrs,       \* addresses for Arc<Site>
  FsRoot,      \* components of the file server's absolute root
  FsTree,      \* the files and directories below it: path -> kind
  Disks,       \* [size, mtime] states the one file FsFile can be in
  FsFile,
  ChunkSize,
  MaxDisk,     \* bound on filesystem changes
  Rank         \* order of names in a listing: name -> number

VARIABLES
  cur,    \* address of the site in SharedState
  heap,   \* address -> generation, 0 when never used
  gen,    \* the generation last installed
  cache,  \* TAR_FILE_CACHE: set of [addr, fd], fd the generation opened
  disk,   \* [ino, rev, there, size, mtime] of FsFile, rev counting changes
  gone,   \* slots whose client has disconnected
  work,   \* slot -> the request it is still to receive
  slot    \* slot -> request in progress

fileVars == <<cur, heap, gen, cache, disk, gone, work, slot>>

Idle == [pc |-> "idle", req |-> <<>>, addr |-> 0, gen |-> 0, dgen |-> 0,
         ddisk |-> 0, resp |-> <<>>, fd |-> 0, ino |-> 0, off |-> 0, left |-> 0,
         sent |-> <<>>, out |-> "none", matched |-> 0]

Busy == {"script", "prepare", "head", "open", "read"}
StrongAt(a) == cur = a \/ \E s \in Slots : slot[s].addr = a /\ slot[s].pc \in Busy
\* Weak<Site> keeps the allocation, so a cached address cannot be reused.
FreeAddrs ==
  {a \in Addrs : ~StrongAt(a) /\ \A c \in cache : c.addr # a}

Path(r) == normalize_request_path(r.path)
\* The path a script's helpers see.  It is the request's own until the error
\* routes restore the URI and leave it behind.
Seen(r) == normalize_request_path(r.seen)
\* The serving side normalises the configured root like a request's path, the
\* matcher side only knows "." and takes anything else as written.
normalize_caddy_file_root(root) == normalize_request_path(root)
caddy_file_matcher_root(root) == IF root = <<".">> THEN <<>> ELSE root
Basename(raw) ==
  LET segs == SelectSeq(raw, LAMBDA x : x # "") IN
  IF segs = <<>> THEN "/" ELSE Last(segs)
caddy_canonical_redirect_allowed(r) == Basename(r.orig) = Basename(r.path)
OrigSlash(r) == Last(r.orig) = ""
OrigRoot(r) == \A i \in DOMAIN r.orig : r.orig[i] = ""

---------------------------------------------------------------------------
(* Responses.                                                              *)

Response(status, src, path, body) ==
  [status |-> status, src |-> src, path |-> path, logical |-> path,
   start |-> body.start, len |-> body.len, size |-> body.len,
   crange |-> body.crange, declared |-> <<body.len>>, enc |-> "",
   chunked |-> FALSE, headOnly |-> FALSE, etag |-> NoneIdx, text |-> TRUE]

Bodyless == [start |-> 0, len |-> 0, crange |-> <<>>]
Message == [start |-> 0, len |-> MsgLen, crange |-> <<>>]
Text(status) == Response(status, "mem", <<>>, Message)
NotFound == Text(404)
redirect_static_response ==
  [Response(308, "mem", <<>>, Bodyless) EXCEPT !.headOnly = TRUE]

\* Entry selection of prepare_caddy_file_server_response over a tarball.
FirstIndex(rel, cfg, shown) ==
  FirstIn([i \in DOMAIN cfg.index |-> Append(rel, cfg.index[i])], shown)
Unhidden(files, hide) == {p \in files : ~file_hidden(p, hide)}

SafeEntries(entries) == {p \in DOMAIN entries : get_entry_safe(entries, p)}
Pick(k, path, implicit) == [k |-> k, path |-> path, implicit |-> implicit]

select_tar(r, entries) ==
  LET cfg == r.cfg
      root == normalize_caddy_file_root(cfg.root)
      rel == join_file_path(root.rel, Path(r).rel)
      files == SafeEntries(entries)
      index == FirstIndex(rel[1], cfg, Unhidden(files, cfg.hide))
      none == Pick("none", <<>>, FALSE)
      Shown(p, implicit) == IF file_hidden(p, cfg.hide) THEN none
                            ELSE Pick("file", p, implicit)
  IN IF ~root.ok \/ rel = <<>> THEN none
     ELSE IF rel[1] \in files THEN Shown(rel[1], FALSE)
     ELSE IF ~(rel[1] \in Directories(entries) \/ DirHint(r.path) \/ rel[1] = <<>>)
     THEN none
     ELSE IF index # <<>> THEN Shown(index[1], TRUE)
     ELSE IF cfg.browse /\ ~file_hidden(rel[1], cfg.hide)
     THEN Pick("dir", rel[1], FALSE)
     ELSE none

\* The same over the filesystem, where metadata decides what is a directory
\* and an error other than "not found" is an answer of its own.
FsKind(path) ==
  IF path \in DOMAIN FsTree /\ (path = FsFile => disk.there) THEN FsTree[path]
  ELSE "none"
FsFiles == {p \in DOMAIN FsTree : FsKind(p) = "file"}
FsUnhidden(hide) == {p \in FsFiles : ~fs_file_hidden(FsRoot, p, hide)}

select_fs(r) ==
  LET cfg == r.cfg
      rel == Path(r).rel
      index == FirstIndex(rel, cfg, FsUnhidden(cfg.hide))
      hidden(p) == fs_file_hidden(FsRoot, p, cfg.hide)
      none == Pick("none", <<>>, FALSE)
  IN CASE FsKind(rel) = "none"   -> none
       [] FsKind(rel) = "denied" -> Pick("denied", <<>>, FALSE)
       [] FsKind(rel) = "file"   -> IF hidden(rel) THEN none ELSE Pick("file", rel, FALSE)
       [] index # <<>>           -> IF hidden(index[1]) THEN none
                                    ELSE Pick("file", index[1], TRUE)
       [] OTHER                  -> IF cfg.browse /\ ~hidden(rel)
                                    THEN Pick("dir", rel, FALSE) ELSE none

\* The redirects that keep directories and files apart in the URI.
redirects(r, pick) ==
  IF pick.k = "dir"
  THEN caddy_canonical_redirect_allowed(r) /\ ~OrigSlash(r)
  ELSE /\ r.cfg.canonical
       /\ caddy_canonical_redirect_allowed(r)
       /\ \/ pick.implicit /\ ~OrigSlash(r)
          \/ ~pick.implicit /\ OrigSlash(r) /\ ~OrigRoot(r)

useful_mod_time(mtime) == mtime \notin {0, 1}

\* prepare_static_entry_response and prepare_fs_entry_response: sidecar,
\* preconditions, range, configured status.
EntryResponse(r, src, path, enc, body, at, etag, pre, rng) ==
  LET status == IF r.cfg.status # 0 THEN r.cfg.status
                ELSE IF r.errStatus # 0 THEN r.errStatus ELSE 200
      final == IF status # 200 THEN status ELSE rng.status
  IN IF pre # <<>>
     THEN [Response(IF status = 200 THEN pre[1] ELSE status, "mem", <<>>, Bodyless)
             EXCEPT !.headOnly = TRUE, !.etag = etag]
     ELSE IF rng.status = 416
     THEN [Response(final, "mem", <<>>, rng) EXCEPT !.headOnly = r.method = "HEAD"]
     ELSE [Response(final, src, body, rng)
             EXCEPT !.headOnly = r.method = "HEAD", !.etag = etag, !.size = at.size,
                    !.logical = path, !.text = at.text,
                    !.enc = IF enc = <<>> THEN "" ELSE enc[1]]
\* A modification time that cannot be one gives neither a tag nor a date.
ConditionalResponse(r, src, path, enc, body, at) ==
  LET valid == useful_mod_time(at.mtime)
      etag == IF valid THEN at.etag ELSE NoneIdx
      mtime == IF valid THEN at.mtime ELSE 0
  IN EntryResponse(r, src, path, enc, body, at, etag,
                   IF valid THEN caddy_precondition(r, etag, mtime) ELSE <<>>,
                   apply_caddy_range(r, at.size, etag, mtime))
EncodedEntry(r, src, path, enc, attrs) ==
  LET body == IF enc = <<>> THEN path ELSE Suffixed(path, SidecarSuffix[enc[1]])
  IN ConditionalResponse(r, src, path, enc, body, attrs[body])
prepare_entry(r, src, path, attrs, files) ==
  EncodedEntry(r, src, path, select_caddy_precompressed_entry(r.accept, r.cfg.precompressed, path, files), attrs)

prepare_static_entry_response(r, entries, path) ==
  prepare_entry(r, "tar", path, entries, SafeEntries(entries))

FsAttrs ==
  [p \in FsFiles |->
     IF p = FsFile THEN [size |-> disk.size, mtime |-> disk.mtime, text |-> TRUE,
                         etag |-> 1000 + 10 * disk.mtime + disk.size]
     ELSE [size |-> 1, mtime |-> 5, text |-> TRUE, etag |-> 999]]

prepare_fs_entry_response(r, path) ==
  prepare_entry(r, "fs", path, FsAttrs, FsFiles)

\* A listing.  Its window could slice out of bounds.  It has no entity tag and
\* is revalidated by the newest date in it alone.
prepare_browse(r, items, dates) ==
  LET w == caddy_browse_window(r.offset, r.limit, Len(items))
      inBounds == 0 <= w.from /\ w.from <= w.to /\ w.to <= Len(items)
      Listing(status, len) ==
        [Response(status, "listing", <<>>, [Bodyless EXCEPT !.len = len])
           EXCEPT !.headOnly = r.method = "HEAD"]
  IN IF ~inBounds THEN Text(0)
     ELSE IF DateCovers(r.ims, Max({0} \cup dates)) THEN Listing(304, 0)
     ELSE Listing(200, w.to - w.from)

\* The archives hold files only, so a directory in them has no date.
prepare_caddy_browse_response(r, entries, dir) ==
  LET items == caddy_browse_items(entries, dir, r.cfg.hide, r.cfg.fileLimit, Rank)
  IN prepare_browse(r, items, {entries[p].mtime : p \in ToSet(items) \cap DOMAIN entries})

caddy_fs_browse_items(dir, hide) ==
  Sorted({p \in DOMAIN FsTree : /\ Len(p) = Len(dir) + 1
                                /\ SubSeq(p, 1, Len(dir)) = dir
                                /\ ~file_hidden(<<Last(p)>>, hide)},
         LAMBDA p, q : Rank[Last(p)] > Rank[Last(q)])

\* Replacing or removing a file dates the directory that holds it.
FsDate(p) == IF p \in FsFiles THEN FsAttrs[p].mtime
             ELSE IF p = Front(FsFile) THEN 4 + disk.ino ELSE 5

\* A directory that can be examined but not read is an answer of its own.
ReadDirError == [locked |-> 403, broken |-> 500]
prepare_caddy_fs_browse_response(r, dir) ==
  LET items == caddy_fs_browse_items(dir, r.cfg.hide) IN
  IF FsKind(dir) \in DOMAIN ReadDirError THEN Text(ReadDirError[FsKind(dir)])
  ELSE prepare_browse(r, items, {FsDate(p) : p \in ToSet(items) \cup {dir}})

\* The dispatch after selection, and the method check of the file server's
\* caller (an error route's file server takes any method).
respond_with(r, pick, file, listing) ==
  CASE pick.k = "none"    -> NotFound
    [] pick.k = "denied"  -> Text(403)
    [] redirects(r, pick) -> redirect_static_response
    [] pick.k = "dir"     -> listing
    [] r.method \notin {"GET", "HEAD"} /\ r.errStatus = 0 -> Text(405)
    [] OTHER              -> file

prepare_caddy_file_server_response(r, entries) ==
  LET pick == select_tar(r, entries) IN
  respond_with(r, pick, prepare_static_entry_response(r, entries, pick.path),
               prepare_caddy_browse_response(r, entries, pick.path))

prepare_caddy_fs_file_server_response(r) ==
  LET pick == select_fs(r) IN
  respond_with(r, pick, prepare_fs_entry_response(r, pick.path),
               prepare_caddy_fs_browse_response(r, pick.path))

\* The plain site.  A templated page is rendered in memory, without
\* validators or ranges.
prepare_static_response(r, entries) ==
  LET hit == lookup(entries, Path(r).rel, r.cfg.index[1], r.cfg.tryHtml)
      at == entries[hit[1]]
      rng == apply_static_range(r, at.size, at.etag, at.mtime)
      head == r.method = "HEAD"
  IN IF hit = <<>> THEN NotFound
     ELSE IF r.cfg.template /\ at.text
     THEN [Response(200, "mem", hit[1], Whole(at.size)) EXCEPT !.headOnly = head]
     ELSE IF not_modified_by_request(r, at.etag, at.mtime)
     THEN [Response(304, "mem", <<>>, Bodyless) EXCEPT !.headOnly = TRUE, !.etag = at.etag]
     ELSE [Response(rng.status, "tar", hit[1], rng)
             EXCEPT !.headOnly = head, !.etag = at.etag, !.size = at.size]

AllowsBody(status) == status \notin {204, 304}

\* Compression is decided last, from the response as it stands.  A range is
\* never compressed, HTTP/2 skips the decision for HEAD, and the plain site is
\* sent without it.
encoded(r, resp) ==
  LET ranged == resp.src \in {"tar", "fs"} /\ (resp.crange # <<>> \/ resp.status = 416)
      chosen == encode_decide(r, resp.enc # "", resp.text, resp.len)
  IN IF \/ r.cfg.encode = <<>> \/ ~AllowsBody(resp.status) \/ ranged
        \/ chosen = <<>> \/ (r.proto = "h2" /\ resp.headOnly)
        \/ r.cfg.kind = "static"
     THEN resp
     ELSE [resp EXCEPT !.enc = chosen[1], !.declared = <<>>, !.chunked = TRUE, !.etag = NoneIdx]

---------------------------------------------------------------------------
(* The pass_thru decision, taken while the script runs.                     *)

would_handle_ignoring_hide(r, entries) ==
  Seen(r).rel \in DOMAIN entries \cup Directories(entries)

caddy_tar_file_server_would_handle(r, entries) ==
  LET cfg == r.cfg
      rel == join_file_path(caddy_file_matcher_root(cfg.root), Seen(r).rel)
      index == FirstIndex(rel[1], cfg, Unhidden(DOMAIN entries, cfg.hide))
  IN IF rel = <<>> THEN FALSE
     ELSE IF rel[1] \in DOMAIN entries THEN ~file_hidden(rel[1], cfg.hide)
     ELSE IF rel[1] \notin Directories(entries) /\ Seen(r).rel # <<>> THEN FALSE
     ELSE index # <<>> \/ (cfg.browse /\ ~file_hidden(rel[1], cfg.hide))

\* An index keeps the directory's logical path for the final hide test.
caddy_fs_file_server_would_handle(r) ==
  LET cfg == r.cfg
      rel == Seen(r).rel
      index == FirstIndex(rel, cfg, FsUnhidden(cfg.hide))
      hidden(p) == fs_file_hidden(FsRoot, p, cfg.hide)
  IN CASE FsKind(rel) = "none"   -> FALSE
       [] FsKind(rel) = "denied" -> TRUE
       [] FsKind(rel) = "file"   -> ~hidden(rel)
       [] index # <<>>           -> ~hidden(rel) /\ ~hidden(index[1])
       [] OTHER                  -> cfg.browse /\ ~hidden(rel)

would_handle(r, entries) ==
  IF r.cfg.kind = "fs" THEN caddy_fs_file_server_would_handle(r)
  ELSE caddy_tar_file_server_would_handle(r, entries)

\* caddy_file_matcher_stat on a tarball.
tar_stat(entries, path) ==
  IF path \in DOMAIN entries
  THEN [kind |-> "file", size |-> entries[path].size, mtime |-> entries[path].mtime]
  ELSE [kind |-> IF path \in Directories(entries) THEN "dir" ELSE "none",
        size |-> 0, mtime |-> 0]

\* The candidates of the matcher's try_files, with the request's path filled in.
Joined(cand, root, rel) ==
  LET full == join_file_path(root, rel) IN
  IF cand.k = "error" THEN cand
  ELSE IF full = <<>> THEN [cand EXCEPT !.k = "refused", !.path = <<>>]
  ELSE [cand EXCEPT !.k = "path", !.path = full[1]]
candidates(r) ==
  [i \in DOMAIN r.cfg.try |->
     LET cand == r.cfg.try[i] IN
     Joined(cand, caddy_file_matcher_root(r.cfg.root),
            (IF cand.k = "uri" THEN Path(r).rel ELSE <<>>) \o cand.path)]

matched(r, entries) ==
  LET stats == [i \in DOMAIN r.cfg.try |->
                  IF candidates(r)[i].k = "refused" THEN [kind |-> "none"]
                  ELSE tar_stat(entries, candidates(r)[i].path)] IN
  IF r.cfg.try = <<>> THEN 0
  ELSE caddy_file_match(candidates(r), r.cfg.policy, stats)

\* A match rewrites the request to the candidate's path below the root.
rewritten(r, i) ==
  LET full == candidates(r)[i].path
      to == <<"">> \o SubSeq(full, Len(caddy_file_matcher_root(r.cfg.root)) + 1, Len(full))
  IN IF i <= 0 THEN r ELSE [r EXCEPT !.path = to, !.seen = to]
---------------------------------------------------------------------------
(* The state machine.                                                      *)

FileInit ==
  /\ gen = 1
  /\ cur = CHOOSE a \in Addrs : TRUE
  /\ heap = [a \in Addrs |-> IF a = cur THEN 1 ELSE 0]
  /\ cache = {}
  /\ \E d \in Disks :
       disk = [ino |-> 1, rev |-> 0, there |-> TRUE, size |-> d.size, mtime |-> d.mtime]
  /\ gone = {}
  /\ work \in Workloads
  /\ slot = [s \in Slots |-> Idle]

Goto(s, rec) == slot' = [slot EXCEPT ![s] = rec]

\* A request arrives; run_request clones the current site for the script.
Arrive(s) ==
  /\ slot[s].pc = "idle"
  /\ work[s] # <<>>
  /\ LET ok == Path(work[s][1]).ok IN
     Goto(s, [Idle EXCEPT !.pc = IF ok THEN "script" ELSE "done",
                          !.out = IF ok THEN "none" ELSE "refused",
                          !.req = work[s], !.addr = cur, !.gen = heap[cur]])
  /\ UNCHANGED <<cur, heap, gen, cache, disk, gone, work>>

\* The script: the file matcher, then h_file_server with its pass_thru test.
Decide(s) ==
  LET r == slot[s].req[1]
      entries == Sites[slot[s].gen]
      m == matched(r, entries)
      rw == rewritten(r, m)
      pass == m = -1 \/ (r.cfg.passThru /\ ~would_handle(rw, entries))
  IN /\ slot[s].pc = "script"
     /\ Goto(s, [slot[s] EXCEPT !.pc = IF pass THEN "done" ELSE "prepare",
                                !.out = IF pass THEN "passed" ELSE "none",
                                !.req = <<rw>>, !.matched = m,
                                !.dgen = slot[s].gen, !.ddisk = disk.ino])
     /\ UNCHANGED <<cur, heap, gen, cache, disk, gone, work>>

\* The preparation loads the site again: a reload may have come in between.
Prepared(s, proto, resp) ==
  /\ slot[s].pc = "prepare"
  /\ slot[s].req[1].proto = proto
  /\ Goto(s, [slot[s] EXCEPT !.pc = "head", !.addr = cur, !.gen = heap[cur],
                             !.resp = <<encoded(slot[s].req[1], resp)>>])
  /\ UNCHANGED <<cur, heap, gen, cache, disk, gone, work>>

Kind(s) == slot[s].req[1].cfg.kind
serve_caddy(s, proto) ==
  LET r == slot[s].req[1] IN
  \/ /\ slot[s].pc = "prepare" /\ Kind(s) = "tar"
     /\ Prepared(s, proto, prepare_caddy_file_server_response(r, Sites[heap[cur]]))
  \/ /\ slot[s].pc = "prepare" /\ Kind(s) = "fs"
     /\ Prepared(s, proto, prepare_caddy_fs_file_server_response(r))
serve_caddy_file_server_h1(s) == serve_caddy(s, "h1")
serve_caddy_file_server_h2(s) == serve_caddy(s, "h2")

serve_plain(s, proto) ==
  /\ slot[s].pc = "prepare" /\ Kind(s) = "static"
  /\ Prepared(s, proto, prepare_static_response(slot[s].req[1], Sites[heap[cur]]))
serve_static(s) == serve_plain(s, "h1")
serve_static_h2(s) == serve_plain(s, "h2")

Finish(s, how) == Goto(s, [slot[s] EXCEPT !.pc = "done", !.out = how])

\* The head goes out; a response without a body on the wire is complete.
SendHead(s, proto) ==
  LET resp == slot[s].resp[1] IN
  /\ slot[s].pc = "head"
  /\ slot[s].req[1].proto = proto
  /\ IF resp.headOnly \/ ~AllowsBody(resp.status) THEN Finish(s, "kept")
     ELSE IF resp.src \in {"mem", "listing"}
     THEN Goto(s, [slot[s] EXCEPT !.pc = "done", !.out = "kept",
                                  !.sent = [i \in 1..resp.len |-> i - 1]])
     ELSE Goto(s, [slot[s] EXCEPT !.pc = "open", !.off = resp.start, !.left = resp.len])
  /\ UNCHANGED <<cur, heap, gen, cache, disk, gone, work>>

send_prepared_static_response_h1(s) == SendHead(s, "h1")
send_prepared_static_response_h2(s) == SendHead(s, "h2")

\* get_tar_file: drop the handles of dead sites, reuse the one cached for this
\* address, else clone the site's own.
Live(entries) == {c \in entries : StrongAt(c.addr)}
get_tar_file(s) ==
  LET hits == {c \in Live(cache) : c.addr = slot[s].addr} IN
  IF hits # {} THEN CHOOSE c \in hits : TRUE
  ELSE [addr |-> slot[s].addr, fd |-> slot[s].gen]

\* An error that is not the client's: the h1 connection is shut down, the h2
\* stream is reset.
Abort(s) == IF slot[s].req[1].proto = "h1" THEN "closed" ELSE "reset"

Open(s) ==
  LET resp == slot[s].resp[1] IN
  /\ slot[s].pc = "open"
  /\ UNCHANGED <<cur, heap, gen, disk, gone, work>>
  /\ IF resp.src = "tar"
     THEN /\ cache' = Live(cache) \cup {get_tar_file(s)}
          /\ Goto(s, [slot[s] EXCEPT !.pc = "read", !.fd = get_tar_file(s).fd])
     ELSE /\ UNCHANGED cache
          /\ IF resp.logical = FsFile /\ ~disk.there
             THEN Finish(s, Abort(s))
             ELSE Goto(s, [slot[s] EXCEPT !.pc = "read", !.ino = disk.ino])

Min2(a, b) == IF a < b THEN a ELSE b

\* What one read can return: at most a chunk, at most what the file holds.  A
\* handle whose inode was replaced still sees the old file; one whose file was
\* truncated sees the new size.
Available(s) ==
  LET resp == slot[s].resp[1] IN
  IF resp.src = "tar" \/ slot[s].ino # disk.ino \/ resp.logical # FsFile
  THEN resp.size - slot[s].off
  ELSE disk.size - slot[s].off

\* A tarball entry to be compressed is read whole, anything else in chunks.
ReadSizes(s, available) ==
  IF slot[s].resp[1].chunked /\ slot[s].resp[1].src = "tar"
  THEN {n \in {slot[s].left} : n <= available}
  ELSE 1..Min2(Min2(ChunkSize, slot[s].left), available)

Read(s) ==
  /\ slot[s].pc = "read"
  /\ slot[s].left > 0
  /\ s \notin gone
  /\ \E n \in ReadSizes(s, Available(s)) :
       Goto(s, [slot[s] EXCEPT !.off = @ + n, !.left = @ - n,
                !.sent = @ \o [i \in 1..n |-> slot[s].off + i - 1]])
  /\ UNCHANGED <<cur, heap, gen, cache, disk, gone, work>>

ShortReadKept(s) ==
  /\ slot[s].pc = "read"
  /\ slot[s].left > 0
  /\ Available(s) <= 0
  /\ Finish(s, "kept")
  /\ UNCHANGED <<cur, heap, gen, cache, disk, gone, work>>

\* The loops that read and write, by source, framing and protocol.
Streams(s, src, proto, chunked) ==
  /\ slot[s].pc = "read"
  /\ slot[s].resp[1].src = src
  /\ slot[s].req[1].proto = proto
  /\ slot[s].resp[1].chunked = chunked
  /\ Read(s)
InPart(s) == slot[s].pc = "read" /\ slot[s].resp[1].crange # <<>>
stream_tar_entry(s) == ~InPart(s) /\ Streams(s, "tar", "h1", FALSE)
stream_tar_entry_range(s) == InPart(s) /\ Streams(s, "tar", "h1", FALSE)
stream_fs_file(s) == Streams(s, "fs", "h1", FALSE)
stream_tar_entry_h2(s) == Streams(s, "tar", "h2", FALSE)
stream_fs_file_h2(s) == Streams(s, "fs", "h2", FALSE)
write_static_body_compressed_h1(s) ==
  Streams(s, "tar", "h1", TRUE) \/ Streams(s, "fs", "h1", TRUE)
write_static_body_compressed_h2(s) ==
  Streams(s, "tar", "h2", TRUE) \/ Streams(s, "fs", "h2", TRUE)

\* An empty read before the announced length.
ShortRead(s) ==
  /\ slot[s].pc = "read"
  /\ slot[s].left > 0
  /\ Available(s) <= 0
  /\ Finish(s, Abort(s))
  /\ UNCHANGED <<cur, heap, gen, cache, disk, gone, work>>

ReadDone(s) ==
  /\ slot[s].pc = "read"
  /\ slot[s].left = 0
  /\ Finish(s, "kept")
  /\ UNCHANGED <<cur, heap, gen, cache, disk, gone, work>>

\* A write fails with a reset or a broken pipe: on h1 the error is swallowed
\* and the connection counts as kept, its client being gone.  The compressed
\* writer turns it into an error of another kind, which is not swallowed.
WriteFails(s) ==
  /\ slot[s].pc = "read"
  /\ slot[s].left > 0
  /\ s \in gone
  /\ Finish(s, IF slot[s].req[1].proto = "h1" /\ ~slot[s].resp[1].chunked
                THEN "kept" ELSE Abort(s))
  /\ UNCHANGED <<cur, heap, gen, cache, disk, gone, work>>

ClientLeaves(s) ==
  /\ slot[s].pc = "read"
  /\ s \notin gone
  /\ gone' = gone \cup {s}
  /\ UNCHANGED <<cur, heap, gen, cache, disk, work, slot>>

\* A hot reload allocates the new site and swaps it in.
ReloadSite ==
  /\ gen < Len(Sites)
  /\ gen' = gen + 1
  /\ \E a \in FreeAddrs :
       /\ cur' = a
       /\ heap' = [heap EXCEPT ![a] = gen + 1]
  /\ UNCHANGED <<cache, disk, gone, work, slot>>

\* The exposed file is truncated or extended in place, or replaced or removed.
\* Only a workload that reads it tells its states apart.
FsInPlay == \E s \in Slots : work[s] # <<>> /\ work[s][1].cfg.kind = "fs"

DiskChange ==
  /\ FsInPlay
  /\ disk.there
  /\ disk.rev + disk.ino < MaxDisk
  /\ \E d \in Disks :
       disk' = [disk EXCEPT !.rev = @ + 1, !.size = d.size, !.mtime = d.mtime]
  /\ UNCHANGED <<cur, heap, gen, cache, gone, work, slot>>

DiskReplace ==
  /\ FsInPlay
  /\ disk.rev + disk.ino < MaxDisk
  /\ \E d \in Disks, there \in BOOLEAN :
       disk' = [disk EXCEPT !.ino = @ + 1, !.there = there, !.size = d.size,
                            !.mtime = d.mtime]
  /\ UNCHANGED <<cur, heap, gen, cache, gone, work, slot>>

Serve(s) ==
  \/ serve_caddy_file_server_h1(s) \/ serve_caddy_file_server_h2(s)
  \/ serve_static(s) \/ serve_static_h2(s)
Stream(s) ==
  \/ stream_tar_entry(s) \/ stream_tar_entry_range(s) \/ stream_fs_file(s)
  \/ stream_tar_entry_h2(s) \/ stream_fs_file_h2(s)
  \/ write_static_body_compressed_h1(s) \/ write_static_body_compressed_h2(s)
FileStep(s) ==
  \/ Decide(s) \/ Serve(s)
  \/ send_prepared_static_response_h1(s) \/ send_prepared_static_response_h2(s)
  \/ Open(s) \/ Stream(s) \/ ShortRead(s) \/ ReadDone(s) \/ WriteFails(s)

\* Every other action happens finitely often, so a request that can neither
\* proceed nor fail shows up as a deadlock.
FileQuiet ==
  /\ \A s \in Slots : slot[s].pc = "done" \/ work[s] = <<>>
  /\ UNCHANGED fileVars

FileNext ==
  \/ \E s \in Slots : Arrive(s) \/ FileStep(s) \/ ClientLeaves(s)
  \/ ReloadSite \/ DiskChange \/ DiskReplace \/ FileQuiet

FileSpec == FileInit /\ [][FileNext]_fileVars

---------------------------------------------------------------------------
(* Properties.                                                             *)

Responded(s) == slot[s].resp # <<>>
Complete(s) == slot[s].out = "kept" /\ s \notin gone /\ Responded(s)
OnWire(resp) == ~resp.headOnly /\ AllowsBody(resp.status)

\* A connection that stays usable carried exactly the body its head announced:
\* Content-Length bytes, or for a chunked body all of it before the last chunk.
\* Files that shrink, vanish or are replaced between stat, open and read end
\* the connection or the stream instead.
Framed ==
  \A s \in Slots : Complete(s) =>
    LET resp == slot[s].resp[1] IN
    Len(slot[s].sent) = IF ~OnWire(resp) THEN 0
                        ELSE IF resp.chunked THEN resp.len ELSE resp.declared[1]

\* The bytes of a tarball entry are read through a handle on the very archive
\* whose index located the entry, however many reloads reused memory since.
OwnArchive ==
  \A s \in Slots :
    (slot[s].pc = "read" /\ slot[s].resp[1].src = "tar") => slot[s].fd = slot[s].gen

\* A partial response carries exactly the bytes of the one satisfiable range
\* that was asked for, in order, from both range parsers.
RangeExact ==
  \A s \in Slots : Complete(s) =>
    LET resp == slot[s].resp[1]
        r == slot[s].req[1]
        asked == {i \in DOMAIN r.range.parts : r.range.parts[i].k = "suffix"
                                              \/ r.range.parts[i].a < resp.size}
    IN (resp.crange # <<>> /\ OnWire(resp)) =>
       \E i \in asked :
         slot[s].sent = Sorted(RangeBytes(r.range.parts[i], resp.size), <)

\* A body comes from the file the request names or from the sidecar of that
\* file in a configured encoding, wherever it is kept.  No hide pattern covers
\* that file, and neither it nor its sidecar lies outside the configured root
\* or in the reserved script directory.  A hide pattern is not applied to the
\* sidecar itself (server/caddy.rs:1950-1982).
OnlyPublished ==
  \A s \in Slots :
    LET resp == slot[s].resp[1]
        cfg == slot[s].req[1].cfg
        root == normalize_caddy_file_root(cfg.root).rel
    IN (Responded(s) /\ resp.path # <<>>) =>
       /\ ~file_hidden((IF resp.src = "fs" THEN FsRoot ELSE <<>>) \o resp.logical, cfg.hide)
       /\ \/ resp.path = resp.logical
          \/ \E enc \in ToSet(cfg.precompressed) :
               resp.path = Suffixed(resp.logical, SidecarSuffix[enc])
       /\ resp.src # "fs" =>
            \A p \in {resp.path, resp.logical} :
              /\ SubSeq(p, 1, Len(root)) = root
              /\ ~(Len(p) > 1 /\ p[1] = Reserved)

\* The site and the file are the ones the pass_thru decision saw.
SameWorld(s) == slot[s].dgen = slot[s].gen /\ slot[s].ddisk = disk.ino
\* Both sides look for the same path below the same directory.  They do not when
\* the root is written with "." or ".." components or with escapes, which only
\* the serving side resolves (server/caddy.rs:2902-2908 against
\* helpers/caddy.rs:2096-2107), or when an error route runs after a rewrite and
\* the decision reads the rewritten path (script.rs:629-640).
SameQuestion(r) ==
  /\ caddy_file_matcher_root(r.cfg.root) = normalize_caddy_file_root(r.cfg.root).rel
  /\ Seen(r).rel = Path(r).rel
\* pass_thru is decided by a second implementation of the lookup.  While the
\* site and the file are the ones the decision saw and both sides look for the
\* same path, a request the decision kept is not answered "not found" (an error
\* route may send a file under the status 404), except below the reserved
\* directory, which only the serving side filters.
KeptIsServed ==
  \A s \in Slots :
    LET r == slot[s].req[1] IN
    (Responded(s) /\ slot[s].pc = "head" /\ r.cfg.passThru /\ SameWorld(s)
       /\ SameQuestion(r)
       /\ ~(Path(r).rel # <<>> /\ Path(r).rel[1] = Reserved))
    => (slot[s].resp[1].status = 404 => slot[s].resp[1].path # <<>>)

\* Conversely a request the decision passed on would have found nothing, when
\* both sides look for the same path.  The exception: the serving side lists a
\* directory that does not exist when the path ends in a slash and browsing is
\* on.
PassedIsAbsent ==
  \A s \in Slots :
    LET r == slot[s].req[1] IN
    (slot[s].out = "passed" /\ slot[s].matched # -1 /\ r.cfg.kind = "tar"
       /\ SameQuestion(r)
       /\ ~(DirHint(r.path) /\ r.cfg.browse))
    => select_tar(r, Sites[slot[s].dgen]).k = "none"

\* A file the matcher found is the file the rewritten request is served, as
\* long as no reload came between: the lookups of the matcher and of the file
\* server agree on plain files that are neither hidden nor reserved.
MatchedIsServed ==
  \A s \in Slots :
    LET r == slot[s].req[1]
        full == r.cfg.root \o Path(r).rel
    IN (slot[s].pc = "head" /\ slot[s].matched > 0 /\ SameQuestion(r) /\ slot[s].dgen = slot[s].gen
          /\ full \in DOMAIN Sites[slot[s].gen] /\ ~file_hidden(full, r.cfg.hide)
          /\ full[1] # Reserved)
       => slot[s].resp[1].status \notin {404, 308} /\ slot[s].resp[1].logical \in {full, <<>>}

\* A 304 to a request with entity tags means one of them names the content of
\* the generation that answers, whatever the dates say: a rollback to files
\* with older dates is never answered from the client's newer copy.  This is
\* about files.  A directory listing has no tag, so its 304 goes by
\* If-Modified-Since alone even when If-None-Match is there
\* (server/caddy.rs:2202-2214, 2309-2321, 2549-2567), and a rollback to an older
\* listing is answered 304.
NoStaleRevalidation ==
  \A s \in Slots :
    (Responded(s) /\ slot[s].resp[1].status = 304 /\ slot[s].req[1].inm # <<>>
       /\ slot[s].resp[1].src # "listing") =>
      \E i \in DOMAIN slot[s].req[1].inm :
        \/ slot[s].req[1].inm[i].k = "star"
        \/ slot[s].req[1].inm[i].tag = slot[s].resp[1].etag

\* A body is encoded at most once, only with an encoding the client accepts,
\* and a compressed body is never a byte range of the file.
EncodedOnce ==
  \A s \in Slots : Responded(s) =>
    LET resp == slot[s].resp[1]
        r == slot[s].req[1]
        sidecar == resp.src \in {"tar", "fs"} /\ resp.path # resp.logical
    IN /\ resp.enc # "" => \E i \in DOMAIN r.accept :
                             r.accept[i].enc = resp.enc /\ r.accept[i].q > 0
       /\ resp.chunked => ~sidecar /\ resp.crange = <<>>
       /\ sidecar => resp.enc # ""

\* The bytes of a response are the right ones: as many as its head announced,
\* of the archive its index entry belongs to, and of a partial response exactly
\* the range asked for, while files change and reloads reuse memory.
RightBytes == Framed /\ OwnArchive /\ RangeExact

\* What is chosen to be sent is a representation the client may get: a published
\* file, for files not older than the copy a 304 stands for, and encoded once, as
\* accepted.
RightRepresentation == OnlyPublished /\ NoStaleRevalidation /\ EncodedOnce

\* The three implementations of the file lookup agree: what pass_thru keeps is
\* served, what it passes on is absent, and what the file matcher found is what
\* the file server sends, whenever they are asked about the same path below the
\* same root.
LookupsAgree == KeptIsServed /\ PassedIsAbsent /\ MatchedIsServed
=============================================================================
