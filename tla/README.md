# A TLA+ development for zeroserve

zeroserve (`src/`) is an HTTP server in Rust. A process runs a fleet of
single-threaded workers, one monoio runtime each, that serve a site packed in a
tarball, run eBPF scripts for every request, proxy to backends and terminate
TLS with certificates it gets over ACME. A coordinator thread replaces site,
plugins and TLS material while the workers go on.

This directory holds TLA+ modules translated from the source, TLC models of
them, and TLAPS proofs. `PROJECT.json` maps every definition to the lines it
models and lists runs, hazards, findings and theorems.

1. [The system](#1-the-system)
2. [Modules](#2-modules)
3. [Runs, bounds and fairness](#3-runs-bounds-and-fairness)
4. [Where code and documentation disagree](#4-where-code-and-documentation-disagree)
5. [What is proved](#5-what-is-proved)
6. [What is only model-checked, and what is not modelled](#6-what-is-only-model-checked-and-what-is-not-modelled)

## 1. The system

| Part | Source | State | Operations | What makes it hard |
|---|---|---|---|---|
| Hot reload | `reload.rs`, `main.rs` (`run_worker`), `shared.rs` | `SharedState` (three `ArcSwap`s), one queue per worker, a reply channel per reload | wait for SIGHUP or the signal file, load, ask the canary, wait with a time-out, commit in three stores, notify | a late answer to an abandoned reload; workers that start during a commit; workers that exit |
| ACME provisioning | `acme/mod.rs`, `acme/store.rs` | files shared by processes, advisory locks, live certificates and challenges in memory | sync, scan, account key, order, challenge, validate, save, install | several processes; crashes and failed writes between two files; a challenge another process must answer |
| Hangup watcher | `hupwatch.rs` | hooks per fd number, kernel registrations, a harvested batch | `wait`, guard drop, epoll task or kqueue thread | fd numbers are recycled while events about the old connection are in flight |
| Hand-off | `handoff.rs`, listeners of `server.rs` | a shared counter, a channel per worker | accept, route, adopt, worker exit | a sibling that is not up yet or already gone |
| Rate limiter | `ratelimit.rs`, `helpers/ratelimit.rs` | a concurrent table of buckets | check, sweep, reload | the clock, the table and the bucket are read one after the other; windows end in between |
| Reverse proxy, HTTP/1.1 | `server.rs`, `server/caddy.rs`, `pool.rs` | client task, backend connection, pool | request loop, pool, dial, upload, relay, replay, continuation | early answers, stale pooled connections, hangups, bodies nobody has read |
| HTTP/2 server and proxy | `server.rs` | streams over one connection | the same exchange per stream | resets, flow control |
| TLS stream and configuration | `boringtls.rs`, `tls.rs`, `ech/*`, `ja4.rs` | outbound buffer, handshake state, certificate selection | read, write, flush, handshake | futures dropped half way through a flush |
| Script runtime | `script.rs`, `helpers/call.rs`, `helpers/generic.rs` | stack of execution contexts, output, limits, response hooks | entry points, calls between scripts, helpers, hooks | who may answer; what a failed call or hook leaves behind |
| Script request | `script.rs`, `helpers/caddy.rs`, `helpers/generic.rs` | URI, path, query and headers, each kept in several forms; a log of header changes | helpers that rewrite the request, replay of the log, rerun | views that must agree after every edit; memoised parses |
| OIDC | `oidc.rs`, `helpers/oidc.rs` | sealed cookies | login, callback, logout | expiry, state and nonce |
| HTTP/1.1 parser | `http/h1.rs` | parse buffer | heads, chunked decoding | incremental input |
| Static files and file server | `server.rs`, `server/caddy.rs`, `site.rs`, `file_io.rs`, `helpers/caddy.rs`, `helpers/compress.rs` | tarball index, cache of tarball handles, an exposed filesystem | lookup, sidecars, conditional requests, ranges, listings, file matcher, streaming | three implementations of one lookup; files and sites that change while a response is streamed |
| Caddyfile front end | `caddyfile/*` | none at run time | lexer, imports, parser, directives, adapter | lines decide the structure; the order of directives, sites and routes |
| Caddy compiler | `caddy_compile.rs` | the emitted program's request context | routes, groups, subroutes, error routes, response hooks, rerun | an emitted program must do what Caddy's handler chain does |
| Logging | `logging.rs` | queues, a file | append, rotate | bounded queues, rotation between writes |
| Tools and start-up | `cli.rs`, `config.rs`, `pack.rs`, `script_compile.rs`, `rt.rs` and others | none after they end | | |

How they interact: the coordinator stores new assets in `SharedState` and sends
them to the workers; a request keeps the `Site` it started with, and
with it that site's rate-limit table. The coordinator also drives the sweep of that
table. Worker 0 runs the ACME loop, whose live certificates the TLS handshakes
of all workers read. Listeners hand connections to each other; every connection
registers with its worker's hangup watcher, which interrupts a proxied request
when its client goes away. The worker's proxy pool is shared by all requests of
that worker, and by no other thread. A Caddyfile is translated to a JSON
configuration, that to scripts packed with the site; a request runs through them,
and what they decide is carried out by the file server or the proxy.

What can go wrong that a unit test hardly reaches is listed under "hazards" in
`PROJECT.json`, each at the line where it bites and with the properties that
would notice. The central ones are the ones the last column above names.

## 2. Modules

| Module | Models | Checked by | Proved in |
|---|---|---|---|
| `Reload` | coordinator, canary, workers' reload loops, worker start-up | `MCReload` | `ReloadProofs` |
| `Rollout`, `ReloadRollout` | what a staged reload promises; that `Reload` implements it | `MCReload` | `RolloutProofs` |
| `Acme` | the run loops of processes that share `--acme-dir` | `MCAcme` | `AcmeProofs` |
| `HupWatch` | `HupWatcher` on both platforms, with the kernel's registrations | `MCHupWatch` | `HupWatchProofs` |
| `Handoff` | `HandoffDistributor`, its channels and the accept loops | `MCHandoff` | `HandoffProofs` |
| `RateLimit` | `RateLimitManager`, its sweep and its life across reloads | `MCRateLimit` | `RateLimitProofs` |
| `Proxy` | HTTP/1.1 request loop, reverse proxy and pool of one worker | `MCProxy` | `ProxyProofs` |
| `StaticFiles` | the pure decisions behind serving a file | `MCServing` | `StaticFilesProofs` |
| `FileServer` | file requests from the script's decision to the last byte | `MCServing` | |
| `CaddyMatch`, `CaddyRoutes` | the matchers and the request program the Caddy compiler emits | `MCServing` | |
| `Text`, `CaddyUri`, `ScriptRequest` | a request as scripts see and rewrite it | `MCScripting` | |
| `ScriptRun` | a request's run through the scripts and response hooks | `MCScripting` | |
| `CaddyLexer`, `CaddyImport` | tokens and their lines; snippets and imports | `MCCaddyfile` | |
| `CaddyDispenser`, `CaddyBlocks` | the cursor, the grammar's segments, site blocks | `MCCaddyfile` | |
| `CaddyGrammar`, `CaddyHandlers`, `CaddyOptions`, `CaddyDirectives`, `CaddyParse` | the parsers of directives, matchers and global options | `MCCaddyfile` | |
| `CaddyAdapter` | from site blocks to routes, servers and certificate subjects | `MCCaddyfile` | |

Definitions whose comment begins with "Mutant of" are deliberately wrong
variants of the definition after them. They are used nowhere in the
specifications; substituting one must break the property it is listed with.

### `Reload`

`pc` is the place of `coordinator_loop`/`perform_reload`, `wpc[w]` that of
`run_worker` and `worker_reload_loop`. An asset is the number of the disk edit it
was read after; the sites a worker compiles are the pair of plugin and site
version. The actions follow the code: `Wake` (SIGHUP on the wait fd, or changed
contents of the signal file), `LoadPlugins`, `LoadSite`, `LoadTls` (whose failure
does not stop the reload), `SendCanary`, then `CanaryOk`, `CanaryErr`,
`CanaryTimeout` or `CanaryGone`, the three stores `CommitPlugins`, `CommitSite`,
`CommitTls`, and one `Notify` per other worker. `round` names the reply channel,
so an answer to an abandoned reload goes to a channel nobody reads
(`Answer`). A worker's start-up reads the plugin sites and the site in two steps
(`CollectPlugins`, `CollectSite`) that interleave with the stores. Compilation and
loads succeed or fail freely. A worker whose accept loop fails exits alone
(`Exit`), one that cannot compile at start-up ends the process (`BootFails`).

`Rollout` is the promise without messages: configurations are proven, committed
in one step and never by older ones, and run by one worker after another.
`ReloadRollout` adds the history of commits and the refinement mapping. The
two stores of a commit are seen as one, at the first of them (`CommittedSites`).
A worker that is starting is outside the promise: it reads plugins and site one
after the other and may start with those of two configurations (`Start`).

### `Acme`

Files are per-domain numbers: the order that wrote them, 0 for no file. The same
number stands for the key authorization, the private key and the modification
time. The run loop is one label per await or file operation: `SyncMtime`,
`SyncCert`, `SyncKey` (the live store follows the directory), `Scan`, the account
key under its lock (`AccountRead` to `AccountCreate`), `TryLock`, the re-check
(`NoLongerNeeded`, `NewOrder`), `InsertChallenge`, `PublishChallenge`,
`Validated`, the tear-down in its two steps, `Finalize`, `SaveCert`, `SaveKey`,
`InsertLive`. Every call to the authority and every file operation has a failing
counterpart with the code's error path: a failed read is taken for a missing file
(`SyncReadFails`, `ScanFails`, `RecheckFails`; a process whose re-check could not
read is in `blind`). `CrashRestart` loses memory and locks and keeps the files. The
protocol below these calls (nonces, JWS, polling) is abstracted to one success or
failure.

### `HupWatch`

`wait()` is `WaitInsert` (hook under the fd number, with a fresh generation) and
`WaitRegister`/`WaitFails`. `CloseFd` and `DropGuard` happen in either order and
at any time, an fd number may be accepted again at once. With `kqueue` the thread
harvests a batch (`Harvest`) and completes its events one by one (`Complete`), in
between which anything may happen; the epoll task does both in one step
(`EpollFire`). The kernel's part (registrations vanish with the fd, edge-triggered
end-of-file, data events where `NOTE_LOWAT` is ignored) follows from how the code
registers its fds.

### `Handoff`

`Accept` takes a connection off the shared backlog and assigns it by the shared
counter; it is served here (`AcceptLocal`, also when the sibling's channel is
gone) or queued (`AcceptRemote`) and adopted (`Adopt`). `AdoptFails` and
`ReclaimFails` are the failing registrations of the fd. A failing `accept` (`Exit`),
or a failing hangup registration of a connection the worker accepted itself
(`AcceptFails`), takes the worker down, with its queue and its connections.

### `RateLimit`

A check is four steps, as in the code: read the clock, `contains_key`, `len`,
update. `Update` computes the three counters from the clock value read before
(`Current` restarts a counter whose window has changed), and either allows or
reports the first limit reached. The sweep reads the hour once and visits keys
one by one. A reload makes a new table; requests in flight keep the old one
(`held`). `straddled` records that a check or a sweep that read the clock in one
window finished in a later one.

### `Proxy`

`cl[c]` is a client connection with the state of its task, `be[b]` a backend
connection with what is on its wire, `pool` the entries of one key. The worker is
one thread: what happens between two awaits is one action. A request body is a
number of chunks, a response a head with a framing and at most one piece of
body. `PossibleRequest` is a method, a body size, the plan the script outcome
leads to (simple fast path, plain, with response hooks, forward_auth subrequest,
local answer) and whether the outcome has error routes.

* Request loop: `NextRequest`, `ServeLocal`, `Abort`; `Return` decides between
  the next request and closing. `Interrupt` is the hangup future winning its race
  against a tracked request, `ClientLeaves` an untracked one noticing by itself.
* Error handling: `AfterError` is what `handle_request` makes of an error, by
  stage, by whether a response was started (the tracked writer's flag) and by
  error routes, which rerun the request once without its body (`Rerun`).
* `Take`, `PutOrDrop` are the pool: pops until a connection is idle, drops what
  has unread bytes or does not fit. `Idle` sees only what has arrived: the close
  of the backend may still be under way, and then `SendHead` writes into a dead
  connection and `ProxyNoResponse` decides about the one replay.
* Upload: `UploadChunk`, the early response and close over plaintext, the failing
  write with its salvaged error response, and the limit on the body.
* Relay: without a body, raw or collected (`RelayFixed`), or streamed (`RelayStart`,
  `RelayBody`, `RelayEnds`). `ClientDrained` and `LingerDrain` are the drains of the
  client's body, complete or given up after `CLIENT_BODY_LINGER_DRAIN`.

A step of a task is written as what it makes of the task's record (`Become`,
`Taken`, `Ended`, `Answered`, `BodySent`, `Left`), so that a property of tasks can
be argued about without the rest of the state.

The backend (`Answer`, `SendBody`, `Close`, `Arrive`) answers the requests of a
connection in order, possibly before it has read them, and closes at any time.
What is written to it waits in the socket (`inbox`, `SocketBuf` chunks) until it
reads (`Receive`); an upload waits when the socket is full.

### `StaticFiles` and `FileServer`

`StaticFiles` holds the operators: lookup with its index and `.html` forms, hide
patterns, redirects, sidecars, preconditions, ranges, the window of a listing,
`try_files` policies. `FileServer` is the life of a request: the script's decision
(`pass_thru`, the file matcher) is taken against one site and filesystem, the
response is prepared against what is current later, the head is written, and the
body is read in chunks from a tarball handle that a cache keeps by the address
of its `Site`. Addresses are reused once nothing points at them, files shrink and
grow between two reads, and a reload may come at any point.

### `CaddyMatch` and `CaddyRoutes`

An operator `emit_x` says what the C code emitted by `emit_x` does to the request
context. The program is therefore run, not described: routes, groups with their
guards, terminal routes, the switch over exact hosts, subroutes, named routes,
error routes, response hooks and `handle_response` with the rerun it asks for.
The reference it is compared with (`AnswerAsWritten`) is Caddy's chain of handlers,
defined on the configuration and not on the program.

### `ScriptRequest` and `ScriptRun`

`ScriptRequest` has one action per helper that edits a request. Every datum is kept
in all the forms the code keeps it in, memoised ones included; the path of the head
is normalised and escaped again as the code does it. `apply_script_request`
replays the header log; the rerun and the error pass build the request again, with
the URI it came with when an upstream failed (`restored`).
`ScriptRun` is the loop over scripts: a script may call any helper, call another
script, return or trap at any point, and the password check and the read of the
body suspend it (`waits`). A response a callee returns becomes the caller's where the
code adopts it (`AdoptResponse`). Bodies of scripts are not modelled, so what holds
does so for every script.

### The Caddyfile modules

`CaddyLexer` reads a character a step and gives tokens their lines; quotes,
backticks, escapes, comments, carriage returns and heredocs are characters of
their own. `CaddyImport` expands an import a step, fails for a file it cannot read
and gives up after `MAX_ITERS`. `CaddyBlocks` compares the grammar's segments with those
of the `Dispenser`. The parsers of directives are one loop that differs in the
table of lines it accepts: `CaddyGrammar` says what a row means, `CaddyHandlers` and
`CaddyOptions` hold the rows, `CaddyDirectives` the loop, `CaddyParse` runs it.
`CaddyAdapter` classifies blocks, sorts and groups routes, also in nested `handle`,
`route` and `handle_errors` blocks, distributes sites over listeners (with
`http_port` and `https_port`) and works out which names get certificates.

## 3. Runs, bounds and fairness

| Run | Instance | Distinct states | Shows |
|---|---|---|---|
| `reload` | canary and one worker, 2 edits, 2 triggers, 2 file contents | 535,195 | `QuiescentAgreement`; the refinement `ImplementsRollout`; *`SighupTakesEffect`*, *`FleetConverges`* |
| `acme` | 2 processes, 1 managed and 1 covered domain, 1 renewal, 1 fault | 358,189 | `StoredPairFits`, `NoRedundantOrder`, `OneAccountKey`, `ChallengeAnswered`, `LiveNeverOlder`; *`EveryDomainServed`* |
| `hup` | 3 connections on 2 fd numbers, batches of 2, both platforms | 314,612 | `OnlyOwnHangup`, `HookKept`; *`HangupDelivered`* |
| `handoff` | 3 workers, 4 connections, 1 fault, 1 exit | 34,860 | `TypeOK`, `Balanced`; *`TransitEnds`*, *`BacklogDrains`* |
| `ratelimit` | 2 threads, 3 keys, room for 1 bucket, a minute of 2 s, an hour of 4 s, 5 seconds, 1 reload | 321,964 | `LimitUnlessStraddled`, `BucketOvershoot` |
| `proxy` | the environments of `MCProxy`, pool of 1, bodies of 0 to 2 chunks | 175,086 | `Exclusive`, `OwnResponse`, `SafeReplay`, `OneResponse`, `BodyConsumed`, `PoolQuiescent`; *`RequestEnds`* |
| `serving` | about 400 kinds of file requests, 3 site generations, 1 changing file; 17 configurations | 846,477 | `RightBytes`, `RightRepresentation`, `LookupsAgree`; `RightAnswer`, `MatchersSound` |
| `scripting` | 2 helper calls, 2 passes; 2 scripts, 3 calls, call depth 2, body limits 0 to 2 | 158,717 | `SeenIsSent`, `JudgedIsServed`, `RewritesAgree`; `RightOutput`, `EffectsKept` |
| `caddyfile` | texts of 5 to 11 characters, files of 6 tokens, 9 imports, every row of every table | 396,941 | `ReadAsWritten`, `DirectivesRead`, `RightSite`, `RoutesInOrder` |
| `reload_abort`, `acme_retry`, `proxy_head` | smaller | | counterexamples, section 4 |

Liveness properties are in italics. `TypeOK` of `Handoff` is more than a type (a
connection in transit is in one channel, once) and is therefore checked.

Several properties are conjunctions of smaller ones with a name and a comment of
their own: `RightBytes` of `Framed`, `OwnArchive` and `RangeExact`; `RightRepresentation`
of `OnlyPublished`, `NoStaleRevalidation`, `EncodedOnce`; `LookupsAgree` of `KeptIsServed`,
`PassedIsAbsent`, `MatchedIsServed`; `RightAnswer` of `AnswerAsWritten`, `GateHolds`,
`NeverCleared`, `ErrorDropsHooks`; `MatchersSound` of `FreshHost`, `GroupOnce`, `OrderFree`,
`StaticFalseSound`; `SeenIsSent` of `ViewsAgree`, `LogReplayed`; `JudgedIsServed` of
`MatcherSeesServed`, `CleanIsCanonical`, `MemoFresh`; `RewritesAgree` of `QuerySurvives`,
`HeaderOpsAgree`; `RightOutput` of `OneOutput`, `OwnOutput`, `HeaderOnce`, `Authentic`;
`EffectsKept` of `AbortFinal`, `HookUndone`, `LimitLowered`, `ReadWithinLimit`;
`ReadAsWritten` of `LineGroups`, `ExpandsAsWritten`, `CyclesAreReal`, `ExpansionEnds`,
`SegmentsAgree`, `FileKept`; `DirectivesRead` of `WalkIsStructural`, `BlockOrderFree`;
`RightSite` of `SiteMatchesItsKeys`, `MostSpecificSite`, `EverySiteServed`, `TlsOrderFree`,
`SubjectsServed`; `RoutesInOrder` of `OrderRespected`, `GroupsApart`, `LongestPathRuns`.

`MCServing`, `MCScripting` and `MCCaddyfile` run independent specifications in one
model: a behaviour steps one of them and the others rest.

### Why the bounds are enough

* `reload`: two triggers are what it takes for the answer to an abandoned reload
  to arrive during the next one; a third edit or worker only repeats the roles
  (the proofs cover any number). Two file contents let the signal file change
  back.
* `acme`: one fault at every place (a call, a read or a write) and one renewal
  reach an order after a failed or abandoned order, by the same process or its
  sibling. The covered domain makes the scan's exclusion matter.
* `hup`: three connections on two numbers give a recycled number while both a
  stale event and a stale guard of its former owner exist, next to a bystander.
* `handoff`: four connections go around three workers once and a bit; the faults
  allow the owner of a share to be gone before, while and after it is queued.
* `ratelimit`: the clock crosses a second, a minute and an hour boundary. The
  state constraint `Scenario` splits the space into several keys within one
  second, one key across a reload, and one key over hours; the properties are
  per key or about the table alone, so their interactions are in one of the three.
  Symmetry is over threads, which `Init` and `Next` do not tell apart.
* `proxy`: `MCEnvironments` is a union of three families. One request of every
  kind over a fresh or warm pool with any response, with and without TLS; two
  requests of one client, the second over what the first left; two clients
  sharing a pool with room for one. A pool of one suffices for both limits (`put`
  when full, `take` from empty). Bodies of two chunks make "sent partly"
  different from "not sent" and from "sent"; a socket buffer of one chunk fills
  in the middle of an upload.
* `serving`: the requests cover every branch of the lookups (sidecar, index, hidden
  name, escape, listing, redirect), every form of range and condition; chunks of
  two bytes make a file of three be read in two. The second site generation is
  a rollback in which a directory has become a file. A configuration is there
  for every handler and matcher and for each interaction of groups, terminal
  routes, subroutes and error routes.
* `scripting`: two edits are what it takes for a view, a memo or the log to be
  stale when it is used. With three calls a script can be called, fail and be
  followed by another. The head's path has a `.` component and an empty one, so
  that it differs from its normalised form.
* `caddyfile`: five characters of every kind, and six of those of quotes, escapes,
  comments and carriage returns, hold such a line break between two words; eleven
  of the characters of heredocs hold one of two lines with a word before and
  after it. Six tokens hold a block in a block. The importer's programs are all
  ways two snippets and a file can import each other, and nine imports are a cap
  that some of them reach; the rows of the tables are tried with too few, enough
  and too many arguments, alone and in pairs.

### Fairness

* `Reload`: weak fairness of the coordinator, a thread the operating system
  schedules whose waits are all bounded (`recv_timeout`). Nothing is assumed of
  the workers for `SighupTakesEffect`; `FleetConverges` assumes their loops run and
  states so in the property.
* `Acme`: weak fairness of each process's successful steps and of the renewal
  timer. Faults and crashes are bounded, so the calls succeed in the end; with an
  authority that fails for ever nothing of the kind holds.
* `HupWatch`: the watcher task or thread runs. `Handoff`: each worker's runtime
  polls its accept loop and its receiver.
* `Proxy`: the worker polls its tasks, and a backend that has a request or owes a
  body sends it or closes. The code has no time-out on a backend response, so
  `RequestEnds` does not hold without the latter; likewise the client delivers
  the body it announced. That the backend goes on reading an upload it has
  already answered is not part of the specification but a hypothesis of
  `RequestEnds` (`Receive`): `forward_request_body` reads nothing while a write
  waits (`server.rs:6250`), so a backend that stops reading because nobody reads
  its response, and the worker, wait for each other.

## 4. Where code and documentation disagree

Three runs check what a comment says, and TLC refutes it:

| Run | Said | Done |
|---|---|---|
| `reload_abort` | an aborted reload leaves the previous configuration in place (`reload.rs:47-48`, `58`) | after a time-out the canary's queued request is compiled and installed later |
| `acme_retry` | a failed domain is retried (`acme/mod.rs:33-34`) | after a renewal that failed between `cert.pem` and `key.pem` the scan finds nothing to do |
| `proxy_head` | once a response has begun, an error closes the connection (`server.rs:1620-1622`) | the fast paths write a 502 behind the head that was already sent |

The passing properties say what does hold instead: `QuiescentAgreement` and
`ImplementsRollout` leave the canary out, `StoredPairFits` names the pairs cut in
two (`spoiled`), `OneResponse` is about the tracked writer.

Observed while translating, without a run of its own.

*ACME, rate limiter, reload.*
* When `write_challenge` fails, `?` leaves `provision_domain` with the in-memory
  challenge in place (`acme/mod.rs:348`), although it is to be torn down "always"
  (`mod.rs:356`); it answers for a sibling's later order. `ChallengeAnswered` therefore
  assumes that no write has failed.
* Stored files that cannot be read are taken for missing (`store.rs:158-163`,
  `185-195`): a read that fails under the lock leads to an order nobody needs.
  `NoRedundantOrder` excepts the processes in `blind`.
* Every loaded `Site` has new counters (`site.rs:115`); the manual says they persist
  across hot reloads (`docs/user_manual.md:690-691`). `LimitUnlessStraddled` is
  therefore about the grants of one `Site`.
* A worker that starts while a reload commits can run the plugins of one
  configuration with the site of another, until the reload notifies it.

*Hangup watcher.*
* A wait whose fd was closed may also end when the number is watched anew.
  `OnlyOwnHangup` says what `hupwatch.rs:18-20` promises, for open connections.

*Proxy.*
* A request whose body was sent and that a response hook continues is sent again
  without the body (`server.rs:5393`). `SafeReplay` counts the sendings before and
  after that apart.
* A second continuation of one request (`zs_res_continue_request`,
  `docs/user_manual.md:1091-1092`) ends it without a response and keeps the connection
  (`server.rs:1455`, `1720`). `OneResponse` names this case.
* A GET with a body whose response takes the raw path leaves the body on the
  client connection (`server.rs:5260-5278`), as does a bad URI override
  (`4401-4411`). The request loop takes what is left for the start of the next
  request; the model assumes that it does not parse (`ParseError`), and
  `BodyConsumed` leaves these cases out.
* The response to the GET of a subrequest is not drained when the client sent a
  HEAD (`5376`), which is why `PoolQuiescent` excepts that case;
  `connection_still_idle` and the emptiness check of `put` catch bytes that have
  arrived.
* On the fallback from the unsplit fast path the scripts of a request run a
  second time (`948`).
* `forward_request_body` reads no response while a write waits (`6250`): a backend
  that waits for its response to be read, and the worker, wait for each other. It
  is the exception of `RequestEnds`.

*File server.*
* A root written with `.` or `..` components or with escapes is resolved by the
  serving side (`server/caddy.rs:2902-2908`) and not by the script's decision
  (`helpers/caddy.rs:2096-2107`); in an error route after a rewrite the decision
  reads the rewritten path (`script.rs:629-640`). The lookups are compared where they
  are asked the same (`SameQuestion`).
* A directory listing has no entity tag, and its 304 goes by `If-Modified-Since`
  even when `If-None-Match` is there (`server/caddy.rs:2202-2214`, `2309-2321`,
  `2549-2567`); `NoStaleRevalidation` is about files.
* Hide patterns are not applied to precompressed sidecars
  (`server/caddy.rs:1950-1982`).

*Scripts and the compiled program.*
* `restore_original_uri` puts back URI, path and query but not the normalised path
  (`script.rs:629-640`), which `zs_req_normalized_path` returns as the path "used by
  zeroserve static-file lookup" (`docs/user_manual.md:883`). `ViewsAgree` excepts it.
* `set_max_size` takes a limit of 0 for none (`script.rs:129-134`): a limit of 0 is
  raised by the next call, although the helper "lowers" it
  (`docs/user_manual.md:1011`). `LimitLowered` and `ReadWithinLimit` name this exception.
* A failed response hook is undone in the response (`HookUndone`); what it did to the
  metadata stays.
* `AnswerAsWritten` leaves out four cases. After an error in a subroute whose error
  routes do not answer, the emitted code goes on with the next handler
  (`caddy_compile.rs:2662`, `2778`), where the comment at `2447-2454` has the error go to
  the enclosing error routes. An upstream that fails in a subroute with error
  routes goes to those of the server. A second run that asks for a third is not
  answered. A failed upstream over HTTP/2 never reaches error routes:
  `handle_h2_request` does not ask whether there are any.
* The header log is replayed again on a rerun and on the error pass, so an added
  header can be added twice. Request-side and response-side header operations
  differ for empty values, invalid replacements and `Host`; `HeaderOpsAgree` is
  stated for the rest.
* A rerun matches the request as the first run has rewritten it, and after a
  reload by another program.

*Caddyfile.*
* A heredoc whose closing marker follows its opening line directly makes
  `finalize_heredoc` take a slice that ends before it begins (`lexer.rs:294`), a panic
  where malformed heredocs otherwise give an error. The spellings for which the
  lexer's lines differ from the written ones are marked `odd` in `CaddyLexer`.
* Two adjacent uses of one snippet or block can join their lines, and a snippet
  defined again keeps the import edges of the one it replaces; `ExpandsAsWritten`
  and `CyclesAreReal` leave these out.
* `health_port` is refused after `health_upstream` and accepted before it; servers
  given one name overwrite each other (`adapter/mod.rs:746-751`).

## 5. What is proved

TLAPS checks these theorems for all values of the constants; the bounds on
faults, edits, triggers, renewals, requests, bodies and time are arbitrary natural
numbers.

| Theorem | Statement | Inductive invariant |
|---|---|---|
| `ReloadProofs!RolloutValidated`, `WorkersAgree` | `RolloutIsValidated`, `QuiescentAgreement` | `Reload!IInv` |
| `RolloutProofs!ReloadImplementsRollout` | the refinement: `RolloutSpec => R!Spec` | `Reload!IInv`, `ReloadRollout!RInv` |
| `AcmeProofs!StoredPairsFit`, `SingleFlight`, `AccountConverges`, `ChallengesAnswered` | `StoredPairFits`, `NoRedundantOrder`, `OneAccountKey`, `ChallengeAnswered` | `AcmeProofs!IInv` |
| `AcmeProofs!NeverOlder` | the action property `LiveNeverOlder` | `AcmeProofs!IInv` |
| `HupWatchProofs!OwnHangup`, `HookSurvives` | `OnlyOwnHangup`, `HookKept` | `HupWatchProofs!IInv` |
| `HandoffProofs!HandoffTypeOK`, `HandoffBalanced` | `TypeOK`, `Balanced` | `HandoffProofs!IInv` |
| `RateLimitProofs!NestedBuckets`, `Overshoot`, `LimitKept` | `BucketsNested`, `BucketOvershoot`, `LimitUnlessStraddled` | `BucketsNested`, `ClaimsBounded`, `LedgerInv` |
| `ProxyProofs!ConnectionsExclusive`, `ResponsesMatchRequests`, `ReplaysSafe`, `OneResponseEach`, `BodiesConsumed`, `PoolStaysQuiescent` | `Exclusive`, `OwnResponse`, `SafeReplay`, `OneResponse`, `BodyConsumed`, `PoolQuiescent` | `ProxyProofs!Inv` |
| `StaticFilesProofs!StaticRangeExact`, `CaddyPartExact`, `BrowseWindowInBounds` | what the range and listing arithmetic computes, for every size and offset | |
| `TypeCorrect` (`TypesKept` in `ProxyProofs`) | `Spec => []TypeOK` | |

Assumptions are the named `ASSUME`s of the modules: the canary is a worker, the
null values are no elements of the sets they extend, `--cert-dir` covers some of
the domains, threads and keys are finite, an hour is a whole number of minutes,
there is at least one worker, bodies and the pool have a size.

*Reload.* `RolloutIsValidated` is not inductive: that a commit stores what the
canary compiled depends on the "ok" in the reply channel being about the staged
sites. `ChannelInv` says so: every request in the canary's queue or hands
carries an earlier reload's channel, or the current one together with exactly
the staged sites (`Fits`). From it follows `ValidatedInv` (an "ok" means the staged
sites were compiled), and with `CommitInv` (how far the stores have come) the
property. Agreement needs what a worker will do last: `Follows(w, p)` is "the
last request in its queue is for `p`, or the queue is empty and it is starting
with, compiling or running `p`"; `FollowInv` says that of all notified workers with
the committed sites, and of the canary with the staged ones.

*Refinement.* Every step of `Reload` is a step of `Rollout` or a stutter under the
mapping. `SharedInv`, `QueuedInv` and `ReadInv` say that what is shared, queued,
compiled or read by a starting worker was committed; `AgeInv` that what is staged
is not older than what is shared.

*Acme.* `LockInv` ties every provisioning step to the holder of the domain's
lock. `OrderInv` orders the numbers: an open order is newer than the certificate
it will replace, which makes the pair of writes and the re-check under the lock
provable (for the processes that could read the files, which `blind` keeps apart); `LiveInv` puts what is served, read and stored into order, from which
the action property follows step by step. `AcctInv` is the same for the account
key. `ChalInv` says that, as long as no write has failed, a challenge in memory
belongs to the open order of its process and the file to the order that is
being validated. A sibling with a challenge for the same domain would hold the
same lock, so every process answers with the one or the other, and both are the
same number.

*HupWatch.* `Owners`: open fds and generations belong to one connection each;
`Registered`: hooks and registrations of an fd in use carry its connection's
generation; `Events`: a hangup event in the kernel, or in the batch under a
generation, is about a connection whose peer is gone.

*Handoff.* `Dealt` is the deal of a pack of cards: as long as nobody has left, the
workers before the one whose turn it is have been given one connection more than
the others. That a `fetch_add` passes the turn to the next worker, also from the
last to the first, is arithmetic of the remainder (`TurnPasses`).

*RateLimit.* That three counters nest after an update comes down to arithmetic:
two seconds of one minute are in one hour because `Hour` is a multiple of `Minute`
(`HourBound`, `MinuteInHour`). For the size of the table, `Claimed` adds to the keys
in it those of the threads that are past the test of the size (`Tickets`); this
set is bounded by the limit plus the threads, and finite-set cardinality lemmas
(`RoomForAll`, `FewerClaims`) carry it through the steps. `LedgerInv` relates what was
granted in a window to the bucket: no more than the bucket counts for the window
it is in, nothing for windows to come, and never more than the limit.

*Proxy.* The properties hang together and are proved from one invariant, `Inv`.
`OwnResponse` needs to know of every connection in use whose request or response
is on it (`Fits`), which is kept only because a connection in the pool has neither
(`Quiet`) and because nobody else has it (`Exclusive`). `PoolQuiescent` in turn needs
what is left of the body after the response in hand (`Tidy`, `Rest`), up to the
moment `should_reuse_proxy_connection` is asked. `SafeReplay` needs how often the
request was sent at every place of the task (`Sending`: not yet before the first
send of a pass, at most once when a replay is still possible). `Good` is what a task's own
fields say of each other, `OneResponse` and `BodyConsumed` included; `Numbered` keeps
the requests of different tasks apart. A task does one of six things to the
connections: it leaves them alone, drops its own, uses it, puts it back, takes
one from the pool, or dials. There is one lemma for each (`StaysKeeps`, `DropsKeeps`
and so on) which reduces "the step keeps `Inv`" to what the step makes of the task
alone, and one lemma per action on top.

*StaticFiles.* The theorems compare `apply_static_range`, `parse_byte_range_spec` and
`caddy_browse_window` with the set of bytes (or entries) the request names.

## 6. What is only model-checked, and what is not modelled

Only by TLC:

* all liveness properties: fairness and `ENABLED` are beyond the prover;
* the properties of `FileServer`, `CaddyRoutes`, `ScriptRequest`, `ScriptRun` and of the
  Caddyfile modules. They are about what recursive functions over paths, routes,
  queries and tokens compute: they need induction over data, and the modules
  use `RECURSIVE` operators, neither of which the prover supports. What in them is
  arithmetic is proved in `StaticFilesProofs`.

Left out inside the modules: the exchange below a call to the certificate
authority; the length check of rate-limit keys; re-arming an fd that is still
registered, which has no caller; the TLS listener of the hand-off, whose failure
ends only its accept task; WebSocket tunnels (never pooled), `Expect: 100-continue`,
interim responses, header rewriting (`X-Forwarded-*` included) and streaming
compression in the proxy; `replace_env_vars`, which runs before the lexer;
texts of headers, listings and error messages; the JSON between the adapter and
the compiler, and the text of the emitted program; the eBPF machine.

Not modelled, with the reason for each in the components of `PROJECT.json`: HTTP/2,
the TLS stream and configuration, script helpers that only compute, OIDC, the
HTTP/1.1 parser, logging, and the ACME wire client. The command line, the packing
and compiling tools and the construction of runtimes have no state worth a model.

Hazards without a property: a failed `write_challenge` (`acme/mod.rs:348`), the counters
a reload forgets (`site.rs:115`) and the unread body behind a failed upload
(`server.rs:5245`) are cases the code does not handle, and the properties name them as
exceptions; scripts that run twice or are dropped in the middle of a
read of the body (`server.rs:948`, `1204`) lie between `Proxy` and `ScriptRun`; the
remaining two belong to the TLS stream and the logger. Of the TLS stream: a
`shutdown` while the other half drains, and a read that is dropped while a flush
is in flight (`boringtls.rs:954`), are what a model of it should look at first.
