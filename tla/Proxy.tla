------------------------------- MODULE Proxy -------------------------------
(***************************************************************************)
(* HTTP/1.1 client connections of one worker whose requests are proxied    *)
(* over kept-alive backend connections: the request loop and               *)
(* handle_request, reverse_proxy_request and proxy_over_connection with    *)
(* their fast paths, and the worker's connection pool.                     *)
(*                                                                         *)
(* The worker is one thread: what happens between two awaits is one step,  *)
(* and the tasks of the clients, the backend and the network interleave.   *)
(* A request body is a number of chunks, a response a head followed by at  *)
(* most one piece of body.  One backend (one pool key) is modelled; it     *)
(* answers the requests of a connection in order and may close it at any   *)
(* time.  A read waits for bytes that are still on their way, a poll sees  *)
(* only those that have arrived.  What the backend has not taken in of an  *)
(* upload fills a buffer, and a write waits while it is full; a client     *)
(* reads what it is sent, or leaves.  Body bytes read where a response     *)
(* head is expected do not parse as one.                                   *)
(*                                                                         *)
(* Left out: WebSocket tunnels (never pooled), Expect: 100-continue,       *)
(* interim 1xx responses, streaming compression and HTTP/2 clients.        *)
(***************************************************************************)
EXTENDS Integers, Sequences

CONSTANTS
    Clients,        \* client connections
    NConns,         \* backend connections that may exist at a time
    MaxPool,        \* MAX_POOL_PER_KEY
    MaxRequests,    \* bound on the requests of a behaviour
    MaxBody,        \* bound on the chunks of a request body
    SocketBuf,      \* chunks of an upload between here and the backend
    Environments    \* what the clients and the backend may do

Conns == 1..NConns
NoConn == 0

\* What the script outcome asks for: the simple fast path, a proxied request
\* with a tracked writer, without or with response hooks, a forward_auth
\* subrequest (sent as a GET without the body), which has a hook too, or an
\* answer made locally.
Plans == {"fast", "full", "hooked", "auth", "local"}

\* routes: the outcome has Caddy error routes.  The simple path is for a GET
\* without a body (can_use_simple_proxy_fast_path).
Request == [method : {"GET", "HEAD", "POST"}, body : 0..MaxBody,
            plan : Plans, routes : BOOLEAN]
PossibleRequest ==
    {r \in Request :
        /\ r.plan = "fast" => r.method = "GET" /\ r.body = 0
        /\ r.plan = "local" => ~r.routes}

\* A response: whether its status is >= 400, how its body is framed, whether
\* it says Connection: close.
Framings == {"none", "fixed", "chunked", "eof"}
Response == [err : BOOLEAN, framing : Framings, close : BOOLEAN]

\* An environment: the clients that connect, how many requests they send in
\* all and which, how a continued request may be proxied, the responses of the
\* backend, whether it is reached over TLS, and how many connections earlier
\* requests have left in the pool.
Environment ==
    [clients : SUBSET Clients, count : 0..MaxRequests, warm : 0..MaxPool,
     requests : SUBSET PossibleRequest, plans : SUBSET (Plans \ {"local"}),
     responses : SUBSET Response, tls : BOOLEAN]

ASSUME BoundsAssumption ==
    /\ NConns \in Nat /\ MaxPool \in 1..NConns
    /\ MaxRequests \in Nat /\ MaxBody \in Nat /\ SocketBuf \in Nat \ {0}
    /\ Environments \subseteq Environment

NoRequest == [method |-> "GET", body |-> 0, plan |-> "local", routes |-> FALSE]

\* What a backend sends: a response head (to the request id), a body, its
\* close.  A request and the one it is continued with differ in their stage.
Ids == (1..MaxRequests) \X (1..2)
NoId == <<0, 0>>
Token(kind, id, response) == [kind |-> kind, id |-> id, response |-> response]
Empty == [err |-> FALSE, framing |-> "none", close |-> FALSE]
NoResponse == Token("head", NoId, Empty)
Body == Token("body", NoId, Empty)
Fin == Token("fin", NoId, Empty)
Tokens == [kind : {"head", "body", "fin"}, id : Ids \cup {NoId},
           response : Response]

VARIABLES
    cl,       \* client connections and the state of their tasks
    be,       \* backend connections
    pool,     \* ProxyPool.entries of the key
    hits,     \* history: how often a backend received each request
    nextId,   \* next request
    env       \* the environment

vars == <<cl, be, pool, hits, nextId, env>>

\* A task: where it is, its request, the chunks of its body not read off the
\* client connection yet and whether the task has not given the body away; response
\* heads written for the request, the request the last of them answers, and
\* whether a response is complete; the backend connection, whether it came
\* from the pool, the response head being handled, whether the body was sent
\* completely, whether the client connection will be kept; 1 before and 2
\* after the request was continued, whether proxying it has failed, and
\* whether the client has hung up meanwhile.
IdleClient ==
    [pc |-> "idle", id |-> 0, req |-> NoRequest, unread |-> 0, body |-> FALSE,
     heads |-> 0, from |-> NoId, full |-> TRUE, conn |-> NoConn,
     pooled |-> FALSE, resp |-> NoResponse, sent |-> TRUE, keep |-> TRUE,
     stage |-> 1, failed |-> FALSE, gone |-> FALSE]

\* A backend connection: requests received and not answered yet, chunks of
\* the last one's body still to be written, and written but not taken in by
\* the backend, how the body still to be sent is framed, tokens sent and not
\* read, whether the first of them has arrived, and whether the backend has
\* closed it.
Fresh == [open |-> FALSE, reqs |-> <<>>, need |-> 0, inbox |-> 0,
          owes |-> "none", wire |-> <<>>, seen |-> FALSE, closed |-> FALSE]

Init ==
    /\ env \in Environments
    /\ cl = [c \in Clients |-> IdleClient]
    /\ be = [b \in Conns |-> [Fresh EXCEPT !.open = b <= env.warm]]
    /\ pool = [i \in 1..env.warm |-> i]
    /\ hits = [i \in Ids |-> 0]
    /\ nextId = 1

-----------------------------------------------------------------------------
(* The backend and the network.                                            *)

Ended(b) ==
    [b EXCEPT !.wire = Append(b.wire, Fin), !.closed = TRUE, !.reqs = <<>>,
              !.need = 0, !.inbox = 0, !.owes = "none"]

Answered(b, response) ==
    LET r == Head(b.reqs) IN
    [b EXCEPT !.wire = Append(b.wire, Token("head", r.id, response)),
              !.reqs = Tail(b.reqs),
              !.owes = IF r.head THEN "none" ELSE response.framing]

\* An answer is sent once the request is complete, or before that.
Answer(b, response) ==
    /\ be[b].open /\ ~be[b].closed /\ be[b].reqs # <<>> /\ be[b].owes = "none"
    /\ be' = [be EXCEPT ![b] = Answered(be[b], response)]
    /\ UNCHANGED <<cl, pool, hits, nextId, env>>

BodySent(b) == [b EXCEPT !.wire = Append(b.wire, Body), !.owes = "none"]

\* A body that is delimited by the close is followed by it.
SendBody(b) ==
    /\ be[b].open /\ ~be[b].closed /\ be[b].owes # "none"
    /\ be' = [be EXCEPT ![b] =
                IF be[b].owes = "eof" THEN Ended(BodySent(be[b]))
                ELSE BodySent(be[b])]
    /\ UNCHANGED <<cl, pool, hits, nextId, env>>

Close(b) ==
    /\ be[b].open /\ ~be[b].closed
    /\ be' = [be EXCEPT ![b] = Ended(be[b])]
    /\ UNCHANGED <<cl, pool, hits, nextId, env>>

\* The backend takes in a chunk of an upload.
Receive(b) ==
    /\ be[b].inbox > 0
    /\ be' = [be EXCEPT ![b] = [be[b] EXCEPT !.inbox = be[b].inbox - 1]]
    /\ UNCHANGED <<cl, pool, hits, nextId, env>>

Arrive(b) ==
    /\ be[b].wire # <<>> /\ ~be[b].seen
    /\ be' = [be EXCEPT ![b] = [be[b] EXCEPT !.seen = TRUE]]
    /\ UNCHANGED <<cl, pool, hits, nextId, env>>

\* Reading the token at the front; the end of the stream stays readable.
ReadOff(b) ==
    IF Head(b.wire).kind = "fin" THEN [b EXCEPT !.seen = TRUE]
    ELSE [b EXCEPT !.wire = Tail(b.wire), !.seen = FALSE]
Readable(c, kind) ==
    be[cl[c].conn].wire # <<>> /\ Head(be[cl[c].conn].wire).kind \in kind
Tok(c) == Head(be[cl[c].conn].wire)
Consumed(c) == ReadOff(be[cl[c].conn])

-----------------------------------------------------------------------------
(* The client side of a task.                                              *)

\* The method sent to the backend, and whether the body goes with it.
Method(k) == IF k.req.plan = "auth" THEN "GET" ELSE k.req.method
SendsBody(k) == Method(k) = "POST"
Id(k) == <<k.id, k.stage>>
HeadOnly(k) == k.req.method = "HEAD"

\* body.hint() is None: there is no body, or the task gave it away.
NoBody(k) == ~k.body \/ k.req.body = 0

\* drain_payload reads what the task holds of the body to its end.
Drained(k) == IF k.body THEN 0 ELSE k.unread
Left(k, left) == [k EXCEPT !.unread = left]
DrainedTask(k) == Left(k, Drained(k))

\* A drain that is given up after CLIENT_BODY_LINGER_DRAIN leaves the rest.
LingerDrain(k, left) ==
    /\ left \in 0..k.unread
    /\ ~k.body => left = k.unread
LingerDone(k, left) == ~k.body \/ left = 0

\* One more chunk of the body is read off the client connection.
ReadChunk(k) == Left(k, k.unread - 1)

\* send_fixed: a complete response made by the server itself.
SendFixed(k) == [k EXCEPT !.heads = k.heads + 1, !.from = NoId, !.full = TRUE]

\* handle_request returns: the connection is kept or closed.
Return(k, keep) ==
    [IdleClient EXCEPT !.pc = IF keep /\ ~k.gone THEN "idle" ELSE "closed",
                       !.id = k.id, !.req = k.req, !.unread = k.unread,
                       !.body = k.body, !.heads = k.heads, !.from = k.from,
                       !.full = k.full, !.stage = k.stage,
                       !.failed = k.failed, !.gone = k.gone]

\* The backend connection of c is dropped, and with it closed.
DropConn(c) ==
    be' = IF cl[c].conn = NoConn THEN be ELSE [be EXCEPT ![cl[c].conn] = Fresh]

\* The request is proxied on a fast path of the request loop, whose writer
\* does not record that a response was started.
Untracked(req) == req.plan = "fast" /\ ~req.routes

\* Continuing a request, from the start of its scripts.
Rerun(k) == [k EXCEPT !.pc = "continue", !.stage = 2, !.conn = NoConn,
                      !.resp = NoResponse]

\* Mutant of AfterError: the started flag is not looked at.
AfterErrorAnswers(k) ==
    IF k.stage = 2 THEN Return(k, FALSE)
    ELSE IF k.heads = 0 /\ k.req.routes THEN Rerun([k EXCEPT !.body = FALSE])
    ELSE Return(SendFixed(k), TRUE)

\* What handle_request makes of an error of reverse_proxy_request, given the
\* state k of the task: after a continuation the connection is closed; the
\* fast paths answer 502; otherwise the connection is closed once anything was
\* written, and error routes continue the request without its body.
AfterError(k) ==
    IF k.stage = 2 \/ (~Untracked(k.req) /\ k.heads > 0) THEN Return(k, FALSE)
    ELSE IF k.heads = 0 /\ k.req.routes THEN Rerun([k EXCEPT !.body = FALSE])
    ELSE Return(SendFixed(k), TRUE)

Failed(k) == AfterError([k EXCEPT !.failed = TRUE])
Become(c, k) == cl' = [cl EXCEPT ![c] = k]
Fail(c) == Become(c, Failed(cl[c]))

-----------------------------------------------------------------------------
(* The request loop and handle_request.                                    *)

NextRequest(c, r) ==
    /\ cl[c].pc = "idle" /\ cl[c].unread = 0
    /\ c \in env.clients /\ nextId <= env.count
    /\ nextId' = nextId + 1
    /\ Become(c, [IdleClient EXCEPT
                     !.pc = IF r.plan = "local" THEN "local" ELSE "proxy",
                     !.id = nextId, !.req = r, !.unread = r.body, !.body = TRUE])
    /\ UNCHANGED <<be, pool, hits, env>>

\* What is left of a body does not parse as a request.
ParseError(c) ==
    /\ cl[c].pc = "idle" /\ cl[c].unread > 0
    /\ Become(c, [cl[c] EXCEPT !.pc = "closed"])
    /\ UNCHANGED <<be, pool, hits, nextId, env>>

\* A script response, a file or a fixed error: the body is drained first, and
\* the response may ask for the connection to be closed.
ServeLocal(c) ==
    /\ cl[c].pc = "local"
    /\ \E keep \in BOOLEAN : Become(c, Return(SendFixed(DrainedTask(cl[c])), keep))
    /\ UNCHANGED <<be, pool, hits, nextId, env>>

\* script_outcome.abort.
Abort(c) ==
    /\ cl[c].pc \in {"local", "continue"}
    /\ Become(c, Return(cl[c], FALSE))
    /\ UNCHANGED <<be, pool, hits, nextId, env>>

\* The proxied request runs behind the tracked writer, raced by the hangup.
Tracked(c) ==
    /\ cl[c].pc \notin {"idle", "local", "continue", "closed"}
    /\ cl[c].stage = 1 /\ ~Untracked(cl[c].req)

\* The client goes away: whichever read or write notices, the task ends and
\* the backend connection it holds is dropped.
ClientLeaves(c) ==
    /\ cl[c].pc # "closed" /\ ~Tracked(c)
    /\ DropConn(c)
    /\ Become(c, Return(cl[c], FALSE))
    /\ UNCHANGED <<pool, hits, nextId, env>>

\* The hangup interrupts a tracked request, which goes on as after any error:
\* it is answered, if only into the void, or continued with its error routes.
Interrupt(c) ==
    /\ Tracked(c)
    /\ DropConn(c)
    /\ Become(c, Failed([cl[c] EXCEPT !.gone = TRUE]))
    /\ UNCHANGED <<pool, hits, nextId, env>>

\* The continued request is answered locally, or proxied.
ContinueLocal(c) ==
    /\ cl[c].pc = "continue"
    /\ \E keep \in BOOLEAN : Become(c, Return(SendFixed(DrainedTask(cl[c])), keep))
    /\ UNCHANGED <<be, pool, hits, nextId, env>>

ContinueProxy(c, plan) ==
    /\ cl[c].pc = "continue"
    /\ plan = "fast" => cl[c].req.method = "GET" /\ NoBody(cl[c])
    /\ Become(c, [cl[c] EXCEPT !.pc = "proxy",
                               !.req = [cl[c].req EXCEPT !.plan = plan]])
    /\ UNCHANGED <<be, pool, hits, nextId, env>>

-----------------------------------------------------------------------------
(* reverse_proxy_request: checks, pool and dial.                           *)

\* The backend URL or the URI built from it is bad.
BadTarget(c) ==
    /\ cl[c].pc = "proxy"
    /\ Become(c, Failed(DrainedTask(cl[c])))
    /\ UNCHANGED <<be, pool, hits, nextId, env>>

\* The URI override of a subrequest does not parse: `?`, without a drain.
BadOverride(c) ==
    /\ cl[c].pc = "proxy" /\ cl[c].req.plan = "auth"
    /\ Fail(c)
    /\ UNCHANGED <<be, pool, hits, nextId, env>>

\* 413, before or in the middle of the upload: the rest of the body is
\* drained for a while, and the client kept if that was enough.
RejectTooLarge(c, left) ==
    Become(c, Return(SendFixed(Left(cl[c], left)), LingerDone(cl[c], left)))

\* The declared length is over the limit.
DeclaredTooLarge(c, left) ==
    /\ cl[c].pc = "proxy" /\ SendsBody(cl[c]) /\ cl[c].req.body > 0
    /\ LingerDrain(cl[c], left)
    /\ RejectTooLarge(c, left)
    /\ UNCHANGED <<be, pool, hits, nextId, env>>

\* connection_still_idle: nothing has arrived.
Idle(b) == ~be[b].seen

Taken(c, b) ==
    [cl[c] EXCEPT !.pc = IF b = NoConn THEN "dial" ELSE "request",
                  !.conn = b, !.pooled = b # NoConn]

\* Mutant of Take: the connection is looked up without being removed.
TakePeeks(c) ==
    /\ cl[c].pc = "proxy"
    /\ \E last \in 0..Len(pool) :
          /\ last > 0 => Idle(pool[last])
          /\ \A i \in (last + 1)..Len(pool) : ~Idle(pool[i])
          /\ be' = [b \in Conns |->
                      IF \E i \in (last + 1)..Len(pool) : pool[i] = b
                      THEN Fresh ELSE be[b]]
          /\ Become(c, Taken(c, IF last = 0 THEN NoConn ELSE pool[last]))
          /\ pool' = SubSeq(pool, 1, last)
    /\ UNCHANGED <<hits, nextId, env>>

\* ProxyPool::take pops until it finds an idle connection; the ones it pops
\* before that are dropped.
Take(c) ==
    /\ cl[c].pc = "proxy"
    /\ \E last \in 0..Len(pool) :
          /\ last > 0 => Idle(pool[last])
          /\ \A i \in (last + 1)..Len(pool) : ~Idle(pool[i])
          /\ be' = [b \in Conns |->
                      IF \E i \in (last + 1)..Len(pool) : pool[i] = b
                      THEN Fresh ELSE be[b]]
          /\ Become(c, Taken(c, IF last = 0 THEN NoConn ELSE pool[last]))
          /\ pool' = SubSeq(pool, 1, last - 1)
    /\ UNCHANGED <<hits, nextId, env>>

Connect(c) ==
    /\ cl[c].pc \in {"dial", "redial"}
    /\ \E b \in Conns :
          /\ ~be[b].open /\ \A x \in Conns : x < b => be[x].open
          /\ be' = [be EXCEPT ![b] = [Fresh EXCEPT !.open = TRUE]]
          /\ Become(c, [cl[c] EXCEPT !.pc = "request", !.conn = b,
                                     !.pooled = FALSE])
    /\ UNCHANGED <<pool, hits, nextId, env>>

\* The first dial drains the body before it fails; a replay has none.
ConnectFails(c) ==
    /\ cl[c].pc \in {"dial", "redial"}
    /\ Become(c, Failed(DrainedTask(cl[c])))
    /\ UNCHANGED <<be, pool, hits, nextId, env>>

-----------------------------------------------------------------------------
(* proxy_over_connection: sending the request.                             *)

\* Mutant of Replayable: the body of the request is not looked at.
ReplayableByMethod(k) == k.pooled /\ Method(k) \in {"GET", "HEAD"}

\* An error marked ProxyNoResponse: on a pooled connection a GET or HEAD
\* without a body is replayed, once, on a fresh dial.
Replayable(k) ==
    k.pooled /\ Method(k) \in {"GET", "HEAD"} /\ NoBody(k)

ProxyNoResponse(c) ==
    /\ DropConn(c)
    /\ IF Replayable(cl[c])
       THEN Become(c, [cl[c] EXCEPT !.pc = "redial", !.conn = NoConn])
       ELSE Fail(c)

\* The request head is written; a closed connection may still take the bytes.
SendHead(c) ==
    /\ cl[c].pc = "request"
    /\ LET b == cl[c].conn
           upload == SendsBody(cl[c]) /\ ~NoBody(cl[c])
       IN /\ IF be[b].closed
             THEN UNCHANGED <<be, hits>>
             ELSE /\ be' = [be EXCEPT ![b] = [be[b] EXCEPT
                               !.reqs = Append(be[b].reqs,
                                          [id |-> Id(cl[c]),
                                           head |-> Method(cl[c]) = "HEAD"]),
                               !.need = IF upload THEN cl[c].unread ELSE 0]]
                  /\ hits' = [hits EXCEPT ![Id(cl[c])] = @ + 1]
          /\ Become(c, [cl[c] EXCEPT !.pc = IF upload THEN "upload" ELSE "await",
                                     !.resp = NoResponse, !.sent = TRUE])
    /\ UNCHANGED <<pool, nextId, env>>

SendHeadFails(c) ==
    /\ cl[c].pc = "request" /\ be[cl[c].conn].closed
    /\ ProxyNoResponse(c)
    /\ UNCHANGED <<pool, hits, nextId, env>>

\* forward_request_body polls for an early response only over plaintext, and
\* only until it has one.
Watching(c) == ~env.tls /\ cl[c].resp = NoResponse
Pending(c) == be[cl[c].conn].seen

\* A chunk is read; unless there is an early response it will be written.
UploadRead(c) ==
    /\ cl[c].pc = "upload" /\ cl[c].unread > 0
    /\ Watching(c) => ~Pending(c)
    /\ Become(c, [ReadChunk(cl[c]) EXCEPT !.pc = "write"])
    /\ UNCHANGED <<be, pool, hits, nextId, env>>

\* The chunk is written, once there is room; a closed connection may still
\* take the bytes.
UploadWrite(c) ==
    /\ cl[c].pc = "write"
    /\ LET b == cl[c].conn IN
          \/ /\ ~be[b].closed /\ be[b].inbox < SocketBuf
             /\ be' = [be EXCEPT ![b] = [be[b] EXCEPT
                          !.need = be[b].need - 1, !.inbox = be[b].inbox + 1]]
          \/ be[b].closed /\ UNCHANGED be
    /\ Become(c, [cl[c] EXCEPT !.pc = "upload"])
    /\ UNCHANGED <<pool, hits, nextId, env>>

\* Mutant of UploadTooLarge: the backend connection goes back to the pool.
UploadTooLargeReuse(c, left) ==
    /\ cl[c].pc = "upload" /\ cl[c].unread > 0
    /\ left < cl[c].unread
    /\ Len(pool) < MaxPool
    /\ pool' = Append(pool, cl[c].conn)
    /\ RejectTooLarge(c, left)
    /\ UNCHANGED <<be, hits, nextId, env>>

\* A chunk is read and puts the body over the limit.
UploadTooLarge(c, left) ==
    /\ cl[c].pc = "upload" /\ cl[c].unread > 0
    /\ left < cl[c].unread
    /\ DropConn(c)
    /\ RejectTooLarge(c, left)
    /\ UNCHANGED <<pool, hits, nextId, env>>

\* A chunk is read and the backend has answered before taking it: an error
\* ends the upload, another response is kept for later.
EarlyResponse(c) ==
    /\ cl[c].pc = "upload" /\ cl[c].unread > 0
    /\ Watching(c) /\ Pending(c) /\ Readable(c, {"head"})
    /\ be' = [be EXCEPT ![cl[c].conn] = Consumed(c)]
    /\ LET err == Tok(c).response.err IN
          Become(c, [ReadChunk(cl[c]) EXCEPT
                        !.resp = Tok(c), !.sent = ~err,
                        !.pc = IF err THEN "respond" ELSE "write"])
    /\ UNCHANGED <<pool, hits, nextId, env>>

\* A chunk is read and the backend has closed, or sent what is no response.
EarlyClose(c) ==
    /\ cl[c].pc = "upload" /\ cl[c].unread > 0
    /\ Watching(c) /\ Pending(c) /\ Readable(c, {"body", "fin"})
    /\ DropConn(c)
    /\ Become(c, Failed(ReadChunk(cl[c])))
    /\ UNCHANGED <<pool, hits, nextId, env>>

\* A chunk, or the end of the body, cannot be written.  An error response
\* that can still be read is salvaged.
WriteFails(c) ==
    /\ cl[c].pc = "write" \/ (cl[c].pc = "upload" /\ cl[c].unread = 0)
    /\ be[cl[c].conn].closed

UploadFails(c) ==
    /\ WriteFails(c)
    /\ DropConn(c)
    /\ Fail(c)
    /\ UNCHANGED <<pool, hits, nextId, env>>

Salvage(c) ==
    /\ WriteFails(c)
    /\ Readable(c, {"head"}) /\ Tok(c).response.err
    /\ be' = [be EXCEPT ![cl[c].conn] = Consumed(c)]
    /\ Become(c, [cl[c] EXCEPT !.sent = FALSE, !.resp = Tok(c),
                               !.pc = "respond"])
    /\ UNCHANGED <<pool, hits, nextId, env>>

\* Mutant of UploadDone: the response that came during the upload is
\* forgotten and another one awaited.
UploadDoneForgets(c) ==
    /\ cl[c].pc = "upload" /\ cl[c].unread = 0
    /\ Become(c, [cl[c] EXCEPT !.pc = "await"])
    /\ UNCHANGED <<be, pool, hits, nextId, env>>

UploadDone(c) ==
    /\ cl[c].pc = "upload" /\ cl[c].unread = 0
    /\ Become(c, [cl[c] EXCEPT !.pc = IF cl[c].resp = NoResponse THEN "await"
                                      ELSE "respond"])
    /\ UNCHANGED <<be, pool, hits, nextId, env>>

-----------------------------------------------------------------------------
(* proxy_over_connection: relaying the response.                           *)

ReadHead(c) ==
    /\ cl[c].pc = "await" /\ Readable(c, {"head"})
    /\ be' = [be EXCEPT ![cl[c].conn] = Consumed(c)]
    /\ Become(c, [cl[c] EXCEPT !.resp = Tok(c), !.pc = "respond"])
    /\ UNCHANGED <<pool, hits, nextId, env>>

\* The backend closed without a response, or sent what does not parse.
ReadHeadFails(c) ==
    /\ cl[c].pc = "await" /\ Readable(c, {"body", "fin"})
    /\ ProxyNoResponse(c)
    /\ UNCHANGED <<pool, hits, nextId, env>>

\* Mutant of CanReuse: the request body need not have been sent completely.
CanReuseUnsent(k) ==
    /\ ~k.resp.response.close
    /\ k.resp.response.framing = "eof" => k.req.plan = "fast"

\* The backend connection may carry another request.  The simple fast path
\* does not exclude a body that ends with the connection.
CanReuse(k) ==
    /\ k.sent /\ ~k.resp.response.close
    /\ k.resp.response.framing = "eof" => k.req.plan = "fast"

\* ProxyPool::put drops a connection with bytes in its parse buffer (an
\* earlier read may have taken in what follows), and one there is no room for.
PutOrDrop(b, reuse, backend) ==
    \/ /\ reuse /\ Len(pool) < MaxPool
       /\ pool' = Append(pool, b)
       /\ be' = [be EXCEPT ![b] = backend]
    \/ /\ \/ ~reuse
          \/ Len(pool) >= MaxPool
          \/ \E i \in 1..Len(backend.wire) : backend.wire[i] # Fin
       /\ pool' = pool
       /\ be' = [be EXCEPT ![b] = Fresh]

\* reverse_proxy_request returns: k is the task, backend the connection.
Finish(c, k, backend) ==
    /\ PutOrDrop(cl[c].conn, CanReuse(cl[c]), backend)
    /\ Become(c, k)

\* A response hook may continue the request, whatever its method and the
\* status of the response.
MayContinue(k) == k.req.plan \in {"hooked", "auth"}

\* Mutant of GivenUp: the rest of the upload is not drained.
GivenUpUndrained(k) == [k EXCEPT !.body = k.body /\ ~SendsBody(k)]

\* What a continuation leaves of the client's body: the rest of an upload that
\* was broken off is drained, and a body that was to be sent is given up.
GivenUp(k) ==
    [k EXCEPT !.unread = IF k.sent THEN k.unread ELSE Drained(k),
              !.body = k.body /\ ~SendsBody(k)]

\* handle_request continues a request once; when a hook of a continued request
\* asks for it again, handle_request returns.
Continued(k) ==
    IF k.stage = 1 THEN Rerun(GivenUp(k)) ELSE Return(GivenUp(k), TRUE)

\* The body of the response is drained first, unless the client sent a HEAD.
HookContinue(c) ==
    /\ cl[c].pc = "respond" /\ MayContinue(cl[c])
    /\ HeadOnly(cl[c]) \/ cl[c].resp.response.framing = "none"
    /\ Finish(c, Continued(cl[c]), be[cl[c].conn])
    /\ UNCHANGED <<hits, nextId, env>>

HookDrain(c) ==
    /\ cl[c].pc = "respond" /\ MayContinue(cl[c])
    /\ ~HeadOnly(cl[c]) /\ cl[c].resp.response.framing \in {"fixed", "chunked"}
    /\ Readable(c, {"body"})
    /\ Finish(c, Continued(cl[c]), Consumed(c))
    /\ UNCHANGED <<hits, nextId, env>>

\* A body delimited by the close is drained once the backend has closed.
HookDrainEnds(c) ==
    /\ cl[c].pc = "respond" /\ MayContinue(cl[c])
    /\ ~HeadOnly(cl[c]) /\ cl[c].resp.response.framing = "eof"
    /\ be[cl[c].conn].closed
    /\ Finish(c, Continued(cl[c]), be[cl[c].conn])
    /\ UNCHANGED <<hits, nextId, env>>

HookDrainFails(c) ==
    /\ cl[c].pc = "respond" /\ MayContinue(cl[c])
    /\ ~HeadOnly(cl[c]) /\ cl[c].resp.response.framing \in {"fixed", "chunked"}
    /\ Readable(c, {"fin"})
    /\ DropConn(c)
    /\ Fail(c)
    /\ UNCHANGED <<pool, hits, nextId, env>>

\* Before the response is written the rest of the client's body is drained: to
\* the end if it was not to be sent, for a while after an early response.
ClientDrained(k, left) ==
    IF ~SendsBody(k) THEN left = Drained(k)
    ELSE IF k.sent THEN left = k.unread
    ELSE LingerDrain(k, left)

\* Mutant of ClientReusable: the time-out of the drain is ignored.
ClientReusableAlways(k, left) == TRUE

ClientReusable(k, left) == k.sent \/ LingerDone(k, left)

\* The response head goes out.
Relay(k, left, full) ==
    [k EXCEPT !.unread = left, !.heads = k.heads + 1, !.from = k.resp.id,
              !.full = full]

\* A response without a body, or the head alone.
RelayHead(c, left) ==
    /\ cl[c].pc = "respond"
    /\ HeadOnly(cl[c]) \/ cl[c].resp.response.framing = "none"
    /\ ClientDrained(cl[c], left)
    /\ Finish(c, Return(Relay(cl[c], left, TRUE), ClientReusable(cl[c], left)),
              be[cl[c].conn])
    /\ UNCHANGED <<hits, nextId, env>>

\* Without hooks a response with a plain Content-Length takes the raw path:
\* it is passed on as it came, and the client's body is not looked at.
RawFixed(k, left) ==
    /\ k.req.plan \in {"fast", "full"}
    /\ k.sent /\ left = k.unread

\* A body of known length is collected before anything is written.
RelayFixed(c, left) ==
    /\ cl[c].pc = "respond"
    /\ ~HeadOnly(cl[c]) /\ cl[c].resp.response.framing = "fixed"
    /\ RawFixed(cl[c], left) \/ ClientDrained(cl[c], left)
    /\ Readable(c, {"body"})
    /\ Finish(c, Return(Relay(cl[c], left, TRUE), ClientReusable(cl[c], left)),
              Consumed(c))
    /\ UNCHANGED <<hits, nextId, env>>

RelayFixedFails(c, left) ==
    /\ cl[c].pc = "respond"
    /\ ~HeadOnly(cl[c]) /\ cl[c].resp.response.framing = "fixed"
    /\ RawFixed(cl[c], left) \/ ClientDrained(cl[c], left)
    /\ Readable(c, {"fin"})
    /\ DropConn(c)
    /\ Become(c, Failed(Left(cl[c], left)))
    /\ UNCHANGED <<pool, hits, nextId, env>>

\* Any other body is forwarded as it comes, after the head; on the simple path
\* also one of known length, unless it is raw.
Streamed(k) ==
    \/ k.resp.response.framing \in {"chunked", "eof"}
    \/ k.resp.response.framing = "fixed" /\ k.req.plan = "fast"

RelayStart(c, left) ==
    /\ cl[c].pc = "respond"
    /\ ~HeadOnly(cl[c]) /\ Streamed(cl[c])
    /\ ClientDrained(cl[c], left)
    /\ Become(c, [Relay(cl[c], left, FALSE) EXCEPT
                     !.pc = "relay", !.keep = ClientReusable(cl[c], left)])
    /\ UNCHANGED <<be, pool, hits, nextId, env>>

RelayBody(c) ==
    /\ cl[c].pc = "relay" /\ Readable(c, {"body"})
    /\ IF cl[c].resp.response.framing = "eof"
       THEN /\ be' = [be EXCEPT ![cl[c].conn] = Consumed(c)]
            /\ UNCHANGED <<cl, pool>>
       ELSE Finish(c, Return([cl[c] EXCEPT !.full = TRUE], cl[c].keep),
                   Consumed(c))
    /\ UNCHANGED <<hits, nextId, env>>

RelayEnds(c) ==
    /\ cl[c].pc = "relay" /\ Readable(c, {"fin"})
    /\ IF cl[c].resp.response.framing = "eof"
       THEN Finish(c, Return([cl[c] EXCEPT !.full = TRUE], cl[c].keep),
                   be[cl[c].conn])
       ELSE DropConn(c) /\ Fail(c) /\ UNCHANGED pool
    /\ UNCHANGED <<hits, nextId, env>>

-----------------------------------------------------------------------------
Task(c) ==
    \/ ParseError(c) \/ ServeLocal(c) \/ Abort(c)
    \/ ContinueLocal(c) \/ (\E plan \in env.plans : ContinueProxy(c, plan))
    \/ BadTarget(c) \/ BadOverride(c) \/ Take(c)
    \/ Connect(c) \/ ConnectFails(c) \/ SendHead(c) \/ SendHeadFails(c)
    \/ UploadRead(c) \/ UploadWrite(c) \/ EarlyResponse(c) \/ EarlyClose(c)
    \/ UploadFails(c) \/ Salvage(c) \/ UploadDone(c)
    \/ ReadHead(c) \/ ReadHeadFails(c)
    \/ HookContinue(c) \/ HookDrain(c) \/ HookDrainEnds(c) \/ HookDrainFails(c)
    \/ RelayBody(c) \/ RelayEnds(c)
    \/ \E left \in 0..MaxBody :
          \/ DeclaredTooLarge(c, left) \/ UploadTooLarge(c, left)
          \/ RelayHead(c, left) \/ RelayFixed(c, left)
          \/ RelayFixedFails(c, left) \/ RelayStart(c, left)

Answers(b) ==
    (\E response \in env.responses : Answer(b, response)) \/ SendBody(b)

Next ==
    \/ \E c \in Clients :
          \/ Task(c) \/ ClientLeaves(c) \/ Interrupt(c)
          \/ \E r \in env.requests : NextRequest(c, r)
    \/ \E b \in Conns : Answers(b) \/ Close(b) \/ Receive(b) \/ Arrive(b)

Spec == Init /\ [][Next]_vars

\* The worker polls its tasks, and the backend answers or closes.
FairSpec ==
    /\ Spec
    /\ \A c \in Clients : WF_vars(Task(c))
    /\ \A b \in Conns : WF_vars(Answers(b))

-----------------------------------------------------------------------------
(* Properties.                                                             *)

PCs == {"idle", "local", "proxy", "dial", "redial", "request", "upload",
        "write", "await", "respond", "relay", "continue", "closed"}

Tasks ==
    [pc : PCs, id : 0..MaxRequests, req : Request, unread : 0..MaxBody,
     body : BOOLEAN, heads : 0..2, from : Ids \cup {NoId}, full : BOOLEAN,
     conn : Conns \cup {NoConn}, pooled : BOOLEAN, resp : Tokens,
     sent : BOOLEAN, keep : BOOLEAN, stage : 1..2, failed : BOOLEAN,
     gone : BOOLEAN]

Backends ==
    [open : BOOLEAN, reqs : Seq([id : Ids, head : BOOLEAN]), need : 0..MaxBody,
     inbox : 0..SocketBuf, owes : Framings, wire : Seq(Tokens), seen : BOOLEAN,
     closed : BOOLEAN]

\* Type invariant; the pool keeps to its limit.
TypeOK ==
    /\ cl \in [Clients -> Tasks]
    /\ be \in [Conns -> Backends]
    /\ pool \in Seq(Conns) /\ Len(pool) <= MaxPool
    /\ hits \in [Ids -> Nat]
    /\ nextId \in 1..(MaxRequests + 1)
    /\ env \in Environments

\* A backend connection is held by one task or is in the pool once, never
\* both: no two exchanges share one, also when a task is dropped half way or
\* replays; and one that is neither held nor pooled has been closed.
Exclusive ==
    /\ \A c, d \in Clients :
          c # d /\ cl[c].conn # NoConn => cl[c].conn # cl[d].conn
    /\ \A i, j \in 1..Len(pool) : i # j => pool[i] # pool[j]
    /\ \A c \in Clients, i \in 1..Len(pool) : cl[c].conn # pool[i]
    /\ \A b \in Conns :
          be[b].open <=> \/ \E c \in Clients : cl[c].conn = b
                        \/ \E i \in 1..Len(pool) : pool[i] = b

\* The client never receives a response that belongs to another request: what
\* it gets was made here, or answers the very request that was proxied last
\* for it, whatever connections were reused, replayed, shared through the
\* pool or left over by other tasks.
OwnResponse ==
    \A c \in Clients :
        cl[c].heads > 0 => cl[c].from \in {NoId, Id(cl[c])}

\* A request reaches a backend at most twice before, and at most twice after
\* it is continued by a hook or by error routes; and each time at most once
\* unless it is sent as a GET or HEAD and its task holds no body of it: only
\* those may be replayed on a fresh dial (server.rs:4589-4594).  A request
\* whose body was sent and that a hook then continues is sent again, without
\* the body (server.rs:5393).
SafeReplay ==
    \A c \in Clients :
        cl[c].id > 0 =>
            hits[Id(cl[c])] <= IF SendsBody(cl[c]) \/ ~NoBody(cl[c]) THEN 1 ELSE 2

\* Behind the tracked writer a request gets one response, and a client
\* connection is kept only after all of it was written (server.rs:1620-1622);
\* an error after the first byte closes the connection instead.  The exception
\* is a continued request that a hook continues again.
OneResponse ==
    \A c \in Clients :
        ~Untracked(cl[c].req) =>
            /\ cl[c].heads <= 1
            /\ cl[c].pc = "idle" /\ cl[c].id > 0 =>
                  /\ cl[c].full
                  /\ cl[c].heads = 0 => MayContinue(cl[c]) /\ cl[c].stage = 2

\* Once a request is answered, and proxying it has not failed, a client
\* connection is kept only if the whole body of the request was read off it,
\* also when the backend answered early, a hook continued the request in the
\* middle of the upload, the body was over the limit or went to no backend
\* (server.rs:5379-5416).  The body of a GET or HEAD that is proxied
\* without hooks is the exception.
BodyConsumed ==
    \A c \in Clients :
        /\ cl[c].pc = "idle" /\ ~cl[c].failed /\ cl[c].heads > 0
        /\ cl[c].req.method = "POST" \/ cl[c].req.plan \in {"hooked", "local"}
        => cl[c].unread = 0

\* A connection in the pool carries no unfinished exchange: no request half
\* sent or unanswered, and, unless the client of a subrequest sent a HEAD (the
\* response to the subrequest's GET is then not drained), nothing but the
\* backend's close is on its way.
PoolQuiescent ==
    \A i \in 1..Len(pool) :
        LET b == be[pool[i]] IN
        /\ b.need = 0 /\ b.reqs = <<>>
        /\ (\A r \in env.requests :
                r.method = "HEAD" => "auth" \notin env.plans \cup {r.plan})
              => b.owes = "none" /\ b.wire \in {<<>>, <<Fin>>}

\* Every request comes to an end: no task waits for ever, on an early
\* response, a stale connection or a dead one, as long as the backend answers
\* or closes, and goes on reading an upload also when it has answered.  A
\* backend that does not, because nobody reads its response, is the exception:
\* forward_request_body reads nothing while a write waits (server.rs:6250), and
\* neither side moves.
RequestEnds ==
    (\A b \in Conns : WF_vars(Receive(b))) =>
        \A c \in Clients :
            cl[c].pc \notin {"idle", "closed"} ~> cl[c].pc \in {"idle", "closed"}

\* server.rs:1620-1622 for every path: once part of a response has reached the
\* client, "writing an error response now would corrupt the H1 framing, so
\* close the connection instead".
NoSecondResponse == \A c \in Clients : cl[c].heads <= 1
=============================================================================
