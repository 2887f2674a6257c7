---------------------------- MODULE ProxyProofs ----------------------------
(***************************************************************************)
(* Proofs about Proxy: which task or pool entry has a backend connection,  *)
(* what is on its way on it, how often a request is sent, and what a       *)
(* client gets.                                                            *)
(*                                                                         *)
(* The safety properties of Proxy rest on one inductive invariant, Inv.    *)
(* It says of every task what its own fields tell (Good), how often its    *)
(* request was sent (Sending), and how its exchange stands on the          *)
(* connection it holds (Fits, Tidy); of every pooled connection that it    *)
(* carries no exchange (Quiet, Clean); and who has which connection        *)
(* (Exclusive).  A step of a task does one of a few things to the          *)
(* connections: it leaves them alone, drops its own, uses its own, puts it *)
(* into the pool, takes one from there or makes one.  For each of them one *)
(* lemma (StaysKeeps, DropsKeeps, ...) shows that Inv is kept once the     *)
(* task's own part is.                                                     *)
(***************************************************************************)
EXTENDS Proxy, TLAPS

-----------------------------------------------------------------------------
(* The inductive invariant.                                                *)

Holding == {"request", "upload", "write", "await", "respond", "relay"}
AtRest == {"idle", "closed"}

\* The response k is dealing with.
Answering(k) == k.resp # NoResponse /\ k.pc \in {"upload", "write", "respond", "relay"}

\* A task alone: it has a connection exactly while it talks to the backend;
\* has written nothing before it relays; still holds its body unless its
\* request was continued, by an error or with that body read; and has read the
\* body where it will not look at it again.
Good(k) ==
    /\ k.pc \in Holding <=> k.conn # NoConn
    /\ k.pc \notin AtRest =>
          /\ k.id > 0
          /\ k.heads = IF k.pc = "relay" THEN 1 ELSE 0
          /\ ~k.body => k.stage = 2 /\ (k.failed \/ k.unread = 0)
    /\ k.pc = "local" => k.stage = 1
    /\ k.pc = "continue" => k.stage = 2
    /\ k.pc \notin {"closed", "relay"} => k.full
    /\ k.unread <= k.req.body
    /\ ~Untracked(k.req) =>
          /\ k.heads <= 1
          /\ k.pc = "idle" /\ k.id > 0 /\ k.heads = 0 =>
                MayContinue(k) /\ k.stage = 2
    /\ k.pc \in {"upload", "write"} => k.sent /\ SendsBody(k) /\ k.body
    /\ k.pc = "await" => k.sent /\ k.resp = NoResponse
    /\ k.pc \in {"respond", "relay"} => k.resp # NoResponse
    /\ k.pc \in {"await", "respond"} /\ SendsBody(k) /\ k.body /\ k.sent =>
          k.unread = 0
    /\ k.pc = "relay" /\ k.keep /\ ~k.failed
       /\ (k.req.method = "POST" \/ k.req.plan \in {"hooked", "local"}) =>
          k.unread = 0
    /\ k.pc = "idle" /\ k.heads > 0 /\ ~k.failed
       /\ (k.req.method = "POST" \/ k.req.plan \in {"hooked", "local"}) =>
          k.unread = 0
    /\ k.heads > 0 => k.from \in {NoId, Id(k)}
    /\ Answering(k) => k.resp.id = Id(k)

\* How often the request of k was sent, up to where the task is.
Repeatable(k) == Method(k) \in {"GET", "HEAD"} /\ NoBody(k)
Once(k) == SendsBody(k) \/ ~NoBody(k)
Sending(k) ==
    LET n == hits[Id(k)] IN
    /\ n \in Nat
    /\ k.stage = 1 => hits[<<k.id, 2>>] = 0
    /\ k.pc \in {"proxy", "dial", "continue", "local"} => n = 0
    /\ k.pc = "redial" => n <= 1 /\ Repeatable(k)
    /\ k.pc = "request" => n = 0 \/ (n <= 1 /\ ~k.pooled /\ Repeatable(k))
    /\ k.pc \in Holding /\ k.pc # "request" =>
          n <= 1 \/ (n <= 2 /\ ~k.pooled /\ Repeatable(k))
    /\ n <= IF Once(k) THEN 1 ELSE 2

\* A connection: a backend that has closed it is done with it.
NoHeads(w) == \A i \in 1..Len(w) : w[i].kind # "head"
Sound(b) ==
    /\ b.closed => b.reqs = <<>> /\ b.need = 0 /\ b.owes = "none"
    /\ \A i \in 1..Len(b.wire) : b.wire[i].kind = "fin" => b.closed

\* No exchange is on it.
Quiet(b) == b.reqs = <<>> /\ b.need = 0 /\ NoHeads(b.wire)

\* The exchange of task k: its request, or the one response to it.
Asked(k, b) ==
    /\ Len(b.reqs) = 1 /\ b.reqs[1].id = Id(k)
    /\ b.reqs[1].head <=> Method(k) = "HEAD"
    /\ NoHeads(b.wire)
Replied(k, b) ==
    /\ b.reqs = <<>>
    /\ \A i \in 1..Len(b.wire) : b.wire[i].kind = "head" =>
          /\ b.wire[i].id = Id(k)
          /\ \A j \in 1..Len(b.wire) : b.wire[j].kind = "head" => j = i
Fits(k, b) ==
    /\ k.pc = "request" => Quiet(b)
    /\ k.pc \in {"upload", "write", "await"} /\ ~Answering(k) =>
          Asked(k, b) \/ Replied(k, b)
    /\ Answering(k) => b.reqs = <<>> /\ NoHeads(b.wire)
    /\ k.pc = "upload" /\ ~b.closed => b.need = k.unread
    /\ k.pc = "write" /\ ~b.closed => b.need = k.unread + 1
    /\ k.pc \in {"await", "respond", "relay"} /\ k.sent => b.need = 0

\* The bytes of the exchange, where the client of a subrequest has not sent a
\* HEAD: after n tokens of wire w there is what is left of a body framed by f.
PlainHeads ==
    \A r \in env.requests : r.method = "HEAD" => "auth" \notin env.plans \cup {r.plan}
PlainHead(k) ==
    HeadOnly(k) /\ k.id > 0 => k.req.plan # "auth" /\ "auth" \notin env.plans
Rest(b, n, f) ==
    \/ b.owes = f /\ Len(b.wire) = n
    \/ b.owes = "none" /\ Len(b.wire) = n + 1 /\ b.wire[n + 1] = Fin
    \/ /\ f # "none" /\ b.owes = "none"
       /\ \/ f # "eof" /\ Len(b.wire) = n + 1 /\ b.wire[n + 1] = Body
          \/ Len(b.wire) = n + 2 /\ b.wire[n + 1] = Body /\ b.wire[n + 2] = Fin
Clean(b) == Rest(b, 0, "none")
FramedBy(k, response) == IF HeadOnly(k) THEN "none" ELSE response.framing
Tidy(k, b) ==
    /\ k.pc = "request" => Clean(b)
    /\ k.pc \in {"upload", "write", "await"} /\ ~Answering(k) =>
          \/ Clean(b)
          \/ /\ Len(b.wire) > 0 /\ b.wire[1].kind = "head"
             /\ Rest(b, 1, FramedBy(k, b.wire[1].response))
    /\ Answering(k) => Rest(b, 0, FramedBy(k, k.resp.response))

\* A task, a task and its connection, a pooled connection.
Fine(k) ==
    /\ k \in Tasks /\ Good(k)
    /\ k.id > 0 => Sending(k)
    /\ PlainHeads => PlainHead(k)
Linked(k, b) == Fits(k, b) /\ (PlainHeads => Tidy(k, b))
Spare(b) == Quiet(b) /\ (PlainHeads => Clean(b))

Numbered ==
    /\ \A c \in Clients : cl[c].id < nextId
    /\ \A c, d \in Clients : c # d /\ cl[c].id > 0 => cl[c].id # cl[d].id
    /\ \A i \in Ids : i[1] >= nextId => hits[i] = 0

Inv ==
    /\ TypeOK /\ Exclusive /\ Numbered
    /\ \A c \in Clients :
          Fine(cl[c]) /\ (cl[c].conn # NoConn => Linked(cl[c], be[cl[c].conn]))
    /\ \A i \in 1..Len(pool) : Spare(be[pool[i]])
    /\ \A b \in Conns : Sound(be[b])

\* Return, Rerun, SendFixed, Left and ReadChunk, field by field.
Returned(r, k, keep) ==
    /\ r \in Tasks
    /\ r.pc \in AtRest /\ (r.pc = "idle" => keep)
    /\ r.id = k.id /\ r.req = k.req /\ r.unread = k.unread /\ r.body = k.body
    /\ r.heads = k.heads /\ r.from = k.from /\ r.full = k.full
    /\ r.conn = NoConn /\ r.stage = k.stage /\ r.failed = k.failed

\* A task m that differs from k in what it has read of the body, and in where
\* it is, at most.
Alike(m, k) ==
    /\ m \in Tasks
    /\ m.id = k.id /\ m.req = k.req /\ m.body = k.body /\ m.heads = k.heads
    /\ m.from = k.from /\ m.full = k.full /\ m.stage = k.stage
    /\ m.failed = k.failed /\ m.unread <= k.unread

\* The backend sends one more token that is not a head.
Longer(w, b, t) ==
    /\ w \in Seq(Tokens) /\ Len(w) = Len(b.wire) + 1
    /\ \A i \in 1..Len(b.wire) : w[i] = b.wire[i]
    /\ w[Len(b.wire) + 1] = t
    /\ \A i \in 1..Len(w) : w[i].kind = "head" => i \in 1..Len(b.wire)
    /\ NoHeads(b.wire) => NoHeads(w)

\* A connection b that becomes B without a step of the task that holds it, and
\* with nothing but a body or the close sent: what was known of the exchange
\* still is.
Carries(b, B) ==
    /\ B \in Backends /\ Sound(B) /\ B.open = b.open
    /\ \/ B.need = b.need /\ B.closed = b.closed
       \/ B.need = 0 /\ B.closed = TRUE
    /\ b.reqs = <<>> => B.reqs = <<>>
    /\ NoHeads(b.wire) => NoHeads(B.wire)
    /\ \A k : Asked(k, b) \/ Replied(k, b) => Asked(k, B) \/ Replied(k, B)
    /\ Len(b.wire) > 0 => Len(B.wire) > 0 /\ B.wire[1] = b.wire[1]
    /\ \A n \in 0..1, f \in Framings : Rest(b, n, f) => Rest(B, n, f)

\* A task that goes on with its request, as far as how often it was sent is
\* concerned.
Moves(k, r) ==
    /\ r \in Tasks
    /\ r.id = k.id /\ r.req = k.req /\ r.stage = k.stage
    /\ r.failed = k.failed /\ r.body = k.body
    /\ \/ k.pc \in Holding \ {"request"} /\ r.pc \in Holding \ {"request"}
          /\ r.pooled = k.pooled
       \/ k.pc \in Holding /\ r.pc = "redial" /\ Replayable(k)
       \/ k.pc = "proxy" /\ r.pc \in {"dial", "request"}
       \/ k.pc = "dial" /\ r.pc = "request"
       \/ k.pc = "redial" /\ r.pc = "request" /\ r.pooled = FALSE

\* A response that comes during the upload.
Early(r, k, t, p, sent, u) ==
    /\ Fine(r) /\ r.conn = k.conn /\ r.id = k.id /\ r.req = k.req /\ r.pc = p
    /\ r.resp = t /\ r.sent = sent
    /\ r.unread = u

\* A relayed response whose task returns.
MayKeep(k, left) ==
    left = 0 \/ k.failed \/
    (k.req.method # "POST" /\ k.req.plan \notin {"hooked", "local"})

\* The leaves below are for Zenon unless they name another prover.
USE ZenonT(30)

-----------------------------------------------------------------------------
(* The initial states, a new request, and a step that changes nothing.     *)

\* The records the code starts from have their types.
LEMMA Constants ==
    /\ NoRequest \in Request /\ NoResponse \in Tokens /\ Body \in Tokens /\ Fin \in Tokens
    /\ IdleClient \in Tasks /\ Fresh \in Backends
<1>1. NoRequest \in Request
  BY BoundsAssumption, SMTT(30) DEF NoRequest, Request, Plans
<1>2. Empty \in Response
  BY DEF Empty, Response, Framings
<1>3. NoResponse \in Tokens /\ Body \in Tokens /\ Fin \in Tokens
  BY <1>2 DEF NoResponse, Body, Fin, Token, Tokens
<1>4. IdleClient \in Tasks
  BY <1>1, <1>3, BoundsAssumption, SMTT(30) DEF IdleClient, Tasks, PCs
<1>5. Fresh \in Backends
  BY BoundsAssumption, SMTT(30) DEF Fresh, Backends, Framings
<1> QED
  BY <1>1, <1>3, <1>4, <1>5

\* The pool of a warm start is a sequence of its connections.
LEMMA CountingUp ==
    ASSUME NEW S, NEW n \in Nat, 1..n \subseteq S, NEW s, s = [i \in 1..n |-> i]
    PROVE  s \in Seq(S) /\ Len(s) = n /\ \A i \in 1..n : s[i] = i
<1>1. s \in [1..n -> S]
  OBVIOUS
<1>2. s \in Seq(S)
  BY <1>1, SMTT(30)
<1>3. Len(s) \in Nat /\ DOMAIN s = 1..Len(s) /\ DOMAIN s = 1..n
  BY <1>2, SMTT(30)
<1>4. Len(s) = n
  BY <1>3, SMTT(30)
<1> QED
  BY <1>2, <1>4

\* Inv holds initially.
LEMMA InitInv == Init => Inv
<1> SUFFICES ASSUME Init PROVE Inv
  OBVIOUS
<1>0. /\ env \in Environments /\ cl = [c \in Clients |-> IdleClient]
      /\ be = [b \in Conns |-> [Fresh EXCEPT !.open = b <= env.warm]]
      /\ pool = [i \in 1..env.warm |-> i]
  BY DEF Init
<1>n. hits = [i \in Ids |-> 0] /\ nextId = 1
  BY DEF Init
<1>w. env.warm \in 0..MaxPool /\ env.warm \in Nat /\ 1..env.warm \subseteq Conns
  <2>1. env \in Environment
    BY <1>0, BoundsAssumption
  <2> QED
    BY <2>1, BoundsAssumption, SMTT(30) DEF Environment, Conns
<1>1. /\ IdleClient \in Tasks /\ Fresh \in Backends
      /\ IdleClient.pc = "idle" /\ IdleClient.id = 0 /\ IdleClient.conn = NoConn
      /\ IdleClient.full = TRUE /\ IdleClient.heads = 0 /\ IdleClient.unread = 0
      /\ IdleClient.req.body = 0
  BY Constants DEF IdleClient, NoRequest
<1>2. \A c \in Clients : cl[c] = IdleClient
  BY <1>0
<1>3. ASSUME NEW b \in Conns
      PROVE  /\ be[b] \in Backends
             /\ be[b].reqs = <<>> /\ be[b].need = 0 /\ be[b].owes = "none"
             /\ be[b].wire = <<>> /\ be[b].closed = FALSE
  <2>1. be[b] = [Fresh EXCEPT !.open = b <= env.warm]
    BY <1>0
  <2>2. (b <= env.warm) \in BOOLEAN
    BY <1>w, SMTT(30) DEF Conns
  <2>3. be[b] \in Backends
    BY <1>1, <2>1, <2>2, ZenonT(30) DEF Backends
  <2> QED
    BY <2>1, <2>3 DEF Fresh
<1>o. \A b \in Conns : be[b].open <=> b <= env.warm
  BY <1>0 DEF Fresh
<1>4. pool \in Seq(Conns) /\ Len(pool) = env.warm /\ \A i \in 1..Len(pool) : pool[i] = i
  BY <1>0, <1>w, CountingUp, SMTT(30)
<1>5. TypeOK
  <2>1. cl \in [Clients -> Tasks]
    BY <1>0, <1>1
  <2>2. be \in [Conns -> Backends]
    BY <1>0, <1>3
  <2>3. Len(pool) <= MaxPool
    BY <1>4, <1>w, BoundsAssumption, SMTT(30)
  <2>4. hits \in [Ids -> Nat] /\ nextId \in 1..(MaxRequests + 1)
    BY <1>n, BoundsAssumption, SMTT(30)
  <2> QED
    BY <1>0, <1>4, <2>1, <2>2, <2>3, <2>4 DEF TypeOK
<1>6. Exclusive
  <2>1. \A c, d \in Clients : c # d /\ cl[c].conn # NoConn => cl[c].conn # cl[d].conn
    BY <1>1, <1>2
  <2>2. \A i, j \in 1..Len(pool) : i # j => pool[i] # pool[j]
    BY <1>4
  <2>3. \A c \in Clients, i \in 1..Len(pool) : cl[c].conn # pool[i]
    BY <1>1, <1>2, <1>4, SMTT(30) DEF NoConn
  <2>4. ASSUME NEW b \in Conns
        PROVE  be[b].open <=> \/ \E c \in Clients : cl[c].conn = b
                              \/ \E i \in 1..Len(pool) : pool[i] = b
    <3>1. be[b].open <=> b \in 1..env.warm
      BY <1>o, <1>w, BoundsAssumption, SMTT(30) DEF Conns
    <3>2. \A c \in Clients : cl[c].conn # b
      <4>1. b # NoConn
        BY BoundsAssumption, SMTT(30) DEF NoConn, Conns
      <4> QED
        BY <1>1, <1>2, <4>1
    <3>3. (\E i \in 1..Len(pool) : pool[i] = b) <=> b \in 1..env.warm
      BY <1>4
    <3> QED
      BY <3>1, <3>2, <3>3
  <2> QED
    BY <2>1, <2>2, <2>3, <2>4 DEF Exclusive
<1>7. Numbered
  <2>1. \A c \in Clients : cl[c].id = 0
    BY <1>1, <1>2
  <2>2. \A c \in Clients : cl[c].id < nextId
    <3>1. 0 < nextId
      BY <1>n, SMTT(30)
    <3> QED
      BY <2>1, <3>1
  <2>3. \A c, d \in Clients : c # d /\ cl[c].id > 0 => cl[c].id # cl[d].id
    BY <2>1, SMTT(30)
  <2> QED
    BY <1>n, <2>2, <2>3 DEF Numbered
<1>8. Fine(IdleClient)
  <2>1. Good(IdleClient)
    <3>1. IdleClient.unread <= IdleClient.req.body /\ IdleClient.heads <= 1
          /\ ~(IdleClient.id > 0) /\ ~(IdleClient.heads > 0)
      BY <1>1, SMTT(30)
    <3> QED
      BY <1>1, <3>1 DEF Good, Holding, AtRest, Answering
  <2> QED
    BY <1>1, <2>1, SMTT(30) DEF Fine, PlainHead
<1>9. \A b \in Conns : Spare(be[b]) /\ Sound(be[b])
  <2> SUFFICES ASSUME NEW b \in Conns PROVE Spare(be[b]) /\ Sound(be[b])
    OBVIOUS
  <2>0. be[b].wire = <<>> /\ ~be[b].closed
    BY <1>3
  <2>1. Len(be[b].wire) = 0
    BY <2>0, SMTT(30)
  <2>2. NoHeads(be[b].wire) /\ Sound(be[b])
    BY <2>0, <2>1, SMTT(30) DEF NoHeads, Sound
  <2>3. Clean(be[b])
    BY <1>3, <2>1 DEF Clean, Rest
  <2> QED
    BY <1>3, <2>2, <2>3 DEF Spare, Quiet
<1>10. \A i \in 1..Len(pool) : Spare(be[pool[i]])
  BY <1>4, <1>9, <1>w
<1> QED
  BY <1>1, <1>2, <1>5, <1>6, <1>7, <1>8, <1>9, <1>10 DEF Inv

\* NextRequest keeps Inv: the next request on a client connection.
LEMMA NextRequestKeeps ==
    ASSUME Inv, NEW c \in Clients, NEW q \in env.requests, NextRequest(c, q)
    PROVE  Inv'
<1>r0. PICK r : r = [IdleClient EXCEPT
                       !.pc = IF q.plan = "local" THEN "local" ELSE "proxy",
                       !.id = nextId, !.req = q, !.unread = q.body, !.body = TRUE]
  OBVIOUS
<1>0. /\ Become(c, r) /\ nextId' = nextId + 1 /\ nextId <= env.count
      /\ cl[c].pc = "idle"
      /\ be' = be /\ pool' = pool /\ hits' = hits /\ env' = env
  BY <1>r0 DEF NextRequest
<1>1. /\ TypeOK /\ Exclusive /\ Numbered
      /\ \A d \in Clients :
            Fine(cl[d]) /\ (cl[d].conn # NoConn => Linked(cl[d], be[cl[d].conn]))
      /\ \A i \in 1..Len(pool) : Spare(be[pool[i]])
      /\ \A b \in Conns : Sound(be[b])
  BY DEF Inv
<1>2. cl[c].conn = NoConn
  BY <1>0, <1>1 DEF Fine, Good, Holding
<1>3. /\ q \in Request /\ q.body \in 0..MaxBody /\ nextId \in 1..MaxRequests
  <2>1. env \in Environment
    BY <1>1, BoundsAssumption DEF TypeOK
  <2>2. env.requests \subseteq PossibleRequest /\ env.count \in 0..MaxRequests
    BY <2>1 DEF Environment
  <2>3. q \in Request
    BY <2>2 DEF PossibleRequest
  <2> QED
    BY <1>0, <1>1, <2>2, <2>3, BoundsAssumption, SMTT(30) DEF TypeOK, Request
<1>4. r \in Tasks
  <2>0. PICK p : p = IF q.plan = "local" THEN "local" ELSE "proxy"
    OBVIOUS
  <2>1. p \in PCs /\ IdleClient \in Tasks
    BY <2>0, Constants DEF PCs
  <2>2. nextId \in 0..MaxRequests
    BY <1>3, SMTT(30)
  <2>3. r = [IdleClient EXCEPT !.pc = p, !.id = nextId, !.req = q, !.unread = q.body,
                               !.body = TRUE]
    BY <1>r0, <2>0
  <2> QED
    BY <1>3, <2>1, <2>2, <2>3 DEF Tasks
<1>5. /\ r.pc = IF q.plan = "local" THEN "local" ELSE "proxy"
      /\ r.id = nextId /\ r.req = q /\ r.unread = q.body /\ r.body = TRUE
      /\ r.heads = 0 /\ r.full = TRUE /\ r.conn = NoConn /\ r.stage = 1
  BY <1>r0 DEF IdleClient
<1>6. Good(r)
  <2>1. /\ r.pc \in {"local", "proxy"} /\ r.id > 0 /\ r.unread <= r.req.body
        /\ r.heads <= 1 /\ ~(r.heads > 0)
    BY <1>3, <1>5, SMTT(30)
  <2> QED
    BY <1>5, <2>1 DEF Good, Holding, AtRest, Answering
<1>7. Sending(r)
  <2>1. <<nextId, 1>> \in Ids /\ <<nextId, 2>> \in Ids
    BY <1>3, SMTT(30) DEF Ids
  <2>2. hits[<<nextId, 1>>] = 0 /\ hits[<<nextId, 2>>] = 0
    BY <1>1, <1>3, <2>1, SMTT(30) DEF Numbered
  <2>3. hits[Id(r)] = 0 /\ hits[<<r.id, 2>>] = 0
    BY <1>5, <2>2 DEF Id
  <2>4. r.pc \notin Holding /\ r.pc # "redial"
    BY <1>5 DEF Holding
  <2> QED
    BY <2>3, <2>4, SMTT(30) DEF Sending, Holding
<1>8. PlainHeads => PlainHead(r)
  BY <1>5 DEF PlainHeads, PlainHead, HeadOnly
<1>9. Fine(r)
  BY <1>4, <1>6, <1>7, <1>8 DEF Fine
<1>10. /\ cl' = [cl EXCEPT ![c] = r] /\ cl'[c] = r
       /\ \A d \in Clients : d # c => cl'[d] = cl[d]
  BY <1>0, <1>1 DEF TypeOK, Become
<1>11. TypeOK'
  BY <1>0, <1>1, <1>3, <1>4, <1>10, BoundsAssumption, SMTT(30) DEF TypeOK
<1>12. \A d \in Clients : cl'[d].conn = cl[d].conn
  BY <1>2, <1>5, <1>10
<1>13. Exclusive'
  BY <1>0, <1>1, <1>12, SMTT(30) DEF Exclusive
<1>14. Numbered'
  <2>n. nextId \in Nat /\ \A d \in Clients : cl[d].id \in Nat /\ cl[d].id < nextId
    BY <1>1, <1>3, SMTT(30) DEF TypeOK, Numbered, Tasks
  <2>1. \A d \in Clients : cl'[d].id < nextId'
    BY <1>0, <1>5, <1>10, <2>n, SMTT(30)
  <2>2. ASSUME NEW d \in Clients, NEW e \in Clients, d # e, cl'[d].id > 0
        PROVE  cl'[d].id # cl'[e].id
    <3>1. CASE d = c
      BY <1>5, <1>10, <2>n, <2>2, <3>1, SMTT(30)
    <3>2. CASE e = c
      BY <1>5, <1>10, <2>n, <2>2, <3>2, SMTT(30)
    <3>3. CASE d # c /\ e # c
      BY <1>1, <1>10, <2>2, <3>3, SMTT(30) DEF Numbered
    <3> QED
      BY <3>1, <3>2, <3>3
  <2>3. ASSUME NEW i \in Ids, i[1] >= nextId' PROVE hits'[i] = 0
    <3>1. i[1] >= nextId
      BY <1>0, <2>n, <2>3, SMTT(30) DEF Ids
    <3> QED
      BY <1>0, <1>1, <3>1 DEF Numbered
  <2> QED
    BY <2>1, <2>2, <2>3 DEF Numbered
<1>15. ASSUME NEW d \in Clients
       PROVE  Fine(cl[d])' /\ (cl'[d].conn # NoConn => Linked(cl[d], be[cl[d].conn])')
  <2>1. PICK k : k = cl'[d]
    OBVIOUS
  <2>2. Fine(k) /\ (k.conn # NoConn => Linked(k, be[k.conn]))
    BY <1>1, <1>5, <1>9, <1>10, <2>1
  <2>3. Fine(k)'
    BY <1>0, <2>2 DEF Fine, Sending, PlainHeads, PlainHead
  <2>4. k.conn # NoConn => Linked(k, be[k.conn])'
    BY <1>0, <2>2 DEF Linked, PlainHeads
  <2> QED
    BY <2>1, <2>3, <2>4 DEF Fine, Sending, Linked, PlainHeads, PlainHead
<1>16. \A i \in 1..Len(pool') : Spare(be[pool[i]])'
  BY <1>0, <1>1 DEF Spare, PlainHeads
<1>17. \A b \in Conns : Sound(be[b])'
  BY <1>0, <1>1
<1> QED
  BY <1>11, <1>13, <1>14, <1>15, <1>16, <1>17 DEF Inv

\* A step that changes nothing keeps Inv.
LEMMA StutterKeeps ==
    ASSUME Inv, UNCHANGED vars
    PROVE  Inv'
BY SMTT(30) DEF Inv, vars, TypeOK, Exclusive, Numbered, Fine, Sending, Linked, Spare, PlainHeads, PlainHead

-----------------------------------------------------------------------------
(* The backend's steps.                                                    *)

\* The head and the tail of a sequence that is not empty.
LEMMA HeadTail ==
    ASSUME NEW S, NEW s \in Seq(S), s # <<>>
    PROVE  /\ Len(s) > 0 /\ Head(s) = s[1] /\ s[1] \in S
           /\ Tail(s) \in Seq(S) /\ Len(Tail(s)) = Len(s) - 1
           /\ \A i \in 1..Len(Tail(s)) : Tail(s)[i] = s[i + 1]
BY SMT

\* The length of a sequence is a natural number.
LEMMA LenNat ==
    ASSUME NEW S, NEW s \in Seq(S)
    PROVE  Len(s) \in Nat
BY SMT

\* The positions of a sequence that is one longer.
LEMMA OneMore ==
    ASSUME NEW l \in Nat
    PROVE  /\ \A i \in 1..(l + 1) : i \in 1..l \/ i = l + 1
           /\ \A i \in 1..l : i \in 1..(l + 1) /\ i # l + 1
           /\ l + 1 \in 1..(l + 1)
BY SMT

\* The elements of a sequence are those of its set.
LEMMA Elements ==
    ASSUME NEW S, NEW s \in Seq(S), NEW i \in 1..Len(s)
    PROVE  s[i] \in S
BY SMT

\* Append adds one element and keeps the others.
LEMMA Appended ==
    ASSUME NEW S, NEW s \in Seq(S), NEW x \in S
    PROVE  /\ Append(s, x) \in Seq(S) /\ Len(Append(s, x)) = Len(s) + 1
           /\ \A i \in 1..Len(s) : Append(s, x)[i] = s[i]
           /\ Append(s, x)[Len(s) + 1] = x
BY SMT

\* A sequence of length zero is the empty one.
LEMMA EmptyLen ==
    ASSUME NEW S, NEW s \in Seq(S), Len(s) = 0
    PROVE  s = <<>>
BY SMT

\* The connection of a task is its own.
LEMMA Own ==
    ASSUME Inv, NEW c \in Clients
    PROVE  /\ cl[c] \in Tasks /\ Fine(cl[c]) /\ Good(cl[c])
           /\ cl[c].conn # NoConn =>
                 /\ cl[c].conn \in Conns /\ be[cl[c].conn] \in Backends
                 /\ be[cl[c].conn].open = TRUE
                 /\ Sound(be[cl[c].conn]) /\ Linked(cl[c], be[cl[c].conn])
                 /\ \A d \in Clients : d # c => cl[d].conn # cl[c].conn
                 /\ \A i \in 1..Len(pool) : pool[i] # cl[c].conn
<1>1. cl[c] \in Tasks /\ Fine(cl[c]) /\ Good(cl[c])
  BY DEF Inv, TypeOK, Fine
<1>2. ASSUME cl[c].conn # NoConn
      PROVE  cl[c].conn \in Conns /\ be[cl[c].conn] \in Backends
  <2>1. cl[c].conn \in Conns \cup {NoConn}
    BY <1>1 DEF Tasks
  <2> QED
    BY <1>2, <2>1 DEF Inv, TypeOK
<1>3. ASSUME cl[c].conn # NoConn PROVE be[cl[c].conn].open = TRUE
  <2>1. be[cl[c].conn].open \in BOOLEAN
    BY <1>2, <1>3 DEF Backends
  <2>2. be[cl[c].conn].open
    BY <1>2, <1>3 DEF Inv, Exclusive
  <2> QED
    BY <2>1, <2>2
<1>4. cl[c].conn # NoConn => /\ \A d \in Clients : d # c => cl[d].conn # cl[c].conn
                             /\ \A i \in 1..Len(pool) : pool[i] # cl[c].conn
  BY DEF Inv, Exclusive
<1>5. cl[c].conn # NoConn => Sound(be[cl[c].conn]) /\ Linked(cl[c], be[cl[c].conn])
  BY <1>2 DEF Inv
<1> QED
  BY <1>1, <1>2, <1>3, <1>4, <1>5

\* The steps of a backend keep Inv.  It sends a body, the end of the stream or
\* a head, or takes in a request; a task that holds the connection stays linked
\* to it and a pooled connection spare.
LEMMA BackendKeepsInv ==
    \A b \in Conns : Inv /\ (Answers(b) \/ Close(b) \/ Receive(b) \/ Arrive(b)) => Inv'
\* A token appended to a wire leaves what is before it where it was.
<1>AppendToken.
      ASSUME NEW b \in Backends, NEW t \in Tokens, t.kind # "head"
      PROVE  Longer(Append(b.wire, t), b, t)
  <2> USE <1>AppendToken
  <2> DEFINE w == Append(b.wire, t)
  <2>1. b.wire \in Seq(Tokens)
    BY DEF Backends
  <2>2. /\ w \in Seq(Tokens) /\ Len(w) = Len(b.wire) + 1
        /\ \A i \in 1..Len(b.wire) : w[i] = b.wire[i]
        /\ w[Len(b.wire) + 1] = t
    BY <2>1, SMTT(30)
  <2> HIDE DEF w
  <2>3. \A i \in 1..Len(w) : i \in 1..Len(b.wire) \/ i = Len(b.wire) + 1
    BY <2>1, <2>2, SMTT(30)
  <2>4. \A i \in 1..Len(w) : w[i].kind = "head" => i \in 1..Len(b.wire)
    BY <2>2, <2>3
  <2> QED
    BY <2>2, <2>4 DEF NoHeads, Longer, w
\* BodySent, the backend's body, field by field.
<1>BodySentFields.
      ASSUME NEW b \in Backends, NEW B, B = BodySent(b)
      PROVE  /\ B \in Backends
             /\ B.wire = Append(b.wire, Body) /\ B.owes = "none"
             /\ B.reqs = b.reqs /\ B.need = b.need /\ B.open = b.open /\ B.closed = b.closed
  <2> USE <1>BodySentFields
  <2>1. Append(b.wire, Body) \in Seq(Tokens) /\ "none" \in Framings
    BY Constants, SMTT(30) DEF Backends, Framings
  <2>2. B \in Backends
    BY <2>1 DEF BodySent, Backends
  <2>3. /\ B.wire = Append(b.wire, Body) /\ B.owes = "none"
        /\ B.reqs = b.reqs /\ B.need = b.need /\ B.open = b.open /\ B.closed = b.closed
    BY DEF BodySent, Backends
  <2> QED
    BY <2>2, <2>3
\* Ended, the backend closing its side, field by field.
<1>EndedFields.
      ASSUME NEW b \in Backends, NEW B, B = Ended(b)
      PROVE  /\ B \in Backends
             /\ B.wire = Append(b.wire, Fin) /\ B.owes = "none"
             /\ B.reqs = <<>> /\ B.need = 0 /\ B.open = b.open /\ B.closed = TRUE
  <2> USE <1>EndedFields
  <2>1. /\ Append(b.wire, Fin) \in Seq(Tokens) /\ "none" \in Framings
        /\ 0 \in 0..MaxBody /\ <<>> \in Seq([id : Ids, head : BOOLEAN])
    BY Constants, BoundsAssumption, SMTT(30) DEF Backends, Framings
  <2>i. 0 \in 0..SocketBuf
    BY BoundsAssumption, SMTT(30)
  <2>2. B \in Backends
    BY <2>1, <2>i DEF Ended, Backends
  <2>3. /\ B.wire = Append(b.wire, Fin) /\ B.owes = "none"
        /\ B.reqs = <<>> /\ B.need = 0 /\ B.open = b.open /\ B.closed = TRUE
    BY DEF Ended, Backends
  <2> QED
    BY <2>2, <2>3
\* Answered, the backend's response head, field by field.
<1>AnsweredFields.
      ASSUME NEW b \in Backends, b.reqs # <<>>, NEW response \in Response,
             NEW B, B = Answered(b, response)
      PROVE  /\ B \in Backends
             /\ B.wire = Append(b.wire, Token("head", b.reqs[1].id, response))
             /\ B.owes = IF b.reqs[1].head THEN "none" ELSE response.framing
             /\ B.reqs = Tail(b.reqs) /\ B.need = b.need /\ B.open = b.open
             /\ B.closed = b.closed
  <2> USE <1>AnsweredFields
  <2> DEFINE q == b.reqs[1]
             t == Token("head", q.id, response)
             o == IF q.head THEN "none" ELSE response.framing
  <2>1. b.reqs \in Seq([id : Ids, head : BOOLEAN])
    BY DEF Backends
  <2>2. Head(b.reqs) = q /\ q \in [id : Ids, head : BOOLEAN]
    BY <2>1, HeadTail
  <2>3. t \in Tokens /\ o \in Framings
    BY <2>2 DEF Token, Tokens, Response, Framings
  <2>4. B = [b EXCEPT !.wire = Append(b.wire, t), !.reqs = Tail(b.reqs), !.owes = o]
    BY <2>2 DEF Answered
  <2> HIDE DEF q, t, o
  <2>5. Append(b.wire, t) \in Seq(Tokens) /\ Tail(b.reqs) \in Seq([id : Ids, head : BOOLEAN])
    BY <2>1, <2>3, SMTT(30) DEF Backends
  <2>6. B \in Backends
    BY <2>3, <2>4, <2>5 DEF Backends
  <2>7. /\ B.wire = Append(b.wire, t) /\ B.owes = o
        /\ B.reqs = Tail(b.reqs) /\ B.need = b.need /\ B.open = b.open
        /\ B.closed = b.closed
    BY <2>4 DEF Backends
  <2> QED
    BY <2>6, <2>7 DEF q, t, o
\* A response's framing as the proxy reads it is a framing.
<1>FramedByType.
      ASSUME NEW k, NEW t \in Tokens
      PROVE  FramedBy(k, t.response) \in Framings
  BY <1>FramedByType DEF FramedBy, Tokens, Response, Framings
\* What a backend does on a connection keeps it linked to the task that holds it.
<1>CarriesLinked.
      ASSUME NEW k \in Tasks, NEW b \in Backends, NEW B, Carries(b, B), Linked(k, b)
      PROVE  Linked(k, B)
  <2> USE <1>CarriesLinked
  <2>1. Fits(k, B)
    <3>1. k.pc = "request" => Quiet(B)
      BY DEF Linked, Fits, Quiet, Carries
    <3>2. k.pc \in {"upload", "write", "await"} /\ ~Answering(k) =>
             Asked(k, B) \/ Replied(k, B)
      BY DEF Linked, Fits, Carries
    <3>3. Answering(k) => B.reqs = <<>> /\ NoHeads(B.wire)
      BY DEF Linked, Fits, Carries
    <3>4. /\ k.pc = "upload" /\ ~B.closed => B.need = k.unread
          /\ k.pc = "write" /\ ~B.closed => B.need = k.unread + 1
      BY DEF Linked, Fits, Carries
    <3>5. k.pc \in {"await", "respond", "relay"} /\ k.sent => B.need = 0
      BY DEF Linked, Fits, Carries
    <3> QED
      BY <3>1, <3>2, <3>3, <3>4, <3>5 DEF Fits
  <2>2. ASSUME Tidy(k, b) PROVE Tidy(k, B)
    <3>0. "none" \in Framings /\ 0 \in 0..1 /\ 1 \in 0..1
      BY SMTT(30) DEF Framings
    <3>1. Clean(b) => Clean(B)
      BY <3>0 DEF Carries, Clean
    <3>2. Answering(k) => Rest(B, 0, FramedBy(k, k.resp.response))
      <4>1. k.resp \in Tokens
        BY DEF Tasks
      <4> QED
        BY <2>2, <3>0, <4>1, <1>FramedByType DEF Carries, Tidy
    <3>3. ASSUME Len(b.wire) > 0, b.wire[1].kind = "head",
                 Rest(b, 1, FramedBy(k, b.wire[1].response))
          PROVE  /\ Len(B.wire) > 0 /\ B.wire[1].kind = "head"
                 /\ Rest(B, 1, FramedBy(k, B.wire[1].response))
      <4>1. b.wire[1] \in Tokens
        <5>1. b.wire \in Seq(Tokens)
          BY DEF Backends
        <5> QED
          BY <3>3, <5>1, SMTT(30)
      <4>2. B.wire[1] = b.wire[1] /\ Len(B.wire) > 0
        BY <3>3 DEF Carries
      <4>3. Rest(B, 1, FramedBy(k, b.wire[1].response))
        BY <3>0, <3>3, <4>1, <1>FramedByType DEF Carries
      <4> QED
        BY <3>3, <4>2, <4>3
    <3> QED
      BY <2>2, <3>1, <3>2, <3>3 DEF Tidy
  <2> QED
    BY <2>1, <2>2 DEF Linked
\* What a backend does on a pooled connection keeps it spare.
<1>CarriesSpare.
      ASSUME NEW b, NEW B, Carries(b, B), Spare(b)
      PROVE  Spare(B)
  <2> USE <1>CarriesSpare
  <2>1. "none" \in Framings /\ 0 \in 0..1
    BY SMTT(30) DEF Framings
  <2>2. Clean(b) => Clean(B)
    BY <2>1 DEF Carries, Clean
  <2> QED
    BY <2>2 DEF Spare, Quiet, Carries
\* The close.
<1>EndedCarries.
      ASSUME NEW b \in Backends, Sound(b), ~b.closed, NEW B, B = Ended(b)
      PROVE  Carries(b, B)
  <2> USE <1>EndedCarries
  <2> DEFINE l == Len(b.wire)
  <2>1. /\ B \in Backends
        /\ B.wire = Append(b.wire, Fin) /\ B.owes = "none"
        /\ B.reqs = <<>> /\ B.need = 0 /\ B.open = b.open /\ B.closed = TRUE
    BY <1>EndedFields
  <2>t. Fin \in Tokens /\ Fin.kind # "head"
    BY Constants DEF Fin, Token
  <2>2. /\ B.wire \in Seq(Tokens) /\ Len(B.wire) = l + 1
        /\ \A i \in 1..l : B.wire[i] = b.wire[i]
        /\ B.wire[l + 1] = Fin
        /\ \A i \in 1..Len(B.wire) : B.wire[i].kind = "head" => i \in 1..l
        /\ NoHeads(b.wire) => NoHeads(B.wire)
    BY <2>1, <2>t, <1>AppendToken, SMTT(30) DEF Longer
  <2>l. l \in Nat
    BY SMTT(30) DEF Backends
  <2> HIDE DEF l
  <2>3. Sound(B)
    BY <2>1 DEF Sound
  <2>4. ASSUME NEW k, Asked(k, b) \/ Replied(k, b) PROVE Replied(k, B)
    <3>1. CASE Asked(k, b)
      BY <2>1, <2>2, <3>1 DEF Asked, Replied, NoHeads
    <3>2. CASE Replied(k, b)
      BY <2>1, <2>2, <3>2, SMTT(30) DEF Replied, l
    <3> QED
      BY <2>4, <3>1, <3>2
  <2>5. l > 0 => Len(B.wire) > 0 /\ B.wire[1] = b.wire[1]
    BY <2>2, <2>l, SMTT(30)
  <2>6. ASSUME NEW n \in 0..1, NEW f \in Framings, Rest(b, n, f) PROVE Rest(B, n, f)
    <3>f. \A i \in 1..l : b.wire[i] # Fin
      BY SMTT(30) DEF Sound, Fin, Token, l
    <3>1. CASE b.owes = f /\ l = n
      BY <2>1, <2>2, <3>1 DEF Rest
    <3>2. CASE l = n + 1 /\ b.wire[n + 1] = Fin
      BY <2>l, <3>2, <3>f, SMTT(30)
    <3>3. CASE f # "none" /\ l = n + 1 /\ b.wire[n + 1] = Body
      BY <2>1, <2>2, <2>l, <3>3, SMTT(30) DEF Rest
    <3>4. CASE l = n + 2 /\ b.wire[n + 2] = Fin
      BY <2>l, <3>4, <3>f, SMTT(30)
    <3> QED
      BY <2>6, <3>1, <3>2, <3>3, <3>4 DEF Rest, l
  <2> QED
    BY <2>1, <2>2, <2>3, <2>4, <2>5, <2>6 DEF Carries, l
\* A body of known or chunked length.
<1>BodySentCarries.
      ASSUME NEW b \in Backends, Sound(b), ~b.closed, b.owes \notin {"none", "eof"},
             NEW B, B = BodySent(b)
      PROVE  Carries(b, B)
  <2> USE <1>BodySentCarries
  <2> DEFINE l == Len(b.wire)
  <2>1. /\ B \in Backends
        /\ B.wire = Append(b.wire, Body) /\ B.owes = "none"
        /\ B.reqs = b.reqs /\ B.need = b.need /\ B.open = b.open /\ B.closed = b.closed
    BY <1>BodySentFields
  <2>t. Body \in Tokens /\ Body.kind # "head" /\ Body.kind # "fin"
    BY Constants DEF Body, Token
  <2>2. /\ B.wire \in Seq(Tokens) /\ Len(B.wire) = l + 1
        /\ \A i \in 1..l : B.wire[i] = b.wire[i]
        /\ B.wire[l + 1] = Body
        /\ \A i \in 1..Len(B.wire) : B.wire[i].kind = "head" => i \in 1..l
        /\ NoHeads(b.wire) => NoHeads(B.wire)
    BY <2>1, <2>t, <1>AppendToken, SMTT(30) DEF Longer
  <2>l. l \in Nat
    BY SMTT(30) DEF Backends
  <2>3. Sound(B)
    BY <2>1, <2>2, <2>t, <2>l, SMTT(30) DEF Sound
  <2> HIDE DEF l
  <2>4. ASSUME NEW k, Asked(k, b) \/ Replied(k, b) PROVE Asked(k, B) \/ Replied(k, B)
    <3>1. CASE Asked(k, b)
      BY <2>1, <2>2, <3>1 DEF Asked
    <3>2. CASE Replied(k, b)
      BY <2>1, <2>2, <3>2, SMTT(30) DEF Replied, l
    <3> QED
      BY <2>4, <3>1, <3>2
  <2>5. l > 0 => Len(B.wire) > 0 /\ B.wire[1] = b.wire[1]
    BY <2>2, <2>l, SMTT(30)
  <2>6. ASSUME NEW n \in 0..1, NEW f \in Framings, Rest(b, n, f) PROVE Rest(B, n, f)
    <3>1. b.owes = f /\ l = n
      BY <2>6 DEF Rest, l
    <3> QED
      BY <2>1, <2>2, <3>1 DEF Rest
  <2> QED
    BY <2>1, <2>2, <2>3, <2>4, <2>5, <2>6 DEF Carries, l
\* A body that is delimited by the close.
<1>BodyEndedCarries.
      ASSUME NEW b \in Backends, Sound(b), ~b.closed, b.owes = "eof",
             NEW B, B = Ended(BodySent(b))
      PROVE  Carries(b, B)
  <2> USE <1>BodyEndedCarries
  <2> DEFINE l == Len(b.wire)
             m == BodySent(b)
  <2>1. /\ m \in Backends
        /\ m.wire = Append(b.wire, Body)
        /\ m.reqs = b.reqs /\ m.open = b.open
    BY <1>BodySentFields
  <2>b. B = Ended(m)
    OBVIOUS
  <2> HIDE DEF m
  <2>t. /\ Body \in Tokens /\ Body.kind # "head"
        /\ Fin \in Tokens /\ Fin.kind # "head"
    BY Constants DEF Body, Fin, Token
  <2>2. /\ Len(m.wire) = l + 1
        /\ \A i \in 1..l : m.wire[i] = b.wire[i]
        /\ m.wire[l + 1] = Body
        /\ \A i \in 1..Len(m.wire) : m.wire[i].kind = "head" => i \in 1..l
        /\ NoHeads(b.wire) => NoHeads(m.wire)
    <3>1. Longer(m.wire, b, Body)
      BY <2>1, <2>t, <1>AppendToken
    <3> QED
      BY <3>1 DEF Longer
  <2>3. /\ B \in Backends
        /\ B.wire = Append(m.wire, Fin) /\ B.owes = "none"
        /\ B.reqs = <<>> /\ B.need = 0 /\ B.open = m.open /\ B.closed = TRUE
    BY <2>1, <2>b, <1>EndedFields
  <2>4. /\ Len(B.wire) = Len(m.wire) + 1
        /\ \A i \in 1..Len(m.wire) : B.wire[i] = m.wire[i]
        /\ B.wire[Len(m.wire) + 1] = Fin
        /\ \A i \in 1..Len(B.wire) : B.wire[i].kind = "head" => i \in 1..Len(m.wire)
        /\ NoHeads(m.wire) => NoHeads(B.wire)
    <3>1. Longer(B.wire, m, Fin)
      BY <2>1, <2>3, <2>t, <1>AppendToken
    <3> QED
      BY <3>1 DEF Longer
  <2>l. l \in Nat
    BY SMTT(30) DEF Backends
  <2> HIDE DEF l
  <2>5. /\ Len(B.wire) = l + 2
        /\ \A i \in 1..l : B.wire[i] = b.wire[i]
        /\ B.wire[l + 1] = Body /\ B.wire[l + 2] = Fin
        /\ \A i \in 1..Len(B.wire) : B.wire[i].kind = "head" => i \in 1..l
        /\ NoHeads(b.wire) => NoHeads(B.wire)
    BY <2>2, <2>4, <2>l, SMTT(30)
  <2>6. Sound(B)
    BY <2>3 DEF Sound
  <2>7. ASSUME NEW k, Asked(k, b) \/ Replied(k, b) PROVE Replied(k, B)
    <3>1. CASE Asked(k, b)
      BY <2>3, <2>5, <3>1 DEF Asked, Replied, NoHeads
    <3>2. CASE Replied(k, b)
      <4>1. \A i \in 1..Len(B.wire) : B.wire[i].kind = "head" =>
               i \in 1..Len(b.wire) /\ B.wire[i] = b.wire[i]
        BY <2>5 DEF l
      <4>2. ASSUME NEW i \in 1..Len(B.wire), B.wire[i].kind = "head"
            PROVE  /\ B.wire[i].id = Id(k)
                   /\ \A j \in 1..Len(B.wire) : B.wire[j].kind = "head" => j = i
        <5>1. i \in 1..Len(b.wire) /\ b.wire[i].kind = "head" /\ B.wire[i] = b.wire[i]
          BY <4>1, <4>2
        <5>2. /\ b.wire[i].id = Id(k)
              /\ \A j \in 1..Len(b.wire) : b.wire[j].kind = "head" => j = i
          BY <3>2, <5>1 DEF Replied
        <5> QED
          BY <4>1, <5>1, <5>2
      <4> QED
        BY <2>3, <4>2 DEF Replied
    <3> QED
      BY <2>7, <3>1, <3>2
  <2>8. l > 0 => Len(B.wire) > 0 /\ B.wire[1] = b.wire[1]
    BY <2>5, <2>l, SMTT(30)
  <2>9. ASSUME NEW n \in 0..1, NEW f \in Framings, Rest(b, n, f) PROVE Rest(B, n, f)
    <3>1. b.owes = f /\ l = n
      BY <2>9 DEF Rest, l
    <3> QED
      BY <2>3, <2>5, <3>1 DEF Rest
  <2> QED
    BY <2>1, <2>3, <2>5, <2>6, <2>7, <2>8, <2>9 DEF Carries, l
\* The first token arrives, or is the close and is read, or the backend takes in
\* a chunk of the upload.
<1>SeenCarries.
      ASSUME NEW b \in Backends, Sound(b), NEW B,
             \/ B = [b EXCEPT !.seen = TRUE]
             \/ B = [b EXCEPT !.inbox = b.inbox - 1] /\ b.inbox > 0
      PROVE  Carries(b, B)
  <2> USE <1>SeenCarries
  <2>i. b.inbox > 0 => b.inbox - 1 \in 0..SocketBuf
    BY BoundsAssumption, SMTT(30) DEF Backends
  <2>1. B \in Backends
    BY <2>i DEF Backends
  <2>2. /\ B.reqs = b.reqs /\ B.wire = b.wire /\ B.owes = b.owes /\ B.need = b.need
        /\ B.open = b.open /\ B.closed = b.closed
    BY DEF Backends
  <2>3. Sound(B)
    BY <2>2 DEF Sound
  <2>4. \A k : Asked(k, b) \/ Replied(k, b) => Asked(k, B) \/ Replied(k, B)
    BY <2>2 DEF Asked, Replied
  <2>5. \A n \in 0..1, f \in Framings : Rest(b, n, f) => Rest(B, n, f)
    BY <2>2 DEF Rest
  <2> QED
    BY <2>1, <2>2, <2>3, <2>4, <2>5 DEF Carries
\* The backend answers the request of the task that holds the connection.
<1>AnsweredLinked.
      ASSUME NEW k, Fine(k), k.conn # NoConn, NEW b \in Backends, Sound(b), Linked(k, b),
             b.reqs # <<>>, b.owes = "none", ~b.closed,
             NEW response \in Response, NEW B, B = Answered(b, response)
      PROVE  B \in Backends /\ Sound(B) /\ B.open = b.open /\ Linked(k, B)
  <2> USE <1>AnsweredLinked
  <2> DEFINE t == Token("head", b.reqs[1].id, response)
             l == Len(b.wire)
  <2>1. /\ B \in Backends
        /\ B.wire = Append(b.wire, t)
        /\ B.owes = IF b.reqs[1].head THEN "none" ELSE response.framing
        /\ B.reqs = Tail(b.reqs) /\ B.need = b.need /\ B.open = b.open
        /\ B.closed = b.closed
    BY <1>AnsweredFields, SMTT(30)
  <2>2. /\ k \in Tasks /\ Good(k) /\ k.pc \in Holding
    BY DEF Fine, Good
  <2>3. k.pc \in {"upload", "write", "await"} /\ ~Answering(k) /\ Asked(k, b)
    BY <2>2 DEF Linked, Fits, Quiet, Replied, Good, Answering, Holding
  <2>4. b.reqs[1].id = Id(k) /\ NoHeads(b.wire) /\ B.reqs = <<>>
    <3>1. b.reqs \in Seq([id : Ids, head : BOOLEAN]) /\ Len(b.reqs) = 1
      BY <2>3 DEF Backends, Asked
    <3>2. Tail(b.reqs) \in Seq([id : Ids, head : BOOLEAN]) /\ Len(Tail(b.reqs)) = 0
      BY <3>1, HeadTail, SMTT(30)
    <3>3. Tail(b.reqs) = <<>>
      BY <3>2, EmptyLen
    <3> QED
      BY <2>1, <2>3, <3>3 DEF Asked
  <2>5. b.wire \in Seq(Tokens) /\ l \in Nat
    BY SMTT(30) DEF Backends
  <2>t. t.kind = "head" /\ t.id = b.reqs[1].id /\ t.response = response
    BY DEF Token
  <2> HIDE DEF t
  <2>6. /\ Len(B.wire) = l + 1
        /\ \A i \in 1..l : B.wire[i] = b.wire[i]
        /\ B.wire[l + 1] = t
    BY <2>1, <2>5, SMTT(30)
  <2> HIDE DEF l
  <2>7. \A i \in 1..Len(B.wire) : B.wire[i].kind = "head" => i = l + 1
    BY <2>4, <2>5, <2>6, SMTT(30) DEF NoHeads, l
  <2>8. Sound(B)
    <3>1. \A i \in 1..Len(B.wire) : B.wire[i].kind # "fin"
      BY <2>5, <2>6, <2>t, SMTT(30) DEF Sound, l
    <3> QED
      BY <2>1, <3>1 DEF Sound
  <2>9. Replied(k, B)
    BY <2>4, <2>6, <2>7, <2>t DEF Replied
  <2>10. Fits(k, B)
    BY <2>1, <2>3, <2>9 DEF Linked, Fits
  <2>11. ASSUME PlainHeads PROVE Tidy(k, B)
    <3>1. Tidy(k, b) /\ PlainHead(k) /\ k.id > 0
      BY <2>11, <2>2 DEF Linked, Fine, Good, Holding, AtRest
    <3>2. ~(l > 0 /\ b.wire[1].kind = "head")
      BY <2>4, <2>5, SMTT(30) DEF NoHeads, l
    <3>3. Clean(b)
      BY <2>3, <3>1, <3>2 DEF Tidy, l
    <3>4. l = 0
      BY <2>5, <3>3, SMTT(30) DEF Clean, Rest, Sound, Fin, Token, l
    <3>5. b.reqs[1].head <=> HeadOnly(k)
      BY <2>3, <3>1 DEF Asked, PlainHead, HeadOnly, Method
    <3>6. B.owes = FramedBy(k, response)
      BY <2>1, <3>5 DEF FramedBy
    <3>7. Rest(B, 1, FramedBy(k, response))
      BY <2>6, <3>4, <3>6, SMTT(30) DEF Rest
    <3>8. Len(B.wire) > 0 /\ B.wire[1] = t
      BY <2>6, <3>4, SMTT(30)
    <3> QED
      BY <2>3, <2>t, <3>7, <3>8 DEF Tidy
  <2> QED
    BY <2>1, <2>8, <2>10, <2>11 DEF Linked
\* The connection b becomes B without its task.
<1>CarriesKeeps.
      ASSUME Inv, NEW b \in Conns, NEW B \in Backends, be' = [be EXCEPT ![b] = B],
             UNCHANGED <<cl, pool, hits, nextId, env>>, B.open = be[b].open, Sound(B),
             \A c \in Clients : cl[c].conn = b => Linked(cl[c], B),
             \A i \in 1..Len(pool) : pool[i] = b => Spare(B)
      PROVE  Inv'
  <2> USE <1>CarriesKeeps
  <2>1. cl' = cl /\ pool' = pool /\ hits' = hits /\ nextId' = nextId /\ env' = env
    OBVIOUS
  <2>2. TypeOK /\ Exclusive /\ Numbered
    BY DEF Inv
  <2>3. be'[b] = B /\ \A x \in Conns : x # b => be'[x] = be[x]
    BY <2>2 DEF TypeOK
  <2>4. be' \in [Conns -> Backends]
    BY <2>2 DEF TypeOK
  <2>5. TypeOK' /\ Numbered'
    BY <2>1, <2>2, <2>4 DEF TypeOK, Numbered
  <2>6. Exclusive'
    <3>1. \A x \in Conns : be'[x].open = be[x].open
      BY <2>3
    <3> QED
      BY <2>1, <2>2, <3>1, SMTT(30) DEF Exclusive
  <2>7. \A c \in Clients : Fine(cl[c])'
    <3>1. \A c \in Clients : Fine(cl[c])
      BY DEF Inv
    <3> QED
      BY <2>1, <3>1, SMTT(30) DEF Fine, Sending, PlainHeads, PlainHead
  <2>8. ASSUME NEW c \in Clients, cl[c].conn # NoConn PROVE Linked(cl[c], be[cl[c].conn])'
    <3>1. Linked(cl[c], be'[cl[c].conn])
      <4>1. cl[c].conn \in Conns /\ Linked(cl[c], be[cl[c].conn])
        BY <2>8, Own
      <4>2. CASE cl[c].conn = b
        BY <2>3, <4>2
      <4>3. CASE cl[c].conn # b
        BY <2>3, <4>1, <4>3
      <4> QED
        BY <4>2, <4>3
    <3> QED
      BY <2>1, <3>1 DEF Linked, PlainHeads
  <2>9. ASSUME NEW i \in 1..Len(pool) PROVE Spare(be[pool[i]])'
    <3>1. Spare(be'[pool[i]])
      <4>1. pool[i] \in Conns /\ Spare(be[pool[i]])
        BY <2>2, SMTT(30) DEF Inv, TypeOK
      <4>2. CASE pool[i] = b
        BY <2>3, <4>2
      <4>3. CASE pool[i] # b
        BY <2>3, <4>1, <4>3
      <4> QED
        BY <4>2, <4>3
    <3> QED
      BY <2>1, <3>1 DEF Spare, PlainHeads
  <2>10. \A x \in Conns : Sound(be'[x])
    BY <2>3 DEF Inv
  <2> QED
    BY <2>1, <2>5, <2>6, <2>7, <2>8, <2>9, <2>10 DEF Inv
\* A backend's step on one connection.
<1>BackendKeeps.
      ASSUME Inv, NEW b \in Conns, NEW B, Carries(be[b], B), be' = [be EXCEPT ![b] = B],
             UNCHANGED <<cl, pool, hits, nextId, env>>
      PROVE  Inv'
  <2> USE <1>BackendKeeps
  <2>1. B \in Backends /\ B.open = be[b].open /\ Sound(B)
    BY DEF Carries
  <2>2. ASSUME NEW c \in Clients, cl[c].conn = b PROVE Linked(cl[c], B)
    <3>0. cl[c].conn # NoConn
      BY <2>2, SMTT(30) DEF NoConn, Conns
    <3>1. cl[c] \in Tasks /\ cl[c].conn # NoConn
      BY <3>0, Own
    <3>2. be[b] \in Backends /\ Linked(cl[c], be[b])
      BY <2>2, <3>1, Own
    <3> QED
      BY <3>1, <3>2, <1>CarriesLinked
  <2>3. ASSUME NEW i \in 1..Len(pool), pool[i] = b PROVE Spare(B)
    <3>1. Spare(be[b])
      BY <2>3 DEF Inv
    <3> QED
      BY <3>1, <1>CarriesSpare
  <2> QED
    BY <2>1, <2>2, <2>3, <1>CarriesKeeps
\* Close keeps Inv: the backend closes a connection.
<1>CloseKeeps.
      ASSUME Inv, NEW b \in Conns, Close(b)
      PROVE  Inv'
  <2> USE <1>CloseKeeps
  <2>1. be[b] \in Backends /\ Sound(be[b])
    BY DEF Inv, TypeOK
  <2>2. Carries(be[b], Ended(be[b]))
    BY <2>1, <1>EndedCarries DEF Close
  <2> QED
    BY <2>2, <1>BackendKeeps DEF Close
\* Arrive keeps Inv: the backend has read a request off a connection.
<1>ArriveKeeps.
      ASSUME Inv, NEW b \in Conns, Arrive(b)
      PROVE  Inv'
  <2> USE <1>ArriveKeeps
  <2>1. be[b] \in Backends /\ Sound(be[b])
    BY DEF Inv, TypeOK
  <2>2. Carries(be[b], [be[b] EXCEPT !.seen = TRUE])
    BY <2>1, <1>SeenCarries
  <2> QED
    BY <2>2, <1>BackendKeeps DEF Arrive
\* Receive keeps Inv: the backend takes in a chunk of an upload.
<1>ReceiveKeeps.
      ASSUME Inv, NEW b \in Conns, Receive(b)
      PROVE  Inv'
  <2> USE <1>ReceiveKeeps
  <2>1. be[b] \in Backends /\ Sound(be[b]) /\ be[b].inbox > 0
    BY DEF Inv, TypeOK, Receive
  <2>2. Carries(be[b], [be[b] EXCEPT !.inbox = be[b].inbox - 1])
    BY <2>1, <1>SeenCarries
  <2> QED
    BY <2>2, <1>BackendKeeps DEF Receive
\* SendBody keeps Inv: the backend writes the body it owes.
<1>SendBodyKeeps.
      ASSUME Inv, NEW b \in Conns, SendBody(b)
      PROVE  Inv'
  <2> USE <1>SendBodyKeeps
  <2>1. be[b] \in Backends /\ Sound(be[b]) /\ ~be[b].closed /\ be[b].owes # "none"
    BY DEF Inv, TypeOK, SendBody
  <2>2. CASE be[b].owes = "eof"
    <3>1. Carries(be[b], Ended(BodySent(be[b])))
      BY <2>1, <2>2, <1>BodyEndedCarries
    <3> QED
      BY <2>2, <3>1, <1>BackendKeeps DEF SendBody
  <2>3. CASE be[b].owes # "eof"
    <3>1. Carries(be[b], BodySent(be[b]))
      BY <2>1, <2>3, <1>BodySentCarries
    <3> QED
      BY <2>3, <3>1, <1>BackendKeeps DEF SendBody
  <2> QED
    BY <2>2, <2>3
\* Answer keeps Inv: the backend writes a response head.
<1>AnswerKeeps.
      ASSUME Inv, NEW b \in Conns, NEW response \in env.responses, Answer(b, response)
      PROVE  Inv'
  <2> USE <1>AnswerKeeps
  <2> DEFINE B == Answered(be[b], response)
  <2>1. /\ be[b] \in Backends /\ Sound(be[b]) /\ ~be[b].closed
        /\ be[b].reqs # <<>> /\ be[b].owes = "none"
    BY DEF Inv, TypeOK, Answer
  <2>2. response \in Response
    <3>1. env \in Environment
      BY BoundsAssumption DEF Inv, TypeOK
    <3> QED
      BY <3>1 DEF Environment
  <2>3. be[b].open
    BY DEF Answer
  <2>4. \A i \in 1..Len(pool) : pool[i] # b
    BY <2>1 DEF Inv, Spare, Quiet
  <2>5. be' = [be EXCEPT ![b] = B] /\ UNCHANGED <<cl, pool, hits, nextId, env>>
    BY DEF Answer
  <2> HIDE DEF B
  <2>6. PICK c \in Clients : cl[c].conn = b
    BY <2>3, <2>4 DEF Inv, Exclusive
  <2>7. cl[c].conn # NoConn /\ Fine(cl[c]) /\ Linked(cl[c], be[b])
    <3>1. cl[c].conn # NoConn
      BY <2>6, SMTT(30) DEF Conns, NoConn
    <3> QED
      BY <2>6, <3>1, Own
  <2>8. B \in Backends /\ Sound(B) /\ B.open = be[b].open /\ Linked(cl[c], B)
    BY <2>1, <2>2, <2>7, <1>AnsweredLinked DEF B
  <2>9. \A d \in Clients : cl[d].conn = b => Linked(cl[d], B)
    BY <2>6, <2>7, <2>8, Own
  <2> QED
    BY <2>4, <2>5, <2>8, <2>9, <1>CarriesKeeps
<1> QED
  BY <1>CloseKeeps, <1>ReceiveKeeps, <1>ArriveKeeps, <1>SendBodyKeeps, <1>AnswerKeeps DEF Answers

-----------------------------------------------------------------------------
(* What a step of the task of c does to the rest.                          *)

\* Every step of a task that does not start a request: nothing but its own
\* connection and its own request is touched.
LEMMA Keeps ==
    ASSUME Inv, NEW c \in Clients, NEW k, Become(c, k), nextId' = nextId, env' = env,
           hits' \in [Ids -> Nat], \A i \in Ids : i[1] # k.id => hits'[i] = hits[i],
           Fine(k)', k.id = cl[c].id,
           be' \in [Conns -> Backends], pool' \in Seq(Conns), Len(pool') <= MaxPool,
           Exclusive', k.conn # NoConn => Linked(k, be'[k.conn]),
           \A d \in Clients \ {c} : cl[d].conn # NoConn => be'[cl[d].conn] = be[cl[d].conn],
           \A i \in 1..Len(pool') : Spare(be'[pool'[i]]),
           \A b \in Conns : Sound(be'[b])
    PROVE  Inv'
<1>0. /\ TypeOK /\ Numbered
      /\ \A d \in Clients :
            Fine(cl[d]) /\ (cl[d].conn # NoConn => Linked(cl[d], be[cl[d].conn]))
  BY DEF Inv
<1>1. /\ cl' = [cl EXCEPT ![c] = k] /\ cl'[c] = k
      /\ \A d \in Clients : d # c => cl'[d] = cl[d]
  BY <1>0 DEF TypeOK, Become
<1>2. k \in Tasks
  BY DEF Fine
<1>3. TypeOK'
  BY <1>0, <1>1, <1>2 DEF TypeOK
<1>4. \A d \in Clients : cl'[d].id = cl[d].id
  BY <1>1
<1>n. nextId \in Nat /\ cl[c].id < nextId /\ cl[c].id \in Nat
  BY <1>0, SMTT(30) DEF TypeOK, Numbered, Tasks
<1>5. Numbered'
  <2>1. \A d \in Clients : cl'[d].id < nextId'
    BY <1>0, <1>4 DEF Numbered
  <2>2. \A d, e \in Clients : d # e /\ cl'[d].id > 0 => cl'[d].id # cl'[e].id
    BY <1>0, <1>4, SMTT(30) DEF Numbered
  <2>3. ASSUME NEW i \in Ids, i[1] >= nextId PROVE hits'[i] = 0
    <3>1. i[1] # k.id
      BY <1>n, <2>3, SMTT(30) DEF Ids
    <3> QED
      BY <1>0, <2>3, <3>1 DEF Numbered
  <2> QED
    BY <2>1, <2>2, <2>3 DEF Numbered
<1>6. ASSUME NEW d \in Clients PROVE Fine(cl[d])'
  <2>1. CASE d = c
    BY <1>1, <2>1 DEF Fine, Sending, PlainHeads, PlainHead
  <2>2. CASE d # c
    <3>1. cl'[d] = cl[d] /\ Fine(cl[d]) /\ cl[d] \in Tasks
      BY <1>0, <1>1, <2>2 DEF Fine
    <3>2. ASSUME cl[d].id > 0 PROVE Sending(cl[d])'
      <4>1. cl[d].id # k.id
        BY <1>0, <2>2, <3>2 DEF Numbered
      <4>2. <<cl[d].id, 1>> \in Ids /\ <<cl[d].id, 2>> \in Ids /\ cl[d].stage \in 1..2
        BY <3>1, <3>2, SMTT(30) DEF Tasks, Ids
      <4>3. /\ hits'[<<cl[d].id, 1>>] = hits[<<cl[d].id, 1>>]
            /\ hits'[<<cl[d].id, 2>>] = hits[<<cl[d].id, 2>>]
        BY <4>1, <4>2
      <4>4. hits'[Id(cl[d])] = hits[Id(cl[d])]
        <5>1. cl[d].stage = 1 \/ cl[d].stage = 2
          BY <4>2, SMTT(30)
        <5> QED
          BY <4>3, <5>1 DEF Id
      <4>5. Sending(cl[d])
        BY <3>1, <3>2 DEF Fine
      <4> QED
        BY <3>1, <4>3, <4>4, <4>5 DEF Sending
    <3> QED
      BY <3>1, <3>2 DEF Fine, PlainHeads, PlainHead
  <2> QED
    BY <2>1, <2>2
<1>7. ASSUME NEW d \in Clients, cl'[d].conn # NoConn PROVE Linked(cl[d], be[cl[d].conn])'
  <2>1. CASE d = c
    BY <1>1, <1>7, <2>1 DEF Linked, PlainHeads
  <2>2. CASE d # c
    <3>1. cl'[d] = cl[d] /\ be'[cl[d].conn] = be[cl[d].conn] /\ Linked(cl[d], be[cl[d].conn])
      BY <1>0, <1>1, <1>7, <2>2
    <3> QED
      BY <3>1 DEF Linked, PlainHeads
  <2> QED
    BY <2>1, <2>2
<1>8. \A i \in 1..Len(pool') : Spare(be[pool[i]])'
  BY DEF Spare, PlainHeads
<1> QED
  BY <1>3, <1>5, <1>6, <1>7, <1>8 DEF Inv

\* The same for a step that leaves the history alone.
LEMMA QuietlyKeeps ==
    ASSUME Inv, NEW c \in Clients, NEW k, Become(c, k), nextId' = nextId, env' = env,
           hits' = hits, Fine(k), k.id = cl[c].id,
           be' \in [Conns -> Backends], pool' \in Seq(Conns), Len(pool') <= MaxPool,
           Exclusive', k.conn # NoConn => Linked(k, be'[k.conn]),
           \A d \in Clients \ {c} : cl[d].conn # NoConn => be'[cl[d].conn] = be[cl[d].conn],
           \A i \in 1..Len(pool') : Spare(be'[pool'[i]]),
           \A b \in Conns : Sound(be'[b])
    PROVE  Inv'
<1>1. Fine(k)'
  BY DEF Fine, Sending, PlainHeads, PlainHead
<1>2. hits' \in [Ids -> Nat]
  BY DEF Inv, TypeOK
<1> QED
  BY <1>1, <1>2, Keeps

\* The connections are left alone.
LEMMA StaysKeeps ==
    ASSUME Inv, NEW c \in Clients, NEW k, Become(c, k),
           UNCHANGED <<be, pool, hits, nextId, env>>, Fine(k), k.id = cl[c].id,
           k.conn = cl[c].conn, k.conn # NoConn => Linked(k, be[k.conn])
    PROVE  Inv'
<1>1. be' = be /\ pool' = pool /\ hits' = hits /\ nextId' = nextId /\ env' = env
  OBVIOUS
<1>2. TypeOK /\ Exclusive
  BY DEF Inv
<1>3. \A d \in Clients : cl'[d].conn = cl[d].conn
  BY <1>2 DEF Become, TypeOK
<1>4. Exclusive'
  BY <1>1, <1>2, <1>3, SMTT(30) DEF Exclusive
<1>5. be' \in [Conns -> Backends] /\ pool' \in Seq(Conns) /\ Len(pool') <= MaxPool
  BY <1>1, <1>2 DEF TypeOK
<1>6. (\A i \in 1..Len(pool') : Spare(be'[pool'[i]])) /\ (\A b \in Conns : Sound(be'[b]))
  BY <1>1 DEF Inv
<1> QED
  BY <1>1, <1>4, <1>5, <1>6, QuietlyKeeps

\* The task uses its connection, which becomes B.
LEMMA SendsKeeps ==
    ASSUME Inv, NEW c \in Clients, NEW k, Become(c, k), cl[c].conn # NoConn,
           NEW B \in Backends, be' = [be EXCEPT ![cl[c].conn] = B], B.open = TRUE, Sound(B),
           hits' \in [Ids -> Nat], \A i \in Ids : i[1] # k.id => hits'[i] = hits[i],
           UNCHANGED <<pool, nextId, env>>, Fine(k)', k.id = cl[c].id,
           k.conn = cl[c].conn, Linked(k, B)
    PROVE  Inv'
<1>1. pool' = pool /\ nextId' = nextId /\ env' = env
  OBVIOUS
<1>2. TypeOK /\ Exclusive
  BY DEF Inv
<1>3. \A d \in Clients : cl'[d].conn = cl[d].conn
  BY <1>2 DEF Become, TypeOK
<1>4. /\ cl[c].conn \in Conns /\ be[cl[c].conn].open = TRUE
      /\ \A d \in Clients : d # c => cl[d].conn # cl[c].conn
      /\ \A i \in 1..Len(pool) : pool[i] # cl[c].conn
  BY Own
<1>5. be' \in [Conns -> Backends] /\ pool' \in Seq(Conns) /\ Len(pool') <= MaxPool
  BY <1>1, <1>2 DEF TypeOK
<1>6. be'[cl[c].conn] = B /\ \A b \in Conns : b # cl[c].conn => be'[b] = be[b]
  BY <1>2, <1>4 DEF TypeOK
<1>7. \A b \in Conns : be'[b].open = be[b].open
  BY <1>4, <1>6
<1>8. Exclusive'
  BY <1>1, <1>2, <1>3, <1>7, SMTT(30) DEF Exclusive
<1>9. \A d \in Clients \ {c} : cl[d].conn # NoConn => be'[cl[d].conn] = be[cl[d].conn]
  BY <1>4, <1>6, Own
<1>10. \A i \in 1..Len(pool') : Spare(be'[pool'[i]])
  <2>1. \A i \in 1..Len(pool) : pool[i] \in Conns
    BY <1>2, SMTT(30) DEF TypeOK
  <2> QED
    BY <1>1, <1>4, <1>6, <2>1, SMTT(30) DEF Inv
<1>11. \A b \in Conns : Sound(be'[b])
  BY <1>6 DEF Inv
<1> QED
  BY <1>1, <1>5, <1>6, <1>8, <1>9, <1>10, <1>11, Keeps, SMTT(30)

\* A task that only uses the connection it holds.
LEMMA UsesKeeps ==
    ASSUME Inv, NEW c \in Clients, NEW k, Become(c, k), cl[c].conn # NoConn,
           NEW B \in Backends, be' = [be EXCEPT ![cl[c].conn] = B], B.open = TRUE, Sound(B),
           UNCHANGED <<pool, hits, nextId, env>>, Fine(k), k.id = cl[c].id,
           k.conn = cl[c].conn, Linked(k, B)
    PROVE  Inv'
<1>1. Fine(k)'
  BY DEF Fine, Sending, PlainHeads, PlainHead
<1>2. hits' \in [Ids -> Nat]
  BY DEF Inv, TypeOK
<1> QED
  BY <1>1, <1>2, SendsKeeps

\* A connection not made yet is sound.
LEMMA FreshSound == Fresh \in Backends /\ Fresh.open = FALSE /\ Sound(Fresh)
<1>1. Fresh.open = FALSE /\ Fresh.closed = FALSE /\ Len(Fresh.wire) = 0
  BY DEF Fresh
<1> QED
  BY <1>1, Constants, SMTT(30) DEF Sound

\* The task drops its connection, if it has one.
LEMMA DropsKeeps ==
    ASSUME Inv, NEW c \in Clients, NEW k, Become(c, k), DropConn(c),
           UNCHANGED <<pool, hits, nextId, env>>, Fine(k), k.id = cl[c].id, k.conn = NoConn
    PROVE  Inv'
<1>1. pool' = pool /\ hits' = hits /\ nextId' = nextId /\ env' = env
  OBVIOUS
<1>2. TypeOK /\ Exclusive
  BY DEF Inv
<1>n. NoConn \notin Conns
  BY SMTT(30) DEF NoConn, Conns
<1>3. cl'[c].conn = NoConn /\ \A d \in Clients : d # c => cl'[d].conn = cl[d].conn
  BY <1>2 DEF Become, TypeOK
<1>4. cl[c].conn # NoConn =>
         /\ cl[c].conn \in Conns /\ be[cl[c].conn].open = TRUE
         /\ \A d \in Clients : d # c => cl[d].conn # cl[c].conn
         /\ \A i \in 1..Len(pool) : pool[i] # cl[c].conn
  BY Own
<1>p. \A i \in 1..Len(pool) : pool[i] \in Conns
  BY <1>2, SMTT(30) DEF TypeOK
<1>6. \A b \in Conns : be'[b] = IF b = cl[c].conn THEN Fresh ELSE be[b]
  <2>1. CASE cl[c].conn = NoConn
    BY <1>n, <2>1 DEF DropConn
  <2>2. CASE cl[c].conn # NoConn
    BY <1>2, <1>4, <2>2 DEF DropConn, TypeOK
  <2> QED
    BY <2>1, <2>2
<1>5. be' \in [Conns -> Backends] /\ pool' \in Seq(Conns) /\ Len(pool') <= MaxPool
  <2>1. be \in [Conns -> Backends]
    BY <1>2 DEF TypeOK
  <2>2. be' \in [Conns -> Backends]
    BY <2>1, FreshSound DEF DropConn
  <2> QED
    BY <1>1, <1>2, <2>2 DEF TypeOK
<1>8. Exclusive'
  <2>1. \A d, e \in Clients : d # e /\ cl'[d].conn # NoConn => cl'[d].conn # cl'[e].conn
    BY <1>2, <1>3, SMTT(30) DEF Exclusive
  <2>2. \A i, j \in 1..Len(pool') : i # j => pool'[i] # pool'[j]
    BY <1>1, <1>2, SMTT(30) DEF Exclusive
  <2>3. \A d \in Clients, i \in 1..Len(pool') : cl'[d].conn # pool'[i]
    BY <1>1, <1>2, <1>3, <1>n, <1>p, SMTT(30) DEF Exclusive
  <2>4. ASSUME NEW b \in Conns
        PROVE  be'[b].open <=> \/ \E d \in Clients : cl'[d].conn = b
                               \/ \E i \in 1..Len(pool') : pool'[i] = b
    <3>1. CASE b = cl[c].conn
      BY <1>1, <1>3, <1>4, <1>6, <1>n, <3>1, FreshSound, SMTT(30)
    <3>2. CASE b # cl[c].conn
      <4>1. be'[b].open = be[b].open
        BY <1>6, <3>2
      <4>2. (\E d \in Clients : cl'[d].conn = b) <=> \E d \in Clients : cl[d].conn = b
        BY <1>3, <1>n, <3>2
      <4> QED
        BY <1>1, <1>2, <4>1, <4>2, SMTT(30) DEF Exclusive
    <3> QED
      BY <3>1, <3>2
  <2> QED
    BY <2>1, <2>2, <2>3, <2>4 DEF Exclusive
<1>9. \A d \in Clients \ {c} : cl[d].conn # NoConn => be'[cl[d].conn] = be[cl[d].conn]
  BY <1>4, <1>6, Own
<1>10. \A i \in 1..Len(pool') : Spare(be'[pool'[i]])
  <2>1. \A i \in 1..Len(pool) : be'[pool[i]] = be[pool[i]]
    BY <1>4, <1>6, <1>n, <1>p
  <2> QED
    BY <1>1, <2>1 DEF Inv
<1>11. \A b \in Conns : Sound(be'[b])
  BY <1>6, FreshSound DEF Inv
<1> QED
  BY <1>1, <1>5, <1>8, <1>9, <1>10, <1>11, QuietlyKeeps

\* A task that moves on with its request, connection and answers as they were stays Fine.
LEMMA MovesFine ==
    ASSUME NEW k, Fine(k), NEW r, Moves(k, r), Good(r)
    PROVE  Fine(r)
<1>1. /\ r \in Tasks /\ r.id = k.id /\ r.req = k.req /\ r.stage = k.stage
      /\ r.failed = k.failed /\ r.body = k.body
  BY DEF Moves
<1>2. Id(r) = Id(k) /\ (Once(r) <=> Once(k)) /\ (Repeatable(r) <=> Repeatable(k))
  BY <1>1 DEF Id, Once, SendsBody, Method, Repeatable, NoBody
<1>3. ASSUME r.id > 0 PROVE Sending(r)
  <2> DEFINE n == hits[Id(k)]
  <2>1. Sending(k)
    BY <1>1, <1>3 DEF Fine
  <2>2. /\ n \in Nat /\ n <= IF Once(k) THEN 1 ELSE 2
        /\ r.stage = 1 => hits[<<r.id, 2>>] = 0
        /\ k.pc \in {"proxy", "dial"} => n = 0
        /\ k.pc = "redial" => n <= 1 /\ Repeatable(k)
        /\ k.pc = "request" => n = 0 \/ (n <= 1 /\ ~k.pooled /\ Repeatable(k))
        /\ k.pc \in Holding \ {"request"} =>
              n <= 1 \/ (n <= 2 /\ ~k.pooled /\ Repeatable(k))
    BY <1>1, <2>1 DEF Sending
  <2> HIDE DEF n
  <2>3. Replayable(k) => k.pooled /\ Repeatable(k)
    BY DEF Replayable, Repeatable
  <2>4. r.pc = "redial" => n <= 1 /\ Repeatable(r)
    BY <1>2, <2>2, <2>3, SMTT(30) DEF Moves, Holding
  <2>5. r.pc = "request" => n = 0 \/ (n <= 1 /\ ~r.pooled /\ Repeatable(r))
    BY <1>2, <2>2 DEF Moves, Holding
  <2>6. r.pc \in Holding \ {"request"} => n <= 1 \/ (n <= 2 /\ ~r.pooled /\ Repeatable(r))
    BY <1>2, <2>2 DEF Moves, Holding
  <2>7. r.pc \in {"proxy", "dial", "continue", "local"} => n = 0
    BY <2>2 DEF Moves, Holding
  <2>8. hits[Id(r)] = n
    BY <1>2 DEF n
  <2> QED
    BY <1>2, <2>2, <2>4, <2>5, <2>6, <2>7, <2>8 DEF Sending
<1>4. PlainHeads => PlainHead(r)
  BY <1>1 DEF Fine, PlainHead, HeadOnly
<1> QED
  BY <1>1, <1>3, <1>4 DEF Fine

-----------------------------------------------------------------------------
(* A connection is popped from the pool or made, and the request sent on it. *)

\* The steps that get a task its connection keep Inv.
LEMMA DialKeepsInv ==
    \A c \in Clients : Inv /\ (Take(c) \/ Connect(c)) => Inv'
\* What pc and fields a task at "request" or "dial" gets.
<1>DialFine.
      ASSUME NEW k, Fine(k), k.pc \in {"proxy", "dial", "redial"},
             NEW r, r \in Tasks, r.pc = "request" \/ (k.pc = "proxy" /\ r.pc = "dial"),
             r.pc = "request" <=> r.conn # NoConn,
             k.pc = "redial" => r.pooled = FALSE,
             r.id = k.id /\ r.req = k.req /\ r.stage = k.stage /\ r.failed = k.failed,
             r.body = k.body /\ r.unread = k.unread /\ r.heads = k.heads,
             r.from = k.from /\ r.full = k.full
      PROVE  Fine(r)
  <2> USE <1>DialFine
  <2>1. Good(r)
    BY DEF Fine, Good, Holding, AtRest, Answering, Id
  <2>2. Moves(k, r)
    BY DEF Moves
  <2> QED
    BY <2>1, <2>2, MovesFine
\* The task takes entry last of the pool, and drops the ones after it.
<1>PopsKeeps.
      ASSUME Inv, NEW c \in Clients, NEW k, Become(c, k), cl[c].conn = NoConn,
             NEW last \in 0..Len(pool),
             k.conn = IF last = 0 THEN NoConn ELSE pool[last],
             be' = [b \in Conns |-> IF \E i \in (last + 1)..Len(pool) : pool[i] = b
                                    THEN Fresh ELSE be[b]],
             pool' = SubSeq(pool, 1, last - 1),
             UNCHANGED <<hits, nextId, env>>, Fine(k), k.id = cl[c].id,
             last > 0 => Linked(k, be[pool[last]])
      PROVE  Inv'
  <2> USE <1>PopsKeeps
  <2> DEFINE popped(b) == \E i \in (last + 1)..Len(pool) : pool[i] = b
             l == Len(pool)
             m == Len(pool')
  <2>1. hits' = hits /\ nextId' = nextId /\ env' = env
    OBVIOUS
  <2>2. TypeOK /\ Exclusive
    BY DEF Inv
  <2>n. NoConn \notin Conns
    BY SMTT(30) DEF NoConn, Conns
  <2>0. pool \in Seq(Conns) /\ l \in Nat /\ l <= MaxPool /\ be \in [Conns -> Backends]
    BY <2>2, SMTT(30) DEF TypeOK
  <2>3. /\ pool' \in Seq(Conns) /\ m = IF last = 0 THEN 0 ELSE last - 1
        /\ \A i \in 1..m : pool'[i] = pool[i]
    <3>1. last - 1 \in Int /\ 1 \in Nat
      BY <2>0, SMTT(30)
    <3>2. CASE last = 0
      <4>1. pool' = <<>>
        BY <2>0, <3>2, SMTT(30)
      <4> QED
        BY <3>2, <4>1, SMTT(30)
    <3>3. CASE last > 0
      <4>1. \A i \in 1..(last - 1) : pool[i] \in Conns
        BY <2>0, SMTT(30)
      <4>2. /\ SubSeq(pool, 1, last - 1) \in Seq(Conns)
            /\ Len(SubSeq(pool, 1, last - 1)) = IF 1 <= last - 1 THEN (last - 1) - 1 + 1 ELSE 0
            /\ \A i \in 1..((last - 1) - 1 + 1) : SubSeq(pool, 1, last - 1)[i] = pool[1 + i - 1]
        BY <2>0, <3>1, <4>1, SMTT(30)
      <4>3. m = last - 1
        BY <2>0, <3>3, <4>2, SMTT(30)
      <4>4. \A i \in 1..m : i \in 1..((last - 1) - 1 + 1) /\ 1 + i - 1 = i
        BY <2>0, <3>3, <4>3, SMTT(30)
      <4> QED
        BY <3>3, <4>2, <4>3, <4>4, SMTT(30)
    <3> QED
      BY <2>0, <3>2, <3>3, SMTT(30)
  <2>4. \A b \in Conns : be'[b] = IF popped(b) THEN Fresh ELSE be[b]
    OBVIOUS
  <2>5. be' \in [Conns -> Backends]
    BY <2>0, FreshSound
  <2>6. cl'[c].conn = k.conn /\ \A d \in Clients : d # c => cl'[d].conn = cl[d].conn
    BY <2>2 DEF Become, TypeOK
  <2> HIDE DEF l, m
  <2>7. m <= MaxPool /\ m \in Nat /\ \A i \in 1..m : i \in 1..l /\ i \notin (last + 1)..l /\ i # last
    <3>1. last \in Nat /\ last <= l /\ MaxPool \in Nat
      BY <2>0, BoundsAssumption, SMTT(30) DEF Conns, l
    <3> QED
      BY <2>0, <2>3, <3>1, SMTT(30)
  <2>8. \A i \in 1..l : i \in 1..m \/ i = last \/ i \in (last + 1)..l
    BY <2>0, <2>3, SMTT(30) DEF l
  <2>x. last > 0 => last \in 1..l /\ last \notin (last + 1)..l
    BY <2>0, SMTT(30) DEF l
  <2>y. \A i \in (last + 1)..l : i \in 1..l
    BY <2>0, SMTT(30) DEF l
  <2>9. \A i, j \in 1..l : pool[i] = pool[j] => i = j
    BY <2>2 DEF Exclusive, l
  <2>10. /\ \A i \in 1..m : ~popped(pool[i]) /\ pool'[i] = pool[i] /\ pool[i] \in Conns
         /\ last > 0 => ~popped(pool[last]) /\ pool[last] \in Conns
    <3>1. ASSUME NEW i \in 1..m PROVE ~popped(pool[i])
      BY <2>7, <2>9, <2>y DEF l
    <3>2. ASSUME last > 0 PROVE ~popped(pool[last])
      BY <2>9, <2>x, <2>y, <3>2 DEF l
    <3>3. \A i \in 1..l : pool[i] \in Conns
      BY <2>0, SMTT(30) DEF l
    <3> QED
      BY <2>3, <2>7, <2>x, <3>1, <3>2, <3>3
  <2>11. \A d \in Clients : cl[d].conn # NoConn => ~popped(cl[d].conn) /\ cl[d].conn \in Conns
    BY <2>y, Own DEF l
  <2> HIDE DEF popped
  <2>12. Exclusive'
    <3>1. ASSUME NEW d \in Clients, NEW e \in Clients, d # e, cl'[d].conn # NoConn
          PROVE  cl'[d].conn # cl'[e].conn
      <4>0. \A x \in Clients : last > 0 => cl[x].conn # pool[last]
        BY <2>2, <2>x DEF Exclusive, l
      <4>1. CASE d # c /\ e # c
        BY <2>2, <2>6, <3>1, <4>1, SMTT(30) DEF Exclusive
      <4>2. CASE d = c
        BY <2>6, <2>7, <3>1, <4>0, <4>2, SMTT(30)
      <4>3. CASE e = c
        BY <2>6, <3>1, <4>0, <4>3, SMTT(30)
      <4> QED
        BY <4>1, <4>2, <4>3
    <3>2. \A i, j \in 1..m : i # j => pool'[i] # pool'[j]
      BY <2>7, <2>9, <2>10
    <3>3. ASSUME NEW d \in Clients, NEW i \in 1..m PROVE cl'[d].conn # pool'[i]
      <4>1. CASE d # c
        BY <2>2, <2>6, <2>7, <2>10, <4>1, SMTT(30) DEF Exclusive, l
      <4>2. CASE d = c /\ last = 0
        BY <2>6, <2>10, <2>n, <4>2, ZenonT(30)
      <4>3. CASE d = c /\ last > 0
        BY <2>6, <2>7, <2>9, <2>10, <2>x, <4>3, SMTT(30)
      <4>4. last = 0 \/ last > 0
        BY <2>0, SMTT(30) DEF l
      <4> QED
        BY <4>1, <4>2, <4>3, <4>4
    <3>4. ASSUME NEW x \in Conns
          PROVE  be'[x].open <=> \/ \E d \in Clients : cl'[d].conn = x
                                 \/ \E i \in 1..m : pool'[i] = x
      <4>0. be[x].open <=> \/ \E d \in Clients : cl[d].conn = x
                           \/ \E i \in 1..l : pool[i] = x
        BY <2>2 DEF Exclusive, l
      <4>1. CASE popped(x)
        <5>1. ~be'[x].open
          BY <2>4, <4>1, FreshSound
        <5>2. \A i \in 1..m : pool'[i] # x
          BY <2>10, <4>1
        <5>3. \A d \in Clients : cl'[d].conn # x
          BY <2>6, <2>10, <2>11, <2>n, <4>1, SMTT(30)
        <5> QED
          BY <5>1, <5>2, <5>3
      <4>2. CASE ~popped(x)
        <5>1. be'[x].open = be[x].open
          BY <2>4, <4>2
        <5>2. ASSUME NEW d \in Clients, cl'[d].conn = x
              PROVE  (\E e \in Clients : cl[e].conn = x) \/ \E i \in 1..l : pool[i] = x
          BY <2>6, <2>n, <2>x, <5>2, SMTT(30)
        <5>3. ASSUME NEW i \in 1..m, pool'[i] = x PROVE \E j \in 1..l : pool[j] = x
          BY <2>7, <2>10, <5>3
        <5>4. ASSUME NEW d \in Clients, cl[d].conn = x PROVE cl'[d].conn = x
          BY <2>6, <2>n, <5>4
        <5>5. ASSUME NEW i \in 1..l, pool[i] = x
              PROVE  (\E d \in Clients : cl'[d].conn = x) \/ \E j \in 1..m : pool'[j] = x
          <6>1. i \notin (last + 1)..l
            BY <4>2, <5>5 DEF popped, l
          <6>2. CASE i \in 1..m
            BY <2>10, <5>5, <6>2
          <6>3. CASE i = last
            <7>1. cl'[c].conn = x
              BY <2>6, <5>5, <6>3, SMTT(30)
            <7> QED
              BY <7>1
          <6> QED
            BY <2>8, <6>1, <6>2, <6>3
        <5> QED
          BY <4>0, <5>1, <5>2, <5>3, <5>4, <5>5
      <4> QED
        BY <4>1, <4>2
    <3> QED
      BY <3>1, <3>2, <3>3, <3>4 DEF Exclusive, m
  <2>13. \A d \in Clients \ {c} : cl[d].conn # NoConn => be'[cl[d].conn] = be[cl[d].conn]
    BY <2>4, <2>11
  <2>14. \A i \in 1..m : Spare(be'[pool'[i]])
    <3>1. \A i \in 1..m : be'[pool'[i]] = be[pool[i]]
      BY <2>4, <2>10, ZenonT(30)
    <3> QED
      BY <2>7, <3>1 DEF Inv, l
  <2>15. \A x \in Conns : Sound(be'[x])
    BY <2>4, FreshSound DEF Inv
  <2>16. k.conn # NoConn => Linked(k, be'[k.conn])
    BY <2>4, <2>10, <2>0, SMTT(30)
  <2> QED
    BY <2>1, <2>3, <2>5, <2>7, <2>12, <2>13, <2>14, <2>15, <2>16, QuietlyKeeps DEF m
\* Take keeps Inv: a connection is popped from the pool.
<1>TakeKeeps.
      ASSUME Inv, NEW c \in Clients, Take(c)
      PROVE  Inv'
  <2> USE <1>TakeKeeps
  <2> DEFINE k == cl[c]
  <2>1. k \in Tasks /\ Fine(k) /\ Good(k)
    BY Own
  <2>2. k.pc = "proxy" /\ UNCHANGED <<hits, nextId, env>>
    BY DEF Take
  <2>3. PICK last \in 0..Len(pool) :
           /\ be' = [b \in Conns |-> IF \E i \in (last + 1)..Len(pool) : pool[i] = b
                                     THEN Fresh ELSE be[b]]
           /\ Become(c, Taken(c, IF last = 0 THEN NoConn ELSE pool[last]))
           /\ pool' = SubSeq(pool, 1, last - 1)
    BY DEF Take
  <2> DEFINE b == IF last = 0 THEN NoConn ELSE pool[last]
             r == Taken(c, b)
  <2>4. k.conn = NoConn
    BY <2>1, <2>2 DEF Good, Holding
  <2>5. b \in Conns \cup {NoConn} /\ (b = NoConn <=> last = 0)
    <3>1. pool \in Seq(Conns) /\ NoConn \notin Conns
      BY SMTT(30) DEF Inv, TypeOK, NoConn, Conns
    <3>2. last # 0 => pool[last] \in Conns
      BY <3>1, SMTT(30)
    <3> QED
      BY <3>1, <3>2
  <2>6. Become(c, r)
    BY <2>3
  <2> HIDE DEF b
  <2>7. r = [k EXCEPT !.pc = IF b = NoConn THEN "dial" ELSE "request", !.conn = b,
                      !.pooled = b # NoConn]
    BY DEF Taken
  <2> HIDE DEF r, k
  <2>p. "dial" \in PCs /\ "request" \in PCs
    BY DEF PCs
  <2>8. r \in Tasks
    BY <2>1, <2>5, <2>7, <2>p, ZenonT(30) DEF Tasks
  <2>9. /\ r.pc = (IF b = NoConn THEN "dial" ELSE "request") /\ r.conn = b
        /\ r.id = k.id /\ r.req = k.req /\ r.stage = k.stage /\ r.failed = k.failed
        /\ r.body = k.body /\ r.unread = k.unread /\ r.heads = k.heads
        /\ r.from = k.from /\ r.full = k.full
    BY <2>1, <2>7 DEF Tasks
  <2>10. Fine(r)
    <3>1. r.pc = "request" <=> r.conn # NoConn
      BY <2>9
    <3>2. r.pc = "request" \/ r.pc = "dial"
      BY <2>9
    <3> QED
      BY <2>1, <2>2, <2>8, <2>9, <3>1, <3>2, <1>DialFine
  <2>11. ASSUME last > 0 PROVE Linked(r, be[pool[last]])
    <3>1. r.pc = "request"
      BY <2>5, <2>9, <2>11, SMTT(30)
    <3>2. Spare(be[pool[last]])
      BY <2>11, SMTT(30) DEF Inv
    <3> QED
      BY <3>1, <3>2 DEF Spare, Linked, Fits, Tidy, Answering
  <2>12. r.conn = IF last = 0 THEN NoConn ELSE pool[last]
    BY <2>9 DEF b
  <2> QED
    BY <2>2, <2>3, <2>4, <2>6, <2>9, <2>10, <2>11, <2>12, <1>PopsKeeps DEF k
\* A new connection for the task.
<1>ConnectsKeeps.
      ASSUME Inv, NEW c \in Clients, NEW k, Become(c, k), cl[c].conn = NoConn,
             NEW b \in Conns, ~be[b].open, k.conn = b,
             be' = [be EXCEPT ![b] = [Fresh EXCEPT !.open = TRUE]],
             UNCHANGED <<pool, hits, nextId, env>>, Fine(k), k.id = cl[c].id,
             Linked(k, [Fresh EXCEPT !.open = TRUE])
      PROVE  Inv'
  <2> USE <1>ConnectsKeeps
  <2> DEFINE B == [Fresh EXCEPT !.open = TRUE]
  <2>1. pool' = pool /\ hits' = hits /\ nextId' = nextId /\ env' = env
    OBVIOUS
  <2>2. TypeOK /\ Exclusive
    BY DEF Inv
  <2>n. NoConn \notin Conns
    BY SMTT(30) DEF NoConn, Conns
  <2>B. B \in Backends /\ B.open = TRUE /\ Sound(B)
    <3>1. B \in Backends
      BY Constants DEF Backends
    <3>2. B.open = TRUE /\ B.closed = FALSE /\ Len(B.wire) = 0
      BY DEF Fresh
    <3> QED
      BY <3>1, <3>2, SMTT(30) DEF Sound
  <2>b. be' = [be EXCEPT ![b] = B] /\ Linked(k, B)
    OBVIOUS
  <2> HIDE DEF B
  <2>3. cl'[c].conn = b /\ \A d \in Clients : d # c => cl'[d].conn = cl[d].conn
    BY <2>2 DEF Become, TypeOK
  <2>4. (\A d \in Clients : cl[d].conn # b) /\ \A i \in 1..Len(pool) : pool[i] # b
    BY <2>2 DEF Exclusive
  <2>5. be' \in [Conns -> Backends] /\ pool' \in Seq(Conns) /\ Len(pool') <= MaxPool
    <3>1. be \in [Conns -> Backends] /\ pool \in Seq(Conns) /\ Len(pool) <= MaxPool
      BY <2>2 DEF TypeOK
    <3> QED
      BY <2>1, <2>b, <2>B, <3>1, ZenonT(30)
  <2>6. be'[b] = B /\ \A x \in Conns : x # b => be'[x] = be[x]
    BY <2>2, <2>b DEF TypeOK
  <2>8. Exclusive'
    <3>1. \A d, e \in Clients : d # e /\ cl'[d].conn # NoConn => cl'[d].conn # cl'[e].conn
      BY <2>2, <2>3, <2>4, SMTT(30) DEF Exclusive
    <3>2. \A i, j \in 1..Len(pool') : i # j => pool'[i] # pool'[j]
      BY <2>1, <2>2, SMTT(30) DEF Exclusive
    <3>3. \A d \in Clients, i \in 1..Len(pool') : cl'[d].conn # pool'[i]
      BY <2>1, <2>2, <2>3, <2>4, SMTT(30) DEF Exclusive
    <3>4. ASSUME NEW x \in Conns
          PROVE  be'[x].open <=> \/ \E d \in Clients : cl'[d].conn = x
                                 \/ \E i \in 1..Len(pool') : pool'[i] = x
      <4>1. CASE x = b
        BY <2>3, <2>6, <2>B, <4>1
      <4>2. CASE x # b
        <5>1. be'[x].open = be[x].open
          BY <2>6, <4>2
        <5>2. (\E d \in Clients : cl'[d].conn = x) <=> \E d \in Clients : cl[d].conn = x
          BY <2>3, <2>n, <4>2
        <5>3. be[x].open <=> \/ \E d \in Clients : cl[d].conn = x
                             \/ \E i \in 1..Len(pool) : pool[i] = x
          BY <2>2 DEF Exclusive
        <5> QED
          BY <2>1, <5>1, <5>2, <5>3
      <4> QED
        BY <4>1, <4>2
    <3> QED
      BY <3>1, <3>2, <3>3, <3>4 DEF Exclusive
  <2>9. \A d \in Clients \ {c} : cl[d].conn # NoConn => be'[cl[d].conn] = be[cl[d].conn]
    BY <2>4, <2>6, Own
  <2>10. \A i \in 1..Len(pool') : Spare(be'[pool'[i]])
    <3>1. \A i \in 1..Len(pool) : pool[i] \in Conns
      BY <2>2, SMTT(30) DEF TypeOK
    <3>2. \A i \in 1..Len(pool) : be'[pool[i]] = be[pool[i]]
      BY <2>4, <2>6, <3>1
    <3> QED
      BY <2>1, <3>2 DEF Inv
  <2>11. \A x \in Conns : Sound(be'[x])
    BY <2>6, <2>B DEF Inv
  <2>12. Linked(k, be'[k.conn])
    BY <2>6, <2>b
  <2> QED
    BY <2>1, <2>5, <2>8, <2>9, <2>10, <2>11, <2>12, QuietlyKeeps
\* Connect keeps Inv: a connection is made.
<1>ConnectKeeps.
      ASSUME Inv, NEW c \in Clients, Connect(c)
      PROVE  Inv'
  <2> USE <1>ConnectKeeps
  <2> DEFINE k == cl[c]
             B == [Fresh EXCEPT !.open = TRUE]
  <2>1. k \in Tasks /\ Fine(k) /\ Good(k)
    BY Own
  <2>2. k.pc \in {"dial", "redial"} /\ UNCHANGED <<pool, hits, nextId, env>>
    BY DEF Connect
  <2>3. PICK b \in Conns :
           /\ ~be[b].open
           /\ be' = [be EXCEPT ![b] = [Fresh EXCEPT !.open = TRUE]]
           /\ Become(c, [cl[c] EXCEPT !.pc = "request", !.conn = b, !.pooled = FALSE])
    BY DEF Connect
  <2> DEFINE r == [k EXCEPT !.pc = "request", !.conn = b, !.pooled = FALSE]
  <2>4. k.conn = NoConn
    BY <2>1, <2>2 DEF Good, Holding
  <2>5. Become(c, r)
    BY <2>3
  <2> HIDE DEF k
  <2>p. "request" \in PCs /\ b \in Conns \cup {NoConn} /\ b # NoConn
    BY SMTT(30) DEF PCs, Conns, NoConn
  <2>6. r \in Tasks
    BY <2>1, <2>p DEF Tasks
  <2>7. /\ r.pc = "request" /\ r.conn = b /\ r.pooled = FALSE
        /\ r.id = k.id /\ r.req = k.req /\ r.stage = k.stage /\ r.failed = k.failed
        /\ r.body = k.body /\ r.unread = k.unread /\ r.heads = k.heads
        /\ r.from = k.from /\ r.full = k.full
    BY <2>1 DEF Tasks
  <2> HIDE DEF r
  <2>8. Fine(r)
    BY <2>1, <2>2, <2>6, <2>7, <2>p, <1>DialFine
  <2>9. Linked(r, B)
    <3>1. B.reqs = <<>> /\ B.need = 0 /\ B.owes = "none" /\ Len(B.wire) = 0
      BY DEF Fresh
    <3> HIDE DEF B
    <3>2. Spare(B)
      BY <3>1, SMTT(30) DEF Spare, Quiet, NoHeads, Clean, Rest
    <3> QED
      BY <2>7, <3>2 DEF Spare, Linked, Fits, Tidy, Answering
  <2> QED
    BY <2>2, <2>3, <2>4, <2>5, <2>7, <2>8, <2>9, <1>ConnectsKeeps DEF k
<1> QED
  BY <1>TakeKeeps, <1>ConnectKeeps

\* SendHead keeps Inv: the request head is written to the connection.
LEMMA SendHeadKeeps ==
    ASSUME Inv, NEW c \in Clients, SendHead(c)
    PROVE  Inv'
<1>k0. PICK k : k = cl[c]
  OBVIOUS
<1>b0. PICK b : b = be[k.conn]
  OBVIOUS
<1> DEFINE upload == SendsBody(k) /\ ~NoBody(k)
           p == IF upload THEN "upload" ELSE "await"
           q == [id |-> Id(k), head |-> Method(k) = "HEAD"]
           u == IF upload THEN k.unread ELSE 0
           S == [b EXCEPT !.reqs = Append(b.reqs, q), !.need = u]
           B == IF b.closed THEN b ELSE S
<1>r0. PICK r : r = [k EXCEPT !.pc = p, !.resp = NoResponse, !.sent = TRUE]
  OBVIOUS
<1> DEFINE n == hits[Id(k)]
           m == hits'[Id(k)]
<1>1. k \in Tasks /\ Fine(k) /\ Good(k)
  BY <1>k0, Own
<1>2. /\ k.pc = "request" /\ UNCHANGED <<pool, nextId, env>> /\ Become(c, r)
      /\ IF b.closed THEN be' = be /\ hits' = hits
         ELSE be' = [be EXCEPT ![k.conn] = S] /\ hits' = [hits EXCEPT ![Id(k)] = n + 1]
  BY <1>k0, <1>b0, <1>r0 DEF SendHead
<1>3. k.conn # NoConn /\ k.id > 0 /\ k.heads = 0 /\ k.unread <= k.req.body
  BY <1>1, <1>2 DEF Good, Holding, AtRest
<1>4. k.conn \in Conns /\ b \in Backends /\ Sound(b) /\ Linked(k, b) /\ b.open = TRUE
  BY <1>3, <1>k0, <1>b0, Own
<1>5. be' = [be EXCEPT ![k.conn] = B]
  <2>1. be \in [Conns -> Backends]
    BY DEF Inv, TypeOK
  <2>2. CASE b.closed
    <3>1. be = [be EXCEPT ![k.conn] = b]
      BY <1>4, <1>b0, <2>1
    <3> QED
      BY <1>2, <2>2, <3>1
  <2>3. CASE ~b.closed
    BY <1>2, <2>3
  <2> QED
    BY <2>2, <2>3
<1>h. hits \in [Ids -> Nat]
  BY DEF Inv, TypeOK
<1>i. Id(k) \in Ids /\ <<k.id, 2>> \in Ids /\ k.stage \in 1..2 /\ k.unread \in 0..MaxBody
  BY <1>1, <1>3, SMTT(30) DEF Id, Ids, Tasks
<1>6. /\ hits' \in [Ids -> Nat] /\ n \in Nat
      /\ m = (IF b.closed THEN n ELSE n + 1)
      /\ \A i \in Ids : i # Id(k) => hits'[i] = hits[i]
  BY <1>2, <1>h, <1>i, SMTT(30)
<1>7. \A i \in Ids : i[1] # k.id => hits'[i] = hits[i]
  BY <1>6, SMTT(30) DEF Id
<1>x. k.stage = 1 => hits'[<<k.id, 2>>] = hits[<<k.id, 2>>]
  <2>1. k.stage = 1 => <<k.id, 2>> # Id(k)
    BY SMTT(30) DEF Id
  <2> QED
    BY <1>6, <1>i, <2>1
<1> HIDE DEF n, m
<1>p. p \in PCs /\ p \in {"upload", "await"} /\ (p = "upload" => upload) /\ (p = "await" => ~upload)
  BY DEF PCs
<1>s. b.reqs = <<>> /\ b.need = 0 /\ NoHeads(b.wire) /\ (PlainHeads => Clean(b))
  BY <1>2, <1>4 DEF Linked, Fits, Quiet, Tidy
\* The connection.
<1>8. /\ S \in Backends
      /\ Len(S.reqs) = 1 /\ S.reqs[1] = q /\ S.need = u
      /\ S.open = b.open /\ S.closed = b.closed /\ S.wire = b.wire /\ S.owes = b.owes
  <2>1. q \in [id : Ids, head : BOOLEAN]
    BY <1>i
  <2>2. u \in 0..MaxBody
    BY <1>i, BoundsAssumption, SMTT(30)
  <2> HIDE DEF q, u
  <2>3. /\ Append(b.reqs, q) \in Seq([id : Ids, head : BOOLEAN])
        /\ Len(Append(b.reqs, q)) = 1 /\ Append(b.reqs, q)[1] = q
    BY <1>s, <2>1, SMTT(30)
  <2>4. S \in Backends
    BY <1>4, <2>2, <2>3 DEF Backends
  <2>5. /\ S.reqs = Append(b.reqs, q) /\ S.need = u
        /\ S.open = b.open /\ S.closed = b.closed /\ S.wire = b.wire /\ S.owes = b.owes
    BY <1>4 DEF Backends
  <2> QED
    BY <2>3, <2>4, <2>5
<1>q. q.id = Id(k) /\ (q.head <=> Method(k) = "HEAD")
  OBVIOUS
<1> HIDE DEF S, q
<1>9. B \in Backends /\ B.open = TRUE /\ Sound(B)
  <2>1. ~b.closed => Sound(S)
    BY <1>4, <1>8 DEF Sound
  <2> QED
    BY <1>4, <1>8, <2>1
\* The task.
<1> HIDE DEF p
<1>t. NoResponse \in Tokens
  BY Constants
<1>10. r \in Tasks
  BY <1>1, <1>p, <1>t, <1>r0 DEF Tasks
<1>11. /\ r.pc = p /\ r.conn = k.conn /\ r.pooled = k.pooled /\ r.resp = NoResponse
       /\ r.id = k.id /\ r.req = k.req /\ r.stage = k.stage /\ r.failed = k.failed
       /\ r.body = k.body /\ r.unread = k.unread /\ r.heads = k.heads
       /\ r.from = k.from /\ r.full = k.full /\ r.sent = TRUE
  BY <1>1, <1>r0 DEF Tasks
<1>k. /\ Id(r) = Id(k) /\ Method(r) = Method(k) /\ (SendsBody(r) <=> SendsBody(k))
      /\ (NoBody(r) <=> NoBody(k)) /\ ~Answering(r)
      /\ (Once(r) <=> Once(k)) /\ (Repeatable(r) <=> Repeatable(k))
  BY <1>11 DEF Id, Method, SendsBody, NoBody, Answering, Once, Repeatable
<1>12. r.pc = "await" /\ SendsBody(r) /\ r.body => r.unread = 0
  <2>1. ~upload /\ SendsBody(k) /\ k.body => k.req.body = 0
    BY DEF NoBody
  <2>2. k.req.body = 0 => k.unread = 0
    BY <1>3, <1>i, SMTT(30)
  <2> QED
    BY <1>11, <1>k, <1>p, <2>1, <2>2
<1>13. Good(r)
  <2>1. upload => SendsBody(r) /\ r.body
    BY <1>11, <1>k DEF NoBody
  <2> QED
    BY <1>1, <1>2, <1>3, <1>11, <1>12, <1>k, <1>p, <2>1 DEF Good, Holding, AtRest
<1>14. Sending(r)'
  <2>1. Sending(k)
    BY <1>1, <1>3 DEF Fine
  <2>2. /\ n = 0 \/ (n <= 1 /\ ~k.pooled /\ Repeatable(k))
        /\ n <= IF Once(k) THEN 1 ELSE 2
        /\ k.stage = 1 => hits[<<k.id, 2>>] = 0
    BY <1>2, <2>1 DEF Sending, n
  <2>3. Repeatable(k) => ~Once(k)
    BY DEF Repeatable, Once, SendsBody
  <2>4. m <= 1 \/ (m <= 2 /\ ~r.pooled /\ Repeatable(r))
    BY <1>6, <1>11, <1>k, <2>2, SMTT(30)
  <2>5. m <= IF Once(r) THEN 1 ELSE 2
    BY <1>6, <1>k, <2>2, <2>3, SMTT(30)
  <2>6. r.stage = 1 => hits'[<<r.id, 2>>] = 0
    BY <1>11, <1>x, <2>2
  <2>7. hits'[Id(r)] = m /\ m \in Nat
    BY <1>6, <1>k, SMTT(30) DEF m
  <2>8. r.pc \in {"upload", "await"}
    BY <1>11, <1>p
  <2> QED
    BY <2>4, <2>5, <2>6, <2>7, <2>8 DEF Sending
<1>15. Fine(r)'
  <2>1. PlainHeads => PlainHead(r)
    BY <1>1, <1>11 DEF Fine, PlainHead, HeadOnly
  <2> QED
    BY <1>2, <1>10, <1>13, <1>14, <2>1 DEF Fine, PlainHeads, PlainHead
<1>16. Linked(r, B)
  <2>1. Asked(r, B) \/ Replied(r, B)
    <3>1. CASE b.closed
      BY <1>s, <3>1 DEF Replied, NoHeads
    <3>2. CASE ~b.closed
      BY <1>8, <1>k, <1>q, <1>s, <3>2 DEF Asked
    <3> QED
      BY <3>1, <3>2
  <2>2. r.pc = "upload" /\ ~B.closed => B.need = r.unread
    BY <1>8, <1>11, <1>p
  <2>3. r.pc = "await" => B.need = 0
    BY <1>8, <1>11, <1>p, <1>s
  <2>4. Clean(b) => Clean(B)
    BY <1>8 DEF Clean, Rest
  <2> HIDE DEF B
  <2>5. r.pc \in {"upload", "await"}
    BY <1>11, <1>p
  <2> QED
    BY <1>k, <1>s, <2>1, <2>2, <2>3, <2>4, <2>5 DEF Linked, Fits, Tidy
<1> HIDE DEF B
<1>17. r.id = cl[c].id /\ r.conn = cl[c].conn /\ cl[c].conn # NoConn
  BY <1>3, <1>11, <1>k0
<1>18. \A i \in Ids : i[1] # r.id => hits'[i] = hits[i]
  BY <1>7, <1>11
<1>19. be' = [be EXCEPT ![cl[c].conn] = B]
  BY <1>5, <1>k0
<1> QED
  BY <1>2, <1>6, <1>9, <1>15, <1>16, <1>17, <1>18, <1>19, SendsKeeps

\* UploadDone keeps Inv: the whole body has been sent.
LEMMA UploadDoneKeeps ==
    ASSUME Inv, NEW c \in Clients, UploadDone(c)
    PROVE  Inv'
<1> DEFINE k == cl[c]
           p == IF k.resp = NoResponse THEN "await" ELSE "respond"
           r == [k EXCEPT !.pc = p]
           b == be[k.conn]
<1>1. k \in Tasks /\ Fine(k) /\ Good(k)
  BY Own
<1>2. /\ k.pc = "upload" /\ k.unread = 0 /\ Become(c, r)
      /\ UNCHANGED <<be, pool, hits, nextId, env>>
  BY DEF UploadDone
<1>3. k.conn # NoConn /\ k.sent
  BY <1>1, <1>2 DEF Good, Holding
<1>4. b \in Backends /\ Sound(b) /\ Linked(k, b)
  BY <1>3, Own
<1> HIDE DEF k, b
<1>p. p \in PCs /\ p \in {"await", "respond"} /\ (p = "await" <=> k.resp = NoResponse)
  BY DEF PCs
<1> HIDE DEF p
<1>5. r \in Tasks
  BY <1>1, <1>p DEF Tasks
<1>6. /\ r.pc = p /\ r.conn = k.conn /\ r.pooled = k.pooled /\ r.resp = k.resp
      /\ r.id = k.id /\ r.req = k.req /\ r.stage = k.stage /\ r.failed = k.failed
      /\ r.body = k.body /\ r.unread = 0 /\ r.heads = k.heads
      /\ r.from = k.from /\ r.full = k.full /\ r.sent = k.sent
  BY <1>1, <1>2 DEF Tasks
<1> HIDE DEF r
<1>7. Good(r)
  BY <1>1, <1>2, <1>3, <1>6, <1>p DEF Good, Holding, AtRest, Answering, Id
<1>8. Moves(k, r)
  BY <1>2, <1>5, <1>6, <1>p DEF Moves, Holding
<1>9. Fine(r)
  BY <1>1, <1>7, <1>8, MovesFine
<1>i. Id(r) = Id(k) /\ Method(r) = Method(k) /\ (HeadOnly(r) <=> HeadOnly(k))
  BY <1>6 DEF Id, Method, HeadOnly
<1>a. Answering(r) <=> Answering(k)
  BY <1>2, <1>6, <1>p DEF Answering
<1>10. Fits(r, b)
  <2>1. b.need = 0
    BY <1>2, <1>4 DEF Linked, Fits, Sound
  <2>2. ~Answering(k) => Asked(r, b) \/ Replied(r, b)
    BY <1>2, <1>4, <1>i DEF Linked, Fits, Asked, Replied
  <2>3. Answering(k) => b.reqs = <<>> /\ NoHeads(b.wire)
    BY <1>4 DEF Linked, Fits
  <2> QED
    BY <1>6, <1>a, <1>p, <2>1, <2>2, <2>3 DEF Fits
<1>11. PlainHeads => Tidy(r, b)
  BY <1>2, <1>4, <1>6, <1>a, <1>i, <1>p DEF Linked, Tidy, FramedBy
<1> QED
  BY <1>2, <1>6, <1>9, <1>10, <1>11, StaysKeeps DEF Linked, k, b

-----------------------------------------------------------------------------
(* The response's head, while the body is sent and after.                  *)

\* Left, the body bytes a relay leaves unread, changes nothing else.
LEMMA LeftAlike ==
    ASSUME NEW k \in Tasks, NEW left \in 0..k.unread
    PROVE  Alike(Left(k, left), k) /\ Left(k, left).unread = left
<1>1. left \in 0..MaxBody /\ left <= k.unread
  BY BoundsAssumption, SMTT(30) DEF Tasks
<1>2. Left(k, left) \in Tasks
  BY <1>1 DEF Left, Tasks
<1> QED
  BY <1>1, <1>2 DEF Alike, Left, Tasks

\* ReadChunk, one chunk off the client's body, changes nothing else.
LEMMA ReadChunkAlike ==
    ASSUME NEW k \in Tasks, k.unread > 0
    PROVE  /\ Alike(ReadChunk(k), k) /\ ReadChunk(k).unread = k.unread - 1
           /\ k.unread - 1 \in 0..k.unread
<1>1. k.unread - 1 \in 0..k.unread
  BY BoundsAssumption, SMTT(30) DEF Tasks
<1> QED
  BY <1>1, LeftAlike DEF ReadChunk

\* A read of a token that is not the close.
LEMMA ReadOffFields ==
    ASSUME NEW b \in Backends, b.wire # <<>>, Head(b.wire).kind # "fin",
           NEW B, B = ReadOff(b)
    PROVE  /\ B \in Backends
           /\ Len(b.wire) > 0 /\ Head(b.wire) = b.wire[1] /\ b.wire[1] \in Tokens
           /\ Len(B.wire) = Len(b.wire) - 1
           /\ \A i \in 1..Len(B.wire) : B.wire[i] = b.wire[i + 1]
           /\ B.owes = b.owes /\ B.reqs = b.reqs /\ B.need = b.need
           /\ B.open = b.open /\ B.closed = b.closed
<1>1. b.wire \in Seq(Tokens)
  BY DEF Backends
<1>2. /\ Len(b.wire) > 0 /\ Head(b.wire) = b.wire[1] /\ b.wire[1] \in Tokens
      /\ Tail(b.wire) \in Seq(Tokens) /\ Len(Tail(b.wire)) = Len(b.wire) - 1
      /\ \A i \in 1..Len(Tail(b.wire)) : Tail(b.wire)[i] = b.wire[i + 1]
  BY <1>1, HeadTail
<1>3. B = [b EXCEPT !.wire = Tail(b.wire), !.seen = FALSE]
  BY DEF ReadOff
<1>4. B \in Backends
  BY <1>2, <1>3 DEF Backends
<1>5. /\ B.wire = Tail(b.wire)
      /\ B.owes = b.owes /\ B.reqs = b.reqs /\ B.need = b.need
      /\ B.open = b.open /\ B.closed = b.closed
  BY <1>3 DEF Backends
<1> QED
  BY <1>2, <1>4, <1>5

\* A token read off a sound wire leaves a sound one.
LEMMA ReadOffSound ==
    ASSUME NEW b \in Backends, Sound(b), b.wire # <<>>, Head(b.wire).kind # "fin",
           NEW B, B = ReadOff(b)
    PROVE  Sound(B) /\ (NoHeads(b.wire) => NoHeads(B.wire))
<1>1. b.wire \in Seq(Tokens) /\ Len(b.wire) \in Nat
  BY SMTT(30) DEF Backends
<1>2. /\ Len(B.wire) = Len(b.wire) - 1 /\ Len(b.wire) > 0
      /\ \A i \in 1..Len(B.wire) : B.wire[i] = b.wire[i + 1]
      /\ B.owes = b.owes /\ B.reqs = b.reqs /\ B.need = b.need /\ B.closed = b.closed
  BY ReadOffFields
<1>3. \A i \in 1..Len(B.wire) : i + 1 \in 1..Len(b.wire) /\ B.wire[i] = b.wire[i + 1]
  BY <1>1, <1>2, SMTT(30)
<1> QED
  BY <1>2, <1>3, ZenonT(30) DEF Sound, NoHeads

\* The steps that send the body and read a response head keep Inv.
LEMMA HeadKeepsInv ==
    \A c \in Clients :
       /\ Inv
       /\ \/ ReadHead(c) \/ Salvage(c) \/ EarlyResponse(c)
          \/ UploadRead(c) \/ UploadWrite(c)
       => Inv'
\* The head of the response is read: it is the response to the request.
<1>HeadRead.
      ASSUME NEW k, Fine(k), k.pc \in {"upload", "write", "await"}, ~Answering(k),
             NEW b \in Backends, Sound(b), Linked(k, b),
             b.wire # <<>>, Head(b.wire).kind = "head",
             NEW B, B = ReadOff(b), NEW t, t = Head(b.wire)
      PROVE  /\ B \in Backends /\ Sound(B) /\ B.open = b.open /\ B.need = b.need
             /\ B.closed = b.closed /\ B.reqs = <<>> /\ NoHeads(B.wire)
             /\ t \in Tokens /\ t.id = Id(k) /\ t # NoResponse
             /\ PlainHeads => Rest(B, 0, FramedBy(k, t.response))
  <2> USE <1>HeadRead
  <2>1. /\ B \in Backends
        /\ Len(b.wire) > 0 /\ t = b.wire[1] /\ b.wire[1] \in Tokens
        /\ Len(B.wire) = Len(b.wire) - 1
        /\ \A i \in 1..Len(B.wire) : B.wire[i] = b.wire[i + 1]
        /\ B.owes = b.owes /\ B.reqs = b.reqs /\ B.need = b.need
        /\ B.open = b.open /\ B.closed = b.closed
    BY ReadOffFields
  <2>l. Len(b.wire) \in Nat
    BY SMTT(30) DEF Backends
  <2>2. Sound(B)
    BY ReadOffSound
  <2>3. ~NoHeads(b.wire)
    BY <2>1, <2>l, SMTT(30) DEF NoHeads
  <2>4. Replied(k, b)
    BY <2>3 DEF Linked, Fits, Asked
  <2>5. t.id = Id(k) /\ \A j \in 1..Len(b.wire) : b.wire[j].kind = "head" => j = 1
    BY <2>1, <2>l, <2>4, SMTT(30) DEF Replied
  <2>6. NoHeads(B.wire)
    <3>1. ASSUME NEW i \in 1..Len(B.wire) PROVE B.wire[i].kind # "head"
      <4>1. i + 1 \in 1..Len(b.wire) /\ i + 1 # 1 /\ B.wire[i] = b.wire[i + 1]
        BY <2>1, <2>l, SMTT(30)
      <4> QED
        BY <2>5, <4>1
    <3> QED
      BY <3>1 DEF NoHeads
  <2>7. t # NoResponse
    <3>1. k.id > 0
      BY DEF Fine, Good, AtRest
    <3>2. Id(k) # NoId
      BY <3>1, SMTT(30) DEF Id, NoId
    <3> QED
      <4>1. NoResponse.id = NoId
        BY DEF NoResponse, Token
      <4> QED
        BY <2>5, <3>2, <4>1
  <2>8. ASSUME PlainHeads PROVE Rest(B, 0, FramedBy(k, t.response))
    <3>1. Tidy(k, b)
      BY <2>8 DEF Linked
    <3>2. ~Clean(b)
      <4>1. b.wire[1] # Fin
        <5>1. Fin.kind = "fin"
          BY DEF Fin, Token
        <5>2. b.wire[1].kind = "head"
          BY <2>1
        <5> QED
          BY <5>1, <5>2
      <4>2. 0 + 1 = 1
        BY SMTT(30)
      <4>3. Len(b.wire) # 0
        BY <2>1, <2>l, SMTT(30)
      <4> QED
        BY <4>1, <4>2, <4>3 DEF Clean, Rest
    <3>3. Rest(b, 1, FramedBy(k, t.response))
      BY <2>1, <3>1, <3>2 DEF Tidy
    <3> HIDE DEF Rest
    <3> DEFINE f == FramedBy(k, t.response)
    <3> HIDE DEF f
    <3>4. CASE b.owes = f /\ Len(b.wire) = 1
      BY <2>1, <3>4, SMTT(30) DEF Rest, f
    <3>5. CASE b.owes = "none" /\ Len(b.wire) = 2 /\ b.wire[2] = Fin
      <4>1. Len(B.wire) = 1 /\ B.wire[1] = Fin
        BY <2>1, <3>5, SMTT(30)
      <4> QED
        BY <2>1, <3>5, <4>1, SMTT(30) DEF Rest
    <3>6. CASE /\ f # "none" /\ b.owes = "none" /\ f # "eof"
               /\ Len(b.wire) = 2 /\ b.wire[2] = Body
      <4>1. Len(B.wire) = 1 /\ B.wire[1] = Body
        BY <2>1, <3>6, SMTT(30)
      <4> QED
        BY <2>1, <3>6, <4>1, SMTT(30) DEF Rest, f
    <3>7. CASE /\ f # "none" /\ b.owes = "none"
               /\ Len(b.wire) = 3 /\ b.wire[2] = Body /\ b.wire[3] = Fin
      <4>1. Len(B.wire) = 2 /\ B.wire[1] = Body /\ B.wire[2] = Fin
        BY <2>1, <3>7, SMTT(30)
      <4> QED
        BY <2>1, <3>7, <4>1, SMTT(30) DEF Rest, f
    <3> QED
      <4>1. 1 + 1 = 2 /\ 1 + 2 = 3
        BY SMTT(30)
      <4>2. Rest(b, 1, f)
        BY <3>3 DEF f
      <4> QED
        BY <3>4, <3>5, <3>6, <3>7, <4>1, <4>2 DEF Rest
  <2> QED
    BY <2>1, <2>2, <2>4, <2>5, <2>6, <2>7, <2>8 DEF Replied
\* The head of the response to k is read, perhaps with a chunk of its body
\* that is yet to be written: what the task r is then and what is known of its
\* connection B.
<1>RespondLinked.
      ASSUME NEW r, r.pc \in {"write", "respond"}, r.resp # NoResponse,
             NEW B, B.reqs = <<>>, NoHeads(B.wire),
             r.pc = "write" /\ ~B.closed => B.need = r.unread + 1,
             r.pc = "respond" /\ r.sent => B.need = 0,
             PlainHeads => Rest(B, 0, FramedBy(r, r.resp.response))
      PROVE  Linked(r, B)
  <2> USE <1>RespondLinked
  <2>1. Answering(r)
    BY DEF Answering
  <2> QED
    BY <2>1 DEF Linked, Fits, Tidy
\* ReadHead keeps Inv: a response head is read off the connection.
<1>ReadHeadKeeps.
      ASSUME Inv, NEW c \in Clients, ReadHead(c)
      PROVE  Inv'
  <2> USE <1>ReadHeadKeeps
  <2> DEFINE k == cl[c]
             b == be[k.conn]
             t == Head(b.wire)
             B == ReadOff(b)
             r == [k EXCEPT !.resp = t, !.pc = "respond"]
  <2>1. k \in Tasks /\ Fine(k) /\ Good(k)
    BY Own
  <2>2. /\ k.pc = "await" /\ Become(c, r) /\ UNCHANGED <<pool, hits, nextId, env>>
        /\ b.wire # <<>> /\ t.kind = "head" /\ be' = [be EXCEPT ![k.conn] = B]
    BY DEF ReadHead, Readable, Consumed, Tok
  <2>3. k.conn # NoConn /\ k.sent /\ k.resp = NoResponse /\ ~Answering(k)
    BY <2>1, <2>2 DEF Good, Holding, Answering
  <2>4. b \in Backends /\ Sound(b) /\ Linked(k, b) /\ b.open = TRUE
    BY <2>3, Own
  <2>5. /\ B \in Backends /\ Sound(B) /\ B.open = b.open /\ B.need = b.need
        /\ B.closed = b.closed /\ B.reqs = <<>> /\ NoHeads(B.wire)
        /\ t \in Tokens /\ t.id = Id(k) /\ t # NoResponse
        /\ PlainHeads => Rest(B, 0, FramedBy(k, t.response))
    BY <2>1, <2>2, <2>3, <2>4, <1>HeadRead
  <2> HIDE DEF k, b, t, B
  <2>p. "respond" \in PCs
    BY DEF PCs
  <2>6. r \in Tasks
    BY <2>1, <2>5, <2>p DEF Tasks
  <2>7. /\ r.pc = "respond" /\ r.conn = k.conn /\ r.pooled = k.pooled /\ r.resp = t
        /\ r.id = k.id /\ r.req = k.req /\ r.stage = k.stage /\ r.failed = k.failed
        /\ r.body = k.body /\ r.unread = k.unread /\ r.heads = k.heads
        /\ r.from = k.from /\ r.full = k.full /\ r.sent = k.sent
    BY <2>1 DEF Tasks
  <2> HIDE DEF r
  <2>i. Id(r) = Id(k) /\ FramedBy(r, t.response) = FramedBy(k, t.response)
        /\ (SendsBody(r) <=> SendsBody(k))
    BY <2>7 DEF Id, FramedBy, HeadOnly, SendsBody, Method
  <2>8. Good(r)
    <3>1. r.pc \in Holding /\ r.pc \notin AtRest /\ k.pc \notin AtRest
      BY <2>2, <2>7 DEF Holding, AtRest
    <3>2. /\ k.id > 0 /\ k.heads = 0 /\ k.full /\ k.unread <= k.req.body
          /\ ~k.body => k.stage = 2 /\ (k.failed \/ k.unread = 0)
          /\ ~Untracked(k.req) => k.heads <= 1
          /\ SendsBody(k) /\ k.body /\ k.sent => k.unread = 0
          /\ k.heads > 0 => k.from \in {NoId, Id(k)}
      BY <2>1, <2>2, <3>1 DEF Good
    <3> QED
      BY <2>3, <2>5, <2>7, <2>i, <3>1, <3>2 DEF Good
  <2>9. Fine(r)
    <3>1. Moves(k, r)
      BY <2>2, <2>6, <2>7 DEF Moves, Holding
    <3> QED
      BY <2>1, <2>8, <3>1, MovesFine
  <2>10. Linked(r, B)
    <3>1. B.need = 0
      BY <2>2, <2>3, <2>4, <2>5 DEF Linked, Fits
    <3>2. /\ r.pc = "respond" /\ r.resp # NoResponse
          /\ r.sent => B.need = 0
      BY <2>5, <2>7, <3>1
    <3>3. PlainHeads => Rest(B, 0, FramedBy(r, r.resp.response))
      BY <2>5, <2>7, <2>i
    <3>4. B.reqs = <<>> /\ NoHeads(B.wire)
      BY <2>5
    <3>5. Answering(r)
      BY <3>2 DEF Answering
    <3> QED
      BY <3>2, <3>3, <3>4, <3>5 DEF Linked, Fits, Tidy
  <2> QED
    BY <2>2, <2>3, <2>4, <2>5, <2>7, <2>9, <2>10, UsesKeeps DEF k
\* A task that reads a response head while it uploads is Fine.
<1>EarlyFine.
      ASSUME NEW k, Fine(k), k.pc \in {"upload", "write"},
             NEW t \in Tokens, t.id = Id(k), t # NoResponse,
             NEW p \in {"write", "respond"}, NEW sent \in BOOLEAN, p = "write" => sent,
             p = "respond" => sent = FALSE, NEW u \in 0..k.unread,
             NEW r, r = [k EXCEPT !.unread = u, !.resp = t, !.sent = sent, !.pc = p]
      PROVE  Early(r, k, t, p, sent, u)
  <2> USE <1>EarlyFine
  <2>1. k \in Tasks /\ Good(k)
    BY DEF Fine
  <2>2. u \in 0..MaxBody /\ u <= k.unread /\ p \in PCs
    BY <2>1, BoundsAssumption, SMTT(30) DEF Tasks, PCs
  <2>4. r \in Tasks
    BY <2>1, <2>2, ZenonT(30) DEF Tasks
  <2>5. /\ r.pc = p /\ r.conn = k.conn /\ r.pooled = k.pooled /\ r.resp = t
        /\ r.id = k.id /\ r.req = k.req /\ r.stage = k.stage /\ r.failed = k.failed
        /\ r.body = k.body /\ r.unread = u /\ r.heads = k.heads
        /\ r.from = k.from /\ r.full = k.full /\ r.sent = sent
    BY <2>1, ZenonT(30) DEF Tasks
  <2>u. r.unread <= r.req.body
    <3>1. k.unread <= k.req.body /\ k.unread \in Nat /\ k.req.body \in Nat /\ u \in Nat
      BY <2>1, <2>2, BoundsAssumption, SMTT(30) DEF Good, Tasks, Request
    <3> QED
      BY <2>2, <2>5, <3>1, SMTT(30)
  <2>i. Id(r) = Id(k) /\ (SendsBody(r) <=> SendsBody(k))
    BY <2>5 DEF Id, SendsBody, Method
  <2>k. /\ k.id > 0 /\ k.heads = 0 /\ k.full /\ k.conn # NoConn
        /\ k.sent /\ SendsBody(k) /\ k.body
    BY <2>1 DEF Good, Holding, AtRest
  <2>6. Good(r)
    <3>1. 0 <= 1 /\ ~(0 > 0)
      BY SMTT(30)
    <3> QED
      BY <2>5, <2>u, <2>i, <2>k, <3>1 DEF Good, Holding, AtRest, Answering
  <2>7. Moves(k, r)
    BY <2>4, <2>5 DEF Moves, Holding
  <2>8. Fine(r)
    BY <2>6, <2>7, MovesFine
  <2> QED
    BY <2>5, <2>8 DEF Early
\* Salvage keeps Inv: a response found after the upload failed.
<1>SalvageKeeps.
      ASSUME Inv, NEW c \in Clients, Salvage(c)
      PROVE  Inv'
  <2> USE <1>SalvageKeeps
  <2> DEFINE k == cl[c]
             b == be[k.conn]
             t == Head(b.wire)
             B == ReadOff(b)
             r == [k EXCEPT !.unread = k.unread, !.resp = t, !.sent = FALSE,
                            !.pc = "respond"]
  <2>1. k \in Tasks /\ Fine(k) /\ Good(k)
    BY Own
  <2>2. /\ k.pc \in {"upload", "write"} /\ UNCHANGED <<pool, hits, nextId, env>>
        /\ b.wire # <<>> /\ t.kind = "head" /\ be' = [be EXCEPT ![k.conn] = B]
    BY DEF Salvage, WriteFails, Readable, Consumed, Tok
  <2>u. k.unread \in 0..k.unread
    BY <2>1, BoundsAssumption, SMTT(30) DEF Tasks
  <2>b. Become(c, r)
    <3>1. r = [k EXCEPT !.sent = FALSE, !.resp = t, !.pc = "respond"]
      BY <2>1 DEF Tasks
    <3> QED
      BY <3>1 DEF Salvage, Tok
  <2>3. k.conn # NoConn
    BY <2>1, <2>2 DEF Good, Holding
  <2>4. b \in Backends /\ Sound(b) /\ Linked(k, b) /\ b.open = TRUE
    BY <2>3, Own
  <2>n. ~Answering(k)
    <3>1. Len(b.wire) > 0 /\ t = b.wire[1]
      <4>1. b.wire \in Seq(Tokens)
        BY <2>4 DEF Backends
      <4> QED
        BY <2>2, <4>1, HeadTail
    <3>2. ~NoHeads(b.wire)
      <4>1. Len(b.wire) \in Nat
        BY <2>4, LenNat DEF Backends
      <4>2. 1 \in 1..Len(b.wire)
        BY <3>1, <4>1, SMTT(30)
      <4> QED
        BY <2>2, <3>1, <4>2 DEF NoHeads
    <3> QED
      BY <2>4, <3>2 DEF Linked, Fits
  <2>5. /\ B \in Backends /\ Sound(B) /\ B.open = b.open /\ B.need = b.need
        /\ B.closed = b.closed /\ B.reqs = <<>> /\ NoHeads(B.wire)
        /\ t \in Tokens /\ t.id = Id(k) /\ t # NoResponse
        /\ PlainHeads => Rest(B, 0, FramedBy(k, t.response))
    BY <2>1, <2>2, <2>n, <2>4, <1>HeadRead
  <2> HIDE DEF k, b, t, B
  <2>6. /\ Fine(r) /\ r.conn = k.conn /\ r.id = k.id /\ r.req = k.req /\ r.pc = "respond"
        /\ r.resp = t /\ r.sent = FALSE
    <3>1. Early(r, k, t, "respond", FALSE, k.unread)
      BY <2>1, <2>2, <2>5, <2>u, <1>EarlyFine
    <3> QED
      BY <3>1 DEF Early
  <2> HIDE DEF r
  <2>7. FramedBy(r, t.response) = FramedBy(k, t.response)
    BY <2>6 DEF FramedBy, HeadOnly
  <2>8. Linked(r, B)
    BY <2>5, <2>6, <2>7, <1>RespondLinked, SMTT(30)
  <2> QED
    BY <2>2, <2>3, <2>4, <2>5, <2>6, <2>8, <2>b, UsesKeeps DEF k
\* EarlyResponse keeps Inv: a response head read before the upload's end.
<1>EarlyResponseKeeps.
      ASSUME Inv, NEW c \in Clients, EarlyResponse(c)
      PROVE  Inv'
  <2> USE <1>EarlyResponseKeeps
  <2> DEFINE k == cl[c]
             b == be[k.conn]
             t == Head(b.wire)
             M == ReadOff(b)
             err == t.response.err
             p == IF err THEN "respond" ELSE "write"
             u == k.unread - 1
             r == [k EXCEPT !.unread = u, !.resp = t, !.sent = ~err, !.pc = p]
  <2>1. k \in Tasks /\ Fine(k) /\ Good(k)
    BY Own
  <2>2. /\ k.pc = "upload" /\ k.unread > 0 /\ UNCHANGED <<pool, hits, nextId, env>>
        /\ k.resp = NoResponse /\ b.wire # <<>> /\ t.kind = "head"
        /\ be' = [be EXCEPT ![k.conn] = M]
        /\ Become(c, [ReadChunk(k) EXCEPT !.resp = t, !.sent = ~err, !.pc = p])
    BY DEF EarlyResponse, Consumed, Tok, Watching, Readable
  <2>b. Become(c, r)
    <3> HIDE DEF k, t, p, err
    <3>1. r = [ReadChunk(k) EXCEPT !.resp = t, !.sent = ~err, !.pc = p]
      BY <2>1 DEF ReadChunk, Left, Tasks
    <3> QED
      BY <2>2, <3>1
  <2>3. k.conn # NoConn /\ ~Answering(k)
    BY <2>1, <2>2 DEF Good, Holding, Answering
  <2>4. b \in Backends /\ Sound(b) /\ Linked(k, b) /\ b.open = TRUE
    BY <2>3, Own
  <2>5. /\ M \in Backends /\ Sound(M) /\ M.open = b.open /\ M.need = b.need
        /\ M.closed = b.closed /\ M.reqs = <<>> /\ NoHeads(M.wire)
        /\ t \in Tokens /\ t.id = Id(k) /\ t # NoResponse
        /\ PlainHeads => Rest(M, 0, FramedBy(k, t.response))
    BY <2>1, <2>2, <2>3, <2>4, <1>HeadRead
  <2>6. ~b.closed => b.need = k.unread
    BY <2>2, <2>4 DEF Linked, Fits
  <2>u. k.unread \in Nat /\ u \in 0..k.unread /\ u + 1 = k.unread
    <3> HIDE DEF k
    <3>1. k.unread \in 0..MaxBody /\ k.unread > 0
      BY <2>1, <2>2, ZenonT(30) DEF Tasks
    <3> QED
      BY <3>1, BoundsAssumption, SMTT(30)
  <2> HIDE DEF k, b, t, M, u
  <2>e. err \in BOOLEAN
    BY <2>5 DEF Tokens, Response
  <2> HIDE DEF err
  <2>p. p \in {"write", "respond"} /\ (p = "write" => ~err) /\ (p = "respond" => (~err) = FALSE)
    BY <2>e
  <2>r. r = [k EXCEPT !.unread = u, !.resp = t, !.sent = ~err, !.pc = p]
    OBVIOUS
  <2> HIDE DEF p, r
  <2>7. Early(r, k, t, p, ~err, u)
    BY <2>1, <2>2, <2>5, <2>e, <2>p, <2>r, <2>u, <1>EarlyFine
  <2>8. /\ Fine(r) /\ r.conn = k.conn /\ r.id = k.id /\ r.req = k.req /\ r.pc = p
        /\ r.resp = t /\ r.sent = ~err /\ r.unread = u
    BY <2>7 DEF Early
  <2>9. FramedBy(r, t.response) = FramedBy(k, t.response)
    BY <2>8 DEF FramedBy, HeadOnly
  <2>10. Linked(r, M)
    <3>1. /\ r.pc \in {"write", "respond"} /\ r.resp # NoResponse
          /\ r.pc = "write" /\ ~M.closed => M.need = r.unread + 1
          /\ r.pc = "respond" /\ r.sent => M.need = 0
      BY <2>5, <2>6, <2>8, <2>p, <2>u
    <3>2. PlainHeads => Rest(M, 0, FramedBy(r, r.resp.response))
      BY <2>5, <2>8, <2>9
    <3> QED
      BY <2>5, <3>1, <3>2, <1>RespondLinked, SMTT(30)
  <2> QED
    BY <2>2, <2>3, <2>4, <2>5, <2>8, <2>10, <2>b, UsesKeeps DEF k
\* An upload that goes on: r is the task of k with a chunk more read or written,
\* and B its connection.
<1>UploadGoesOn.
      ASSUME NEW k, Fine(k), k.pc \in {"upload", "write"}, NEW r, Alike(r, k),
             r.pc \in {"upload", "write"}, r.conn = k.conn, r.pooled = k.pooled,
             r.resp = k.resp, r.sent = k.sent,
             NEW b, Linked(k, b), NEW B, B.reqs = b.reqs, B.wire = b.wire,
             B.owes = b.owes,
             r.pc = "upload" /\ ~B.closed => B.need = r.unread,
             r.pc = "write" /\ ~B.closed => B.need = r.unread + 1
      PROVE  Fine(r) /\ Linked(r, B)
  <2> USE <1>UploadGoesOn
  <2>1. k \in Tasks /\ Good(k)
    BY DEF Fine
  <2>8. /\ r \in Tasks /\ r.id = k.id /\ r.req = k.req /\ r.stage = k.stage /\ r.failed = k.failed
        /\ r.body = k.body /\ r.heads = k.heads /\ r.from = k.from /\ r.full = k.full
    BY DEF Alike
  <2>i. /\ Id(r) = Id(k) /\ Method(r) = Method(k) /\ (SendsBody(r) <=> SendsBody(k))
        /\ (Answering(r) <=> Answering(k))
        /\ \A f : FramedBy(r, f) = FramedBy(k, f)
    BY <2>8 DEF Id, SendsBody, Method, Answering, FramedBy, HeadOnly
  <2>9. r.unread <= r.req.body
    <3>1. k.unread <= k.req.body /\ r.unread <= k.unread
      BY <2>1 DEF Good, AtRest, Alike
    <3>2. k.unread \in Int /\ k.req.body \in Int /\ r.unread \in Int
      BY <2>1, <2>8, BoundsAssumption, SMTT(30) DEF Tasks, Request
    <3> QED
      BY <2>8, <3>1, <3>2, SMTT(30)
  <2>k. /\ k.id > 0 /\ k.heads = 0 /\ k.full /\ k.conn # NoConn
        /\ k.sent /\ SendsBody(k) /\ k.body /\ (Answering(k) => k.resp.id = Id(k))
    BY <2>1 DEF Good, Holding, AtRest
  <2>10. Good(r)
    <3>1. 0 <= 1 /\ ~(0 > 0)
      BY SMTT(30)
    <3> QED
      BY <2>8, <2>9, <2>i, <2>k, <3>1 DEF Good, Holding, AtRest
  <2>11. Moves(k, r)
    BY <2>8 DEF Moves, Holding
  <2>12. Fine(r)
    BY <2>1, <2>10, <2>11, MovesFine
  <2>13. Fits(r, B)
    <3>2. ~Answering(r) => Asked(r, B) \/ Replied(r, B)
      <4>1. Asked(k, b) => Asked(r, B)
        BY <2>i DEF Asked
      <4>2. Replied(k, b) => Replied(r, B)
        BY <2>i DEF Replied
      <4>3. Fits(k, b)
        BY DEF Linked
      <4> QED
        BY <2>i, <4>1, <4>2, <4>3 DEF Fits
    <3>3. Answering(r) => B.reqs = <<>> /\ NoHeads(B.wire)
      BY <2>i DEF Linked, Fits
    <3> QED
      BY <3>2, <3>3 DEF Fits
  <2>14. PlainHeads => Tidy(r, B)
    <3>1. \A n, f : Rest(B, n, f) <=> Rest(b, n, f)
      BY SMTT(30) DEF Rest
    <3> SUFFICES ASSUME PlainHeads PROVE Tidy(r, B)
      OBVIOUS
    <3>2. Tidy(k, b)
      BY DEF Linked
    <3>3. Clean(B) <=> Clean(b)
      BY <3>1 DEF Clean
    <3>5. Answering(r) => Rest(B, 0, FramedBy(r, r.resp.response))
      BY <2>i, <3>1, <3>2 DEF Tidy
    <3>6. ~Answering(r) =>
             \/ Clean(B)
             \/ /\ Len(B.wire) > 0 /\ B.wire[1].kind = "head"
                /\ Rest(B, 1, FramedBy(r, B.wire[1].response))
      BY <2>i, <3>1, <3>2, <3>3 DEF Tidy
    <3> QED
      BY <3>5, <3>6 DEF Tidy
  <2> QED
    BY <2>12, <2>13, <2>14 DEF Linked
\* UploadRead keeps Inv: a chunk is read off the client connection.
<1>UploadReadKeeps.
      ASSUME Inv, NEW c \in Clients, UploadRead(c)
      PROVE  Inv'
  <2> USE <1>UploadReadKeeps
  <2> DEFINE k == cl[c]
             b == be[k.conn]
             m == ReadChunk(k)
             r == [m EXCEPT !.pc = "write"]
  <2>1. k \in Tasks /\ Fine(k) /\ Good(k)
    BY Own
  <2>2. /\ k.pc = "upload" /\ k.unread > 0 /\ UNCHANGED <<be, pool, hits, nextId, env>>
        /\ Become(c, r)
    BY DEF UploadRead
  <2>3. k.conn # NoConn
    BY <2>1, <2>2 DEF Good, Holding
  <2>4. b \in Backends /\ Sound(b) /\ Linked(k, b)
    BY <2>3, Own
  <2>5. ~b.closed => b.need = k.unread
    BY <2>2, <2>4 DEF Linked, Fits
  <2>u. k.unread - 1 + 1 = k.unread
    BY <2>1, BoundsAssumption, SMTT(30) DEF Tasks
  <2> HIDE DEF k, b
  <2>a. Alike(m, k) /\ m.unread = k.unread - 1
    BY <2>1, <2>2, ReadChunkAlike
  <2>6. /\ m.conn = k.conn /\ m.pooled = k.pooled /\ m.resp = k.resp /\ m.sent = k.sent
    BY <2>1 DEF ReadChunk, Left, Tasks
  <2> HIDE DEF m
  <2>t. m \in Tasks /\ "write" \in PCs
    BY <2>a DEF Alike, PCs
  <2>7. r \in Tasks
    BY <2>t DEF Tasks
  <2>8. /\ r.pc = "write" /\ r.conn = m.conn /\ r.pooled = m.pooled /\ r.resp = m.resp
        /\ r.sent = m.sent /\ r.unread = m.unread
        /\ r.id = m.id /\ r.req = m.req /\ r.stage = m.stage /\ r.failed = m.failed
        /\ r.body = m.body /\ r.heads = m.heads /\ r.from = m.from /\ r.full = m.full
    BY <2>t DEF Tasks
  <2> HIDE DEF r
  <2>9. Alike(r, k)
    BY <2>7, <2>8, <2>a DEF Alike
  <2>10. ~b.closed => b.need = r.unread + 1
    BY <2>5, <2>8, <2>a, <2>u
  <2>11. Fine(r) /\ Linked(r, b)
    BY <2>1, <2>2, <2>4, <2>6, <2>8, <2>9, <2>10, <1>UploadGoesOn
  <2> QED
    BY <2>2, <2>3, <2>6, <2>8, <2>9, <2>11, StaysKeeps DEF k, b, Alike
\* UploadWrite keeps Inv: a chunk is written to the backend.
<1>UploadWriteKeeps.
      ASSUME Inv, NEW c \in Clients, UploadWrite(c)
      PROVE  Inv'
  <2> USE <1>UploadWriteKeeps
  <2> DEFINE k == cl[c]
             b == be[k.conn]
             B == [b EXCEPT !.need = b.need - 1, !.inbox = b.inbox + 1]
             r == [k EXCEPT !.pc = "upload"]
  <2>1. k \in Tasks /\ Fine(k) /\ Good(k)
    BY Own
  <2>2. /\ k.pc = "write" /\ UNCHANGED <<pool, hits, nextId, env>> /\ Become(c, r)
        /\ \/ ~b.closed /\ b.inbox < SocketBuf /\ be' = [be EXCEPT ![k.conn] = B]
           \/ b.closed /\ be' = be
    BY DEF UploadWrite
  <2>3. k.conn # NoConn
    BY <2>1, <2>2 DEF Good, Holding
  <2>4. b \in Backends /\ Sound(b) /\ Linked(k, b) /\ b.open = TRUE
    BY <2>3, Own
  <2>5. ~b.closed => b.need = k.unread + 1
    BY <2>2, <2>4 DEF Linked, Fits
  <2>u. k.unread \in Nat /\ k.unread + 1 - 1 = k.unread /\ k.unread <= k.unread
    BY <2>1, BoundsAssumption, SMTT(30) DEF Tasks
  <2> HIDE DEF k, b
  <2>t. "upload" \in PCs
    BY DEF PCs
  <2>7. r \in Tasks
    BY <2>1, <2>t DEF Tasks
  <2>8. /\ r.pc = "upload" /\ r.conn = k.conn /\ r.pooled = k.pooled /\ r.resp = k.resp
        /\ r.sent = k.sent /\ r.unread = k.unread
        /\ r.id = k.id /\ r.req = k.req /\ r.stage = k.stage /\ r.failed = k.failed
        /\ r.body = k.body /\ r.heads = k.heads /\ r.from = k.from /\ r.full = k.full
    BY <2>1 DEF Tasks
  <2> HIDE DEF r
  <2>9. Alike(r, k)
    BY <2>7, <2>8, <2>u DEF Alike
  <2>10. CASE b.closed
    <3>1. Fine(r) /\ Linked(r, b)
      BY <2>1, <2>2, <2>4, <2>8, <2>9, <2>10, <1>UploadGoesOn
    <3>2. be' = be
      BY <2>2, <2>10
    <3> QED
      BY <2>2, <2>3, <2>8, <3>1, <3>2, StaysKeeps DEF k, b
  <2>11. CASE ~b.closed
    <3>0. b.need - 1 \in 0..MaxBody /\ b.inbox + 1 \in 0..SocketBuf /\ b.need - 1 = k.unread
      BY <2>2, <2>4, <2>5, <2>11, <2>u, BoundsAssumption, SMTT(30) DEF Backends
    <3>1. B \in Backends
      BY <2>4, <3>0 DEF Backends
    <3>2. /\ B.closed = b.closed /\ B.open = b.open /\ B.need = b.need - 1
          /\ B.reqs = b.reqs /\ B.wire = b.wire /\ B.owes = b.owes
      BY <2>4 DEF Backends
    <3>b. be' = [be EXCEPT ![k.conn] = B]
      BY <2>2, <2>11
    <3> HIDE DEF B
    <3>3. Sound(B)
      BY <2>4, <2>11, <3>2 DEF Sound
    <3>4. Fine(r) /\ Linked(r, B)
      BY <2>1, <2>2, <2>4, <2>8, <2>9, <3>0, <3>2, <1>UploadGoesOn
    <3> QED
      BY <2>2, <2>3, <2>4, <2>8, <3>1, <3>2, <3>3, <3>4, <3>b, UsesKeeps DEF k
  <2> QED
    BY <2>10, <2>11
<1> QED
  BY <1>ReadHeadKeeps, <1>SalvageKeeps, <1>EarlyResponseKeeps, <1>UploadReadKeeps,
     <1>UploadWriteKeeps

-----------------------------------------------------------------------------
(* A request that is answered without a backend, or given up.              *)

\* Return, which ends a request (the end of a handler's connection loop), field by field.
LEMMA ReturnFields ==
    ASSUME NEW k \in Tasks, NEW keep \in BOOLEAN, NEW r, r = Return(k, keep)
    PROVE  Returned(r, k, keep)
<1>1. IdleClient \in Tasks /\ (IF keep /\ ~k.gone THEN "idle" ELSE "closed") \in PCs
  BY Constants DEF PCs
<1>2. r \in Tasks
  BY <1>1, ZenonT(30) DEF Return, Tasks
<1>3. /\ r.id = k.id /\ r.req = k.req /\ r.unread = k.unread /\ r.body = k.body
      /\ r.heads = k.heads /\ r.from = k.from /\ r.full = k.full
      /\ r.conn = NoConn /\ r.stage = k.stage /\ r.failed = k.failed
  BY DEF Return, IdleClient
<1>4. r.pc = IF keep /\ ~k.gone THEN "idle" ELSE "closed"
  BY SMTT(30) DEF Return
<1>5. r.pc \in AtRest /\ (r.pc = "idle" => keep)
  BY <1>4 DEF AtRest
<1> QED
  BY <1>2, <1>3, <1>5 DEF Returned

\* Rerun, the second pass of a continued request, field by field.
LEMMA RerunFields ==
    ASSUME NEW k \in Tasks, NEW r, r = Rerun(k)
    PROVE  /\ r \in Tasks
           /\ r.pc = "continue" /\ r.stage = 2 /\ r.conn = NoConn
           /\ r.id = k.id /\ r.req = k.req /\ r.unread = k.unread /\ r.body = k.body
           /\ r.heads = k.heads /\ r.from = k.from /\ r.full = k.full
           /\ r.failed = k.failed
<1>1. NoResponse \in Tokens /\ "continue" \in PCs /\ 2 \in 1..2
  BY Constants, SMTT(30) DEF PCs
<1>2. r \in Tasks
  BY <1>1 DEF Rerun, Tasks
<1>3. /\ r.pc = "continue" /\ r.stage = 2 /\ r.conn = NoConn
      /\ r.id = k.id /\ r.req = k.req /\ r.unread = k.unread /\ r.body = k.body
      /\ r.heads = k.heads /\ r.from = k.from /\ r.full = k.full
      /\ r.failed = k.failed
  BY DEF Rerun, Tasks
<1> QED
  BY <1>2, <1>3

\* SendFixed, a response zeroserve makes up itself, field by field.
LEMMA SendFixedFields ==
    ASSUME NEW k \in Tasks, k.heads <= 1, NEW r, r = SendFixed(k)
    PROVE  /\ r \in Tasks
           /\ r.heads = k.heads + 1 /\ r.from = NoId /\ r.full = TRUE
           /\ r.id = k.id /\ r.req = k.req /\ r.unread = k.unread
           /\ r.stage = k.stage /\ r.failed = k.failed /\ r.gone = k.gone /\ r.body = k.body
<1>1. k.heads + 1 \in 0..2
  BY SMTT(30) DEF Tasks
<1>2. r \in Tasks
  BY <1>1 DEF SendFixed, Tasks
<1>3. /\ r.heads = k.heads + 1 /\ r.from = NoId /\ r.full = TRUE
      /\ r.id = k.id /\ r.req = k.req /\ r.unread = k.unread
      /\ r.stage = k.stage /\ r.failed = k.failed /\ r.gone = k.gone /\ r.body = k.body
  BY DEF SendFixed, Tasks
<1> QED
  BY <1>2, <1>3

\* DrainedTask, which reads off a body still held, changes nothing else.
LEMMA DrainedAlike ==
    ASSUME NEW k \in Tasks
    PROVE  /\ Alike(DrainedTask(k), k)
           /\ DrainedTask(k).unread = IF k.body THEN 0 ELSE k.unread
<1>1. Drained(k) \in 0..k.unread
  BY BoundsAssumption, SMTT(30) DEF Drained, Tasks
<1> QED
  BY <1>1, LeftAlike DEF DrainedTask, Drained

\* A task is like itself.
LEMMA SelfAlike ==
    ASSUME NEW k \in Tasks
    PROVE  Alike(k, k)
BY SMTT(30) DEF Alike, Tasks

\* What is left of a body is within what the request announced.
LEMMA BodyBound ==
    ASSUME NEW k, Fine(k), NEW m, Alike(m, k)
    PROVE  m.unread <= m.req.body
<1>1. k.unread <= k.req.body /\ m.req = k.req /\ m.unread <= k.unread
  BY DEF Fine, Good, Alike
<1>2. k.unread \in 0..MaxBody /\ m.unread \in 0..MaxBody /\ k.req.body \in 0..MaxBody
  BY DEF Fine, Alike, Tasks, Request
<1> QED
  BY <1>1, <1>2, SMTT(30)

\* The end of a request: at rest, without a connection.
LEMMA RestFine ==
    ASSUME NEW k, Fine(k), NEW r \in Tasks,
           r.id = k.id /\ r.req = k.req /\ r.stage = k.stage,
           r.body => k.body, r.pc \in AtRest, r.conn = NoConn, Good(r)
    PROVE  Fine(r)
<1>1. Once(r) => Once(k)
  BY DEF Once, SendsBody, Method, NoBody
<1>2. ASSUME r.id > 0 PROVE Sending(r)
  <2>1. Sending(k)
    BY <1>2 DEF Fine
  <2>2. Id(r) = Id(k)
    BY DEF Id
  <2> QED
    BY <1>1, <2>1, <2>2, SMTT(30) DEF Sending, AtRest, Holding
<1>3. PlainHeads => PlainHead(r)
  BY DEF Fine, PlainHead, HeadOnly
<1> QED
  BY <1>2, <1>3 DEF Fine

\* The steps that end a request without a backend's response, or with its client,
\* keep Inv.
LEMMA LocalKeepsInv ==
    \A c \in Clients :
       /\ Inv
       /\ \/ ParseError(c) \/ ServeLocal(c) \/ Abort(c) \/ ContinueLocal(c) \/ ClientLeaves(c)
          \/ \E left \in 0..MaxBody : DeclaredTooLarge(c, left) \/ UploadTooLarge(c, left)
       => Inv'
\* A task whose client connection is closed is Fine again and holds no connection.
<1>ReturnFine.
      ASSUME NEW k, Fine(k), NEW r, r = Return(k, FALSE)
      PROVE  Fine(r) /\ r.conn = NoConn /\ r.id = k.id
  <2> USE <1>ReturnFine
  <2>1. k \in Tasks
    BY DEF Fine
  <2>0. Returned(r, k, FALSE)
    BY <2>1, ReturnFields
  <2>2. r.pc = "closed"
    BY <2>0 DEF Returned, AtRest
  <2>3. /\ r \in Tasks
        /\ r.id = k.id /\ r.req = k.req /\ r.unread = k.unread
        /\ r.heads = k.heads /\ r.from = k.from /\ r.body = k.body
        /\ r.conn = NoConn /\ r.stage = k.stage /\ r.failed = k.failed
    BY <2>0 DEF Returned
  <2>4. Good(r)
    BY <2>2, <2>3 DEF Fine, Good, AtRest, Holding, Id, Answering
  <2> QED
    BY <2>2, <2>3, <2>4, RestFine DEF AtRest
\* A request that is answered by the server itself.
<1>AnsweredFine.
      ASSUME NEW k, Fine(k), k.pc \notin AtRest, k.heads = 0, NEW m, Alike(m, k),
             NEW keep \in BOOLEAN, keep => m.unread = 0 \/ k.failed,
             NEW r, r = Return(SendFixed(m), keep)
      PROVE  Fine(r) /\ r.conn = NoConn /\ r.id = k.id
  <2> USE <1>AnsweredFine
  <2> DEFINE s == SendFixed(m)
  <2>1. /\ k \in Tasks /\ m \in Tasks /\ m.heads = 0
        /\ m.id = k.id /\ m.req = k.req /\ m.stage = k.stage /\ m.failed = k.failed
        /\ m.body = k.body
    BY DEF Fine, Alike
  <2>h. m.heads <= 1
    BY <2>1, SMTT(30)
  <2>s. /\ s \in Tasks /\ s.heads = m.heads + 1 /\ s.from = NoId /\ s.full = TRUE
        /\ s.id = m.id /\ s.req = m.req /\ s.unread = m.unread /\ s.stage = m.stage
        /\ s.failed = m.failed /\ s.body = m.body
    BY <2>1, <2>h, SendFixedFields, ZenonT(30)
  <2>e. r = Return(s, keep)
    OBVIOUS
  <2> HIDE DEF s
  <2>2. /\ s \in Tasks /\ s.heads = 1 /\ s.from = NoId /\ s.full = TRUE
        /\ s.id = k.id /\ s.req = k.req /\ s.unread = m.unread /\ s.stage = k.stage
        /\ s.failed = k.failed /\ s.body = k.body
    BY <2>1, <2>s, SMTT(30)
  <2>t. Returned(r, s, keep)
    BY <2>2, <2>e, ReturnFields
  <2>p. r.pc \in AtRest /\ (r.pc = "idle" => keep)
    BY <2>t DEF Returned
  <2>q. /\ r \in Tasks
        /\ r.id = s.id /\ r.req = s.req /\ r.unread = s.unread
        /\ r.heads = s.heads /\ r.from = s.from /\ r.full = s.full
        /\ r.conn = NoConn /\ r.stage = s.stage /\ r.failed = s.failed /\ r.body = s.body
    BY <2>t DEF Returned
  <2>3. /\ r \in Tasks
        /\ r.id = k.id /\ r.req = k.req /\ r.unread = m.unread /\ r.heads = 1
        /\ r.from = NoId /\ r.full = TRUE /\ r.conn = NoConn /\ r.stage = k.stage
        /\ r.failed = k.failed /\ r.body = k.body
    BY <2>2, <2>q
  <2>4. r.unread <= r.req.body
    <3>1. m.unread <= m.req.body
      BY BodyBound
    <3> QED
      BY <2>1, <2>3, <3>1
  <2>5. r.pc = "idle" /\ ~r.failed => r.unread = 0
    BY <2>3, <2>p
  <2>6. Good(r)
    BY <2>3, <2>p, <2>4, <2>5, SMTT(30) DEF Good, AtRest, Holding, Answering
  <2> QED
    BY <2>3, <2>6, <2>p, RestFine
\* A client that does not send a request; a task at rest, or one that ends.
<1>ParseErrorKeeps.
      ASSUME Inv, NEW c \in Clients, ParseError(c)
      PROVE  Inv'
  <2> USE <1>ParseErrorKeeps
  <2> DEFINE k == cl[c]
             r == [k EXCEPT !.pc = "closed"]
  <2>1. k \in Tasks /\ Fine(k) /\ Good(k)
    BY Own
  <2>2. k.pc = "idle" /\ Become(c, r) /\ UNCHANGED <<be, pool, hits, nextId, env>>
    BY DEF ParseError
  <2> HIDE DEF k
  <2>p. "closed" \in PCs
    BY DEF PCs
  <2>3. r \in Tasks
    BY <2>1, <2>p DEF Tasks
  <2>4. /\ r.pc = "closed" /\ r.id = k.id /\ r.req = k.req /\ r.stage = k.stage
        /\ r.failed = k.failed /\ r.conn = k.conn /\ r.unread = k.unread
        /\ r.heads = k.heads /\ r.from = k.from /\ r.body = k.body
    BY <2>1 DEF Tasks
  <2>5. k.conn = NoConn
    BY <2>1, <2>2 DEF Good, Holding
  <2> HIDE DEF r
  <2>6. Good(r)
    BY <2>1, <2>4, <2>5 DEF Good, Holding, AtRest, Answering, Id
  <2>7. Fine(r)
    BY <2>1, <2>3, <2>4, <2>5, <2>6, RestFine DEF AtRest
  <2> QED
    BY <2>2, <2>4, <2>5, <2>7, StaysKeeps DEF k
\* A client that leaves, and a handler that is aborted, keep Inv.
<1>ReturnKeeps.
      ASSUME Inv, NEW c \in Clients, Abort(c) \/ ClientLeaves(c)
      PROVE  Inv'
  <2> USE <1>ReturnKeeps
  <2> DEFINE r == Return(cl[c], FALSE)
  <2>1. Fine(cl[c]) /\ Good(cl[c])
    BY Own
  <2>2. Fine(r) /\ r.conn = NoConn /\ r.id = cl[c].id
    BY <2>1, <1>ReturnFine
  <2> HIDE DEF r
  <2>3. CASE Abort(c)
    <3>1. cl[c].conn = NoConn
      BY <2>1, <2>3 DEF Abort, Good, Holding
    <3>2. Become(c, r) /\ UNCHANGED <<be, pool, hits, nextId, env>>
      BY <2>3 DEF Abort, r
    <3> QED
      BY <2>2, <3>1, <3>2, StaysKeeps
  <2>4. CASE ClientLeaves(c)
    <3>1. Become(c, r) /\ DropConn(c) /\ UNCHANGED <<pool, hits, nextId, env>>
      BY <2>4 DEF ClientLeaves, r
    <3> QED
      BY <2>2, <3>1, DropsKeeps
  <2> QED
    BY <2>3, <2>4
\* What a task not at rest knows.
<1>Active.
      ASSUME NEW k, Fine(k), k.pc \notin AtRest
      PROVE  /\ k \in Tasks /\ k.id > 0 /\ (~k.body => k.failed \/ k.unread = 0)
             /\ k.pc # "relay" => k.heads = 0 /\ k.full
             /\ k.pc \notin Holding => k.conn = NoConn
             /\ k.pc \in Holding => k.conn # NoConn
  BY <1>Active DEF Fine, Good, AtRest
\* Answers made by the server itself, before a backend connection is held.
<1>LocalKeeps.
      ASSUME Inv, NEW c \in Clients, ServeLocal(c) \/ ContinueLocal(c)
      PROVE  Inv'
  <2> USE <1>LocalKeeps
  <2> DEFINE k == cl[c]
  <2>1. Fine(k)
    BY Own
  <2>2. k.pc \in {"local", "continue"} /\ UNCHANGED <<be, pool, hits, nextId, env>>
    BY DEF ServeLocal, ContinueLocal
  <2>3. PICK keep \in BOOLEAN : Become(c, Return(SendFixed(DrainedTask(k)), keep))
    BY DEF ServeLocal, ContinueLocal
  <2> HIDE DEF k
  <2> DEFINE r == Return(SendFixed(DrainedTask(k)), keep)
  <2>4. /\ k \in Tasks /\ k.pc \notin AtRest /\ k.conn = NoConn /\ k.heads = 0
        /\ ~k.body => k.failed \/ k.unread = 0
    BY <2>1, <2>2, <1>Active DEF AtRest, Holding
  <2>5. /\ Alike(DrainedTask(k), k)
        /\ DrainedTask(k).unread = IF k.body THEN 0 ELSE k.unread
    BY <2>4, DrainedAlike
  <2>6. keep => DrainedTask(k).unread = 0 \/ k.failed
    BY <2>4, <2>5
  <2>7. Fine(r) /\ r.conn = NoConn /\ r.id = k.id
    BY <2>1, <2>4, <2>5, <2>6, <1>AnsweredFine, SMTT(30)
  <2>8. Become(c, r)
    BY <2>3
  <2> HIDE DEF r
  <2> QED
    BY <2>2, <2>4, <2>7, <2>8, StaysKeeps DEF k
\* 413, before or in the middle of the upload.
<1>TooLargeKeeps.
      ASSUME Inv, NEW c \in Clients, NEW left \in 0..MaxBody,
             DeclaredTooLarge(c, left) \/ UploadTooLarge(c, left)
      PROVE  Inv'
  <2> USE <1>TooLargeKeeps
  <2> DEFINE k == cl[c]
             keep == LingerDone(k, left)
             r == Return(SendFixed(Left(k, left)), keep)
  <2>1. Fine(k)
    BY Own
  <2>2. k.pc \in {"proxy", "upload"} /\ Become(c, r)
    BY DEF DeclaredTooLarge, UploadTooLarge, RejectTooLarge
  <2>3. left \in 0..k.unread
    <3>1. CASE DeclaredTooLarge(c, left)
      BY <3>1 DEF DeclaredTooLarge, LingerDrain
    <3>2. CASE UploadTooLarge(c, left)
      <4>1. left < k.unread
        BY <3>2 DEF UploadTooLarge
      <4>2. k.unread \in 0..MaxBody
        BY <2>1 DEF Fine, Tasks
      <4> HIDE DEF k
      <4> QED
        BY <4>1, <4>2, SMTT(30)
    <3> QED
      BY <3>1, <3>2
  <2>u. CASE DeclaredTooLarge(c, left)
    <3>1. UNCHANGED <<be, pool, hits, nextId, env>> /\ k.pc = "proxy"
      BY <2>u DEF DeclaredTooLarge
    <3> HIDE DEF k, r, keep
    <3>2. /\ k \in Tasks /\ k.pc \notin AtRest /\ k.conn = NoConn /\ k.heads = 0
          /\ ~k.body => k.failed \/ k.unread = 0
      BY <2>1, <3>1, <1>Active DEF AtRest, Holding
    <3>3. Alike(Left(k, left), k) /\ Left(k, left).unread = left
      BY <2>3, <3>2, LeftAlike
    <3>u. k.unread = 0 => left = 0
      BY <2>3, SMTT(30)
    <3>4. keep \in BOOLEAN /\ (keep => Left(k, left).unread = 0 \/ k.failed)
      BY <3>2, <3>3, <3>u DEF keep, LingerDone
    <3>5. Fine(r) /\ r.conn = NoConn /\ r.id = k.id
      BY <2>1, <3>2, <3>3, <3>4, <1>AnsweredFine, SMTT(30) DEF r
    <3> QED
      BY <2>2, <3>1, <3>2, <3>5, StaysKeeps DEF k
  <2>v. CASE UploadTooLarge(c, left)
    <3>1. UNCHANGED <<pool, hits, nextId, env>> /\ DropConn(c) /\ k.pc = "upload"
      BY <2>v DEF UploadTooLarge
    <3> HIDE DEF k, r, keep
    <3>2. k \in Tasks /\ k.pc \notin AtRest /\ k.heads = 0 /\ (~k.body => k.failed \/ k.unread = 0)
      BY <2>1, <3>1, <1>Active DEF AtRest, Holding
    <3>3. Alike(Left(k, left), k) /\ Left(k, left).unread = left
      BY <2>3, <3>2, LeftAlike
    <3>u. k.unread = 0 => left = 0
      BY <2>3, SMTT(30)
    <3>4. keep \in BOOLEAN /\ (keep => Left(k, left).unread = 0 \/ k.failed)
      BY <3>2, <3>3, <3>u DEF keep, LingerDone
    <3>5. Fine(r) /\ r.conn = NoConn /\ r.id = k.id
      BY <2>1, <3>2, <3>3, <3>4, <1>AnsweredFine, SMTT(30) DEF r
    <3> QED
      BY <2>2, <3>1, <3>5, DropsKeeps DEF k
  <2> QED
    BY <2>u, <2>v
<1> QED
  BY <1>ParseErrorKeeps, <1>ReturnKeeps, <1>LocalKeeps, <1>TooLargeKeeps

\* ContinueProxy keeps Inv: the second pass asks for a backend.
LEMMA ContinueProxyKeeps ==
    ASSUME Inv, NEW c \in Clients, NEW plan \in env.plans, ContinueProxy(c, plan)
    PROVE  Inv'
<1> DEFINE k == cl[c]
           q == [k.req EXCEPT !.plan = plan]
           r == [k EXCEPT !.pc = "proxy", !.req = q]
<1>1. k \in Tasks /\ Fine(k) /\ Good(k)
  BY Own
<1>2. k.pc = "continue" /\ Become(c, r) /\ UNCHANGED <<be, pool, hits, nextId, env>>
  BY DEF ContinueProxy
<1>3. plan \in Plans /\ plan # "local"
  <2>1. env \in Environment
    BY BoundsAssumption DEF Inv, TypeOK
  <2> QED
    BY <2>1 DEF Environment
<1> HIDE DEF k
<1>4. k.req \in Request
  BY <1>1 DEF Tasks
<1>5. q \in Request /\ q.method = k.req.method /\ q.body = k.req.body
  BY <1>3, <1>4 DEF Request
<1> HIDE DEF q
<1>p. "proxy" \in PCs
  BY DEF PCs
<1>6. r \in Tasks
  BY <1>1, <1>5, <1>p DEF Tasks
<1>7. /\ r.pc = "proxy" /\ r.req = q /\ r.conn = k.conn /\ r.id = k.id
      /\ r.stage = k.stage /\ r.failed = k.failed /\ r.body = k.body
      /\ r.unread = k.unread /\ r.heads = k.heads /\ r.from = k.from /\ r.full = k.full
  BY <1>1 DEF Tasks
<1> HIDE DEF r
<1>8. k.id > 0 /\ k.conn = NoConn /\ k.heads = 0 /\ k.stage = 2
  BY <1>1, <1>2 DEF Good, AtRest, Holding
<1>9. Good(r)
  <2>1. r.pc \notin Holding /\ r.pc \notin AtRest /\ k.pc \notin AtRest /\ ~Answering(r)
    BY <1>2, <1>7 DEF Holding, AtRest, Answering
  <2>2. /\ k.full /\ k.unread <= k.req.body
        /\ ~k.body => k.failed \/ k.unread = 0
    BY <1>1, <1>2, <2>1 DEF Good
  <2>3. 0 <= 1 /\ ~(0 > 0)
    BY SMTT(30)
  <2> QED
    BY <1>5, <1>7, <1>8, <2>1, <2>2, <2>3 DEF Good
<1>10. Sending(r)
  <2>1. Sending(k)
    BY <1>1, <1>8 DEF Fine
  <2>2. hits[Id(r)] = 0 /\ hits[Id(r)] \in Nat
    BY <1>2, <1>7, <2>1 DEF Sending, Id
  <2>3. 0 <= 1 /\ 0 <= 2 /\ 1 # 2
    BY SMTT(30)
  <2> QED
    BY <1>7, <1>8, <2>2, <2>3 DEF Sending, Holding
<1>11. PlainHeads => PlainHead(r)
  <2>1. q.plan = plan
    BY <1>4 DEF q, Request
  <2>2. HeadOnly(r) <=> HeadOnly(k)
    BY <1>5, <1>7 DEF HeadOnly
  <2> QED
    BY <1>1, <1>7, <1>8, <2>1, <2>2 DEF Fine, PlainHead
<1>12. Fine(r)
  BY <1>6, <1>9, <1>10, <1>11 DEF Fine
<1> QED
  BY <1>2, <1>7, <1>8, <1>12, StaysKeeps DEF k

-----------------------------------------------------------------------------
(* Failures.                                                               *)

\* What is made of an error: the connection is closed or kept after a 502, or
\* the request is continued with its error routes.
LEMMA FailedFine ==
    ASSUME NEW k, Fine(k), k.pc \notin AtRest, NEW m, Alike(m, k), NEW r, r = Failed(m)
    PROVE  Fine(r) /\ r.conn = NoConn /\ r.id = k.id
<1> DEFINE f == [m EXCEPT !.failed = TRUE]
           b == [f EXCEPT !.body = FALSE]
<1>t. k \in Tasks /\ m \in Tasks /\ m.heads = k.heads /\ m.stage = k.stage
  BY DEF Fine, Alike
<1>g. Good(k)
  BY DEF Fine
<1>0. /\ k \in Tasks /\ m \in Tasks /\ k.id > 0 /\ k.heads <= 1 /\ m.heads = k.heads
      /\ k.heads \in 0..2 /\ k.stage \in 1..2 /\ m.stage = k.stage
      /\ k.heads = 0 => k.full
      /\ k.heads > 0 => k.from \in {NoId, Id(k)}
  <2>1. k.heads \in 0..2 /\ k.stage \in 1..2
    BY <1>t DEF Tasks
  <2>2. k.id > 0 /\ k.heads = (IF k.pc = "relay" THEN 1 ELSE 0)
    BY <1>g DEF Good
  <2>3. k.heads = 0 => k.full
    BY <1>g, <2>2, SMTT(30) DEF Good, AtRest
  <2>4. k.heads > 0 => k.from \in {NoId, Id(k)}
    BY <1>g DEF Good
  <2> QED
    BY <1>t, <2>1, <2>2, <2>3, <2>4, SMTT(30)
<1>u. m.unread <= m.req.body
  BY BodyBound
<1>1. /\ f \in Tasks /\ f.failed = TRUE
      /\ f.heads = k.heads /\ f.from = k.from /\ f.full = k.full
      /\ f.id = k.id /\ f.req = k.req /\ f.unread = m.unread /\ f.stage = k.stage
      /\ f.body = k.body
  BY <1>0 DEF Tasks, Alike
<1>2. /\ b \in Tasks /\ b.failed = TRUE /\ b.body = FALSE
      /\ b.heads = k.heads /\ b.full = k.full
      /\ b.id = k.id /\ b.req = k.req /\ b.unread = m.unread
  BY <1>0 DEF Tasks, Alike
<1>3. r = AfterError(f)
  BY DEF Failed
<1>r. m.req = k.req
  BY DEF Alike
<1> HIDE DEF f
<1>4. CASE f.stage = 2 \/ (~Untracked(f.req) /\ f.heads > 0)
  <2>1. r = Return(f, FALSE)
    BY <1>3, <1>4 DEF AfterError
  <2>0. Returned(r, f, FALSE)
    BY <1>1, <2>1, ReturnFields
  <2>p. r.pc \in AtRest /\ r.pc # "idle"
    BY <2>0 DEF Returned
  <2>q. /\ r \in Tasks
        /\ r.id = f.id /\ r.req = f.req /\ r.unread = f.unread
        /\ r.heads = f.heads /\ r.from = f.from
        /\ r.conn = NoConn /\ r.stage = f.stage /\ r.failed = f.failed /\ r.body = f.body
    BY <2>0 DEF Returned
  <2>2. /\ r \in Tasks /\ r.pc = "closed" /\ r.id = k.id /\ r.req = k.req
        /\ r.unread = m.unread /\ r.heads = k.heads /\ r.from = k.from
        /\ r.conn = NoConn /\ r.stage = k.stage /\ r.failed /\ r.body = k.body
    BY <1>1, <2>p, <2>q DEF AtRest
  <2>3. Good(r)
    BY <1>0, <1>u, <1>r, <2>2 DEF Good, AtRest, Holding, Id, Answering
  <2> QED
    BY <2>2, <2>3, RestFine DEF AtRest
<1>5. CASE ~(f.stage = 2 \/ (~Untracked(f.req) /\ f.heads > 0)) /\ f.heads = 0 /\ f.req.routes
  <2>1. r = Rerun(b)
    BY <1>3, <1>5 DEF AfterError
  <2> HIDE DEF b
  <2>2. /\ r \in Tasks /\ r.pc = "continue" /\ r.stage = 2 /\ r.conn = NoConn
        /\ r.id = k.id /\ r.req = k.req /\ r.unread = m.unread /\ r.body = FALSE
        /\ r.heads = 0 /\ r.full = k.full /\ r.failed
    BY <1>1, <1>2, <1>5, <2>1, RerunFields, SMTT(30)
  <2>3. k.full /\ k.stage = 1 /\ k.req.routes
    BY <1>0, <1>1, <1>5, SMTT(30)
  <2>4. Good(r)
    <3>1. r.pc \notin Holding /\ r.pc \notin AtRest /\ ~Answering(r)
      BY <2>2 DEF Holding, AtRest, Answering
    <3>2. r.id > 0 /\ r.full /\ r.unread <= r.req.body
      BY <1>0, <1>u, <1>r, <2>2, <2>3
    <3>3. 0 <= 1 /\ ~(0 > 0)
      BY SMTT(30)
    <3> QED
      BY <2>2, <3>1, <3>2, <3>3 DEF Good
  <2>5. Sending(k)
    BY <1>0 DEF Fine
  <2>6. hits[Id(r)] = 0
    BY <2>2, <2>3, <2>5 DEF Sending, Id
  <2>7. Sending(r)
    BY <2>2, <2>6, SMTT(30) DEF Sending, Holding
  <2>8. PlainHeads => PlainHead(r)
    BY <1>0, <2>2, <2>3 DEF Fine, PlainHead, HeadOnly
  <2> QED
    BY <2>2, <2>4, <2>7, <2>8 DEF Fine
<1>6. CASE ~(f.stage = 2 \/ (~Untracked(f.req) /\ f.heads > 0)) /\ ~(f.heads = 0 /\ f.req.routes)
  <2> DEFINE s == SendFixed(f)
  <2>1. r = Return(s, TRUE)
    BY <1>3, <1>6 DEF AfterError
  <2>2. /\ s \in Tasks /\ s.heads = k.heads + 1 /\ s.from = NoId /\ s.full = TRUE
        /\ s.id = k.id /\ s.req = k.req /\ s.unread = m.unread /\ s.stage = k.stage
        /\ s.failed = TRUE /\ s.body = k.body
    BY <1>0, <1>1, SendFixedFields, ZenonT(30)
  <2> HIDE DEF s
  <2>r. Returned(r, s, TRUE)
    BY <2>1, <2>2, ReturnFields
  <2>3. /\ r \in Tasks /\ r.id = k.id /\ r.req = k.req
        /\ r.unread = m.unread /\ r.heads = k.heads + 1 /\ r.from = NoId
        /\ r.conn = NoConn /\ r.stage = k.stage /\ r.failed = TRUE /\ r.full = TRUE
        /\ r.pc \in AtRest /\ r.body = k.body
    BY <2>2, <2>r DEF Returned
  <2>4. k.stage = 1 /\ (~Untracked(k.req) => k.heads = 0)
    BY <1>0, <1>1, <1>6, SMTT(30)
  <2>6. Good(r)
    BY <1>0, <1>u, <1>r, <2>3, <2>4, SMTT(30) DEF Good, AtRest, Holding, Answering
  <2> QED
    BY <2>3, <2>6, RestFine
<1> QED
  BY <1>4, <1>5, <1>6

\* A failure: the connection, if there is one, is dropped.
LEMMA FailKeeps ==
    ASSUME Inv, NEW c \in Clients, cl[c].pc \notin AtRest, NEW m, Alike(m, cl[c]),
           Become(c, Failed(m)), DropConn(c), UNCHANGED <<pool, hits, nextId, env>>
    PROVE  Inv'
<1> DEFINE r == Failed(m)
<1>1. Fine(cl[c])
  BY Own
<1>2. Fine(r) /\ r.conn = NoConn /\ r.id = cl[c].id
  BY <1>1, FailedFine, SMTT(30)
<1>3. Become(c, r)
  OBVIOUS
<1> HIDE DEF r
<1> QED
  BY <1>2, <1>3, DropsKeeps

\* The failures before a connection is held keep Inv.
LEMMA FailsEarlyKeeps ==
    ASSUME Inv, NEW c \in Clients, BadTarget(c) \/ BadOverride(c) \/ ConnectFails(c)
    PROVE  Inv'
<1>1. /\ cl[c].pc \in {"proxy", "dial", "redial"}
      /\ UNCHANGED <<be, pool, hits, nextId, env>>
      /\ Become(c, Failed(DrainedTask(cl[c]))) \/ Become(c, Failed(cl[c]))
  BY DEF BadTarget, BadOverride, ConnectFails, Fail
<1>2. cl[c] \in Tasks /\ Good(cl[c])
  BY Own
<1>3. cl[c].pc \notin AtRest /\ cl[c].conn = NoConn
  BY <1>1, <1>2 DEF Good, AtRest, Holding
<1>4. DropConn(c)
  BY <1>1, <1>3 DEF DropConn
<1>5. Alike(DrainedTask(cl[c]), cl[c]) /\ Alike(cl[c], cl[c])
  BY <1>2, DrainedAlike, SelfAlike
<1> QED
  BY <1>1, <1>3, <1>4, <1>5, FailKeeps

\* A client that leaves changes nothing else of its task.
LEMMA GoneAlike ==
    ASSUME NEW k \in Tasks
    PROVE  Alike([k EXCEPT !.gone = TRUE], k)
<1>1. [k EXCEPT !.gone = TRUE] \in Tasks
  BY DEF Tasks
<1>2. k.unread <= k.unread
  BY SMTT(30) DEF Tasks
<1> QED
  BY <1>1, <1>2 DEF Alike, Tasks

\* Interrupt keeps Inv: the client's hangup interrupts a tracked request.
LEMMA InterruptKeeps ==
    ASSUME Inv, NEW c \in Clients, Interrupt(c)
    PROVE  Inv'
<1>1. cl[c] \in Tasks
  BY Own
<1>2. cl[c].pc \notin AtRest
  BY DEF Interrupt, Tracked, AtRest
<1>3. Alike([cl[c] EXCEPT !.gone = TRUE], cl[c])
  BY <1>1, GoneAlike
<1> QED
  BY <1>2, <1>3, FailKeeps DEF Interrupt

\* The failures of an upload keep Inv.
LEMMA UploadFailsKeeps ==
    ASSUME Inv, NEW c \in Clients, EarlyClose(c) \/ UploadFails(c)
    PROVE  Inv'
<1>1. cl[c] \in Tasks
  BY Own
<1>2. cl[c].pc \notin AtRest
  BY DEF EarlyClose, UploadFails, WriteFails, AtRest
<1>3. CASE EarlyClose(c)
  <2>1. Alike(ReadChunk(cl[c]), cl[c])
    BY <1>1, <1>3, ReadChunkAlike DEF EarlyClose
  <2> QED
    BY <1>2, <1>3, <2>1, FailKeeps DEF EarlyClose
<1>4. CASE UploadFails(c)
  <2>1. Alike(cl[c], cl[c])
    BY <1>1, SelfAlike
  <2> QED
    BY <1>2, <1>4, <2>1, FailKeeps DEF UploadFails, Fail
<1> QED
  BY <1>3, <1>4

\* What is left of the client's body when the response goes out.
LEMMA DrainedLeft ==
    ASSUME NEW k, Fine(k), k.pc = "respond", NEW left \in 0..MaxBody,
           ClientDrained(k, left) \/ RawFixed(k, left)
    PROVE  /\ left \in 0..k.unread
           /\ ClientDrained(k, left) =>
                 (ClientReusable(k, left) => left = 0 \/ k.failed)
           /\ RawFixed(k, left) /\ k.req.method = "POST" => left = 0 \/ k.failed
<1>1. /\ k \in Tasks /\ (~k.body => k.failed \/ k.unread = 0)
      /\ SendsBody(k) /\ k.body /\ k.sent => k.unread = 0
  BY DEF Fine, Good, AtRest
<1>2. k.unread \in 0..MaxBody
  BY <1>1 DEF Tasks
<1>3. left \in 0..k.unread
  BY <1>2, BoundsAssumption, SMTT(30) DEF ClientDrained, RawFixed, LingerDrain, Drained
<1>4. ASSUME ClientDrained(k, left), ClientReusable(k, left) PROVE left = 0 \/ k.failed
  BY <1>1, <1>4 DEF ClientDrained, ClientReusable, LingerDrain, LingerDone, Drained
<1>5. ASSUME RawFixed(k, left), k.req.method = "POST" PROVE left = 0 \/ k.failed
  <2>1. SendsBody(k) /\ k.sent /\ left = k.unread
    BY <1>5 DEF RawFixed, SendsBody, Method
  <2> QED
    BY <1>1, <2>1
<1> QED
  BY <1>3, <1>4, <1>5

\* RelayFixedFails keeps Inv: a body of known length is cut short.
LEMMA RelayFixedFailsKeeps ==
    ASSUME Inv, NEW c \in Clients, NEW left \in 0..MaxBody, RelayFixedFails(c, left)
    PROVE  Inv'
<1>1. cl[c] \in Tasks /\ Fine(cl[c])
  BY Own
<1>2. cl[c].pc = "respond" /\ (ClientDrained(cl[c], left) \/ RawFixed(cl[c], left))
  BY DEF RelayFixedFails
<1>3. left \in 0..cl[c].unread
  BY <1>1, <1>2, DrainedLeft
<1>4. Alike(Left(cl[c], left), cl[c])
  BY <1>1, <1>3, LeftAlike
<1>5. cl[c].pc \notin AtRest
  BY <1>2 DEF AtRest
<1> QED
  BY <1>4, <1>5, FailKeeps DEF RelayFixedFails

\* An error marked ProxyNoResponse.
LEMMA NoResponseKeeps ==
    ASSUME Inv, NEW c \in Clients, SendHeadFails(c) \/ ReadHeadFails(c)
    PROVE  Inv'
<1> DEFINE k == cl[c]
           r == [k EXCEPT !.pc = "redial", !.conn = NoConn]
<1>1. k \in Tasks /\ Fine(k) /\ Good(k)
  BY Own
<1>2. k.pc \in {"request", "await"} /\ DropConn(c) /\ UNCHANGED <<pool, hits, nextId, env>>
  BY DEF SendHeadFails, ReadHeadFails, ProxyNoResponse
<1>3. CASE Replayable(k)
  <2>1. Become(c, r)
    BY <1>3 DEF SendHeadFails, ReadHeadFails, ProxyNoResponse
  <2> HIDE DEF k
  <2>p. "redial" \in PCs
    BY DEF PCs
  <2>2. r \in Tasks
    BY <1>1, <2>p DEF Tasks
  <2>3. /\ r.pc = "redial" /\ r.conn = NoConn /\ r.id = k.id /\ r.req = k.req
        /\ r.stage = k.stage /\ r.failed = k.failed /\ r.body = k.body
        /\ r.unread = k.unread /\ r.heads = k.heads /\ r.from = k.from /\ r.full = k.full
    BY <1>1 DEF Tasks
  <2> HIDE DEF r
  <2>4. Good(r)
    BY <1>1, <1>2, <2>3 DEF Good, Holding, AtRest, Answering, Id
  <2>5. Moves(k, r)
    BY <1>2, <1>3, <2>2, <2>3 DEF Moves, Holding
  <2>6. Fine(r)
    BY <1>1, <2>4, <2>5, MovesFine
  <2> QED
    BY <1>2, <2>1, <2>3, <2>6, DropsKeeps DEF k
<1>4. CASE ~Replayable(k)
  <2>1. Become(c, Failed(k))
    BY <1>4 DEF SendHeadFails, ReadHeadFails, ProxyNoResponse, Fail
  <2>2. Alike(k, k)
    BY <1>1, SelfAlike
  <2>3. k.pc \notin AtRest
    BY <1>2 DEF AtRest
  <2> QED
    BY <1>2, <2>1, <2>2, <2>3, FailKeeps
<1> QED
  BY <1>3, <1>4

-----------------------------------------------------------------------------
(* The response.                                                           *)

\* The steps that deal with a response whose head has been read keep Inv.
LEMMA RelayKeepsInv ==
    \A c \in Clients :
       /\ Inv
       /\ \/ HookContinue(c) \/ HookDrain(c) \/ HookDrainEnds(c) \/ HookDrainFails(c)
          \/ RelayBody(c) \/ RelayEnds(c)
          \/ \E left \in 0..MaxBody :
                RelayHead(c, left) \/ RelayFixed(c, left) \/ RelayStart(c, left)
       => Inv'
\* A task with a response, and its connection.
<1>Responding.
      ASSUME Inv, NEW c \in Clients, cl[c].pc \in {"respond", "relay"}
      PROVE  /\ cl[c] \in Tasks /\ Fine(cl[c]) /\ Good(cl[c]) /\ Answering(cl[c])
             /\ cl[c].conn # NoConn /\ cl[c].pc \notin AtRest /\ cl[c].id > 0
             /\ be[cl[c].conn] \in Backends /\ be[cl[c].conn].open = TRUE
             /\ Sound(be[cl[c].conn]) /\ Linked(cl[c], be[cl[c].conn])
  <2> USE <1>Responding
  <2>1. cl[c] \in Tasks /\ Fine(cl[c]) /\ Good(cl[c])
    BY Own
  <2>2. /\ cl[c].conn # NoConn /\ cl[c].pc \notin AtRest /\ cl[c].id > 0
        /\ Answering(cl[c])
    BY <2>1 DEF Good, Holding, AtRest, Answering
  <2> QED
    BY <2>1, <2>2, Own
\* RelayStart keeps Inv: the head of a response that is then streamed.
<1>RelayStartKeeps.
      ASSUME Inv, NEW c \in Clients, NEW left \in 0..MaxBody, RelayStart(c, left)
      PROVE  Inv'
  <2> USE <1>RelayStartKeeps
  <2> DEFINE k == cl[c]
             b == be[k.conn]
             keep == ClientReusable(k, left)
             r == [Relay(k, left, FALSE) EXCEPT !.pc = "relay", !.keep = keep]
  <2>1. /\ k.pc = "respond" /\ UNCHANGED <<be, pool, hits, nextId, env>>
        /\ ClientDrained(k, left) /\ Become(c, r)
    BY DEF RelayStart
  <2>2. /\ k \in Tasks /\ Fine(k) /\ Good(k) /\ Answering(k) /\ k.pc \notin AtRest
        /\ k.conn # NoConn /\ b \in Backends /\ Linked(k, b)
    BY <2>1, <1>Responding
  <2>3. left \in 0..k.unread /\ (keep => left = 0 \/ k.failed)
    BY <2>1, <2>2, DrainedLeft
  <2>4. keep \in BOOLEAN
    <3>1. k.sent \in BOOLEAN
      BY <2>2 DEF Tasks
    <3> QED
      BY <3>1 DEF ClientReusable, LingerDone
  <2> HIDE DEF k, keep, b
  <2>5. /\ k.id > 0 /\ k.heads = 0 /\ k.resp.id = Id(k) /\ k.unread <= k.req.body
    BY <2>1, <2>2 DEF Good, AtRest, Answering
  <2>6. /\ left <= k.req.body /\ k.heads + 1 \in 0..2
        /\ k.resp.id \in Ids \cup {NoId} /\ "relay" \in PCs
    <3>1. k.unread \in 0..MaxBody /\ k.req.body \in Nat /\ k.resp \in Tokens
      BY <2>2, BoundsAssumption, SMTT(30) DEF Tasks, Request
    <3>2. k.resp.id \in Ids \cup {NoId}
      BY <3>1 DEF Tokens
    <3> QED
      BY <2>3, <2>5, <3>1, <3>2, BoundsAssumption, SMTT(30) DEF PCs
  <2>7. r = [k EXCEPT !.unread = left, !.heads = k.heads + 1, !.from = k.resp.id,
                      !.full = FALSE, !.pc = "relay", !.keep = keep]
    BY <2>2 DEF Relay, Tasks
  <2> HIDE DEF r
  <2>8. r \in Tasks
    BY <2>2, <2>4, <2>6, <2>7, ZenonT(30) DEF Tasks
  <2>9. /\ r.pc = "relay" /\ r.conn = k.conn /\ r.pooled = k.pooled /\ r.resp = k.resp
        /\ r.id = k.id /\ r.req = k.req /\ r.stage = k.stage /\ r.failed = k.failed
        /\ r.body = k.body /\ r.unread = left /\ r.heads = 1
        /\ r.from = Id(k) /\ r.sent = k.sent /\ r.keep = keep
    BY <2>2, <2>5, <2>7, SMTT(30) DEF Tasks
  <2>i. /\ Id(r) = Id(k) /\ Answering(r)
        /\ \A f : FramedBy(r, f) = FramedBy(k, f)
    BY <2>2, <2>9 DEF Id, Answering, FramedBy, HeadOnly
  <2>10. Good(r)
    <3>1. r.unread <= r.req.body /\ (r.keep /\ ~r.failed => r.unread = 0)
      BY <2>3, <2>6, <2>9
    <3>2. r.resp # NoResponse /\ r.conn # NoConn /\ r.resp.id = Id(r) /\ r.id > 0
      BY <2>2, <2>5, <2>9, <2>i DEF Answering
    <3>3. ~r.body => r.stage = 2 /\ (r.failed \/ r.unread = 0)
      <4>1. ~k.body => k.stage = 2 /\ (k.failed \/ k.unread = 0)
        BY <2>1, <2>2 DEF Good, AtRest
      <4>2. k.unread = 0 => left = 0
        BY <2>3, SMTT(30)
      <4> QED
        BY <2>9, <4>1, <4>2
    <3> QED
      BY <2>9, <2>i, <3>1, <3>2, <3>3, SMTT(30) DEF Good, AtRest, Holding
  <2>11. Moves(k, r)
    BY <2>1, <2>8, <2>9 DEF Moves, Holding
  <2>12. Fine(r)
    BY <2>2, <2>10, <2>11, MovesFine
  <2>13. Linked(r, b)
    <3>1. Fits(r, b)
      BY <2>1, <2>2, <2>9, <2>i DEF Linked, Fits
    <3>2. PlainHeads => Tidy(r, b)
      BY <2>2, <2>9, <2>i DEF Linked, Tidy
    <3> QED
      BY <3>1, <3>2 DEF Linked
  <2> QED
    BY <2>1, <2>2, <2>9, <2>12, <2>13, StaysKeeps DEF k, b
\* A connection whose exchange is over.
<1>OverSpare.
      ASSUME NEW k, Answering(k), k.pc \in {"respond", "relay"}, k.sent,
             NEW b, Linked(k, b), PlainHeads => Clean(b)
      PROVE  Spare(b)
  BY <1>OverSpare DEF Linked, Fits, Spare, Quiet
\* A response without a body, and one that ends with the connection.
<1>NoneOver.
      ASSUME NEW k, Answering(k), HeadOnly(k) \/ k.resp.response.framing = "none",
             NEW b, Linked(k, b)
      PROVE  PlainHeads => Clean(b)
  BY <1>NoneOver DEF Linked, Tidy, Clean, FramedBy
\* A response whose next token is the end of the stream has nothing more to read.
<1>FinOver.
      ASSUME NEW k, Answering(k), NEW b \in Backends, Linked(k, b),
             b.wire # <<>>, Head(b.wire).kind = "fin"
      PROVE  PlainHeads => Clean(b)
  <2> USE <1>FinOver
  <2>1. b.wire \in Seq(Tokens)
    BY DEF Backends
  <2>2. Len(b.wire) > 0 /\ b.wire[1].kind = "fin"
    BY <2>1, HeadTail
  <2>3. b.wire[1] # Body
    BY <2>2, SMTT(30) DEF Body, Token
  <2> QED
    BY <2>2, <2>3, SMTT(30) DEF Linked, Tidy, Clean, Rest
\* The body of the response is read: the exchange is over, or the close that
\* delimits it follows.
<1>BodyRead.
      ASSUME NEW k, Answering(k), k.pc \in {"respond", "relay"},
             NEW b \in Backends, Sound(b), Linked(k, b),
             b.wire # <<>>, Head(b.wire).kind = "body", NEW B, B = ReadOff(b)
      PROVE  /\ B \in Backends /\ Sound(B) /\ B.open = b.open
             /\ k.resp.response.framing = "eof" => Linked(k, B)
             /\ k.resp.response.framing # "eof" /\ k.sent => Spare(B)
  <2> USE <1>BodyRead
  <2>1. /\ B \in Backends
        /\ Len(b.wire) > 0 /\ Head(b.wire) = b.wire[1]
        /\ Len(B.wire) = Len(b.wire) - 1
        /\ \A i \in 1..Len(B.wire) : B.wire[i] = b.wire[i + 1]
        /\ B.owes = b.owes /\ B.reqs = b.reqs /\ B.need = b.need
        /\ B.open = b.open /\ B.closed = b.closed
    BY ReadOffFields
  <2>2. Sound(B) /\ (NoHeads(b.wire) => NoHeads(B.wire))
    BY ReadOffSound
  <2>3. B.reqs = <<>> /\ NoHeads(B.wire) /\ (k.sent => B.need = 0)
    BY <2>1, <2>2 DEF Linked, Fits
  <2>4. Fits(k, B)
    BY <2>3 DEF Fits
  <2>5. ASSUME PlainHeads
        PROVE  /\ B.owes = "none"
               /\ \/ Len(B.wire) = 0 /\ FramedBy(k, k.resp.response) # "eof"
                  \/ Len(B.wire) = 1 /\ B.wire[1] = Fin
    <3>1. Rest(b, 0, FramedBy(k, k.resp.response))
      BY <2>5 DEF Linked, Tidy
    <3>2. b.wire[1] # Fin
      <4>1. Fin.kind = "fin"
        BY DEF Fin, Token
      <4>2. b.wire[1].kind = "body"
        BY <2>1
      <4> QED
        BY <4>1, <4>2
    <3>3. Len(b.wire) # 0 /\ 0 + 1 = 1 /\ 0 + 2 = 2
      BY <2>1, SMTT(30)
    <3>4. /\ b.owes = "none"
          /\ \/ Len(b.wire) = 1 /\ FramedBy(k, k.resp.response) # "eof"
             \/ Len(b.wire) = 2 /\ b.wire[2] = Fin
      BY <3>1, <3>2, <3>3 DEF Rest
    <3> QED
      BY <2>1, <3>4, SMTT(30)
  <2>7. ASSUME k.resp.response.framing = "eof", PlainHeads PROVE Tidy(k, B)
    <3>1. Rest(b, 0, FramedBy(k, k.resp.response)) /\ b.wire[1] # Fin
      <4>1. Fin.kind = "fin"
        BY DEF Fin, Token
      <4>2. b.wire[1].kind = "body"
        BY <2>1
      <4> QED
        BY <2>7, <4>1, <4>2 DEF Linked, Tidy
    <3>2. FramedBy(k, k.resp.response) # "none"
      BY <2>1, <3>1, SMTT(30) DEF Rest
    <3>3. FramedBy(k, k.resp.response) = "eof"
      BY <2>7, <3>2 DEF FramedBy
    <3>4. B.owes = "none" /\ Len(B.wire) = 1 /\ B.wire[1] = Fin
      BY <2>5, <2>7, <3>3
    <3>5. Rest(B, 0, FramedBy(k, k.resp.response))
      BY <3>4, SMTT(30) DEF Rest
    <3> QED
      BY <3>5 DEF Tidy
  <2>8. ASSUME k.sent, k.resp.response.framing # "eof" PROVE Spare(B)
    <3>1. PlainHeads => Clean(B)
      BY <2>5, SMTT(30) DEF Clean, Rest
    <3> QED
      BY <2>3, <2>8, <3>1 DEF Spare, Quiet
  <2> QED
    BY <2>1, <2>2, <2>4, <2>7, <2>8 DEF Linked
\* The task is done with its connection, which becomes B and goes into the
\* pool or is dropped.
<1>PutsKeeps.
      ASSUME Inv, NEW c \in Clients, NEW k, Become(c, k), cl[c].conn # NoConn,
             NEW B \in Backends, NEW reuse, PutOrDrop(cl[c].conn, reuse, B),
             B.open = TRUE, Sound(B), reuse => Spare(B),
             UNCHANGED <<hits, nextId, env>>, Fine(k), k.id = cl[c].id, k.conn = NoConn
      PROVE  Inv'
  <2> USE <1>PutsKeeps
  <2> DEFINE b == cl[c].conn
             l == Len(pool)
  <2>1. hits' = hits /\ nextId' = nextId /\ env' = env
    OBVIOUS
  <2>2. TypeOK /\ Exclusive
    BY DEF Inv
  <2>4. /\ b \in Conns
        /\ \A d \in Clients : d # c => cl[d].conn # b
        /\ \A i \in 1..l : pool[i] # b
    BY Own
  <2>5. CASE pool' = pool /\ be' = [be EXCEPT ![b] = Fresh]
    <3>1. DropConn(c)
      BY <2>5 DEF DropConn
    <3> QED
      BY <2>1, <2>5, <3>1, DropsKeeps
  <2>6. CASE reuse /\ l < MaxPool /\ pool' = Append(pool, b) /\ be' = [be EXCEPT ![b] = B]
    <3>n. NoConn \notin Conns
      BY SMTT(30) DEF NoConn, Conns
    <3>0. pool \in Seq(Conns) /\ l \in Nat /\ l <= MaxPool /\ be \in [Conns -> Backends]
      BY <2>2, LenNat DEF TypeOK
    <3>1. cl'[c].conn = NoConn /\ \A d \in Clients : d # c => cl'[d].conn = cl[d].conn
      BY <2>2 DEF Become, TypeOK
    <3> HIDE DEF b
    <3>2. /\ pool' \in Seq(Conns) /\ Len(pool') = l + 1
          /\ \A i \in 1..l : pool'[i] = pool[i]
          /\ pool'[l + 1] = b
      <4>a. b \in Conns /\ pool \in Seq(Conns)
        BY <2>4, <3>0
      <4>1. /\ Append(pool, b) \in Seq(Conns) /\ Len(Append(pool, b)) = l + 1
            /\ \A i \in 1..l : Append(pool, b)[i] = pool[i]
            /\ Append(pool, b)[l + 1] = b
        BY <4>a, Appended
      <4>2. pool' = Append(pool, b)
        BY <2>6
      <4> QED
        BY <4>1, <4>2
    <3>3. Len(pool') <= MaxPool
      BY <2>6, <3>0, <3>2, BoundsAssumption, SMTT(30) DEF Conns
    <3> HIDE DEF l
    <3>i. \A i \in 1..Len(pool') : i \in 1..l \/ i = l + 1
      BY <3>0, <3>2, OneMore
    <3>j. \A i \in 1..l : i \in 1..Len(pool') /\ i # l + 1
      BY <3>0, <3>2, OneMore
    <3>k. l + 1 \in 1..Len(pool')
      BY <3>0, <3>2, OneMore
    <3>4. be'[b] = B /\ \A x \in Conns : x # b => be'[x] = be[x]
      BY <2>4, <2>6, <3>0
    <3>5. be' \in [Conns -> Backends]
      BY <2>6, <3>0
    <3>6. Exclusive'
      <4>1. \A d, e \in Clients : d # e /\ cl'[d].conn # NoConn => cl'[d].conn # cl'[e].conn
        <5>1. \A d, e \in Clients : d # e /\ cl[d].conn # NoConn => cl[d].conn # cl[e].conn
          BY <2>2 DEF Exclusive
        <5>2. ASSUME NEW d \in Clients, NEW e \in Clients, d # e, cl'[d].conn # NoConn
              PROVE  cl'[d].conn # cl'[e].conn
          <6>1. d # c /\ cl'[d].conn = cl[d].conn
            BY <3>1, <5>2
          <6>2. CASE e = c
            BY <3>1, <5>2, <6>2
          <6>3. CASE e # c
            BY <3>1, <5>1, <5>2, <6>1, <6>3
          <6> QED
            BY <6>2, <6>3
        <5> QED
          BY <5>2
      <4>2. ASSUME NEW i \in 1..Len(pool'), NEW j \in 1..Len(pool'), i # j
            PROVE  pool'[i] # pool'[j]
        <5>1. CASE i \in 1..l /\ j \in 1..l
          <6>1. pool[i] # pool[j]
            BY <2>2, <4>2, <5>1 DEF Exclusive, l
          <6> QED
            BY <3>2, <5>1, <6>1
        <5>2. CASE i = l + 1 /\ j \in 1..l
          BY <2>4, <3>2, <5>2 DEF l
        <5>3. CASE i \in 1..l /\ j = l + 1
          BY <2>4, <3>2, <5>3 DEF l
        <5> QED
          BY <3>i, <4>2, <5>1, <5>2, <5>3
      <4>3. ASSUME NEW d \in Clients, NEW i \in 1..Len(pool') PROVE cl'[d].conn # pool'[i]
        <5>1. pool'[i] \in Conns
          BY <3>2, Elements
        <5>2. CASE d = c
          BY <3>1, <3>n, <5>1, <5>2
        <5>3. CASE d # c /\ i \in 1..l
          <6>1. cl[d].conn # pool[i]
            BY <2>2, <5>3 DEF Exclusive, l
          <6> QED
            BY <3>1, <3>2, <5>3, <6>1
        <5>4. CASE d # c /\ i = l + 1
          BY <2>4, <3>1, <3>2, <5>4
        <5> QED
          BY <3>i, <5>2, <5>3, <5>4
      <4>4. ASSUME NEW x \in Conns
            PROVE  be'[x].open <=> \/ \E d \in Clients : cl'[d].conn = x
                                   \/ \E i \in 1..Len(pool') : pool'[i] = x
        <5>1. CASE x = b
          BY <3>2, <3>4, <3>k, <5>1
        <5>2. CASE x # b
          <6>1. be'[x].open = be[x].open
            BY <3>4, <5>2
          <6>2. (\E d \in Clients : cl'[d].conn = x) <=> \E d \in Clients : cl[d].conn = x
            BY <3>1, <3>n, <5>2 DEF b
          <6>3. (\E i \in 1..Len(pool') : pool'[i] = x) <=> \E i \in 1..Len(pool) : pool[i] = x
            BY <3>2, <3>i, <3>j, <5>2 DEF l
          <6> QED
            BY <2>2, <6>1, <6>2, <6>3 DEF Exclusive
        <5> QED
          BY <5>1, <5>2
      <4> QED
        BY <4>1, <4>2, <4>3, <4>4 DEF Exclusive
    <3>7. \A d \in Clients \ {c} : cl[d].conn # NoConn => be'[cl[d].conn] = be[cl[d].conn]
      BY <2>4, <3>4, Own
    <3>8. ASSUME NEW i \in 1..Len(pool') PROVE Spare(be'[pool'[i]])
      <4>1. CASE i \in 1..l
        <5>1. pool[i] \in Conns /\ pool[i] # b /\ pool'[i] = pool[i]
          <6>1. pool[i] \in Conns
            BY <3>0, <4>1, Elements DEF l
          <6> QED
            BY <2>4, <3>2, <4>1, <6>1
        <5> QED
          BY <3>4, <4>1, <5>1 DEF Inv, l
      <4>2. CASE i = l + 1
        <5>1. pool'[i] = b /\ be'[pool'[i]] = B
          BY <3>2, <3>4, <4>2
        <5> QED
          BY <2>6, <5>1
      <4> QED
        BY <3>i, <4>1, <4>2
    <3>9. \A x \in Conns : Sound(be'[x])
      BY <3>4 DEF Inv
    <3> QED
      BY <2>1, <3>2, <3>3, <3>5, <3>6, <3>7, <3>8, <3>9, QuietlyKeeps
  <2> QED
    BY <2>5, <2>6 DEF PutOrDrop
\* reverse_proxy_request returns, the connection being B.
<1>FinishKeeps.
      ASSUME Inv, NEW c \in Clients, cl[c].pc \in {"respond", "relay"}, NEW k,
             NEW B \in Backends, B.open = TRUE, Sound(B), CanReuse(cl[c]) => Spare(B),
             Finish(c, k, B), UNCHANGED <<hits, nextId, env>>,
             Fine(k), k.id = cl[c].id, k.conn = NoConn
      PROVE  Inv'
  <2> USE <1>FinishKeeps
  <2>1. cl[c].conn # NoConn
    BY <1>Responding
  <2>2. PutOrDrop(cl[c].conn, CanReuse(cl[c]), B) /\ Become(c, k)
    BY DEF Finish
  <2> QED
    BY <2>1, <2>2, <1>PutsKeeps
\* What a continuation leaves of the client's body.
<1>GivenUpFields.
      ASSUME NEW k, Fine(k), k.pc = "respond", NEW m, m = GivenUp(k)
      PROVE  /\ m \in Tasks
             /\ m.id = k.id /\ m.req = k.req /\ m.heads = k.heads /\ m.from = k.from
             /\ m.full = k.full /\ m.stage = k.stage /\ m.failed = k.failed
             /\ m.unread <= m.req.body /\ (m.body => k.body)
             /\ ~m.body => m.failed \/ m.unread = 0
  <2> USE <1>GivenUpFields
  <2> DEFINE u == IF k.sent THEN k.unread ELSE Drained(k)
             g == k.body /\ ~SendsBody(k)
  <2>1. k \in Tasks /\ Good(k)
    BY DEF Fine
  <2>2. /\ k.unread <= k.req.body
        /\ ~k.body => k.failed \/ k.unread = 0
        /\ SendsBody(k) /\ k.body /\ k.sent => k.unread = 0
    BY <2>1 DEF Good, AtRest
  <2>3. m = [k EXCEPT !.unread = u, !.body = g]
    BY DEF GivenUp
  <2>n. k.unread \in 0..MaxBody /\ k.req.body \in 0..MaxBody /\ k.body \in BOOLEAN
    BY <2>1 DEF Tasks, Request
  <2>4. /\ u \in 0..MaxBody /\ u <= k.req.body
        /\ u \in {0, k.unread} /\ (~k.sent /\ k.body => u = 0)
    BY <2>2, <2>n, BoundsAssumption, SMTT(30) DEF Drained
  <2>5. g \in BOOLEAN /\ (g => k.body) /\ (~g => ~k.body \/ SendsBody(k))
    BY <2>n DEF SendsBody
  <2>6. ~g => k.failed \/ u = 0
    BY <2>2, <2>4, <2>5
  <2> HIDE DEF u, g
  <2>7. m \in Tasks
    BY <2>1, <2>3, <2>4, <2>5 DEF Tasks
  <2>8. /\ m.id = k.id /\ m.req = k.req /\ m.heads = k.heads /\ m.from = k.from
        /\ m.full = k.full /\ m.stage = k.stage /\ m.failed = k.failed
        /\ m.unread = u /\ m.body = g
    BY <2>1, <2>3 DEF Tasks
  <2> QED
    BY <2>4, <2>5, <2>6, <2>7, <2>8
\* The request is continued by a hook.
<1>ContinuedFine.
      ASSUME NEW k, Fine(k), k.pc = "respond", MayContinue(k), NEW r, r = Continued(k)
      PROVE  Fine(r) /\ r.conn = NoConn /\ r.id = k.id
  <2> USE <1>ContinuedFine
  <2> DEFINE m == GivenUp(k)
  <2>1. k \in Tasks /\ Good(k)
    BY DEF Fine
  <2>2. /\ k.id > 0 /\ k.heads = 0 /\ k.full
    BY <2>1 DEF Good, AtRest
  <2>m. /\ m \in Tasks
        /\ m.id = k.id /\ m.req = k.req /\ m.heads = k.heads /\ m.from = k.from
        /\ m.full = k.full /\ m.stage = k.stage /\ m.failed = k.failed
        /\ m.unread <= m.req.body /\ (m.body => k.body)
        /\ ~m.body => m.failed \/ m.unread = 0
    BY <1>GivenUpFields
  <2>r. r = IF k.stage = 1 THEN Rerun(m) ELSE Return(m, TRUE)
    BY DEF Continued
  <2>z. 0 <= 1 /\ ~(0 > 0)
    BY SMTT(30)
  <2> HIDE DEF m
  <2>3. CASE k.stage = 1
    <3>1. r = Rerun(m)
      BY <2>3, <2>r
    <3>2. /\ r \in Tasks
          /\ r.pc = "continue" /\ r.stage = 2 /\ r.conn = NoConn
          /\ r.id = m.id /\ r.req = m.req /\ r.unread = m.unread /\ r.body = m.body
          /\ r.heads = m.heads /\ r.from = m.from /\ r.full = m.full
          /\ r.failed = m.failed
      BY <2>m, <3>1, RerunFields
    <3>3. Good(r)
      BY <2>2, <2>m, <2>z, <3>2 DEF Good, AtRest, Holding, Answering
    <3>4. Sending(k)
      BY <2>2 DEF Fine
    <3>5. hits[Id(r)] = 0
      BY <2>3, <2>m, <3>2, <3>4 DEF Sending, Id
    <3>6. Sending(r)
      BY <3>2, <3>5, SMTT(30) DEF Sending, Holding
    <3>7. PlainHeads => PlainHead(r)
      BY <2>2, <2>m, <3>2 DEF Fine, PlainHead, HeadOnly
    <3> QED
      BY <2>m, <3>2, <3>3, <3>6, <3>7 DEF Fine
  <2>4. CASE k.stage # 1
    <3>0. k.stage = 2
      BY <2>1, <2>4, SMTT(30) DEF Tasks
    <3>1. r = Return(m, TRUE)
      BY <2>4, <2>r
    <3>2. Returned(r, m, TRUE)
      BY <2>m, <3>1, ReturnFields
    <3>3. /\ r \in Tasks /\ r.pc \in AtRest
          /\ r.id = k.id /\ r.req = k.req /\ r.unread = m.unread
          /\ r.heads = k.heads /\ r.full = k.full /\ r.body = m.body
          /\ r.conn = NoConn /\ r.stage = k.stage
      BY <2>m, <3>2 DEF Returned
    <3>4. Good(r)
      BY <2>2, <2>m, <2>z, <3>0, <3>3 DEF Good, AtRest, Holding, Answering, MayContinue
    <3> QED
      BY <2>m, <3>3, <3>4, RestFine
  <2> QED
    BY <2>3, <2>4
\* A request that a hook continues, with and without a body to drain, keeps Inv.
<1>HookKeeps.
      ASSUME Inv, NEW c \in Clients,
             HookContinue(c) \/ HookDrain(c) \/ HookDrainEnds(c) \/ HookDrainFails(c)
      PROVE  Inv'
  <2> USE <1>HookKeeps
  <2> DEFINE k == cl[c]
             b == be[k.conn]
             r == Continued(k)
  <2>1. k.pc = "respond" /\ MayContinue(k) /\ UNCHANGED <<hits, nextId, env>>
    BY DEF HookContinue, HookDrain, HookDrainEnds, HookDrainFails
  <2>2. /\ k \in Tasks /\ Fine(k) /\ Good(k) /\ Answering(k) /\ k.pc \notin AtRest
        /\ k.conn # NoConn /\ b \in Backends /\ b.open = TRUE /\ Sound(b) /\ Linked(k, b)
    BY <2>1, <1>Responding
  <2>3. Fine(r) /\ r.conn = NoConn /\ r.id = k.id
    BY <2>1, <2>2, <1>ContinuedFine
  <2>s. CanReuse(k) => k.sent
    BY DEF CanReuse
  <2> HIDE DEF r
  <2>4. CASE HookContinue(c)
    <3>1. (HeadOnly(k) \/ k.resp.response.framing = "none") /\ Finish(c, r, b)
      BY <2>4 DEF HookContinue, r
    <3>2. PlainHeads => Clean(b)
      BY <2>2, <3>1, <1>NoneOver
    <3>3. CanReuse(k) => Spare(b)
      BY <2>1, <2>2, <2>s, <3>2, <1>OverSpare
    <3> QED
      BY <2>1, <2>2, <2>3, <3>1, <3>3, <1>FinishKeeps
  <2>5. CASE HookDrain(c)
    <3> DEFINE B == ReadOff(b)
    <3>1. /\ b.wire # <<>> /\ Head(b.wire).kind = "body" /\ Finish(c, r, B)
          /\ k.resp.response.framing # "eof"
      BY <2>5 DEF HookDrain, Readable, Consumed, r
    <3>2. /\ B \in Backends /\ Sound(B) /\ B.open = b.open
          /\ k.sent => Spare(B)
      BY <2>1, <2>2, <3>1, <1>BodyRead
    <3> HIDE DEF B
    <3> QED
      BY <2>1, <2>2, <2>3, <2>s, <3>1, <3>2, <1>FinishKeeps
  <2>6. CASE HookDrainEnds(c)
    <3>1. Finish(c, r, b) /\ k.resp.response.framing = "eof"
      BY <2>6 DEF HookDrainEnds, r
    <3>2. ~CanReuse(k)
      BY <2>1, <3>1 DEF CanReuse, MayContinue
    <3> QED
      BY <2>1, <2>2, <2>3, <3>1, <3>2, <1>FinishKeeps
  <2>7. CASE HookDrainFails(c)
    <3>1. Alike(k, k)
      BY <2>2, SelfAlike
    <3>2. DropConn(c) /\ Become(c, Failed(k)) /\ UNCHANGED <<pool, hits, nextId, env>>
      BY <2>7 DEF HookDrainFails, Fail
    <3> QED
      BY <2>2, <3>1, <3>2, FailKeeps
  <2> QED
    BY <2>4, <2>5, <2>6, <2>7
\* A task that has relayed a whole response is Fine again and holds no connection.
<1>RelayedFine.
      ASSUME NEW k, Fine(k), k.pc = "respond", NEW left \in 0..k.unread,
             NEW keep \in BOOLEAN, keep => MayKeep(k, left),
             NEW r, r = Return(Relay(k, left, TRUE), keep)
      PROVE  Fine(r) /\ r.conn = NoConn /\ r.id = k.id
  <2> USE <1>RelayedFine
  <2> DEFINE s == Relay(k, left, TRUE)
  <2>1. k \in Tasks /\ Good(k)
    BY DEF Fine
  <2>2. /\ k.id > 0 /\ k.heads = 0 /\ k.resp.id = Id(k) /\ k.unread <= k.req.body
    BY <2>1 DEF Good, AtRest, Answering
  <2>3. /\ left \in 0..MaxBody /\ left <= k.req.body /\ k.heads + 1 \in 0..2
        /\ k.resp.id \in Ids \cup {NoId}
    <3>1. k.unread \in 0..MaxBody /\ k.req.body \in Nat /\ k.resp \in Tokens
      BY <2>1, BoundsAssumption, SMTT(30) DEF Tasks, Request
    <3>2. k.resp.id \in Ids \cup {NoId}
      BY <3>1 DEF Tokens
    <3> QED
      BY <2>2, <3>1, <3>2, BoundsAssumption, SMTT(30)
  <2>4. s \in Tasks
    BY <2>1, <2>3 DEF Relay, Tasks
  <2>5. /\ s.id = k.id /\ s.req = k.req /\ s.stage = k.stage /\ s.failed = k.failed
        /\ s.unread = left /\ s.heads = 1 /\ s.from = Id(k) /\ s.full = TRUE
        /\ s.body = k.body
    BY <2>1, <2>2, SMTT(30) DEF Relay, Tasks
  <2>r. r = Return(s, keep)
    OBVIOUS
  <2> HIDE DEF s
  <2>6. Returned(r, s, keep)
    BY <2>4, <2>r, ReturnFields
  <2>7. /\ r \in Tasks /\ r.pc \in AtRest /\ (r.pc = "idle" => keep)
        /\ r.id = k.id /\ r.req = k.req /\ r.unread = left
        /\ r.heads = 1 /\ r.from = Id(k) /\ r.full = TRUE
        /\ r.conn = NoConn /\ r.stage = k.stage /\ r.failed = k.failed /\ r.body = k.body
    BY <2>5, <2>6, ZenonT(30) DEF Returned
  <2>8. Good(r)
    <3>1. r.unread <= r.req.body /\ r.from \in {NoId, Id(r)} /\ r.heads = 1
      BY <2>3, <2>7 DEF Id
    <3>2. r.pc = "idle" /\ ~r.failed
          /\ (r.req.method = "POST" \/ r.req.plan \in {"hooked", "local"}) => r.unread = 0
      BY <2>7 DEF MayKeep
    <3> QED
      <4>1. r.pc \in AtRest /\ r.conn = NoConn /\ r.full = TRUE
        BY <2>7
      <4>a. r.pc \in Holding <=> r.conn # NoConn
        BY <4>1 DEF AtRest, Holding
      <4>b. r.heads > 0 => r.from \in {NoId, Id(r)}
        BY <3>1
      <4>c. ~Untracked(r.req) =>
            /\ r.heads <= 1
            /\ r.pc = "idle" /\ r.id > 0 /\ r.heads = 0 =>
                  MayContinue(r) /\ r.stage = 2
        <5>1. r.heads <= 1 /\ r.heads # 0
          <6>1. 1 <= 1 /\ 1 # 0
            BY SMT
          <6> QED
            BY <3>1, <6>1
        <5> QED
          BY <5>1
      <4>d. ~Answering(r)
        BY <4>1 DEF AtRest, Answering
      <4> QED
        BY <3>1, <3>2, <4>1, <4>a, <4>b, <4>c, <4>d DEF Good, AtRest
  <2> QED
    BY <2>7, <2>8, RestFine
\* A response relayed in one step, with no body or one of known length, keeps Inv.
<1>RelayWholeKeeps.
      ASSUME Inv, NEW c \in Clients, NEW left \in 0..MaxBody,
             RelayHead(c, left) \/ RelayFixed(c, left)
      PROVE  Inv'
  <2> USE <1>RelayWholeKeeps
  <2> DEFINE k == cl[c]
             b == be[k.conn]
             keep == ClientReusable(k, left)
             r == Return(Relay(k, left, TRUE), keep)
  <2>1. /\ k.pc = "respond" /\ UNCHANGED <<hits, nextId, env>>
        /\ ClientDrained(k, left) \/ RawFixed(k, left)
    BY DEF RelayHead, RelayFixed
  <2>2. /\ k \in Tasks /\ Fine(k) /\ Good(k) /\ Answering(k) /\ k.pc \notin AtRest
        /\ k.conn # NoConn /\ b \in Backends /\ b.open = TRUE /\ Sound(b) /\ Linked(k, b)
    BY <2>1, <1>Responding
  <2>3. /\ left \in 0..k.unread
        /\ ClientDrained(k, left) => (keep => left = 0 \/ k.failed)
        /\ RawFixed(k, left) /\ k.req.method = "POST" => left = 0 \/ k.failed
    BY <2>1, <2>2, DrainedLeft
  <2>4. RawFixed(k, left) => k.req.plan \notin {"hooked", "local"}
    BY DEF RawFixed
  <2>k. keep \in BOOLEAN
    <3>1. k.sent \in BOOLEAN
      BY <2>2 DEF Tasks
    <3> QED
      BY <3>1 DEF ClientReusable, LingerDone
  <2>r. r = Return(Relay(k, left, TRUE), keep)
    OBVIOUS
  <2>f. \/ Finish(c, r, b) /\ (HeadOnly(k) \/ k.resp.response.framing = "none")
        \/ /\ Finish(c, r, ReadOff(b)) /\ k.resp.response.framing = "fixed"
           /\ b.wire # <<>> /\ Head(b.wire).kind = "body"
    BY DEF RelayHead, RelayFixed, Readable, Consumed
  <2>s. CanReuse(k) => k.sent
    BY DEF CanReuse
  <2> HIDE DEF k, keep, r, b
  <2>5. keep => MayKeep(k, left)
    BY <2>1, <2>3, <2>4 DEF MayKeep
  <2>l. left \in 0..k.unread
    BY <2>3
  <2>6. Fine(r) /\ r.conn = NoConn /\ r.id = k.id
    BY <2>1, <2>2, <2>5, <2>k, <2>l, <2>r, <1>RelayedFine, ZenonT(30)
  <2>7. CASE Finish(c, r, b) /\ (HeadOnly(k) \/ k.resp.response.framing = "none")
    <3>1. PlainHeads => Clean(b)
      BY <2>2, <2>7, <1>NoneOver
    <3>2. CanReuse(k) => Spare(b)
      BY <2>1, <2>2, <2>s, <3>1, <1>OverSpare
    <3> QED
      BY <2>1, <2>2, <2>6, <2>7, <3>2, <1>FinishKeeps DEF k
  <2>8. CASE /\ Finish(c, r, ReadOff(b)) /\ k.resp.response.framing = "fixed"
             /\ b.wire # <<>> /\ Head(b.wire).kind = "body"
    <3> DEFINE B == ReadOff(b)
    <3>1. /\ B \in Backends /\ Sound(B) /\ B.open = b.open
          /\ k.resp.response.framing # "eof" /\ k.sent => Spare(B)
      BY <2>1, <2>2, <2>8, <1>BodyRead
    <3>2. Finish(c, r, B)
      BY <2>8
    <3> HIDE DEF B
    <3>3. CanReuse(k) => Spare(B)
      BY <2>8, <2>s, <3>1
    <3> QED
      BY <2>1, <2>2, <2>6, <3>1, <3>2, <3>3, <1>FinishKeeps DEF k
  <2> QED
    BY <2>7, <2>8, <2>f
\* The body is relayed to its end.
<1>RelayedToEndFine.
      ASSUME NEW k, Fine(k), k.pc = "relay", NEW r, r = Return([k EXCEPT !.full = TRUE], k.keep)
      PROVE  Fine(r) /\ r.conn = NoConn /\ r.id = k.id
  <2> USE <1>RelayedToEndFine
  <2> DEFINE s == [k EXCEPT !.full = TRUE]
  <2>1. k \in Tasks /\ Good(k) /\ k.keep \in BOOLEAN
    BY DEF Fine, Tasks
  <2>2. s \in Tasks
    BY <2>1 DEF Tasks
  <2>3. /\ s.id = k.id /\ s.req = k.req /\ s.stage = k.stage /\ s.failed = k.failed
        /\ s.unread = k.unread /\ s.heads = k.heads /\ s.from = k.from /\ s.full = TRUE
        /\ s.body = k.body
    BY <2>1 DEF Tasks
  <2>r. r = Return(s, k.keep)
    OBVIOUS
  <2> HIDE DEF s
  <2>4. Returned(r, s, k.keep)
    BY <2>1, <2>2, <2>r, ReturnFields
  <2>5. /\ r \in Tasks /\ r.pc \in AtRest /\ (r.pc = "idle" => k.keep)
        /\ r.id = k.id /\ r.req = k.req /\ r.unread = k.unread
        /\ r.heads = k.heads /\ r.from = k.from /\ r.full = TRUE
        /\ r.conn = NoConn /\ r.stage = k.stage /\ r.failed = k.failed /\ r.body = k.body
    BY <2>3, <2>4 DEF Returned
  <2>6. Good(r)
    <3>1. /\ k.heads = 1 /\ k.unread <= k.req.body /\ k.from \in {NoId, Id(k)}
          /\ k.keep /\ ~k.failed
             /\ (k.req.method = "POST" \/ k.req.plan \in {"hooked", "local"}) => k.unread = 0
      BY <2>1, SMTT(30) DEF Good, AtRest
    <3>2. Id(r) = Id(k)
      BY <2>5 DEF Id
    <3> QED
      BY <2>5, <3>1, <3>2, SMTT(30) DEF Good, AtRest, Holding, Answering
  <2> QED
    BY <2>5, <2>6, RestFine
\* A streamed response's body and its end keep Inv.
<1>RelayKeeps.
      ASSUME Inv, NEW c \in Clients, RelayBody(c) \/ RelayEnds(c)
      PROVE  Inv'
  <2> USE <1>RelayKeeps
  <2> DEFINE k == cl[c]
             b == be[k.conn]
             r == Return([k EXCEPT !.full = TRUE], k.keep)
  <2>1. k.pc = "relay" /\ UNCHANGED <<hits, nextId, env>>
    BY DEF RelayBody, RelayEnds
  <2>2. /\ k \in Tasks /\ Fine(k) /\ Good(k) /\ Answering(k) /\ k.pc \notin AtRest
        /\ k.conn # NoConn /\ b \in Backends /\ b.open = TRUE /\ Sound(b) /\ Linked(k, b)
    BY <2>1, <1>Responding
  <2>3. Fine(r) /\ r.conn = NoConn /\ r.id = k.id
    BY <2>1, <2>2, <1>RelayedToEndFine
  <2>s. CanReuse(k) => k.sent
    BY DEF CanReuse
  <2> HIDE DEF r
  <2>5. CASE RelayBody(c)
    <3> DEFINE B == ReadOff(b)
    <3>1. b.wire # <<>> /\ Head(b.wire).kind = "body"
      BY <2>5 DEF RelayBody, Readable
    <3>2. /\ B \in Backends /\ Sound(B) /\ B.open = b.open
          /\ k.resp.response.framing = "eof" => Linked(k, B)
          /\ k.resp.response.framing # "eof" /\ k.sent => Spare(B)
      BY <2>1, <2>2, <3>1, <1>BodyRead
    <3>3. IF k.resp.response.framing = "eof"
          THEN be' = [be EXCEPT ![k.conn] = B] /\ UNCHANGED <<cl, pool>>
          ELSE Finish(c, r, B)
      BY <2>5 DEF RelayBody, Consumed, r
    <3> HIDE DEF B
    <3>4. CASE k.resp.response.framing = "eof"
      <4>1. Become(c, k)
        <5>1. cl \in [Clients -> Tasks] /\ cl' = cl
          BY <3>3, <3>4 DEF Inv, TypeOK
        <5> QED
          BY <5>1 DEF Become
      <4>2. be' = [be EXCEPT ![k.conn] = B] /\ UNCHANGED <<pool, hits, nextId, env>>
        BY <2>1, <3>3, <3>4
      <4> QED
        BY <2>2, <3>2, <3>4, <4>1, <4>2, UsesKeeps
    <3>5. CASE k.resp.response.framing # "eof"
      BY <2>1, <2>2, <2>3, <2>s, <3>2, <3>3, <3>5, <1>FinishKeeps
    <3> QED
      BY <3>4, <3>5
  <2>6. CASE RelayEnds(c)
    <3>1. b.wire # <<>> /\ Head(b.wire).kind = "fin"
      BY <2>6 DEF RelayEnds, Readable
    <3>2. IF k.resp.response.framing = "eof" THEN Finish(c, r, b)
          ELSE DropConn(c) /\ Become(c, Failed(k)) /\ UNCHANGED pool
      BY <2>6 DEF RelayEnds, Fail, r
    <3>3. CASE k.resp.response.framing = "eof"
      <4>1. PlainHeads => Clean(b)
        BY <2>2, <3>1, <1>FinOver
      <4>2. CanReuse(k) => Spare(b)
        BY <2>1, <2>2, <2>s, <4>1, <1>OverSpare
      <4> QED
        BY <2>1, <2>2, <2>3, <3>2, <3>3, <4>2, <1>FinishKeeps
    <3>4. CASE k.resp.response.framing # "eof"
      <4>1. Alike(k, k)
        BY <2>2, SelfAlike
      <4> QED
        BY <2>1, <2>2, <3>2, <3>4, <4>1, FailKeeps
    <3> QED
      BY <3>3, <3>4
  <2> QED
    BY <2>5, <2>6
<1> QED
  BY <1>HookKeeps, <1>RelayWholeKeeps, <1>RelayStartKeeps, <1>RelayKeeps

-----------------------------------------------------------------------------
(* The invariant and the theorems.                                         *)

\* Every step of a task keeps Inv.
LEMMA TaskKeeps ==
    ASSUME Inv, NEW c \in Clients, Task(c)
    PROVE  Inv'
<1>1. CASE \/ ParseError(c) \/ ServeLocal(c) \/ Abort(c) \/ ContinueLocal(c)
           \/ (\E plan \in env.plans : ContinueProxy(c, plan))
  BY <1>1, LocalKeepsInv, ContinueProxyKeeps
<1>2. CASE \/ BadTarget(c) \/ BadOverride(c) \/ Take(c) \/ Connect(c) \/ ConnectFails(c)
           \/ SendHead(c) \/ SendHeadFails(c)
  BY <1>2, FailsEarlyKeeps, DialKeepsInv, SendHeadKeeps, NoResponseKeeps
<1>3. CASE \/ UploadRead(c) \/ UploadWrite(c) \/ EarlyResponse(c) \/ EarlyClose(c)
           \/ UploadFails(c) \/ Salvage(c) \/ UploadDone(c) \/ ReadHead(c) \/ ReadHeadFails(c)
  BY <1>3, HeadKeepsInv, UploadFailsKeeps, UploadDoneKeeps, NoResponseKeeps
<1>4. CASE \/ HookContinue(c) \/ HookDrain(c) \/ HookDrainEnds(c) \/ HookDrainFails(c)
           \/ RelayBody(c) \/ RelayEnds(c)
  BY <1>4, RelayKeepsInv
<1>5. ASSUME NEW left \in 0..MaxBody,
             \/ DeclaredTooLarge(c, left) \/ UploadTooLarge(c, left)
             \/ RelayHead(c, left) \/ RelayFixed(c, left)
             \/ RelayFixedFails(c, left) \/ RelayStart(c, left)
      PROVE  Inv'
  BY <1>5, LocalKeepsInv, RelayKeepsInv, RelayFixedFailsKeeps
<1> QED
  BY <1>1, <1>2, <1>3, <1>4, <1>5 DEF Task

\* Every step keeps Inv.
LEMMA NextKeeps == Inv /\ [Next]_vars => Inv'
<1> SUFFICES ASSUME Inv, [Next]_vars PROVE Inv'
  OBVIOUS
<1>1. ASSUME NEW c \in Clients,
             \/ Task(c) \/ ClientLeaves(c) \/ Interrupt(c)
             \/ \E q \in env.requests : NextRequest(c, q)
      PROVE  Inv'
  BY <1>1, TaskKeeps, LocalKeepsInv, InterruptKeeps, NextRequestKeeps
<1>2. ASSUME NEW b \in Conns, Answers(b) \/ Close(b) \/ Receive(b) \/ Arrive(b)
      PROVE  Inv'
  BY <1>2, BackendKeepsInv
<1>3. CASE UNCHANGED vars
  BY <1>3, StutterKeeps
<1> QED
  BY <1>1, <1>2, <1>3 DEF Next

\* Inv is an invariant of the proxy.
LEMMA Invariance == Spec => []Inv
BY InitInv, NextKeeps, PTL DEF Spec

\* A wire with nothing on it, or just the end of the stream.
LEMMA EmptyOrFin ==
    ASSUME NEW w \in Seq(Tokens), Len(w) = 0 \/ (Len(w) = 1 /\ w[1] = Fin)
    PROVE  w \in {<<>>, <<Fin>>}
<1>1. CASE Len(w) = 0
  BY <1>1, EmptyLen
<1>2. CASE Len(w) = 1 /\ w[1] = Fin
  <2>1. w = <<Fin>>
    BY <1>2, SMTT(30)
  <2> QED
    BY <2>1
<1> QED
  BY <1>1, <1>2

\* The values a request task, a backend connection and the pool can have;
\* ProxyPool::put keeps the pool of a key within MAX_POOL_PER_KEY.
THEOREM TypesKept == Spec => []TypeOK
<1>1. Inv => TypeOK
  BY DEF Inv
<1> QED
  BY <1>1, Invariance, PTL

\* A backend connection is in the hands of one task or in the pool once, and
\* otherwise closed, for any number of clients, connections and requests: what
\* ProxyPool::take and put, the replay on a fresh dial and a task dropped half
\* way do to it never lets two exchanges share it, nor leaks it.
THEOREM ConnectionsExclusive == Spec => []Exclusive
<1>1. Inv => Exclusive
  BY DEF Inv
<1> QED
  BY <1>1, Invariance, PTL

\* No client is sent the response to another request: what the request loop
\* writes was made by the server or answers the request proxied last for it.
THEOREM ResponsesMatchRequests == Spec => []OwnResponse
<1>1. Inv => OwnResponse
  BY DEF Inv, Fine, Good, OwnResponse
<1> QED
  BY <1>1, Invariance, PTL

\* Before a request is continued, and again after, reverse_proxy_request sends it
\* at most twice, and at most once if its task holds a body or sends a method
\* other than GET and HEAD.
THEOREM ReplaysSafe == Spec => []SafeReplay
<1>1. ASSUME Inv, NEW c \in Clients, cl[c].id > 0
      PROVE  hits[Id(cl[c])] <= IF Once(cl[c]) THEN 1 ELSE 2
  BY <1>1 DEF Inv, Fine, Sending
<1>2. Inv => SafeReplay
  BY <1>1 DEF SafeReplay, Once
<1> QED
  BY <1>2, Invariance, PTL

\* Behind the tracked writer a request gets one response, written completely
\* before the client connection is used for the next one.
THEOREM OneResponseEach == Spec => []OneResponse
<1>1. ASSUME Inv, NEW c \in Clients PROVE Good(cl[c])
  BY <1>1 DEF Inv, Fine
<1>2. Inv => OneResponse
  BY <1>1 DEF Good, OneResponse
<1> QED
  BY <1>2, Invariance, PTL

\* A client connection is kept after an answered request only with the body of
\* that request read off it, so no rest of it is parsed as the next request.
THEOREM BodiesConsumed == Spec => []BodyConsumed
<1>1. ASSUME Inv, NEW c \in Clients PROVE Good(cl[c])
  BY <1>1 DEF Inv, Fine
<1>2. Inv => BodyConsumed
  BY <1>1 DEF Good, BodyConsumed
<1> QED
  BY <1>2, Invariance, PTL

\* A connection that ProxyPool::put has taken carries no unfinished exchange,
\* and nothing but the backend's close arrives on it before it is taken again.
THEOREM PoolStaysQuiescent == Spec => []PoolQuiescent
<1>1. ASSUME Inv, NEW i \in 1..Len(pool)
      PROVE  /\ be[pool[i]].need = 0 /\ be[pool[i]].reqs = <<>>
             /\ PlainHeads => /\ be[pool[i]].owes = "none"
                              /\ be[pool[i]].wire \in {<<>>, <<Fin>>}
  <2>1. Spare(be[pool[i]]) /\ pool[i] \in Conns /\ be[pool[i]] \in Backends
    BY <1>1, SMTT(30) DEF Inv, TypeOK
  <2>2. be[pool[i]].wire \in Seq(Tokens)
    BY <2>1 DEF Backends
  <2>3. ASSUME PlainHeads
        PROVE  /\ be[pool[i]].owes = "none"
               /\ \/ Len(be[pool[i]].wire) = 0
                  \/ Len(be[pool[i]].wire) = 1 /\ be[pool[i]].wire[1] = Fin
    BY <2>1, <2>2, <2>3, SMTT(30) DEF Spare, Clean, Rest
  <2> QED
    BY <2>1, <2>2, <2>3, EmptyOrFin DEF Spare, Quiet
<1>2. Inv => PoolQuiescent
  BY <1>1 DEF PoolQuiescent, PlainHeads
<1> QED
  BY <1>2, Invariance, PTL

=============================================================================
