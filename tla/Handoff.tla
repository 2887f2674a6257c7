------------------------------- MODULE Handoff -------------------------------
(***************************************************************************)
(* Hand-off of accepted connections between workers that share one         *)
(* listening socket (src/src/handoff.rs, and the listeners of              *)
(* src/src/server.rs).  Each accepted connection is assigned round-robin;  *)
(* one for a sibling travels through the sibling's channel and is adopted  *)
(* there.  A worker whose listener fails exits: its channel, with what is  *)
(* queued in it, and its connections are closed.                           *)
(***************************************************************************)
EXTENDS Naturals, Sequences, FiniteSets

CONSTANTS
    N,          \* number of workers
    Conns,      \* connections that clients open
    MaxFaults,  \* bound: failing system calls
    MaxExits    \* bound: accept errors that end a worker

ASSUME HandoffAssumption ==
    /\ N \in Nat \ {0} /\ MaxFaults \in Nat /\ MaxExits \in Nat
    /\ IsFiniteSet(Conns)

Workers == 0 .. N - 1

VARIABLES
    next,       \* the shared round-robin counter
    queue,      \* per worker: its channel of HandoffConn
    state,      \* per worker: booting, up, down
    conn,       \* per connection: backlog, transit, served, refused, closed
    owner,      \* per accepted connection: the worker it was given to
    faults, exits

vars == <<next, queue, state, conn, owner, faults, exits>>

Init ==
    /\ next = 0
    /\ queue = [w \in Workers |-> <<>>]
    /\ state = [w \in Workers |-> "booting"]
    /\ conn = [c \in Conns |-> "backlog"]
    /\ owner = [c \in Conns |-> N]
    /\ faults = 0 /\ exits = 0

\* amain runs: the receiver task is spawned and the worker accepts.
Boot(w) ==
    /\ state[w] = "booting"
    /\ state' = [state EXCEPT ![w] = "up"]
    /\ UNCHANGED <<next, queue, conn, owner, faults, exits>>

Target == next % N

Assign(c, w) == owner' = [owner EXCEPT ![c] = w]

\* Mutant of Tick: a connection the accepting worker keeps is not counted.
TickRemote(w) == next' = IF Target = w THEN next ELSE next + 1

\* fetch_add on the counter all distributors share.
Tick(w) == next' = next + 1

\* Mutant of AcceptLocal: the share of a sibling that is gone is left to it.
AcceptLocalOwn(w, c) ==
    /\ state[w] = "up" /\ conn[c] = "backlog"
    /\ Target = w
    /\ Tick(w)
    /\ Assign(c, w)
    /\ conn' = [conn EXCEPT ![c] = "served"]
    /\ UNCHANGED <<queue, state, faults, exits>>

\* Worker w accepts c, keeps it and spawns its task.
AcceptLocal(w, c) ==
    /\ state[w] = "up" /\ conn[c] = "backlog"
    /\ Target = w \/ state[Target] = "down"
    /\ Tick(w)
    /\ Assign(c, w)
    /\ conn' = [conn EXCEPT ![c] = "served"]
    /\ UNCHANGED <<queue, state, faults, exits>>

\* Mutant of AcceptRemote: the channel of a sibling that is gone still takes
\* connections.
AcceptRemoteGone(w, c) ==
    /\ state[w] = "up" /\ conn[c] = "backlog"
    /\ Target # w
    /\ Tick(w)
    /\ Assign(c, Target)
    /\ queue' = [queue EXCEPT ![Target] = Append(@, c)]
    /\ conn' = [conn EXCEPT ![c] = "transit"]
    /\ UNCHANGED <<state, faults, exits>>

\* Worker w accepts c and sends it to the sibling whose turn it is.
AcceptRemote(w, c) ==
    /\ state[w] = "up" /\ conn[c] = "backlog"
    /\ Target # w /\ state[Target] # "down"
    /\ Tick(w)
    /\ Assign(c, Target)
    /\ queue' = [queue EXCEPT ![Target] = Append(@, c)]
    /\ conn' = [conn EXCEPT ![c] = "transit"]
    /\ UNCHANGED <<state, faults, exits>>

\* The receiver task registers the next handed-off connection and serves it.
Adopt(w) ==
    /\ state[w] = "up" /\ queue[w] # <<>>
    /\ queue' = [queue EXCEPT ![w] = Tail(@)]
    /\ conn' = [conn EXCEPT ![Head(queue[w])] = "served"]
    /\ UNCHANGED <<next, state, owner, faults, exits>>

\* Registration with the driver or the hangup watcher fails: logged, dropped.
AdoptFails(w) ==
    /\ state[w] = "up" /\ queue[w] # <<>> /\ faults < MaxFaults
    /\ faults' = faults + 1
    /\ queue' = [queue EXCEPT ![w] = Tail(@)]
    /\ conn' = [conn EXCEPT ![Head(queue[w])] = "refused"]
    /\ UNCHANGED <<next, state, owner, exits>>

\* The sibling is gone and the connection cannot be registered here either:
\* logged, dropped.
ReclaimFails(w, c) ==
    /\ state[w] = "up" /\ conn[c] = "backlog" /\ faults < MaxFaults
    /\ Target # w /\ state[Target] = "down"
    /\ faults' = faults + 1
    /\ Tick(w)
    /\ Assign(c, w)
    /\ conn' = [conn EXCEPT ![c] = "refused"]
    /\ UNCHANGED <<queue, state, exits>>

\* Mutant of Down: the channel outlives the worker.
DownKeepsQueue(w, closing) ==
    /\ state' = [state EXCEPT ![w] = "down"]
    /\ UNCHANGED queue
    /\ conn' = [c \in Conns |->
                  IF c \in closing \/ (owner[c] = w /\ conn[c] \in {"transit", "served"})
                  THEN "closed" ELSE conn[c]]

\* The worker's runtime ends: what it serves and what is queued is closed.
Down(w, closing) ==
    /\ state' = [state EXCEPT ![w] = "down"]
    /\ queue' = [queue EXCEPT ![w] = <<>>]
    /\ conn' = [c \in Conns |->
                  IF c \in closing \/ (owner[c] = w /\ conn[c] \in {"transit", "served"})
                  THEN "closed" ELSE conn[c]]

\* hup.wait fails for a connection the worker accepted itself: `?` ends its
\* listener, and with it the worker.
AcceptFails(w, c) ==
    /\ state[w] = "up" /\ conn[c] = "backlog" /\ faults < MaxFaults
    /\ Target = w \/ state[Target] = "down"
    /\ faults' = faults + 1
    /\ Tick(w)
    /\ Assign(c, w)
    /\ Down(w, {c})
    /\ UNCHANGED exits

\* accept() itself fails.
Exit(w) ==
    /\ state[w] = "up" /\ exits < MaxExits
    /\ exits' = exits + 1
    /\ Down(w, {})
    /\ UNCHANGED <<next, owner, faults>>

\* The peer closes, or the task is done.
Close(c) ==
    /\ conn[c] = "served"
    /\ conn' = [conn EXCEPT ![c] = "closed"]
    /\ UNCHANGED <<next, queue, state, owner, faults, exits>>

-----------------------------------------------------------------------------
Accept(w) == \E c \in Conns : AcceptLocal(w, c) \/ AcceptRemote(w, c)

Next ==
    \/ \E w \in Workers :
          \/ Boot(w) \/ Accept(w) \/ Adopt(w) \/ AdoptFails(w) \/ Exit(w)
          \/ \E c \in Conns : AcceptFails(w, c) \/ ReclaimFails(w, c)
    \/ \E c \in Conns : Close(c)

Spec == Init /\ [][Next]_vars

\* Every worker's runtime polls its tasks.
FairSpec ==
    /\ Spec
    /\ \A w \in Workers : WF_vars(Boot(w)) /\ WF_vars(Accept(w)) /\ WF_vars(Adopt(w))

-----------------------------------------------------------------------------
(* Properties.                                                             *)

\* Type invariant: a queued connection is in transit to the worker whose
\* channel holds it, and is queued once.
TypeOK ==
    /\ next \in Nat
    /\ state \in [Workers -> {"booting", "up", "down"}]
    /\ conn \in [Conns -> {"backlog", "transit", "served", "refused", "closed"}]
    /\ owner \in [Conns -> 0 .. N]
    /\ \A w \in Workers : \A i \in DOMAIN queue[w] :
          /\ queue[w][i] \in Conns
          /\ conn[queue[w][i]] = "transit" /\ owner[queue[w][i]] = w
          /\ \A j \in DOMAIN queue[w] : queue[w][i] = queue[w][j] => i = j
    /\ \A c \in Conns : conn[c] = "transit" =>
          \E i \in DOMAIN queue[owner[c]] : queue[owner[c]][i] = c

Given(w) == Cardinality({c \in Conns : owner[c] = w})

\* "The assignment is globally balanced no matter which worker wins each
\* accept" (handoff.rs:48-50): while no worker is gone, no two differ by more
\* than one in the connections they were given.
Balanced ==
    (\A w \in Workers : state[w] # "down")
        => \A v, w \in Workers : Given(v) <= Given(w) + 1

\* "An accepted connection must never be dropped" (handoff.rs:97-98), and "a
\* connection dropped in transit is closed, not leaked" (handoff.rs:29-30): a
\* connection does not stay in transit for ever; it is served, or the system
\* refused to register it, or it is closed with the worker it was sent to.
TransitEnds ==
    \A c \in Conns :
        conn[c] = "transit" ~> conn[c] \in {"served", "refused", "closed"}

\* The listener outlives its workers: while one worker is left to accept,
\* every client is accepted in the end.
BacklogDrains ==
    \A c \in Conns :
        conn[c] = "backlog" ~> conn[c] # "backlog" \/ \A w \in Workers : state[w] = "down"
==============================================================================
