------------------------------ MODULE HupWatch ------------------------------
(***************************************************************************)
(* HupWatcher (src/src/hupwatch.rs): tells the task of a connection that   *)
(* its peer has hung up.  wait() inserts a hook under the connection's fd  *)
(* number and registers the fd with the kernel; the guard of the returned  *)
(* future removes the hook.  Fd numbers are recycled: the fd of a closed   *)
(* connection may be given to a new one while an event harvested for the   *)
(* old one, or the old one's guard, is still around.                       *)
(*                                                                         *)
(* On BSD (kqueue) a thread of its own harvests a batch of events and      *)
(* completes the hooks one by one; on Linux the harvest and the completion *)
(* are one uninterrupted step of the worker's runtime.                     *)
(***************************************************************************)
EXTENDS Naturals, FiniteSets

CONSTANTS
    Conns,      \* accepted connections, each used once
    Fds,        \* fd numbers
    None,       \* no fd, no hook, no registration
    MAX_EVENTS  \* size of a batch

ASSUME NoneAssumption == None \notin Fds /\ None \notin Nat
ASSUME PlatformAssumption == MAX_EVENTS \in Nat \ {0}

VARIABLES
    kqueue,     \* the platform: a kqueue thread, or an epoll task
    stage,      \* per connection: how far serve_http_conn has come
    fdOf,       \* per connection: its open fd
    guardFd,    \* per connection: the fd its guard remembers
    gen,        \* per connection: the generation its guard remembers
    hungup,     \* connections whose peer has closed or reset
    notified,   \* connections whose hook was completed
    hooks,      \* HupWatcher::hooks, per fd: the generation
    nextGen,    \* HupWatcher::next_generation
    watchGen,   \* kernel registrations, per fd: the generation (udata)
    event,      \* per fd: the event the kernel holds for the registration
    batch       \* events harvested and not yet looked at

connVars == <<stage, fdOf, guardFd, gen>>
kernelVars == <<watchGen, event>>
vars == <<kqueue, connVars, hungup, notified, hooks, nextGen, kernelVars, batch>>

Init ==
    /\ kqueue \in BOOLEAN
    /\ stage = [c \in Conns |-> "new"]
    /\ fdOf = [c \in Conns |-> None]
    /\ guardFd = [c \in Conns |-> None]
    /\ gen = [c \in Conns |-> None]
    /\ hungup = {}
    /\ notified = {}
    /\ hooks = [f \in Fds |-> None]
    /\ nextGen = 0
    /\ watchGen = [f \in Fds |-> None]
    /\ event = [f \in Fds |-> "none"]
    /\ batch = {}

-----------------------------------------------------------------------------
(* wait(), and the task of the connection.                                 *)

\* A connection is accepted and wait() inserts its hook.  An older hook of the
\* fd is dropped with its sender, which ends the wait of the connection that
\* left it behind.
WaitInsert(c, f) ==
    /\ stage[c] = "new"
    /\ \A d \in Conns : fdOf[d] # f
    /\ fdOf' = [fdOf EXCEPT ![c] = f]
    /\ guardFd' = [guardFd EXCEPT ![c] = f]
    /\ gen' = [gen EXCEPT ![c] = nextGen]
    /\ nextGen' = nextGen + 1
    /\ hooks' = [hooks EXCEPT ![f] = nextGen]
    /\ notified' = notified \cup {d \in Conns : gen[d] # None /\ gen[d] = hooks[f]}
    /\ stage' = [stage EXCEPT ![c] = "inserted"]
    /\ UNCHANGED <<kqueue, hungup, kernelVars, batch>>

\* register_hup: a peer that is gone already is an event at once.
WaitRegister(c) ==
    /\ stage[c] = "inserted"
    /\ watchGen' = [watchGen EXCEPT ![fdOf[c]] = gen[c]]
    /\ event' = [event EXCEPT ![fdOf[c]] =
                   IF c \in hungup THEN "eof" ELSE "none"]
    /\ stage' = [stage EXCEPT ![c] = "served"]
    /\ UNCHANGED <<kqueue, fdOf, guardFd, gen, hungup, notified, hooks, nextGen, batch>>

\* Mutant of RemoveHook: the hook of the fd goes, whoever put it there.
RemoveHookOfFd(f, g) == hooks' = [hooks EXCEPT ![f] = None]

\* remove_hook_if_generation
RemoveHook(f, g) ==
    hooks' = IF hooks[f] = g THEN [hooks EXCEPT ![f] = None] ELSE hooks

\* register_hup fails: the hook is taken back, the connection is dropped.
WaitFails(c) ==
    /\ stage[c] = "inserted"
    /\ RemoveHook(fdOf[c], gen[c])
    /\ fdOf' = [fdOf EXCEPT ![c] = None]
    /\ guardFd' = [guardFd EXCEPT ![c] = None]
    /\ stage' = [stage EXCEPT ![c] = "served"]
    /\ UNCHANGED <<kqueue, gen, hungup, notified, nextGen, kernelVars, batch>>

\* The stream is dropped: the kernel forgets the fd and its registration.
\* Requests of an HTTP/2 connection may still hold its guard.
CloseFd(c) ==
    /\ stage[c] = "served" /\ fdOf[c] # None
    /\ watchGen' = [watchGen EXCEPT ![fdOf[c]] = None]
    /\ event' = [event EXCEPT ![fdOf[c]] = "none"]
    /\ fdOf' = [fdOf EXCEPT ![c] = None]
    /\ UNCHANGED <<kqueue, stage, guardFd, gen, hungup, notified, hooks, nextGen, batch>>

\* The future of wait() is dropped.
DropGuard(c) ==
    /\ stage[c] = "served" /\ guardFd[c] # None
    /\ RemoveHook(guardFd[c], gen[c])
    /\ guardFd' = [guardFd EXCEPT ![c] = None]
    /\ UNCHANGED <<kqueue, stage, fdOf, gen, hungup, notified, nextGen, kernelVars, batch>>

-----------------------------------------------------------------------------
(* The peer.                                                               *)

\* The peer closes or resets.
PeerHangup(c) ==
    /\ fdOf[c] # None /\ c \notin hungup
    /\ hungup' = hungup \cup {c}
    /\ event' = IF watchGen[fdOf[c]] # None
                THEN [event EXCEPT ![fdOf[c]] = "eof"] ELSE event
    /\ UNCHANGED <<kqueue, connVars, notified, hooks, nextGen, watchGen, batch>>

\* The peer sends; a kqueue that ignores NOTE_LOWAT makes it an event.
PeerData(c) ==
    /\ kqueue
    /\ fdOf[c] # None /\ c \notin hungup
    /\ watchGen[fdOf[c]] # None
    /\ event' = [event EXCEPT ![fdOf[c]] = "data"]
    /\ UNCHANGED <<kqueue, connVars, hungup, notified, hooks, nextGen, watchGen, batch>>

-----------------------------------------------------------------------------
(* The watcher.                                                            *)

Pending == {f \in Fds : event[f] # "none"}

\* epoll_wait and kevent return the pending events, at most MAX_EVENTS.
Returned(fs) ==
    /\ fs # {} /\ Cardinality(fs) <= MAX_EVENTS
    /\ fs = Pending \/ Cardinality(fs) = MAX_EVENTS

\* The hook of f, if there is one, is taken out and completed.
Notify(fs) ==
    /\ notified' = notified \cup {c \in Conns : \E f \in fs : gen[c] = hooks[f]}
    /\ hooks' = [f \in Fds |-> IF f \in fs THEN None ELSE hooks[f]]

\* watcher_epoll: one-shot registrations, hooks found by the fd alone.
EpollFire ==
    /\ ~kqueue
    /\ \E fs \in SUBSET Pending :
          /\ Returned(fs)
          /\ Notify({f \in fs : hooks[f] # None})
          /\ event' = [f \in Fds |-> IF f \in fs THEN "none" ELSE event[f]]
          /\ watchGen' = [f \in Fds |-> IF f \in fs THEN None ELSE watchGen[f]]
    /\ UNCHANGED <<kqueue, connVars, hungup, nextGen, batch>>

\* Mutant of Harvest: registrations are one-shot, whatever the event.
HarvestOneshot ==
    /\ kqueue /\ batch = {}
    /\ \E fs \in SUBSET Pending :
          /\ Returned(fs)
          /\ batch' = {[fd |-> f, gen |-> watchGen[f], kind |-> event[f]] :
                          f \in fs}
          /\ event' = [f \in Fds |-> IF f \in fs THEN "none" ELSE event[f]]
          /\ watchGen' = [f \in Fds |-> IF f \in fs THEN None ELSE watchGen[f]]
    /\ UNCHANGED <<kqueue, connVars, hungup, notified, hooks, nextGen>>

\* kevent: a batch of pending events; the registrations stay (EV_CLEAR).
Harvest ==
    /\ kqueue /\ batch = {}
    /\ \E fs \in SUBSET Pending :
          /\ Returned(fs)
          /\ batch' = {[fd |-> f, gen |-> watchGen[f], kind |-> event[f]] :
                          f \in fs}
          /\ event' = [f \in Fds |-> IF f \in fs THEN "none" ELSE event[f]]
    /\ UNCHANGED <<kqueue, connVars, hungup, notified, hooks, nextGen, watchGen>>

\* Mutant of Complete: the hook is found by the fd alone.
CompleteAny(e) ==
    /\ e \in batch
    /\ batch' = batch \ {e}
    /\ IF e.kind = "eof" /\ hooks[e.fd] # None
       THEN Notify({e.fd})
       ELSE UNCHANGED <<notified, hooks>>
    /\ UNCHANGED <<kqueue, connVars, hungup, nextGen, kernelVars>>

\* kqueue_thread looks at one event of the batch: an event that is no hangup,
\* or of another generation, is dropped.
Complete(e) ==
    /\ e \in batch
    /\ batch' = batch \ {e}
    /\ IF e.kind = "eof" /\ hooks[e.fd] = e.gen
       THEN Notify({e.fd})
       ELSE UNCHANGED <<notified, hooks>>
    /\ UNCHANGED <<kqueue, connVars, hungup, nextGen, kernelVars>>

-----------------------------------------------------------------------------
Watcher == EpollFire \/ Harvest \/ \E e \in batch : Complete(e)

Next ==
    \/ \E c \in Conns :
          \/ \E f \in Fds : WaitInsert(c, f)
          \/ WaitRegister(c) \/ WaitFails(c) \/ CloseFd(c) \/ DropGuard(c)
          \/ PeerHangup(c) \/ PeerData(c)
    \/ Watcher

Spec == Init /\ [][Next]_vars

\* The watcher task or thread runs, and wait() is finished by the worker.
FairSpec == Spec /\ WF_vars(Watcher)

-----------------------------------------------------------------------------
(* Properties.                                                             *)

Event == [fd : Fds, gen : Nat, kind : {"data", "eof"}]

\* Type invariant of the watcher.
TypeOK ==
    /\ kqueue \in BOOLEAN
    /\ stage \in [Conns -> {"new", "inserted", "served"}]
    /\ fdOf \in [Conns -> Fds \cup {None}]
    /\ guardFd \in [Conns -> Fds \cup {None}]
    /\ gen \in [Conns -> Nat \cup {None}]
    /\ hungup \subseteq Conns
    /\ notified \subseteq Conns
    /\ hooks \in [Fds -> Nat \cup {None}]
    /\ nextGen \in Nat
    /\ watchGen \in [Fds -> Nat \cup {None}]
    /\ event \in [Fds -> {"none", "data", "eof"}]
    /\ batch \subseteq Event

\* "An event harvested for a closed fd can never fire the hook of a newer
\* connection that recycled the same fd number" (hupwatch.rs:18-20): an open
\* connection is told so only if its own peer is gone.  The wait of one that
\* has closed its fd may also end because the fd is watched anew.
OnlyOwnHangup == \A c \in notified : c \in hungup \/ fdOf[c] = None

\* "A later wait() on a recycled fd number must not lose its own hook"
\* (hupwatch.rs:109-110): a connection that is open, guarded and not yet told
\* has its hook in the table.
HookKept ==
    \A c \in Conns :
        stage[c] # "new" /\ fdOf[c] # None /\ guardFd[c] # None /\ c \notin notified
            => hooks[fdOf[c]] = gen[c]

\* Hangup detection: a connection whose peer is gone is told, unless it
\* closes or stops waiting first.
HangupDelivered ==
    \A c \in Conns :
        stage[c] = "served" /\ c \in hungup
            ~> c \in notified \/ fdOf[c] = None \/ guardFd[c] = None
=============================================================================
