--------------------------- MODULE HupWatchProofs ---------------------------
(* Proofs about HupWatcher, for any connections and fd numbers, on both    *)
(* platforms.                                                              *)
EXTENDS HupWatch, TLAPS

\* Generations and open fds belong to one connection each.
Owners ==
    /\ \A c \in Conns : stage[c] = "new" => /\ fdOf[c] = None /\ guardFd[c] = None
                                          /\ gen[c] = None
    /\ \A c \in Conns : stage[c] # "new" => gen[c] \in Nat /\ gen[c] < nextGen
    /\ \A c, d \in Conns : gen[c] # None /\ gen[c] = gen[d] => c = d
    /\ \A c, d \in Conns : fdOf[c] # None /\ fdOf[c] = fdOf[d] => c = d
    /\ \A c \in Conns : stage[c] = "inserted" => fdOf[c] # None
    /\ \A c \in Conns : fdOf[c] # None /\ guardFd[c] # None => fdOf[c] = guardFd[c]

\* Hooks and registrations carry generations that were handed out; those of
\* an fd in use are its connection's.
Registered ==
    /\ \A f \in Fds : hooks[f] # None => hooks[f] < nextGen
    /\ \A f \in Fds : watchGen[f] # None => watchGen[f] < nextGen
    /\ \A c, d \in Conns : /\ fdOf[d] # None /\ gen[c] # None
                          /\ hooks[fdOf[d]] = gen[c] => c = d
    /\ \A c \in Conns : \A f \in Fds :
          gen[c] # None /\ watchGen[f] = gen[c] => fdOf[c] = f
    /\ \A f \in Fds : watchGen[f] # None => \E c \in Conns : fdOf[c] = f
    /\ \A c \in Conns : stage[c] = "inserted" => watchGen[fdOf[c]] = None

\* A hangup event, in the kernel or harvested, is about a connection whose
\* peer is gone; epoll reports nothing else.
Events ==
    /\ \A f \in Fds : event[f] # "none" => watchGen[f] # None
    /\ \A c \in Conns : fdOf[c] # None /\ event[fdOf[c]] = "eof" => c \in hungup
    /\ \A e \in batch : e.gen < nextGen
    /\ \A e \in batch : \A c \in Conns : e.kind = "eof" /\ gen[c] = e.gen => c \in hungup
    /\ ~kqueue => batch = {} /\ \A f \in Fds : event[f] # "data"

\* A connection yet to come is told nothing, and a hook that an open connection
\* has put in the table is the one of its fd.
Untold ==
    /\ \A c \in Conns : stage[c] = "new" => c \notin notified
    /\ \A c \in Conns : \A f \in Fds :
          gen[c] # None /\ hooks[f] = gen[c] => fdOf[c] \in {f, None}

\* The inductive invariant.
IInv == TypeOK /\ Owners /\ Registered /\ Events /\ Untold /\ OnlyOwnHangup /\ HookKept

\* Every step keeps the state well-typed.
LEMMA TypeStep == TypeOK /\ Owners /\ Events /\ [Next]_vars => TypeOK'
<1> SUFFICES ASSUME TypeOK, Owners, Events, [Next]_vars PROVE TypeOK'
  OBVIOUS
<1> USE NoneAssumption
<1> USE DEF TypeOK, connVars, kernelVars, RemoveHook, Notify
<1>1. ASSUME NEW c \in Conns, NEW f \in Fds, WaitInsert(c, f) PROVE TypeOK'
  BY <1>1 DEF WaitInsert
<1>2. ASSUME NEW c \in Conns, WaitRegister(c) PROVE TypeOK'
  BY <1>2 DEF WaitRegister, Owners
<1>3. ASSUME NEW c \in Conns, WaitFails(c) PROVE TypeOK'
  BY <1>3 DEF WaitFails, Owners
<1>4. ASSUME NEW c \in Conns, CloseFd(c) PROVE TypeOK'
  BY <1>4 DEF CloseFd
<1>5. ASSUME NEW c \in Conns, DropGuard(c) PROVE TypeOK'
  BY <1>5 DEF DropGuard
<1>6. ASSUME NEW c \in Conns, PeerHangup(c) PROVE TypeOK'
  BY <1>6 DEF PeerHangup
<1>7. ASSUME NEW c \in Conns, PeerData(c) PROVE TypeOK'
  BY <1>7 DEF PeerData
<1>8. ASSUME EpollFire PROVE TypeOK'
  BY <1>8 DEF EpollFire
<1>9. ASSUME Harvest PROVE TypeOK'
  <2> PICK fs \in SUBSET Pending :
          /\ batch' = {[fd |-> f, gen |-> watchGen[f], kind |-> event[f]] :
                          f \in fs}
          /\ event' = [f \in Fds |-> IF f \in fs THEN "none" ELSE event[f]]
    BY <1>9, Zenon DEF Harvest
  <2>1. \A f \in fs : f \in Fds /\ watchGen[f] \in Nat /\ event[f] # "none"
    BY DEF Pending, Events
  <2>2. batch' \subseteq Event
    BY <2>1 DEF Event
  <2>3. event' \in [Fds -> {"none", "data", "eof"}]
    OBVIOUS
  <2> QED
    BY <1>9, <2>2, <2>3 DEF Harvest
<1>10. ASSUME NEW e \in batch, Complete(e) PROVE TypeOK'
  BY <1>10 DEF Complete
<1>11. CASE UNCHANGED vars
  BY <1>11, SMTT(30) DEF vars
<1>12. QED
  BY <1>1, <1>2, <1>3, <1>4, <1>5, <1>6, <1>7, <1>8, <1>9, <1>10, <1>11 DEF
     Next, Watcher

\* Every step keeps generations and fds apart.
LEMMA OwnersStep == TypeOK /\ Owners /\ [Next]_vars => Owners'
<1> SUFFICES ASSUME TypeOK, Owners, [Next]_vars PROVE Owners'
  OBVIOUS
<1>0. /\ fdOf \in [Conns -> Fds \cup {None}] /\ guardFd \in [Conns -> Fds \cup {None}]
      /\ gen \in [Conns -> Nat \cup {None}] /\ nextGen \in Nat
      /\ stage \in [Conns -> {"new", "inserted", "served"}]
  BY DEF TypeOK
<1> USE <1>0, NoneAssumption
<1> USE DEF Owners, connVars
<1>1. ASSUME NEW c \in Conns, NEW f \in Fds, WaitInsert(c, f) PROVE Owners'
  BY <1>1 DEF WaitInsert
<1>2. ASSUME NEW c \in Conns, WaitRegister(c) PROVE Owners'
  BY <1>2 DEF WaitRegister
<1>3. ASSUME NEW c \in Conns, WaitFails(c) PROVE Owners'
  BY <1>3 DEF WaitFails
<1>4. ASSUME NEW c \in Conns, CloseFd(c) PROVE Owners'
  BY <1>4 DEF CloseFd
<1>5. ASSUME NEW c \in Conns, DropGuard(c) PROVE Owners'
  BY <1>5 DEF DropGuard
<1>6. ASSUME NEW c \in Conns, PeerHangup(c) PROVE Owners'
  BY <1>6 DEF PeerHangup
<1>7. ASSUME NEW c \in Conns, PeerData(c) PROVE Owners'
  BY <1>7 DEF PeerData
<1>8. ASSUME EpollFire PROVE Owners'
  BY <1>8 DEF EpollFire
<1>9. ASSUME Harvest PROVE Owners'
  BY <1>9 DEF Harvest
<1>10. ASSUME NEW e \in batch, Complete(e) PROVE Owners'
  BY <1>10 DEF Complete
<1>11. CASE UNCHANGED vars
  BY <1>11 DEF vars
<1>12. QED
  BY <1>1, <1>2, <1>3, <1>4, <1>5, <1>6, <1>7, <1>8, <1>9, <1>10, <1>11 DEF
     Next, Watcher

\* Every step keeps hooks and registrations with their connections.
LEMMA RegisteredStep ==
    TypeOK /\ Owners /\ Registered /\ [Next]_vars => Registered'
<1> SUFFICES ASSUME TypeOK, Owners, Registered, [Next]_vars PROVE Registered'
  OBVIOUS
<1>0. /\ fdOf \in [Conns -> Fds \cup {None}] /\ guardFd \in [Conns -> Fds \cup {None}]
      /\ gen \in [Conns -> Nat \cup {None}] /\ nextGen \in Nat
      /\ hooks \in [Fds -> Nat \cup {None}] /\ watchGen \in [Fds -> Nat \cup {None}]
      /\ stage \in [Conns -> {"new", "inserted", "served"}]
  BY DEF TypeOK
<1> USE <1>0, NoneAssumption
<1> USE DEF Owners, Registered, connVars, kernelVars, RemoveHook, Notify
<1>1. ASSUME NEW c \in Conns, NEW f \in Fds, WaitInsert(c, f) PROVE Registered'
  BY <1>1 DEF WaitInsert
<1>2. ASSUME NEW c \in Conns, WaitRegister(c) PROVE Registered'
  BY <1>2 DEF WaitRegister
<1>3. ASSUME NEW c \in Conns, WaitFails(c) PROVE Registered'
  BY <1>3 DEF WaitFails
<1>4. ASSUME NEW c \in Conns, CloseFd(c) PROVE Registered'
  BY <1>4 DEF CloseFd
<1>5. ASSUME NEW c \in Conns, DropGuard(c) PROVE Registered'
  BY <1>5 DEF DropGuard
<1>6. ASSUME NEW c \in Conns, PeerHangup(c) PROVE Registered'
  BY <1>6 DEF PeerHangup
<1>7. ASSUME NEW c \in Conns, PeerData(c) PROVE Registered'
  BY <1>7 DEF PeerData
<1>8. ASSUME EpollFire PROVE Registered'
  BY <1>8 DEF EpollFire
<1>9. ASSUME Harvest PROVE Registered'
  BY <1>9 DEF Harvest
<1>10. ASSUME NEW e \in batch, Complete(e) PROVE Registered'
  BY <1>10 DEF Complete
<1>11. CASE UNCHANGED vars
  BY <1>11, SMTT(30) DEF vars
<1>12. QED
  BY <1>1, <1>2, <1>3, <1>4, <1>5, <1>6, <1>7, <1>8, <1>9, <1>10, <1>11, Zenon DEF
     Next, Watcher

\* Every step keeps events about connections whose peer is gone.
LEMMA EventsStep ==
    TypeOK /\ Owners /\ Registered /\ Events /\ [Next]_vars => Events'
<1> SUFFICES ASSUME TypeOK, Owners, Registered, Events, [Next]_vars PROVE Events'
  OBVIOUS
<1>0. /\ fdOf \in [Conns -> Fds \cup {None}] /\ hungup \subseteq Conns
      /\ gen \in [Conns -> Nat \cup {None}] /\ nextGen \in Nat
      /\ event \in [Fds -> {"none", "data", "eof"}] /\ batch \subseteq Event
      /\ watchGen \in [Fds -> Nat \cup {None}]
  BY DEF TypeOK
<1> USE <1>0, NoneAssumption
<1> USE DEF Owners, Registered, Events, Event, connVars, kernelVars, Pending
<1>1. ASSUME NEW c \in Conns, NEW f \in Fds, WaitInsert(c, f) PROVE Events'
  BY <1>1 DEF WaitInsert
<1>2. ASSUME NEW c \in Conns, WaitRegister(c) PROVE Events'
  BY <1>2 DEF WaitRegister
<1>3. ASSUME NEW c \in Conns, WaitFails(c) PROVE Events'
  BY <1>3 DEF WaitFails
<1>4. ASSUME NEW c \in Conns, CloseFd(c) PROVE Events'
  BY <1>4 DEF CloseFd
<1>5. ASSUME NEW c \in Conns, DropGuard(c) PROVE Events'
  BY <1>5 DEF DropGuard
<1>6. ASSUME NEW c \in Conns, PeerHangup(c) PROVE Events'
  BY <1>6 DEF PeerHangup
<1>7. ASSUME NEW c \in Conns, PeerData(c) PROVE Events'
  BY <1>7 DEF PeerData
<1>8. ASSUME EpollFire PROVE Events'
  BY <1>8 DEF EpollFire
<1>9. ASSUME Harvest PROVE Events'
  <2> PICK fs \in SUBSET Pending :
          /\ batch' = {[fd |-> f, gen |-> watchGen[f], kind |-> event[f]] :
                          f \in fs}
          /\ event' = [f \in Fds |-> IF f \in fs THEN "none" ELSE event[f]]
    BY <1>9, Zenon DEF Harvest
  <2>1. \A f \in fs : f \in Fds /\ watchGen[f] \in Nat /\ event[f] # "none"
    BY DEF Pending, Events
  <2>2. \A e \in batch' : \E f \in fs : /\ e.gen = watchGen[f]
                                     /\ e.kind = event[f]
    OBVIOUS
  <2>3. \A e \in batch' : e.gen < nextGen
    BY <2>1, <2>2
  <2>4. \A e \in batch' : \A c \in Conns : e.kind = "eof" /\ gen[c] = e.gen => c \in hungup
    BY <2>1, <2>2
  <2>5. \A f \in Fds : event'[f] # "none" => event'[f] = event[f]
    OBVIOUS
  <2> QED
    BY <1>9, <2>3, <2>4, <2>5 DEF Harvest
<1>10. ASSUME NEW e \in batch, Complete(e) PROVE Events'
  BY <1>10 DEF Complete
<1>11. CASE UNCHANGED vars
  BY <1>11 DEF vars
<1>12. QED
  BY <1>1, <1>2, <1>3, <1>4, <1>5, <1>6, <1>7, <1>8, <1>9, <1>10, <1>11 DEF
     Next, Watcher

\* Every step leaves the connections to come untold and the hooks with their fds.
LEMMA UntoldStep == IInv /\ [Next]_vars => Untold'
<1> SUFFICES ASSUME IInv, [Next]_vars PROVE Untold'
  OBVIOUS
<1>0. /\ fdOf \in [Conns -> Fds \cup {None}] /\ notified \subseteq Conns
      /\ gen \in [Conns -> Nat \cup {None}] /\ nextGen \in Nat
      /\ hooks \in [Fds -> Nat \cup {None}] /\ batch \subseteq Event
      /\ stage \in [Conns -> {"new", "inserted", "served"}]
      /\ Owners /\ Untold /\ \A f \in Fds : hooks[f] # None => hooks[f] < nextGen
  BY DEF IInv, TypeOK, Registered
<1> USE <1>0, NoneAssumption
<1> USE DEF Owners, Untold, connVars, RemoveHook, Notify
<1>1. ASSUME NEW c \in Conns, NEW f \in Fds, WaitInsert(c, f) PROVE Untold'
  <2>1. \A d \in Conns : stage'[d] = "new" => d \notin notified'
    BY <1>1 DEF WaitInsert
  <2>2. \A d \in Conns : \A g \in Fds :
           gen'[d] # None /\ hooks'[g] = gen'[d] => fdOf'[d] \in {g, None}
    BY <1>1 DEF WaitInsert
  <2> QED
    BY <2>1, <2>2, Zenon
<1>2. ASSUME NEW c \in Conns, WaitRegister(c) PROVE Untold'
  BY <1>2 DEF WaitRegister
<1>3. ASSUME NEW c \in Conns, WaitFails(c) PROVE Untold'
  BY <1>3 DEF WaitFails
<1>4. ASSUME NEW c \in Conns, CloseFd(c) PROVE Untold'
  BY <1>4 DEF CloseFd
<1>5. ASSUME NEW c \in Conns, DropGuard(c) PROVE Untold'
  BY <1>5 DEF DropGuard
<1>6. ASSUME NEW c \in Conns, PeerHangup(c) PROVE Untold'
  BY <1>6 DEF PeerHangup
<1>7. ASSUME NEW c \in Conns, PeerData(c) PROVE Untold'
  BY <1>7 DEF PeerData
<1>8. ASSUME EpollFire PROVE Untold'
  BY <1>8 DEF EpollFire
<1>9. ASSUME Harvest PROVE Untold'
  BY <1>9 DEF Harvest
<1>10. ASSUME NEW e \in batch, Complete(e) PROVE Untold'
  BY <1>10 DEF Complete, Event
<1>11. CASE UNCHANGED vars
  BY <1>11 DEF vars
<1>12. QED
  BY <1>1, <1>2, <1>3, <1>4, <1>5, <1>6, <1>7, <1>8, <1>9, <1>10, <1>11, Zenon DEF
     Next, Watcher

\* Every step tells only connections whose own peer is gone, or that are closed.
LEMMA HangupStep == IInv /\ [Next]_vars => OnlyOwnHangup'
<1> SUFFICES ASSUME IInv, [Next]_vars PROVE OnlyOwnHangup'
  OBVIOUS
<1> USE NoneAssumption
<1> USE DEF OnlyOwnHangup, IInv
<1>1. ASSUME NEW c \in Conns, NEW f \in Fds, WaitInsert(c, f) PROVE OnlyOwnHangup'
  <2>1. /\ gen[c] = None /\ c \notin notified
        /\ \A d \in Conns : d # c => fdOf'[d] = fdOf[d]
        /\ \A d \in Conns : fdOf[d] # f
    BY <1>1 DEF WaitInsert, TypeOK, Untold, Owners
  <2>2. /\ notified' = notified \cup {d \in Conns : gen[d] # None /\ gen[d] = hooks[f]}
        /\ hungup' = hungup /\ notified \subseteq Conns
    BY <1>1 DEF WaitInsert, TypeOK
  <2>3. \A d \in Conns : gen[d] # None /\ gen[d] = hooks[f] => fdOf[d] = None
    BY <2>1 DEF Untold
  <2> QED
    BY <2>1, <2>2, <2>3, Zenon
<1>2. ASSUME NEW c \in Conns, WaitRegister(c) PROVE OnlyOwnHangup'
  BY <1>2 DEF WaitRegister
<1>3. ASSUME NEW c \in Conns, WaitFails(c) PROVE OnlyOwnHangup'
  BY <1>3 DEF WaitFails, TypeOK
<1>4. ASSUME NEW c \in Conns, CloseFd(c) PROVE OnlyOwnHangup'
  BY <1>4 DEF CloseFd, TypeOK
<1>5. ASSUME NEW c \in Conns, DropGuard(c) PROVE OnlyOwnHangup'
  BY <1>5 DEF DropGuard
<1>6. ASSUME NEW c \in Conns, PeerHangup(c) PROVE OnlyOwnHangup'
  BY <1>6 DEF PeerHangup, connVars
<1>7. ASSUME NEW c \in Conns, PeerData(c) PROVE OnlyOwnHangup'
  BY <1>7 DEF PeerData, connVars
<1>8. ASSUME EpollFire PROVE OnlyOwnHangup'
  BY <1>8, SMTT(30) DEF EpollFire, Notify, Pending, TypeOK, Registered, Events,
     connVars
<1>9. ASSUME Harvest PROVE OnlyOwnHangup'
  BY <1>9 DEF Harvest, connVars
<1>10. ASSUME NEW e \in batch, Complete(e) PROVE OnlyOwnHangup'
  BY <1>10 DEF Complete, Notify, TypeOK, Registered, Events, Event, connVars
<1>11. CASE UNCHANGED vars
  BY <1>11, Zenon DEF vars, connVars
<1>12. QED
  BY <1>1, <1>2, <1>3, <1>4, <1>5, <1>6, <1>7, <1>8, <1>9, <1>10, <1>11 DEF
     Next, Watcher

\* Every step keeps the hook of a waiting connection.
LEMMA HookStep == IInv /\ [Next]_vars => HookKept'
<1> SUFFICES ASSUME IInv, [Next]_vars PROVE HookKept'
  OBVIOUS
<1>0. /\ fdOf \in [Conns -> Fds \cup {None}] /\ guardFd \in [Conns -> Fds \cup {None}]
      /\ gen \in [Conns -> Nat \cup {None}] /\ nextGen \in Nat
      /\ hooks \in [Fds -> Nat \cup {None}]
      /\ stage \in [Conns -> {"new", "inserted", "served"}]
      /\ Owners /\ HookKept
  BY DEF IInv, TypeOK
<1> USE <1>0, NoneAssumption
<1> USE DEF Owners, HookKept, connVars, RemoveHook, Notify
<1>1. ASSUME NEW c \in Conns, NEW f \in Fds, WaitInsert(c, f) PROVE HookKept'
  BY <1>1 DEF WaitInsert
<1>2. ASSUME NEW c \in Conns, WaitRegister(c) PROVE HookKept'
  BY <1>2 DEF WaitRegister
<1>3. ASSUME NEW c \in Conns, WaitFails(c) PROVE HookKept'
  BY <1>3 DEF WaitFails
<1>4. ASSUME NEW c \in Conns, CloseFd(c) PROVE HookKept'
  BY <1>4 DEF CloseFd
<1>5. ASSUME NEW c \in Conns, DropGuard(c) PROVE HookKept'
  BY <1>5 DEF DropGuard
<1>6. ASSUME NEW c \in Conns, PeerHangup(c) PROVE HookKept'
  BY <1>6 DEF PeerHangup
<1>7. ASSUME NEW c \in Conns, PeerData(c) PROVE HookKept'
  BY <1>7 DEF PeerData
<1>8. ASSUME EpollFire PROVE HookKept'
  BY <1>8 DEF EpollFire
<1>9. ASSUME Harvest PROVE HookKept'
  BY <1>9 DEF Harvest
<1>10. ASSUME NEW e \in batch, Complete(e) PROVE HookKept'
  BY <1>10 DEF Complete
<1>11. CASE UNCHANGED vars
  BY <1>11 DEF vars
<1>12. QED
  BY <1>1, <1>2, <1>3, <1>4, <1>5, <1>6, <1>7, <1>8, <1>9, <1>10, <1>11 DEF
     Next, Watcher

\* The invariant holds before the first connection.
LEMMA IInvInit == Init => IInv
<1> SUFFICES ASSUME Init PROVE IInv
  OBVIOUS
<1>1. TypeOK
  BY DEF Init, TypeOK
<1>2. Owners /\ Registered /\ Events /\ Untold
  BY DEF Init, Owners, Registered, Events, Untold
<1>3. OnlyOwnHangup /\ HookKept
  BY DEF Init, OnlyOwnHangup, HookKept
<1> QED
  BY <1>1, <1>2, <1>3 DEF IInv

\* Every step keeps the invariant.
LEMMA IInvStep == IInv /\ [Next]_vars => IInv'
BY TypeStep, OwnersStep, RegisteredStep, EventsStep, UntoldStep, HangupStep,
   HookStep DEF IInv

\* Invariance of IInv.
LEMMA Invariance == Spec => []IInv
BY IInvInit, IInvStep, PTL DEF Spec

\* The hook table, the guards and the harvested events stay well-typed.
THEOREM TypeCorrect == Spec => []TypeOK
<1>1. IInv => TypeOK
  BY DEF IInv
<1> QED
  BY <1>1, Invariance, PTL

\* However fd numbers are recycled, an open connection is told of a hangup only if
\* its own peer is gone: on BSD by the generation check, on Linux because a
\* harvest and its completions are one step.
THEOREM OwnHangup == Spec => []OnlyOwnHangup
<1>1. IInv => OnlyOwnHangup
  BY DEF IInv
<1> QED
  BY <1>1, Invariance, PTL

\* However late an old guard is dropped, a waiting connection keeps its hook.
THEOREM HookSurvives == Spec => []HookKept
<1>1. IInv => HookKept
  BY DEF IInv
<1> QED
  BY <1>1, Invariance, PTL
=============================================================================
