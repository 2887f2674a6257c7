---------------------------- MODULE ReloadProofs ----------------------------
(* Proofs about the reload protocol, for every set of workers and bounds.  *)
EXTENDS Reload, SequenceTheorems, TLAPS

\* Pairs of versions and reload requests are well-typed componentwise.
LEMMA SitesType ==
    /\ \A a, b \in Nat : <<a, b>> \in Sites
    /\ \A p \in Sites : p[1] \in Nat /\ p[2] \in Nat /\ p = <<p[1], p[2]>>
BY DEF Sites, Version

\* Requests are records of a site and a reply.
LEMMA RequestType ==
    /\ NoRequest \in Request
    /\ \A p \in Sites, n \in Nat : [sites |-> p, reply |-> n] \in Request
    /\ \A r \in Request : r.sites \in Sites /\ r.reply \in Nat
    /\ \A r \in Request, p \in Sites :
          /\ [r EXCEPT !.sites = p] \in Request
          /\ [r EXCEPT !.sites = p].sites = p
          /\ [r EXCEPT !.sites = p].reply = r.reply
BY SitesType DEF Request, NoRequest, NoSites

\* The sites in SharedState and the staged ones are pairs of versions.
LEMMA CurrentSites ==
    TypeOK => /\ SharedSites \in Sites
              /\ StagedSites \in Sites
              /\ SharedSites[1] = shared.plugin
BY SitesType DEF TypeOK, Version, SharedSites, StagedSites

\* Initially the state is well-typed.
LEMMA TypeInit == Init => TypeOK
<1> SUFFICES ASSUME Init PROVE TypeOK
  OBVIOUS
<1>1. NoSites \in Sites /\ NoRequest \in Request
  BY SitesType, RequestType DEF NoSites
<1>2. <<>> \in Seq(Request)
  BY EmptySeq
<1> QED
  BY <1>1, <1>2, Zenon DEF Init, TypeOK, Version, CoordinatorPC, WorkerPC

\* Every step of the operator, the coordinator or a worker keeps the state
\* well-typed.
LEMMA TypeStep == TypeOK /\ [Next]_vars => TypeOK'
<1> SUFFICES ASSUME TypeOK, [Next]_vars PROVE TypeOK'
  OBVIOUS
<1> USE CanaryAssumption
<1> USE DEF TypeOK, Version, CoordinatorPC, WorkerPC, envVars, coordVars,
            workerVars, Abort, Answer
<1>1. CASE EditDisk
  BY <1>1 DEF EditDisk
<1>2. CASE Sighup
  BY <1>2 DEF Sighup
<1>3. CASE WriteSignalFile
  BY <1>3 DEF WriteSignalFile
<1>4. CASE LoadPlugins
  BY <1>4, Zenon DEF LoadPlugins
<1>5. CASE LoadSite
  BY <1>5, Zenon DEF LoadSite
<1>6. CASE LoadFails
  BY <1>6 DEF LoadFails
<1>7. CASE LoadTls
  <2>1. PICK ok \in BOOLEAN : staged' = [staged EXCEPT !.tls = disk, !.tlsOk = ok]
    BY <1>7, Zenon DEF LoadTls
  <2>2. staged' \in [plugin : Nat, site : Nat, tls : Nat, tlsOk : BOOLEAN]
    BY <2>1, Zenon
  <2> QED
    BY <2>2, <1>7 DEF LoadTls
<1>8. CASE SendCanary
  <2>1. [sites |-> StagedSites, reply |-> round] \in Request
    BY CurrentSites, RequestType
  <2>2. inbox' \in [Workers -> Seq(Request)]
    BY <2>1, <1>8, AppendProperties DEF SendCanary
  <2> QED
    BY <2>2, <1>8 DEF SendCanary
<1>9. CASE CanaryGone
  BY <1>9 DEF CanaryGone
<1>10. CASE CanaryOk
  BY <1>10 DEF CanaryOk
<1>11. CASE CanaryErr
  BY <1>11 DEF CanaryErr
<1>12. CASE CanaryTimeout
  BY <1>12 DEF CanaryTimeout
<1>13. CASE CommitPlugins
  BY <1>13, Zenon DEF CommitPlugins, Rest
<1>14. CASE CommitSite
  BY <1>14, Zenon DEF CommitSite
<1>15. CASE CommitTls
  BY <1>15, Zenon DEF CommitTls
<1>16. CASE RolledOut
  BY <1>16 DEF RolledOut
<1>17. ASSUME NEW readable \in BOOLEAN, Wake(readable) PROVE TypeOK'
  <2>1. lastFile' \in Contents \cup {NoFile}
    BY <1>17 DEF Wake
  <2>2. round' \in Nat
    BY <1>17 DEF Wake
  <2>3. hup' \in BOOLEAN
    BY <1>17, Zenon DEF Wake
  <2> QED
    BY <2>1, <2>2, <2>3, <1>17 DEF Wake
<1>18. ASSUME NEW w \in Workers, Notify(w) PROVE TypeOK'
  <2>1. [sites |-> StagedSites, reply |-> 0] \in Request
    BY CurrentSites, RequestType, Zenon
  <2>2. inbox' \in [Workers -> Seq(Request)]
    BY <2>1, <1>18, AppendProperties DEF Notify
  <2> QED
    BY <2>2, <1>18 DEF Notify
<1>19. ASSUME NEW w \in Workers, CollectPlugins(w) PROVE TypeOK'
  <2>1. <<shared.plugin, job[w].sites[2]>> \in Sites
    BY SitesType, RequestType, SMTT(30)
  <2>2. job' \in [Workers -> Request]
    BY <2>1, RequestType, <1>19, Zenon DEF CollectPlugins
  <2> QED
    BY <2>2, <1>19 DEF CollectPlugins
<1>20. ASSUME NEW w \in Workers, CollectSite(w) PROVE TypeOK'
  <2>1. <<job[w].sites[1], shared.site>> \in Sites
    BY SitesType, RequestType, SMTT(30)
  <2>2. job' \in [Workers -> Request]
    BY <2>1, RequestType, <1>20, Zenon DEF CollectSite
  <2> QED
    BY <2>2, <1>20 DEF CollectSite
<1>21. ASSUME NEW w \in Workers, Boot(w) PROVE TypeOK'
  BY <1>21, RequestType DEF Boot
<1>22. ASSUME NEW w \in Workers, Receive(w) PROVE TypeOK'
  <2>1. Head(inbox[w]) \in Request /\ Tail(inbox[w]) \in Seq(Request)
    BY <1>22, HeadTailProperties DEF Receive
  <2> QED
    BY <2>1, <1>22 DEF Receive
<1>23. ASSUME NEW w \in Workers, Compiled(w) PROVE TypeOK'
  BY <1>23, RequestType DEF Compiled
<1>24. ASSUME NEW w \in Workers, CompileFails(w) PROVE TypeOK'
  BY <1>24 DEF CompileFails
<1>25. ASSUME NEW w \in Workers, BootFails(w) PROVE TypeOK'
  <2>1. alive' \in BOOLEAN
    BY <1>25, Zenon DEF BootFails
  <2> QED
    BY <2>1, <1>25 DEF BootFails
<1>26. ASSUME NEW w \in Workers, Exit(w) PROVE TypeOK'
  BY <1>26 DEF Exit
<1>27. CASE UNCHANGED vars
  BY <1>27 DEF vars
<1>28. QED
  BY <1>1, <1>2, <1>3, <1>4, <1>5, <1>6, <1>7, <1>8, <1>9, <1>10, <1>11,
     <1>12, <1>13, <1>14, <1>15, <1>16, <1>17, <1>18, <1>19, <1>20, <1>21,
     <1>22, <1>23, <1>24, <1>25, <1>26, <1>27, ZenonT(30) DEF Next, Operator,
     Coordinator, WorkerStep

-----------------------------------------------------------------------------
\* What appending to and taking from a request queue does to its elements.
LEMMA QueueAppend ==
    ASSUME NEW q \in Seq(Request), NEW r \in Request
    PROVE  /\ Append(q, r) \in Seq(Request)
           /\ Append(q, r) # <<>>
           /\ Append(q, r)[Len(Append(q, r))] = r
           /\ Len(Append(q, r)) = Len(q) + 1
           /\ \A i \in 1..Len(Append(q, r)) :
                 \/ i \in 1..Len(q) /\ Append(q, r)[i] = q[i]
                 \/ Append(q, r)[i] = r
<1> DEFINE a == Append(q, r)
<1>1. /\ a \in Seq(Request) /\ Len(a) = Len(q) + 1 /\ Len(q) \in Nat
      /\ a[Len(q) + 1] = r
      /\ \A i \in 1..Len(q) : a[i] = q[i]
  BY AppendProperties, LenProperties
<1>2. \A i \in 1..Len(a) : i \in 1..Len(q) \/ i = Len(q) + 1
  BY <1>1
<1>3. a # <<>>
  BY <1>1, EmptySeq
<1> QED
  BY <1>1, <1>2, <1>3

\* What is queued is a request.
LEMMA QueueElem ==
    ASSUME NEW q \in Seq(Request), NEW i \in 1..Len(q)
    PROVE  q[i] \in Request
BY ElementOfSeq

\* Taking the first request off a queue that is not empty.
LEMMA QueueTake ==
    ASSUME NEW q \in Seq(Request), q # <<>>
    PROVE  /\ Head(q) \in Request
           /\ Tail(q) \in Seq(Request)
           /\ \A i \in 1..Len(Tail(q)) : \E j \in 1..Len(q) : Tail(q)[i] = q[j]
           /\ 1 \in 1..Len(q) /\ Head(q) = q[1]
           /\ Tail(q) # <<>> => Tail(q)[Len(Tail(q))] = q[Len(q)]
           /\ Tail(q) = <<>> => Head(q) = q[Len(q)]
<1> DEFINE r == Tail(q)
<1>1. /\ Head(q) \in Request /\ r \in Seq(Request)
      /\ Len(r) = Len(q) - 1
      /\ \A i \in 1..Len(r) : r[i] = q[i + 1]
  BY HeadTailProperties
<1>2. Len(q) \in Nat /\ Len(q) > 0 /\ Head(q) = q[1]
  BY LenProperties, EmptySeq
<1>3. r # <<>> => Len(r) > 0
  BY <1>1, LenProperties, EmptySeq
<1>4. r = <<>> => Len(q) = 1
  <2> HIDE DEF r
  <2> QED
    BY <1>1, <1>2, EmptySeq
<1> HIDE DEF r
<1>5. \A i \in 1..Len(r) : \E j \in 1..Len(q) : r[i] = q[j]
  <2> TAKE i \in 1..Len(r)
  <2>1. i + 1 \in 1..Len(q) /\ r[i] = q[i + 1]
    BY <1>1, <1>2
  <2> QED
    BY <2>1
<1>6. r # <<>> => r[Len(r)] = q[Len(q)]
  BY <1>1, <1>2, <1>3, SMTT(30)
<1> QED
  BY <1>1, <1>2, <1>4, <1>5, <1>6 DEF r

\* The commit stores exactly the staged sites, and starts from an empty to-do set.
LEMMA CommitStep == TypeOK /\ CommitInv /\ [Next]_vars => CommitInv'
<1> SUFFICES ASSUME TypeOK, CommitInv, [Next]_vars PROVE CommitInv'
  OBVIOUS
<1> USE CanaryAssumption
<1> USE DEF CommitInv, SharedSites, StagedSites, envVars, coordVars, workerVars, Abort, Answer
<1>1. CASE EditDisk
  BY <1>1 DEF EditDisk
<1>2. CASE Sighup
  BY <1>2 DEF Sighup
<1>3. CASE WriteSignalFile
  BY <1>3 DEF WriteSignalFile
<1>4. CASE LoadPlugins
  BY <1>4 DEF LoadPlugins
<1>5. CASE LoadSite
  BY <1>5 DEF LoadSite
<1>6. CASE LoadFails
  BY <1>6 DEF LoadFails
<1>7. CASE LoadTls
  BY <1>7 DEF LoadTls
<1>8. CASE SendCanary
  BY <1>8 DEF SendCanary
<1>9. CASE CanaryGone
  BY <1>9 DEF CanaryGone
<1>10. CASE CanaryOk
  BY <1>10 DEF CanaryOk
<1>11. CASE CanaryErr
  BY <1>11 DEF CanaryErr
<1>12. CASE CanaryTimeout
  BY <1>12 DEF CanaryTimeout
<1>13. CASE CommitPlugins
  BY <1>13 DEF CommitPlugins, TypeOK, Version
<1>14. CASE CommitSite
  BY <1>14 DEF CommitSite, TypeOK
<1>15. CASE CommitTls
  BY <1>15 DEF CommitTls, TypeOK
<1>16. CASE RolledOut
  BY <1>16 DEF RolledOut
<1>17. ASSUME NEW readable \in BOOLEAN, Wake(readable) PROVE CommitInv'
  BY <1>17 DEF Wake
<1>18. ASSUME NEW w \in Workers, Notify(w) PROVE CommitInv'
  BY <1>18 DEF Notify
<1>19. ASSUME NEW w \in Workers, CollectPlugins(w) PROVE CommitInv'
  BY <1>19 DEF CollectPlugins
<1>20. ASSUME NEW w \in Workers, CollectSite(w) PROVE CommitInv'
  BY <1>20 DEF CollectSite
<1>21. ASSUME NEW w \in Workers, Boot(w) PROVE CommitInv'
  BY <1>21 DEF Boot
<1>22. ASSUME NEW w \in Workers, Receive(w) PROVE CommitInv'
  BY <1>22 DEF Receive
<1>23. ASSUME NEW w \in Workers, Compiled(w) PROVE CommitInv'
  BY <1>23 DEF Compiled
<1>24. ASSUME NEW w \in Workers, CompileFails(w) PROVE CommitInv'
  BY <1>24 DEF CompileFails
<1>25. ASSUME NEW w \in Workers, BootFails(w) PROVE CommitInv'
  BY <1>25 DEF BootFails
<1>26. ASSUME NEW w \in Workers, Exit(w) PROVE CommitInv'
  BY <1>26 DEF Exit
<1>27. CASE UNCHANGED vars
  BY <1>27 DEF vars
<1>28. QED
  BY <1>1, <1>2, <1>3, <1>4, <1>5, <1>6, <1>7, <1>8, <1>9, <1>10, <1>11,
     <1>12, <1>13, <1>14, <1>15, <1>16, <1>17, <1>18, <1>19, <1>20, <1>21,
     <1>22, <1>23, <1>24, <1>25, <1>26, <1>27, SMTT(30) DEF Next, Operator,
     Coordinator, WorkerStep

\* A request queued for the canary carries the reply channel of its own reload:
\* only the request of the current reload can answer it.
LEMMA ChannelStep == TypeOK /\ ChannelInv /\ [Next]_vars => ChannelInv'
<1> SUFFICES ASSUME TypeOK, ChannelInv, [Next]_vars PROVE ChannelInv'
  OBVIOUS
<1> USE CanaryAssumption
<1> USE DEF TypeOK, ChannelInv, Fits, Loading, StagedSites, Rest, envVars, coordVars, workerVars, Abort, Answer
<1>1. CASE EditDisk
  BY <1>1 DEF EditDisk
<1>2. CASE Sighup
  BY <1>2 DEF Sighup
<1>3. CASE WriteSignalFile
  BY <1>3 DEF WriteSignalFile
<1>4. CASE LoadPlugins
  BY <1>4 DEF LoadPlugins
<1>5. CASE LoadSite
  BY <1>5 DEF LoadSite
<1>6. CASE LoadFails
  BY <1>6 DEF LoadFails
<1>7. CASE LoadTls
  BY <1>7 DEF LoadTls
<1>8. CASE SendCanary
  <2>1. [sites |-> StagedSites, reply |-> round] \in Request
    BY CurrentSites, RequestType, Zenon
  <2> DEFINE q == inbox[Canary]
             new == [sites |-> StagedSites, reply |-> round]
  <2>2. /\ inbox'[Canary] = Append(q, new) /\ pc' = "await"
        /\ round' = round /\ staged' = staged /\ job' = job /\ wpc' = wpc
        /\ \A v \in Rest : inbox'[v] = inbox[v]
    BY <1>8 DEF SendCanary
  <2>3. \A i \in 1..Len(q) : Fits(q[i]) /\ q[i].reply # round
    BY <1>8, QueueElem, RequestType, SMTT(30) DEF SendCanary
  <2>4. (\A i \in 1..Len(inbox[Canary]) : Fits(inbox[Canary][i]))'
    <3> SUFFICES ASSUME NEW i \in 1..Len(Append(q, new))
                 PROVE  Fits(inbox[Canary][i])'
      BY <2>2
    <3>1. CASE i \in 1..Len(q) /\ Append(q, new)[i] = q[i]
      BY <3>1, <2>2, <2>3
    <3>2. CASE Append(q, new)[i] = new
      BY <3>2, <2>2
    <3> QED
      BY <3>1, <3>2, <2>1, QueueAppend, SMTT(30)
  <2>5. Fits(job[Canary])'
    BY <2>2, <1>8, RequestType DEF SendCanary
  <2>6. round' > 0
    BY <2>2, <1>8 DEF SendCanary
  <2> QED
    BY <2>2, <2>4, <2>5, <2>6
<1>9. CASE CanaryGone
  BY <1>9 DEF CanaryGone
<1>10. CASE CanaryOk
  BY <1>10 DEF CanaryOk
<1>11. CASE CanaryErr
  BY <1>11 DEF CanaryErr
<1>12. CASE CanaryTimeout
  BY <1>12 DEF CanaryTimeout
<1>13. CASE CommitPlugins
  BY <1>13 DEF CommitPlugins
<1>14. CASE CommitSite
  BY <1>14 DEF CommitSite
<1>15. CASE CommitTls
  BY <1>15 DEF CommitTls
<1>16. CASE RolledOut
  BY <1>16 DEF RolledOut
<1>17. ASSUME NEW readable \in BOOLEAN, Wake(readable) PROVE ChannelInv'
  <2>1. round' = round + 1 /\ pc' = "loadPlugins"
    BY <1>17 DEF Wake
  <2>3. job' = job /\ inbox' = inbox /\ wpc' = wpc
    BY <1>17 DEF Wake
  <2>4. (\A i \in 1..Len(inbox[Canary]) : Fits(inbox[Canary][i]))'
    <3> SUFFICES ASSUME NEW i \in 1..Len(inbox[Canary])
                 PROVE  Fits(inbox[Canary][i])'
      BY <2>3
    <3>1. inbox[Canary][i] \in Request
      BY QueueElem
    <3>2. inbox[Canary][i].reply \in Nat /\ inbox[Canary][i].reply <= round
      BY <3>1, RequestType
    <3> QED
      BY <2>1, <2>3, <3>2, SMTT(30)
  <2>5. round' > 0
    BY <2>1
  <2>6. Fits(job[Canary])'
    BY <2>1, <2>3, RequestType, SMTT(30)
  <2> QED
    BY <2>3, <2>4, <2>5, <2>6, SMTT(30)
<1>18. ASSUME NEW w \in Workers, Notify(w) PROVE ChannelInv'
  <2>1. [sites |-> StagedSites, reply |-> 0] \in Request
    BY CurrentSites, RequestType, Zenon
  <2>2. \A v \in Rest : \A i \in 1..Len(inbox'[v]) : inbox'[v][i].reply = 0
    BY <2>1, <1>18, QueueAppend DEF Notify
  <2> QED
    BY <2>2, <1>18 DEF Notify
<1>19. ASSUME NEW w \in Workers, CollectPlugins(w) PROVE ChannelInv'
  <2>1. job[w].reply = 0 /\ job'[w].reply = 0
    BY <1>19, RequestType, SitesType, SMTT(30) DEF CollectPlugins
  <2>2. pc' = pc /\ round' = round /\ inbox' = inbox /\ staged' = staged
    BY <1>19 DEF CollectPlugins
  <2>3. Fits(job[Canary])'
    BY <2>1, <2>2, <1>19 DEF CollectPlugins
  <2> QED
    BY <2>1, <2>2, <2>3, <1>19 DEF CollectPlugins
<1>20. ASSUME NEW w \in Workers, CollectSite(w) PROVE ChannelInv'
  <2>1. job[w].reply = 0 /\ job'[w].reply = 0
    BY <1>20, RequestType, SitesType, SMTT(30) DEF CollectSite
  <2>2. pc' = pc /\ round' = round /\ inbox' = inbox /\ staged' = staged
    BY <1>20 DEF CollectSite
  <2>3. Fits(job[Canary])'
    BY <2>1, <2>2, <1>20, SMTT(30) DEF CollectSite
  <2> QED
    BY <2>1, <2>2, <2>3, <1>20 DEF CollectSite
<1>21. ASSUME NEW w \in Workers, Boot(w) PROVE ChannelInv'
  BY <1>21, SMTT(30) DEF Boot
<1>22. ASSUME NEW w \in Workers, Receive(w) PROVE ChannelInv'
  BY <1>22, QueueTake, SMTT(30) DEF Receive
<1>23. ASSUME NEW w \in Workers, Compiled(w) PROVE ChannelInv'
  BY <1>23, SMTT(30) DEF Compiled
<1>24. ASSUME NEW w \in Workers, CompileFails(w) PROVE ChannelInv'
  BY <1>24, SMTT(30) DEF CompileFails
<1>25. ASSUME NEW w \in Workers, BootFails(w) PROVE ChannelInv'
  BY <1>25, SMTT(30) DEF BootFails
<1>26. ASSUME NEW w \in Workers, Exit(w) PROVE ChannelInv'
  BY <1>26, SMTT(30) DEF Exit
<1>27. CASE UNCHANGED vars
  BY <1>27, SMTT(30) DEF vars
<1>28. QED
  BY <1>1, <1>2, <1>3, <1>4, <1>5, <1>6, <1>7, <1>8, <1>9, <1>10, <1>11,
     <1>12, <1>13, <1>14, <1>15, <1>16, <1>17, <1>18, <1>19, <1>20, <1>21,
     <1>22, <1>23, <1>24, <1>25, <1>26, <1>27, ZenonT(30) DEF Next, Operator,
     Coordinator, WorkerStep

\* When the current reload's channel holds an Ok, the canary compiled exactly the
\* staged sites.
LEMMA ValidatedStep == TypeOK /\ ChannelInv /\ ValidatedInv /\ [Next]_vars => ValidatedInv'
<1> SUFFICES ASSUME TypeOK, ChannelInv, ValidatedInv, [Next]_vars PROVE ValidatedInv'
  OBVIOUS
<1> USE CanaryAssumption
<1> USE DEF TypeOK, ValidatedInv, StagedSites, envVars, coordVars, workerVars, Abort, Answer
<1>1. CASE EditDisk
  BY <1>1 DEF EditDisk
<1>2. CASE Sighup
  BY <1>2 DEF Sighup
<1>3. CASE WriteSignalFile
  BY <1>3 DEF WriteSignalFile
<1>4. CASE LoadPlugins
  BY <1>4 DEF LoadPlugins
<1>5. CASE LoadSite
  BY <1>5 DEF LoadSite
<1>6. CASE LoadFails
  BY <1>6 DEF LoadFails
<1>7. CASE LoadTls
  BY <1>7 DEF LoadTls
<1>8. CASE SendCanary
  BY <1>8 DEF SendCanary
<1>9. CASE CanaryGone
  BY <1>9 DEF CanaryGone
<1>10. CASE CanaryOk
  BY <1>10 DEF CanaryOk
<1>11. CASE CanaryErr
  BY <1>11 DEF CanaryErr
<1>12. CASE CanaryTimeout
  BY <1>12 DEF CanaryTimeout
<1>13. CASE CommitPlugins
  BY <1>13 DEF CommitPlugins
<1>14. CASE CommitSite
  BY <1>14 DEF CommitSite
<1>15. CASE CommitTls
  BY <1>15 DEF CommitTls
<1>16. CASE RolledOut
  BY <1>16 DEF RolledOut
<1>17. ASSUME NEW readable \in BOOLEAN, Wake(readable) PROVE ValidatedInv'
  BY <1>17 DEF Wake
<1>18. ASSUME NEW w \in Workers, Notify(w) PROVE ValidatedInv'
  BY <1>18 DEF Notify
<1>19. ASSUME NEW w \in Workers, CollectPlugins(w) PROVE ValidatedInv'
  BY <1>19 DEF CollectPlugins
<1>20. ASSUME NEW w \in Workers, CollectSite(w) PROVE ValidatedInv'
  BY <1>20 DEF CollectSite
<1>21. ASSUME NEW w \in Workers, Boot(w) PROVE ValidatedInv'
  BY <1>21 DEF Boot
<1>22. ASSUME NEW w \in Workers, Receive(w) PROVE ValidatedInv'
  BY <1>22 DEF Receive
<1>23. ASSUME NEW w \in Workers, Compiled(w) PROVE ValidatedInv'
  <2>1. pc' = pc /\ staged' = staged /\ validated \subseteq validated'
    BY <1>23 DEF Compiled
  <2>2. ASSUME pc = "await", reply' = "ok", reply # "ok"
        PROVE  StagedSites \in validated'
    <3>1. job[w].reply = round
      BY <2>2, <1>23 DEF Compiled
    <3>2. w = Canary
      BY <3>1, <2>2 DEF ChannelInv, Rest
    <3>3. job[w].sites = StagedSites
      BY <3>1, <3>2, <2>2 DEF ChannelInv, Fits
    <3> QED
      BY <3>2, <3>3, <1>23 DEF Compiled
  <2> QED
    BY <2>1, <2>2
<1>24. ASSUME NEW w \in Workers, CompileFails(w) PROVE ValidatedInv'
  BY <1>24 DEF CompileFails
<1>25. ASSUME NEW w \in Workers, BootFails(w) PROVE ValidatedInv'
  BY <1>25 DEF BootFails
<1>26. ASSUME NEW w \in Workers, Exit(w) PROVE ValidatedInv'
  BY <1>26 DEF Exit
<1>27. CASE UNCHANGED vars
  BY <1>27 DEF vars
<1>28. QED
  BY <1>1, <1>2, <1>3, <1>4, <1>5, <1>6, <1>7, <1>8, <1>9, <1>10, <1>11,
     <1>12, <1>13, <1>14, <1>15, <1>16, <1>17, <1>18, <1>19, <1>20, <1>21,
     <1>22, <1>23, <1>24, <1>25, <1>26, <1>27, ZenonT(30) DEF Next, Operator,
     Coordinator, WorkerStep

\* Every store and every notification of a commit carries sites the canary
\* compiled.
LEMMA RolloutStep == TypeOK /\ ValidatedInv /\ CommitInv /\ RolloutIsValidated /\ [Next]_vars => RolloutIsValidated'
<1> SUFFICES ASSUME TypeOK, ValidatedInv, CommitInv, RolloutIsValidated, [Next]_vars PROVE RolloutIsValidated'
  OBVIOUS
<1> USE CanaryAssumption
<1> USE DEF TypeOK, RolloutIsValidated, SharedSites, StagedSites, Rest, envVars, coordVars, workerVars, Abort, Answer
<1>1. CASE EditDisk
  BY <1>1 DEF EditDisk
<1>2. CASE Sighup
  BY <1>2 DEF Sighup
<1>3. CASE WriteSignalFile
  BY <1>3 DEF WriteSignalFile
<1>4. CASE LoadPlugins
  BY <1>4 DEF LoadPlugins
<1>5. CASE LoadSite
  BY <1>5 DEF LoadSite
<1>6. CASE LoadFails
  BY <1>6 DEF LoadFails
<1>7. CASE LoadTls
  BY <1>7, SMTT(30) DEF LoadTls
<1>8. CASE SendCanary
  <2>1. \A v \in Rest : inbox'[v] = inbox[v]
    BY <1>8 DEF SendCanary
  <2> QED
    BY <2>1, <1>8 DEF SendCanary
<1>9. CASE CanaryGone
  BY <1>9 DEF CanaryGone
<1>10. CASE CanaryOk
  BY <1>10 DEF CanaryOk
<1>11. CASE CanaryErr
  BY <1>11 DEF CanaryErr
<1>12. CASE CanaryTimeout
  BY <1>12 DEF CanaryTimeout
<1>13. CASE CommitPlugins
  BY <1>13 DEF CommitPlugins
<1>14. CASE CommitSite
  BY <1>14, ZenonT(30) DEF CommitSite, CommitInv, ValidatedInv, Version
<1>15. CASE CommitTls
  BY <1>15 DEF CommitTls
<1>16. CASE RolledOut
  BY <1>16 DEF RolledOut
<1>17. ASSUME NEW readable \in BOOLEAN, Wake(readable) PROVE RolloutIsValidated'
  BY <1>17 DEF Wake
<1>18. ASSUME NEW w \in Workers, Notify(w) PROVE RolloutIsValidated'
  <2> DEFINE new == [sites |-> StagedSites, reply |-> 0]
  <2>1. new \in Request /\ new.sites \in validated
    BY CurrentSites, RequestType, <1>18, Zenon DEF Notify, ValidatedInv
  <2>2. \A v \in Rest : inbox'[v] = inbox[v] \/ inbox'[v] = Append(inbox[v], new)
    BY <1>18 DEF Notify
  <2> HIDE DEF new
  <2>3. \A v \in Rest : \A i \in 1..Len(inbox'[v]) : inbox'[v][i].sites \in validated
    <3> TAKE v \in Rest
    <3>1. CASE inbox'[v] = inbox[v]
      BY <3>1
    <3>2. CASE inbox'[v] = Append(inbox[v], new)
      <4> TAKE i \in 1..Len(inbox'[v])
      <4>1. \/ i \in 1..Len(inbox[v]) /\ inbox'[v][i] = inbox[v][i]
            \/ inbox'[v][i] = new
        BY <3>2, <2>1, QueueAppend
      <4> QED
        BY <4>1, <2>1
    <3> QED
      BY <3>1, <3>2, <2>2
  <2> QED
    BY <2>3, <1>18, Zenon DEF Notify
<1>19. ASSUME NEW w \in Workers, CollectPlugins(w) PROVE RolloutIsValidated'
  BY <1>19 DEF CollectPlugins
<1>20. ASSUME NEW w \in Workers, CollectSite(w) PROVE RolloutIsValidated'
  BY <1>20, SMTT(30) DEF CollectSite
<1>21. ASSUME NEW w \in Workers, Boot(w) PROVE RolloutIsValidated'
  BY <1>21, SMTT(30) DEF Boot
<1>22. ASSUME NEW w \in Workers, Receive(w) PROVE RolloutIsValidated'
  <2>1. \A v \in Rest :
           /\ inbox'[v] = inbox[v] \/ (v = w /\ inbox'[v] = Tail(inbox[v]))
           /\ job'[v] = job[v] \/ (v = w /\ job'[v] = Head(inbox[v]))
    BY <1>22, SMTT(30) DEF Receive
  <2>2. w \in Rest => Head(inbox[w]).sites \in validated
    BY <1>22, QueueTake, SMTT(30) DEF Receive
  <2>3. \A v \in Rest : \A i \in 1..Len(inbox'[v]) : inbox'[v][i].sites \in validated
    BY <2>1, <1>22, QueueTake, SMTT(30) DEF Receive
  <2> QED
    BY <2>1, <2>2, <2>3, <1>22, SMTT(30) DEF Receive
<1>23. ASSUME NEW w \in Workers, Compiled(w) PROVE RolloutIsValidated'
  BY <1>23, SMTT(30) DEF Compiled
<1>24. ASSUME NEW w \in Workers, CompileFails(w) PROVE RolloutIsValidated'
  BY <1>24, SMTT(30) DEF CompileFails
<1>25. ASSUME NEW w \in Workers, BootFails(w) PROVE RolloutIsValidated'
  BY <1>25, SMTT(30) DEF BootFails
<1>26. ASSUME NEW w \in Workers, Exit(w) PROVE RolloutIsValidated'
  <2>1. \A v \in Rest : inbox'[v] = inbox[v] \/ inbox'[v] = <<>>
    BY <1>26, SMTT(30) DEF Exit
  <2>2. \A v \in Rest : \A i \in 1..Len(inbox'[v]) : inbox'[v][i].sites \in validated
    BY <2>1, EmptySeq, SMTT(30)
  <2> QED
    BY <2>2, <1>26, SMTT(30) DEF Exit
<1>27. CASE UNCHANGED vars
  BY <1>27 DEF vars
<1>28. QED
  BY <1>1, <1>2, <1>3, <1>4, <1>5, <1>6, <1>7, <1>8, <1>9, <1>10, <1>11,
     <1>12, <1>13, <1>14, <1>15, <1>16, <1>17, <1>18, <1>19, <1>20, <1>21,
     <1>22, <1>23, <1>24, <1>25, <1>26, <1>27, ZenonT(30) DEF Next, Operator,
     Coordinator, WorkerStep

\* A step that touches only worker w keeps FollowInv if it keeps what w follows.
LEMMA FollowFrame ==
    ASSUME FollowInv, NEW w \in Workers,
           pc' = pc, todo' = todo, shared' = shared, staged' = staged,
           outcome' = outcome,
           \A v \in Workers \ {w} :
               /\ inbox'[v] = inbox[v] /\ wpc'[v] = wpc[v] /\ job'[v] = job[v]
               /\ scripts'[v] = scripts[v] /\ failed'[v] = failed[v],
           Follows(w, SharedSites) => Follows(w, SharedSites)',
           w = Canary /\ Rolling =>
               /\ Follows(Canary, StagedSites)'
               /\ \/ inbox'[Canary] # <<>>
                  \/ wpc'[Canary] \in {"idle", "compile", "exited"}
    PROVE  FollowInv'
<1>1. /\ SharedSites' = SharedSites /\ StagedSites' = StagedSites
      /\ Rolling' = Rolling
  BY DEF SharedSites, StagedSites, Rolling
<1>2. \A v \in Workers \ {w} :
        Follows(v, SharedSites) => Follows(v, SharedSites)'
  BY <1>1, ZenonT(30) DEF Follows
<1>3. Canary # w => (Follows(Canary, StagedSites) => Follows(Canary, StagedSites)')
  BY <1>1, CanaryAssumption, Zenon DEF Follows
<1>4. \A v \in (Rest \ todo)' : Follows(v, SharedSites)'
  BY <1>2 DEF FollowInv, Rest
<1>5. (~Rolling /\ outcome # "aborted")' => Follows(Canary, SharedSites)'
  BY <1>1, <1>2, CanaryAssumption DEF FollowInv
<1>6. Rolling' => /\ Follows(Canary, StagedSites)'
                  /\ \/ inbox'[Canary] # <<>>
                     \/ wpc'[Canary] \in {"idle", "compile", "exited"}
  BY <1>1, <1>3, CanaryAssumption, SMTT(30) DEF FollowInv
<1> QED
  BY <1>4, <1>5, <1>6, ZenonT(30) DEF FollowInv

\* A step that leaves the workers alone keeps what each of them follows.
LEMMA FollowIdle ==
    ASSUME UNCHANGED <<inbox, workerVars>>, NEW v \in Workers, NEW p
    PROVE  Follows(v, p) <=> Follows(v, p)'
BY DEF Follows, workerVars

\* The last request of every worker is for the committed sites (for the canary,
\* during a rollout, for the staged ones).
LEMMA FollowStep == TypeOK /\ CommitInv /\ FollowInv /\ [Next]_vars => FollowInv'
<1> SUFFICES ASSUME TypeOK, CommitInv, FollowInv, [Next]_vars PROVE FollowInv'
  OBVIOUS
<1>0. /\ inbox \in [Workers -> Seq(Request)] /\ job \in [Workers -> Request]
      /\ wpc \in [Workers -> WorkerPC] /\ scripts \in [Workers -> Sites]
      /\ failed \in [Workers -> BOOLEAN] /\ todo \subseteq Rest
      /\ shared.plugin \in Nat /\ shared.site \in Nat
  BY DEF TypeOK, Version
<1> USE <1>0, CanaryAssumption
<1> USE DEF envVars, coordVars, workerVars, Abort, Answer
<1>1. CASE EditDisk
  <2>1. UNCHANGED <<inbox, workerVars>>
    BY <1>1, SMTT(30) DEF EditDisk
  <2>2. \A v \in Workers : /\ Follows(v, SharedSites) => Follows(v, SharedSites)'
                           /\ Follows(v, StagedSites) => Follows(v, StagedSites)'
    BY <2>1, <1>1, Zenon DEF EditDisk, Follows, SharedSites, StagedSites
  <2> QED
    BY <2>1, <2>2, <1>1 DEF EditDisk, FollowInv, Rolling, Rest, workerVars
<1>2. CASE Sighup
  <2>1. UNCHANGED <<inbox, workerVars>>
    BY <1>2 DEF Sighup
  <2>2. \A v \in Workers : /\ Follows(v, SharedSites) => Follows(v, SharedSites)'
                           /\ Follows(v, StagedSites) => Follows(v, StagedSites)'
    BY <2>1, <1>2, Zenon DEF Sighup, Follows, SharedSites, StagedSites
  <2> QED
    BY <2>1, <2>2, <1>2 DEF Sighup, FollowInv, Rolling, Rest, workerVars
<1>3. CASE WriteSignalFile
  <2>1. UNCHANGED <<inbox, workerVars>>
    BY <1>3 DEF WriteSignalFile
  <2>2. \A v \in Workers : /\ Follows(v, SharedSites) => Follows(v, SharedSites)'
                           /\ Follows(v, StagedSites) => Follows(v, StagedSites)'
    BY <2>1, <1>3, Zenon DEF WriteSignalFile, Follows, SharedSites, StagedSites
  <2> QED
    BY <2>1, <2>2, <1>3 DEF WriteSignalFile, FollowInv, Rolling, Rest, workerVars
<1>4. CASE LoadPlugins
  <2>1. UNCHANGED <<inbox, workerVars>>
    BY <1>4 DEF LoadPlugins
  <2>2. \A v \in Workers : /\ Follows(v, SharedSites) => Follows(v, SharedSites)'
    BY <2>1, <1>4 DEF LoadPlugins, Follows, SharedSites, StagedSites
  <2> QED
    BY <2>1, <2>2, <1>4 DEF LoadPlugins, FollowInv, Rolling, Rest, workerVars
<1>5. CASE LoadSite
  <2>1. UNCHANGED <<inbox, workerVars>>
    BY <1>5 DEF LoadSite
  <2>2. \A v \in Workers : /\ Follows(v, SharedSites) => Follows(v, SharedSites)'
    BY <2>1, <1>5 DEF LoadSite, Follows, SharedSites, StagedSites
  <2> QED
    BY <2>1, <2>2, <1>5 DEF LoadSite, FollowInv, Rolling, Rest, workerVars
<1>6. CASE LoadFails
  <2>1. UNCHANGED <<inbox, workerVars>>
    BY <1>6 DEF LoadFails
  <2>2. \A v \in Workers : /\ Follows(v, SharedSites) => Follows(v, SharedSites)'
                           /\ Follows(v, StagedSites) => Follows(v, StagedSites)'
    BY <2>1, <1>6, Zenon DEF LoadFails, Follows, SharedSites, StagedSites
  <2> QED
    BY <2>1, <2>2, <1>6 DEF LoadFails, FollowInv, Rolling, Rest, workerVars
<1>7. CASE LoadTls
  <2>1. UNCHANGED <<inbox, workerVars>>
    BY <1>7 DEF LoadTls
  <2>2. \A v \in Workers : /\ Follows(v, SharedSites) => Follows(v, SharedSites)'
    BY <2>1, <1>7 DEF LoadTls, Follows, SharedSites, StagedSites
  <2> QED
    BY <2>1, <2>2, <1>7 DEF LoadTls, FollowInv, Rolling, Rest, workerVars
<1>8. CASE SendCanary
  <2> DEFINE new == [sites |-> StagedSites, reply |-> round]
  <2>1. new \in Request /\ new.sites = StagedSites
    BY CurrentSites, RequestType DEF TypeOK
  <2>2. /\ inbox'[Canary] = Append(inbox[Canary], new)
        /\ inbox[Canary] \in Seq(Request)
        /\ StagedSites' = StagedSites /\ SharedSites' = SharedSites
        /\ Rolling' /\ todo' = todo
    BY <1>8 DEF SendCanary, StagedSites, SharedSites, Rolling
  <2> HIDE DEF new
  <2>3. /\ inbox'[Canary] # <<>>
        /\ inbox'[Canary][Len(inbox'[Canary])] = new
    BY <2>1, <2>2, QueueAppend, SMTT(30)
  <2>4. Follows(Canary, StagedSites)'
    BY <2>1, <2>2, <2>3 DEF Follows
  <2>5. \A v \in Rest : inbox'[v] = inbox[v]
    BY <1>8 DEF SendCanary, Rest
  <2>6. \A v \in Rest : Follows(v, SharedSites) => Follows(v, SharedSites)'
    BY <2>2, <2>5, <1>8, Zenon DEF SendCanary, Follows
  <2>7. \A v \in (Rest \ todo)' : Follows(v, SharedSites)'
    BY <2>2, <2>6 DEF FollowInv, Rest
  <2> QED
    BY <2>2, <2>3, <2>4, <2>7, Zenon DEF FollowInv
<1>9. CASE CanaryGone
  <2>1. UNCHANGED <<inbox, workerVars>>
    BY <1>9 DEF CanaryGone
  <2>2. \A v \in Workers : /\ Follows(v, SharedSites) => Follows(v, SharedSites)'
                           /\ Follows(v, StagedSites) => Follows(v, StagedSites)'
    BY <2>1, <1>9, Zenon DEF CanaryGone, Follows, SharedSites, StagedSites
  <2> QED
    BY <2>1, <2>2, <1>9 DEF CanaryGone, FollowInv, Rolling, Rest, workerVars
<1>10. CASE CanaryOk
  <2>1. UNCHANGED <<inbox, workerVars>>
    BY <1>10 DEF CanaryOk
  <2>2. \A v \in Workers : /\ Follows(v, SharedSites) => Follows(v, SharedSites)'
                           /\ Follows(v, StagedSites) => Follows(v, StagedSites)'
    BY <2>1, <1>10, Zenon DEF CanaryOk, Follows, SharedSites, StagedSites
  <2> QED
    BY <2>1, <2>2, <1>10 DEF CanaryOk, FollowInv, Rolling, Rest, workerVars
<1>11. CASE CanaryErr
  <2>1. UNCHANGED <<inbox, workerVars>>
    BY <1>11 DEF CanaryErr
  <2>2. \A v \in Workers : /\ Follows(v, SharedSites) => Follows(v, SharedSites)'
                           /\ Follows(v, StagedSites) => Follows(v, StagedSites)'
    BY <2>1, <1>11, Zenon DEF CanaryErr, Follows, SharedSites, StagedSites
  <2> QED
    BY <2>1, <2>2, <1>11 DEF CanaryErr, FollowInv, Rolling, Rest, workerVars
<1>12. CASE CanaryTimeout
  <2>1. UNCHANGED <<inbox, workerVars>>
    BY <1>12 DEF CanaryTimeout
  <2>2. \A v \in Workers : /\ Follows(v, SharedSites) => Follows(v, SharedSites)'
                           /\ Follows(v, StagedSites) => Follows(v, StagedSites)'
    BY <2>1, <1>12, Zenon DEF CanaryTimeout, Follows, SharedSites, StagedSites
  <2> QED
    BY <2>1, <2>2, <1>12 DEF CanaryTimeout, FollowInv, Rolling, Rest, workerVars
<1>13. CASE CommitPlugins
  <2>1. UNCHANGED <<inbox, workerVars>>
    BY <1>13 DEF CommitPlugins
  <2>2. Follows(Canary, StagedSites) => Follows(Canary, StagedSites)'
    BY <2>1, <1>13 DEF CommitPlugins, Follows, StagedSites
  <2> QED
    BY <2>1, <2>2, <1>13 DEF CommitPlugins, FollowInv, Rolling, Rest, workerVars
<1>14. CASE CommitSite
  <2>1. UNCHANGED <<inbox, workerVars>> /\ todo = Rest
    BY <1>14 DEF CommitSite, CommitInv
  <2>2. Follows(Canary, StagedSites) => Follows(Canary, StagedSites)'
    BY <2>1, <1>14 DEF CommitSite, Follows, StagedSites
  <2> QED
    BY <2>1, <2>2, <1>14 DEF CommitSite, FollowInv, Rolling, Rest, workerVars
<1>15. CASE CommitTls
  <2>1. UNCHANGED <<inbox, workerVars>> /\ todo = Rest
    BY <1>15 DEF CommitTls, CommitInv
  <2>2. Follows(Canary, StagedSites) => Follows(Canary, StagedSites)'
    BY <2>1, <1>15 DEF CommitTls, Follows, StagedSites
  <2> QED
    BY <2>1, <2>2, <1>15 DEF CommitTls, FollowInv, Rolling, Rest, workerVars
<1>16. CASE RolledOut
  <2>1. UNCHANGED <<inbox, workerVars>>
    BY <1>16 DEF RolledOut
  <2>2. SharedSites = StagedSites /\ SharedSites' = SharedSites
    BY <1>16 DEF RolledOut, CommitInv, SharedSites
  <2>3. \A v \in Workers : Follows(v, SharedSites) => Follows(v, SharedSites)'
    BY <2>1, <2>2, Zenon DEF Follows
  <2> QED
    BY <2>1, <2>2, <2>3, <1>16 DEF RolledOut, FollowInv, Rolling, Rest
<1>17. ASSUME NEW readable \in BOOLEAN, Wake(readable) PROVE FollowInv'
  <2>1. UNCHANGED <<inbox, workerVars>>
    BY <1>17 DEF Wake
  <2>2. \A v \in Workers : /\ Follows(v, SharedSites) => Follows(v, SharedSites)'
                           /\ Follows(v, StagedSites) => Follows(v, StagedSites)'
    BY <2>1, <1>17, ZenonT(30) DEF Wake, Follows, SharedSites, StagedSites
  <2> QED
    BY <2>1, <2>2, <1>17 DEF Wake, FollowInv, Rolling, Rest, workerVars
<1>18. ASSUME NEW w \in Workers, Notify(w) PROVE FollowInv'
  <2> DEFINE new == [sites |-> StagedSites, reply |-> 0]
  <2>1. /\ new \in Request /\ new.sites = SharedSites
        /\ inbox[w] \in Seq(Request)
    BY CurrentSites, RequestType, <1>18, Zenon DEF Notify, CommitInv
  <2>2. \A v \in Workers \ {w} : inbox'[v] = inbox[v]
    BY <1>18 DEF Notify
  <2>3. /\ w # Canary /\ pc' = pc /\ todo' = todo \ {w}
        /\ SharedSites' = SharedSites /\ StagedSites' = StagedSites
        /\ outcome' = outcome
        /\ Rolling' = Rolling /\ UNCHANGED <<wpc, job, scripts, failed>>
    BY <1>18 DEF Notify, Rest, SharedSites, StagedSites, Rolling
  <2>4. wpc[w] = "exited" \/ inbox'[w] = Append(inbox[w], new)
    BY <1>18 DEF Notify
  <2> HIDE DEF new
  <2>5. \/ wpc[w] = "exited"
        \/ inbox'[w] # <<>> /\ inbox'[w][Len(inbox'[w])] = new
    BY <2>1, <2>4, QueueAppend
  <2>6. Follows(w, SharedSites)'
    BY <2>1, <2>3, <2>5, SMTT(30) DEF Follows
  <2>7. \A v \in Workers \ {w} :
          /\ Follows(v, SharedSites) => Follows(v, SharedSites)'
          /\ Follows(v, StagedSites) => Follows(v, StagedSites)'
    BY <2>2, <2>3 DEF Follows
  <2>8. \A v \in (Rest \ todo)' : Follows(v, SharedSites)'
    BY <2>3, <2>6, <2>7 DEF FollowInv, Rest
  <2> QED
    BY <2>2, <2>3, <2>7, <2>8, Zenon DEF FollowInv
<1>19. ASSUME NEW w \in Workers, CollectPlugins(w) PROVE FollowInv'
  <2>1. /\ pc' = pc /\ todo' = todo /\ shared' = shared /\ staged' = staged
        /\ outcome' = outcome
        /\ \A v \in Workers \ {w} :
              /\ inbox'[v] = inbox[v] /\ wpc'[v] = wpc[v] /\ job'[v] = job[v]
              /\ scripts'[v] = scripts[v] /\ failed'[v] = failed[v]
    BY <1>19 DEF CollectPlugins
  <2>0. job'[w].sites[1] = shared.plugin
    BY <1>19, RequestType, SitesType DEF CollectPlugins
  <2>2. Follows(w, SharedSites) => Follows(w, SharedSites)'
    BY <1>19, <2>0, SMTT(30) DEF CollectPlugins, Follows, SharedSites
  <2>3. w = Canary /\ Rolling =>
            /\ Follows(Canary, StagedSites)'
            /\ \/ inbox'[Canary] # <<>>
               \/ wpc'[Canary] \in {"idle", "compile", "exited"}
    BY <1>19, <2>0 DEF CollectPlugins, Follows, FollowInv, StagedSites
  <2> QED
    BY <2>1, <2>2, <2>3, FollowFrame, Zenon
<1>20. ASSUME NEW w \in Workers, CollectSite(w) PROVE FollowInv'
  <2>1. /\ pc' = pc /\ todo' = todo /\ shared' = shared /\ staged' = staged
        /\ outcome' = outcome
        /\ \A v \in Workers \ {w} :
              /\ inbox'[v] = inbox[v] /\ wpc'[v] = wpc[v] /\ job'[v] = job[v]
              /\ scripts'[v] = scripts[v] /\ failed'[v] = failed[v]
    BY <1>20 DEF CollectSite
  <2>0. job'[w].sites = <<job[w].sites[1], shared.site>>
    BY <1>20, RequestType, SitesType DEF CollectSite
  <2>2. Follows(w, SharedSites) => Follows(w, SharedSites)'
    BY <1>20, <2>0 DEF CollectSite, Follows, SharedSites
  <2>3. w = Canary /\ Rolling =>
            /\ Follows(Canary, StagedSites)'
            /\ \/ inbox'[Canary] # <<>>
               \/ wpc'[Canary] \in {"idle", "compile", "exited"}
    BY <1>20, <2>0, SMTT(30) DEF CollectSite, Follows, FollowInv, StagedSites
  <2> QED
    BY <2>1, <2>2, <2>3, FollowFrame, ZenonT(30)
<1>21. ASSUME NEW w \in Workers, Boot(w) PROVE FollowInv'
  <2>1. /\ pc' = pc /\ todo' = todo /\ shared' = shared /\ staged' = staged
        /\ outcome' = outcome
        /\ \A v \in Workers \ {w} :
              /\ inbox'[v] = inbox[v] /\ wpc'[v] = wpc[v] /\ job'[v] = job[v]
              /\ scripts'[v] = scripts[v] /\ failed'[v] = failed[v]
    BY <1>21, SMTT(30) DEF Boot
  <2>2. Follows(w, SharedSites) => Follows(w, SharedSites)'
    BY <1>21 DEF Boot, Follows, SharedSites
  <2>3. w = Canary /\ Rolling =>
            /\ Follows(Canary, StagedSites)'
            /\ \/ inbox'[Canary] # <<>>
               \/ wpc'[Canary] \in {"idle", "compile", "exited"}
    BY <1>21, ZenonT(30) DEF Boot, Follows, FollowInv, StagedSites
  <2> QED
    BY <2>1, <2>2, <2>3, FollowFrame, ZenonT(30)
<1>22. ASSUME NEW w \in Workers, Receive(w) PROVE FollowInv'
  <2>1. /\ pc' = pc /\ todo' = todo /\ shared' = shared /\ staged' = staged
        /\ outcome' = outcome
        /\ \A v \in Workers \ {w} :
              /\ inbox'[v] = inbox[v] /\ wpc'[v] = wpc[v] /\ job'[v] = job[v]
              /\ scripts'[v] = scripts[v] /\ failed'[v] = failed[v]
    BY <1>22 DEF Receive
  <2>0. /\ inbox'[w] = Tail(inbox[w]) /\ job'[w] = Head(inbox[w])
        /\ inbox'[w] # <<>> =>
              inbox'[w][Len(inbox'[w])] = inbox[w][Len(inbox[w])]
        /\ inbox'[w] = <<>> => job'[w] = inbox[w][Len(inbox[w])]
    BY <1>22, QueueTake, Zenon DEF Receive
  <2>2. Follows(w, SharedSites) => Follows(w, SharedSites)'
    BY <1>22, <2>0, Zenon DEF Receive, Follows, SharedSites
  <2>3. w = Canary /\ Rolling =>
            /\ Follows(Canary, StagedSites)'
            /\ \/ inbox'[Canary] # <<>>
               \/ wpc'[Canary] \in {"idle", "compile", "exited"}
    BY <1>22, <2>0, ZenonT(30) DEF Receive, Follows, FollowInv, StagedSites
  <2> QED
    BY <2>1, <2>2, <2>3, FollowFrame, ZenonT(30)
<1>23. ASSUME NEW w \in Workers, Compiled(w) PROVE FollowInv'
  <2>1. /\ pc' = pc /\ todo' = todo /\ shared' = shared /\ staged' = staged
        /\ outcome' = outcome
        /\ \A v \in Workers \ {w} :
              /\ inbox'[v] = inbox[v] /\ wpc'[v] = wpc[v] /\ job'[v] = job[v]
              /\ scripts'[v] = scripts[v] /\ failed'[v] = failed[v]
    BY <1>23 DEF Compiled
  <2>2. Follows(w, SharedSites) => Follows(w, SharedSites)'
    BY <1>23, ZenonT(30) DEF Compiled, Follows, SharedSites
  <2>3. w = Canary /\ Rolling =>
            /\ Follows(Canary, StagedSites)'
            /\ \/ inbox'[Canary] # <<>>
               \/ wpc'[Canary] \in {"idle", "compile", "exited"}
    BY <1>23, ZenonT(30) DEF Compiled, Follows, FollowInv, StagedSites
  <2> QED
    BY <2>1, <2>2, <2>3, FollowFrame, ZenonT(30)
<1>24. ASSUME NEW w \in Workers, CompileFails(w) PROVE FollowInv'
  <2>1. /\ pc' = pc /\ todo' = todo /\ shared' = shared /\ staged' = staged
        /\ outcome' = outcome
        /\ \A v \in Workers \ {w} :
              /\ inbox'[v] = inbox[v] /\ wpc'[v] = wpc[v] /\ job'[v] = job[v]
              /\ scripts'[v] = scripts[v] /\ failed'[v] = failed[v]
    BY <1>24, SMTT(30) DEF CompileFails
  <2>2. Follows(w, SharedSites) => Follows(w, SharedSites)'
    BY <1>24 DEF CompileFails, Follows, SharedSites
  <2>3. w = Canary /\ Rolling =>
            /\ Follows(Canary, StagedSites)'
            /\ \/ inbox'[Canary] # <<>>
               \/ wpc'[Canary] \in {"idle", "compile", "exited"}
    BY <1>24, Zenon DEF CompileFails, Follows, FollowInv, StagedSites
  <2> QED
    BY <2>1, <2>2, <2>3, FollowFrame, ZenonT(30)
<1>25. ASSUME NEW w \in Workers, BootFails(w) PROVE FollowInv'
  <2>1. UNCHANGED <<inbox, workerVars>>
    BY <1>25 DEF BootFails
  <2>2. \A v \in Workers : /\ Follows(v, SharedSites) => Follows(v, SharedSites)'
                           /\ Follows(v, StagedSites) => Follows(v, StagedSites)'
    BY <2>1, <1>25, ZenonT(30) DEF BootFails, Follows, SharedSites, StagedSites
  <2> QED
    BY <2>1, <2>2, <1>25 DEF BootFails, FollowInv, Rolling, Rest, workerVars
<1>26. ASSUME NEW w \in Workers, Exit(w) PROVE FollowInv'
  <2>1. /\ pc' = pc /\ todo' = todo /\ shared' = shared /\ staged' = staged
        /\ outcome' = outcome
        /\ \A v \in Workers \ {w} :
              /\ inbox'[v] = inbox[v] /\ wpc'[v] = wpc[v] /\ job'[v] = job[v]
              /\ scripts'[v] = scripts[v] /\ failed'[v] = failed[v]
    BY <1>26, SMTT(30) DEF Exit
  <2>2. Follows(w, SharedSites) => Follows(w, SharedSites)'
    BY <1>26 DEF Exit, Follows, SharedSites
  <2>3. w = Canary /\ Rolling =>
            /\ Follows(Canary, StagedSites)'
            /\ \/ inbox'[Canary] # <<>>
               \/ wpc'[Canary] \in {"idle", "compile", "exited"}
    BY <1>26, ZenonT(30) DEF Exit, Follows, FollowInv, StagedSites
  <2> QED
    BY <2>1, <2>2, <2>3, FollowFrame, ZenonT(30)
<1>27. CASE UNCHANGED vars
  <2>1. UNCHANGED <<inbox, workerVars>>
    BY <1>27 DEF vars
  <2>2. \A v \in Workers : /\ Follows(v, SharedSites) => Follows(v, SharedSites)'
                           /\ Follows(v, StagedSites) => Follows(v, StagedSites)'
    BY <2>1, <1>27, Zenon DEF vars, Follows, SharedSites, StagedSites
  <2> QED
    BY <2>1, <2>2, <1>27 DEF vars, FollowInv, Rolling, Rest, workerVars
<1>28. QED
  BY <1>1, <1>2, <1>3, <1>4, <1>5, <1>6, <1>7, <1>8, <1>9, <1>10, <1>11,
     <1>12, <1>13, <1>14, <1>15, <1>16, <1>17, <1>18, <1>19, <1>20, <1>21,
     <1>22, <1>23, <1>24, <1>25, <1>26, <1>27, SMTT(30) DEF Next, Operator,
     Coordinator, WorkerStep

-----------------------------------------------------------------------------
\* The inductive invariant holds initially.
LEMMA IInvInit == Init => IInv
<1> SUFFICES ASSUME Init PROVE IInv
  OBVIOUS
<1>1. TypeOK
  BY TypeInit
<1>2. Len(<<>>) = 0
  BY EmptySeq
<1>3. RolloutIsValidated
  <2>1. SharedSites \in validated
    BY DEF Init, SharedSites, NoSites
  <2>2. \A w \in Rest : Len(inbox[w]) = 0 /\ wpc[w] # "compile"
    BY <1>2, SMTT(30) DEF Init, Rest
  <2> QED
    BY <2>1, <2>2 DEF RolloutIsValidated
<1>4. ChannelInv
  BY <1>2, CanaryAssumption DEF Init, ChannelInv, Fits, Loading, NoRequest, Rest
<1>5. ValidatedInv /\ CommitInv
  BY DEF Init, ValidatedInv, CommitInv
<1>6. FollowInv
  BY CanaryAssumption, Zenon DEF Init, FollowInv, Follows, Rolling, Rest
<1> QED
  BY <1>1, <1>3, <1>4, <1>5, <1>6 DEF IInv

\* The inductive invariant is kept by every step.
LEMMA IInvStep == IInv /\ [Next]_vars => IInv'
BY TypeStep, ChannelStep, ValidatedStep, CommitStep, RolloutStep, FollowStep
   DEF IInv

\* The reload protocol keeps its inductive invariant for every set of workers,
\* any number of reloads and any interleaving with worker start-up and exit.
THEOREM Invariance == Spec => []IInv
<1>1. Init => IInv
  BY IInvInit
<1>2. IInv /\ [Next]_vars => IInv'
  BY IInvStep
<1> QED
  BY <1>1, <1>2, PTL DEF Spec

\* The state of the coordinator and the workers is always well-typed.
THEOREM TypeCorrect == Spec => []TypeOK
<1>1. IInv => TypeOK
  BY DEF IInv
<1> QED
  BY <1>1, Invariance, PTL

\* No worker but the canary is ever given sites the canary did not compile, and
\* no such sites are committed (perform_reload's staging).
THEOREM RolloutValidated == Spec => []RolloutIsValidated
<1>1. IInv => RolloutIsValidated
  BY DEF IInv
<1> QED
  BY <1>1, Invariance, PTL

\* A worker with nothing left to do runs the committed scripts, unless its own
\* compilation failed (worker_reload_loop, collect_sites and perform_reload).
THEOREM WorkersAgree == Spec => []QuiescentAgreement
<1>1. IInv => QuiescentAgreement
  <2> SUFFICES ASSUME IInv, pc = "poll",
                      NEW w \in (IF outcome = "aborted" THEN Rest ELSE Workers),
                      Drained(w), ~failed[w]
               PROVE  scripts[w] = SharedSites
    BY Zenon DEF QuiescentAgreement
  <2>1. Follows(w, SharedSites)
    <3>1. todo = {} /\ ~Rolling
      BY DEF IInv, CommitInv, Rolling
    <3>2. CASE w \in Rest
      BY <3>1, <3>2, SMTT(30) DEF IInv, FollowInv
    <3>3. CASE w \notin Rest
      BY <3>1, <3>3 DEF IInv, FollowInv, Rest
    <3> QED
      BY <3>2, <3>3
  <2> QED
    BY <2>1, Zenon DEF Follows, Drained
<1> QED
  BY <1>1, Invariance, PTL
=============================================================================
