--------------------------- MODULE RolloutProofs ---------------------------
(* The reload protocol implements Rollout, for every set of workers.       *)
EXTENDS ReloadRollout, ReloadProofs

\* What no step of a worker touches.
LEMMA WorkerFrame ==
    ASSUME NEW w \in Workers, WorkerStep(w) \/ BootFails(w) \/ Exit(w)
    PROVE  UNCHANGED <<disk, pc, staged, shared, todo>>
BY DEF WorkerStep, BootFails, Exit, CollectPlugins, CollectSite, Boot, Receive, Compiled,
       CompileFails, envVars, coordVars

\* What no step of the operator or the coordinator touches.
LEMMA CoordinatorFrame ==
    ASSUME Operator \/ Coordinator
    PROVE  UNCHANGED <<wpc, job, scripts, validated>>
<1>1. CASE Operator
  BY <1>1 DEF Operator, EditDisk, Sighup, WriteSignalFile, workerVars
<1>2. CASE \E readable \in BOOLEAN : Wake(readable)
  BY <1>2 DEF Wake, workerVars
<1>3. CASE LoadPlugins \/ LoadSite \/ LoadFails \/ LoadTls \/ SendCanary \/ CanaryGone
  BY <1>3, Zenon DEF LoadPlugins, LoadSite, LoadFails, LoadTls, SendCanary, CanaryGone, Abort, workerVars
<1>4. CASE CanaryOk \/ CanaryErr \/ CanaryTimeout \/ CommitPlugins \/ CommitSite \/ CommitTls
  BY <1>4 DEF CanaryOk, CanaryErr, CanaryTimeout, CommitPlugins, CommitSite, CommitTls, Abort, workerVars
<1>5. CASE \E w \in Workers : Notify(w)
  BY <1>5 DEF Notify, workerVars
<1>6. CASE RolledOut
  BY <1>6, SMTT(30) DEF RolledOut, workerVars
<1> QED
  BY <1>1, <1>2, <1>3, <1>4, <1>5, <1>6 DEF Coordinator

\* What is staged is read from disk after what is shared.
LEMMA AgeStep == TypeOK /\ CommitInv /\ AgeInv /\ [Next]_vars => AgeInv'
<1> SUFFICES ASSUME TypeOK, CommitInv, AgeInv, [Next]_vars PROVE AgeInv'
  OBVIOUS
<1> USE DEF TypeOK, Version, AgeInv, envVars, coordVars, workerVars, Abort
<1>1. CASE EditDisk
  BY <1>1 DEF EditDisk
<1>2. CASE Sighup
  BY <1>2 DEF Sighup
<1>3. CASE WriteSignalFile
  BY <1>3 DEF WriteSignalFile
<1>4. CASE LoadPlugins
  BY <1>4 DEF LoadPlugins
<1>5. CASE LoadSite
  BY <1>5 DEF LoadSite
<1>6. CASE LoadFails
  BY <1>6 DEF LoadFails
<1>7. CASE LoadTls
  BY <1>7 DEF LoadTls
<1>8. CASE SendCanary
  BY <1>8 DEF SendCanary
<1>9. CASE CanaryGone
  BY <1>9 DEF CanaryGone
<1>10. CASE CanaryOk
  BY <1>10 DEF CanaryOk
<1>11. CASE CanaryErr
  BY <1>11 DEF CanaryErr
<1>12. CASE CanaryTimeout
  BY <1>12 DEF CanaryTimeout
<1>13. CASE CommitPlugins
  BY <1>13 DEF CommitPlugins
<1>14. CASE CommitSite
  BY <1>14 DEF CommitSite
<1>15. CASE CommitTls
  BY <1>15 DEF CommitTls
<1>16. CASE RolledOut
  BY <1>16 DEF RolledOut
<1>17. ASSUME NEW readable \in BOOLEAN, Wake(readable) PROVE AgeInv'
  BY <1>17 DEF Wake
<1>18. ASSUME NEW w \in Workers, Notify(w) PROVE AgeInv'
  BY <1>18 DEF Notify
<1>19. ASSUME NEW w \in Workers, WorkerStep(w) \/ BootFails(w) \/ Exit(w) PROVE AgeInv'
  BY <1>19, WorkerFrame
<1>20. CASE UNCHANGED vars
  BY <1>20 DEF vars
<1> QED
  BY <1>1, <1>2, <1>3, <1>4, <1>5, <1>6, <1>7, <1>8, <1>9, <1>10, <1>11, <1>12, <1>13, <1>14, <1>15, <1>16, <1>17, <1>18, <1>19, <1>20, SMTT(30)
  DEF Next, Operator, Coordinator

\* The history variable grows, and only at the first store of a commit.
LEMMA HistoryStep ==
    ASSUME RolloutNext
    PROVE  /\ committed \subseteq committed'
           /\ pc # "commitPlugins" \/ pc' # "commitSite" => committed' = committed
BY SMTT(30) DEF RolloutNext

\* What is shared was committed: the commit stores what the history remembers.
LEMMA SharedStep == TypeOK /\ CommitInv /\ SharedInv /\ RolloutNext => SharedInv'
<1> SUFFICES ASSUME TypeOK, CommitInv, SharedInv, RolloutNext PROVE SharedInv'
  OBVIOUS
<1> USE DEF TypeOK, Version, SharedInv, SharedSites, StagedSites, envVars, coordVars, workerVars, Abort
<1>1. CASE EditDisk
  BY <1>1, HistoryStep, Zenon DEF EditDisk
<1>2. CASE Sighup
  BY <1>2, HistoryStep, Zenon DEF Sighup
<1>3. CASE WriteSignalFile
  BY <1>3, HistoryStep, Zenon DEF WriteSignalFile
<1>4. CASE LoadPlugins
  BY <1>4, HistoryStep, Zenon DEF LoadPlugins
<1>5. CASE LoadSite
  BY <1>5, HistoryStep, Zenon DEF LoadSite
<1>6. CASE LoadFails
  BY <1>6, HistoryStep, Zenon DEF LoadFails
<1>7. CASE LoadTls
  BY <1>7, HistoryStep, Zenon DEF LoadTls
<1>8. CASE SendCanary
  BY <1>8, HistoryStep, Zenon DEF SendCanary
<1>9. CASE CanaryGone
  BY <1>9, HistoryStep, Zenon DEF CanaryGone
<1>10. CASE CanaryOk
  BY <1>10, HistoryStep, Zenon DEF CanaryOk
<1>11. CASE CanaryErr
  BY <1>11, HistoryStep, Zenon DEF CanaryErr
<1>12. CASE CanaryTimeout
  BY <1>12, HistoryStep, Zenon DEF CanaryTimeout
<1>13. CASE CommitPlugins
  BY <1>13 DEF CommitPlugins, RolloutNext
<1>14. CASE CommitSite
  <2>1. SharedSites' = StagedSites
    BY <1>14 DEF CommitSite, CommitInv
  <2> QED
    BY <2>1, <1>14, HistoryStep DEF CommitSite
<1>15. CASE CommitTls
  BY <1>15, HistoryStep, Zenon DEF CommitTls
<1>16. CASE RolledOut
  BY <1>16, HistoryStep, Zenon DEF RolledOut
<1>17. ASSUME NEW readable \in BOOLEAN, Wake(readable) PROVE SharedInv'
  BY <1>17, HistoryStep, Zenon DEF Wake
<1>18. ASSUME NEW w \in Workers, Notify(w) PROVE SharedInv'
  BY <1>18, HistoryStep, Zenon DEF Notify
<1>19. ASSUME NEW w \in Workers, WorkerStep(w) \/ BootFails(w) \/ Exit(w) PROVE SharedInv'
  BY <1>19, WorkerFrame, HistoryStep, Zenon
<1> QED
  BY <1>1, <1>2, <1>3, <1>4, <1>5, <1>6, <1>7, <1>8, <1>9, <1>10, <1>11, <1>12, <1>13, <1>14, <1>15, <1>16, <1>17, <1>18, <1>19, SMTT(30)
  DEF RolloutNext, Next, Operator, Coordinator

\* The coordinator's messages to the workers other than the canary: a rollout
\* appends the staged sites, nothing else reaches them.
LEMMA InboxFrame ==
    ASSUME TypeOK, Operator \/ Coordinator, NEW v \in Rest
    PROVE  \/ inbox'[v] = inbox[v]
           \/ /\ pc = "notify"
              /\ inbox'[v] = Append(inbox[v], [sites |-> StagedSites, reply |-> 0])
<1> USE DEF TypeOK, Rest
<1>1. CASE Operator
  BY <1>1 DEF Operator, EditDisk, Sighup, WriteSignalFile
<1>2. CASE \E readable \in BOOLEAN : Wake(readable)
  BY <1>2 DEF Wake
<1>3. CASE LoadPlugins \/ LoadSite \/ LoadFails \/ LoadTls \/ CanaryGone
  BY <1>3, Zenon DEF LoadPlugins, LoadSite, LoadFails, LoadTls, CanaryGone, Abort
<1>4. CASE SendCanary
  BY <1>4, CanaryAssumption DEF SendCanary
<1>5. CASE CanaryOk \/ CanaryErr \/ CanaryTimeout \/ CommitPlugins \/ CommitSite \/ CommitTls
  BY <1>5 DEF CanaryOk, CanaryErr, CanaryTimeout, CommitPlugins, CommitSite, CommitTls, Abort
<1>6. CASE \E w \in Workers : Notify(w)
  BY <1>6 DEF Notify
<1>7. CASE RolledOut
  BY <1>7 DEF RolledOut
<1> QED
  BY <1>1, <1>2, <1>3, <1>4, <1>5, <1>6, <1>7 DEF Coordinator

\* What a worker is sent, and what it compiles, was committed.
LEMMA QueuedStep ==
    TypeOK /\ SharedInv /\ QueuedInv /\ RolloutNext => QueuedInv'
<1> SUFFICES ASSUME TypeOK, SharedInv, QueuedInv, RolloutNext, NEW v \in Rest
             PROVE  /\ \A i \in 1..Len(inbox'[v]) : inbox'[v][i].sites \in committed
                    /\ wpc'[v] = "compile" => job'[v].sites \in committed
  BY HistoryStep DEF QueuedInv
<1>0. inbox[v] \in Seq(Request) /\ v \in Workers
  BY DEF TypeOK, Rest
<1>1. CASE Operator \/ Coordinator
  <2> DEFINE new == [sites |-> StagedSites, reply |-> 0]
  <2>1. wpc'[v] = "compile" => job'[v].sites \in committed
    BY <1>1, CoordinatorFrame DEF QueuedInv
  <2>2. CASE inbox'[v] = inbox[v]
    BY <2>1, <2>2 DEF QueuedInv
  <2>3. CASE pc = "notify" /\ inbox'[v] = Append(inbox[v], new)
    <3>1. new \in Request /\ new.sites \in committed
      BY <2>3, CurrentSites, RequestType DEF SharedInv
    <3> HIDE DEF new
    <3>2. ASSUME NEW i \in 1..Len(inbox'[v]) PROVE inbox'[v][i].sites \in committed
      <4>1. \/ i \in 1..Len(inbox[v]) /\ inbox'[v][i] = inbox[v][i]
            \/ inbox'[v][i] = new
        BY <1>0, <2>3, <3>1, QueueAppend
      <4> QED
        BY <4>1, <3>1 DEF QueuedInv
    <3> QED
      BY <3>2, <2>1
  <2> QED
    BY <1>1, <2>2, <2>3, InboxFrame
<1>2. ASSUME NEW w \in Workers, Receive(w)
      PROVE  /\ \A i \in 1..Len(inbox'[v]) : inbox'[v][i].sites \in committed
             /\ wpc'[v] = "compile" => job'[v].sites \in committed
  <2>1. CASE w = v
    <3>1. /\ inbox[v] # <<>> /\ inbox'[v] = Tail(inbox[v]) /\ job'[v] = Head(inbox[v])
      BY <1>2, <2>1 DEF Receive, TypeOK
    <3> QED
      BY <3>1, <1>0, QueueTake DEF QueuedInv
  <2>2. CASE w # v
    <3>1. inbox'[v] = inbox[v] /\ job'[v] = job[v] /\ wpc'[v] = wpc[v]
      BY <1>2, <2>2 DEF Receive, TypeOK
    <3> QED
      BY <3>1 DEF QueuedInv
  <2> QED
    BY <2>1, <2>2
<1>3. ASSUME NEW w \in Workers,
             CollectPlugins(w) \/ CollectSite(w) \/ Boot(w) \/ Compiled(w) \/ CompileFails(w) \/ BootFails(w)
      PROVE  /\ \A i \in 1..Len(inbox'[v]) : inbox'[v][i].sites \in committed
             /\ wpc'[v] = "compile" => job'[v].sites \in committed
  <2>1. inbox'[v] = inbox[v]
    BY <1>3 DEF CollectPlugins, CollectSite, Boot, Compiled, CompileFails, BootFails
  <2>2. wpc'[v] = "compile" => wpc[v] = "compile" /\ job'[v] = job[v]
    BY <1>3, <1>0 DEF CollectPlugins, CollectSite, Boot, Compiled, CompileFails, BootFails, workerVars, TypeOK
  <2> QED
    BY <2>1, <2>2 DEF QueuedInv
<1>4. ASSUME NEW w \in Workers, Exit(w)
      PROVE  /\ \A i \in 1..Len(inbox'[v]) : inbox'[v][i].sites \in committed
             /\ wpc'[v] = "compile" => job'[v].sites \in committed
  <2>1. inbox'[v] = inbox[v] \/ inbox'[v] = <<>>
    BY <1>4, <1>0 DEF Exit, TypeOK
  <2>2. wpc'[v] = "compile" => wpc[v] = "compile" /\ job'[v] = job[v]
    BY <1>4, <1>0 DEF Exit, TypeOK
  <2> QED
    BY <2>1, <2>2, EmptySeq DEF QueuedInv
<1> QED
  BY <1>1, <1>2, <1>3, <1>4 DEF RolloutNext, Next, WorkerStep

\* A worker that starts reads the plugins, then the site, of committed
\* configurations.
LEMMA ReadStep ==
    TypeOK /\ CommitInv /\ SharedInv /\ ReadInv /\ RolloutNext => ReadInv'
<1> SUFFICES ASSUME TypeOK, CommitInv, SharedInv, ReadInv, RolloutNext, NEW v \in Rest
             PROVE  /\ wpc'[v] \in {"collectSite", "boot"} =>
                          \E p \in committed : job'[v].sites[1] = p[1]
                    /\ wpc'[v] = "boot" => \E q \in committed : job'[v].sites[2] = q[2]
  BY HistoryStep DEF ReadInv
<1> DEFINE Goal == /\ wpc'[v] \in {"collectSite", "boot"} =>
                          \E p \in committed : job'[v].sites[1] = p[1]
                   /\ wpc'[v] = "boot" => \E q \in committed : job'[v].sites[2] = q[2]
<1>0. v \in Workers /\ wpc[v] \in WorkerPC /\ job[v] \in Request
  BY DEF TypeOK, Rest
<1>1. CASE Operator \/ Coordinator
  BY <1>1, CoordinatorFrame DEF ReadInv
<1>2. ASSUME NEW w \in Workers, CollectPlugins(w) PROVE Goal
  <2>1. CASE w = v
    <3>1. job'[v].sites[1] = shared.plugin /\ wpc'[v] = "collectSite"
      BY <1>2, <2>1, <1>0 DEF CollectPlugins, TypeOK, Request
    <3>2. \E p \in committed : shared.plugin = p[1]
      BY DEF SharedInv, CommitInv, SharedSites, StagedSites
    <3> QED
      BY <3>1, <3>2
  <2>2. CASE w # v
    <3>1. job'[v] = job[v] /\ wpc'[v] = wpc[v]
      BY <1>2, <2>2, <1>0 DEF CollectPlugins, TypeOK
    <3> QED
      BY <3>1 DEF ReadInv
  <2> QED
    BY <2>1, <2>2
<1>3. ASSUME NEW w \in Workers, CollectSite(w) PROVE Goal
  <2>1. CASE w = v
    <3>1. /\ job'[v].sites[1] = job[v].sites[1] /\ job'[v].sites[2] = shared.site
          /\ wpc[v] = "collectSite" /\ wpc'[v] = "boot"
      BY <1>3, <2>1, <1>0 DEF CollectSite, TypeOK, Request
    <3>2. \E q \in committed : shared.site = q[2]
      BY DEF SharedInv
    <3> QED
      BY <3>1, <3>2 DEF ReadInv
  <2>2. CASE w # v
    <3>1. job'[v] = job[v] /\ wpc'[v] = wpc[v]
      BY <1>3, <2>2, <1>0 DEF CollectSite, TypeOK
    <3> QED
      BY <3>1 DEF ReadInv
  <2> QED
    BY <2>1, <2>2
<1>4. ASSUME NEW w \in Workers,
             Boot(w) \/ Receive(w) \/ Compiled(w) \/ CompileFails(w) \/ BootFails(w) \/ Exit(w)
      PROVE  Goal
  <2>1. wpc'[v] \in {"collectSite", "boot"} => wpc'[v] = wpc[v] /\ job'[v] = job[v]
    BY <1>4, <1>0 DEF Boot, Receive, Compiled, CompileFails, BootFails, Exit, workerVars, TypeOK
  <2> QED
    BY <2>1 DEF ReadInv
<1> QED
  BY <1>1, <1>2, <1>3, <1>4 DEF RolloutNext, Next, WorkerStep

\* The invariant of the refinement holds initially and is kept.
LEMMA RInvInit == RolloutInit => RInv
<1> SUFFICES ASSUME RolloutInit PROVE RInv
  OBVIOUS
<1>0. NoSites \in Sites
  BY SitesType DEF NoSites
<1>1. committed \subseteq Sites
  BY <1>0 DEF RolloutInit
<1> USE DEF RolloutInit, Init
<1>2. SharedInv
  BY DEF SharedInv, SharedSites, NoSites
<1>3. QueuedInv
  <2>1. \A w \in Rest : Len(inbox[w]) = 0 /\ wpc[w] # "compile"
    BY EmptySeq DEF Rest
  <2> QED
    BY <2>1 DEF QueuedInv
<1>4. ReadInv
  BY DEF ReadInv, Rest
<1>5. AgeInv
  BY DEF AgeInv
<1> QED
  BY <1>1, <1>2, <1>3, <1>4, <1>5 DEF RInv

\* Every step keeps RInv.
LEMMA RInvStep == IInv /\ RInv /\ [RolloutNext]_rolloutVars => RInv'
<1> SUFFICES ASSUME IInv, RInv, [RolloutNext]_rolloutVars PROVE RInv'
  OBVIOUS
<1> USE DEF IInv, RInv
<1>1. CASE RolloutNext
  <2>1. committed' \subseteq Sites
    BY <1>1, CurrentSites DEF RolloutNext
  <2>2. [Next]_vars
    BY <1>1 DEF RolloutNext
  <2> QED
    BY <1>1, <2>1, <2>2, SharedStep, QueuedStep, ReadStep, AgeStep
<1>2. CASE UNCHANGED rolloutVars
  BY <1>2 DEF rolloutVars, vars, SharedInv, QueuedInv, ReadInv, AgeInv, SharedSites, StagedSites
<1> QED
  BY <1>1, <1>2

-----------------------------------------------------------------------------
\* What Rollout sees of a step that installs and proves nothing.
LEMMA Hidden ==
    ASSUME UNCHANGED <<validated, committed, scripts>>,
           CommittedSites' = CommittedSites, Starting' = Starting
    PROVE  UNCHANGED R!vars
BY DEF R!vars

\* Every step of the coordinator and the operator is a Commit or hidden.
LEMMA CoordinatorRefines ==
    ASSUME TypeOK, CommitInv, ValidatedInv, AgeInv, RolloutNext, Operator \/ Coordinator
    PROVE  R!Next \/ UNCHANGED R!vars
<1> USE DEF TypeOK, Version, CommittedSites, SharedSites, StagedSites, envVars, coordVars, Abort
<1>0. UNCHANGED <<validated, scripts>> /\ Starting' = Starting
  BY CoordinatorFrame DEF Starting
<1>1. CASE EditDisk
  <2>1. CommittedSites' = CommittedSites
    BY <1>1 DEF EditDisk, CommitInv
  <2> QED
    BY <2>1, <1>1, <1>0, HistoryStep, Hidden DEF EditDisk
<1>2. CASE Sighup
  <2>1. CommittedSites' = CommittedSites
    BY <1>2 DEF Sighup, CommitInv
  <2> QED
    BY <2>1, <1>2, <1>0, HistoryStep, Hidden DEF Sighup
<1>3. CASE WriteSignalFile
  <2>1. CommittedSites' = CommittedSites
    BY <1>3 DEF WriteSignalFile, CommitInv
  <2> QED
    BY <2>1, <1>3, <1>0, HistoryStep, Hidden DEF WriteSignalFile
<1>4. CASE LoadPlugins
  <2>1. CommittedSites' = CommittedSites
    BY <1>4 DEF LoadPlugins, CommitInv
  <2> QED
    BY <2>1, <1>4, <1>0, HistoryStep, Hidden DEF LoadPlugins
<1>5. CASE LoadSite
  <2>1. CommittedSites' = CommittedSites
    BY <1>5 DEF LoadSite, CommitInv
  <2> QED
    BY <2>1, <1>5, <1>0, HistoryStep, Hidden DEF LoadSite
<1>6. CASE LoadFails
  <2>1. CommittedSites' = CommittedSites
    BY <1>6 DEF LoadFails, CommitInv
  <2> QED
    BY <2>1, <1>6, <1>0, HistoryStep, Hidden DEF LoadFails
<1>7. CASE LoadTls
  <2>1. CommittedSites' = CommittedSites
    BY <1>7 DEF LoadTls, CommitInv
  <2> QED
    BY <2>1, <1>7, <1>0, HistoryStep, Hidden DEF LoadTls
<1>8. CASE SendCanary
  <2>1. CommittedSites' = CommittedSites
    BY <1>8 DEF SendCanary, CommitInv
  <2> QED
    BY <2>1, <1>8, <1>0, HistoryStep, Hidden DEF SendCanary
<1>9. CASE CanaryGone
  <2>1. CommittedSites' = CommittedSites
    BY <1>9 DEF CanaryGone, CommitInv
  <2> QED
    BY <2>1, <1>9, <1>0, HistoryStep, Hidden DEF CanaryGone
<1>10. CASE CanaryOk
  <2>1. CommittedSites' = CommittedSites
    BY <1>10 DEF CanaryOk, CommitInv
  <2> QED
    BY <2>1, <1>10, <1>0, HistoryStep, Hidden, SMTT(30) DEF CanaryOk
<1>11. CASE CanaryErr
  <2>1. CommittedSites' = CommittedSites
    BY <1>11 DEF CanaryErr, CommitInv
  <2> QED
    BY <2>1, <1>11, <1>0, HistoryStep, Hidden DEF CanaryErr
<1>12. CASE CanaryTimeout
  <2>1. CommittedSites' = CommittedSites
    BY <1>12 DEF CanaryTimeout, CommitInv
  <2> QED
    BY <2>1, <1>12, <1>0, HistoryStep, Hidden DEF CanaryTimeout
<1>13. CASE CommitPlugins
  <2>1. StagedSites \in validated
    BY <1>13 DEF CommitPlugins, ValidatedInv
  <2>2. R!NotNewer(CommittedSites, StagedSites)
    BY <1>13 DEF CommitPlugins, AgeInv, R!NotNewer
  <2>3. CommittedSites' = StagedSites /\ committed' = committed \cup {StagedSites}
    BY <1>13 DEF CommitPlugins, RolloutNext
  <2>4. R!Commit
    BY <2>1, <2>2, <2>3, <1>0, Zenon DEF R!Commit
  <2> QED
    BY <2>4 DEF R!Next
<1>14. CASE CommitSite
  <2>1. CommittedSites' = CommittedSites
    BY <1>14 DEF CommitSite, CommitInv
  <2> QED
    BY <2>1, <1>14, <1>0, HistoryStep, Hidden DEF CommitSite
<1>15. CASE CommitTls
  <2>1. CommittedSites' = CommittedSites
    BY <1>15 DEF CommitTls, CommitInv
  <2> QED
    BY <2>1, <1>15, <1>0, HistoryStep, Hidden DEF CommitTls
<1>16. CASE RolledOut
  <2>1. CommittedSites' = CommittedSites
    BY <1>16 DEF RolledOut, CommitInv
  <2> QED
    BY <2>1, <1>16, <1>0, HistoryStep, Hidden DEF RolledOut
<1>17. ASSUME NEW readable \in BOOLEAN, Wake(readable) PROVE R!Next \/ UNCHANGED R!vars
  <2>1. CommittedSites' = CommittedSites
    BY <1>17 DEF Wake, CommitInv
  <2> QED
    BY <2>1, <1>17, <1>0, HistoryStep, Hidden DEF Wake
<1>18. ASSUME NEW w \in Workers, Notify(w) PROVE R!Next \/ UNCHANGED R!vars
  <2>1. CommittedSites' = CommittedSites
    BY <1>18 DEF Notify, CommitInv
  <2> QED
    BY <2>1, <1>18, <1>0, HistoryStep, Hidden, SMTT(30) DEF Notify
<1> QED
  BY <1>1, <1>2, <1>3, <1>4, <1>5, <1>6, <1>7, <1>8, <1>9, <1>10, <1>11, <1>12, <1>13, <1>14, <1>15, <1>16, <1>17, <1>18, SMTT(30)
  DEF Operator, Coordinator

\* Every step of a worker is a Prove, a Start, a Run or hidden.
LEMMA WorkerRefines ==
    ASSUME TypeOK, RInv, RolloutNext, NEW w \in Workers,
           WorkerStep(w) \/ BootFails(w) \/ Exit(w)
    PROVE  R!Next \/ UNCHANGED R!vars
<1>0. CommittedSites' = CommittedSites /\ committed' = committed
  BY WorkerFrame, HistoryStep DEF CommittedSites, SharedSites, StagedSites
<1>1. CASE Boot(w)
  <2>0. /\ validated' = validated /\ wpc[w] = "boot"
        /\ wpc' = [wpc EXCEPT ![w] = "idle"]
        /\ scripts' = [scripts EXCEPT ![w] = job[w].sites]
    BY <1>1 DEF Boot
  <2>1. CASE w = Canary
    <3>1. Starting' = Starting /\ [v \in Rest |-> scripts'[v]] = [v \in Rest |-> scripts[v]]
      BY <2>0, <2>1 DEF Starting, Rest, TypeOK
    <3> QED
      BY <3>1, <2>0, <1>0 DEF R!vars
  <2>2. CASE w # Canary
    <3>1. w \in Starting /\ Starting' = Starting \ {w} /\ w \in Rest
      BY <2>0, <2>2 DEF Starting, Rest, TypeOK
    <3>2. PICK p \in committed, q \in committed : job[w].sites[1] = p[1] /\ job[w].sites[2] = q[2]
      BY <2>0, <3>1 DEF RInv, ReadInv
    <3>3. job[w].sites = <<p[1], q[2]>>
      BY <3>2, SitesType, RequestType DEF TypeOK
    <3>4. [v \in Rest |-> scripts'[v]] =
             [[v \in Rest |-> scripts[v]] EXCEPT ![w] = <<p[1], q[2]>>]
      BY <2>0, <3>1, <3>3, Zenon DEF Rest, TypeOK
    <3>5. R!Start(w)
      BY <2>0, <1>0, <3>1, <3>4, Zenon DEF R!Start
    <3> QED
      BY <3>5, <3>1 DEF R!Next
  <2> QED
    BY <2>1, <2>2
<1>2. CASE Compiled(w)
  <2>0. /\ wpc[w] = "compile" /\ wpc' = [wpc EXCEPT ![w] = "idle"]
        /\ scripts' = [scripts EXCEPT ![w] = job[w].sites]
        /\ validated' = IF w = Canary THEN validated \cup {job[w].sites} ELSE validated
    BY <1>2 DEF Compiled
  <2>1. Starting' = Starting
    BY <2>0 DEF Starting, Rest, TypeOK
  <2>2. CASE w = Canary
    <3>1. [v \in Rest |-> scripts'[v]] = [v \in Rest |-> scripts[v]]
      BY <2>0, <2>2 DEF Rest, TypeOK
    <3>2. R!Prove
      BY <2>0, <2>1, <2>2, <3>1, <1>0 DEF R!Prove
    <3> QED
      BY <3>2 DEF R!Next
  <2>3. CASE w # Canary
    <3>1. w \in Rest /\ w \notin Starting /\ validated' = validated
      BY <2>0, <2>3 DEF Starting, Rest
    <3>2. job[w].sites \in committed
      BY <2>0, <3>1 DEF RInv, QueuedInv
    <3>3. [v \in Rest |-> scripts'[v]] =
             [[v \in Rest |-> scripts[v]] EXCEPT ![w] = job[w].sites]
      BY <2>0, <3>1, Zenon DEF Rest, TypeOK
    <3>4. R!Run(w)
      BY <3>1, <3>2, <3>3, <2>1, <1>0, Zenon DEF R!Run
    <3> QED
      BY <3>4, <3>1 DEF R!Next
  <2> QED
    BY <2>2, <2>3
<1>3. CASE CollectPlugins(w) \/ CollectSite(w) \/ Receive(w) \/ CompileFails(w) \/ BootFails(w) \/ Exit(w)
  <2>1. UNCHANGED <<validated, scripts>>
    BY <1>3 DEF CollectPlugins, CollectSite, Receive, CompileFails, BootFails, Exit, workerVars
  <2>2. Starting' = Starting
    BY <1>3 DEF CollectPlugins, CollectSite, Receive, CompileFails, BootFails, Exit, workerVars,
       Starting, Rest, TypeOK
  <2> QED
    BY <2>1, <2>2, <1>0, Hidden
<1> QED
  BY <1>1, <1>2, <1>3 DEF WorkerStep

\* Every step of the reload protocol is a step of Rollout or hidden from it.
LEMMA StepRefines ==
    IInv /\ RInv /\ [RolloutNext]_rolloutVars => [R!Next]_(R!vars)
<1> SUFFICES ASSUME IInv, RInv, [RolloutNext]_rolloutVars
             PROVE  R!Next \/ UNCHANGED R!vars
  OBVIOUS
<1>1. CASE RolloutNext /\ (Operator \/ Coordinator)
  BY <1>1, CoordinatorRefines DEF IInv, RInv
<1>2. ASSUME RolloutNext, NEW w \in Workers, WorkerStep(w) \/ BootFails(w) \/ Exit(w)
      PROVE  R!Next \/ UNCHANGED R!vars
  BY <1>2, WorkerRefines DEF IInv
<1>3. CASE UNCHANGED rolloutVars
  BY <1>3, Hidden DEF rolloutVars, vars, CommittedSites, SharedSites, StagedSites, Starting
<1> QED
  BY <1>1, <1>2, <1>3 DEF RolloutNext, Next

\* The initial states of the reload protocol are initial states of Rollout.
LEMMA InitRefines == RolloutInit => R!Init
<1> SUFFICES ASSUME RolloutInit PROVE R!Init
  OBVIOUS
<1>1. validated = {<<0, 0>>} /\ committed = {<<0, 0>>} /\ CommittedSites = <<0, 0>>
  BY DEF RolloutInit, Init, NoSites, CommittedSites, SharedSites
<1>2. Starting = Rest /\ [w \in Rest |-> scripts[w]] = [w \in Rest |-> <<0, 0>>]
  BY DEF RolloutInit, Init, NoSites, Starting, Rest
<1> QED
  BY <1>1, <1>2 DEF R!Init, R!First

\* With the history variable the reload protocol is still itself: its own
\* inductive invariant holds.
LEMMA RolloutInvariance == RolloutSpec => [](IInv /\ RInv)
<1>1. RolloutInit => IInv /\ RInv
  BY IInvInit, RInvInit DEF RolloutInit
<1>2. IInv /\ RInv /\ [RolloutNext]_rolloutVars => (IInv /\ RInv)'
  <2> SUFFICES ASSUME IInv, RInv, [RolloutNext]_rolloutVars PROVE (IInv /\ RInv)'
    OBVIOUS
  <2>1. [Next]_vars
    BY DEF RolloutNext, rolloutVars
  <2> QED
    BY <2>1, IInvStep, RInvStep
<1> QED
  BY <1>1, <1>2, PTL DEF RolloutSpec

\* perform_reload and worker_reload_loop implement Rollout for every number of
\* workers, of reloads and of edits, and every interleaving with starting and
\* exiting workers: commits of proven configurations only, seen as one step,
\* and workers that change only to committed ones.
THEOREM ReloadImplementsRollout == RolloutSpec => ImplementsRollout
<1>1. RolloutInit => R!Init
  BY InitRefines
<1>2. IInv /\ RInv /\ [RolloutNext]_rolloutVars => [R!Next]_(R!vars)
  BY StepRefines
<1> QED
  BY <1>1, <1>2, RolloutInvariance, PTL DEF RolloutSpec, ImplementsRollout, R!Spec
=============================================================================
