----------------------------- MODULE AcmeProofs -----------------------------
(* Proofs about ACME provisioning, for every set of processes and domains  *)
(* and any number of faults, crashes and renewals: every certificate       *)
(* obtained is stored and served in order, no order is redundant, and a    *)
(* validation is answered by every process.                                *)
EXTENDS Acme, TLAPS

\* The steps of provision_domain, and those of them with an open order whose
\* certificate is not stored yet.
InsidePC == {"recheck", "challenge", "publish", "validate", "unchallenge",
             "unpublish", "finalize", "saveCert", "saveKey", "install"}
OpenPC == {"challenge", "publish", "validate", "unchallenge", "unpublish",
           "finalize", "saveCert"}

\* Whoever is inside provision_domain holds that domain's lock, and the domain
\* is one that is acquired over ACME.
LockInv ==
    \A p \in Procs : pc[p] \in InsidePC => cur[p] \in Managed /\ lock[cur[p]] = p

\* Whoever is about to create the account key holds the account lock, and the
\* key is created only where there is none.
AcctInv ==
    /\ OneAccountKey
    /\ \A p \in Procs : pc[p] \in {"acctCheck", "acctCreate"} => acctLock = p
    /\ \A p \in Procs : pc[p] = "acctCreate" => acct = 0

\* An open order is newer than the stored certificate it will replace, which
\* still needs renewal; between the two writes and after them the stored
\* certificate is the order's.
OrderInv ==
    /\ \A d \in Domains : cert[d] <= orders
    /\ \A p \in Procs :
        pc[p] \in OpenPC => cert[cur[p]] < order[p] /\ order[p] <= orders
    /\ \A p \in Procs : pc[p] \in {"saveKey", "install"} => order[p] = cert[cur[p]]

\* A served certificate is no newer than the stored one, and what
\* sync_live_certs has read lies between the two.
LiveInv ==
    /\ \A p \in Procs : \A d \in Domains : live[p][d] <= cert[d]
    /\ \A p \in Procs : pc[p] = "syncKey" =>
          live[p][cur[p]] <= seen[p][2] /\ seen[p][2] <= cert[cur[p]]

\* As long as every write succeeded, a process holds a challenge in memory only
\* for its own order, from inserting it until the validation has ended, and the
\* published one is that of the order being validated.
ChalInv == diskFaults = 0 =>
    /\ \A p \in Procs : \A d \in Domains : chalMem[p][d] # 0 =>
          /\ pc[p] \in {"publish", "validate", "unchallenge"}
          /\ d = cur[p] /\ chalMem[p][d] = order[p]
    /\ \A p \in Procs : pc[p] = "validate" => chalFile[cur[p]] = order[p]

\* Replacing one entry of a table kept per process and domain.
LEMMA TableUpdate ==
    ASSUME NEW f \in [Procs -> PerDomain], NEW p \in Procs, NEW d \in Domains,
           NEW v \in Nat
    PROVE  [f EXCEPT ![p][d] = v] \in [Procs -> PerDomain]
BY DEF PerDomain

\* Replacing one entry of a file table.
LEMMA FileUpdate ==
    ASSUME NEW f \in PerDomain, NEW d \in Domains, NEW v \in Nat
    PROVE  [f EXCEPT ![d] = v] \in PerDomain
BY DEF PerDomain

\* Replacing a half of what a process has read.
LEMMA SeenUpdate ==
    ASSUME NEW f \in [Procs -> Nat \X Nat], NEW p \in Procs, NEW v \in Nat
    PROVE  /\ [f EXCEPT ![p][1] = v] \in [Procs -> Nat \X Nat]
           /\ [f EXCEPT ![p][2] = v] \in [Procs -> Nat \X Nat]
           /\ [f EXCEPT ![p] = <<0, 0>>] \in [Procs -> Nat \X Nat]
           /\ f[p][1] \in Nat /\ f[p][2] \in Nat
OBVIOUS

\* Replacing a process's program counter or its domain.
LEMMA LoopUpdate ==
    /\ \A f \in [Procs -> ProcPC] : \A p \in Procs : \A l \in ProcPC :
          [f EXCEPT ![p] = l] \in [Procs -> ProcPC]
    /\ \A f \in [Procs -> Domains] : \A p \in Procs : \A d \in Domains :
          [f EXCEPT ![p] = d] \in [Procs -> Domains]
OBVIOUS

\* What a table kept per process and domain holds.
LEMMA TableElem ==
    /\ \A f \in PerDomain : \A d \in Domains : f[d] \in Nat
    /\ [d \in Domains |-> 0] \in PerDomain
BY DEF PerDomain

\* What a table holds after one entry is replaced.
LEMMA TableValue ==
    ASSUME NEW f \in [Procs -> [Domains -> Nat]], NEW p \in Procs,
           NEW d \in Domains, NEW v \in Nat
    PROVE  \A q \in Procs : \A e \in Domains :
             [f EXCEPT ![p][d] = v][q][e] = IF q = p /\ e = d THEN v ELSE f[q][e]
OBVIOUS

\* sync_live_certs replaces the certificate of its domain only.
LEMMA SyncKeyLive ==
    ASSUME NEW p \in Procs, SyncKey(p), live \in [Procs -> [Domains -> Nat]],
           cur \in [Procs -> Domains], seen \in [Procs -> Nat \X Nat]
    PROVE  \A q \in Procs : \A e \in Domains :
             \/ live'[q][e] = live[q][e]
             \/ q = p /\ e = cur[p] /\ live'[q][e] = seen[p][2]
<1>1. \/ live' = live
      \/ live' = [live EXCEPT ![p][cur[p]] = seen[p][2]]
  BY Zenon DEF SyncKey
<1>2. cur[p] \in Domains /\ seen[p][2] \in Nat
  OBVIOUS
<1> QED
  BY <1>1, <1>2, TableValue

\* provision_domain's return keeps the lock, the history and the loop typed.
LEMMA ReturnType ==
    ASSUME NEW p \in Procs, NEW ok \in BOOLEAN, Return(p, ok), cur[p] \in Managed,
           lock \in [Domains -> Procs \cup {NoProc}],
           failedProv \in [Procs -> SUBSET Managed],
           order \in [Procs -> Nat], valid \in [Procs -> BOOLEAN],
           pc \in [Procs -> ProcPC], blind \subseteq Procs
    PROVE  /\ lock' \in [Domains -> Procs \cup {NoProc}]
           /\ failedProv' \in [Procs -> SUBSET Managed]
           /\ order' \in [Procs -> Nat] /\ valid' \in [Procs -> BOOLEAN]
           /\ pc' \in [Procs -> ProcPC] /\ blind' \subseteq Procs
<1>1. lock' \in [Domains -> Procs \cup {NoProc}]
  BY DEF Return, Managed
<1>2. failedProv' \in [Procs -> SUBSET Managed]
  BY DEF Return
<1>3. order' \in [Procs -> Nat] /\ valid' \in [Procs -> BOOLEAN]
  BY DEF Return
<1>4. pc' \in [Procs -> ProcPC]
  BY DEF Return, Goto, ProcPC
<1>5. blind' \subseteq Procs
  BY DEF Return
<1> QED
  BY <1>1, <1>2, <1>3, <1>4, <1>5

\* Every step keeps the state well-typed.
LEMMA TypeStep == TypeOK /\ LockInv /\ [Next]_vars => TypeOK'
<1> SUFFICES ASSUME TypeOK, LockInv, [Next]_vars PROVE TypeOK'
  BY Zenon
<1> USE CoveredAssumption, NoProcAssumption, AcmeBounds
<1> USE DEF TypeOK, diskVars, lockVars, boundVars, certStates, scanVars, loopVars,
            certVars, histVars
<1>1. ASSUME NEW p \in Procs, SyncCert(p) PROVE TypeOK'
  <2>1. seen' \in [Procs -> Nat \X Nat]
    BY <1>1, SeenUpdate, TableElem, Zenon DEF SyncCert
  <2> QED
    BY <1>1, <2>1 DEF SyncCert, Goto, ProcPC
<1>2. ASSUME NEW p \in Procs, SyncKey(p) PROVE TypeOK'
  <2>1. seen' \in [Procs -> Nat \X Nat]
    BY <1>2, SeenUpdate DEF SyncKey
  <2>0. seen[p][1] \in Nat /\ seen[p][2] \in Nat /\ cur[p] \in Domains
    BY SeenUpdate
  <2>2. live' \in [Procs -> PerDomain]
    <3>1. [live EXCEPT ![p][cur[p]] = seen[p][2]] \in [Procs -> PerDomain]
      BY <2>0, TableUpdate, Zenon
    <3> QED
      BY <1>2, <3>1, Zenon DEF SyncKey
  <2>3. loaded' \in [Procs -> PerDomain]
    <3>1. [loaded EXCEPT ![p][cur[p]] = seen[p][1]] \in [Procs -> PerDomain]
      BY <2>0, TableUpdate, Zenon
    <3> QED
      BY <1>2, <3>1, Zenon DEF SyncKey
  <2> QED
    BY <1>2, <2>1, <2>2, <2>3 DEF SyncKey, Goto, ProcPC
<1>3. ASSUME NEW p \in Procs, Sleep(p) PROVE TypeOK'
  BY <1>3 DEF Sleep, Goto, CycleEnds, ProcPC
<1>4. ASSUME NEW p \in Procs, RenewalDue(p) PROVE TypeOK'
  BY <1>4 DEF RenewalDue, Goto, CycleEnds, ProcPC
<1>5. ASSUME NEW p \in Procs, Scan(p) PROVE TypeOK'
  BY <1>5 DEF Scan, Goto, CycleEnds, ProcPC
<1>6. ASSUME NEW p \in Procs, NothingPending(p) PROVE TypeOK'
  BY <1>6 DEF NothingPending, Goto, CycleEnds, ProcPC
<1>7. ASSUME NEW p \in Procs, AccountRead(p) PROVE TypeOK'
  <2>1. pc' \in [Procs -> ProcPC] /\ client' \in [Procs -> Nat]
    BY <1>7 DEF AccountRead, Goto, ProcPC
  <2> QED
    BY <1>7, <2>1 DEF AccountRead
<1>8. ASSUME NEW p \in Procs, AccountLock(p) PROVE TypeOK'
  BY <1>8 DEF AccountLock, Goto, CycleEnds, ProcPC
<1>9. ASSUME NEW p \in Procs, AccountRecheck(p) PROVE TypeOK'
  <2>1. client' \in [Procs -> Nat] /\ acctLock' \in Procs \cup {NoProc}
    BY <1>9 DEF AccountRecheck
  <2>0. \/ pc' = [pc EXCEPT ![p] = "connect"]
        \/ pc' = [pc EXCEPT ![p] = "acctCreate"]
    BY <1>9, Zenon DEF AccountRecheck, Goto
  <2>2. pc' \in [Procs -> ProcPC]
    BY <2>0, SMTT(30) DEF ProcPC
  <2> QED
    BY <1>9, <2>1, <2>2, Zenon DEF AccountRecheck
<1>10. ASSUME NEW p \in Procs, AccountCreate(p) PROVE TypeOK'
  BY <1>10 DEF AccountCreate, Goto, CycleEnds, ProcPC
<1>11. ASSUME NEW p \in Procs, AccountFails(p) PROVE TypeOK'
  BY <1>11 DEF AccountFails, Goto, CycleEnds, ProcPC
<1>12. ASSUME NEW p \in Procs, Connect(p) PROVE TypeOK'
  BY <1>12 DEF Connect, Goto, CycleEnds, ProcPC
<1>13. ASSUME NEW p \in Procs, ConnectFails(p) PROVE TypeOK'
  BY <1>13 DEF ConnectFails, Goto, CycleEnds, ProcPC
<1>14. ASSUME NEW p \in Procs, AllProvisioned(p) PROVE TypeOK'
  BY <1>14 DEF AllProvisioned, Goto, CycleEnds, ProcPC
<1>15. ASSUME NEW p \in Procs, NoLongerNeeded(p) PROVE TypeOK'
  <2>1. cur[p] \in Managed
    BY <1>15 DEF NoLongerNeeded, LockInv, InsidePC
  <2>2. Return(p, TRUE)
    BY <1>15, Zenon DEF NoLongerNeeded
  <2>3. /\ lock' \in [Domains -> Procs \cup {NoProc}]
        /\ failedProv' \in [Procs -> SUBSET Managed]
        /\ order' \in [Procs -> Nat] /\ valid' \in [Procs -> BOOLEAN]
        /\ pc' \in [Procs -> ProcPC] /\ blind' \subseteq Procs
    BY <2>1, <2>2, ReturnType, Zenon
  <2> QED
    BY <1>15, <2>3, <2>1 DEF NoLongerNeeded
<1>16. ASSUME NEW p \in Procs, NewOrder(p) PROVE TypeOK'
  BY <1>16 DEF NewOrder, Goto, CycleEnds, ProcPC
<1>17. ASSUME NEW p \in Procs, CaCallFails(p) PROVE TypeOK'
  <2>1. cur[p] \in Managed
    BY <1>17 DEF CaCallFails, LockInv, InsidePC
  <2>2. Return(p, FALSE)
    BY <1>17, Zenon DEF CaCallFails
  <2>3. /\ lock' \in [Domains -> Procs \cup {NoProc}]
        /\ failedProv' \in [Procs -> SUBSET Managed]
        /\ order' \in [Procs -> Nat] /\ valid' \in [Procs -> BOOLEAN]
        /\ pc' \in [Procs -> ProcPC] /\ blind' \subseteq Procs
    BY <2>1, <2>2, ReturnType, Zenon
  <2> QED
    BY <1>17, <2>3, <2>1 DEF CaCallFails
<1>18. ASSUME NEW p \in Procs, InsertChallenge(p) PROVE TypeOK'
  BY <1>18, TableUpdate, TableElem, Zenon DEF InsertChallenge, Goto, ProcPC
<1>19. ASSUME NEW p \in Procs, PublishChallenge(p) PROVE TypeOK'
  BY <1>19, FileUpdate, Zenon DEF PublishChallenge, Goto, ProcPC
<1>20. ASSUME NEW p \in Procs, PublishFails(p) PROVE TypeOK'
  <2>1. cur[p] \in Managed
    BY <1>20 DEF PublishFails, LockInv, InsidePC
  <2>2. Return(p, FALSE)
    BY <1>20, Zenon DEF PublishFails
  <2>3. /\ lock' \in [Domains -> Procs \cup {NoProc}]
        /\ failedProv' \in [Procs -> SUBSET Managed]
        /\ order' \in [Procs -> Nat] /\ valid' \in [Procs -> BOOLEAN]
        /\ pc' \in [Procs -> ProcPC] /\ blind' \subseteq Procs
    BY <2>1, <2>2, ReturnType, Zenon
  <2> QED
    BY <1>20, <2>3, <2>1 DEF PublishFails
<1>21. ASSUME NEW p \in Procs, Validated(p) PROVE TypeOK'
  BY <1>21 DEF Validated, Goto, CycleEnds, ProcPC
<1>22. ASSUME NEW p \in Procs, ValidationFails(p) PROVE TypeOK'
  BY <1>22 DEF ValidationFails, Goto, CycleEnds, ProcPC
<1>23. ASSUME NEW p \in Procs, RemoveChallengeMem(p) PROVE TypeOK'
  BY <1>23, TableUpdate, TableElem, Zenon DEF RemoveChallengeMem, Goto, ProcPC
<1>24. ASSUME NEW p \in Procs, RemoveChallengeFile(p) PROVE TypeOK'
  <2>1. chalFile' \in PerDomain /\ diskFaults' \in Nat
    BY <1>24, FileUpdate DEF RemoveChallengeFile
  <2>2. CASE valid[p]
    BY <1>24, <2>1, <2>2, Zenon DEF RemoveChallengeFile, Goto, ProcPC
  <2>3. CASE ~valid[p]
    <3>1. cur[p] \in Managed
      BY <1>24 DEF RemoveChallengeFile, LockInv, InsidePC
    <3>2. Return(p, FALSE)
      BY <1>24, <2>3, Zenon DEF RemoveChallengeFile
    <3>3. /\ lock' \in [Domains -> Procs \cup {NoProc}]
          /\ failedProv' \in [Procs -> SUBSET Managed]
          /\ order' \in [Procs -> Nat] /\ valid' \in [Procs -> BOOLEAN]
          /\ pc' \in [Procs -> ProcPC] /\ blind' \subseteq Procs
      BY <3>1, <3>2, ReturnType, Zenon
    <3> QED
      BY <1>24, <2>1, <3>3 DEF RemoveChallengeFile
  <2> QED
    BY <2>2, <2>3
<1>25. ASSUME NEW p \in Procs, Finalize(p) PROVE TypeOK'
  BY <1>25 DEF Finalize, Goto, CycleEnds, ProcPC
<1>26. ASSUME NEW p \in Procs, SaveCert(p) PROVE TypeOK'
  BY <1>26, FileUpdate, Zenon DEF SaveCert, Goto, ProcPC
<1>27. ASSUME NEW p \in Procs, SaveKey(p) PROVE TypeOK'
  BY <1>27, FileUpdate, Zenon DEF SaveKey, Goto, ProcPC
<1>28. ASSUME NEW p \in Procs, SaveFails(p) PROVE TypeOK'
  <2>1. cur[p] \in Managed
    BY <1>28 DEF SaveFails, LockInv, InsidePC
  <2>2. Return(p, FALSE)
    BY <1>28, Zenon DEF SaveFails
  <2>3. /\ lock' \in [Domains -> Procs \cup {NoProc}]
        /\ failedProv' \in [Procs -> SUBSET Managed]
        /\ order' \in [Procs -> Nat] /\ valid' \in [Procs -> BOOLEAN]
        /\ pc' \in [Procs -> ProcPC] /\ blind' \subseteq Procs
    BY <2>1, <2>2, ReturnType, Zenon
  <2> QED
    BY <1>28, <2>3, <2>1 DEF SaveFails
<1>29. ASSUME NEW p \in Procs, InsertLive(p) PROVE TypeOK'
  <2>1. cur[p] \in Managed
    BY <1>29 DEF InsertLive, LockInv, InsidePC
  <2>2. PICK ok \in BOOLEAN : Return(p, ok)
    BY <1>29, Zenon DEF InsertLive
  <2>3. /\ lock' \in [Domains -> Procs \cup {NoProc}]
        /\ failedProv' \in [Procs -> SUBSET Managed]
        /\ order' \in [Procs -> Nat] /\ valid' \in [Procs -> BOOLEAN]
        /\ pc' \in [Procs -> ProcPC] /\ blind' \subseteq Procs
    BY <2>1, <2>2, ReturnType, Zenon
  <2>4. live' \in [Procs -> PerDomain]
    <3>1. [live EXCEPT ![p][cur[p]] = order[p]] \in [Procs -> PerDomain]
      BY <2>1, TableUpdate, Zenon DEF Managed
    <3> QED
      BY <1>29, <3>1, Zenon DEF InsertLive
  <2> QED
    BY <1>29, <2>3, <2>4, <2>1, Zenon DEF InsertLive
<1>30. ASSUME NEW p \in Procs, CrashRestart(p) PROVE TypeOK'
  <2>1. /\ lock' \in [Domains -> Procs \cup {NoProc}]
        /\ acctLock' \in Procs \cup {NoProc} /\ crashes' \in Nat
    BY <1>30 DEF CrashRestart
  <2>2. spoiled' \subseteq Managed /\ blind' \subseteq Procs
    BY <1>30 DEF CrashRestart, LockInv, InsidePC
  <2>3. /\ live' \in [Procs -> PerDomain] /\ loaded' \in [Procs -> PerDomain]
        /\ chalMem' \in [Procs -> PerDomain]
    BY <1>30, TableElem DEF CrashRestart
  <2>4. /\ pc' \in [Procs -> ProcPC] /\ tosync' \in [Procs -> SUBSET Domains]
        /\ pending' \in [Procs -> SUBSET Managed]
    BY <1>30 DEF CrashRestart, Goto, ProcPC
  <2>5. failedProv' \in [Procs -> SUBSET Managed] /\ client' \in [Procs -> Nat]
    BY <1>30 DEF CrashRestart
  <2>6. seen' \in [Procs -> Nat \X Nat] /\ order' \in [Procs -> Nat]
    BY <1>30 DEF CrashRestart
  <2>7. valid' \in [Procs -> BOOLEAN] /\ due' \in [Procs -> BOOLEAN]
    BY <1>30 DEF CrashRestart
  <2>8. cur' \in [Procs -> Domains]
    BY <1>30, DomainsAssumption DEF CrashRestart, AnyDomain
  <2> QED
    BY <1>30, <2>1, <2>2, <2>3, <2>4, <2>5, <2>6, <2>7, <2>8, Zenon DEF CrashRestart
<1>31. ASSUME NEW p \in Procs, NEW d \in Domains, SyncMtime(p, d) PROVE TypeOK'
  <2>0. cert[d] \in Nat
    BY TableElem
  <2>1. seen' \in [Procs -> Nat \X Nat]
    <3>1. [seen EXCEPT ![p][1] = cert[d]] \in [Procs -> Nat \X Nat]
      BY <2>0, SeenUpdate, Zenon
    <3> QED
      BY <1>31, <3>1, Zenon DEF SyncMtime
  <2>2. pc' \in [Procs -> ProcPC] /\ cur' \in [Procs -> Domains]
    <3>1. CASE d \in Covered \/ cert[d] = 0 \/ loaded[p][d] = cert[d]
      BY <1>31, <3>1 DEF SyncMtime
    <3>2. CASE ~(d \in Covered \/ cert[d] = 0 \/ loaded[p][d] = cert[d])
      <4>1. "syncCert" \in ProcPC
        BY DEF ProcPC
      <4>2. cur' = [cur EXCEPT ![p] = d] /\ pc' = [pc EXCEPT ![p] = "syncCert"]
        BY <1>31, <3>2, Zenon DEF SyncMtime, Goto
      <4> QED
        BY <4>1, <4>2, LoopUpdate, Zenon
    <3> QED
      BY <3>1, <3>2
  <2>3. tosync' \in [Procs -> SUBSET Domains]
    BY <1>31 DEF SyncMtime
  <2> QED
    BY <1>31, <2>1, <2>2, <2>3 DEF SyncMtime
<1>32. ASSUME NEW p \in Procs, NEW d \in Domains, TryLock(p, d) PROVE TypeOK'
  <2>4. pc' \in [Procs -> ProcPC]
    BY <1>32 DEF TryLock, Goto, ProcPC
  <2>1. pc' \in [Procs -> ProcPC] /\ cur' \in [Procs -> Domains]
    <3>1. CASE lock[d] = NoProc
      <4>1. cur' = [cur EXCEPT ![p] = d]
        BY <1>32, <3>1, Zenon DEF TryLock
      <4> QED
        BY <2>4, <4>1, LoopUpdate, Zenon
    <3>2. CASE lock[d] # NoProc
      BY <1>32, <2>4, <3>2 DEF TryLock
    <3> QED
      BY <3>1, <3>2
  <2>2. lock' \in [Domains -> Procs \cup {NoProc}]
    BY <1>32 DEF TryLock
  <2>3. pending' \in [Procs -> SUBSET Managed]
    BY <1>32 DEF TryLock
  <2> QED
    BY <1>32, <2>1, <2>2, <2>3 DEF TryLock
<1>33. ASSUME NEW p \in Procs, NEW d \in Domains, LockFails(p, d) PROVE TypeOK'
  BY <1>33 DEF LockFails, Goto, CycleEnds, ProcPC
<1>34. ASSUME NEW d \in Domains, EnterRenewalWindow(d) PROVE TypeOK'
  <2>1. cert[d] \in Nat
    BY TableElem
  <2>2. expiring' \subseteq Nat
    BY <1>34, <2>1, Zenon DEF EnterRenewalWindow
  <2>3. renewals' \in Nat
    BY <1>34 DEF EnterRenewalWindow
  <2> QED
    BY <1>34, <2>2, <2>3 DEF EnterRenewalWindow
<1>35. CASE UNCHANGED vars
  BY <1>35 DEF vars
<1>36. ASSUME NEW p \in Procs, Open(p) PROVE TypeOK'
  BY <1>36 DEF Open, Goto, ProcPC
<1>37. ASSUME NEW p \in Procs, OpenFails(p) PROVE TypeOK'
  BY <1>37 DEF OpenFails, Goto, ProcPC
<1>38. ASSUME NEW p \in Procs, NEW d \in Domains, SyncReadFails(p, d) PROVE TypeOK'
  <2>1. seen' \in [Procs -> Nat \X Nat]
    BY <1>38, SeenUpdate, Zenon DEF SyncReadFails
  <2> QED
    BY <1>38, <2>1 DEF SyncReadFails, Goto, ProcPC
<1>39. ASSUME NEW p \in Procs, NEW bad \in SUBSET Managed, ScanFails(p, bad)
       PROVE  TypeOK'
  BY <1>39 DEF ScanFails, Goto, ProcPC
<1>40. ASSUME NEW p \in Procs, RecheckFails(p) PROVE TypeOK'
  BY <1>40 DEF RecheckFails
<1>41. ASSUME NEW p \in Procs, FinalizeUnusable(p) PROVE TypeOK'
  <2>1. order[p] \in Nat
    OBVIOUS
  <2>2. expiring' \subseteq Nat /\ unusable' \subseteq Nat
    BY <1>41, <2>1, ZenonT(30) DEF FinalizeUnusable
  <2> QED
    BY <1>41, <2>2 DEF FinalizeUnusable, Goto, ProcPC
<1>42. QED
  BY <1>1, <1>2, <1>3, <1>4, <1>5, <1>6, <1>7, <1>8, <1>9, <1>10, <1>11,
     <1>12, <1>13, <1>14, <1>15, <1>16, <1>17, <1>18, <1>19, <1>20, <1>21,
     <1>22, <1>23, <1>24, <1>25, <1>26, <1>27, <1>28, <1>29, <1>30, <1>31,
     <1>32, <1>33, <1>34, <1>35, <1>36, <1>37, <1>38,
     <1>39, <1>40, <1>41, ZenonT(30) DEF Next, Succeeds, Fails

\* The steps of provision_domain under the lock.
InsideAct(p) ==
    \/ NoLongerNeeded(p) \/ RecheckFails(p) \/ NewOrder(p) \/ CaCallFails(p)
    \/ InsertChallenge(p) \/ PublishChallenge(p) \/ PublishFails(p)
    \/ Validated(p) \/ ValidationFails(p) \/ RemoveChallengeMem(p)
    \/ RemoveChallengeFile(p) \/ Finalize(p) \/ FinalizeUnusable(p)
    \/ SaveCert(p) \/ SaveKey(p) \/ SaveFails(p) \/ InsertLive(p)

-----------------------------------------------------------------------------
(* What the steps leave alone.  Most of them disturb no invariant but one,  *)
(* and are sorted here by what they may change.                            *)

\* A step outside provision_domain, or one that changes neither the place of a
\* process nor its domain.
OutsideStep ==
    /\ cert' = cert /\ key' = key /\ chalFile' = chalFile /\ chalMem' = chalMem
    /\ lock' = lock /\ order' = order /\ spoiled' = spoiled /\ blind' = blind
    /\ expiring \subseteq expiring'
    /\ orders' \in {orders, orders + 1}
    /\ diskFaults' \in {diskFaults, diskFaults + 1}
    /\ \A q \in Procs : \/ pc'[q] = pc[q] /\ cur'[q] = cur[q]
                        \/ pc[q] \notin InsidePC /\ pc'[q] \notin InsidePC

\* A step that takes an order on, before its certificate is stored.
AdvanceStep ==
    /\ cert' = cert /\ key' = key /\ lock' = lock /\ cur' = cur
    /\ order' = order /\ orders' = orders /\ spoiled' = spoiled
    /\ expiring \subseteq expiring' /\ blind \subseteq blind'
    /\ \A q \in Procs : pc'[q] # pc[q] => pc[q] \in OpenPC /\ pc'[q] \in OpenPC

\* provision_domain of p returns.
ReturnStep(p) ==
    /\ pc[p] \in InsidePC
    /\ \A q \in Procs : pc'[q] = IF q = p THEN "pick" ELSE pc[q]
    /\ \A d \in Domains : lock'[d] = IF d = cur[p] THEN NoProc ELSE lock[d]
    /\ \A q \in Procs \ {p} : order'[q] = order[q]
    /\ cert' = cert /\ key' = key /\ cur' = cur /\ orders' = orders
    /\ expiring' = expiring /\ blind' = blind \ {p}
    /\ spoiled \subseteq spoiled'
    /\ pc[p] = "saveKey" => cur[p] \in spoiled'

\* No served or stored certificate changes and nobody reads one.
LiveQuiet ==
    /\ live' = live /\ cert' = cert
    /\ \A q \in Procs : pc'[q] = "syncKey" =>
          pc[q] = "syncKey" /\ cur'[q] = cur[q] /\ seen'[q] = seen[q]

\* Nobody goes for the account key.
AcctQuiet ==
    /\ acct' = acct /\ acctLock' = acctLock
    /\ \A q \in Procs : client'[q] \in {client[q], 0}
    /\ \A q \in Procs : pc'[q] \in {"acctCheck", "acctCreate"} => pc'[q] = pc[q]

\* The program counter after a step that moves one process.
LEMMA Moved ==
    ASSUME NEW p \in Procs, NEW l, pc \in [Procs -> ProcPC],
           pc' = [pc EXCEPT ![p] = l]
    PROVE  \A q \in Procs : pc'[q] = IF q = p THEN l ELSE pc[q]
OBVIOUS

\* The steps outside provision_domain.
LEMMA OutsideFrame ==
    ASSUME TypeOK, [Next]_vars
    PROVE  \/ OutsideStep /\ LiveQuiet /\ AcctQuiet
           \/ \E p \in Procs :
                \/ OutsideStep /\ AcctQuiet /\ (SyncCert(p) \/ SyncKey(p))
                \/ /\ OutsideStep /\ LiveQuiet
                   /\ \/ AccountRead(p) \/ AccountLock(p) \/ AccountRecheck(p)
                      \/ AccountCreate(p) \/ AccountFails(p)
                \/ InsideAct(p) \/ CrashRestart(p)
                \/ \E d \in Domains : TryLock(p, d)
<1>0. /\ pc \in [Procs -> ProcPC] /\ cur \in [Procs -> Domains]
      /\ client \in [Procs -> Nat] /\ seen \in [Procs -> Nat \X Nat]
      /\ orders \in Nat /\ diskFaults \in Nat
  BY ZenonT(30) DEF TypeOK
<1> USE <1>0
<1>1. ASSUME NEW p \in Procs, Open(p)
      PROVE  OutsideStep /\ LiveQuiet /\ AcctQuiet
  <2>1. /\ pc[p] = "open"
        /\ pc' = [pc EXCEPT ![p] = "sync"]
        /\ cur' = cur
        /\ seen' = seen
        /\ live' = live
        /\ acct' = acct /\ acctLock' = acctLock
        /\ client' = client
        /\ cert' = cert /\ key' = key /\ chalFile' = chalFile /\ chalMem' = chalMem
        /\ lock' = lock /\ order' = order /\ spoiled' = spoiled /\ blind' = blind
        /\ expiring' = expiring
        /\ orders' = orders
        /\ diskFaults' = diskFaults
    BY <1>1, Zenon DEF Open, Goto, CycleEnds, Return, diskVars, lockVars, boundVars,
       certStates, scanVars, loopVars, certVars, histVars
  <2> QED
    BY <2>1, SMTT(30) DEF OutsideStep, LiveQuiet, AcctQuiet, InsidePC
<1>2. ASSUME NEW p \in Procs, OpenFails(p)
      PROVE  OutsideStep /\ LiveQuiet /\ AcctQuiet
  <2>1. /\ pc[p] = "open"
        /\ pc' = [pc EXCEPT ![p] = "stopped"]
        /\ cur' = cur
        /\ seen' = seen
        /\ live' = live
        /\ acct' = acct /\ acctLock' = acctLock
        /\ client' = client
        /\ cert' = cert /\ key' = key /\ chalFile' = chalFile /\ chalMem' = chalMem
        /\ lock' = lock /\ order' = order /\ spoiled' = spoiled /\ blind' = blind
        /\ expiring' = expiring
        /\ orders' = orders
        /\ diskFaults' = diskFaults + 1
    BY <1>2, Zenon DEF OpenFails, Goto, CycleEnds, Return, diskVars, lockVars,
       boundVars, certStates, scanVars, loopVars, certVars, histVars
  <2> QED
    BY <2>1, SMTT(30) DEF OutsideStep, LiveQuiet, AcctQuiet, InsidePC
<1>3. ASSUME NEW p \in Procs, Sleep(p)
      PROVE  OutsideStep /\ LiveQuiet /\ AcctQuiet
  <2>1. /\ pc' = pc
        /\ cur' = cur
        /\ seen' = seen
        /\ live' = live
        /\ acct' = acct /\ acctLock' = acctLock
        /\ client' = client
        /\ cert' = cert /\ key' = key /\ chalFile' = chalFile /\ chalMem' = chalMem
        /\ lock' = lock /\ order' = order /\ spoiled' = spoiled /\ blind' = blind
        /\ expiring' = expiring
        /\ orders' = orders
        /\ diskFaults' = diskFaults
    BY <1>3, Zenon DEF Sleep, Goto, CycleEnds, Return, diskVars, lockVars,
       boundVars, certStates, scanVars, loopVars, certVars, histVars
  <2> QED
    BY <2>1, SMTT(30) DEF OutsideStep, LiveQuiet, AcctQuiet, InsidePC
<1>4. ASSUME NEW p \in Procs, RenewalDue(p)
      PROVE  OutsideStep /\ LiveQuiet /\ AcctQuiet
  <2>1. /\ pc' = pc
        /\ cur' = cur
        /\ seen' = seen
        /\ live' = live
        /\ acct' = acct /\ acctLock' = acctLock
        /\ client' = client
        /\ cert' = cert /\ key' = key /\ chalFile' = chalFile /\ chalMem' = chalMem
        /\ lock' = lock /\ order' = order /\ spoiled' = spoiled /\ blind' = blind
        /\ expiring' = expiring
        /\ orders' = orders
        /\ diskFaults' = diskFaults
    BY <1>4, Zenon DEF RenewalDue, Goto, CycleEnds, Return, diskVars, lockVars,
       boundVars, certStates, scanVars, loopVars, certVars, histVars
  <2> QED
    BY <2>1, SMTT(30) DEF OutsideStep, LiveQuiet, AcctQuiet, InsidePC
<1>5. ASSUME NEW p \in Procs, Scan(p)
      PROVE  OutsideStep /\ LiveQuiet /\ AcctQuiet
  <2>1. /\ pc[p] = "sync"
        /\ pc' = [pc EXCEPT ![p] = "scanned"]
        /\ cur' = cur
        /\ seen' = seen
        /\ live' = live
        /\ acct' = acct /\ acctLock' = acctLock
        /\ client' = client
        /\ cert' = cert /\ key' = key /\ chalFile' = chalFile /\ chalMem' = chalMem
        /\ lock' = lock /\ order' = order /\ spoiled' = spoiled /\ blind' = blind
        /\ expiring' = expiring
        /\ orders' = orders
        /\ diskFaults' = diskFaults
    BY <1>5, Zenon DEF Scan, Goto, CycleEnds, Return, diskVars, lockVars, boundVars,
       certStates, scanVars, loopVars, certVars, histVars
  <2> QED
    BY <2>1, SMTT(30) DEF OutsideStep, LiveQuiet, AcctQuiet, InsidePC
<1>6. ASSUME NEW p \in Procs, NEW bad \in SUBSET Managed, ScanFails(p, bad)
      PROVE  OutsideStep /\ LiveQuiet /\ AcctQuiet
  <2>1. /\ pc[p] = "sync"
        /\ pc' = [pc EXCEPT ![p] = "scanned"]
        /\ cur' = cur
        /\ seen' = seen
        /\ live' = live
        /\ acct' = acct /\ acctLock' = acctLock
        /\ client' = client
        /\ cert' = cert /\ key' = key /\ chalFile' = chalFile /\ chalMem' = chalMem
        /\ lock' = lock /\ order' = order /\ spoiled' = spoiled /\ blind' = blind
        /\ expiring' = expiring
        /\ orders' = orders
        /\ diskFaults' = diskFaults + 1
    BY <1>6, Zenon DEF ScanFails, Goto, CycleEnds, Return, diskVars, lockVars,
       boundVars, certStates, scanVars, loopVars, certVars, histVars
  <2> QED
    BY <2>1, SMTT(30) DEF OutsideStep, LiveQuiet, AcctQuiet, InsidePC
<1>7. ASSUME NEW p \in Procs, NothingPending(p)
      PROVE  OutsideStep /\ LiveQuiet /\ AcctQuiet
  <2>1. /\ pc[p] = "scanned"
        /\ pc' = [pc EXCEPT ![p] = "sync"]
        /\ cur' = cur
        /\ seen' = seen
        /\ live' = live
        /\ acct' = acct /\ acctLock' = acctLock
        /\ client' = [client EXCEPT ![p] = 0]
        /\ cert' = cert /\ key' = key /\ chalFile' = chalFile /\ chalMem' = chalMem
        /\ lock' = lock /\ order' = order /\ spoiled' = spoiled /\ blind' = blind
        /\ expiring' = expiring
        /\ orders' = orders
        /\ diskFaults' = diskFaults
    BY <1>7, Zenon DEF NothingPending, Goto, CycleEnds, Return, diskVars, lockVars,
       boundVars, certStates, scanVars, loopVars, certVars, histVars
  <2> QED
    BY <2>1, SMTT(30) DEF OutsideStep, LiveQuiet, AcctQuiet, InsidePC
<1>8. ASSUME NEW p \in Procs, Connect(p)
      PROVE  OutsideStep /\ LiveQuiet /\ AcctQuiet
  <2>1. /\ pc[p] = "connect"
        /\ pc' = [pc EXCEPT ![p] = "pick"]
        /\ cur' = cur
        /\ seen' = seen
        /\ live' = live
        /\ acct' = acct /\ acctLock' = acctLock
        /\ client' = client
        /\ cert' = cert /\ key' = key /\ chalFile' = chalFile /\ chalMem' = chalMem
        /\ lock' = lock /\ order' = order /\ spoiled' = spoiled /\ blind' = blind
        /\ expiring' = expiring
        /\ orders' = orders
        /\ diskFaults' = diskFaults
    BY <1>8, Zenon DEF Connect, Goto, CycleEnds, Return, diskVars, lockVars,
       boundVars, certStates, scanVars, loopVars, certVars, histVars
  <2> QED
    BY <2>1, SMTT(30) DEF OutsideStep, LiveQuiet, AcctQuiet, InsidePC
<1>9. ASSUME NEW p \in Procs, ConnectFails(p)
      PROVE  OutsideStep /\ LiveQuiet /\ AcctQuiet
  <2>1. /\ pc[p] = "connect"
        /\ pc' = [pc EXCEPT ![p] = "sync"]
        /\ cur' = cur
        /\ seen' = seen
        /\ live' = live
        /\ acct' = acct /\ acctLock' = acctLock
        /\ client' = [client EXCEPT ![p] = 0]
        /\ cert' = cert /\ key' = key /\ chalFile' = chalFile /\ chalMem' = chalMem
        /\ lock' = lock /\ order' = order /\ spoiled' = spoiled /\ blind' = blind
        /\ expiring' = expiring
        /\ orders' = orders
        /\ diskFaults' = diskFaults
    BY <1>9, Zenon DEF ConnectFails, Goto, CycleEnds, Return, diskVars, lockVars,
       boundVars, certStates, scanVars, loopVars, certVars, histVars
  <2> QED
    BY <2>1, SMTT(30) DEF OutsideStep, LiveQuiet, AcctQuiet, InsidePC
<1>10. ASSUME NEW p \in Procs, AllProvisioned(p)
      PROVE  OutsideStep /\ LiveQuiet /\ AcctQuiet
  <2>1. /\ pc[p] = "pick"
        /\ pc' = [pc EXCEPT ![p] = "sync"]
        /\ cur' = cur
        /\ seen' = seen
        /\ live' = live
        /\ acct' = acct /\ acctLock' = acctLock
        /\ client' = [client EXCEPT ![p] = 0]
        /\ cert' = cert /\ key' = key /\ chalFile' = chalFile /\ chalMem' = chalMem
        /\ lock' = lock /\ order' = order /\ spoiled' = spoiled /\ blind' = blind
        /\ expiring' = expiring
        /\ orders' = orders
        /\ diskFaults' = diskFaults
    BY <1>10, Zenon DEF AllProvisioned, Goto, CycleEnds, Return, diskVars, lockVars,
       boundVars, certStates, scanVars, loopVars, certVars, histVars
  <2> QED
    BY <2>1, SMTT(30) DEF OutsideStep, LiveQuiet, AcctQuiet, InsidePC
<1>11. ASSUME NEW p \in Procs, NEW d \in Domains, LockFails(p, d)
      PROVE  OutsideStep /\ LiveQuiet /\ AcctQuiet
  <2>1. /\ pc' = pc
        /\ cur' = cur
        /\ seen' = seen
        /\ live' = live
        /\ acct' = acct /\ acctLock' = acctLock
        /\ client' = client
        /\ cert' = cert /\ key' = key /\ chalFile' = chalFile /\ chalMem' = chalMem
        /\ lock' = lock /\ order' = order /\ spoiled' = spoiled /\ blind' = blind
        /\ expiring' = expiring
        /\ orders' = orders
        /\ diskFaults' = diskFaults + 1
    BY <1>11, Zenon DEF LockFails, Goto, CycleEnds, Return, diskVars, lockVars,
       boundVars, certStates, scanVars, loopVars, certVars, histVars
  <2> QED
    BY <2>1, SMTT(30) DEF OutsideStep, LiveQuiet, AcctQuiet, InsidePC
<1>12. ASSUME NEW p \in Procs, NEW d \in Domains, SyncMtime(p, d)
      PROVE  OutsideStep /\ LiveQuiet /\ AcctQuiet
  <2>1. /\ pc[p] = "sync"
        /\ \/ pc' = pc /\ cur' = cur /\ seen' = seen
           \/ /\ pc' = [pc EXCEPT ![p] = "syncCert"]
              /\ cur' = [cur EXCEPT ![p] = d]
              /\ seen' = [seen EXCEPT ![p][1] = cert[d]]
        /\ live' = live
        /\ acct' = acct /\ acctLock' = acctLock
        /\ client' = client
        /\ cert' = cert /\ key' = key /\ chalFile' = chalFile /\ chalMem' = chalMem
        /\ lock' = lock /\ order' = order /\ spoiled' = spoiled /\ blind' = blind
        /\ expiring' = expiring
        /\ orders' = orders
        /\ diskFaults' = diskFaults
    BY <1>12, Zenon DEF SyncMtime, Goto, CycleEnds, Return, diskVars, lockVars,
       boundVars, certStates, scanVars, loopVars, certVars, histVars
  <2> QED
    BY <2>1, SMTT(30) DEF OutsideStep, LiveQuiet, AcctQuiet, InsidePC
<1>13. ASSUME NEW p \in Procs, NEW d \in Domains, SyncReadFails(p, d)
      PROVE  OutsideStep /\ LiveQuiet /\ AcctQuiet
  <2>1. /\ \/ pc[p] = "sync"
           \/ pc[p] = "syncCert"
           \/ pc[p] = "syncKey"
        /\ pc' = [pc EXCEPT ![p] = "sync"]
        /\ cur' = cur
        /\ seen' = [seen EXCEPT ![p] = <<0, 0>>]
        /\ live' = live
        /\ acct' = acct /\ acctLock' = acctLock
        /\ client' = client
        /\ cert' = cert /\ key' = key /\ chalFile' = chalFile /\ chalMem' = chalMem
        /\ lock' = lock /\ order' = order /\ spoiled' = spoiled /\ blind' = blind
        /\ expiring' = expiring
        /\ orders' = orders
        /\ diskFaults' = diskFaults + 1
    BY <1>13, Zenon DEF SyncReadFails, Goto, CycleEnds, Return, diskVars, lockVars,
       boundVars, certStates, scanVars, loopVars, certVars, histVars
  <2> QED
    BY <2>1, SMTT(30) DEF OutsideStep, LiveQuiet, AcctQuiet, InsidePC
<1>14. ASSUME NEW p \in Procs, SyncCert(p)
      PROVE  OutsideStep /\ AcctQuiet
  <2>1. /\ pc[p] = "syncCert"
        /\ pc' = [pc EXCEPT ![p] = "syncKey"]
        /\ cur' = cur
        /\ acct' = acct /\ acctLock' = acctLock
        /\ client' = client
        /\ cert' = cert /\ key' = key /\ chalFile' = chalFile /\ chalMem' = chalMem
        /\ lock' = lock /\ order' = order /\ spoiled' = spoiled /\ blind' = blind
        /\ expiring' = expiring
        /\ orders' = orders
        /\ diskFaults' = diskFaults
    BY <1>14, Zenon DEF SyncCert, Goto, CycleEnds, Return, diskVars, lockVars,
       boundVars, certStates, scanVars, loopVars, certVars, histVars
  <2> QED
    BY <2>1, SMTT(30) DEF OutsideStep, AcctQuiet, InsidePC
<1>15. ASSUME NEW p \in Procs, SyncKey(p)
      PROVE  OutsideStep /\ AcctQuiet
  <2>1. /\ pc[p] = "syncKey"
        /\ pc' = [pc EXCEPT ![p] = "sync"]
        /\ cur' = cur
        /\ acct' = acct /\ acctLock' = acctLock
        /\ client' = client
        /\ cert' = cert /\ key' = key /\ chalFile' = chalFile /\ chalMem' = chalMem
        /\ lock' = lock /\ order' = order /\ spoiled' = spoiled /\ blind' = blind
        /\ expiring' = expiring
        /\ orders' = orders
        /\ diskFaults' = diskFaults
    BY <1>15, Zenon DEF SyncKey, Goto, CycleEnds, Return, diskVars, lockVars,
       boundVars, certStates, scanVars, loopVars, certVars, histVars
  <2> QED
    BY <2>1, SMTT(30) DEF OutsideStep, AcctQuiet, InsidePC
<1>16. ASSUME NEW p \in Procs, AccountRead(p)
      PROVE  OutsideStep /\ LiveQuiet
  <2>1. /\ pc[p] = "scanned"
        /\ \/ pc' = [pc EXCEPT ![p] = "connect"]
           \/ pc' = [pc EXCEPT ![p] = "acctLock"]
        /\ cur' = cur
        /\ seen' = seen
        /\ live' = live
        /\ cert' = cert /\ key' = key /\ chalFile' = chalFile /\ chalMem' = chalMem
        /\ lock' = lock /\ order' = order /\ spoiled' = spoiled /\ blind' = blind
        /\ expiring' = expiring
        /\ orders' = orders
        /\ diskFaults' = diskFaults
    BY <1>16, Zenon DEF AccountRead, Goto, CycleEnds, Return, diskVars, lockVars,
       boundVars, certStates, scanVars, loopVars, certVars, histVars
  <2> QED
    BY <2>1, SMTT(30) DEF OutsideStep, LiveQuiet, InsidePC
<1>17. ASSUME NEW p \in Procs, AccountLock(p)
      PROVE  OutsideStep /\ LiveQuiet
  <2>1. /\ pc[p] = "acctLock"
        /\ pc' = [pc EXCEPT ![p] = "acctCheck"]
        /\ cur' = cur
        /\ seen' = seen
        /\ live' = live
        /\ cert' = cert /\ key' = key /\ chalFile' = chalFile /\ chalMem' = chalMem
        /\ lock' = lock /\ order' = order /\ spoiled' = spoiled /\ blind' = blind
        /\ expiring' = expiring
        /\ orders' = orders
        /\ diskFaults' = diskFaults
    BY <1>17, Zenon DEF AccountLock, Goto, CycleEnds, Return, diskVars, lockVars,
       boundVars, certStates, scanVars, loopVars, certVars, histVars
  <2> QED
    BY <2>1, SMTT(30) DEF OutsideStep, LiveQuiet, InsidePC
<1>18. ASSUME NEW p \in Procs, AccountRecheck(p)
      PROVE  OutsideStep /\ LiveQuiet
  <2>1. /\ pc[p] = "acctCheck"
        /\ \/ pc' = [pc EXCEPT ![p] = "connect"]
           \/ pc' = [pc EXCEPT ![p] = "acctCreate"]
        /\ cur' = cur
        /\ seen' = seen
        /\ live' = live
        /\ cert' = cert /\ key' = key /\ chalFile' = chalFile /\ chalMem' = chalMem
        /\ lock' = lock /\ order' = order /\ spoiled' = spoiled /\ blind' = blind
        /\ expiring' = expiring
        /\ orders' = orders
        /\ diskFaults' = diskFaults
    BY <1>18, Zenon DEF AccountRecheck, Goto, CycleEnds, Return, diskVars, lockVars,
       boundVars, certStates, scanVars, loopVars, certVars, histVars
  <2> QED
    BY <2>1, SMTT(30) DEF OutsideStep, LiveQuiet, InsidePC
<1>19. ASSUME NEW p \in Procs, AccountCreate(p)
      PROVE  OutsideStep /\ LiveQuiet
  <2>1. /\ pc[p] = "acctCreate"
        /\ pc' = [pc EXCEPT ![p] = "connect"]
        /\ cur' = cur
        /\ seen' = seen
        /\ live' = live
        /\ cert' = cert /\ key' = key /\ chalFile' = chalFile /\ chalMem' = chalMem
        /\ lock' = lock /\ order' = order /\ spoiled' = spoiled /\ blind' = blind
        /\ expiring' = expiring
        /\ orders' = orders + 1
        /\ diskFaults' = diskFaults
    BY <1>19, Zenon DEF AccountCreate, Goto, CycleEnds, Return, diskVars, lockVars,
       boundVars, certStates, scanVars, loopVars, certVars, histVars
  <2> QED
    BY <2>1, SMTT(30) DEF OutsideStep, LiveQuiet, InsidePC
<1>20. ASSUME NEW p \in Procs, AccountFails(p)
      PROVE  OutsideStep /\ LiveQuiet
  <2>1. /\ \/ pc[p] = "scanned" \/ pc[p] = "acctLock"
           \/ pc[p] = "acctCheck" \/ pc[p] = "acctCreate"
        /\ pc' = [pc EXCEPT ![p] = "sync"]
        /\ cur' = cur
        /\ seen' = seen
        /\ live' = live
        /\ cert' = cert /\ key' = key /\ chalFile' = chalFile /\ chalMem' = chalMem
        /\ lock' = lock /\ order' = order /\ spoiled' = spoiled /\ blind' = blind
        /\ expiring' = expiring
        /\ orders' = orders
        /\ diskFaults' = diskFaults + 1
    BY <1>20, Zenon DEF AccountFails, Goto, CycleEnds, Return, diskVars, lockVars,
       boundVars, certStates, scanVars, loopVars, certVars, histVars
  <2> QED
    BY <2>1, SMTT(30) DEF OutsideStep, LiveQuiet, InsidePC
<1>21. ASSUME NEW d \in Domains, EnterRenewalWindow(d)
      PROVE  OutsideStep /\ LiveQuiet /\ AcctQuiet
  <2>1. /\ cert' = cert /\ key' = key /\ chalFile' = chalFile /\ chalMem' = chalMem
        /\ lock' = lock /\ order' = order /\ spoiled' = spoiled /\ blind' = blind
        /\ expiring' = expiring \cup {cert[d]}
        /\ orders' = orders /\ diskFaults' = diskFaults /\ live' = live
        /\ acct' = acct /\ acctLock' = acctLock /\ client' = client
        /\ pc' = pc /\ cur' = cur /\ seen' = seen
    BY <1>21, Zenon DEF EnterRenewalWindow, diskVars, lockVars, boundVars,
       certStates, scanVars, loopVars, certVars, histVars
  <2> QED
    BY <2>1, SMTT(30) DEF OutsideStep, LiveQuiet, AcctQuiet
<1>22. CASE UNCHANGED vars
  <2>1. /\ cert' = cert /\ key' = key /\ chalFile' = chalFile /\ chalMem' = chalMem
        /\ lock' = lock /\ order' = order /\ spoiled' = spoiled /\ blind' = blind
        /\ expiring' = expiring
        /\ orders' = orders /\ diskFaults' = diskFaults /\ live' = live
        /\ acct' = acct /\ acctLock' = acctLock /\ client' = client
        /\ pc' = pc /\ cur' = cur /\ seen' = seen
    BY <1>22, Zenon DEF vars, diskVars, lockVars, boundVars, certStates, scanVars,
       loopVars, certVars, histVars
  <2> QED
    BY <2>1, SMTT(30) DEF OutsideStep, LiveQuiet, AcctQuiet
<1>23. QED
  BY <1>1, <1>2, <1>3, <1>4, <1>5, <1>6, <1>7, <1>8, <1>9, <1>10, <1>11, <1>12,
     <1>13, <1>14, <1>15, <1>16, <1>17, <1>18, <1>19, <1>20, <1>21, <1>22,
     ZenonT(60) DEF Next, Succeeds, Fails, InsideAct

\* The steps of provision_domain.
LEMMA InsideFrame ==
    ASSUME TypeOK, NEW p \in Procs, InsideAct(p)
    PROVE  /\ AcctQuiet
           /\ \/ LiveQuiet /\ (AdvanceStep \/ ReturnStep(p) \/ NewOrder(p) \/ SaveKey(p))
              \/ SaveCert(p)
              \/ InsertLive(p) /\ ReturnStep(p)
<1>0. /\ pc \in [Procs -> ProcPC] /\ cur \in [Procs -> Domains]
      /\ client \in [Procs -> Nat] /\ seen \in [Procs -> Nat \X Nat]
      /\ lock \in [Domains -> Procs \cup {NoProc}] /\ order \in [Procs -> Nat]
  BY ZenonT(30) DEF TypeOK
<1> USE <1>0
<1>1. ASSUME RecheckFails(p) PROVE AcctQuiet /\ LiveQuiet /\ AdvanceStep
  <2>1. /\ pc' = pc
        /\ acct' = acct /\ acctLock' = acctLock /\ client' = client
        /\ cert' = cert /\ key' = key /\ cur' = cur /\ orders' = orders
        /\ live' = live /\ seen' = seen
        /\ lock' = lock /\ order' = order /\ spoiled' = spoiled
        /\ expiring' = expiring /\ blind' = blind \cup {p}
    BY <1>1, Zenon DEF RecheckFails, Goto, Return, diskVars, lockVars, boundVars,
       certStates, scanVars, loopVars, certVars, histVars
  <2> QED
    BY <2>1, SMTT(30) DEF LiveQuiet, AcctQuiet, AdvanceStep, OpenPC
<1>2. ASSUME InsertChallenge(p) PROVE AcctQuiet /\ LiveQuiet /\ AdvanceStep
  <2>1. /\ pc[p] = "challenge"
        /\ pc' = [pc EXCEPT ![p] = "publish"]
        /\ acct' = acct /\ acctLock' = acctLock /\ client' = client
        /\ cert' = cert /\ key' = key /\ cur' = cur /\ orders' = orders
        /\ live' = live /\ seen' = seen
        /\ lock' = lock /\ order' = order /\ spoiled' = spoiled
        /\ expiring' = expiring /\ blind' = blind
    BY <1>2, Zenon DEF InsertChallenge, Goto, Return, diskVars, lockVars, boundVars,
       certStates, scanVars, loopVars, certVars, histVars
  <2> QED
    BY <2>1, SMTT(30) DEF LiveQuiet, AcctQuiet, AdvanceStep, OpenPC
<1>3. ASSUME PublishChallenge(p) PROVE AcctQuiet /\ LiveQuiet /\ AdvanceStep
  <2>1. /\ pc[p] = "publish"
        /\ pc' = [pc EXCEPT ![p] = "validate"]
        /\ acct' = acct /\ acctLock' = acctLock /\ client' = client
        /\ cert' = cert /\ key' = key /\ cur' = cur /\ orders' = orders
        /\ live' = live /\ seen' = seen
        /\ lock' = lock /\ order' = order /\ spoiled' = spoiled
        /\ expiring' = expiring /\ blind' = blind
    BY <1>3, Zenon DEF PublishChallenge, Goto, Return, diskVars, lockVars,
       boundVars, certStates, scanVars, loopVars, certVars, histVars
  <2> QED
    BY <2>1, SMTT(30) DEF LiveQuiet, AcctQuiet, AdvanceStep, OpenPC
<1>4. ASSUME Validated(p) PROVE AcctQuiet /\ LiveQuiet /\ AdvanceStep
  <2>1. /\ pc[p] = "validate"
        /\ pc' = [pc EXCEPT ![p] = "unchallenge"]
        /\ acct' = acct /\ acctLock' = acctLock /\ client' = client
        /\ cert' = cert /\ key' = key /\ cur' = cur /\ orders' = orders
        /\ live' = live /\ seen' = seen
        /\ lock' = lock /\ order' = order /\ spoiled' = spoiled
        /\ expiring' = expiring /\ blind' = blind
    BY <1>4, Zenon DEF Validated, Goto, Return, diskVars, lockVars, boundVars,
       certStates, scanVars, loopVars, certVars, histVars
  <2> QED
    BY <2>1, SMTT(30) DEF LiveQuiet, AcctQuiet, AdvanceStep, OpenPC
<1>5. ASSUME ValidationFails(p) PROVE AcctQuiet /\ LiveQuiet /\ AdvanceStep
  <2>1. /\ pc[p] = "validate"
        /\ pc' = [pc EXCEPT ![p] = "unchallenge"]
        /\ acct' = acct /\ acctLock' = acctLock /\ client' = client
        /\ cert' = cert /\ key' = key /\ cur' = cur /\ orders' = orders
        /\ live' = live /\ seen' = seen
        /\ lock' = lock /\ order' = order /\ spoiled' = spoiled
        /\ expiring' = expiring /\ blind' = blind
    BY <1>5, Zenon DEF ValidationFails, Goto, Return, diskVars, lockVars, boundVars,
       certStates, scanVars, loopVars, certVars, histVars
  <2> QED
    BY <2>1, SMTT(30) DEF LiveQuiet, AcctQuiet, AdvanceStep, OpenPC
<1>6. ASSUME RemoveChallengeMem(p) PROVE AcctQuiet /\ LiveQuiet /\ AdvanceStep
  <2>1. /\ pc[p] = "unchallenge"
        /\ pc' = [pc EXCEPT ![p] = "unpublish"]
        /\ acct' = acct /\ acctLock' = acctLock /\ client' = client
        /\ cert' = cert /\ key' = key /\ cur' = cur /\ orders' = orders
        /\ live' = live /\ seen' = seen
        /\ lock' = lock /\ order' = order /\ spoiled' = spoiled
        /\ expiring' = expiring /\ blind' = blind
    BY <1>6, Zenon DEF RemoveChallengeMem, Goto, Return, diskVars, lockVars,
       boundVars, certStates, scanVars, loopVars, certVars, histVars
  <2> QED
    BY <2>1, SMTT(30) DEF LiveQuiet, AcctQuiet, AdvanceStep, OpenPC
<1>7. ASSUME RemoveChallengeFile(p), valid[p] PROVE AcctQuiet /\ LiveQuiet /\ AdvanceStep
  <2>1. /\ pc[p] = "unpublish"
        /\ pc' = [pc EXCEPT ![p] = "finalize"]
        /\ acct' = acct /\ acctLock' = acctLock /\ client' = client
        /\ cert' = cert /\ key' = key /\ cur' = cur /\ orders' = orders
        /\ live' = live /\ seen' = seen
        /\ lock' = lock /\ order' = order /\ spoiled' = spoiled
        /\ expiring' = expiring /\ blind' = blind
    BY <1>7, Zenon DEF RemoveChallengeFile, Goto, Return, diskVars, lockVars,
       boundVars, certStates, scanVars, loopVars, certVars, histVars
  <2> QED
    BY <2>1, SMTT(30) DEF LiveQuiet, AcctQuiet, AdvanceStep, OpenPC
<1>8. ASSUME Finalize(p) PROVE AcctQuiet /\ LiveQuiet /\ AdvanceStep
  <2>1. /\ pc[p] = "finalize"
        /\ pc' = [pc EXCEPT ![p] = "saveCert"]
        /\ acct' = acct /\ acctLock' = acctLock /\ client' = client
        /\ cert' = cert /\ key' = key /\ cur' = cur /\ orders' = orders
        /\ live' = live /\ seen' = seen
        /\ lock' = lock /\ order' = order /\ spoiled' = spoiled
        /\ expiring' = expiring /\ blind' = blind
    BY <1>8, Zenon DEF Finalize, Goto, Return, diskVars, lockVars, boundVars,
       certStates, scanVars, loopVars, certVars, histVars
  <2> QED
    BY <2>1, SMTT(30) DEF LiveQuiet, AcctQuiet, AdvanceStep, OpenPC
<1>9. ASSUME FinalizeUnusable(p) PROVE AcctQuiet /\ LiveQuiet /\ AdvanceStep
  <2>1. /\ pc[p] = "finalize"
        /\ pc' = [pc EXCEPT ![p] = "saveCert"]
        /\ acct' = acct /\ acctLock' = acctLock /\ client' = client
        /\ cert' = cert /\ key' = key /\ cur' = cur /\ orders' = orders
        /\ live' = live /\ seen' = seen
        /\ lock' = lock /\ order' = order /\ spoiled' = spoiled
        /\ expiring' \in {expiring, expiring \cup {order[p]}} /\ blind' = blind
    BY <1>9, Zenon DEF FinalizeUnusable, Goto, Return, diskVars, lockVars,
       boundVars, certStates, scanVars, loopVars, certVars, histVars
  <2> QED
    BY <2>1, SMTT(30) DEF LiveQuiet, AcctQuiet, AdvanceStep, OpenPC
<1>10. ASSUME RemoveChallengeFile(p), ~valid[p] PROVE AcctQuiet /\ LiveQuiet /\ ReturnStep(p)
  <2>1. /\ pc[p] = "unpublish"
        /\ pc' = [pc EXCEPT ![p] = "pick"]
        /\ acct' = acct /\ acctLock' = acctLock /\ client' = client
        /\ cert' = cert /\ key' = key /\ cur' = cur /\ orders' = orders
        /\ live' = live /\ seen' = seen
        /\ lock' = [lock EXCEPT ![cur[p]] = NoProc]
        /\ order' = [order EXCEPT ![p] = 0]
        /\ blind' = blind \ {p} /\ expiring' = expiring
        /\ spoiled' = spoiled
    BY <1>10, Zenon DEF RemoveChallengeFile, Goto, Return, diskVars, lockVars,
       boundVars, certStates, scanVars, loopVars, certVars, histVars
  <2> QED
    BY <2>1, SMTT(30) DEF LiveQuiet, AcctQuiet, ReturnStep, InsidePC
<1>11. ASSUME NoLongerNeeded(p) PROVE AcctQuiet /\ LiveQuiet /\ ReturnStep(p)
  <2>1. /\ pc[p] = "recheck"
        /\ pc' = [pc EXCEPT ![p] = "pick"]
        /\ acct' = acct /\ acctLock' = acctLock /\ client' = client
        /\ cert' = cert /\ key' = key /\ cur' = cur /\ orders' = orders
        /\ live' = live /\ seen' = seen
        /\ lock' = [lock EXCEPT ![cur[p]] = NoProc]
        /\ order' = [order EXCEPT ![p] = 0]
        /\ blind' = blind \ {p} /\ expiring' = expiring
        /\ spoiled' = spoiled
    BY <1>11, Zenon DEF NoLongerNeeded, Goto, Return, diskVars, lockVars, boundVars,
       certStates, scanVars, loopVars, certVars, histVars
  <2> QED
    BY <2>1, SMTT(30) DEF LiveQuiet, AcctQuiet, ReturnStep, InsidePC
<1>12. ASSUME CaCallFails(p) PROVE AcctQuiet /\ LiveQuiet /\ ReturnStep(p)
  <2>1. /\ \/ pc[p] = "recheck"
           \/ pc[p] = "challenge"
           \/ pc[p] = "finalize"
        /\ pc' = [pc EXCEPT ![p] = "pick"]
        /\ acct' = acct /\ acctLock' = acctLock /\ client' = client
        /\ cert' = cert /\ key' = key /\ cur' = cur /\ orders' = orders
        /\ live' = live /\ seen' = seen
        /\ lock' = [lock EXCEPT ![cur[p]] = NoProc]
        /\ order' = [order EXCEPT ![p] = 0]
        /\ blind' = blind \ {p} /\ expiring' = expiring
        /\ spoiled' = spoiled
    BY <1>12, Zenon DEF CaCallFails, Goto, Return, diskVars, lockVars, boundVars,
       certStates, scanVars, loopVars, certVars, histVars
  <2> QED
    BY <2>1, SMTT(30) DEF LiveQuiet, AcctQuiet, ReturnStep, InsidePC
<1>13. ASSUME PublishFails(p) PROVE AcctQuiet /\ LiveQuiet /\ ReturnStep(p)
  <2>1. /\ pc[p] = "publish"
        /\ pc' = [pc EXCEPT ![p] = "pick"]
        /\ acct' = acct /\ acctLock' = acctLock /\ client' = client
        /\ cert' = cert /\ key' = key /\ cur' = cur /\ orders' = orders
        /\ live' = live /\ seen' = seen
        /\ lock' = [lock EXCEPT ![cur[p]] = NoProc]
        /\ order' = [order EXCEPT ![p] = 0]
        /\ blind' = blind \ {p} /\ expiring' = expiring
        /\ spoiled' = spoiled
    BY <1>13, Zenon DEF PublishFails, Goto, Return, diskVars, lockVars, boundVars,
       certStates, scanVars, loopVars, certVars, histVars
  <2> QED
    BY <2>1, SMTT(30) DEF LiveQuiet, AcctQuiet, ReturnStep, InsidePC
<1>14. ASSUME SaveFails(p) PROVE AcctQuiet /\ LiveQuiet /\ ReturnStep(p)
  <2>1. /\ pc[p] = "saveCert" \/ pc[p] = "saveKey"
        /\ pc' = [pc EXCEPT ![p] = "pick"]
        /\ acct' = acct /\ acctLock' = acctLock /\ client' = client
        /\ cert' = cert /\ key' = key /\ cur' = cur /\ orders' = orders
        /\ live' = live /\ seen' = seen
        /\ lock' = [lock EXCEPT ![cur[p]] = NoProc]
        /\ order' = [order EXCEPT ![p] = 0]
        /\ blind' = blind \ {p} /\ expiring' = expiring
        /\ spoiled' = IF pc[p] = "saveKey" THEN spoiled \cup {cur[p]} ELSE spoiled
    BY <1>14, Zenon DEF SaveFails, Goto, Return, diskVars, lockVars, boundVars,
       certStates, scanVars, loopVars, certVars, histVars
  <2> QED
    BY <2>1, SMTT(30) DEF LiveQuiet, AcctQuiet, ReturnStep, InsidePC
<1>15. ASSUME InsertLive(p) PROVE AcctQuiet /\ ReturnStep(p)
  <2>1. /\ pc[p] = "install"
        /\ pc' = [pc EXCEPT ![p] = "pick"]
        /\ acct' = acct /\ acctLock' = acctLock /\ client' = client
        /\ cert' = cert /\ key' = key /\ cur' = cur /\ orders' = orders
        /\ lock' = [lock EXCEPT ![cur[p]] = NoProc]
        /\ order' = [order EXCEPT ![p] = 0]
        /\ blind' = blind \ {p} /\ expiring' = expiring
        /\ spoiled' = spoiled
    BY <1>15, Zenon DEF InsertLive, Goto, Return, diskVars, lockVars, boundVars,
       certStates, scanVars, loopVars, certVars, histVars
  <2> QED
    BY <2>1, SMTT(30) DEF AcctQuiet, ReturnStep, InsidePC
<1>16. ASSUME NewOrder(p) PROVE AcctQuiet /\ LiveQuiet
  <2>1. /\ pc[p] = "recheck"
        /\ pc' = [pc EXCEPT ![p] = "challenge"]
        /\ acct' = acct /\ acctLock' = acctLock /\ client' = client
        /\ cert' = cert /\ cur' = cur
        /\ live' = live /\ seen' = seen
    BY <1>16, Zenon DEF NewOrder, Goto, Return, diskVars, lockVars, boundVars,
       certStates, scanVars, loopVars, certVars, histVars
  <2> QED
    BY <2>1, SMTT(30) DEF LiveQuiet, AcctQuiet
<1>17. ASSUME SaveKey(p) PROVE AcctQuiet /\ LiveQuiet
  <2>1. /\ pc[p] = "saveKey"
        /\ pc' = [pc EXCEPT ![p] = "install"]
        /\ acct' = acct /\ acctLock' = acctLock /\ client' = client
        /\ cert' = cert /\ cur' = cur
        /\ live' = live /\ seen' = seen
    BY <1>17, Zenon DEF SaveKey, Goto, Return, diskVars, lockVars, boundVars,
       certStates, scanVars, loopVars, certVars, histVars
  <2> QED
    BY <2>1, SMTT(30) DEF LiveQuiet, AcctQuiet
<1>18. ASSUME SaveCert(p) PROVE AcctQuiet
  <2>1. /\ pc[p] = "saveCert"
        /\ pc' = [pc EXCEPT ![p] = "saveKey"]
        /\ acct' = acct /\ acctLock' = acctLock /\ client' = client
    BY <1>18, Zenon DEF SaveCert, Goto, Return, diskVars, lockVars, boundVars,
       certStates, scanVars, loopVars, certVars, histVars
  <2> QED
    BY <2>1, SMTT(30) DEF AcctQuiet
<1>19. QED
  BY <1>1, <1>2, <1>3, <1>4, <1>5, <1>6, <1>7, <1>8, <1>9, <1>10, <1>11, <1>12,
     <1>13, <1>14, <1>15, <1>16, <1>17, <1>18, ZenonT(60) DEF InsideAct

\* Every step is one of the kinds above, or one of the few that matter.
LEMMA StepKinds ==
    ASSUME TypeOK, [Next]_vars
    PROVE  \/ OutsideStep
           \/ AdvanceStep
           \/ \E p \in Procs : \/ ReturnStep(p) \/ NewOrder(p) \/ SaveCert(p)
                               \/ SaveKey(p) \/ CrashRestart(p)
                               \/ \E d \in Domains : TryLock(p, d)
BY OutsideFrame, InsideFrame, ZenonT(60)

\* Every step keeps the locks with those who work under them.
LEMMA LockStep == TypeOK /\ LockInv /\ [Next]_vars => LockInv'
<1> SUFFICES ASSUME TypeOK, LockInv, [Next]_vars PROVE LockInv'
  BY Zenon
<1>0. /\ pc \in [Procs -> ProcPC] /\ cur \in [Procs -> Domains]
      /\ lock \in [Domains -> Procs \cup {NoProc}]
      /\ pending \in [Procs -> SUBSET Managed]
      /\ \A d \in Managed : d \in Domains
      /\ NoProc \notin Procs
  BY NoProcAssumption, ZenonT(30) DEF TypeOK, Managed
<1> USE <1>0
<1>1. ASSUME OutsideStep PROVE LockInv'
  BY <1>1, ZenonT(30) DEF LockInv, OutsideStep
<1>2. ASSUME AdvanceStep PROVE LockInv'
  BY <1>2, SMTT(30) DEF LockInv, AdvanceStep, OpenPC, InsidePC
<1>3. ASSUME NEW p \in Procs, ReturnStep(p) PROVE LockInv'
  BY <1>3, SMTT(30) DEF LockInv, ReturnStep, InsidePC
<1>4. ASSUME NEW p \in Procs, NewOrder(p) PROVE LockInv'
  <2>1. /\ pc[p] = "recheck"
        /\ pc' = [pc EXCEPT ![p] = "challenge"]
        /\ cur' = cur /\ lock' = lock
    BY <1>4, Zenon DEF NewOrder, Goto, Return, diskVars, lockVars, boundVars,
       certStates, scanVars, loopVars, certVars, histVars
  <2> QED
    BY <2>1, SMTT(30) DEF LockInv, InsidePC
<1>5. ASSUME NEW p \in Procs, SaveCert(p) PROVE LockInv'
  <2>1. /\ pc[p] = "saveCert"
        /\ pc' = [pc EXCEPT ![p] = "saveKey"]
        /\ cur' = cur /\ lock' = lock
    BY <1>5, Zenon DEF SaveCert, Goto, Return, diskVars, lockVars, boundVars,
       certStates, scanVars, loopVars, certVars, histVars
  <2> QED
    BY <2>1, SMTT(30) DEF LockInv, InsidePC
<1>6. ASSUME NEW p \in Procs, SaveKey(p) PROVE LockInv'
  <2>1. /\ pc[p] = "saveKey"
        /\ pc' = [pc EXCEPT ![p] = "install"]
        /\ cur' = cur /\ lock' = lock
    BY <1>6, Zenon DEF SaveKey, Goto, Return, diskVars, lockVars, boundVars,
       certStates, scanVars, loopVars, certVars, histVars
  <2> QED
    BY <2>1, SMTT(30) DEF LockInv, InsidePC
<1>7. ASSUME NEW p \in Procs, CrashRestart(p) PROVE LockInv'
  <2>1. /\ pc' = [pc EXCEPT ![p] = "open"]
        /\ cur' = [cur EXCEPT ![p] = AnyDomain]
        /\ lock' = [d \in Domains |-> IF lock[d] = p THEN NoProc ELSE lock[d]]
    BY <1>7, Zenon DEF CrashRestart, Goto, Return, diskVars, lockVars, boundVars,
       certStates, scanVars, loopVars, certVars, histVars
  <2> QED
    BY <2>1, SMTT(30) DEF LockInv, InsidePC
<1>8. ASSUME NEW p \in Procs, NEW d \in Domains, TryLock(p, d) PROVE LockInv'
  <2>1. /\ \/ /\ pc' = pc /\ cur' = cur /\ lock' = lock
           \/ /\ lock[d] = NoProc /\ lock' = [lock EXCEPT ![d] = p]
              /\ cur' = [cur EXCEPT ![p] = d]
              /\ pc' = [pc EXCEPT ![p] = "recheck"]
        /\ pc[p] = "pick" /\ d \in pending[p]
    BY <1>8, Zenon DEF TryLock, Goto, diskVars, lockVars, boundVars, certStates,
       scanVars, loopVars, certVars, histVars
  <2> QED
    BY <2>1, SMTT(30) DEF LockInv, InsidePC
<1>9. QED
  BY <1>1, <1>2, <1>3, <1>4, <1>5, <1>6, <1>7, <1>8, StepKinds, ZenonT(60)

\* Every step keeps the one account key.
LEMMA AcctStep == TypeOK /\ AcctInv /\ [Next]_vars => AcctInv'
<1> SUFFICES ASSUME TypeOK, AcctInv, [Next]_vars PROVE AcctInv'
  BY Zenon
<1>0. /\ pc \in [Procs -> ProcPC] /\ client \in [Procs -> Nat]
      /\ acct \in Nat /\ orders \in Nat /\ NoProc \notin Procs
  BY NoProcAssumption, ZenonT(30) DEF TypeOK
<1> USE <1>0 DEF AcctInv, OneAccountKey
<1>1. ASSUME AcctQuiet PROVE AcctInv'
  BY <1>1, SMTT(30) DEF AcctQuiet
<1>2. ASSUME NEW p \in Procs, AccountRead(p) PROVE AcctInv'
  <2>1. /\ pc[p] = "scanned" /\ acct' = acct /\ acctLock' = acctLock
        /\ \/ /\ client' = [client EXCEPT ![p] = acct]
              /\ pc' = [pc EXCEPT ![p] = "connect"]
           \/ client' = client /\ pc' = [pc EXCEPT ![p] = "acctLock"]
    BY <1>2, Zenon DEF AccountRead, Goto, CycleEnds, diskVars, lockVars, boundVars,
       certStates, scanVars, loopVars, certVars, histVars
  <2> QED
    BY <2>1, SMTT(30)
<1>3. ASSUME NEW p \in Procs, AccountLock(p) PROVE AcctInv'
  <2>1. /\ acctLock = NoProc /\ acctLock' = p
        /\ acct' = acct /\ client' = client
        /\ pc' = [pc EXCEPT ![p] = "acctCheck"]
    BY <1>3, Zenon DEF AccountLock, Goto, CycleEnds, diskVars, lockVars, boundVars,
       certStates, scanVars, loopVars, certVars, histVars
  <2> QED
    BY <2>1, SMTT(30)
<1>4. ASSUME NEW p \in Procs, AccountRecheck(p) PROVE AcctInv'
  <2>1. /\ pc[p] = "acctCheck" /\ acct' = acct
        /\ \/ /\ client' = [client EXCEPT ![p] = acct] /\ acctLock' = NoProc
              /\ pc' = [pc EXCEPT ![p] = "connect"]
           \/ /\ acct = 0 /\ client' = client /\ acctLock' = acctLock
              /\ pc' = [pc EXCEPT ![p] = "acctCreate"]
    BY <1>4, Zenon DEF AccountRecheck, Goto, CycleEnds, diskVars, lockVars,
       boundVars, certStates, scanVars, loopVars, certVars, histVars
  <2> QED
    BY <2>1, SMTT(30)
<1>5. ASSUME NEW p \in Procs, AccountCreate(p) PROVE AcctInv'
  <2>1. /\ pc[p] = "acctCreate" /\ acct' = orders + 1
        /\ client' = [client EXCEPT ![p] = orders + 1]
        /\ acctLock' = NoProc
        /\ pc' = [pc EXCEPT ![p] = "connect"]
    BY <1>5, Zenon DEF AccountCreate, Goto, CycleEnds, diskVars, lockVars,
       boundVars, certStates, scanVars, loopVars, certVars, histVars
  <2> QED
    BY <2>1, SMTT(30)
<1>6. ASSUME NEW p \in Procs, AccountFails(p) PROVE AcctInv'
  <2>1. /\ acct' = acct /\ client' = [client EXCEPT ![p] = 0]
        /\ acctLock' = IF acctLock = p THEN NoProc ELSE acctLock
        /\ pc' = [pc EXCEPT ![p] = "sync"]
    BY <1>6, Zenon DEF AccountFails, Goto, CycleEnds, diskVars, lockVars, boundVars,
       certStates, scanVars, loopVars, certVars, histVars
  <2> QED
    BY <2>1, SMTT(30)
<1>7. ASSUME NEW p \in Procs, CrashRestart(p) PROVE AcctInv'
  <2>1. /\ acct' = acct /\ client' = [client EXCEPT ![p] = 0]
        /\ acctLock' = IF acctLock = p THEN NoProc ELSE acctLock
        /\ pc' = [pc EXCEPT ![p] = "open"]
    BY <1>7, Zenon DEF CrashRestart, Goto, CycleEnds, diskVars, lockVars, boundVars,
       certStates, scanVars, loopVars, certVars, histVars
  <2> QED
    BY <2>1, SMTT(30)
<1>8. ASSUME NEW p \in Procs, NEW d \in Domains, TryLock(p, d) PROVE AcctInv'
  <2>1. /\ pc' = pc \/ pc' = [pc EXCEPT ![p] = "recheck"]
        /\ acct' = acct /\ acctLock' = acctLock /\ client' = client
    BY <1>8, Zenon DEF TryLock, Goto, diskVars, lockVars, boundVars, certStates,
       scanVars, loopVars, certVars, histVars
  <2> QED
    BY <2>1, SMTT(30)
<1>9. QED
  BY <1>1, <1>2, <1>3, <1>4, <1>5, <1>6, <1>7, <1>8, OutsideFrame, InsideFrame, ZenonT(60)

\* Every step keeps orders and stored certificates in order.
LEMMA OrderStep == TypeOK /\ LockInv /\ OrderInv /\ [Next]_vars => OrderInv'
<1> SUFFICES ASSUME TypeOK, LockInv, OrderInv, [Next]_vars PROVE OrderInv'
  BY Zenon
<1>0. /\ pc \in [Procs -> ProcPC] /\ cur \in [Procs -> Domains]
      /\ cert \in [Domains -> Nat] /\ order \in [Procs -> Nat] /\ orders \in Nat
      /\ \A p \in Procs : pc[p] \in InsidePC => lock[cur[p]] = p
  BY ZenonT(30) DEF TypeOK, LockInv, PerDomain
<1> USE <1>0
<1>1. ASSUME OutsideStep PROVE OrderInv'
  BY <1>1, SMTT(30) DEF OrderInv, OpenPC, OutsideStep, InsidePC
<1>2. ASSUME AdvanceStep PROVE OrderInv'
  BY <1>2, SMTT(30) DEF OrderInv, OpenPC, AdvanceStep
<1>3. ASSUME NEW p \in Procs, ReturnStep(p) PROVE OrderInv'
  BY <1>3, SMTT(30) DEF OrderInv, OpenPC, ReturnStep
<1>4. ASSUME NEW p \in Procs, NewOrder(p) PROVE OrderInv'
  <2>1. /\ pc[p] = "recheck"
        /\ pc' = [pc EXCEPT ![p] = "challenge"]
        /\ cur' = cur /\ cert' = cert
        /\ orders' = orders + 1
        /\ order' = [order EXCEPT ![p] = orders + 1]
    BY <1>4, Zenon DEF NewOrder, Goto, Return, diskVars, lockVars, boundVars,
       certStates, scanVars, loopVars, certVars, histVars
  <2> QED
    BY <2>1, SMTT(30) DEF OrderInv, OpenPC
<1>5. ASSUME NEW p \in Procs, SaveCert(p) PROVE OrderInv'
  <2>1. /\ pc[p] = "saveCert"
        /\ pc' = [pc EXCEPT ![p] = "saveKey"]
        /\ cert' = [cert EXCEPT ![cur[p]] = order[p]]
        /\ cur' = cur /\ order' = order /\ orders' = orders
    BY <1>5, Zenon DEF SaveCert, Goto, Return, diskVars, lockVars, boundVars,
       certStates, scanVars, loopVars, certVars, histVars
  <2> QED
    BY <2>1, SMTT(30) DEF OrderInv, OpenPC, InsidePC
<1>6. ASSUME NEW p \in Procs, SaveKey(p) PROVE OrderInv'
  <2>1. /\ pc[p] = "saveKey"
        /\ pc' = [pc EXCEPT ![p] = "install"]
        /\ cur' = cur /\ cert' = cert /\ order' = order /\ orders' = orders
    BY <1>6, Zenon DEF SaveKey, Goto, Return, diskVars, lockVars, boundVars,
       certStates, scanVars, loopVars, certVars, histVars
  <2> QED
    BY <2>1, SMTT(30) DEF OrderInv, OpenPC
<1>7. ASSUME NEW p \in Procs, CrashRestart(p) PROVE OrderInv'
  <2>1. /\ pc' = [pc EXCEPT ![p] = "open"]
        /\ cur' = [cur EXCEPT ![p] = AnyDomain]
        /\ order' = [order EXCEPT ![p] = 0]
        /\ cert' = cert /\ orders' = orders
    BY <1>7, Zenon DEF CrashRestart, Goto, Return, diskVars, lockVars, boundVars,
       certStates, scanVars, loopVars, certVars, histVars
  <2> QED
    BY <2>1, SMTT(30) DEF OrderInv, OpenPC
<1>8. ASSUME NEW p \in Procs, NEW d \in Domains, TryLock(p, d) PROVE OrderInv'
  <2>1. /\ \/ /\ pc' = pc /\ cur' = cur /\ lock' = lock
           \/ /\ lock[d] = NoProc /\ lock' = [lock EXCEPT ![d] = p]
              /\ cur' = [cur EXCEPT ![p] = d]
              /\ pc' = [pc EXCEPT ![p] = "recheck"]
        /\ pc[p] = "pick" /\ d \in pending[p]
        /\ cert' = cert /\ key' = key /\ order' = order /\ orders' = orders
    BY <1>8, Zenon DEF TryLock, Goto, diskVars, lockVars, boundVars, certStates,
       scanVars, loopVars, certVars, histVars
  <2> QED
    BY <2>1, SMTT(30) DEF OrderInv, OpenPC
<1>9. QED
  BY <1>1, <1>2, <1>3, <1>4, <1>5, <1>6, <1>7, <1>8, StepKinds, ZenonT(60)

\* Every step keeps open orders needed.
LEMMA NeededStep == TypeOK /\ LockInv /\ NoRedundantOrder /\ [Next]_vars => NoRedundantOrder'
<1> SUFFICES ASSUME TypeOK, LockInv, NoRedundantOrder, [Next]_vars PROVE NoRedundantOrder'
  BY Zenon
<1>0. /\ pc \in [Procs -> ProcPC] /\ cur \in [Procs -> Domains]
      /\ cert \in [Domains -> Nat] /\ key \in [Domains -> Nat]
      /\ \A p \in Procs : pc[p] \in InsidePC => lock[cur[p]] = p
  BY ZenonT(30) DEF TypeOK, LockInv, PerDomain
<1> USE <1>0
<1>1. ASSUME OutsideStep PROVE NoRedundantOrder'
  BY <1>1, SMTT(30) DEF NoRedundantOrder, NeedsRenewal, OutsideStep, InsidePC
<1>2. ASSUME AdvanceStep PROVE NoRedundantOrder'
  BY <1>2, SMTT(30) DEF NoRedundantOrder, NeedsRenewal, AdvanceStep, OpenPC
<1>3. ASSUME NEW p \in Procs, ReturnStep(p) PROVE NoRedundantOrder'
  BY <1>3, SMTT(30) DEF NoRedundantOrder, NeedsRenewal, ReturnStep
<1>4. ASSUME NEW p \in Procs, NewOrder(p) PROVE NoRedundantOrder'
  <2>1. /\ pc[p] = "recheck"
        /\ pc' = [pc EXCEPT ![p] = "challenge"]
        /\ cur' = cur /\ cert' = cert /\ key' = key
        /\ expiring' = expiring /\ blind' = blind
        /\ p \in blind \/ NeedsRenewal(cur[p])
    BY <1>4, Zenon DEF NewOrder, FoundDue, Goto, Return, diskVars, lockVars,
       boundVars, certStates, scanVars, loopVars, certVars, histVars
  <2> QED
    BY <2>1, SMTT(30) DEF NoRedundantOrder, NeedsRenewal
<1>5. ASSUME NEW p \in Procs, SaveCert(p) PROVE NoRedundantOrder'
  <2>1. /\ pc[p] = "saveCert"
        /\ pc' = [pc EXCEPT ![p] = "saveKey"]
        /\ cert' = [cert EXCEPT ![cur[p]] = order[p]]
        /\ cur' = cur /\ key' = key
        /\ expiring' = expiring /\ blind' = blind
    BY <1>5, Zenon DEF SaveCert, Goto, Return, diskVars, lockVars, boundVars,
       certStates, scanVars, loopVars, certVars, histVars
  <2> QED
    BY <2>1, SMTT(30) DEF NoRedundantOrder, NeedsRenewal, InsidePC
<1>6. ASSUME NEW p \in Procs, SaveKey(p) PROVE NoRedundantOrder'
  <2>1. /\ pc[p] = "saveKey"
        /\ pc' = [pc EXCEPT ![p] = "install"]
        /\ key' = [key EXCEPT ![cur[p]] = order[p]]
        /\ cur' = cur /\ cert' = cert
        /\ expiring' = expiring /\ blind' = blind
    BY <1>6, Zenon DEF SaveKey, Goto, Return, diskVars, lockVars, boundVars,
       certStates, scanVars, loopVars, certVars, histVars
  <2> QED
    BY <2>1, SMTT(30) DEF NoRedundantOrder, NeedsRenewal, InsidePC
<1>7. ASSUME NEW p \in Procs, CrashRestart(p) PROVE NoRedundantOrder'
  <2>1. /\ pc' = [pc EXCEPT ![p] = "open"]
        /\ cur' = [cur EXCEPT ![p] = AnyDomain]
        /\ cert' = cert /\ key' = key /\ expiring' = expiring
        /\ blind' = blind \ {p}
    BY <1>7, Zenon DEF CrashRestart, Goto, Return, diskVars, lockVars, boundVars,
       certStates, scanVars, loopVars, certVars, histVars
  <2> QED
    BY <2>1, SMTT(30) DEF NoRedundantOrder, NeedsRenewal
<1>8. ASSUME NEW p \in Procs, NEW d \in Domains, TryLock(p, d) PROVE NoRedundantOrder'
  <2>1. /\ \/ /\ pc' = pc /\ cur' = cur /\ lock' = lock
           \/ /\ lock[d] = NoProc /\ lock' = [lock EXCEPT ![d] = p]
              /\ cur' = [cur EXCEPT ![p] = d]
              /\ pc' = [pc EXCEPT ![p] = "recheck"]
        /\ pc[p] = "pick" /\ d \in pending[p]
        /\ cert' = cert /\ key' = key /\ order' = order /\ orders' = orders
        /\ expiring' = expiring /\ blind' = blind /\ spoiled' = spoiled
    BY <1>8, Zenon DEF TryLock, Goto, diskVars, lockVars, boundVars, certStates,
       scanVars, loopVars, certVars, histVars
  <2> QED
    BY <2>1, SMTT(30) DEF NoRedundantOrder, NeedsRenewal
<1>9. QED
  BY <1>1, <1>2, <1>3, <1>4, <1>5, <1>6, <1>7, <1>8, StepKinds, ZenonT(60)

\* Every step keeps the stored pairs together.
LEMMA PairStep == TypeOK /\ LockInv /\ OrderInv /\ StoredPairFits /\ [Next]_vars => StoredPairFits'
<1> SUFFICES ASSUME TypeOK, LockInv, OrderInv, StoredPairFits, [Next]_vars PROVE StoredPairFits'
  BY Zenon
<1>0. /\ pc \in [Procs -> ProcPC] /\ cur \in [Procs -> Domains]
      /\ cert \in [Domains -> Nat] /\ key \in [Domains -> Nat]
      /\ order \in [Procs -> Nat]
      /\ \A p \in Procs : pc[p] = "saveKey" => order[p] = cert[cur[p]]
      /\ \A d \in Managed : d \in Domains
  BY ZenonT(30) DEF TypeOK, PerDomain, OrderInv, Managed
<1> USE <1>0
<1>1. ASSUME OutsideStep PROVE StoredPairFits'
  <2>1. /\ cert' = cert /\ key' = key /\ spoiled' = spoiled
        /\ \A q \in Procs : pc[q] = "saveKey" => pc'[q] = "saveKey" /\ cur'[q] = cur[q]
    BY <1>1, ZenonT(30) DEF OutsideStep, InsidePC
  <2> QED
    BY <2>1, ZenonT(30) DEF StoredPairFits
<1>2. ASSUME AdvanceStep PROVE StoredPairFits'
  BY <1>2, SMTT(30) DEF StoredPairFits, AdvanceStep, OpenPC
<1>3. ASSUME NEW p \in Procs, ReturnStep(p) PROVE StoredPairFits'
  BY <1>3, SMTT(30) DEF StoredPairFits, ReturnStep
<1>4. ASSUME NEW p \in Procs, NewOrder(p) PROVE StoredPairFits'
  <2>1. /\ pc[p] = "recheck"
        /\ pc' = [pc EXCEPT ![p] = "challenge"]
        /\ cur' = cur /\ cert' = cert /\ key' = key /\ spoiled' = spoiled
    BY <1>4, Zenon DEF NewOrder, Goto, Return, diskVars, lockVars, boundVars,
       certStates, scanVars, loopVars, certVars, histVars
  <2> QED
    BY <2>1, SMTT(30) DEF StoredPairFits
<1>5. ASSUME NEW p \in Procs, SaveCert(p) PROVE StoredPairFits'
  <2>1. /\ pc[p] = "saveCert"
        /\ pc' = [pc EXCEPT ![p] = "saveKey"]
        /\ cert' = [cert EXCEPT ![cur[p]] = order[p]]
        /\ cur' = cur /\ key' = key /\ spoiled' = spoiled
    BY <1>5, Zenon DEF SaveCert, Goto, Return, diskVars, lockVars, boundVars,
       certStates, scanVars, loopVars, certVars, histVars
  <2> QED
    BY <2>1, SMTT(30) DEF StoredPairFits
<1>6. ASSUME NEW p \in Procs, SaveKey(p) PROVE StoredPairFits'
  <2>1. /\ pc[p] = "saveKey"
        /\ pc' = [pc EXCEPT ![p] = "install"]
        /\ key' = [key EXCEPT ![cur[p]] = order[p]]
        /\ cur' = cur /\ cert' = cert /\ spoiled' = spoiled \ {cur[p]}
    BY <1>6, Zenon DEF SaveKey, Goto, Return, diskVars, lockVars, boundVars,
       certStates, scanVars, loopVars, certVars, histVars
  <2> QED
    BY <2>1, SMTT(30) DEF StoredPairFits
<1>7. ASSUME NEW p \in Procs, CrashRestart(p) PROVE StoredPairFits'
  <2>1. /\ pc' = [pc EXCEPT ![p] = "open"]
        /\ cur' = [cur EXCEPT ![p] = AnyDomain]
        /\ cert' = cert /\ key' = key
        /\ spoiled' = IF pc[p] = "saveKey" THEN spoiled \cup {cur[p]} ELSE spoiled
    BY <1>7, Zenon DEF CrashRestart, Goto, Return, diskVars, lockVars, boundVars,
       certStates, scanVars, loopVars, certVars, histVars
  <2> QED
    BY <2>1, SMTT(30) DEF StoredPairFits
<1>8. ASSUME NEW p \in Procs, NEW d \in Domains, TryLock(p, d) PROVE StoredPairFits'
  <2>1. /\ \/ /\ pc' = pc /\ cur' = cur /\ lock' = lock
           \/ /\ lock[d] = NoProc /\ lock' = [lock EXCEPT ![d] = p]
              /\ cur' = [cur EXCEPT ![p] = d]
              /\ pc' = [pc EXCEPT ![p] = "recheck"]
        /\ pc[p] = "pick" /\ d \in pending[p]
        /\ cert' = cert /\ key' = key /\ order' = order /\ orders' = orders
        /\ expiring' = expiring /\ blind' = blind /\ spoiled' = spoiled
    BY <1>8, Zenon DEF TryLock, Goto, diskVars, lockVars, boundVars, certStates,
       scanVars, loopVars, certVars, histVars
  <2> QED
    BY <2>1, SMTT(30) DEF StoredPairFits
<1>9. QED
  BY <1>1, <1>2, <1>3, <1>4, <1>5, <1>6, <1>7, <1>8, StepKinds, ZenonT(60)

\* Only sync_live_certs, the two writes of an order and a crash matter for what
\* is served and what is stored.
LEMMA LiveCases ==
    ASSUME TypeOK, [Next]_vars
    PROVE  \/ LiveQuiet
           \/ \E p \in Procs : \/ SyncCert(p) \/ SyncKey(p) \/ SaveCert(p)
                               \/ InsertLive(p) \/ CrashRestart(p)
<1>1. ASSUME NEW p \in Procs, NEW d \in Domains, TryLock(p, d) PROVE LiveQuiet
  <2>1. /\ pc[p] = "pick" /\ live' = live /\ cert' = cert /\ seen' = seen
        /\ \/ pc' = pc /\ cur' = cur
           \/ /\ pc' = [pc EXCEPT ![p] = "recheck"]
              /\ cur' = [cur EXCEPT ![p] = d]
    BY <1>1, Zenon DEF TryLock, Goto, diskVars, lockVars, boundVars, certStates,
       scanVars, loopVars, certVars, histVars
  <2>2. pc \in [Procs -> ProcPC] /\ cur \in [Procs -> Domains]
    BY DEF TypeOK
  <2> QED
    BY <2>1, <2>2, SMTT(30) DEF LiveQuiet
<1> QED
  BY <1>1, OutsideFrame, InsideFrame, ZenonT(60)

\* InsertLive installs the order's certificate, or nothing when it is unusable.
LEMMA InsertLiveLive ==
    ASSUME NEW p \in Procs, InsertLive(p), live \in [Procs -> [Domains -> Nat]],
           cur \in [Procs -> Domains], order \in [Procs -> Nat]
    PROVE  \A q \in Procs : \A e \in Domains :
             \/ live'[q][e] = live[q][e]
             \/ q = p /\ e = cur[p] /\ live'[q][e] = order[p]
<1>1. \/ live' = live
      \/ live' = [live EXCEPT ![p][cur[p]] = order[p]]
  BY Zenon DEF InsertLive
<1>2. cur[p] \in Domains /\ order[p] \in Nat
  OBVIOUS
<1> QED
  BY <1>1, <1>2, TableValue

\* Every step keeps the served certificates behind the stored ones.
LEMMA LiveStep == TypeOK /\ OrderInv /\ LiveInv /\ [Next]_vars => LiveInv'
<1> SUFFICES ASSUME TypeOK, OrderInv, LiveInv, [Next]_vars PROVE LiveInv'
  BY Zenon
<1>0. /\ pc \in [Procs -> ProcPC] /\ cur \in [Procs -> Domains]
      /\ cert \in [Domains -> Nat] /\ order \in [Procs -> Nat]
      /\ live \in [Procs -> [Domains -> Nat]] /\ seen \in [Procs -> Nat \X Nat]
  BY ZenonT(30) DEF TypeOK, PerDomain
<1> USE <1>0
<1>1. ASSUME LiveQuiet PROVE LiveInv'
  BY <1>1, SMTT(30) DEF LiveQuiet, LiveInv
<1>2. ASSUME NEW p \in Procs, SyncCert(p) PROVE LiveInv'
  <2>1. /\ pc' = [pc EXCEPT ![p] = "syncKey"]
        /\ seen' = [seen EXCEPT ![p][2] = cert[cur[p]]]
        /\ live' = live /\ cert' = cert /\ cur' = cur
    BY <1>2, Zenon DEF SyncCert, Goto, diskVars, lockVars, boundVars, certStates,
       scanVars, loopVars, certVars, histVars
  <2>2. /\ cur[p] \in Domains
        /\ \A q \in Procs : q # p => pc'[q] = pc[q] /\ seen'[q] = seen[q]
        /\ seen'[p][2] = cert[cur[p]] /\ cert[cur[p]] \in Nat
    BY <2>1, SMTT(30)
  <2> QED
    BY <2>1, <2>2, SMTT(30) DEF LiveInv
<1>3. ASSUME NEW p \in Procs, SyncKey(p) PROVE LiveInv'
  <2>1. \A q \in Procs : \A d \in Domains :
          \/ live'[q][d] = live[q][d]
          \/ q = p /\ d = cur[p] /\ live'[q][d] = seen[p][2]
    BY <1>3, SyncKeyLive, Zenon
  <2>2. /\ pc[p] = "syncKey" /\ pc' = [pc EXCEPT ![p] = "sync"]
        /\ seen' = [seen EXCEPT ![p] = <<0, 0>>]
        /\ cert' = cert /\ cur' = cur
    BY <1>3, Zenon DEF SyncKey, Goto, diskVars, lockVars, boundVars, certStates,
       scanVars, loopVars, certVars, histVars
  <2>3. seen[p][2] <= cert[cur[p]]
    BY <2>2, SMTT(30) DEF LiveInv
  <2>4. \A q \in Procs : \A d \in Domains : live'[q][d] <= cert'[d]
    <3>1. \A q \in Procs : \A d \in Domains : live[q][d] <= cert[d]
      BY Zenon DEF LiveInv
    <3> QED
      BY <2>1, <2>2, <2>3, <3>1, Zenon
  <2>5. /\ \A q \in Procs \ {p} : pc'[q] = pc[q] /\ seen'[q] = seen[q]
        /\ pc'[p] = "sync"
    BY <2>2, SMTT(30)
  <2>6. \A q \in Procs : pc'[q] = "syncKey" =>
          live'[q][cur'[q]] <= seen'[q][2] /\ seen'[q][2] <= cert'[cur'[q]]
    BY <2>1, <2>2, <2>5, SMTT(30) DEF LiveInv
  <2> QED
    BY <2>4, <2>6, Zenon DEF LiveInv
<1>4. ASSUME NEW p \in Procs, SaveCert(p) PROVE LiveInv'
  <2>1. /\ pc[p] = "saveCert" /\ pc' = [pc EXCEPT ![p] = "saveKey"]
        /\ cert' = [cert EXCEPT ![cur[p]] = order[p]]
        /\ live' = live /\ cur' = cur /\ seen' = seen
    BY <1>4, Zenon DEF SaveCert, Goto, diskVars, lockVars, boundVars, certStates,
       scanVars, loopVars, certVars, histVars
  <2>2. cur[p] \in Domains /\ order[p] \in Nat /\ cert[cur[p]] < order[p]
    BY <2>1, SMTT(30) DEF OrderInv, OpenPC
  <2>3. \A d \in Domains : cert[d] \in Nat /\ cert'[d] \in Nat /\ cert[d] <= cert'[d]
    BY <2>1, <2>2, SMTT(30)
  <2>4. \A q \in Procs : pc'[q] = "syncKey" => pc[q] = "syncKey"
    BY <2>1, SMTT(30)
  <2> QED
    BY <2>1, <2>3, <2>4, SMTT(30) DEF LiveInv
<1>5. ASSUME NEW p \in Procs, InsertLive(p) PROVE LiveInv'
  <2>1. /\ pc[p] = "install" /\ pc' = [pc EXCEPT ![p] = "pick"]
        /\ cert' = cert /\ cur' = cur /\ seen' = seen
    BY <1>5, Zenon DEF InsertLive, Return, Goto, diskVars, lockVars, boundVars,
       certStates, scanVars, loopVars, certVars, histVars
  <2>2. \A q \in Procs : \A e \in Domains :
          \/ live'[q][e] = live[q][e]
          \/ q = p /\ e = cur[p] /\ live'[q][e] = order[p]
    BY <1>5, InsertLiveLive, Zenon
  <2>3. order[p] = cert[cur[p]]
    BY <2>1, SMTT(30) DEF OrderInv
  <2>4. \A q \in Procs : pc'[q] = "syncKey" => pc[q] = "syncKey" /\ q # p
    BY <2>1, SMTT(30)
  <2> QED
    BY <2>1, <2>2, <2>3, <2>4, SMTT(30) DEF LiveInv
<1>6. ASSUME NEW p \in Procs, CrashRestart(p) PROVE LiveInv'
  <2>1. /\ pc' = [pc EXCEPT ![p] = "open"]
        /\ live' = [live EXCEPT ![p] = [d \in Domains |-> 0]]
        /\ cur' = [cur EXCEPT ![p] = AnyDomain]
        /\ seen' = [seen EXCEPT ![p] = <<0, 0>>] /\ cert' = cert
    BY <1>6, Zenon DEF CrashRestart, Goto, diskVars, lockVars, boundVars,
       certStates, scanVars, loopVars, certVars, histVars
  <2> QED
    BY <2>1, SMTT(30) DEF LiveInv
<1>7. QED
  BY <1>1, <1>2, <1>3, <1>4, <1>5, <1>6, LiveCases, ZenonT(60)

\* A step that ends no challenge and starts none.
ChalQuiet ==
    /\ chalMem' = chalMem /\ chalFile' = chalFile /\ order' = order /\ cur' = cur
    /\ \A q \in Procs : /\ pc'[q] = "validate" => pc[q] = "validate"
                        /\ pc[q] \in {"publish", "validate", "unchallenge"} =>
                              pc'[q] \in {"publish", "validate", "unchallenge"}

\* Every step keeps the challenges those of the open orders.
LEMMA ChalStep == TypeOK /\ LockInv /\ ChalInv /\ [Next]_vars => ChalInv'
<1> SUFFICES ASSUME TypeOK, LockInv, ChalInv, [Next]_vars PROVE ChalInv'
  BY Zenon
<1>0. /\ pc \in [Procs -> ProcPC] /\ cur \in [Procs -> Domains]
      /\ order \in [Procs -> Nat] /\ chalFile \in [Domains -> Nat]
      /\ chalMem \in [Procs -> [Domains -> Nat]] /\ diskFaults \in Nat
      /\ \A p \in Procs : pc[p] \in InsidePC => lock[cur[p]] = p
  BY ZenonT(30) DEF TypeOK, LockInv, PerDomain
<1> USE <1>0
<1>1. ASSUME OutsideStep PROVE ChalInv'
  BY <1>1, SMTT(30) DEF OutsideStep, ChalInv, InsidePC
<1>2. ASSUME diskFaults' = diskFaults + 1 PROVE ChalInv'
  BY <1>2, SMTT(30) DEF ChalInv
<1>3. ASSUME ChalQuiet, diskFaults' = diskFaults PROVE ChalInv'
  BY <1>3, SMTT(30) DEF ChalInv, ChalQuiet
<1>4. ASSUME NEW p \in Procs, RecheckFails(p) PROVE ChalInv'
  <2>1. /\ diskFaults' = diskFaults + 1
    BY <1>4, Zenon DEF RecheckFails, Return, Goto, diskVars, lockVars, boundVars,
       certStates, scanVars, loopVars, certVars, histVars
  <2> QED
    BY <1>2, <2>1, Zenon
<1>5. ASSUME NEW p \in Procs, PublishFails(p) PROVE ChalInv'
  <2>1. /\ diskFaults' = diskFaults + 1
    BY <1>5, Zenon DEF PublishFails, Return, Goto, diskVars, lockVars, boundVars,
       certStates, scanVars, loopVars, certVars, histVars
  <2> QED
    BY <1>2, <2>1, Zenon
<1>6. ASSUME NEW p \in Procs, SaveFails(p) PROVE ChalInv'
  <2>1. /\ diskFaults' = diskFaults + 1
    BY <1>6, Zenon DEF SaveFails, Return, Goto, diskVars, lockVars, boundVars,
       certStates, scanVars, loopVars, certVars, histVars
  <2> QED
    BY <1>2, <2>1, Zenon
<1>7. ASSUME NEW p \in Procs, Validated(p) PROVE ChalInv'
  <2>1. /\ pc[p] = "validate"
        /\ pc' = [pc EXCEPT ![p] = "unchallenge"]
        /\ chalMem' = chalMem /\ chalFile' = chalFile /\ order' = order /\ cur' = cur
        /\ diskFaults' = diskFaults
    BY <1>7, Zenon DEF Validated, Return, Goto, diskVars, lockVars, boundVars,
       certStates, scanVars, loopVars, certVars, histVars
  <2>2. ChalQuiet
    BY <2>1, SMTT(30) DEF ChalQuiet
  <2> QED
    BY <1>3, <2>1, <2>2, Zenon
<1>8. ASSUME NEW p \in Procs, ValidationFails(p) PROVE ChalInv'
  <2>1. /\ pc[p] = "validate"
        /\ pc' = [pc EXCEPT ![p] = "unchallenge"]
        /\ chalMem' = chalMem /\ chalFile' = chalFile /\ order' = order /\ cur' = cur
        /\ diskFaults' = diskFaults
    BY <1>8, Zenon DEF ValidationFails, Return, Goto, diskVars, lockVars, boundVars,
       certStates, scanVars, loopVars, certVars, histVars
  <2>2. ChalQuiet
    BY <2>1, SMTT(30) DEF ChalQuiet
  <2> QED
    BY <1>3, <2>1, <2>2, Zenon
<1>9. ASSUME NEW p \in Procs, Finalize(p) PROVE ChalInv'
  <2>1. /\ pc[p] = "finalize"
        /\ pc' = [pc EXCEPT ![p] = "saveCert"]
        /\ chalMem' = chalMem /\ chalFile' = chalFile /\ order' = order /\ cur' = cur
        /\ diskFaults' = diskFaults
    BY <1>9, Zenon DEF Finalize, Return, Goto, diskVars, lockVars, boundVars,
       certStates, scanVars, loopVars, certVars, histVars
  <2>2. ChalQuiet
    BY <2>1, SMTT(30) DEF ChalQuiet
  <2> QED
    BY <1>3, <2>1, <2>2, Zenon
<1>10. ASSUME NEW p \in Procs, FinalizeUnusable(p) PROVE ChalInv'
  <2>1. /\ pc[p] = "finalize"
        /\ pc' = [pc EXCEPT ![p] = "saveCert"]
        /\ chalMem' = chalMem /\ chalFile' = chalFile /\ order' = order /\ cur' = cur
        /\ diskFaults' = diskFaults
    BY <1>10, Zenon DEF FinalizeUnusable, Return, Goto, diskVars, lockVars,
       boundVars, certStates, scanVars, loopVars, certVars, histVars
  <2>2. ChalQuiet
    BY <2>1, SMTT(30) DEF ChalQuiet
  <2> QED
    BY <1>3, <2>1, <2>2, Zenon
<1>11. ASSUME NEW p \in Procs, SaveCert(p) PROVE ChalInv'
  <2>1. /\ pc[p] = "saveCert"
        /\ pc' = [pc EXCEPT ![p] = "saveKey"]
        /\ chalMem' = chalMem /\ chalFile' = chalFile /\ order' = order /\ cur' = cur
        /\ diskFaults' = diskFaults
    BY <1>11, Zenon DEF SaveCert, Return, Goto, diskVars, lockVars, boundVars,
       certStates, scanVars, loopVars, certVars, histVars
  <2>2. ChalQuiet
    BY <2>1, SMTT(30) DEF ChalQuiet
  <2> QED
    BY <1>3, <2>1, <2>2, Zenon
<1>12. ASSUME NEW p \in Procs, SaveKey(p) PROVE ChalInv'
  <2>1. /\ pc[p] = "saveKey"
        /\ pc' = [pc EXCEPT ![p] = "install"]
        /\ chalMem' = chalMem /\ chalFile' = chalFile /\ order' = order /\ cur' = cur
        /\ diskFaults' = diskFaults
    BY <1>12, Zenon DEF SaveKey, Return, Goto, diskVars, lockVars, boundVars,
       certStates, scanVars, loopVars, certVars, histVars
  <2>2. ChalQuiet
    BY <2>1, SMTT(30) DEF ChalQuiet
  <2> QED
    BY <1>3, <2>1, <2>2, Zenon
<1>13. ASSUME NEW p \in Procs, NoLongerNeeded(p) PROVE ChalInv'
  <2>1. /\ pc[p] = "recheck"
        /\ pc' = [pc EXCEPT ![p] = "pick"]
        /\ chalMem' = chalMem /\ chalFile' = chalFile /\ cur' = cur
        /\ order' = [order EXCEPT ![p] = 0]
        /\ diskFaults' = diskFaults
    BY <1>13, Zenon DEF NoLongerNeeded, Return, Goto, diskVars, lockVars, boundVars,
       certStates, scanVars, loopVars, certVars, histVars
  <2> QED
    BY <2>1, SMTT(30) DEF ChalInv
<1>14. ASSUME NEW p \in Procs, InsertLive(p) PROVE ChalInv'
  <2>1. /\ pc[p] = "install"
        /\ pc' = [pc EXCEPT ![p] = "pick"]
        /\ chalMem' = chalMem /\ chalFile' = chalFile /\ cur' = cur
        /\ order' = [order EXCEPT ![p] = 0]
        /\ diskFaults' = diskFaults
    BY <1>14, Zenon DEF InsertLive, Return, Goto, diskVars, lockVars, boundVars,
       certStates, scanVars, loopVars, certVars, histVars
  <2> QED
    BY <2>1, SMTT(30) DEF ChalInv
<1>15. ASSUME NEW p \in Procs, CaCallFails(p) PROVE ChalInv'
  <2>1. /\ \/ pc[p] = "recheck"
           \/ pc[p] = "challenge"
           \/ pc[p] = "finalize"
        /\ pc' = [pc EXCEPT ![p] = "pick"]
        /\ chalMem' = chalMem /\ chalFile' = chalFile /\ cur' = cur
        /\ order' = [order EXCEPT ![p] = 0]
        /\ diskFaults' = diskFaults
    BY <1>15, Zenon DEF CaCallFails, Return, Goto, diskVars, lockVars, boundVars,
       certStates, scanVars, loopVars, certVars, histVars
  <2> QED
    BY <2>1, SMTT(30) DEF ChalInv
<1>16. ASSUME NEW p \in Procs, NewOrder(p) PROVE ChalInv'
  <2>1. /\ pc[p] = "recheck"
        /\ pc' = [pc EXCEPT ![p] = "challenge"]
        /\ chalMem' = chalMem /\ chalFile' = chalFile /\ cur' = cur
        /\ order' = [order EXCEPT ![p] = orders + 1]
        /\ diskFaults' = diskFaults
    BY <1>16, Zenon DEF NewOrder, Return, Goto, diskVars, lockVars, boundVars,
       certStates, scanVars, loopVars, certVars, histVars
  <2> QED
    BY <2>1, SMTT(30) DEF ChalInv
<1>17. ASSUME NEW p \in Procs, InsertChallenge(p) PROVE ChalInv'
  <2>1. /\ pc[p] = "challenge" /\ pc' = [pc EXCEPT ![p] = "publish"]
        /\ chalMem' = [chalMem EXCEPT ![p][cur[p]] = order[p]]
        /\ chalFile' = chalFile /\ order' = order /\ cur' = cur
        /\ diskFaults' = diskFaults
    BY <1>17, Zenon DEF InsertChallenge, Goto, diskVars, lockVars, boundVars,
       certStates, scanVars, loopVars, certVars, histVars
  <2>2. cur[p] \in Domains /\ order[p] \in Nat
    OBVIOUS
  <2>3. \A q \in Procs : \A e \in Domains :
          chalMem'[q][e] = IF q = p /\ e = cur[p] THEN order[p] ELSE chalMem[q][e]
    BY <2>1, <2>2, TableValue, SMTT(30)
  <2>4. \A q \in Procs : pc'[q] = IF q = p THEN "publish" ELSE pc[q]
    BY <2>1, Moved, Zenon
  <2> QED
    BY <2>1, <2>2, <2>3, <2>4, SMTT(30) DEF ChalInv
<1>18. ASSUME NEW p \in Procs, PublishChallenge(p) PROVE ChalInv'
  <2>1. /\ pc[p] = "publish" /\ pc' = [pc EXCEPT ![p] = "validate"]
        /\ chalFile' = [chalFile EXCEPT ![cur[p]] = order[p]]
        /\ chalMem' = chalMem /\ order' = order /\ cur' = cur
        /\ diskFaults' = diskFaults
    BY <1>18, Zenon DEF PublishChallenge, Goto, diskVars, lockVars, boundVars,
       certStates, scanVars, loopVars, certVars, histVars
  <2>2. cur[p] \in Domains
    OBVIOUS
  <2>3. \A q \in Procs : pc'[q] = IF q = p THEN "validate" ELSE pc[q]
    BY <2>1, Moved, Zenon
  <2>4. \A q \in Procs : pc[q] = "validate" => cur[q] # cur[p]
    BY <2>1, SMTT(30) DEF InsidePC
  <2> QED
    BY <2>1, <2>2, <2>3, <2>4, SMTT(30) DEF ChalInv
<1>19. ASSUME NEW p \in Procs, RemoveChallengeMem(p) PROVE ChalInv'
  <2>1. /\ pc[p] = "unchallenge" /\ pc' = [pc EXCEPT ![p] = "unpublish"]
        /\ chalMem' = [chalMem EXCEPT ![p][cur[p]] = 0]
        /\ chalFile' = chalFile /\ order' = order /\ cur' = cur
        /\ diskFaults' = diskFaults
    BY <1>19, Zenon DEF RemoveChallengeMem, Goto, diskVars, lockVars, boundVars,
       certStates, scanVars, loopVars, certVars, histVars
  <2>2. cur[p] \in Domains /\ 0 \in Nat
    OBVIOUS
  <2>3. \A q \in Procs : \A e \in Domains :
          chalMem'[q][e] = IF q = p /\ e = cur[p] THEN 0 ELSE chalMem[q][e]
    BY <2>1, <2>2, TableValue, SMTT(30)
  <2>4. \A q \in Procs : pc'[q] = IF q = p THEN "unpublish" ELSE pc[q]
    BY <2>1, Moved, Zenon
  <2> QED
    BY <2>1, <2>2, <2>3, <2>4, SMTT(30) DEF ChalInv
<1>20. ASSUME NEW p \in Procs, RemoveChallengeFile(p) PROVE ChalInv'
  <2>1. /\ chalMem' = chalMem /\ cur' = cur /\ pc[p] = "unpublish"
        /\ \/ diskFaults' = diskFaults + 1
           \/ /\ diskFaults' = diskFaults
              /\ chalFile' = [chalFile EXCEPT ![cur[p]] = 0]
        /\ \/ pc' = [pc EXCEPT ![p] = "finalize"] /\ order' = order
           \/ pc' = [pc EXCEPT ![p] = "pick"] /\ order' = [order EXCEPT ![p] = 0]
    BY <1>20, Zenon DEF RemoveChallengeFile, Return, Goto, diskVars, lockVars,
       boundVars, certStates, scanVars, loopVars, certVars, histVars
  <2>2. \A q \in Procs : \/ pc'[q] = pc[q] /\ order'[q] = order[q]
                         \/ pc[q] = "unpublish" /\ pc'[q] \in {"pick", "finalize"}
    BY <2>1, SMTT(30)
  <2>3. \A q \in Procs : pc[q] = "validate" => cur[q] # cur[p]
    BY <2>1, SMTT(30) DEF InsidePC
  <2>4. cur[p] \in Domains
    OBVIOUS
  <2>5. CASE diskFaults' = diskFaults + 1
    BY <1>2, <2>5, Zenon
  <2>6. CASE diskFaults' = diskFaults /\ chalFile' = [chalFile EXCEPT ![cur[p]] = 0]
    BY <2>1, <2>2, <2>3, <2>4, <2>6, SMTT(30) DEF ChalInv
  <2> QED
    BY <2>1, <2>5, <2>6, Zenon
<1>21. ASSUME NEW p \in Procs, CrashRestart(p) PROVE ChalInv'
  <2>1. /\ pc' = [pc EXCEPT ![p] = "open"] /\ chalFile' = chalFile
        /\ chalMem' = [chalMem EXCEPT ![p] = [d \in Domains |-> 0]]
        /\ cur' = [cur EXCEPT ![p] = AnyDomain]
        /\ order' = [order EXCEPT ![p] = 0] /\ diskFaults' = diskFaults
    BY <1>21, Zenon DEF CrashRestart, Goto, diskVars, lockVars, boundVars,
       certStates, scanVars, loopVars, certVars, histVars
  <2> QED
    BY <2>1, SMTT(30) DEF ChalInv
<1>22. ASSUME NEW p \in Procs, NEW d \in Domains, TryLock(p, d) PROVE ChalInv'
  <2>1. /\ pc[p] = "pick" /\ chalMem' = chalMem /\ chalFile' = chalFile
        /\ order' = order /\ diskFaults' = diskFaults
        /\ \/ pc' = pc /\ cur' = cur
           \/ /\ pc' = [pc EXCEPT ![p] = "recheck"]
              /\ cur' = [cur EXCEPT ![p] = d]
    BY <1>22, Zenon DEF TryLock, Goto, diskVars, lockVars, boundVars, certStates,
       scanVars, loopVars, certVars, histVars
  <2>2. \A q \in Procs : \/ pc'[q] = pc[q] /\ cur'[q] = cur[q]
                         \/ pc[q] = "pick" /\ pc'[q] = "recheck"
    BY <2>1, SMTT(30)
  <2> QED
    BY <2>1, <2>2, SMTT(30) DEF ChalInv
<1>23. QED
  BY <1>1, <1>4, <1>5, <1>6, <1>7, <1>8, <1>9, <1>10, <1>11, <1>12, <1>13, <1>14,
     <1>15, <1>16, <1>17, <1>18, <1>19, <1>20, <1>21, <1>22, OutsideFrame,
     ZenonT(60) DEF InsideAct

-----------------------------------------------------------------------------
\* The inductive invariant.
IInv == /\ TypeOK /\ LockInv /\ AcctInv /\ OrderInv /\ LiveInv
        /\ NoRedundantOrder /\ StoredPairFits /\ ChalInv

\* The invariant holds when the processes start with an empty directory.
LEMMA IInvInit == Init => IInv
<1> SUFFICES ASSUME Init PROVE IInv
  BY Zenon
<1>1. TypeOK
  <2>1. cur \in [Procs -> Domains]
    BY DomainsAssumption DEF Init, AnyDomain
  <2> QED
    BY <2>1, TableElem, NoProcAssumption, Zenon DEF Init, TypeOK, ProcPC, Managed
<1>2. LockInv /\ AcctInv /\ OrderInv
  BY DEF Init, LockInv, AcctInv, OneAccountKey, OrderInv, InsidePC, OpenPC
<1>3. LiveInv /\ NoRedundantOrder /\ StoredPairFits
  BY DEF Init, LiveInv, NoRedundantOrder, StoredPairFits, Managed
<1>4. ChalInv
  BY DEF Init, ChalInv
<1> QED
  BY <1>1, <1>2, <1>3, <1>4 DEF IInv

\* Every step keeps the invariant.
LEMMA IInvStep == IInv /\ [Next]_vars => IInv'
BY TypeStep, LockStep, AcctStep, OrderStep, LiveStep, NeededStep, PairStep, ChalStep
   DEF IInv

\* Invariance of IInv.
LEMMA Invariance == Spec => []IInv
BY IInvInit, IInvStep, PTL DEF Spec

\* The directory and every process's provisioning state stay well-typed; in
\* particular no domain of --cert-dir is ever provisioned.
THEOREM TypeCorrect == Spec => []TypeOK
<1>1. IInv => TypeOK
  BY DEF IInv
<1> QED
  BY <1>1, Invariance, PTL

\* Under the per-domain lock cert.pem and key.pem are always a pair, unless a
\* crash or a failed write cut the pair in two.
THEOREM StoredPairsFit == Spec => []StoredPairFits
<1>1. IInv => StoredPairFits
  BY DEF IInv
<1> QED
  BY <1>1, Invariance, PTL

\* No process holds an order for a certificate a sibling has just obtained,
\* unless it could not read the stored files when it looked again.
THEOREM SingleFlight == Spec => []NoRedundantOrder
<1>1. IInv => NoRedundantOrder
  BY DEF IInv
<1> QED
  BY <1>1, Invariance, PTL

\* Racing processes converge on a single account key.
THEOREM AccountConverges == Spec => []OneAccountKey
<1>1. IInv => OneAccountKey
  BY DEF IInv, AcctInv
<1> QED
  BY <1>1, Invariance, PTL

\* While the authority may validate an order, every process that shares the
\* directory answers with that order's key authorization, unless a write to the
\* directory has failed: its own from the memory, the siblings' from the file,
\* and what an earlier order left has been removed.
THEOREM ChallengesAnswered == Spec => []ChallengeAnswered
<1>1. ASSUME IInv, diskFaults = 0, NEW p \in Procs, pc[p] = "validate", NEW q \in Procs
      PROVE  ChallengeForSni(q, cur[p]) = order[p]
  <2>1. cur[p] \in Domains /\ chalFile[cur[p]] = order[p] /\ lock[cur[p]] = p
    BY <1>1 DEF IInv, TypeOK, ChalInv, LockInv, InsidePC
  <2>2. chalMem[q][cur[p]] # 0 => /\ pc[q] \in {"publish", "validate", "unchallenge"}
                                  /\ cur[p] = cur[q] /\ chalMem[q][cur[p]] = order[q]
    BY <1>1, <2>1 DEF IInv, ChalInv
  <2>3. chalMem[q][cur[p]] # 0 => lock[cur[q]] = q /\ cur[p] = cur[q]
    BY <1>1, <2>2 DEF IInv, LockInv, InsidePC
  <2> QED
    BY <2>1, <2>2, <2>3 DEF ChallengeForSni
<1>2. IInv => ChallengeAnswered
  BY <1>1 DEF ChallengeAnswered, AnyProcessAnswers
<1> QED
  BY <1>2, Invariance, PTL

\* A step that is not a crash leaves every served certificate in place or
\* replaces it by a newer one.
LEMMA LiveGrows ==
    ASSUME IInv, [Next]_vars, crashes' = crashes
    PROVE  \A q \in Procs : \A e \in Domains : live'[q][e] >= live[q][e]
<1>0. /\ pc \in [Procs -> ProcPC] /\ cur \in [Procs -> Domains]
      /\ cert \in [Domains -> Nat] /\ order \in [Procs -> Nat] /\ crashes \in Nat
      /\ live \in [Procs -> [Domains -> Nat]] /\ seen \in [Procs -> Nat \X Nat]
  BY ZenonT(30) DEF IInv, TypeOK, PerDomain
<1>a. OrderInv /\ LiveInv
  BY DEF IInv
<1>1. ASSUME NEW p \in Procs, SyncKey(p)
      PROVE  \A q \in Procs : \A e \in Domains : live'[q][e] >= live[q][e]
  <2>1. \A q \in Procs : \A e \in Domains :
          \/ live'[q][e] = live[q][e]
          \/ q = p /\ e = cur[p] /\ live'[q][e] = seen[p][2]
    BY <1>0, <1>1, SyncKeyLive, Zenon
  <2>2. live[p][cur[p]] <= seen[p][2]
    BY <1>1, <1>a DEF SyncKey, LiveInv
  <2> QED
    BY <1>0, <2>1, <2>2, SMTT(30)
<1>2. ASSUME NEW p \in Procs, InsertLive(p)
      PROVE  \A q \in Procs : \A e \in Domains : live'[q][e] >= live[q][e]
  <2>1. \A q \in Procs : \A e \in Domains :
          \/ live'[q][e] = live[q][e]
          \/ q = p /\ e = cur[p] /\ live'[q][e] = order[p]
    BY <1>0, <1>2, InsertLiveLive, Zenon
  <2>2. pc[p] = "install"
    BY <1>2, Zenon DEF InsertLive
  <2>3. live[p][cur[p]] <= order[p]
    BY <1>0, <1>a, <2>2, SMTT(30) DEF LiveInv, OrderInv
  <2> QED
    BY <1>0, <2>1, <2>3, SMTT(30)
<1>3. \A p \in Procs : ~CrashRestart(p)
  BY <1>0 DEF CrashRestart
<1>4. ASSUME live' = live
      PROVE  \A q \in Procs : \A e \in Domains : live'[q][e] >= live[q][e]
  BY <1>0, <1>4
<1>5. TypeOK
  BY DEF IInv
<1>6. \/ live' = live
      \/ \E p \in Procs : SyncKey(p) \/ InsertLive(p) \/ CrashRestart(p)
  <2>1. ASSUME NEW p \in Procs, SyncCert(p) \/ SaveCert(p) PROVE live' = live
    BY <2>1, Zenon DEF SyncCert, SaveCert, certVars
  <2> QED
    BY <2>1, <1>5, LiveCases, Zenon DEF LiveQuiet
<1> QED
  BY <1>1, <1>2, <1>3, <1>4, <1>6, Zenon

\* A process never replaces a certificate it serves by an older one.
THEOREM NeverOlder == Spec => LiveNeverOlder
<1>1. IInv /\ [Next]_vars =>
        [\A p \in Procs : crashes' = crashes =>
            \A d \in Domains : live'[p][d] >= live[p][d]]_vars
  BY LiveGrows
<1> QED
  BY <1>1, Invariance, PTL DEF Spec, LiveNeverOlder

=============================================================================
