-------------------------------- MODULE Acme --------------------------------
(***************************************************************************)
(* Certificate provisioning over ACME (src/src/acme/mod.rs and             *)
(* acme/store.rs) by several zeroserve processes that share one --acme-dir.*)
(*                                                                         *)
(* Every process runs AcmeRuntime::run on its worker 0: it loads changed   *)
(* certificates into its live store, and at the renewal interval scans its *)
(* domains, gets the account key, and provisions the domains that need it  *)
(* under a per-domain advisory lock.  Processes crash and restart; calls   *)
(* to the certificate authority and writes to the directory can fail.      *)
(*                                                                         *)
(* An order is numbered; the number stands for its key authorization, for  *)
(* its private key and for the certificate it yields.  A stored file holds *)
(* the number of the order that wrote it (0: no file), which also stands   *)
(* for its modification time.  Account keys are numbered likewise.         *)
(***************************************************************************)
EXTENDS Naturals, FiniteSets

CONSTANTS
    Procs,          \* processes sharing the directory
    Domains,        \* config.domains
    Covered,        \* domains served from --cert-dir, never acquired
    NoProc,         \* the holder of a free lock
    MaxRenewals,    \* bound: certificates that enter the renewal window
    MaxFaults       \* bound: failing calls to the certificate authority,
                    \* failing operations on the directory and crashes

ASSUME CoveredAssumption == Covered \subseteq Domains
ASSUME DomainsAssumption == Domains # {}
ASSUME NoProcAssumption == NoProc \notin Procs
ASSUME AcmeBounds == MaxRenewals \in Nat /\ MaxFaults \in Nat

VARIABLES
    cert, key,      \* per domain: cert.pem and key.pem
    chalFile,       \* per domain: the published key authorization
    acct,           \* account.key
    lock,           \* per domain: holder of .provision.lock
    acctLock,       \* holder of account.key.lock
    expiring,       \* certificates in the renewal window, or unparsable
    unusable,       \* certificates no TLS context can be built from
    orders,         \* orders (and account keys) made so far
    caFaults, diskFaults, crashes, renewals,
    pc,             \* per process: where its run loop is
    tosync,         \* per process: domains sync_live_certs has still to visit
    pending,        \* per process: domains provision_cycle has still to visit
    cur,            \* per process: the domain it is working on
    seen,           \* per process: the mtime and certificate it has read
    order,          \* per process: number of its current order
    valid,          \* per process: its authorization became valid
    client,         \* per process: account key of its AcmeClient
    due,            \* per process: next_provision has passed
    live,           \* SharedCerts::live, per process and domain
    loaded,         \* per process and domain: mtime last loaded
    chalMem,        \* SharedCerts::challenges, per process and domain
    failedProv,     \* history: domains whose last provisioning failed
    spoiled,        \* history: domains whose two files were written halfway
    blind           \* history: processes that could not read the files of
                    \* their domain when they looked again under its lock

diskVars == <<cert, key, chalFile, acct>>
lockVars == <<lock, acctLock>>
certStates == <<expiring, unusable>>
boundVars == <<orders, caFaults, diskFaults, crashes, renewals, certStates>>
scanVars == <<tosync, pending, cur, seen, client, due>>
loopVars == <<scanVars, order, valid>>
certVars == <<live, loaded, chalMem>>
histVars == <<failedProv, spoiled, blind>>
vars == <<diskVars, lockVars, boundVars, pc, loopVars, certVars, histVars>>

Managed == Domains \ Covered

\* What cur holds before a process has worked on a domain.
AnyDomain == CHOOSE d \in Domains : TRUE

FaultLeft == caFaults + diskFaults + crashes < MaxFaults

Init ==
    /\ cert = [d \in Domains |-> 0]
    /\ key = [d \in Domains |-> 0]
    /\ chalFile = [d \in Domains |-> 0]
    /\ acct = 0
    /\ lock = [d \in Domains |-> NoProc]
    /\ acctLock = NoProc
    /\ expiring = {} /\ unusable = {}
    /\ orders = 0
    /\ caFaults = 0 /\ diskFaults = 0 /\ crashes = 0 /\ renewals = 0
    /\ pc = [p \in Procs |-> "open"]
    /\ tosync = [p \in Procs |-> Domains]
    /\ pending = [p \in Procs |-> {}]
    /\ cur = [p \in Procs |-> AnyDomain]
    /\ seen = [p \in Procs |-> <<0, 0>>]
    /\ order = [p \in Procs |-> 0]
    /\ valid = [p \in Procs |-> FALSE]
    /\ client = [p \in Procs |-> 0]
    /\ due = [p \in Procs |-> TRUE]
    /\ live = [p \in Procs |-> [d \in Domains |-> 0]]
    /\ loaded = [p \in Procs |-> [d \in Domains |-> 0]]
    /\ chalMem = [p \in Procs |-> [d \in Domains |-> 0]]
    /\ failedProv = [p \in Procs |-> {}]
    /\ spoiled = {} /\ blind = {}

Goto(p, label) == pc' = [pc EXCEPT ![p] = label]

\* needs_renewal of files that can be read: one is missing, or the certificate
\* is unparsable or in the window.  The key file is read but not looked at.
NeedsRenewal(d) == cert[d] = 0 \/ key[d] = 0 \/ cert[d] \in expiring

\* What a handshake with ALPN acme-tls/1 for d gets from process p: the
\* in-memory challenge, else the published one.
ChallengeForSni(p, d) ==
    IF chalMem[p][d] # 0 THEN chalMem[p][d] ELSE chalFile[d]

-----------------------------------------------------------------------------
(* Store::open: run returns for good when the directory cannot be opened.   *)

Open(p) ==
    /\ pc[p] = "open"
    /\ Goto(p, "sync")
    /\ UNCHANGED <<diskVars, lockVars, boundVars, loopVars, certVars, histVars>>

OpenFails(p) ==
    /\ pc[p] = "open" /\ FaultLeft
    /\ diskFaults' = diskFaults + 1
    /\ Goto(p, "stopped")
    /\ UNCHANGED <<diskVars, lockVars, orders, caFaults, crashes, renewals,
                   certStates, loopVars, certVars, histVars>>

-----------------------------------------------------------------------------
(* sync_live_certs                                                         *)

\* Covered domains, absent files and unchanged files are skipped.
SyncMtime(p, d) ==
    /\ pc[p] = "sync" /\ d \in tosync[p]
    /\ tosync' = [tosync EXCEPT ![p] = @ \ {d}]
    /\ IF d \in Covered \/ cert[d] = 0 \/ loaded[p][d] = cert[d]
       THEN UNCHANGED <<pc, cur, seen>>
       ELSE /\ cur' = [cur EXCEPT ![p] = d]
            /\ seen' = [seen EXCEPT ![p][1] = cert[d]]
            /\ Goto(p, "syncCert")
    /\ UNCHANGED <<diskVars, lockVars, boundVars, pending, order, valid,
                   client, due, certVars, histVars>>

SyncCert(p) ==
    /\ pc[p] = "syncCert"
    /\ seen' = [seen EXCEPT ![p][2] = cert[cur[p]]]
    /\ Goto(p, "syncKey")
    /\ UNCHANGED <<diskVars, lockVars, boundVars, tosync, pending, cur, order,
                   valid, client, due, certVars, histVars>>

\* Mutant of SyncKey: the mtime is remembered although the pair did not fit.
SyncKeyRemember(p) ==
    /\ pc[p] = "syncKey"
    /\ live' = IF key[cur[p]] = seen[p][2] /\ seen[p][2] \notin unusable
               THEN [live EXCEPT ![p][cur[p]] = seen[p][2]] ELSE live
    /\ loaded' = [loaded EXCEPT ![p][cur[p]] = seen[p][1]]
    /\ seen' = [seen EXCEPT ![p] = <<0, 0>>]
    /\ Goto(p, "sync")
    /\ UNCHANGED <<diskVars, lockVars, boundVars, tosync, pending, cur, order,
                   valid, client, due, chalMem, histVars>>

\* The key is read, and the context is built only if it fits the certificate
\* and the chain is good.
SyncKey(p) ==
    /\ pc[p] = "syncKey"
    /\ IF key[cur[p]] = seen[p][2] /\ seen[p][2] \notin unusable
       THEN /\ live' = [live EXCEPT ![p][cur[p]] = seen[p][2]]
            /\ loaded' = [loaded EXCEPT ![p][cur[p]] = seen[p][1]]
       ELSE UNCHANGED <<live, loaded>>
    /\ seen' = [seen EXCEPT ![p] = <<0, 0>>]
    /\ Goto(p, "sync")
    /\ UNCHANGED <<diskVars, lockVars, boundVars, tosync, pending, cur, order,
                   valid, client, due, chalMem, histVars>>

\* cert_mtime or load_cert cannot read a file: the domain is left for the next
\* round, and its mtime is not remembered.
SyncReadFails(p, d) ==
    /\ \/ pc[p] = "sync" /\ d \in tosync[p]
       \/ pc[p] \in {"syncCert", "syncKey"} /\ d = cur[p]
    /\ FaultLeft
    /\ diskFaults' = diskFaults + 1
    /\ tosync' = [tosync EXCEPT ![p] = @ \ {d}]
    /\ seen' = [seen EXCEPT ![p] = <<0, 0>>]
    /\ Goto(p, "sync")
    /\ UNCHANGED <<diskVars, lockVars, orders, caFaults, crashes, renewals,
                   certStates, pending, cur, order, valid, client, due,
                   certVars, histVars>>

-----------------------------------------------------------------------------
(* The loop of run, and provision_cycle up to the connected client.        *)

Sleep(p) ==
    /\ pc[p] = "sync" /\ tosync[p] = {} /\ ~due[p]
    /\ tosync' = [tosync EXCEPT ![p] = Domains]
    /\ UNCHANGED <<diskVars, lockVars, boundVars, pc, pending, cur, seen,
                   order, valid, client, due, certVars, histVars>>

\* The renewal interval elapses while the process sleeps or loads certificates.
RenewalDue(p) ==
    /\ ~due[p]
    /\ due' = [due EXCEPT ![p] = TRUE]
    /\ UNCHANGED <<diskVars, lockVars, boundVars, pc, tosync, pending, cur,
                   seen, order, valid, client, certVars, histVars>>

\* The domains are looked at one after the other; what the scan says of one
\* is checked again under its lock.
Scan(p) ==
    /\ pc[p] = "sync" /\ tosync[p] = {} /\ due[p]
    /\ pending' = [pending EXCEPT ![p] = {d \in Managed : NeedsRenewal(d)}]
    /\ Goto(p, "scanned")
    /\ UNCHANGED <<diskVars, lockVars, boundVars, tosync, cur, seen, order,
                   valid, client, due, certVars, histVars>>

\* The same when the files of some domains cannot be read: needs_renewal is
\* true for them.
ScanFails(p, bad) ==
    /\ pc[p] = "sync" /\ tosync[p] = {} /\ due[p] /\ FaultLeft
    /\ diskFaults' = diskFaults + 1
    /\ pending' = [pending EXCEPT ![p] =
                     {d \in Managed : NeedsRenewal(d)} \cup bad]
    /\ Goto(p, "scanned")
    /\ UNCHANGED <<diskVars, lockVars, orders, caFaults, crashes, renewals,
                   certStates, tosync, cur, seen, order, valid, client, due,
                   certVars, histVars>>

\* provision_cycle returns, with or without an error; next_provision is set
\* and the process sleeps; the AcmeClient is dropped.
CycleEnds(p) ==
    /\ Goto(p, "sync")
    /\ due' = [due EXCEPT ![p] = FALSE]
    /\ tosync' = [tosync EXCEPT ![p] = Domains]
    /\ pending' = [pending EXCEPT ![p] = {}]
    /\ client' = [client EXCEPT ![p] = 0]

NothingPending(p) ==
    /\ pc[p] = "scanned" /\ pending[p] = {}
    /\ CycleEnds(p)
    /\ UNCHANGED <<diskVars, lockVars, boundVars, cur, seen, order, valid, certVars, histVars>>

AccountRead(p) ==
    /\ pc[p] = "scanned" /\ pending[p] # {}
    /\ IF acct # 0
       THEN client' = [client EXCEPT ![p] = acct] /\ Goto(p, "connect")
       ELSE UNCHANGED client /\ Goto(p, "acctLock")
    /\ UNCHANGED <<diskVars, lockVars, boundVars, tosync, pending, cur, seen,
                   order, valid, due, certVars, histVars>>

\* The non-blocking lock is retried until it is free.
AccountLock(p) ==
    /\ pc[p] = "acctLock" /\ acctLock = NoProc
    /\ acctLock' = p
    /\ Goto(p, "acctCheck")
    /\ UNCHANGED <<diskVars, lock, boundVars, loopVars, certVars, histVars>>

\* Mutant of AccountRecheck: no second look at the key under the lock.
AccountNoRecheck(p) ==
    /\ pc[p] = "acctCheck"
    /\ Goto(p, "acctCreate")
    /\ UNCHANGED <<diskVars, lockVars, boundVars, loopVars, certVars, histVars>>

AccountRecheck(p) ==
    /\ pc[p] = "acctCheck"
    /\ IF acct # 0
       THEN /\ client' = [client EXCEPT ![p] = acct]
            /\ acctLock' = NoProc
            /\ Goto(p, "connect")
       ELSE /\ Goto(p, "acctCreate")
            /\ UNCHANGED <<client, acctLock>>
    /\ UNCHANGED <<diskVars, lock, boundVars, tosync, pending, cur, seen,
                   order, valid, due, certVars, histVars>>

AccountCreate(p) ==
    /\ pc[p] = "acctCreate"
    /\ orders' = orders + 1
    /\ acct' = orders + 1
    /\ client' = [client EXCEPT ![p] = orders + 1]
    /\ acctLock' = NoProc
    /\ Goto(p, "connect")
    /\ UNCHANGED <<cert, key, chalFile, lock, caFaults, diskFaults, crashes,
                   renewals, certStates, tosync, pending, cur, seen, order,
                   valid, due, certVars, histVars>>

\* Reading the key, locking or writing it fails: account_key and with it
\* provision_cycle return the error, and a held lock is dropped.
AccountFails(p) ==
    /\ \/ pc[p] = "scanned" /\ pending[p] # {}
       \/ pc[p] \in {"acctLock", "acctCheck", "acctCreate"}
    /\ FaultLeft
    /\ diskFaults' = diskFaults + 1
    /\ acctLock' = IF acctLock = p THEN NoProc ELSE acctLock
    /\ CycleEnds(p)
    /\ UNCHANGED <<diskVars, lock, orders, caFaults, crashes, renewals,
                   certStates, cur, seen, order, valid, certVars,
                   histVars>>

Connect(p) ==
    /\ pc[p] = "connect"
    /\ Goto(p, "pick")
    /\ UNCHANGED <<diskVars, lockVars, boundVars, loopVars, certVars, histVars>>

ConnectFails(p) ==
    /\ pc[p] = "connect" /\ FaultLeft
    /\ caFaults' = caFaults + 1
    /\ CycleEnds(p)
    /\ UNCHANGED <<diskVars, lockVars, orders, diskFaults, crashes, renewals,
                   certStates, cur, seen, order, valid, certVars,
                   histVars>>

AllProvisioned(p) ==
    /\ pc[p] = "pick" /\ pending[p] = {}
    /\ CycleEnds(p)
    /\ UNCHANGED <<diskVars, lockVars, boundVars, cur, seen, order, valid, certVars, histVars>>

-----------------------------------------------------------------------------
(* provision_domain                                                        *)

\* Mutant of TryLock: the advisory lock excludes nobody.
TryLockShared(p, d) ==
    /\ pc[p] = "pick" /\ d \in pending[p]
    /\ pending' = [pending EXCEPT ![p] = @ \ {d}]
    /\ lock' = [lock EXCEPT ![d] = p]
    /\ cur' = [cur EXCEPT ![p] = d]
    /\ Goto(p, "recheck")
    /\ UNCHANGED <<diskVars, acctLock, boundVars, tosync, seen, order, valid,
                   client, due, certVars, histVars>>

\* The next pending domain: skipped when a sibling holds its lock.
TryLock(p, d) ==
    /\ pc[p] = "pick" /\ d \in pending[p]
    /\ pending' = [pending EXCEPT ![p] = @ \ {d}]
    /\ IF lock[d] = NoProc
       THEN /\ lock' = [lock EXCEPT ![d] = p]
            /\ cur' = [cur EXCEPT ![p] = d]
            /\ Goto(p, "recheck")
       ELSE UNCHANGED <<lock, cur, pc>>
    /\ UNCHANGED <<diskVars, acctLock, boundVars, tosync, seen, order, valid,
                   client, due, certVars, histVars>>

\* The lock file cannot be opened: provision_domain returns the error.
LockFails(p, d) ==
    /\ pc[p] = "pick" /\ d \in pending[p] /\ FaultLeft
    /\ diskFaults' = diskFaults + 1
    /\ pending' = [pending EXCEPT ![p] = @ \ {d}]
    /\ failedProv' = [failedProv EXCEPT ![p] = @ \cup {d}]
    /\ UNCHANGED <<diskVars, lockVars, orders, caFaults, crashes, renewals,
                   certStates, pc, tosync, cur, seen, order, valid, client, due,
                   certVars, spoiled, blind>>

\* provision_domain returns: the lock guard and its locals are dropped.
Return(p, ok) ==
    /\ lock' = [lock EXCEPT ![cur[p]] = NoProc]
    /\ failedProv' = [failedProv EXCEPT ![p] =
                        IF ok THEN @ \ {cur[p]} ELSE @ \cup {cur[p]}]
    /\ order' = [order EXCEPT ![p] = 0]
    /\ valid' = [valid EXCEPT ![p] = FALSE]
    /\ blind' = blind \ {p}
    /\ Goto(p, "pick")

\* Looking again under the lock: the stored files cannot be read, which
\* needs_renewal takes for a certificate that has to be renewed.
RecheckFails(p) ==
    /\ pc[p] = "recheck" /\ p \notin blind /\ FaultLeft
    /\ diskFaults' = diskFaults + 1
    /\ blind' = blind \cup {p}
    /\ UNCHANGED <<diskVars, lockVars, orders, caFaults, crashes, renewals,
                   certStates, pc, loopVars, certVars, failedProv, spoiled>>

\* What the second needs_renewal says.
FoundDue(p) == p \in blind \/ NeedsRenewal(cur[p])

NoLongerNeeded(p) ==
    /\ pc[p] = "recheck" /\ ~FoundDue(p)
    /\ Return(p, TRUE)
    /\ UNCHANGED <<diskVars, acctLock, boundVars, scanVars, certVars, spoiled>>

\* Mutant of NewOrder: no second look at the certificate under the lock.
NewOrderUnchecked(p) ==
    /\ pc[p] = "recheck"
    /\ orders' = orders + 1
    /\ order' = [order EXCEPT ![p] = orders + 1]
    /\ Goto(p, "challenge")
    /\ UNCHANGED <<diskVars, lockVars, caFaults, diskFaults, crashes, renewals,
                   certStates, tosync, pending, cur, seen, valid, client, due,
                   certVars, histVars>>

NewOrder(p) ==
    /\ pc[p] = "recheck" /\ FoundDue(p)
    /\ orders' = orders + 1
    /\ order' = [order EXCEPT ![p] = orders + 1]
    /\ Goto(p, "challenge")
    /\ UNCHANGED <<diskVars, lockVars, caFaults, diskFaults, crashes, renewals,
                   certStates, tosync, pending, cur, seen, valid, client, due,
                   certVars, histVars>>

\* new_order, tls_alpn_challenge, finalize, poll_order_certificate and
\* download_certificate leave provision_domain when they fail.
CaCallFails(p) ==
    /\ \/ pc[p] = "recheck" /\ FoundDue(p)
       \/ pc[p] \in {"challenge", "finalize"}
    /\ FaultLeft
    /\ caFaults' = caFaults + 1
    /\ Return(p, FALSE)
    /\ UNCHANGED <<diskVars, acctLock, orders, diskFaults, crashes, renewals,
                   certStates, scanVars, certVars, spoiled>>

InsertChallenge(p) ==
    /\ pc[p] = "challenge"
    /\ chalMem' = [chalMem EXCEPT ![p][cur[p]] = order[p]]
    /\ Goto(p, "publish")
    /\ UNCHANGED <<diskVars, lockVars, boundVars, loopVars, live, loaded,
                   histVars>>

PublishChallenge(p) ==
    /\ pc[p] = "publish"
    /\ chalFile' = [chalFile EXCEPT ![cur[p]] = order[p]]
    /\ Goto(p, "validate")
    /\ UNCHANGED <<cert, key, acct, lockVars, boundVars, loopVars, certVars,
                   histVars>>

\* write_challenge fails: `?` leaves before the challenge is torn down.
PublishFails(p) ==
    /\ pc[p] = "publish" /\ FaultLeft
    /\ diskFaults' = diskFaults + 1
    /\ Return(p, FALSE)
    /\ UNCHANGED <<diskVars, acctLock, orders, caFaults, crashes, renewals,
                   certStates, scanVars, certVars, spoiled>>

\* signal_challenge_ready and poll_authorization.
Validated(p) ==
    /\ pc[p] = "validate"
    /\ valid' = [valid EXCEPT ![p] = TRUE]
    /\ Goto(p, "unchallenge")
    /\ UNCHANGED <<diskVars, lockVars, boundVars, tosync, pending, cur, seen,
                   order, client, due, certVars, histVars>>

ValidationFails(p) ==
    /\ pc[p] = "validate" /\ FaultLeft
    /\ caFaults' = caFaults + 1
    /\ valid' = [valid EXCEPT ![p] = FALSE]
    /\ Goto(p, "unchallenge")
    /\ UNCHANGED <<diskVars, lockVars, orders, diskFaults, crashes, renewals,
                   certStates, tosync, pending, cur, seen, order, client, due,
                   certVars, histVars>>

\* Mutant of RemoveChallengeMem: the challenge is torn down only after success.
RemoveChallengeMemIfValid(p) ==
    /\ pc[p] = "unchallenge"
    /\ chalMem' = IF valid[p] THEN [chalMem EXCEPT ![p][cur[p]] = 0] ELSE chalMem
    /\ Goto(p, "unpublish")
    /\ UNCHANGED <<diskVars, lockVars, boundVars, loopVars, live, loaded,
                   histVars>>

RemoveChallengeMem(p) ==
    /\ pc[p] = "unchallenge"
    /\ chalMem' = [chalMem EXCEPT ![p][cur[p]] = 0]
    /\ Goto(p, "unpublish")
    /\ UNCHANGED <<diskVars, lockVars, boundVars, loopVars, live, loaded,
                   histVars>>

\* The file is removed (an error is ignored), then `result?` ends a failed
\* authorization.
RemoveChallengeFile(p) ==
    /\ pc[p] = "unpublish"
    /\ \/ /\ chalFile' = [chalFile EXCEPT ![cur[p]] = 0]
          /\ UNCHANGED diskFaults
       \/ /\ FaultLeft
          /\ diskFaults' = diskFaults + 1
          /\ UNCHANGED chalFile
    /\ IF valid[p]
       THEN /\ Goto(p, "finalize")
            /\ UNCHANGED <<lock, failedProv, blind, order, valid>>
       ELSE Return(p, FALSE)
    /\ UNCHANGED <<cert, key, acct, acctLock, orders, caFaults, crashes,
                   renewals, certStates, scanVars, certVars, spoiled>>

\* finalize, poll_order_certificate, download_certificate: the chain is stored
\* as it comes.
Finalize(p) ==
    /\ pc[p] = "finalize"
    /\ Goto(p, "saveCert")
    /\ UNCHANGED <<diskVars, lockVars, boundVars, loopVars, certVars, histVars>>

\* The authority delivers a chain that context_from_pem will refuse; it may
\* be unparsable altogether, for which needs_renewal will answer true.
FinalizeUnusable(p) ==
    /\ pc[p] = "finalize" /\ FaultLeft
    /\ caFaults' = caFaults + 1
    /\ unusable' = unusable \cup {order[p]}
    /\ expiring' \in {expiring, expiring \cup {order[p]}}
    /\ Goto(p, "saveCert")
    /\ UNCHANGED <<diskVars, lockVars, orders, diskFaults, crashes, renewals,
                   loopVars, certVars, histVars>>

SaveCert(p) ==
    /\ pc[p] = "saveCert"
    /\ cert' = [cert EXCEPT ![cur[p]] = order[p]]
    /\ Goto(p, "saveKey")
    /\ UNCHANGED <<key, chalFile, acct, lockVars, boundVars, loopVars,
                   certVars, histVars>>

\* Mutant of SaveKey: a key file that exists is left as it is.
SaveKeyOnce(p) ==
    /\ pc[p] = "saveKey"
    /\ key' = IF key[cur[p]] = 0 THEN [key EXCEPT ![cur[p]] = order[p]] ELSE key
    /\ spoiled' = spoiled \ {cur[p]}
    /\ Goto(p, "install")
    /\ UNCHANGED <<cert, chalFile, acct, lockVars, boundVars, loopVars,
                   certVars, failedProv, blind>>

SaveKey(p) ==
    /\ pc[p] = "saveKey"
    /\ key' = [key EXCEPT ![cur[p]] = order[p]]
    /\ spoiled' = spoiled \ {cur[p]}
    /\ Goto(p, "install")
    /\ UNCHANGED <<cert, chalFile, acct, lockVars, boundVars, loopVars,
                   certVars, failedProv, blind>>

\* write_atomic fails for cert.pem, or for key.pem after cert.pem is written.
SaveFails(p) ==
    /\ pc[p] \in {"saveCert", "saveKey"} /\ FaultLeft
    /\ diskFaults' = diskFaults + 1
    /\ spoiled' = IF pc[p] = "saveKey" THEN spoiled \cup {cur[p]} ELSE spoiled
    /\ Return(p, FALSE)
    /\ UNCHANGED <<diskVars, acctLock, orders, caFaults, crashes, renewals,
                   certStates, scanVars, certVars>>

\* The context is built from the chain as it was downloaded.
InsertLive(p) ==
    /\ pc[p] = "install"
    /\ IF order[p] \in unusable
       THEN UNCHANGED live /\ Return(p, FALSE)
       ELSE live' = [live EXCEPT ![p][cur[p]] = order[p]] /\ Return(p, TRUE)
    /\ UNCHANGED <<diskVars, acctLock, boundVars, scanVars, loaded, chalMem,
                   spoiled>>

-----------------------------------------------------------------------------
(* Time and crashes.                                                       *)

\* A stored certificate enters the renewal window.
EnterRenewalWindow(d) ==
    /\ renewals < MaxRenewals
    /\ cert[d] # 0 /\ cert[d] \notin expiring
    /\ expiring' = expiring \cup {cert[d]}
    /\ renewals' = renewals + 1
    /\ UNCHANGED <<diskVars, lockVars, orders, caFaults, diskFaults, crashes,
                   unusable, pc, loopVars, certVars, histVars>>

\* The process dies and is restarted: the kernel releases its locks, its
\* memory is lost, the files stay as they are.
CrashRestart(p) ==
    /\ FaultLeft
    /\ crashes' = crashes + 1
    /\ lock' = [d \in Domains |-> IF lock[d] = p THEN NoProc ELSE lock[d]]
    /\ acctLock' = IF acctLock = p THEN NoProc ELSE acctLock
    /\ spoiled' = IF pc[p] = "saveKey" THEN spoiled \cup {cur[p]} ELSE spoiled
    /\ blind' = blind \ {p}
    /\ Goto(p, "open")
    /\ tosync' = [tosync EXCEPT ![p] = Domains]
    /\ cur' = [cur EXCEPT ![p] = AnyDomain]
    /\ pending' = [pending EXCEPT ![p] = {}]
    /\ due' = [due EXCEPT ![p] = TRUE]
    /\ live' = [live EXCEPT ![p] = [d \in Domains |-> 0]]
    /\ loaded' = [loaded EXCEPT ![p] = [d \in Domains |-> 0]]
    /\ chalMem' = [chalMem EXCEPT ![p] = [d \in Domains |-> 0]]
    /\ failedProv' = [failedProv EXCEPT ![p] = {}]
    /\ client' = [client EXCEPT ![p] = 0]
    /\ seen' = [seen EXCEPT ![p] = <<0, 0>>]
    /\ order' = [order EXCEPT ![p] = 0]
    /\ valid' = [valid EXCEPT ![p] = FALSE]
    /\ UNCHANGED <<diskVars, orders, caFaults, diskFaults, renewals,
                   certStates>>

-----------------------------------------------------------------------------
Succeeds(p) ==
    \/ Open(p)
    \/ \E d \in Domains : SyncMtime(p, d) \/ TryLock(p, d)
    \/ SyncCert(p) \/ SyncKey(p) \/ Sleep(p) \/ Scan(p) \/ NothingPending(p)
    \/ AccountRead(p) \/ AccountLock(p) \/ AccountRecheck(p) \/ AccountCreate(p)
    \/ Connect(p) \/ AllProvisioned(p) \/ NoLongerNeeded(p) \/ NewOrder(p)
    \/ InsertChallenge(p) \/ PublishChallenge(p) \/ Validated(p)
    \/ RemoveChallengeMem(p) \/ RemoveChallengeFile(p)
    \/ Finalize(p) \/ SaveCert(p) \/ SaveKey(p) \/ InsertLive(p)

Fails(p) ==
    \/ OpenFails(p) \/ AccountFails(p) \/ ConnectFails(p) \/ CaCallFails(p)
    \/ RecheckFails(p) \/ PublishFails(p) \/ ValidationFails(p)
    \/ FinalizeUnusable(p) \/ SaveFails(p)
    \/ \E d \in Domains : LockFails(p, d) \/ SyncReadFails(p, d)
    \/ \E bad \in SUBSET Managed : ScanFails(p, bad)

Next ==
    \/ \E p \in Procs : Succeeds(p) \/ Fails(p) \/ RenewalDue(p)
                        \/ CrashRestart(p)
    \/ \E d \in Domains : EnterRenewalWindow(d)

Spec == Init /\ [][Next]_vars

\* The run loop is polled by worker 0's runtime, and the renewal interval
\* elapses again and again.
FairSpec == /\ Spec
            /\ \A p \in Procs : WF_vars(Succeeds(p)) /\ WF_vars(RenewalDue(p))

-----------------------------------------------------------------------------
(* Properties.                                                             *)

ProcPC == {"open", "stopped", "sync", "syncCert", "syncKey", "scanned", "acctLock", "acctCheck",
           "acctCreate", "connect", "pick", "recheck", "challenge", "publish",
           "validate", "unchallenge", "unpublish", "finalize", "saveCert",
           "saveKey", "install"}

\* The steps of provision_domain, all under the per-domain lock.
Provisioning(p) == pc[p] \in {"recheck", "challenge", "publish", "validate",
                              "unchallenge", "unpublish", "finalize",
                              "saveCert", "saveKey", "install"}

PerDomain == [Domains -> Nat]

\* Type invariant of the directory and of every process's provisioning state.
TypeOK ==
    /\ cert \in PerDomain /\ key \in PerDomain /\ chalFile \in PerDomain
    /\ acct \in Nat /\ orders \in Nat
    /\ lock \in [Domains -> Procs \cup {NoProc}]
    /\ acctLock \in Procs \cup {NoProc}
    /\ expiring \subseteq Nat /\ unusable \subseteq Nat
    /\ caFaults \in Nat /\ diskFaults \in Nat /\ crashes \in Nat
    /\ renewals \in Nat
    /\ pc \in [Procs -> ProcPC]
    /\ tosync \in [Procs -> SUBSET Domains]
    /\ pending \in [Procs -> SUBSET Managed]
    /\ cur \in [Procs -> Domains]
    /\ seen \in [Procs -> Nat \X Nat]
    /\ order \in [Procs -> Nat]
    /\ valid \in [Procs -> BOOLEAN]
    /\ client \in [Procs -> Nat]
    /\ due \in [Procs -> BOOLEAN]
    /\ live \in [Procs -> PerDomain]
    /\ loaded \in [Procs -> PerDomain]
    /\ chalMem \in [Procs -> PerDomain]
    /\ failedProv \in [Procs -> SUBSET Managed]
    /\ spoiled \subseteq Managed /\ blind \subseteq Procs

\* "The caller holds the per-domain provisioning lock (so no other process
\* writes concurrently)" (store.rs:165-168): the two files of a certificate
\* belong together whenever nobody is between writing the one and the other,
\* unless a crash or a failed write cut the pair in two.
StoredPairFits ==
    \A d \in Managed :
        \/ cert[d] = key[d]
        \/ d \in spoiled
        \/ \E p \in Procs : pc[p] = "saveKey" /\ cur[p] = d

\* Single flight (provision_domain's lock and re-check under it): an order is
\* open only for a domain whose stored certificate still needs renewal, so no
\* process orders a certificate a sibling has just obtained.  The exception is
\* a process that could not read the stored files when it looked again:
\* load_cert's `.ok()?` makes the error a missing certificate, and that one
\* order is redundant (store.rs:158-163, 185-195).
NoRedundantOrder ==
    \A p \in Procs :
        pc[p] \in {"challenge", "publish", "validate", "unchallenge",
                   "unpublish", "finalize", "saveCert"}
            => NeedsRenewal(cur[p]) \/ p \in blind

\* "Racing processes converge on a single account key" (store.rs:146-148):
\* every connected process uses the stored key.
OneAccountKey ==
    \A p \in Procs : client[p] # 0 => client[p] = acct

\* "Any process can answer a TLS-ALPN-01 validation handshake regardless of
\* which one is provisioning" (mod.rs:53-55): while the authority may validate
\* p's order, every process answers with that order's key authorization.
AnyProcessAnswers ==
    \A p \in Procs : pc[p] = "validate" =>
        \A q \in Procs : ChallengeForSni(q, cur[p]) = order[p]

\* The same as long as the directory can be written: an order that ended, by
\* success, by a refusal of the authority or by a crash, leaves nothing behind
\* that answers for a later one.
ChallengeAnswered == diskFaults = 0 => AnyProcessAnswers

\* "A failed domain is retried at this cadence" (mod.rs:33-35): the scan that
\* follows a failed provisioning finds the domain again, unless a sibling has
\* stored a usable certificate since.
FailedIsRetried ==
    \A p \in Procs : pc[p] = "scanned" =>
        \A d \in failedProv[p] : d \in pending[p] \/ cert[d] = key[d]

\* A process never replaces a certificate it serves by an older one, although
\* it learns of new ones both from its own orders and from the directory.
LiveNeverOlder ==
    [][\A p \in Procs : crashes' = crashes =>
          \A d \in Domains : live'[p][d] >= live[p][d]]_vars

\* Every process whose directory opened ends up serving the stored certificate
\* of every domain, its own and its siblings', through unreadable files and
\* refusals, unless a write was cut short or the authority delivered a chain
\* that parses and yet makes no context, which nothing replaces before it
\* enters the renewal window.
EveryDomainServed ==
    \A p \in Procs : \A d \in Managed :
        <>[](\/ pc[p] = "stopped" \/ d \in spoiled
             \/ cert[d] \in unusable \ expiring
             \/ live[p][d] # 0 /\ live[p][d] = cert[d])
=============================================================================
