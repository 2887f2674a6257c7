------------------------------- MODULE Reload -------------------------------
(***************************************************************************)
(* The staged hot reload of zeroserve (src/src/reload.rs) together with    *)
(* the part of worker start-up that touches the same state                 *)
(* (src/src/main.rs, run_worker).                                          *)
(*                                                                         *)
(* One coordinator thread waits for SIGHUP or for a change of the reload   *)
(* signal file, loads the assets from disk, asks the canary worker to      *)
(* compile them, waits for its answer with a timeout, and only then stores *)
(* the new assets in SharedState and sends them to the other workers.      *)
(*                                                                         *)
(* An asset is abstracted to the number of the disk edit it was read       *)
(* after; the list of sites a worker compiles is the pair                  *)
(* <<plugins, site>>.  Whether a load or a compilation succeeds is a       *)
(* nondeterministic choice.                                                *)
(***************************************************************************)
EXTENDS Naturals, Sequences, FiniteSets

CONSTANTS
    Workers,        \* the worker threads
    Canary,         \* worker 0: the first of worker_txs
    Contents,       \* contents the reload signal file can have
    NoFile,         \* the signal file has never been read successfully
    MaxEdits,       \* bound: edits of the assets on disk
    MaxTriggers     \* bound: SIGHUPs and writes of the signal file

ASSUME CanaryAssumption == Canary \in Workers
ASSUME ContentsAssumption == Contents # {} /\ NoFile \notin Contents
ASSUME BoundsAssumption == MaxEdits \in Nat /\ MaxTriggers \in Nat

VARIABLES
    disk,       \* number of edits made to the assets on disk
    triggers,   \* SIGHUPs and signal file writes so far
    hup,        \* a blocked SIGHUP is pending on the wait fd
    file,       \* content of the reload signal file
    lastFile,   \* last_file_contents of coordinator_loop
    pc,         \* where the coordinator is
    staged,     \* what perform_reload has loaded: plugins, site, and TLS
                \* with whether its load succeeded (tls_result)
    round,      \* number of the current reload: names its reply channel
    reply,      \* what the current reply channel holds
    todo,       \* workers still to be notified of a committed reload
    shared,     \* SharedState: plugin_sites, site, tls
    inbox,      \* per worker: queue of ReloadRequests
    wpc,        \* per worker: where run_worker / worker_reload_loop is
    job,        \* per worker: the request it is compiling
    scripts,    \* per worker: sites its installed scripts were compiled from
    alive,      \* the process is running
    failed,     \* history: per worker, its last compilation failed
    validated,  \* history: the sites the canary compiled successfully
    outcome     \* history: how the last reload ended

coordVars == <<hup, lastFile, pc, staged, round, todo, outcome>>
workerVars == <<wpc, job, scripts, failed>>
envVars == <<disk, triggers, file>>
vars == <<disk, triggers, hup, file, lastFile, pc, staged, round, reply, todo,
          shared, inbox, wpc, job, scripts, alive, failed, validated, outcome>>

Version == Nat
Sites == Version \X Version
NoSites == <<0, 0>>
Rest == Workers \ {Canary}

\* A ReloadRequest: the sites, and the reload whose reply channel it carries
\* (0: reply is None).
Request == [sites : Sites, reply : Nat]
NoRequest == [sites |-> NoSites, reply |-> 0]

SharedSites == <<shared.plugin, shared.site>>
StagedSites == <<staged.plugin, staged.site>>

Init ==
    /\ disk = 0
    /\ triggers = 0
    /\ hup = FALSE
    /\ file \in Contents \cup {NoFile}
    /\ lastFile = file
    /\ pc = "poll"
    /\ staged = [plugin |-> 0, site |-> 0, tls |-> 0, tlsOk |-> TRUE]
    /\ round = 0
    /\ reply = "none"
    /\ todo = {}
    /\ shared = [plugin |-> 0, site |-> 0, tls |-> 0]
    /\ inbox = [w \in Workers |-> <<>>]
    /\ wpc = [w \in Workers |-> "collect"]
    /\ job = [w \in Workers |-> NoRequest]
    /\ scripts = [w \in Workers |-> NoSites]
    /\ alive = TRUE
    /\ failed = [w \in Workers |-> FALSE]
    /\ validated = {NoSites}
    /\ outcome = "none"

-----------------------------------------------------------------------------
(* The operator: edits the assets, sends SIGHUP, writes the signal file.   *)

EditDisk ==
    /\ disk < MaxEdits
    /\ disk' = disk + 1
    /\ UNCHANGED <<triggers, file, reply, shared, inbox, alive, validated,
                   coordVars, workerVars>>

\* SIGHUP is blocked process-wide and coalesces while it is pending.
Sighup ==
    /\ triggers < MaxTriggers
    /\ triggers' = triggers + 1
    /\ hup' = TRUE
    /\ UNCHANGED <<disk, file, lastFile, pc, staged, round, reply, todo,
                   shared, inbox, alive, validated, outcome, workerVars>>

WriteSignalFile ==
    /\ triggers < MaxTriggers
    /\ triggers' = triggers + 1
    /\ file' \in Contents
    /\ UNCHANGED <<disk, reply, shared, inbox, alive, validated, coordVars,
                   workerVars>>

-----------------------------------------------------------------------------
(* The coordinator thread.                                                 *)

\* The signal file could be read and its content is not the remembered one.
FileChanged(readable) == readable /\ file # NoFile /\ file # lastFile

\* One turn of coordinator_loop that decides to reload: the wait fd is
\* drained, the signal file is read (the read may fail) and its content is
\* remembered before the reload is attempted.
Wake(readable) ==
    /\ alive /\ pc = "poll"
    /\ hup \/ FileChanged(readable)
    /\ lastFile' = IF FileChanged(readable) THEN file ELSE lastFile
    /\ hup' = FALSE
    /\ pc' = "loadPlugins"
    /\ round' = round + 1
    /\ UNCHANGED <<envVars, staged, reply, todo, shared, inbox, alive,
                   validated, outcome, workerVars>>

\* perform_reload returns before its commit; nothing is stored.
Abort ==
    /\ pc' = "poll"
    /\ outcome' = "aborted"
    /\ UNCHANGED <<envVars, hup, lastFile, round, todo, shared, inbox, alive,
                   validated, workerVars>>

LoadPlugins ==
    /\ alive /\ pc = "loadPlugins"
    /\ staged' = [staged EXCEPT !.plugin = disk]
    /\ pc' = "loadSite"
    /\ UNCHANGED <<envVars, hup, lastFile, round, reply, todo, shared, inbox,
                   alive, validated, outcome, workerVars>>

LoadSite ==
    /\ alive /\ pc = "loadSite"
    /\ staged' = [staged EXCEPT !.site = disk]
    /\ pc' = "loadTls"
    /\ UNCHANGED <<envVars, hup, lastFile, round, reply, todo, shared, inbox,
                   alive, validated, outcome, workerVars>>

\* A plugin or the site does not load: `?` leaves perform_reload.
LoadFails ==
    /\ alive /\ pc \in {"loadPlugins", "loadSite"}
    /\ Abort
    /\ UNCHANGED <<staged, reply>>

\* The TLS runtime is built before the canary is asked; its failure is kept.
LoadTls ==
    /\ alive /\ pc = "loadTls"
    /\ \E ok \in BOOLEAN :
          staged' = [staged EXCEPT !.tls = disk, !.tlsOk = ok]
    /\ pc' = "sendCanary"
    /\ UNCHANGED <<envVars, hup, lastFile, round, reply, todo, shared, inbox,
                   alive, validated, outcome, workerVars>>

\* Stage 1: a fresh reply channel, and the request to the canary.
SendCanary ==
    /\ alive /\ pc = "sendCanary"
    /\ wpc[Canary] # "exited"
    /\ inbox' = [inbox EXCEPT ![Canary] =
                    Append(@, [sites |-> StagedSites, reply |-> round])]
    /\ reply' = "none"
    /\ pc' = "await"
    /\ UNCHANGED <<envVars, hup, lastFile, staged, round, todo, shared, alive,
                   validated, outcome, workerVars>>

\* unbounded_send fails because the canary's receiver was dropped.
CanaryGone ==
    /\ alive /\ pc = "sendCanary"
    /\ wpc[Canary] = "exited"
    /\ Abort
    /\ UNCHANGED <<staged, reply>>

CanaryOk ==
    /\ alive /\ pc = "await" /\ reply = "ok"
    /\ pc' = "commitPlugins"
    /\ UNCHANGED <<envVars, hup, lastFile, staged, round, reply, todo, shared,
                   inbox, alive, validated, outcome, workerVars>>

\* The canary answered with an error, or its end of the channel was dropped.
CanaryErr ==
    /\ alive /\ pc = "await" /\ reply \in {"err", "gone"}
    /\ Abort
    /\ UNCHANGED <<staged, reply>>

\* Mutant of CanaryTimeout: recv() instead of recv_timeout().
CanaryNoTimeout == FALSE

\* Mutant of CanaryTimeout: an expired wait is taken for a success.
CanaryTimeoutCommits ==
    /\ alive /\ pc = "await" /\ reply = "none"
    /\ pc' = "commitPlugins"
    /\ UNCHANGED <<envVars, hup, lastFile, staged, round, reply, todo, shared,
                   inbox, alive, validated, outcome, workerVars>>

\* recv_timeout expires: the receiver is dropped, the request stays queued.
CanaryTimeout ==
    /\ alive /\ pc = "await" /\ reply = "none"
    /\ Abort
    /\ UNCHANGED <<staged, reply>>

\* Stage 2: three stores, one after the other.
CommitPlugins ==
    /\ alive /\ pc = "commitPlugins"
    /\ shared' = [shared EXCEPT !.plugin = staged.plugin]
    /\ todo' = Rest
    /\ pc' = "commitSite"
    /\ UNCHANGED <<envVars, hup, lastFile, staged, round, reply, inbox, alive,
                   validated, outcome, workerVars>>

CommitSite ==
    /\ alive /\ pc = "commitSite"
    /\ shared' = [shared EXCEPT !.site = staged.site]
    /\ pc' = "commitTls"
    /\ UNCHANGED <<envVars, hup, lastFile, staged, round, reply, todo, inbox,
                   alive, validated, outcome, workerVars>>

CommitTls ==
    /\ alive /\ pc = "commitTls"
    /\ shared' = [shared EXCEPT !.tls =
                    IF staged.tlsOk THEN staged.tls ELSE @]
    /\ pc' = "notify"
    /\ UNCHANGED <<envVars, hup, lastFile, staged, round, reply, todo, inbox,
                   alive, validated, outcome, workerVars>>

\* Mutant of Notify: only workers that run their reload loop are notified.
NotifyRunning(w) ==
    /\ alive /\ pc = "notify" /\ w \in todo
    /\ todo' = todo \ {w}
    /\ inbox' = IF wpc[w] \notin {"idle", "compile"}
                THEN inbox
                ELSE [inbox EXCEPT ![w] =
                        Append(@, [sites |-> StagedSites, reply |-> 0])]
    /\ UNCHANGED <<envVars, hup, lastFile, pc, staged, round, reply, shared,
                   alive, validated, outcome, workerVars>>

\* A send to a worker that has exited is ignored.
Notify(w) ==
    /\ alive /\ pc = "notify" /\ w \in todo
    /\ todo' = todo \ {w}
    /\ inbox' = IF wpc[w] = "exited"
                THEN inbox
                ELSE [inbox EXCEPT ![w] =
                        Append(@, [sites |-> StagedSites, reply |-> 0])]
    /\ UNCHANGED <<envVars, hup, lastFile, pc, staged, round, reply, shared,
                   alive, validated, outcome, workerVars>>

RolledOut ==
    /\ alive /\ pc = "notify" /\ todo = {}
    /\ pc' = "poll"
    /\ outcome' = "committed"
    /\ UNCHANGED <<envVars, hup, lastFile, staged, round, reply, todo, shared,
                   inbox, alive, validated, workerVars>>

-----------------------------------------------------------------------------
(* A worker thread.                                                        *)

\* collect_sites: two loads of two ArcSwaps, then the first compilation.
CollectPlugins(w) ==
    /\ alive /\ wpc[w] = "collect"
    /\ job' = [job EXCEPT ![w].sites = <<shared.plugin, @[2]>>]
    /\ wpc' = [wpc EXCEPT ![w] = "collectSite"]
    /\ UNCHANGED <<envVars, coordVars, reply, shared, inbox, scripts, alive,
                   failed, validated>>

CollectSite(w) ==
    /\ alive /\ wpc[w] = "collectSite"
    /\ job' = [job EXCEPT ![w].sites = <<@[1], shared.site>>]
    /\ wpc' = [wpc EXCEPT ![w] = "boot"]
    /\ UNCHANGED <<envVars, coordVars, reply, shared, inbox, scripts, alive,
                   failed, validated>>

Boot(w) ==
    /\ alive /\ wpc[w] = "boot"
    /\ scripts' = [scripts EXCEPT ![w] = job[w].sites]
    /\ wpc' = [wpc EXCEPT ![w] = "idle"]
    /\ UNCHANGED <<envVars, coordVars, reply, shared, inbox, job, alive,
                   failed, validated>>

\* Any worker that fails to start makes main return: the process exits.
BootFails(w) ==
    /\ alive /\ wpc[w] = "boot"
    /\ alive' = FALSE
    /\ UNCHANGED <<envVars, coordVars, reply, shared, inbox, workerVars,
                   validated>>

Receive(w) ==
    /\ alive /\ wpc[w] = "idle" /\ inbox[w] # <<>>
    /\ job' = [job EXCEPT ![w] = Head(inbox[w])]
    /\ inbox' = [inbox EXCEPT ![w] = Tail(@)]
    /\ wpc' = [wpc EXCEPT ![w] = "compile"]
    /\ UNCHANGED <<envVars, coordVars, reply, shared, scripts, alive,
                   failed, validated>>

\* Mutant of Answer: the reply channel is unwrapped, and a request that was
\* sent without one never gets past it.
AnswerUnwraps(w, result) ==
    /\ job[w].reply # 0
    /\ reply' = IF job[w].reply = round /\ pc = "await" THEN result ELSE reply

\* The reply reaches the coordinator only while it holds the other end of
\* this request's own channel.
Answer(w, result) ==
    reply' = IF job[w].reply = round /\ pc = "await" THEN result ELSE reply

\* load_scripts_from_sites succeeds and install_scripts swaps them in.
Compiled(w) ==
    /\ alive /\ wpc[w] = "compile"
    /\ scripts' = [scripts EXCEPT ![w] = job[w].sites]
    /\ failed' = [failed EXCEPT ![w] = FALSE]
    /\ validated' = IF w = Canary THEN validated \cup {job[w].sites}
                    ELSE validated
    /\ Answer(w, "ok")
    /\ wpc' = [wpc EXCEPT ![w] = "idle"]
    /\ UNCHANGED <<envVars, coordVars, shared, inbox, job, alive>>

CompileFails(w) ==
    /\ alive /\ wpc[w] = "compile"
    /\ failed' = [failed EXCEPT ![w] = TRUE]
    /\ Answer(w, "err")
    /\ wpc' = [wpc EXCEPT ![w] = "idle"]
    /\ UNCHANGED <<envVars, coordVars, shared, inbox, job, scripts, alive,
                   validated>>

\* amain returns (the accept loop failed): the runtime drops the reload loop,
\* its queue, and with them any reply sender.
Exit(w) ==
    /\ alive /\ wpc[w] \in {"idle", "compile"}
    /\ reply' = IF /\ w = Canary /\ pc = "await" /\ reply = "none"
                THEN "gone" ELSE reply
    /\ wpc' = [wpc EXCEPT ![w] = "exited"]
    /\ inbox' = [inbox EXCEPT ![w] = <<>>]
    /\ UNCHANGED <<envVars, coordVars, shared, job, scripts, alive,
                   failed, validated>>

-----------------------------------------------------------------------------
Coordinator ==
    \/ \E readable \in BOOLEAN : Wake(readable)
    \/ LoadPlugins \/ LoadSite \/ LoadFails \/ LoadTls
    \/ SendCanary \/ CanaryGone \/ CanaryOk \/ CanaryErr \/ CanaryTimeout
    \/ CommitPlugins \/ CommitSite \/ CommitTls
    \/ \E w \in Workers : Notify(w)
    \/ RolledOut

WorkerStep(w) ==
    \/ CollectPlugins(w) \/ CollectSite(w) \/ Boot(w) \/ Receive(w)
    \/ Compiled(w) \/ CompileFails(w)

Operator == EditDisk \/ Sighup \/ WriteSignalFile

Next ==
    \/ Operator
    \/ Coordinator
    \/ \E w \in Workers : WorkerStep(w) \/ BootFails(w) \/ Exit(w)

Spec == Init /\ [][Next]_vars

\* The coordinator is a thread of its own and is scheduled; nothing is
\* assumed of the workers, which may be stuck in a compilation.
CoordinatorFairness == WF_vars(Coordinator)

\* Workers that stay up run their reload loop.
WorkerFairness == \A w \in Workers : WF_vars(WorkerStep(w))

FairSpec == Spec /\ CoordinatorFairness

-----------------------------------------------------------------------------
(* Properties.                                                             *)

CoordinatorPC == {"poll", "loadPlugins", "loadSite", "loadTls", "sendCanary",
                  "await", "commitPlugins", "commitSite", "commitTls", "notify"}
WorkerPC == {"collect", "collectSite", "boot", "idle", "compile", "exited"}

\* Type invariant of the coordinator's and the workers' state.
TypeOK ==
    /\ disk \in Nat
    /\ triggers \in Nat
    /\ hup \in BOOLEAN
    /\ file \in Contents \cup {NoFile}
    /\ lastFile \in Contents \cup {NoFile}
    /\ pc \in CoordinatorPC
    /\ staged \in [plugin : Version, site : Version, tls : Version,
                  tlsOk : BOOLEAN]
    /\ round \in Nat
    /\ reply \in {"none", "ok", "err", "gone"}
    /\ todo \subseteq Rest
    /\ shared \in [plugin : Version, site : Version, tls : Version]
    /\ inbox \in [Workers -> Seq(Request)]
    /\ wpc \in [Workers -> WorkerPC]
    /\ job \in [Workers -> Request]
    /\ scripts \in [Workers -> Sites]
    /\ alive \in BOOLEAN
    /\ failed \in [Workers -> BOOLEAN]
    /\ validated \subseteq Sites
    /\ outcome \in {"none", "aborted", "committed"}

\* "Only if the canary succeeds does it commit the new shared assets and
\* notify the remaining workers" (reload.rs:55-58): outside the window between
\* the two stores of the commit, the sites in SharedState are a combination
\* the canary compiled, and so is every request queued for, or being compiled
\* by, another worker.  A late answer to an earlier reload that timed out must
\* never be taken for the answer to the current one.
RolloutIsValidated ==
    /\ pc # "commitSite" => SharedSites \in validated
    /\ \A w \in Rest :
          /\ \A i \in 1..Len(inbox[w]) : inbox[w][i].sites \in validated
          /\ wpc[w] = "compile" => job[w].sites \in validated

Drained(w) == wpc[w] = "idle" /\ inbox[w] = <<>>

\* Once the coordinator is back in its poll, a worker with nothing left to do
\* whose last compilation succeeded runs the scripts of the sites that are in
\* SharedState, even when it was starting up while the reload was committed
\* (collect_sites in run_worker races perform_reload's stores).  The canary,
\* which compiles before the commit, agrees unless the last reload aborted.
QuiescentAgreement ==
    pc = "poll" =>
        \A w \in (IF outcome = "aborted" THEN Rest ELSE Workers) :
            Drained(w) /\ ~failed[w] => scripts[w] = SharedSites

\* What reload.rs:47-49 and 55-58 say of a reload that is given up: the
\* previous configuration is left in place, nothing changed.
AbortLeavesCanary ==
    pc = "poll" /\ outcome = "aborted" /\ Drained(Canary)
        => scripts[Canary] = SharedSites

\* A SIGHUP is never lost and never blocks the coordinator: the reload it asks
\* for is attempted on assets at least as new as the ones on disk when it was
\* sent, and ends, by a commit or by an abort, whatever the canary does.
SighupTakesEffect ==
    \A v \in 0..MaxEdits :
        (hup /\ disk = v) ~>
            \/ ~alive
            \/ shared.plugin >= v /\ shared.site >= v
            \/ pc = "poll" /\ ~hup /\ outcome = "aborted"

\* If the workers keep running their reload loops, every worker other than the
\* canary ends up with the committed scripts, unless it exited or could not
\* compile them.
FleetConverges ==
    WorkerFairness =>
        \A w \in Rest :
            <>[](\/ ~alive
                 \/ wpc[w] = "exited"
                 \/ failed[w]
                 \/ scripts[w] = SharedSites)

-----------------------------------------------------------------------------
(* The inductive invariant behind RolloutIsValidated and                   *)
(* QuiescentAgreement.                                                     *)

\* The reload is loading, or about to ask the canary.
Loading == pc \in {"loadPlugins", "loadSite", "loadTls", "sendCanary"}

\* The canary has been asked, or has answered.
Rolling == pc \in {"await", "commitPlugins", "commitSite", "commitTls", "notify"}

\* The request r carries the reply channel of an earlier reload, or the one of
\* the current reload together with exactly the staged sites.
Fits(r) ==
    /\ r.reply <= round
    /\ Loading => r.reply < round
    /\ pc = "await" /\ r.reply = round => r.sites = StagedSites

ChannelInv ==
    /\ pc # "poll" => round > 0
    /\ \A w \in Workers :
          wpc[w] \in {"collect", "collectSite", "boot"} => job[w].reply = 0
    /\ Fits(job[Canary])
    /\ \A i \in 1..Len(inbox[Canary]) : Fits(inbox[Canary][i])
    /\ \A w \in Rest :
          /\ job[w].reply = 0
          /\ \A i \in 1..Len(inbox[w]) : inbox[w][i].reply = 0

ValidatedInv ==
    /\ pc = "await" /\ reply = "ok" => StagedSites \in validated
    /\ pc \in {"commitPlugins", "commitSite", "commitTls", "notify"}
          => StagedSites \in validated

CommitInv ==
    /\ pc = "commitSite" => shared.plugin = staged.plugin
    /\ pc \in {"commitTls", "notify"} => SharedSites = StagedSites
    /\ pc \in {"commitSite", "commitTls"} => todo = Rest
    /\ pc \notin {"commitSite", "commitTls", "notify"} => todo = {}

\* The last thing w has to do, or did, is to run the scripts of the sites p.
Follows(w, p) ==
    \/ wpc[w] = "exited"
    \/ /\ inbox[w] # <<>>
       /\ inbox[w][Len(inbox[w])].sites = p
    \/ /\ inbox[w] = <<>>
       /\ wpc[w] = "collectSite" => job[w].sites[1] = p[1]
       /\ wpc[w] \in {"boot", "compile"} => job[w].sites = p
       /\ wpc[w] = "idle" /\ ~failed[w] => scripts[w] = p

FollowInv ==
    /\ \A w \in Rest \ todo : Follows(w, SharedSites)
    /\ ~Rolling /\ outcome # "aborted" => Follows(Canary, SharedSites)
    /\ Rolling => /\ Follows(Canary, StagedSites)
                  /\ \/ inbox[Canary] # <<>>
                     \/ wpc[Canary] \in {"idle", "compile", "exited"}

IInv == TypeOK /\ RolloutIsValidated /\ ChannelInv /\ ValidatedInv
        /\ CommitInv /\ FollowInv
=============================================================================
