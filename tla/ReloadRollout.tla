--------------------------- MODULE ReloadRollout ---------------------------
(***************************************************************************)
(* The reload protocol implements Rollout.  The commit of the plugins and  *)
(* the commit of the site are two stores; seen from outside the reload     *)
(* commits at the first of them.  Which configurations were ever shared is *)
(* remembered in a history variable.                                       *)
(***************************************************************************)
EXTENDS Reload

VARIABLE committed      \* history: the sites that perform_reload committed

rolloutVars == <<vars, committed>>

RolloutInit == Init /\ committed = {NoSites}

RolloutNext ==
    /\ Next
    /\ committed' = IF pc = "commitPlugins" /\ pc' = "commitSite"
                    THEN committed \cup {StagedSites} ELSE committed

RolloutSpec == RolloutInit /\ [][RolloutNext]_rolloutVars

\* The fairness of Reload: the history variable disables no step.
FairRolloutSpec == RolloutSpec /\ CoordinatorFairness

CommittedSites == IF pc = "commitSite" THEN StagedSites ELSE SharedSites

Starting == {w \in Rest : wpc[w] \in {"collect", "collectSite", "boot"}}

R == INSTANCE Rollout WITH
        Fleet <- Rest,
        proven <- validated,
        current <- CommittedSites,
        starting <- Starting,
        running <- [w \in Rest |-> scripts[w]]

\* perform_reload and worker_reload_loop together do no more than Rollout
\* allows: what becomes the shared configuration was compiled by the canary
\* and is not older than what it replaces, and a worker that has started
\* changes its scripts only to those of a committed configuration, never to
\* those of a reload that was given up (reload.rs:55-58).
ImplementsRollout == R!Spec

-----------------------------------------------------------------------------
(* The inductive invariant of the refinement, beside that of Reload.       *)

\* What a starting worker has read belongs to committed configurations.
ReadInv ==
    \A w \in Rest :
        /\ wpc[w] \in {"collectSite", "boot"} =>
              \E p \in committed : job[w].sites[1] = p[1]
        /\ wpc[w] = "boot" => \E q \in committed : job[w].sites[2] = q[2]

\* What is shared, or being rolled out, was committed.
SharedInv ==
    /\ pc # "commitSite" => SharedSites \in committed
    /\ pc \in {"commitSite", "commitTls", "notify"} => StagedSites \in committed
    /\ \E q \in committed : shared.site = q[2]

\* So was what is queued for a worker or compiled by one.
QueuedInv ==
    \A w \in Rest :
        /\ \A i \in 1..Len(inbox[w]) : inbox[w][i].sites \in committed
        /\ wpc[w] = "compile" => job[w].sites \in committed

\* Assets are read in the order of the edits: what is staged is not older than
\* what is shared.
AgeInv ==
    /\ shared.plugin <= disk /\ shared.site <= disk
    /\ pc \notin {"poll", "loadPlugins"} =>
          shared.plugin <= staged.plugin /\ staged.plugin <= disk
    /\ pc \notin {"poll", "loadPlugins", "loadSite"} =>
          shared.site <= staged.site /\ staged.site <= disk

RInv == committed \subseteq Sites /\ SharedInv /\ QueuedInv /\ ReadInv /\ AgeInv
=============================================================================
