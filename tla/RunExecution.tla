----------------------------- MODULE RunExecution -----------------------------
(***************************************************************************)
(* One attempt of a run on a worker, from the dispatch to the report of    *)
(* its end: executeRun (packages/worker/src/runner.ts), executeFollowUp    *)
(* (followup.ts) and the review between them (review.ts), with the sandbox *)
(* they boot (packages/sandbox/src/provider.ts) and the pull request they  *)
(* leave on GitHub (packages/integrations/src/github.ts).                  *)
(*                                                                         *)
(* The pipeline is one coroutine: `step` says where it waits. Beside it    *)
(* run the processes it starts in the sandbox, the usage samples a timer   *)
(* takes there (ccusage.ts), the abort signal (a cancel, a lost lease, a   *)
(* shutdown) and people pushing to the branch. A tree is counted by its    *)
(* changes: 0 is what the sandbox was checked out with.                    *)
(***************************************************************************)
EXTENDS Naturals, FiniteSets

CONSTANTS
    Reviewers,        \* the review angles, each a codex process
    MaxAttempts       \* config.restart.maxAttempts

Passes == {"implementation", "fixes", "follow-up"}

ASSUME ExecAssumption ==
    /\ IsFiniteSet(Reviewers) /\ Reviewers \cap Passes = {}
    /\ MaxAttempts \in Nat \ {0}

VARIABLES
    setup,            \* what the dispatch and the configuration decide
    step,
    pass,             \* which agent session this is
    aborted,          \* signal.aborted
    cause,            \* what the catch block sees
    limitSeen,        \* session.detectedLimit()
    owed,             \* an execution's usage is not on the run's record yet
    runStatus, attempt,
    procs,            \* processes alive in the sandbox
    box,              \* the Sandbox object: "none", "up", "released", "destroyed"
    disk,             \* WORKSPACES_DIR/<run> holds a sandbox
    retained,         \* run.sandbox.retainedUntil
    tree,             \* the sandbox's workspace
    pulled,           \* the copy finalizing works on
    gathered,         \* feedback.headSha
    head, pr,         \* the branch and the pull request, on GitHub
    prNoted,          \* run.prUrl
    replied           \* the summary comment is posted

execVars == <<setup, step, pass, aborted, cause, limitSeen, owed, runStatus,
              attempt, procs, box, disk, retained, tree, pulled, gathered, head,
              pr, prNoted, replied>>
recordVars == <<runStatus, attempt, retained, prNoted>>
boxVars    == <<procs, box, disk>>
remoteVars == <<head, pr, replied>>
treeVars   == <<tree, pulled, gathered>>
sessionVars == <<limitSeen, owed>>

NoBranch == 90
Human    == 91         \* a head somebody else pushed
Steps == {"begin", "checkout", "boot", "gather", "rehydrate", "sync", "provision",
          "rebase", "agent", "agent-runs", "checkpoint", "review", "reviewers",
          "synthesis", "finalize", "push", "announce", "close", "caught", "finish",
          "settled"}
Ended == {"completed", "failed", "cancelled"}

\* A usage sample goes by the session it is taken of. Its sampler takes one at a
\* time, and those of two sessions can be alive together.
Samples == Passes
\* What the pipeline waits for, and so all but the samples.
Awaited == procs \ Samples

FollowsUp == setup.kind = "follow-up"

Goto(s)    == step' = s /\ UNCHANGED cause
Throws(c)  == step' = "caught" /\ cause' = c
\* throwIfAborted, where the next step begins
Onward(s)  == IF aborted THEN Throws("cancelled") ELSE Goto(s)
Fails(frame) == step' = "caught" /\ cause' = "error" /\ UNCHANGED frame

Fixed == <<setup, aborted>>

-----------------------------------------------------------------------------
(* Preparing *)

\* beginAttempt and setStatus("preparing"); a follow-up gathers its feedback,
\* which fails on a pull request that is no longer open or not its own.
Begin ==
    /\ step = "begin"
    /\ attempt' = "open" /\ runStatus' = "preparing"
    /\ Onward(IF FollowsUp THEN "gather" ELSE "checkout")
    /\ UNCHANGED <<Fixed, pass, sessionVars, boxVars, retained, treeVars,
                   remoteVars, prNoted>>

\* gatherPrFeedback
Gather ==
    /\ step = "gather"
    /\ UNCHANGED <<Fixed, pass, sessionVars, recordVars, boxVars, remoteVars, tree,
                   pulled>>
    /\ \/ gathered' = head /\ Onward("rehydrate")
       \/ Fails(gathered)

\* The clone (and for a follow-up prepareCheckout); scratch beside the sandbox.
Checkout ==
    /\ step = "checkout"
    /\ UNCHANGED <<Fixed, pass, sessionVars, recordVars, boxVars, remoteVars,
                   treeVars>>
    /\ \/ Onward(IF FollowsUp /\ box = "up" THEN "sync" ELSE "boot")
       \/ Fails(<<>>)

\* provider.rehydrate, or the discard of a disk that cannot be used; before
\* either, the credentials may be missing.
Rehydrate ==
    /\ step = "rehydrate"
    /\ \/ /\ retained /\ disk
          /\ box' = "up"
          /\ Goto("checkout") /\ UNCHANGED <<disk, retained>>
       \/ /\ disk' = (disk /\ ~retained)
          /\ retained' = FALSE
          /\ Goto("checkout") /\ UNCHANGED box
       \/ Fails(<<box, disk, retained>>)
    /\ UNCHANGED <<Fixed, pass, sessionVars, runStatus, attempt, prNoted, procs,
                   treeVars, remoteVars>>

\* Retract, of the id alone (RetainedDiskIsUsable).
RetractId == retained' = retained
\* syncRehydrated; a sandbox that cannot be synced is destroyed and both its id
\* and its retention are retracted before the checkout is redone.
Retract == retained' = FALSE
Sync ==
    /\ step = "sync"
    /\ \/ Goto("provision") /\ UNCHANGED <<box, disk, retained>>
       \/ /\ Goto("boot") \/ Fails(<<>>)
          /\ box' = "none" /\ disk' = FALSE
          /\ Retract
    /\ UNCHANGED <<Fixed, pass, sessionVars, runStatus, attempt, prNoted, procs,
                   treeVars, remoteVars>>

\* provider.create
Boot ==
    /\ step = "boot"
    /\ \/ box' = "up" /\ disk' = TRUE /\ Goto("provision")
       \/ Fails(<<box, disk>>)
    /\ UNCHANGED <<Fixed, pass, sessionVars, recordVars, procs, treeVars, remoteVars>>

\* provisionCredentials, the ccusage probe, moveToStarted
Provision ==
    /\ step = "provision"
    /\ \/ /\ Onward(IF FollowsUp THEN "rebase" ELSE "agent")
          /\ runStatus' = IF FollowsUp \/ aborted THEN runStatus ELSE "running"
       \/ Fails(runStatus)
    /\ UNCHANGED <<Fixed, pass, sessionVars, boxVars, attempt, retained, prNoted,
                   treeVars, remoteVars>>

\* performRebase: nothing to do, clean, or left in conflict for the agent. The
\* agent runs when there is something for it to do.
Rebase ==
    /\ step = "rebase"
    /\ \/ Fails(<<tree, runStatus>>)
       \/ /\ tree' \in {tree, tree + 1}
          /\ \/ Onward("agent") /\ runStatus' = IF aborted THEN runStatus ELSE "running"
             \/ Onward("finalize") /\ ~setup.actionable /\ UNCHANGED runStatus
    /\ UNCHANGED <<Fixed, pass, sessionVars, boxVars, attempt, retained, prNoted,
                   pulled, gathered, remoteVars>>

-----------------------------------------------------------------------------
(* The agent *)

\* runAgent: the execution is labelled for its cost before anything can fail.
StartAgent ==
    /\ step = "agent"
    /\ owed' = TRUE
    /\ procs' = procs \cup {"agent"}
    /\ Goto("agent-runs")
    /\ UNCHANGED <<Fixed, pass, limitSeen, recordVars, box, disk, treeVars, remoteVars>>

\* The stream: edits to the workspace, a usage limit in passing.
AgentWorks ==
    /\ step = "agent-runs" /\ "agent" \in procs
    /\ \/ tree' = tree + 1 /\ tree < 3 /\ UNCHANGED limitSeen
       \/ limitSeen' = TRUE /\ UNCHANGED tree
    /\ UNCHANGED <<Fixed, step, pass, cause, owed, recordVars, boxVars, pulled,
                   gathered, remoteVars>>

\* A tick of the sampler, once the session of a Claude agent has its id, until
\* recordPendingCost stops it; nobody waits for what it starts.
Sampled ==
    /\ step = "agent-runs" /\ setup.agent = "claude" /\ ~aborted
    /\ pass \notin procs
    /\ procs' = procs \cup {pass}
    /\ UNCHANGED <<Fixed, step, pass, cause, sessionVars, recordVars, box, disk,
                   treeVars, remoteVars>>

Ends(p) ==
    /\ procs' = procs \ {p}
    /\ UNCHANGED <<Fixed, step, pass, cause, sessionVars, recordVars, box, disk,
                   treeVars, remoteVars>>
\* A process in the sandbox ends by itself, if it ever does.
Exits == \E p \in procs : Ends(p)

\* KillDue, for the abort alone (AttemptsSettle).
KilledOnAbort == aborted
\* Every exec carries the execution's timeout and the abort signal, and is killed
\* by force when it does not heed them.
KillDue == Awaited # {}
Killed == KillDue /\ \E p \in Awaited : Ends(p)

\* The child's own exit is waited out, by force if need be.
Reaped == "agent" \notin procs

\* recordPendingCost, then the outcome. It stops the sampler and waits for a final
\* read of its own, not for the sample that is under way.
AgentReturns ==
    /\ step = "agent-runs" /\ Reaped
    /\ owed' = FALSE
    /\ UNCHANGED <<Fixed, pass, limitSeen, recordVars, boxVars, treeVars, remoteVars>>
    /\ IF aborted THEN Throws("cancelled")
       ELSE \/ Goto(CASE pass = "implementation" -> "checkpoint"
                      [] OTHER -> "finalize")
            \/ Throws(IF limitSeen THEN "limit" ELSE "error")

\* An exec that rejects (a sandbox that dies under it) skips the record.
AgentBreaks ==
    /\ step = "agent-runs" /\ setup.agent # "claude" /\ "agent" \notin procs
    /\ Throws("error")
    /\ UNCHANGED <<Fixed, pass, sessionVars, recordVars, boxVars, treeVars, remoteVars>>

-----------------------------------------------------------------------------
(* The checkpoint and the review *)

\* commitAndPush, as the head it leaves: nothing is pushed of an unchanged tree.
Pushed(copy) == IF copy = 0 THEN head ELSE copy

\* checkpointImplementation: best effort, whatever fails in it.
Checkpoint ==
    /\ step = "checkpoint"
    /\ Onward(IF setup.review THEN "review" ELSE "finalize")
    /\ \/ UNCHANGED <<head, pr, prNoted>>
       \/ head' = Pushed(tree) /\ UNCHANGED <<pr, prNoted>>
       \/ /\ tree # 0
          /\ head' = Pushed(tree) /\ pr' = "draft"
          /\ prNoted' = TRUE
    /\ UNCHANGED <<Fixed, pass, sessionVars, runStatus, attempt, retained, boxVars,
                   treeVars, replied>>

\* runCodexReview: the reviewers run side by side.
StartReview ==
    /\ step = "review"
    /\ procs' = procs \cup Reviewers /\ Goto("reviewers")
    /\ UNCHANGED <<Fixed, pass, sessionVars, recordVars, box, disk, treeVars, remoteVars>>

\* ReviewersDone, for the first of them (NoWorkOutlivesItsSandbox).
AReviewerDone == Reviewers \ procs # {}
\* Promise.all over the reviewers: it also waits for the cancelled ones.
ReviewersDone == Reviewers \cap procs = {}

\* The synthesis verifies what they found, unless every reviewer failed.
Synthesize ==
    /\ step = "reviewers" /\ ReviewersDone
    /\ \/ Onward("finalize") /\ UNCHANGED procs
       \/ Onward("synthesis")
          /\ procs' = IF aborted THEN procs ELSE procs \cup {"synthesis"}
    /\ UNCHANGED <<Fixed, pass, sessionVars, recordVars, box, disk, treeVars, remoteVars>>

\* Confirmed findings feed a fix pass; no failure of the review fails the run.
ReviewReturns ==
    /\ step = "synthesis" /\ "synthesis" \notin procs
    /\ \/ Onward("finalize") /\ UNCHANGED pass
       \/ Onward("agent") /\ pass' = "fixes"
    /\ UNCHANGED <<Fixed, sessionVars, recordVars, boxVars, treeVars, remoteVars>>

-----------------------------------------------------------------------------
(* Finalizing *)

\* The workspace is copied out; a rebase nobody finished is never pushed.
Finalize ==
    /\ step = "finalize"
    /\ runStatus' = "finalizing"
    /\ UNCHANGED <<Fixed, pass, sessionVars, attempt, retained, prNoted, boxVars, tree,
                   gathered, remoteVars>>
    /\ \/ pulled' = tree /\ Onward("push")
       \/ Fails(pulled)

\* finalizeImplementation: the branch, then the pull request, which leaves draft
\* unless marking it fails. "agent made no changes" is an error.
PushRun ==
    /\ step = "push" /\ ~FollowsUp
    /\ UNCHANGED <<Fixed, pass, sessionVars, recordVars, boxVars, treeVars, replied>>
    /\ \/ Fails(<<head, pr>>)
       \/ pulled # 0 /\ head' = pulled /\ Fails(pr)
       \/ /\ pulled # 0 /\ head' = pulled
          /\ pr' \in {"open"} \cup {p \in {pr} : p = "draft"}
          /\ Goto("announce")

\* LeaseHolds, refreshed by a fetch just before (HumanPushesStand).
LeaseRefreshed == TRUE
\* The lease of --force-with-lease is the head the feedback was gathered at.
LeaseHolds == head = gathered

\* The follow-up's push, and pushedAt with it.
PushFollowUp ==
    /\ step = "push" /\ FollowsUp
    /\ UNCHANGED <<Fixed, pass, sessionVars, recordVars, boxVars, treeVars, pr,
                   replied>>
    /\ \/ pulled = 0 /\ Goto("announce") /\ UNCHANGED head
       \/ pulled # 0 /\ aborted /\ Throws("cancelled") /\ UNCHANGED head
       \/ pulled # 0 /\ ~aborted /\ LeaseHolds /\ head' = pulled /\ Goto("announce")
       \/ pulled # 0 /\ Fails(head)

\* OwesReply, for pushes only (CompletedIsDelivered).
OwesReplyForPush == FollowsUp /\ pulled # 0
\* moveToReview for a run; for a follow-up the summary comment it owes for a push
\* and for feedback, retried and then fatal.
OwesReply == FollowsUp /\ (pulled # 0 \/ setup.actionable)
Announce ==
    /\ step = "announce"
    /\ UNCHANGED <<Fixed, pass, sessionVars, recordVars, boxVars, treeVars, head, pr>>
    /\ IF aborted THEN Throws("cancelled") /\ UNCHANGED replied
       ELSE \/ replied' = (replied \/ OwesReply) /\ Goto("close")
            \/ OwesReply /\ Fails(replied)

\* endAttempt, setStatus("completed") with the result and its pull request.
Close ==
    /\ step = "close"
    /\ IF aborted THEN Throws("cancelled") /\ UNCHANGED recordVars
       ELSE /\ Goto("finish")
            /\ attempt' = "completed" /\ runStatus' = "completed" /\ prNoted' = TRUE
            /\ UNCHANGED retained
    /\ UNCHANGED <<Fixed, pass, sessionVars, boxVars, treeVars, remoteVars>>

-----------------------------------------------------------------------------
(* The catch and finally blocks *)

MayWait == ~FollowsUp /\ setup.auto /\ setup.number < MaxAttempts
\* What the catch block makes of the failure: the attempt's and the run's end.
Verdict ==
    CASE aborted \/ cause = "cancelled" -> <<"cancelled", "cancelled">>
      [] ~(aborted \/ cause = "cancelled") /\ (cause = "limit" \/ limitSeen) ->
             <<"limit", IF MayWait THEN "waiting" ELSE "failed">>
      [] OTHER -> <<"failed", "failed">>

Catch ==
    /\ step = "caught"
    /\ owed' = FALSE
    /\ attempt' = Verdict[1] /\ runStatus' = Verdict[2]
    /\ Goto("finish")
    /\ UNCHANGED <<Fixed, pass, limitSeen, boxVars, retained, prNoted, treeVars,
                   remoteVars>>

\* What destroy and release leave alive: seatbelt reaps the groups of every exec,
\* bubblewrap has none to reap.
LeftAlive == {{}, procs}

\* finishRunSandbox, and the finally block of a follow-up that booted nothing.
Retains == box = "up" /\ setup.retention /\ runStatus \in {"completed", "failed"}
Finish ==
    /\ step = "finish"
    /\ Goto("settled")
    /\ \/ /\ Retains
          /\ box' = "released" /\ retained' = TRUE /\ UNCHANGED disk
       \/ /\ ~Retains
          /\ IF FollowsUp /\ box = "none" /\ retained
             THEN UNCHANGED <<box, disk, retained>>
             ELSE /\ box' = IF box = "up" THEN "destroyed" ELSE box
                  /\ disk' = FALSE /\ UNCHANGED retained
    /\ procs' \in IF box = "up" THEN LeftAlive ELSE {procs}
    /\ UNCHANGED <<Fixed, pass, sessionVars, runStatus, attempt, prNoted, treeVars,
                   remoteVars>>

-----------------------------------------------------------------------------
(* The world *)

\* A cancel, a lease given up, a shutdown.
Abort ==
    /\ ~aborted /\ step \notin {"finish", "settled"}
    /\ aborted' = TRUE
    /\ UNCHANGED <<setup, step, pass, cause, sessionVars, recordVars, boxVars,
                   treeVars, remoteVars>>

\* Somebody pushes to the pull request's branch.
SomebodyPushes ==
    /\ pr # "none" /\ head # Human
    /\ head' = Human
    /\ UNCHANGED <<Fixed, step, pass, cause, sessionVars, recordVars, boxVars,
                   treeVars, pr, replied>>

-----------------------------------------------------------------------------
Setups == [kind : {"run", "follow-up"}, agent : {"claude", "codex"},
           review : BOOLEAN, retention : BOOLEAN, auto : BOOLEAN,
           number : 1..MaxAttempts, actionable : BOOLEAN, here : BOOLEAN]

\* codexReviewEnabled: only a Claude agent is reviewed. A follow-up starts from a
\* completed run, whose pull request is open and whose disk may be retained, on
\* this worker or, as #placeWorker does not ask, on another (`here`).
ExecInit ==
    /\ setup \in {s \in Setups : /\ s.review => s.agent = "claude" /\ s.kind = "run"
                                 /\ s.actionable => s.kind = "follow-up"
                                 /\ s.auto => s.kind = "run"
                                 /\ s.number > 1 => s.kind = "run"
                                 /\ ~s.here => s.kind = "follow-up"}
    /\ step = "begin" /\ aborted = FALSE /\ cause = "none"
    /\ pass = IF setup.kind = "run" THEN "implementation" ELSE "follow-up"
    /\ limitSeen = FALSE /\ owed = FALSE
    /\ runStatus = "queued" /\ attempt = "none"
    /\ procs = {} /\ box = "none"
    /\ retained \in {FALSE, setup.kind = "follow-up" /\ setup.retention}
    /\ disk = (retained /\ setup.here)
    /\ tree = 0 /\ pulled = 0
    /\ gathered = NoBranch
    /\ \/ setup.kind = "run" /\ head = NoBranch /\ pr = "none"
       \/ setup.number > 1 /\ head = Human /\ pr = "draft"  \* an earlier attempt's
       \/ setup.kind = "follow-up" /\ head = 0 /\ pr = "open"
    /\ prNoted = (setup.kind = "follow-up") /\ replied = FALSE

ExecStep ==
    \/ Begin \/ Gather \/ Checkout \/ Rehydrate \/ Sync \/ Boot \/ Provision \/ Rebase
    \/ StartAgent \/ AgentReturns \/ AgentBreaks
    \/ Checkpoint \/ StartReview \/ Synthesize \/ ReviewReturns
    \/ Finalize \/ PushRun \/ PushFollowUp \/ Announce \/ Close \/ Catch \/ Finish
ExecNext ==
    \/ ExecStep
    \/ AgentWorks \/ Sampled \/ Exits \/ Killed \/ Abort \/ SomebodyPushes

ExecSpec == ExecInit /\ [][ExecNext]_execVars

-----------------------------------------------------------------------------
(* Properties *)

ExecTypeOK ==
    /\ setup \in Setups /\ step \in Steps /\ pass \in Passes
    /\ {aborted, limitSeen, owed, disk, retained, prNoted, replied} \subseteq BOOLEAN
    /\ cause \in {"none", "cancelled", "limit", "error"}
    /\ runStatus \in Ended \cup {"queued", "preparing", "running", "finalizing", "waiting"}
    /\ attempt \in Ended \cup {"none", "open", "limit"}
    /\ procs \subseteq Reviewers \cup {"agent", "synthesis"} \cup Samples
    /\ box \in {"none", "up", "released", "destroyed"}
    /\ {tree, pulled} \subseteq 0..4
    /\ {head, gathered} \subseteq (0..4) \cup {NoBranch, Human}
    /\ pr \in {"none", "draft", "open"}

\* No process an attempt waits for, its agent, reviewers and synthesis, outlives
\* the sandbox, whether it completes, is cancelled in the middle of a review or is
\* cut by a timeout (runner.ts:329-331 of the agent's exec; review.ts: "by the time
\* the error escapes no reviewer process is left running"). Usage samples, which
\* nothing waits for, can: SamplesEndWithTheirSandbox.
NoWorkOutlivesItsSandbox == Awaited # {} => box = "up"

\* A run that says it completed has its last tree on its branch unless somebody
\* pushed over it, its pull request on its record, its attempt closed the same
\* way, its spend recorded, and the comment it owed posted.
CompletedIsDelivered ==
    runStatus = "completed" =>
        /\ attempt = "completed" /\ ~owed
        /\ prNoted /\ pr # "none"
        /\ pulled # 0 => head \in {pulled, Human}
        /\ FollowsUp /\ (pulled # 0 \/ setup.actionable) => replied

\* A follow-up never overwrites what somebody pushed to the branch while it
\* worked (followup.ts: "a human push that lands mid-follow-up is never
\* overwritten").
HumanPushesStand ==
    [][FollowsUp /\ head = Human /\ gathered # Human => head' = Human]_execVars

\* A finished run that says its sandbox is retained has the disk, with nothing of
\* its attempt at work in it (a usage sample may still be reading there): an
\* interactive session or a follow-up can boot it. (Unless its follow-up was handed
\* to a worker the disk is not on.)
RetainedDiskIsThere ==
    setup.here /\ step = "settled" /\ retained /\ runStatus \in {"completed", "failed"} =>
        disk /\ Awaited = {} /\ box # "destroyed"

\* A run's retention is on its record only while its disk exists (types.ts:
\* "cleared once the disk is reclaimed").
ReclaimedDiskIsForgotten == setup.here /\ step = "settled" /\ retained => disk

\* Every attempt settles, whatever fails in it and however long its processes
\* would go on: their timeout ends them, and every step of the pipeline returns.
ExecFair == WF_execVars(ExecStep) /\ WF_execVars(Killed)
AttemptsSettle == <>(step = "settled")

-----------------------------------------------------------------------------
(* What the safety properties need to be inductive *)

Booted == {"sync", "provision", "rebase", "agent", "agent-runs", "checkpoint",
           "review", "reviewers", "synthesis", "finalize", "push", "announce", "close"}
Unbooted == {"begin", "gather", "rehydrate", "boot"}

\* Where the coroutine waits for processes, which; elsewhere none is alive.
ProcessesInv ==
    /\ step \notin {"agent-runs", "reviewers", "synthesis"} => Awaited = {}
    /\ step = "agent-runs" => Awaited \subseteq {"agent"}
    /\ step = "reviewers" => Awaited \subseteq Reviewers
    /\ step = "synthesis" => Awaited \subseteq {"synthesis"}
    /\ pass \in Passes

\* From its boot to its last step an attempt has its sandbox.
BoxInv ==
    /\ step \in Booted => box = "up"
    /\ step \in Unbooted => box = "none"
    /\ step # "settled" => box \in {"none", "up"}
    /\ box = "up" => disk

\* Before it settles, only a follow-up has a retained disk, its run's.
RetentionInv ==
    retained /\ step # "settled" =>
        FollowsUp /\ setup.retention /\ (setup.here => disk)

\* Only a follow-up has feedback and a disk to look for; it neither checkpoints
\* nor is reviewed.
FollowUpInv ==
    /\ step \in {"gather", "rehydrate", "sync"} => FollowsUp
    /\ step = "checkout" /\ box = "up" => FollowsUp
    /\ FollowsUp => /\ pass = "follow-up" /\ pr # "none"
                    /\ step \notin {"checkpoint", "review", "reviewers", "synthesis"}

\* What has been done where the last steps of the pipeline begin.
DeliveryInv ==
    /\ owed => step \in {"agent-runs", "caught"}
    /\ step \in {"announce", "close"} =>
           pr # "none" /\ (pulled # 0 => head \in {pulled, Human})
    /\ step = "close" /\ OwesReply => replied
    /\ runStatus = "completed" => step \in {"finish", "settled"} /\ CompletedIsDelivered

ExecInv == /\ ProcessesInv /\ BoxInv /\ RetentionInv /\ FollowUpInv /\ DeliveryInv
           /\ RetainedDiskIsThere

-----------------------------------------------------------------------------
\* Not so in the code: "nothing is still running when the sandbox is destroyed"
\* (runner.ts:329-331). recordPendingCost stops the sampler's timer but does not
\* wait for the sample it has started, whose own timeout is 30 seconds; bubblewrap
\* reaps no process, so the sample can outlive the sandbox's removal.
SamplesEndWithTheirSandbox == procs # {} => box = "up"

===============================================================================
