------------------------------ MODULE PullWatch ------------------------------
(***************************************************************************)
(* A run after its work: the host's knowledge of the pull requests on       *)
(* GitHub, what archives the run and what brings it back                    *)
(* (packages/orchestrator/src/scheduler.ts, github.ts for the reads).       *)
(*                                                                          *)
(* Commands on the run hold its lock over their awaits; the refresh of the  *)
(* pull request's state and the archiving sweep hold none and answer when   *)
(* they may. The attempt in between is the worker's own copy of the run,    *)
(* as it was handed out. Time is the set of the run's dates that an archive *)
(* rule finds old enough; sweeps do not overlap.                            *)
(***************************************************************************)
EXTENDS Naturals, Sequences

CONSTANTS MaxPulls,      \* bound: pull requests of the run's branch
          MaxRunAttempts,   \* bound: attempts
          MaxAnswers,    \* bound: refreshes and sweeps begun
          MaxStops       \* bound: restarts of the host

VARIABLES
  run,        \* the store's run; again: queued as a follow-up (#followUps)
  pulls,      \* GitHub: the pull requests of its branch
  closed,     \* Linear: the ticket is closed
  aged,       \* the run's dates that are days old
  lock,       \* the command that holds the run's lock
  refresh,    \* #prRefreshes: the lookup under way
  sweep,      \* where #autoArchive is
  work,    \* the worker's copy of the run
  attempts, answers, stops    \* what the bounds bound

watchVars == << run, pulls, closed, aged, lock, refresh, sweep, work, attempts, answers,
                stops >>

NoPull == 0
PrStates == {"none", "draft", "open", "merged", "closed"}
Dates == {"merged", "ticketClosed", "finished"}
Over == {"completed", "failed"}        \* cancelled is as failed here

NoRefresh == [at |-> "idle", pr |-> NoPull, state |-> "none"]
NoWork == [kind |-> "none", pr |-> NoPull, prState |-> "none", since |-> 0,
              drafted |-> FALSE, result |-> FALSE]

WatchInit ==
  /\ run = [status |-> "queued", pr |-> NoPull, prState |-> "none", result |-> FALSE,
            again |-> FALSE, dates |-> {}, archived |-> FALSE]
  /\ pulls = << >> /\ closed = FALSE /\ aged = {}
  /\ lock = "free" /\ refresh = NoRefresh /\ sweep = "idle"
  /\ work = NoWork /\ attempts = 0 /\ answers = 0 /\ stops = 0

StateOf(p) == IF p = NoPull THEN "none" ELSE pulls[p]
Live(state) == state \in {"open", "draft"}

(* A date written anew is not old yet. *)
Dated(dates) == aged' = aged \ dates

-----------------------------------------------------------------------------
(* The attempts of the run. *)

(* A dispatch: the payload carries the run, with its pull request. *)
HandedOut ==
  /\ run.status = "queued" /\ work = NoWork /\ attempts < MaxRunAttempts
  /\ attempts' = attempts + 1
  /\ run' = [run EXCEPT !.status = "active", !.again = FALSE]
  /\ work' = [kind |-> IF run.again THEN "followUp" ELSE "implementation",
                 pr |-> run.pr, prState |-> run.prState, since |-> Len(pulls),
                 drafted |-> FALSE, result |-> run.result]
  /\ UNCHANGED << pulls, closed, aged, lock, refresh, sweep, answers, stops >>

(* createPullRequest: a live one of the branch is updated, or a new one     *)
(* opened; at the checkpoint a draft, which the run-patch tells the host.   *)
OpensPull(state) ==
  IF \E p \in DOMAIN pulls : Live(pulls[p]) THEN UNCHANGED pulls
  ELSE pulls' = Append(pulls, state)

DraftOpened ==
  /\ work.kind = "implementation" /\ ~work.drafted /\ Len(pulls) < MaxPulls
  /\ OpensPull("draft")
  /\ \E p \in DOMAIN pulls' :
       /\ Live(pulls'[p])
       /\ work' = [work EXCEPT !.pr = p, !.prState = "draft", !.drafted = TRUE]
       /\ run' = [run EXCEPT !.pr = p, !.prState = "draft"]
  /\ UNCHANGED << closed, aged, lock, refresh, sweep, attempts, answers, stops >>

(* The run-complete of an attempt: its copy's pull request, whatever the    *)
(* host learnt of it in the meantime.                                       *)
RunOver(status, p, prState, keeps) ==
  /\ run' = [run EXCEPT !.status = status, !.pr = p, !.prState = prState, !.result = keeps,
                        !.dates = @ \cup {"finished"}]
  /\ Dated({"finished"})
  /\ work' = NoWork

Completes ==
  /\ \/ /\ work.kind = "followUp" /\ work.result
        /\ UNCHANGED pulls
        /\ RunOver("completed", work.pr, "open", TRUE)
     \/ /\ work.kind = "implementation" /\ Len(pulls) < MaxPulls
        /\ OpensPull("open")
        /\ \E p \in DOMAIN pulls' : Live(pulls'[p]) /\ RunOver("completed", p, "open", TRUE)
  /\ UNCHANGED << closed, lock, refresh, sweep, attempts, answers, stops >>

AttemptFails ==
  /\ work # NoWork
  /\ RunOver("failed", work.pr, work.prState, work.result)
  /\ UNCHANGED << pulls, closed, lock, refresh, sweep, attempts, answers, stops >>

(* Back in the queue, and out of the archive. *)
RevivedAsIs(still, kind) ==
  [run EXCEPT !.status = "queued", !.result = still, !.again = (kind = "followUp"),
              !.dates = @ \ {"finished"}]

Revived(still, kind) ==
  [run EXCEPT !.status = "queued", !.result = still, !.again = (kind = "followUp"),
              !.dates = @ \ {"finished"}, !.archived = FALSE]

(* The worker is lost: a pull request this attempt opened is adopted, and   *)
(* without one the run is queued again. The lookup holds the lock.          *)
Interrupted ==
  /\ work # NoWork /\ lock = "free"
  /\ \/ /\ work.kind = "implementation"
        /\ \E p \in work.since + 1 .. Len(pulls) :
             /\ p = Len(pulls) /\ pulls[p] # "closed"
             /\ RunOver("completed", p, pulls[p], TRUE)
     \/ /\ work' = NoWork
        /\ run' = Revived(FALSE, work.kind)
        /\ UNCHANGED aged
  /\ UNCHANGED << pulls, closed, lock, refresh, sweep, attempts, answers, stops >>

-----------------------------------------------------------------------------
(* Commands, under the run's lock. *)

(* retryRun: the discard of the retained disk is awaited before the run is  *)
(* queued, and may throw.                                                   *)
Retry ==
  /\ lock = "free" /\ run.status = "failed"
  /\ lock' = "retry"
  /\ UNCHANGED << run, pulls, closed, aged, refresh, sweep, work, attempts, answers, stops >>

Retried ==
  /\ lock = "retry"
  /\ lock' = "free"
  /\ run' \in {run, Revived(FALSE, "implementation")}
  /\ UNCHANGED << pulls, closed, aged, refresh, sweep, work, attempts, answers, stops >>

(* followUpRun: the pull request is looked up on GitHub before the run is   *)
(* queued.                                                                  *)
FollowUp ==
  /\ lock = "free" /\ run.status \in Over /\ run.result
  /\ lock' = "followUp"
  /\ UNCHANGED << run, pulls, closed, aged, refresh, sweep, work, attempts, answers, stops >>

(* The check answers, and the run is queued or the command refused. *)
PullChecked ==
  /\ lock = "followUp"
  /\ lock' = "free"
  /\ \/ Live(StateOf(run.pr)) /\ run' = Revived(TRUE, "followUp")
     \/ UNCHANGED run
  /\ UNCHANGED << pulls, closed, aged, refresh, sweep, work, attempts, answers, stops >>

Archive ==
  /\ lock = "free" /\ run.status \in Over /\ ~run.archived
  /\ run' = [run EXCEPT !.archived = TRUE]
  /\ UNCHANGED << pulls, closed, aged, lock, refresh, sweep, work, attempts, answers, stops >>

Unarchive ==
  /\ lock = "free" /\ run.archived
  /\ run' = [run EXCEPT !.archived = FALSE]
  /\ UNCHANGED << pulls, closed, aged, lock, refresh, sweep, work, attempts, answers, stops >>

-----------------------------------------------------------------------------
(* The refresh of the pull request's state. *)

Answers == answers < MaxAnswers /\ answers' = answers + 1

(* refreshPrState, for #pollPrStates, the sweep and a run that is looked at *)
(* (which asks of a merged and of a closed one too); one at a time.         *)
Looked == refresh' = IF refresh = NoRefresh /\ run.pr # NoPull
                     THEN [at |-> "asked", pr |-> run.pr, state |-> "none"] ELSE refresh

Refresh ==
  /\ run.pr # NoPull /\ refresh = NoRefresh /\ Answers
  /\ Looked
  /\ UNCHANGED << run, pulls, closed, aged, lock, sweep, work, attempts, stops >>

RefreshAnswered ==
  /\ refresh.at = "asked"
  /\ refresh' = [refresh EXCEPT !.at = "answered", !.state = pulls[refresh.pr]]
  /\ UNCHANGED << run, pulls, closed, aged, lock, sweep, work, attempts, answers, stops >>

(* The answer goes to the run as it is now. *)
PrObserved(state) ==
  /\ run' = [run EXCEPT !.prState = state,
                        !.dates = IF state = "merged" THEN @ \cup {"merged"} ELSE @]
  /\ IF state = "merged" /\ run.prState # "merged" THEN Dated({"merged"}) ELSE UNCHANGED aged

RefreshLands ==
  /\ refresh.at = "answered"
  /\ refresh' = NoRefresh
  /\ PrObserved(refresh.state)
  /\ UNCHANGED << pulls, closed, lock, sweep, work, attempts, answers, stops >>

RefreshFails ==
  /\ refresh # NoRefresh
  /\ refresh' = NoRefresh
  /\ UNCHANGED << run, pulls, closed, aged, lock, sweep, work, attempts, answers, stops >>

-----------------------------------------------------------------------------
(* The archiving sweep. *)

Candidate == run.status \in Over /\ ~run.archived

(* The candidates are chosen, and Linear asked about their tickets. *)
BeginSweep ==
  /\ sweep = "idle" /\ Candidate /\ Answers
  /\ sweep' = IF "ticketClosed" \in run.dates THEN "tickets" ELSE "closures"
  /\ UNCHANGED << run, pulls, closed, aged, lock, refresh, work, attempts, stops >>

(* What Linear knows of the ticket is written to the run; a failed lookup   *)
(* leaves the other rules.                                                  *)
ClosuresAnswered ==
  /\ sweep = "closures"
  /\ sweep' = "tickets"
  /\ \/ closed /\ run' = [run EXCEPT !.dates = @ \cup {"ticketClosed"}]
     \/ UNCHANGED run
  /\ UNCHANGED << pulls, closed, aged, lock, refresh, work, attempts, answers, stops >>

(* A merged run without its date (an adopted one) is looked up first.       *)
Backfill ==
  /\ sweep = "tickets"
  /\ IF run.prState = "merged" /\ "merged" \notin run.dates
     THEN sweep' = "backfill" /\ Looked ELSE sweep' = "decide" /\ UNCHANGED refresh
  /\ UNCHANGED << run, pulls, closed, aged, lock, work, attempts, answers, stops >>

Backfilled ==
  /\ sweep = "backfill" /\ refresh = NoRefresh
  /\ sweep' = "decide"
  /\ UNCHANGED << run, pulls, closed, aged, lock, refresh, work, attempts, answers, stops >>

(* The run is read again, and judged by its dates. *)
Reason ==
  \/ run.prState = "merged" /\ "merged" \in run.dates \cap aged
  \/ "ticketClosed" \in run.dates \cap aged
  \/ "finished" \in run.dates \cap aged

ReasonNow == Candidate /\ Reason

Decide ==
  /\ sweep = "decide"
  /\ sweep' = "idle"
  /\ run' = IF ReasonNow THEN [run EXCEPT !.archived = TRUE] ELSE run
  /\ UNCHANGED << pulls, closed, aged, lock, refresh, work, attempts, answers, stops >>

-----------------------------------------------------------------------------
(* The others. *)

Days ==
  /\ \E date \in run.dates \ aged : aged' = aged \cup {date}
  /\ UNCHANGED << run, pulls, closed, lock, refresh, sweep, work, attempts, answers, stops >>

(* Colleagues merge, close, reopen and undraft; the ticket is closed. *)
OnGithub ==
  /\ \E p \in DOMAIN pulls :
       \/ Live(pulls[p]) /\ \E s \in {"merged", "closed"} : pulls' = [pulls EXCEPT ![p] = s]
       \/ pulls[p] = "draft" /\ pulls' = [pulls EXCEPT ![p] = "open"]
       \/ /\ pulls[p] = "closed" /\ \A q \in DOMAIN pulls : ~Live(pulls[q])
          /\ pulls' = [pulls EXCEPT ![p] = "open"]
  /\ UNCHANGED << run, closed, aged, lock, refresh, sweep, work, attempts, answers, stops >>

OnLinear ==
  /\ ~closed /\ closed' = TRUE
  /\ UNCHANGED << run, pulls, aged, lock, refresh, sweep, work, attempts, answers, stops >>

(* The run is on disk, and the attempt the worker's; that a queued run is a *)
(* follow-up was in memory alone.                                           *)
HostRestarts ==
  /\ stops < MaxStops
  /\ stops' = stops + 1
  /\ lock' = "free" /\ refresh' = NoRefresh /\ sweep' = "idle"
  /\ run' = [run EXCEPT !.again = FALSE]
  /\ UNCHANGED << pulls, closed, aged, work, attempts, answers >>

WatchNext ==
  \/ HandedOut \/ DraftOpened \/ Completes \/ AttemptFails \/ Interrupted
  \/ Retry \/ Retried \/ FollowUp \/ PullChecked \/ Archive \/ Unarchive
  \/ Refresh \/ RefreshAnswered \/ RefreshLands \/ RefreshFails
  \/ BeginSweep \/ ClosuresAnswered \/ Backfill \/ Backfilled \/ Decide
  \/ Days \/ OnGithub \/ OnLinear \/ HostRestarts

WatchSpec == WatchInit /\ [][WatchNext]_watchVars

-----------------------------------------------------------------------------
(* The types of the run's state. *)
WatchTypeOK ==
  /\ run.pr \in 0 .. Len(pulls) /\ run.prState \in PrStates /\ run.dates \subseteq Dates
  /\ (run.pr = NoPull) = (run.prState = "none")
  /\ refresh.pr \in 0 .. Len(pulls) /\ aged \subseteq Dates

(* A run is in the archive only when it is over: the sweep asks Linear and  *)
(* GitHub for minutes between choosing a run and archiving it, and holds no *)
(* lock on a run that is retried, followed up or interrupted meanwhile.     *)
ArchivedIsOver == run.archived => run.status \in Over

(* Why it holds, for the proof: what the host, the worker's copy and the    *)
(* lookup under way say of the pull requests GitHub has, ...                *)
WatchShapes ==
  /\ pulls \in Seq(PrStates \ {"none"}) /\ aged \subseteq Dates
  /\ run \in [status : {"queued", "active"} \cup Over, pr : 0 .. Len(pulls),
              prState : PrStates, result : BOOLEAN, again : BOOLEAN,
              dates : SUBSET Dates, archived : BOOLEAN]
  /\ work \in [kind : {"none", "implementation", "followUp"}, pr : 0 .. Len(pulls),
               prState : PrStates, since : 0 .. Len(pulls), drafted : BOOLEAN,
               result : BOOLEAN]
  /\ refresh \in [at : {"idle", "asked", "answered"}, pr : 0 .. Len(pulls),
                  state : PrStates]

(* ... that a result has its pull request, that only a known one is looked  *)
(* up, and that the worker's copy is about the run's.                       *)
PullsKnown ==
  /\ run.pr = NoPull <=> run.prState = "none"
  /\ run.result => run.pr # NoPull
  /\ work # NoWork => /\ work.pr = run.pr /\ (work.pr = NoPull <=> work.prState = "none")
                      /\ work.result => work.pr # NoPull
  /\ refresh # NoRefresh => refresh.at # "idle" /\ refresh.pr # NoPull /\ run.pr # NoPull
  /\ refresh.at = "answered" => refresh.state # "none"

WatchInv == WatchShapes /\ PullsKnown /\ ArchivedIsOver

(* Not so in the code: an answer about the run's former pull request is     *)
(* written to the run as its current one's, and a merged one is not polled  *)
(* again.                                                                   *)
MergedIsItsOwn == run.prState = "merged" => StateOf(run.pr) = "merged"
==============================================================================
