----------------------------- MODULE RunDispatch -----------------------------
(***************************************************************************)
(* How a run travels between the host's queue and the workers: the         *)
(* scheduler's queue, run locks, follow-up markers and interruptions       *)
(* (packages/orchestrator/src/scheduler.ts), the registry's leases, their  *)
(* copy on disk, the reconciliation when a worker registers and the        *)
(* recovery when the host boots (workers.ts, leases.ts), and the daemon    *)
(* that executes a lease and reports on it (packages/worker/src/daemon.ts, *)
(* runner.ts, followup.ts).                                                *)
(*                                                                         *)
(* A lease's reports arrive in order and once, which is what ReportLog     *)
(* promises; only those that carry a status are kept. Time is left out:    *)
(* a lease may expire whenever the host holds no socket for its worker,    *)
(* provided its writes have landed (writes to a local disk are over long   *)
(* before a reconnect window of at least ten seconds).                     *)
(*                                                                         *)
(* Left out: what decides whether a ticket is eligible, shared concurrency *)
(* with interactive sessions, retained sandboxes and their reaping, a      *)
(* draining worker, and revocation.                                        *)
(***************************************************************************)
EXTENDS Integers, Sequences, FiniteSets, SequencesExt

CONSTANTS
    Workers,           \* enrolled workers; their ids are ordered (localeCompare)
    Runs,              \* one run per ticket
    Leases,            \* bound: how many lease ids are in use at once
    Capacity,          \* sandbox.concurrency of every worker
    None,
    Commands,          \* what users do: any of "cancel", "retry", "follow-up"
    Outcomes,          \* how an execution may end when nobody aborts it
    MaxCommands,       \* bound: how many commands
    MaxBreaks,         \* bound: how often a socket dies
    MaxHostRestarts,   \* bound: how often the host stops and boots again
    MaxWorkerRestarts, \* bound: how often a worker process dies
    MaxWriteFailures,  \* bound: how often a lease's claim cannot be written
    MaxFences          \* bound: how often a worker gives up a lease by itself

Terminal == {"completed", "failed", "cancelled"}
Statuses == {"new", "queued", "active", "waiting"} \cup Terminal
Kinds == {"implementation", "follow-up"}
Grants == [run : Runs, worker : Workers, pr : BOOLEAN, kind : Kinds]

ASSUME DispatchAssumption ==
    /\ Workers \subseteq Nat /\ Leases \subseteq Nat
    /\ IsFiniteSet(Workers) /\ IsFiniteSet(Runs) /\ IsFiniteSet(Leases)
    /\ None \notin Leases \cup Grants
    /\ Capacity \in Nat \ {0}
    /\ Commands \subseteq {"cancel", "retry", "follow-up"}
    /\ Outcomes \subseteq {"completed", "failed", "waiting"}
    /\ {MaxCommands, MaxBreaks, MaxHostRestarts, MaxWorkerRestarts,
        MaxWriteFailures, MaxFences} \subseteq Nat

VARIABLES
    \* the run store
    status, result,    \* per run: Run.status; whether Run.result names a PR
    \* the scheduler
    queue, followUps, resumeTimers,
    busy,              \* per run: what holds its lock across an await
    lost,              \* interruptions waiting for their run's lock
    driving,           \* #dispatchQueued's loop is under way
    \* the registry
    grant,             \* per lease: the run, worker and kind it was issued for
    held, leaseByRun, cancelIntents,
    claiming,          \* leases whose putDurable has not settled
    stored,            \* the LeaseStore's leases
    seen,              \* per worker: a connection is installed
    admitted,          \* per lease: reports taken over, their writes chained
    finishing,         \* completions between their write and their settling
    \* the workers
    running, aborted, claimed, stage, reports,
    \* the sockets
    sock,              \* per worker: "none", "dialed", "live"
    toHost, toWorker,
    \* GitHub, one branch per run
    pr,                \* "none", "draft", "ready"
    prNew,             \* created since the latest recorded attempt began
    sawPr,             \* leases issued, or begun, with the PR already there
    \* history
    asked,             \* per lease: what the last cancel of it answered
    wanted,            \* per run: the kind of work last asked for
    spent              \* bound counters

storeVars  == <<status, result>>
schedVars  == <<queue, followUps, resumeTimers, busy, lost, driving>>
bookVars   == <<grant, held, leaseByRun, cancelIntents, claiming, stored>>
reportVars == <<admitted, finishing>>
workerVars == <<running, aborted, claimed, stage, reports>>
wireVars   == <<seen, sock, toHost, toWorker>>
forgeVars  == <<pr, prNew, sawPr>>
histVars   == <<asked, wanted, spent>>
vars == <<storeVars, schedVars, bookVars, reportVars, workerVars, wireVars,
          forgeVars, histVars>>

-----------------------------------------------------------------------------
(* Vocabulary *)

Msg(type, l)      == [type |-> type, lease |-> l]
RegisterMsg(C)    == [type |-> "register", leases |-> C]
PatchReport(s)    == [type |-> "run-patch", status |-> s]
CompleteReport(s) == [type |-> "run-complete", status |-> s]
Free == [op |-> "free", by |-> None]
Busy(op, l) == [op |-> op, by |-> l]

RunOf(l)    == grant[l].run
WorkerOf(l) == grant[l].worker
HeldBy(w)   == {l \in held : WorkerOf(l) = w}

Spend(what, limit) ==
    /\ spent[what] < limit
    /\ spent' = [spent EXCEPT ![what] = @ + 1]

\* #send: a frame for a socket that is gone is dropped.
Send(w, msgs) ==
    toWorker' = [toWorker EXCEPT ![w] = IF sock[w] = "live" THEN @ \o msgs ELSE @]

(* Slips a change to the code could make. Nothing below uses them: each    *)
(* stands in for the definition named with it, to show that the property   *)
(* named with it would notice (README, "Mutants").                         *)

\* Interruptions, of runs already seen at work only (NoRunStranded,
\* QueuedRunsComeToRest).
InterruptionsOfActive(S) ==
    {[run |-> RunOf(l), kind |-> grant[l].kind, by |-> l] :
        l \in {m \in S : status[RunOf(m)] = "active"}}

\* Unleased, going by status alone (HandedOutOnce).
UnleasedIgnoringLeases(R, S) == R

\* AdmitReport, of any lease whose worker is connected
\* (NoLateReportMovesARun).
AdmitAnyReport(l) ==
    /\ ~driving /\ grant[l] # None /\ sock[WorkerOf(l)] = "live"
    /\ admitted[l] < Len(reports[l])
    /\ admitted' = [admitted EXCEPT ![l] = @ + 1]
    /\ UNCHANGED <<storeVars, schedVars, bookVars, finishing, workerVars, wireVars,
                   forgeVars, histVars>>

\* ClaimLands, not waiting for the write (ExecutionsAreOnRecord).
SendsBeforeTheClaim(l) ==
    /\ ~driving /\ l \in claiming \cap held
    /\ Send(WorkerOf(l), <<Msg("dispatch", l)>>)
    /\ UNCHANGED <<storeVars, schedVars, bookVars, reportVars, workerVars, seen, sock,
                   toHost, forgeVars, histVars>>

\* Disowned, telling the worker nothing (ConnectedExecutionsAreOwned).
DisownedSilently(C) == {}

\* Rejected, forgetting what kind of run it was (LeasesAreAsAsked).
RejectedAnyKind(l) ==
    /\ UNCHANGED followUps
    /\ queue' = IF status[RunOf(l)] = "queued" /\ ~Contains(queue, RunOf(l))
                THEN <<RunOf(l)>> \o queue ELSE queue

\* Rejected, not handing the run back (NoRunStranded).
RejectedForGood(l) ==
    /\ followUps' = IF grant[l].kind = "follow-up" THEN followUps \cup {RunOf(l)}
                    ELSE followUps
    /\ UNCHANGED queue

\* FollowUpGranted, queueing like a retry (LeasesAreAsAsked).
FollowUpGrantedAfresh(r) ==
    /\ ~driving /\ busy[r].op = "checking"
    /\ status[r] \in Terminal /\ result[r]
    /\ status' = [status EXCEPT ![r] = "queued"]
    /\ result' = [result EXCEPT ![r] = FALSE]
    /\ busy' = [busy EXCEPT ![r] = Busy("requeueing", None)]
    /\ wanted' = [wanted EXCEPT ![r] = "follow-up"]
    /\ UNCHANGED <<queue, followUps, resumeTimers, lost, driving, bookVars, reportVars,
                   workerVars, wireVars, forgeVars, asked, spent>>

\* Replayed, not at all (PendingCancelsArrive).
ReplayedNever(S) == {}

\* Unclaimed, not at all (LeasesAreGivenBack).
UnclaimedNever(w, C) == {}

-----------------------------------------------------------------------------
(* Leases that end *)

\* What #expireLease hands to #onRunInterrupted once the lease is settled.
Interruptions(S) ==
    {[run |-> RunOf(l), kind |-> grant[l].kind, by |-> l] :
        l \in {m \in S : status[RunOf(m)] \notin Terminal}}

\* #settleLease, for every lease of S the host still holds.
Settle(S) ==
    /\ held' = held \ S
    /\ leaseByRun' = [r \in Runs |-> IF leaseByRun[r] \in S \cap held THEN None
                                     ELSE leaseByRun[r]]
    /\ cancelIntents' = cancelIntents \ S
    /\ stored' = stored \ (S \cap held)

\* A call of #dispatchQueued: on an empty queue it does nothing.
Drive == driving' = (queue' # <<>>)

\* The lease ids a new lease may take: randomUUID never repeats one, so an id
\* is taken again only when nothing remembers it.
Unused ==
    {l \in Leases :
        /\ l \notin held \cup claiming \cup stored \cup running \cup claimed
                    \cup finishing
        /\ reports[l] = <<>>
        /\ \A x \in lost : x.by # l
        /\ \A r \in Runs : busy[r].by # l
        /\ \A w \in Workers :
            /\ \A i \in DOMAIN toWorker[w] : toWorker[w][i].lease # l
            /\ \A i \in DOMAIN toHost[w] :
                IF toHost[w][i].type = "register" THEN l \notin toHost[w][i].leases
                ELSE toHost[w][i].lease # l}

-----------------------------------------------------------------------------
(* The scheduler *)

\* #enqueue: a ticket was found eligible and its run created.
Enqueue(r) ==
    /\ ~driving /\ status[r] = "new"
    /\ status' = [status EXCEPT ![r] = "queued"]
    /\ queue' = Append(queue, r)
    /\ Drive
    /\ UNCHANGED <<result, followUps, resumeTimers, busy, lost, bookVars,
                   reportVars, workerVars, wireVars, forgeVars, histVars>>

\* #freeCapacity and #placeWorker: the connected worker with the most room,
\* the lowest id among equals.
Room(w) == Capacity - Cardinality(HeldBy(w))
Placements ==
    {w \in Workers :
        /\ seen[w] /\ Room(w) > 0
        /\ \A v \in Workers : seen[v] =>
            Room(v) < Room(w) \/ (Room(v) = Room(w) /\ w <= v)}

\* WorkerRegistry.dispatch: the lease exists, and its write is under way.
Issue(l, w, r) ==
    /\ grant' = [grant EXCEPT ![l] =
                    [run |-> r, worker |-> w, pr |-> result[r],
                     kind |-> IF r \in followUps THEN "follow-up"
                              ELSE "implementation"]]
    /\ held' = held \cup {l}
    /\ leaseByRun' = [leaseByRun EXCEPT ![r] = l]
    /\ claiming' = claiming \cup {l}
    /\ stored' = stored \cup {l}
    /\ sawPr' = IF pr[r] = "none" THEN sawPr \ {l} ELSE sawPr \cup {l}
    /\ asked' = [asked EXCEPT ![l] = "no"]
    /\ UNCHANGED <<cancelIntents, wanted, spent>>

\* The first run of the queue leaves it.
DispatchHead ==
    /\ queue # <<>>
    /\ queue' = Tail(queue)
    /\ LET r == Head(queue) IN
        \/ /\ status[r] # "queued"
           /\ UNCHANGED <<followUps, bookVars, sawPr, histVars>>
        \/ /\ status[r] = "queued"
           /\ \E l \in Unused, w \in Placements :
                (\A m \in Unused : l <= m) /\ Issue(l, w, r)
           /\ followUps' = followUps \ {r}
    /\ Drive

\* No worker has room for the run at the head: the loop stops here.
DispatchBlocked ==
    /\ queue # <<>> /\ status[Head(queue)] = "queued"
    /\ Placements = {} \/ Unused = {}
    /\ driving' = FALSE
    /\ UNCHANGED <<queue, followUps, bookVars, sawPr, histVars>>

\* #dispatchQueued, one turn of its loop; the host does nothing else meanwhile.
DispatchQueued ==
    /\ driving
    /\ DispatchHead \/ DispatchBlocked
    /\ UNCHANGED <<storeVars, resumeTimers, busy, lost, reportVars, workerVars,
                   wireVars, pr, prNew>>

\* The "workers" event of a heartbeat, when the queue has somewhere to go.
Redrive ==
    /\ ~driving /\ queue # <<>>
    /\ Placements # {} /\ Unused # {}
    /\ driving' = TRUE
    /\ UNCHANGED <<storeVars, queue, followUps, resumeTimers, busy, lost,
                   bookVars, reportVars, workerVars, wireVars, forgeVars, histVars>>

\* withRunLock: nobody holds the run's lock or waits for it.
LockFree(r) == busy[r] = Free /\ \A x \in lost : x.run # r

\* #onRunRejected
Rejected(l) ==
    /\ followUps' = IF grant[l].kind = "follow-up" THEN followUps \cup {RunOf(l)}
                    ELSE followUps
    /\ queue' = IF status[RunOf(l)] = "queued" /\ ~Contains(queue, RunOf(l))
                THEN <<RunOf(l)>> \o queue ELSE queue

\* adoptableFromAttempt, as far as it is settled when the run's record is read:
\* an implementation, whose branch has no pull request yet or one created after
\* the latest attempt on record began.
Adoptable(x) ==
    x.kind = "implementation" /\ (pr[x.run] = "none" \/ prNew[x.run])

\* #onRunInterrupted takes the run's lock: a run that is over is left alone, a
\* follow-up marked as one again; then it asks GitHub.
BeginInterrupt(x) ==
    /\ ~driving /\ x \in lost /\ busy[x.run] = Free
    /\ lost' = lost \ {x}
    /\ IF status[x.run] \in Terminal
       THEN UNCHANGED <<followUps, busy>>
       ELSE /\ followUps' = IF x.kind = "follow-up" THEN followUps \cup {x.run}
                            ELSE followUps
            /\ busy' = [busy EXCEPT ![x.run] =
                  Busy(IF Adoptable(x) THEN "adopting" ELSE "returning", x.by)]
    /\ UNCHANGED <<storeVars, queue, resumeTimers, driving, bookVars, reportVars,
                   workerVars, wireVars, forgeVars, histVars>>

\* #adoptedPullRequest found one: the run is complete.
Adopt(r) ==
    /\ ~driving /\ busy[r].op = "adopting" /\ pr[r] # "none"
    /\ status' = [status EXCEPT ![r] = "completed"]
    /\ result' = [result EXCEPT ![r] = TRUE]
    /\ busy' = [busy EXCEPT ![r] = Free]
    /\ UNCHANGED queue
    /\ Drive
    /\ UNCHANGED <<followUps, resumeTimers, lost, bookVars, reportVars,
                   workerVars, wireVars, forgeVars, histVars>>

\* #enqueueForAttempt, up to its await: after an interruption with nothing to
\* adopt (or no answer from GitHub), a retry, a lifted limit.
Requeue(r) ==
    /\ ~driving /\ busy[r].op \in {"adopting", "returning"}
    /\ status' = [status EXCEPT ![r] = "queued"]
    /\ result' = [result EXCEPT ![r] = FALSE]
    /\ resumeTimers' = resumeTimers \ {r}
    /\ busy' = [busy EXCEPT ![r] = Busy("requeueing", @.by)]
    /\ UNCHANGED <<queue, followUps, lost, driving, bookVars, reportVars,
                   workerVars, wireVars, forgeVars, histVars>>

\* The requeued status is on disk: the run joins the queue, the lock goes.
JoinQueue(r) ==
    /\ ~driving /\ busy[r].op = "requeueing"
    /\ queue' = IF Contains(queue, r) THEN queue ELSE Append(queue, r)
    /\ busy' = [busy EXCEPT ![r] = Free]
    /\ Drive
    /\ UNCHANGED <<storeVars, followUps, resumeTimers, lost, bookVars,
                   reportVars, workerVars, wireVars, forgeVars, histVars>>

-----------------------------------------------------------------------------
(* Commands, each under its run's lock *)

\* The queue without r, which it lists once.
Dequeued(r) == RemoveAt(queue, CHOOSE i \in DOMAIN queue : queue[i] = r)

\* cancelRun of a run nobody was handed: waiting, queued, or nobody's.
CancelHere(r) ==
    /\ \/ status[r] = "waiting"
       \/ status[r] = "queued" /\ Contains(queue, r)
       \/ leaseByRun[r] = None
    /\ status' = [status EXCEPT ![r] = "cancelled"]
    /\ IF status[r] = "waiting" THEN
            /\ resumeTimers' = resumeTimers \ {r}
            /\ UNCHANGED <<queue, followUps>>
       ELSE IF status[r] = "queued" /\ Contains(queue, r) THEN
            /\ queue' = Dequeued(r)
            /\ followUps' = followUps \ {r}
            /\ UNCHANGED resumeTimers
       ELSE UNCHANGED <<queue, followUps, resumeTimers>>
    /\ UNCHANGED <<cancelIntents, toWorker, asked>>

\* WorkerRegistry.cancel: the intent is recorded, and sent if it can be.
CancelOnWorker(r) ==
    LET l == leaseByRun[r]
        w == WorkerOf(l)
    IN
    /\ l # None /\ status[r] # "waiting"
    /\ ~(status[r] = "queued" /\ Contains(queue, r))
    /\ cancelIntents' = cancelIntents \cup {l}
    /\ IF seen[w] THEN Send(w, <<Msg("cancel", l)>>) ELSE UNCHANGED toWorker
    /\ asked' = [asked EXCEPT ![l] = IF seen[w] THEN "sent" ELSE "pending"]
    /\ UNCHANGED <<status, queue, followUps, resumeTimers>>

Cancel(r) ==
    /\ ~driving /\ "cancel" \in Commands /\ LockFree(r)
    /\ status[r] \notin Terminal \cup {"new"}
    /\ Spend("commands", MaxCommands)
    /\ CancelHere(r) \/ CancelOnWorker(r)
    /\ UNCHANGED <<result, busy, lost, driving, grant, held, leaseByRun, claiming,
                   stored, reportVars, workerVars, seen, sock, toHost, forgeVars,
                   wanted>>

\* retryRun and the end of #tryResume: #requeue, which discards what the last
\* attempt left before it queues the run.
StartOver(r) ==
    /\ resumeTimers' = resumeTimers \ {r}
    /\ busy' = [busy EXCEPT ![r] = Busy("returning", None)]
    /\ wanted' = [wanted EXCEPT ![r] = "implementation"]
    /\ UNCHANGED <<storeVars, queue, followUps, lost, driving, bookVars, reportVars,
                   workerVars, wireVars, forgeVars, asked>>

Retry(r) ==
    /\ ~driving /\ "retry" \in Commands /\ LockFree(r)
    /\ status[r] \in {"failed", "cancelled", "waiting"}
    /\ Spend("commands", MaxCommands)
    /\ StartOver(r)

\* #tryResume: the limit has lifted.
Resume(r) ==
    /\ ~driving /\ r \in resumeTimers /\ LockFree(r)
    /\ status[r] = "waiting"
    /\ StartOver(r)
    /\ UNCHANGED spent

\* followUpRun, up to asking GitHub about the pull request.
FollowUp(r) ==
    /\ ~driving /\ "follow-up" \in Commands /\ LockFree(r)
    /\ status[r] \in Terminal /\ result[r] /\ r \notin followUps
    /\ Spend("commands", MaxCommands)
    /\ followUps' = followUps \cup {r}
    /\ busy' = [busy EXCEPT ![r] = Busy("checking", None)]
    /\ UNCHANGED <<storeVars, queue, resumeTimers, lost, driving, bookVars,
                   reportVars, workerVars, wireVars, forgeVars, asked, wanted>>

\* The pull request is open and the run still eligible.
FollowUpGranted(r) ==
    /\ ~driving /\ busy[r].op = "checking"
    /\ status[r] \in Terminal /\ result[r]
    /\ status' = [status EXCEPT ![r] = "queued"]
    /\ busy' = [busy EXCEPT ![r] = Busy("requeueing", None)]
    /\ wanted' = [wanted EXCEPT ![r] = "follow-up"]
    /\ UNCHANGED <<result, queue, followUps, resumeTimers, lost, driving, bookVars,
                   reportVars, workerVars, wireVars, forgeVars, asked, spent>>

\* It is not, or GitHub did not answer: the reservation is released.
FollowUpRefused(r) ==
    /\ ~driving /\ busy[r].op = "checking"
    /\ followUps' = followUps \ {r}
    /\ busy' = [busy EXCEPT ![r] = Free]
    /\ UNCHANGED <<storeVars, queue, resumeTimers, lost, driving, bookVars,
                   reportVars, workerVars, wireVars, forgeVars, histVars>>

-----------------------------------------------------------------------------
(* The registry *)

\* putDurable landed: the dispatch goes out, unless the lease was settled.
ClaimLands(l) ==
    /\ ~driving /\ l \in claiming
    /\ claiming' = claiming \ {l}
    /\ IF l \in held THEN Send(WorkerOf(l), <<Msg("dispatch", l)>>)
       ELSE UNCHANGED toWorker
    /\ UNCHANGED <<storeVars, schedVars, grant, held, leaseByRun, cancelIntents,
                   stored, reportVars, workerVars, seen, sock, toHost, forgeVars,
                   histVars>>

\* putDurable failed: the lease is given up and the run handed back.
ClaimFails(l) ==
    /\ ~driving /\ l \in claiming
    /\ Spend("writeFailures", MaxWriteFailures)
    /\ claiming' = claiming \ {l}
    /\ Settle({l})
    /\ Rejected(l)
    /\ UNCHANGED <<storeVars, resumeTimers, busy, lost, driving, grant, reportVars,
                   workerVars, wireVars, forgeVars, asked, wanted>>

\* The dispatch-rejected frame.
HandleRejected(w) ==
    /\ ~driving /\ sock[w] = "live" /\ toHost[w] # <<>>
    /\ Head(toHost[w]).type = "dispatch-rejected"
    /\ toHost' = [toHost EXCEPT ![w] = Tail(@)]
    /\ LET l == Head(toHost[w]).lease IN
        IF l \in HeldBy(w)
        THEN Settle({l}) /\ Rejected(l)
        ELSE UNCHANGED <<held, leaseByRun, cancelIntents, stored, queue, followUps>>
    /\ UNCHANGED <<storeVars, resumeTimers, busy, lost, driving, grant, claiming,
                   reportVars, workerVars, seen, sock, toWorker, forgeVars, histVars>>

\* #handleDisconnect: the entry goes, the leases get their grace window.
HandleDisconnect(w) ==
    /\ ~driving /\ seen[w] /\ sock[w] # "live"
    /\ seen' = [seen EXCEPT ![w] = FALSE]
    /\ UNCHANGED queue
    /\ Drive
    /\ UNCHANGED <<storeVars, followUps, resumeTimers, busy, lost, bookVars,
                   reportVars, workerVars, sock, toHost, toWorker, forgeVars, histVars>>

\* #expireLease, from the grace timer or the sweep.
ExpireLease(l) ==
    /\ ~driving /\ l \in held /\ ~seen[WorkerOf(l)]
    /\ admitted[l] = 0 /\ l \notin finishing
    /\ Settle({l})
    /\ lost' = lost \cup Interruptions({l})
    /\ UNCHANGED <<storeVars, queue, followUps, resumeTimers, busy, driving, grant,
                   claiming, reportVars, workerVars, wireVars, forgeVars, histVars>>

\* The leases of w its register frame does not list.
Unclaimed(w, C) == HeldBy(w) \ C

\* The leases a register frame lists that the host does not hold.
Disowned(C) == C \ held

\* The recorded cancels of a worker's leases.
Replayed(S) == S \cap cancelIntents

\* #handleRegister: install the connection, expire what the worker no longer
\* claims, disown what the host no longer holds, replay recorded cancels.
HandleRegister(w) ==
    /\ ~driving /\ sock[w] = "dialed" /\ toHost[w] # <<>>
    /\ LET C      == Head(toHost[w]).leases
           gone   == Unclaimed(w, C)
       IN
        /\ Settle(gone)
        /\ lost' = lost \cup Interruptions(gone)
        /\ toWorker' = [toWorker EXCEPT ![w] =
               SetToSeq({Msg("lease-lost", l) : l \in Disowned(C)}) \o
               SetToSeq({Msg("cancel", l) : l \in Replayed(HeldBy(w) \ gone)})]
    /\ toHost' = [toHost EXCEPT ![w] = Tail(@)]
    /\ seen' = [seen EXCEPT ![w] = TRUE]
    /\ sock' = [sock EXCEPT ![w] = "live"]
    /\ UNCHANGED queue
    /\ Drive
    /\ UNCHANGED <<storeVars, followUps, resumeTimers, busy, grant, claiming,
                   reportVars, workerVars, forgeVars, histVars>>

\* #leaseFor and #admitFrame: the next report of a held lease joins its chain.
AdmitReport(l) ==
    /\ ~driving /\ l \in held /\ sock[WorkerOf(l)] = "live"
    /\ admitted[l] < Len(reports[l])
    /\ admitted' = [admitted EXCEPT ![l] = @ + 1]
    /\ UNCHANGED <<storeVars, schedVars, bookVars, finishing, workerVars, wireVars,
                   forgeVars, histVars>>

Landed(l) ==
    /\ reports' = [reports EXCEPT ![l] = Tail(@)]
    /\ admitted' = [admitted EXCEPT ![l] = @ - 1]

\* A chained #applyRunPatch and its #markApplied. Neither asks whether the
\* lease is still held; LeaseStore.put takes a lease it does not know as new.
ApplyPatch(l) ==
    /\ ~driving /\ admitted[l] > 0 /\ l \notin finishing
    /\ Head(reports[l]).type = "run-patch"
    /\ LET r == RunOf(l)
           s == Head(reports[l]).status
           begins == s = "active"
       IN
        /\ status' = [status EXCEPT ![r] = s]
        /\ result' = [result EXCEPT ![r] =
              IF begins /\ grant[l].kind = "implementation" THEN FALSE
              ELSE @ \/ s = "completed"]
        /\ prNew' = [prNew EXCEPT ![r] =
              IF begins THEN pr[r] # "none" /\ l \notin sawPr ELSE @]
    /\ stored' = stored \cup {l}
    /\ Landed(l)
    /\ UNCHANGED <<schedVars, grant, held, leaseByRun, cancelIntents, claiming,
                   finishing, running, aborted, claimed, stage, wireVars, pr, sawPr,
                   histVars>>

\* #applyRunComplete, once the writes ahead of it have drained.
ApplyRunComplete(l) ==
    /\ ~driving /\ admitted[l] > 0 /\ l \notin finishing
    /\ Head(reports[l]).type = "run-complete"
    /\ LET o == Head(reports[l]).status IN
        /\ status' = [status EXCEPT ![RunOf(l)] = o]
        /\ result' = [result EXCEPT ![RunOf(l)] =
              o = "completed" \/ (grant[l].kind = "follow-up" /\ grant[l].pr)]
    /\ finishing' = finishing \cup {l}
    /\ UNCHANGED <<schedVars, bookVars, admitted, workerVars, wireVars, forgeVars,
                   histVars>>

\* The rest of #finishCompletion: acknowledge, settle, tell the scheduler.
FinishCompletion(l) ==
    /\ ~driving /\ l \in finishing
    /\ finishing' = finishing \ {l}
    /\ Landed(l)
    /\ IF l \in held
       THEN Settle({l})
       ELSE stored' = stored \cup {l} /\ UNCHANGED <<held, leaseByRun, cancelIntents>>
    /\ IF seen[WorkerOf(l)] THEN Send(WorkerOf(l), <<Msg("run-complete-ack", l)>>)
       ELSE UNCHANGED toWorker
    /\ resumeTimers' = IF status[RunOf(l)] = "waiting"
                       THEN resumeTimers \cup {RunOf(l)} ELSE resumeTimers
    /\ UNCHANGED queue
    /\ Drive
    /\ UNCHANGED <<storeVars, followUps, busy, lost, grant, claiming, running,
                   aborted, claimed, stage, seen, sock, toHost, forgeVars, histVars>>

-----------------------------------------------------------------------------
(* The worker daemon and its executions *)

ClaimedBy(w) == {l \in claimed : WorkerOf(l) = w}
RunningOn(w) == {l \in running : WorkerOf(l) = w}

\* What forgetLease leaves of a lease's reports: those the host took over.
Forgotten(l) == SubSeq(reports[l], 1, admitted[l])

\* RunReporter: a report joins the lease's replay buffer. What an execution says
\* after losing its lease goes into a fresh one, numbered from 1: a host that
\* still holds the lease takes it only if it has applied fewer frames.
Report(l, rep) ==
    \/ l \in claimed /\ reports' = [reports EXCEPT ![l] = Append(@, rep)]
    \/ l \notin claimed /\ UNCHANGED reports
    \/ l \in held \ claimed /\ reports' = [reports EXCEPT ![l] = Append(@, rep)]

\* openSocket: the register frame lists the leases claimed.
Dial(w) ==
    /\ sock[w] = "none"
    /\ sock' = [sock EXCEPT ![w] = "dialed"]
    /\ toHost' = [toHost EXCEPT ![w] = <<RegisterMsg(ClaimedBy(w))>>]
    /\ UNCHANGED <<storeVars, schedVars, bookVars, reportVars, workerVars, seen,
                   toWorker, forgeVars, histVars>>

Cut(w) ==
    /\ sock' = [sock EXCEPT ![w] = "none"]
    /\ toHost' = [toHost EXCEPT ![w] = <<>>]
    /\ toWorker' = [toWorker EXCEPT ![w] = <<>>]

\* The socket dies, with everything on it.
BreakSocket(w) ==
    /\ sock[w] # "none"
    /\ Spend("breaks", MaxBreaks)
    /\ Cut(w)
    /\ UNCHANGED <<storeVars, schedVars, bookVars, reportVars, workerVars, seen,
                   forgeVars, asked, wanted>>

\* The next frame from the host, when it is of this type.
Receives(w, type) ==
    /\ toWorker[w] # <<>>
    /\ Head(toWorker[w]).type = type
    /\ toWorker' = [toWorker EXCEPT ![w] = Tail(@)]
    /\ UNCHANGED <<storeVars, schedVars, bookVars, reportVars, seen, sock, forgeVars,
                   histVars>>

\* handleDispatch refuses a lease for want of a slot, or while an execution
\* of the same run has yet to end.
Refuses(w, l) ==
    \/ Cardinality(RunningOn(w)) >= Capacity
    \/ \E m \in RunningOn(w) : RunOf(m) = RunOf(l)

HandleDispatch(w) ==
    /\ Receives(w, "dispatch")
    /\ LET l == Head(toWorker[w]).lease IN
        IF Refuses(w, l)
        THEN /\ toHost' = [toHost EXCEPT ![w] = Append(@, Msg("dispatch-rejected", l))]
             /\ UNCHANGED workerVars
        ELSE /\ claimed' = claimed \cup {l}
             /\ running' = running \cup {l}
             /\ stage' = [stage EXCEPT ![l] = "started"]
             /\ UNCHANGED <<aborted, reports, toHost>>

\* A cancel for a lease that executes nothing here is stale.
HandleCancel(w) ==
    /\ Receives(w, "cancel")
    /\ aborted' = aborted \cup ({Head(toWorker[w]).lease} \cap running)
    /\ UNCHANGED <<running, claimed, stage, reports, toHost>>

\* onLeaseLost: the claim and the buffer go, the execution is aborted.
Abandon(l) ==
    /\ claimed' = claimed \ {l}
    /\ aborted' = aborted \cup ({l} \cap running)
    /\ reports' = [reports EXCEPT ![l] = Forgotten(l)]
    /\ UNCHANGED <<running, stage>>

HandleLeaseLost(w) ==
    /\ Receives(w, "lease-lost")
    /\ Abandon(Head(toWorker[w]).lease)
    /\ UNCHANGED toHost

HandleRunCompleteAck(w) ==
    /\ Receives(w, "run-complete-ack")
    /\ claimed' = claimed \ {Head(toWorker[w]).lease}
    /\ UNCHANGED <<running, aborted, stage, reports, toHost>>

\* sweepLeaseDeadlines: out of touch for longer than the host waits.
FenceSelf(l) ==
    /\ l \in claimed /\ sock[WorkerOf(l)] # "live"
    /\ admitted[l] = 0 /\ l \notin finishing
    /\ Spend("fences", MaxFences)
    /\ Abandon(l)
    /\ UNCHANGED <<storeVars, schedVars, bookVars, reportVars, wireVars, forgeVars,
                   asked, wanted>>

Executing(l, stages) == l \in running /\ stage[l] \in stages

\* beginAttempt, and the first status: "preparing". A follow-up dispatched
\* without a result to follow up on never gets here.
BeginAttempt(l) ==
    /\ Executing(l, {"started"})
    /\ grant[l].kind = "implementation" \/ grant[l].pr
    /\ stage' = [stage EXCEPT ![l] = "begun"]
    /\ sawPr' = IF pr[RunOf(l)] = "none" THEN sawPr \ {l} ELSE sawPr \cup {l}
    /\ Report(l, PatchReport("active"))
    /\ UNCHANGED <<storeVars, schedVars, bookVars, reportVars, running, aborted,
                   claimed, wireVars, pr, prNew, histVars>>

\* createPullRequest: a branch that has a pull request keeps it.
OpensPr(l, state) ==
    /\ pr' = [pr EXCEPT ![RunOf(l)] =
                IF @ = "none" \/ state = "ready" THEN state ELSE @]
    /\ prNew' = [prNew EXCEPT ![RunOf(l)] = @ \/ pr[RunOf(l)] = "none"]

\* checkpointImplementation: the work so far becomes a draft pull request.
Checkpoint(l) ==
    /\ Executing(l, {"begun"}) /\ l \notin aborted
    /\ grant[l].kind = "implementation"
    /\ stage' = [stage EXCEPT ![l] = "drafted"]
    /\ OpensPr(l, "draft")
    /\ UNCHANGED <<storeVars, schedVars, bookVars, reportVars, running, aborted,
                   claimed, reports, wireVars, sawPr, histVars>>

\* finalizeImplementation: reviewed, pushed, and ready for review.
FinalizePr(l) ==
    /\ Executing(l, {"begun", "drafted"}) /\ l \notin aborted
    /\ grant[l].kind = "implementation"
    /\ stage' = [stage EXCEPT ![l] = "finalized"]
    /\ OpensPr(l, "ready")
    /\ UNCHANGED <<storeVars, schedVars, bookVars, reportVars, running, aborted,
                   claimed, reports, wireVars, sawPr, histVars>>

\* How the execution of l may end from where it is. An abort that comes after
\* the last look at the signal changes nothing.
Endings(l) ==
    LET followUp == grant[l].kind = "follow-up"
        atTheEnd == stage[l] = "finalized" \/ (followUp /\ stage[l] = "begun")
    IN
    IF stage[l] = "started" THEN {"failed"}
    ELSE IF l \in aborted THEN {"cancelled"} \cup {o \in {"completed"} : atTheEnd}
    ELSE IF followUp THEN {"failed"} \cup (Outcomes \ {"waiting"})
    ELSE {o \in Outcomes : o = "completed" => atTheEnd}

\* The execution reports how it ended; its sandbox is still there.
Conclude(l, o) ==
    /\ \/ Executing(l, {"begun", "drafted", "finalized"})
       \/ Executing(l, {"started"}) /\ grant[l].kind = "follow-up" /\ ~grant[l].pr
    /\ o \in Endings(l)
    /\ stage' = [stage EXCEPT ![l] = o]
    /\ Report(l, PatchReport(o))
    /\ UNCHANGED <<storeVars, schedVars, bookVars, reportVars, running, aborted,
                   claimed, wireVars, forgeVars, histVars>>

\* finishRunSandbox is over: the slot is free and run-complete is sent.
SendComplete(l) ==
    /\ Executing(l, Terminal \cup {"waiting"})
    /\ running' = running \ {l}
    /\ aborted' = aborted \ {l}
    /\ stage' = [stage EXCEPT ![l] = "none"]
    /\ Report(l, CompleteReport(stage[l]))
    /\ UNCHANGED <<storeVars, schedVars, bookVars, reportVars, claimed, wireVars,
                   forgeVars, histVars>>

-----------------------------------------------------------------------------
(* Restarts *)

\* The worker process dies and starts again knowing no lease.
RestartWorker(w) ==
    /\ Spend("workerRestarts", MaxWorkerRestarts)
    /\ running' = running \ RunningOn(w)
    /\ aborted' = aborted \ RunningOn(w)
    /\ claimed' = claimed \ ClaimedBy(w)
    /\ stage' = [l \in Leases |-> IF l \in RunningOn(w) THEN "none" ELSE stage[l]]
    /\ reports' = [l \in Leases |->
                    IF l \in RunningOn(w) \cup ClaimedBy(w) THEN Forgotten(l)
                    ELSE reports[l]]
    /\ Cut(w)
    /\ UNCHANGED <<storeVars, schedVars, bookVars, reportVars, seen, forgeVars,
                   asked, wanted>>

\* restore: of the leases on disk, those whose run is still open.
Restored(S) == {l \in S : status[RunOf(l)] \notin Terminal}

\* planRunRecovery: a restored lease decides a run's fate before its status does.
Unleased(R, S) == {r \in R : \A l \in S : RunOf(l) # r}

\* stop, then restore, #recoverRuns and the rest of start, the stores flushed
\* but for the claims still being written. A worker keeps what it executes and
\* every report whose write had not landed.
RestartHost ==
    /\ Spend("hostRestarts", MaxHostRestarts)
    /\ \E torn \in SUBSET claiming :
        LET kept == Restored(stored \ torn)
            open == {r \in Runs : status[r] \notin Terminal \cup {"new", "waiting"}}
            free == Unleased(open, kept)
        IN
        /\ held' = kept
        /\ stored' = kept
        /\ \E byRun \in [Runs -> kept \cup {None}] :
            /\ \A r \in Runs : IF \E l \in kept : RunOf(l) = r
                               THEN byRun[r] \in kept /\ RunOf(byRun[r]) = r
                               ELSE byRun[r] = None
            /\ leaseByRun' = byRun
        /\ followUps' = {RunOf(l) : l \in {m \in kept : /\ RunOf(m) \in open
                                                        /\ grant[m].kind = "follow-up"}}
        /\ queue' \in SetToSeqs({r \in free : status[r] = "queued"})
        /\ lost' = {[run |-> r, kind |-> "implementation", by |-> None] :
                        r \in {q \in free : status[q] # "queued"}}
    /\ resumeTimers' = {r \in Runs : status[r] = "waiting"}
    /\ busy' = [r \in Runs |-> Free]
    /\ cancelIntents' = {} /\ claiming' = {} /\ finishing' = {}
    /\ admitted' = [l \in Leases |-> 0]
    /\ reports' = [l \in Leases |-> IF l \in claimed THEN reports[l] ELSE <<>>]
    /\ seen' = [w \in Workers |-> FALSE]
    /\ sock' = [w \in Workers |-> "none"]
    /\ toHost' = [w \in Workers |-> <<>>]
    /\ toWorker' = [w \in Workers |-> <<>>]
    /\ Drive
    /\ UNCHANGED <<storeVars, grant, running, aborted, claimed, stage, forgeVars,
                   asked, wanted>>

-----------------------------------------------------------------------------
Init ==
    /\ status = [r \in Runs |-> "new"] /\ result = [r \in Runs |-> FALSE]
    /\ queue = <<>> /\ followUps = {} /\ resumeTimers = {}
    /\ busy = [r \in Runs |-> Free] /\ lost = {} /\ driving = FALSE
    /\ grant = [l \in Leases |-> None]
    /\ held = {} /\ leaseByRun = [r \in Runs |-> None]
    /\ cancelIntents = {} /\ claiming = {} /\ stored = {}
    /\ admitted = [l \in Leases |-> 0] /\ finishing = {}
    /\ running = {} /\ aborted = {} /\ claimed = {}
    /\ stage = [l \in Leases |-> "none"] /\ reports = [l \in Leases |-> <<>>]
    /\ seen = [w \in Workers |-> FALSE] /\ sock = [w \in Workers |-> "none"]
    /\ toHost = [w \in Workers |-> <<>>] /\ toWorker = [w \in Workers |-> <<>>]
    /\ pr = [r \in Runs |-> "none"] /\ prNew = [r \in Runs |-> FALSE] /\ sawPr = {}
    /\ asked = [l \in Leases |-> "no"]
    /\ wanted = [r \in Runs |-> "implementation"]
    /\ spent = [what \in {"commands", "breaks", "hostRestarts", "workerRestarts",
                          "writeFailures", "fences"} |-> 0]

SchedulerStep(r) == Enqueue(r) \/ Adopt(r) \/ Requeue(r) \/ JoinQueue(r)
                    \/ FollowUpGranted(r) \/ FollowUpRefused(r) \/ Resume(r)
Command(r)    == Cancel(r) \/ Retry(r) \/ FollowUp(r)
HostStep(l)   == ClaimLands(l) \/ ExpireLease(l) \/ AdmitReport(l) \/ ApplyPatch(l)
                 \/ ApplyRunComplete(l) \/ FinishCompletion(l)
ConnectionStep(w) == HandleRegister(w) \/ HandleRejected(w) \/ HandleDisconnect(w)
DaemonStep(w) == Dial(w) \/ HandleDispatch(w) \/ HandleCancel(w)
                 \/ HandleLeaseLost(w) \/ HandleRunCompleteAck(w)
Execution(l)  == BeginAttempt(l) \/ Checkpoint(l) \/ FinalizePr(l)
                 \/ (\E o \in Statuses : Conclude(l, o)) \/ SendComplete(l)

Next ==
    \/ DispatchQueued \/ Redrive
    \/ \E x \in lost : BeginInterrupt(x)
    \/ \E r \in Runs : SchedulerStep(r) \/ Command(r)
    \/ \E l \in Leases : HostStep(l) \/ Execution(l) \/ FenceSelf(l) \/ ClaimFails(l)
    \/ \E w \in Workers : ConnectionStep(w) \/ DaemonStep(w) \/ BreakSocket(w)
                          \/ RestartWorker(w)
    \/ RestartHost

Spec == Init /\ [][Next]_vars

\* What the two processes' event loops, timers and reconnect loop do by
\* themselves, and an execution that ends: its steps have timeouts. Nothing is
\* assumed of users, faults, or a worker's or the sweep's deadlines.
FairSpec ==
    /\ Spec
    /\ WF_vars(DispatchQueued) /\ WF_vars(Redrive)
    /\ WF_vars(\E x \in lost : BeginInterrupt(x))
    /\ \A r \in Runs : WF_vars(Enqueue(r)) /\ WF_vars(Adopt(r) \/ Requeue(r))
                        /\ WF_vars(JoinQueue(r)) /\ WF_vars(Resume(r))
                        /\ WF_vars(FollowUpGranted(r) \/ FollowUpRefused(r))
    /\ \A l \in Leases : WF_vars(ClaimLands(l)) /\ WF_vars(AdmitReport(l))
                          /\ WF_vars(ApplyPatch(l) \/ ApplyRunComplete(l))
                          /\ WF_vars(FinishCompletion(l)) /\ WF_vars(Execution(l))
    /\ \A w \in Workers : WF_vars(ConnectionStep(w)) /\ WF_vars(DaemonStep(w))

-----------------------------------------------------------------------------
(* Properties *)

Reports == [type : {"run-patch"}, status : {"active", "waiting"} \cup Terminal]
           \cup [type : {"run-complete"}, status : {"waiting"} \cup Terminal]

\* Every variable ranges over what the code keeps there, and the registry's two
\* maps (workers.ts #leases and #leaseByRun) agree.
TypeOK ==
    /\ status \in [Runs -> Statuses] /\ result \in [Runs -> BOOLEAN]
    /\ queue \in Seq(Runs)
    /\ followUps \subseteq Runs /\ resumeTimers \subseteq Runs
    /\ busy \in [Runs -> [op : {"free", "adopting", "returning", "requeueing", "checking"},
                          by : Leases \cup {None}]]
    /\ lost \subseteq [run : Runs, kind : Kinds, by : Leases \cup {None}]
    /\ driving \in BOOLEAN
    /\ grant \in [Leases -> Grants \cup {None}]
    /\ held \cup claiming \cup stored \cup running \cup claimed \cup finishing
        \subseteq {l \in Leases : grant[l] # None}
    /\ cancelIntents \subseteq held /\ aborted \subseteq running
    /\ \A r \in Runs : leaseByRun[r] # None =>
        leaseByRun[r] \in held /\ RunOf(leaseByRun[r]) = r
    /\ \A l \in Leases : reports[l] \in Seq(Reports) /\ admitted[l] \in 0..Len(reports[l])
    /\ seen \in [Workers -> BOOLEAN]
    /\ sock \in [Workers -> {"none", "dialed", "live"}]
    /\ \A w \in Workers :
        /\ sock[w] = "live" => seen[w]
        /\ \A i \in DOMAIN toWorker[w] : WorkerOf(toWorker[w][i].lease) = w
        /\ sock[w] = "none" => toWorker[w] = <<>> /\ toHost[w] = <<>>
    /\ stage \in [Leases -> {"none", "started", "begun", "drafted", "finalized",
                             "waiting"} \cup Terminal]
    /\ pr \in [Runs -> {"none", "draft", "ready"}] /\ prNew \in [Runs -> BOOLEAN]
    /\ sawPr \subseteq Leases

\* A run is handed out once: no two leases the host holds are for one run, and
\* a queued run is nobody's (scheduler.ts planRunRecovery, #dispatchQueued).
HandedOutOnce ==
    /\ \A l, m \in held : RunOf(l) = RunOf(m) => l = m
    /\ \A r \in Runs : Contains(queue, r) /\ status[r] = "queued" => leaseByRun[r] = None

\* The frame m is on its way to w.
Carries(w, m) == \E i \in DOMAIN toWorker[w] : toWorker[w][i] = m

\* No dispatch of l is on its way to anybody.
Unsent(l) ==
    \A w \in Workers : \A i \in DOMAIN toWorker[w] : toWorker[w][i] # Msg("dispatch", l)

\* Nobody is sent a lease, or executes one the host still holds, that a crash
\* at this moment could erase (workers.ts dispatch: "Nobody may be executing a
\* run this host has no durable record of").
ExecutionsAreOnRecord ==
    \A l \in held :
        (l \in running \/ ~Unsent(l)) => l \in stored /\ l \notin claiming

\* Once its registration has been answered, a worker executes nothing the host
\* has given up on: it never knew, or is being told (#handleRegister's two
\* reconciliations, #expireLease, settling).
ConnectedExecutionsAreOwned ==
    \A l \in running \cap claimed :
        /\ sock[WorkerOf(l)] = "live" /\ l \notin aborted
        => l \in held \/ Carries(WorkerOf(l), Msg("lease-lost", l))

\* No run in flight is stranded: it is in the queue, or leased, or its lock's
\* holder is about to put it somewhere (scheduler.ts #onRunInterrupted: it "must
\* not strand the run "active" forever").
NoRunStranded ==
    \A r \in Runs : status[r] \in {"queued", "active"} =>
        \/ status[r] = "queued" /\ Contains(queue, r)
        \/ leaseByRun[r] # None
        \/ ~LockFree(r)

\* No late report moves a run: one that ended stays as it ended, unless a retry
\* or a follow-up, which hold its lock, brings it back (state.ts isTerminal's
\* users), and one in the queue stays queued until it is handed out or cancelled
\* (the scheduler's #dispatchQueued: "there is one place that decides what leaves
\* the queue and when").
NoLateReportMovesARun ==
    [][\A r \in Runs : status'[r] # status[r] =>
            /\ status[r] \in Terminal => busy'[r] = Busy("requeueing", None)
            /\ status[r] = "queued" /\ Contains(queue, r) /\ status'[r] # "queued"
                 => spent'.commands > spent.commands]_vars

\* A run that is queued comes to rest: it ends, or waits for a limit to lift
\* (the scheduler's #dispatchQueued: every change "funnels through" it).
QueuedRunsComeToRest ==
    \A r \in Runs : status[r] = "queued" ~> status[r] \in Terminal \cup {"waiting"}

\* A lease is given back, or its worker's room is lost for good (#settleLease).
LeasesAreGivenBack == \A l \in Leases : l \in held ~> l \notin held

\* Once the worker of a cancelled lease has read what it was sent, the execution
\* is being aborted, or over.
CancelsArrive(how) ==
    \A l \in held \cap running :
        /\ asked[l] = how /\ sock[WorkerOf(l)] = "live"
        /\ toWorker[WorkerOf(l)] = <<>>
        => l \in aborted \/ stage[l] \in Terminal \cup {"waiting"}

\* A cancel that was sent reaches the execution it is about (workers.ts cancel,
\* scheduler.ts cancelRun).
SentCancelsArrive == CancelsArrive("sent")

\* A cancel recorded for an absent worker is delivered when it is back (workers.ts
\* cancel, scheduler.ts cancelRun: "it will be delivered once the run's worker
\* reconnects").
PendingCancelsArrive == CancelsArrive("pending")

\* A lease is issued for the kind of work last asked for, a follow-up is never
\* rebuilt as a fresh implementation (#onRunRejected, #onRunInterrupted), and it
\* goes out with the pull request it follows up on (followUpRun: "the PR context
\* must survive").
LeasesAreAsAsked ==
    [][\A l \in claiming' \ claiming :
            /\ grant'[l].kind = wanted[grant'[l].run]
            /\ grant'[l].kind = "follow-up" => grant'[l].pr]_vars

\* A run is completed by adoption only when its work reached its end
\* (adoptableFromAttempt: "exactly the evidence that the dead worker got to the
\* end").
AdoptedWorkIsFinished ==
    [][\A r \in Runs : busy[r].op = "adopting" /\ status'[r] = "completed"
            => pr[r] = "ready"]_vars

-----------------------------------------------------------------------------
(* What ExecutionsAreOnRecord needs to be inductive *)

HostFrames == [type : {"dispatch", "cancel", "lease-lost", "run-complete-ack"},
               lease : Leases]
WorkerFrames == [type : {"register"}, leases : SUBSET Leases]
                \cup [type : {"dispatch-rejected"}, lease : Leases]

\* The sockets carry frames about leases, and one that is not live carries
\* nothing to its worker, and to the host at most the register frame.
SocketsOK ==
    /\ sock \in [Workers -> {"none", "dialed", "live"}]
    /\ toWorker \in [Workers -> Seq(HostFrames)]
    /\ toHost \in [Workers -> Seq(WorkerFrames)]
    /\ \A w \in Workers :
        /\ sock[w] # "live" => toWorker[w] = <<>>
        /\ sock[w] = "dialed" =>
            \E C \in SUBSET Leases : toHost[w] = <<RegisterMsg(C)>>

\* What the host holds is in its lease store; a lease whose claim is still
\* being written is nobody's yet.
RecordInv ==
    /\ SocketsOK
    /\ stored \cup claiming \cup running \cup claimed \subseteq Leases
    /\ leaseByRun \in [Runs -> Leases \cup {None}]
    /\ held \subseteq stored
    /\ \A l \in claiming : l \notin running /\ Unsent(l)

-----------------------------------------------------------------------------
(* What ConnectedExecutionsAreOwned and PendingCancelsArrive need *)

\* The scheduler's variables have their types.
SchedulerOK ==
    /\ status \in [Runs -> Statuses] /\ result \in [Runs -> BOOLEAN]
    /\ queue \in Seq(Runs) /\ driving \in BOOLEAN
    /\ followUps \subseteq Runs /\ resumeTimers \subseteq Runs
    /\ busy \in [Runs -> [op : {"free", "adopting", "returning", "requeueing", "checking"},
                          by : Leases \cup {None}]]
    /\ lost \subseteq [run : Runs, kind : Kinds, by : Leases \cup {None}]
    /\ pr \in [Runs -> {"none", "draft", "ready"}] /\ prNew \in [Runs -> BOOLEAN]
    /\ sawPr \subseteq Leases

\* So do the registry's and the workers', and whatever names a lease names one
\* that was issued.
BooksOK ==
    /\ grant \in [Leases -> Grants \cup {None}]
    /\ held \cup claiming \cup stored \cup running \cup claimed \cup finishing
        \subseteq {l \in Leases : grant[l] # None}
    /\ cancelIntents \subseteq held /\ aborted \subseteq running
    /\ \A r \in Runs : leaseByRun[r] # None =>
        leaseByRun[r] \in held /\ RunOf(leaseByRun[r]) = r

\* The workers' buffers hold reports on leases that were issued, and what was
\* taken over is at their start.
BuffersOK ==
    /\ reports \in [Leases -> Seq(Reports)] /\ admitted \in [Leases -> Nat]
    /\ \A l \in Leases : /\ admitted[l] <= Len(reports[l])
                         /\ reports[l] # <<>> => grant[l] # None
    /\ stage \in [Leases -> {"none", "started", "begun", "drafted", "finalized",
                             "waiting"} \cup Terminal]

\* A socket carries its own worker's leases, is known to the host once it is
\* live, and registers everything its worker claims.
LinesOK ==
    /\ seen \in [Workers -> BOOLEAN]
    /\ \A w \in Workers :
        /\ sock[w] = "live" => seen[w]
        /\ sock[w] = "none" => toHost[w] = <<>>
        /\ \A m \in HostFrames : Carries(w, m) =>
            grant[m.lease] # None /\ WorkerOf(m.lease) = w
        /\ sock[w] = "dialed" =>
            /\ ClaimedBy(w) \subseteq Head(toHost[w]).leases
            /\ \A l \in Head(toHost[w]).leases :
                l \notin claiming /\ grant[l] # None /\ WorkerOf(l) = w

\* A dispatch-rejected of l is on its way to the host.
Refused(l) ==
    \E w \in Workers : \E i \in DOMAIN toHost[w] :
        toHost[w][i] = Msg("dispatch-rejected", l)

\* No dispatch is on its way to w twice.
NoRepeat(w) ==
    \A i, j \in DOMAIN toWorker[w] :
        toWorker[w][i].type = "dispatch" /\ toWorker[w][i] = toWorker[w][j] => i = j

\* Nobody has begun l.
Fresh(l) == l \notin running \cup claimed /\ reports[l] = <<>>

\* A lease is dispatched once, and begun by that dispatch alone.
BegunOnce ==
    /\ \A l \in claiming : Fresh(l) /\ ~Refused(l)
    /\ \A l \in Leases : ~Unsent(l) => l \in held /\ Fresh(l) /\ ~Refused(l)
    /\ \A l \in Leases : Refused(l) => Fresh(l)
    /\ \A w \in Workers : NoRepeat(w)

\* A run-complete is the last word of an execution that is over.
LastWords ==
    /\ \A l \in Leases : \A i \in DOMAIN reports[l] :
        reports[l][i].type = "run-complete" => i = Len(reports[l]) /\ l \notin running
    /\ \A l \in finishing : admitted[l] > 0 /\ Head(reports[l]).type = "run-complete"

OwnershipInv ==
    /\ RecordInv /\ SchedulerOK /\ BooksOK /\ BuffersOK /\ LinesOK
    /\ BegunOnce /\ LastWords /\ ConnectedExecutionsAreOwned

\* Until the host restarts, a cancel recorded for an absent worker is kept for
\* as long as the lease, and is on the socket or carried out once it is back.
CancelsInv ==
    /\ asked \in [Leases -> {"no", "sent", "pending"}]
    /\ \A l \in held : asked[l] = "pending" =>
        /\ l \in cancelIntents
        /\ l \in claiming => ~seen[WorkerOf(l)]
        /\ l \in running /\ sock[WorkerOf(l)] = "live" =>
            \/ l \in aborted \/ stage[l] \in Terminal \cup {"waiting"}
            \/ Carries(WorkerOf(l), Msg("cancel", l))
    /\ \A l \in Leases : asked[l] = "pending" => Unsent(l)

-----------------------------------------------------------------------------
(* What HandedOutOnce and NoRunStranded need *)

\* The steps that break them are kept out: a registration settles no lease whose
\* reports are still being written (#handleRegister does not drain the chain), a
\* claim fails while its lease is held, and a run is brought back when no lease
\* is out for it.
Orderly ==
    /\ \A w \in Workers :
        HandleRegister(w) => \A l \in held \ held' : admitted[l] = 0
    /\ \A l \in Leases : ClaimFails(l) => l \in held
    /\ \A r \in Runs : Retry(r) \/ FollowUp(r) \/ Resume(r) => leaseByRun[r] = None

\* Run r is in one place: the queue, a lease, or what its lock's holder does with
\* it, who finds it as the action that took the lock left it; and a run in flight
\* is somewhere.
Placed(r) ==
    /\ Contains(queue, r) => status[r] = "queued" /\ leaseByRun[r] = None /\ LockFree(r)
    /\ leaseByRun[r] # None => LockFree(r)
    /\ leaseByRun[r] # None \/ ~LockFree(r) => status[r] # "new"
    /\ busy[r].op = "requeueing" => status[r] = "queued"
    /\ busy[r].op = "checking" => status[r] \in Terminal
    /\ status[r] \in {"queued", "active"} =>
        Contains(queue, r) \/ leaseByRun[r] # None \/ ~LockFree(r)

\* The claim, the dispatch or the refusal of l is on its way.
Coming(l) == l \in claiming \/ ~Unsent(l) \/ Refused(l)

\* A held lease is its run's only one, and the only one that moves it.
HeldOK ==
    /\ stored \subseteq held
    /\ \A l \in held :
        /\ leaseByRun[RunOf(l)] = l
        /\ Coming(l) => status[RunOf(l)] = "queued"
    /\ \A l \in Leases : admitted[l] > 0 => l \in held
    /\ \A l \in finishing : status[RunOf(l)] \in Terminal \cup {"waiting"}

PlaceInv ==
    /\ IsInjective(queue) /\ \A r \in Runs : Placed(r)
    /\ \A x \in lost : busy[x.run] = Free /\ \A y \in lost : x.run = y.run => x = y
    /\ HeldOK

-----------------------------------------------------------------------------
(* What NoLateReportMovesARun needs *)

\* Besides what Orderly keeps out: nobody cancels a run that waits while its
\* execution has yet to report that it is over, for #applyRunComplete would have
\* it waiting again.
Unhurried ==
    /\ Orderly
    /\ \A r \in Runs : Cancel(r) /\ status[r] = "waiting" => leaseByRun[r] = None

\* What an execution says of how it ends it says to the last.
OneEnding(l) ==
    /\ \A i, j \in DOMAIN reports[l] : i < j /\ reports[l][i].status # "active"
            => reports[l][j].status = reports[l][i].status
    /\ l \in running =>
            \A i \in DOMAIN reports[l] : reports[l][i].status \in {"active", stage[l]}

\* The run of a held lease is over only as its execution has it.
EndedAs(l) ==
    l \in held /\ status[RunOf(l)] \in Terminal =>
        /\ \A i \in DOMAIN reports[l] : reports[l][i].status = status[RunOf(l)]
        /\ l \in running => stage[l] = status[RunOf(l)]

\* A run that an interruption gives back is not over.
Unended(r) ==
    busy[r].op = "adopting" \/ (busy[r].op = "returning" /\ busy[r].by # None)
        => status[r] \notin Terminal

LateInv ==
    /\ \A l \in Leases : OneEnding(l) /\ EndedAs(l)
    /\ \A r \in Runs : Unended(r)
    /\ "commands" \in DOMAIN spent /\ spent.commands \in Nat

-----------------------------------------------------------------------------
(* What LeasesAreAsAsked needs *)

\* Besides what Orderly keeps out: no restart finds a follow-up under way. A queued
\* one loses its marker, and one that is restored with its lease keeps it for good
\* (#recoverRuns), through a later retry.
MarkersKept ==
    /\ Orderly
    /\ RestartHost =>
        \A r \in Runs : status[r] \in {"queued", "active"} => wanted[r] = "implementation"

\* And no follow-up is interrupted: #enqueueForAttempt clears its result.
Unbroken ==
    /\ MarkersKept
    /\ \A x \in lost' \ lost : x.kind = "implementation"

\* The marker of run r is there where a dispatch would read it, exactly if a
\* follow-up was asked for last, and nowhere else.
Marked(r) ==
    /\ status[r] = "new" => wanted[r] = "implementation"
    /\ Contains(queue, r) \/ busy[r].op \in {"requeueing", "returning"}
        => (r \in followUps <=> wanted[r] = "follow-up")
    /\ busy[r].op = "adopting" => wanted[r] = "implementation"
    /\ busy[r].op = "checking" => r \in followUps
    /\ r \in followUps =>
        Contains(queue, r) \/ busy[r].op \in {"checking", "requeueing", "returning"}

\* What a run was leased for is what it was last asked for.
KindInv ==
    /\ wanted \in [Runs -> Kinds]
    /\ \A r \in Runs : Marked(r)
    /\ \A x \in lost : x.kind = wanted[x.run]
    /\ \A l \in held : grant[l].kind = wanted[RunOf(l)]

\* Run r has the result that a follow-up under way follows up on.
Grounded(r) ==
    wanted[r] = "follow-up" =>
        /\ busy[r].op # "returning"
        /\ Contains(queue, r) \/ busy[r].op = "requeueing" => result[r]

\* A follow-up has the result it follows up on until it is begun.
ResultInv ==
    /\ \A r \in Runs : Grounded(r)
    /\ \A x \in lost : x.kind = "implementation"
    /\ \A l \in held : Coming(l) /\ grant[l].kind = "follow-up" => result[RunOf(l)]

=============================================================================
