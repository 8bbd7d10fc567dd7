------------------------------ MODULE RetainedDisk ------------------------------
(***************************************************************************)
(* One run's retained disk: the host's record of it, its reap and resume   *)
(* timers, retries and follow-ups (packages/orchestrator/src/scheduler.ts),*)
(* interactive sessions on it (workers.ts openAttach, terminal.ts, and     *)
(* packages/worker/src/attach.ts), and the worker that executes and        *)
(* discards it (daemon.ts). A worker with room for a second lease may be    *)
(* sent a retry while the old attempt still tears its sandbox down.        *)
(*                                                                         *)
(* Leases, claims and the report stream are RunDispatch's and              *)
(* ReportChannel's; here a lease is an id and reports arrive in order.     *)
(* What a sandbox goes through inside an attempt is RunExecution's.        *)
(***************************************************************************)
EXTENDS Integers, Sequences, FiniteSets, SequencesExt

CONSTANTS
    Capacity,       \* leases the worker's advertised concurrency has room for
    MaxDiskAttempts, \* bound: leases handed out for the run
    MaxRetries,     \* bound: retries asked for
    MaxSessions,    \* bound: interactive sessions opened
    MaxBreaks       \* bound: times the worker's socket dies

ASSUME RetainedAssumption ==
    {Capacity, MaxDiskAttempts, MaxRetries, MaxSessions, MaxBreaks} \subseteq Nat

Attempts == 1..MaxDiskAttempts
Sessions == 1..MaxSessions

VARIABLES
    runState,     \* run.status at the host
    queued,       \* #queue includes the run
    followUp,     \* #followUps: "no", "checking" its pull request, "marked"
    retainedUntil,\* the record's sandbox.retainedUntil is set
    lapsed,       \* ... and has passed
    reapTimer, resumeTimer,
    held,         \* the run's leases at the registry
    kinds,        \* of the leases handed out, in order
    retries, opened,   \* retries and attach ids handed out
    attached,     \* #attachSessions
    online, breaks,
    toDaemon, toRegistry,
    active,       \* activeRuns: the execution, or Idle
    known,        \* knownRuns: "no", or the record's retention: "bare", "retained"
    removing,     \* discards tearing down
    tracked,      \* activeDiscards: the latest of them, or 0
    removals,     \* discards ever begun
    kept,         \* the disk is there
    shared,       \* attach.ts retained: [state, clients] of the shared boot
    tty           \* the worker's sessions

hostRecord == <<runState, queued, followUp, retainedUntil, lapsed>>
hostTimers == <<reapTimer, resumeTimer>>
hostLeases == <<held, kinds, retries>>
hostAttach == <<attached, opened>>
daemonVars == <<active, known>>
discardVars == <<removing, tracked, removals>>
attachVars  == <<shared, tty>>
linkVars == <<online, breaks>>
diskVars == <<hostRecord, hostTimers, hostLeases, hostAttach, linkVars, toDaemon, toRegistry,
              daemonVars, discardVars, kept, attachVars>>

Idle    == [phase |-> "idle"]
NoBoot  == [state |-> "none", clients |-> 0]
Finished == {"completed", "failed"}
DiskSettled  == Finished \cup {"waiting"}
Same     == "same"     \* a patch without a status

ToDaemon(m)   == toDaemon' = IF online THEN Append(toDaemon, m) ELSE toDaemon
ToRegistry(m) == toRegistry' = Append(toRegistry, m)   \* sent, or kept for the next socket

-----------------------------------------------------------------------------
(* The host: timers, discards, retries, follow-ups *)

\* #scheduleReap and #scheduleResume, for the status and retention given.
ReapArmed(retained)  == IF retained THEN "armed" ELSE "none"
ResumeArmed(status)  == IF status = "waiting" THEN "armed" ELSE "none"

\* #discardRetained: it consumes the reap timer first, and throws when the worker that
\* holds the disk is away.
DiscardThrows == retainedUntil /\ ~online
Discarded ==
    /\ retainedUntil' = FALSE /\ lapsed' = FALSE
    /\ IF retainedUntil THEN ToDaemon([type |-> "discard"]) ELSE UNCHANGED toDaemon

\* #enqueueForAttempt
Enqueued == runState' = "queued" /\ queued' = TRUE

\* #requeue, under the run's lock, which a follow-up holds while it asks GitHub.
Requeued ==
    /\ resumeTimer' = "none" /\ reapTimer' = "none"
    /\ \/ /\ ~DiscardThrows
          /\ Discarded /\ Enqueued
       \/ /\ DiscardThrows
          /\ UNCHANGED <<retainedUntil, lapsed, toDaemon, runState, queued>>
Unlocked == followUp # "checking"

RetryRun ==
    /\ Unlocked /\ runState \in {"failed", "waiting"} /\ retries < MaxRetries
    /\ retries' = retries + 1
    /\ Requeued
    /\ UNCHANGED <<followUp, held, kinds, toRegistry, kept>> /\ UNCHANGED hostAttach
    /\ UNCHANGED linkVars /\ UNCHANGED daemonVars /\ UNCHANGED discardVars /\ UNCHANGED attachVars

\* #tryResume, from its timer to its probe.
ResumeFires ==
    /\ resumeTimer = "armed"
    /\ resumeTimer' = IF runState = "waiting" THEN "probing" ELSE "none"
    /\ UNCHANGED <<reapTimer, toDaemon, toRegistry, kept>> /\ UNCHANGED hostRecord
    /\ UNCHANGED hostLeases /\ UNCHANGED hostAttach /\ UNCHANGED linkVars
    /\ UNCHANGED daemonVars /\ UNCHANGED discardVars /\ UNCHANGED attachVars

\* The probe answered: the run is requeued, or, still limited or the discard having
\* thrown, the timer is armed again.
Probed(ready) ==
    /\ resumeTimer = "probing" /\ Unlocked
    /\ \/ /\ runState = "waiting" /\ ready /\ ~DiscardThrows
          /\ Requeued
       \/ /\ runState = "waiting" /\ ~(ready /\ ~DiscardThrows)
          /\ resumeTimer' = "armed"
          /\ reapTimer' = IF ready THEN "none" ELSE reapTimer
          /\ UNCHANGED <<runState, queued, retainedUntil, lapsed, toDaemon>>
       \/ /\ runState # "waiting"
          /\ resumeTimer' = "none"
          /\ UNCHANGED <<reapTimer, runState, queued, retainedUntil, lapsed, toDaemon>>
    /\ UNCHANGED <<followUp, toRegistry, kept>> /\ UNCHANGED hostLeases /\ UNCHANGED hostAttach
    /\ UNCHANGED linkVars /\ UNCHANGED daemonVars /\ UNCHANGED discardVars /\ UNCHANGED attachVars

\* Retention is at least as long as an attempt (sandbox.retentionHours, 24, against
\* timeoutMinutes, 240): a window ends only between attempts.
Lapse ==
    /\ retainedUntil /\ ~lapsed /\ held = {} /\ active = Idle
    /\ lapsed' = TRUE
    /\ UNCHANGED <<runState, queued, followUp, retainedUntil, toDaemon, toRegistry, kept>>
    /\ UNCHANGED hostTimers /\ UNCHANGED hostLeases /\ UNCHANGED hostAttach /\ UNCHANGED linkVars
    /\ UNCHANGED daemonVars /\ UNCHANGED discardVars /\ UNCHANGED attachVars

\* #maybeReap: a failed reap is tried again.
MaybeReap ==
    /\ reapTimer = "armed" /\ (lapsed \/ ~retainedUntil)
    /\ \/ /\ ~DiscardThrows
          /\ Discarded /\ reapTimer' = "none"
       \/ /\ DiscardThrows
          /\ UNCHANGED <<retainedUntil, lapsed, toDaemon, reapTimer>>
    /\ UNCHANGED <<runState, queued, followUp, resumeTimer, toRegistry, kept>>
    /\ UNCHANGED hostLeases /\ UNCHANGED hostAttach
    /\ UNCHANGED linkVars /\ UNCHANGED daemonVars /\ UNCHANGED discardVars /\ UNCHANGED attachVars

\* Mutant: a session attached to the disk does not stand in a follow-up's way.
DiskIsFreeAnyway == TRUE

DiskIsFree == attached = {}

\* #followUpRunLocked reserves the run, asks GitHub, and checks again.
FollowUpRun ==
    /\ followUp = "no" /\ runState \in Finished /\ DiskIsFree
    /\ followUp' = "checking"
    /\ UNCHANGED <<runState, queued, retainedUntil, lapsed, toDaemon, toRegistry, kept>>
    /\ UNCHANGED hostTimers /\ UNCHANGED hostLeases /\ UNCHANGED hostAttach /\ UNCHANGED linkVars
    /\ UNCHANGED daemonVars /\ UNCHANGED discardVars /\ UNCHANGED attachVars

FollowUpChecked(open) ==
    /\ followUp = "checking"
    /\ \/ /\ open /\ runState \in Finished /\ DiskIsFree
          /\ reapTimer' = "none" /\ Enqueued /\ followUp' = "marked"
       \/ /\ ~(open /\ runState \in Finished /\ DiskIsFree)
          /\ reapTimer' = ReapArmed(retainedUntil) /\ followUp' = "no"
          /\ UNCHANGED <<runState, queued>>
    /\ UNCHANGED <<resumeTimer, retainedUntil, lapsed, toDaemon, toRegistry, kept>>
    /\ UNCHANGED hostLeases /\ UNCHANGED hostAttach /\ UNCHANGED linkVars
    /\ UNCHANGED daemonVars /\ UNCHANGED discardVars /\ UNCHANGED attachVars

\* #dispatchQueued; a run that is no longer queued falls out of the queue.
DispatchQueued ==
    /\ queued /\ online
    /\ queued' = FALSE
    /\ \/ /\ runState = "queued" /\ Len(kinds) < MaxDiskAttempts /\ Cardinality(held) < Capacity
          /\ kinds' = Append(kinds, IF followUp # "no" THEN "follow-up" ELSE "implementation")
          /\ held' = held \cup {Len(kinds')}
          /\ followUp' = IF followUp = "marked" THEN "no" ELSE followUp
          /\ ToDaemon([type |-> "dispatch", lease |-> Len(kinds'), retained |-> retainedUntil])
       \/ /\ runState # "queued"
          /\ UNCHANGED <<held, kinds, followUp, toDaemon>>
    /\ UNCHANGED <<runState, retainedUntil, lapsed, retries, toRegistry, kept>>
    /\ UNCHANGED hostTimers /\ UNCHANGED hostAttach /\ UNCHANGED linkVars
    /\ UNCHANGED daemonVars /\ UNCHANGED discardVars /\ UNCHANGED attachVars

\* A frame of a lease the registry no longer holds is refused (#leaseFor).
Report(type) == toRegistry # <<>> /\ online /\ Head(toRegistry).type = type
Leased == Head(toRegistry).lease \in held

ApplyRunPatch ==
    /\ Report("run-patch")
    /\ LET m == Head(toRegistry) IN
       /\ runState' = IF Leased /\ m.status # Same THEN m.status ELSE runState
       /\ retainedUntil' = (retainedUntil \/ (Leased /\ m.retained))
       /\ lapsed' = (lapsed /\ ~(Leased /\ m.retained))
    /\ toRegistry' = Tail(toRegistry)
    /\ UNCHANGED <<queued, followUp, toDaemon, kept>> /\ UNCHANGED hostTimers
    /\ UNCHANGED hostLeases /\ UNCHANGED hostAttach /\ UNCHANGED linkVars
    /\ UNCHANGED daemonVars /\ UNCHANGED discardVars /\ UNCHANGED attachVars

\* #applyRunComplete, and #onRunSettled behind it.
ApplyRunComplete ==
    /\ Report("run-complete")
    /\ LET m == Head(toRegistry) IN
       \/ /\ Leased
          /\ runState' = m.status /\ held' = held \ {m.lease}
          /\ reapTimer' = ReapArmed(retainedUntil) /\ resumeTimer' = ResumeArmed(m.status)
       \/ /\ ~Leased
          /\ UNCHANGED <<runState, held, reapTimer, resumeTimer>>
    /\ toRegistry' = Tail(toRegistry)
    /\ UNCHANGED <<queued, followUp, retainedUntil, lapsed, kinds, retries, toDaemon, kept>>
    /\ UNCHANGED hostAttach /\ UNCHANGED linkVars
    /\ UNCHANGED daemonVars /\ UNCHANGED discardVars /\ UNCHANGED attachVars

OnRunRejected ==
    /\ Report("dispatch-rejected")
    /\ LET m == Head(toRegistry) IN
       /\ held' = held \ {m.lease}
       /\ queued' = (queued \/ (Leased /\ runState = "queued"))
       /\ followUp' = IF Leased /\ kinds[m.lease] = "follow-up" THEN "marked" ELSE followUp
    /\ toRegistry' = Tail(toRegistry)
    /\ UNCHANGED <<runState, retainedUntil, lapsed, kinds, retries, toDaemon, kept>>
    /\ UNCHANGED hostTimers /\ UNCHANGED hostAttach /\ UNCHANGED linkVars
    /\ UNCHANGED daemonVars /\ UNCHANGED discardVars /\ UNCHANGED attachVars

\* resumeRun, and openAttach behind it.
OpenAttach ==
    /\ runState \in Finished /\ followUp = "no" /\ retainedUntil /\ ~lapsed
    /\ online /\ opened < MaxSessions
    /\ opened' = opened + 1 /\ attached' = attached \cup {opened + 1}
    /\ ToDaemon([type |-> "attach-open", id |-> opened + 1])
    /\ UNCHANGED <<toRegistry, kept>> /\ UNCHANGED hostRecord /\ UNCHANGED hostTimers
    /\ UNCHANGED hostLeases /\ UNCHANGED linkVars
    /\ UNCHANGED daemonVars /\ UNCHANGED discardVars /\ UNCHANGED attachVars

\* The terminal's socket closes: the session is forgotten whether or not its worker
\* can be told.
CloseAttach(i) ==
    /\ i \in attached
    /\ attached' = attached \ {i}
    /\ ToDaemon([type |-> "attach-close", id |-> i])
    /\ UNCHANGED <<opened, toRegistry, kept>> /\ UNCHANGED hostRecord /\ UNCHANGED hostTimers
    /\ UNCHANGED hostLeases /\ UNCHANGED linkVars
    /\ UNCHANGED daemonVars /\ UNCHANGED discardVars /\ UNCHANGED attachVars

ReceiveAttachFrame ==
    /\ toRegistry # <<>> /\ online /\ Head(toRegistry).type = "attach-over"
    /\ attached' = attached \ {Head(toRegistry).id}
    /\ toRegistry' = Tail(toRegistry)
    /\ UNCHANGED <<opened, toDaemon, kept>> /\ UNCHANGED hostRecord /\ UNCHANGED hostTimers
    /\ UNCHANGED hostLeases /\ UNCHANGED linkVars
    /\ UNCHANGED daemonVars /\ UNCHANGED discardVars /\ UNCHANGED attachVars

-----------------------------------------------------------------------------
(* The daemon *)

Got(type) == toDaemon # <<>> /\ Head(toDaemon).type = type
Taken     == toDaemon' = Tail(toDaemon)

\* The finished execution of the same run stands in the way until its promise settles.
HandleDispatch ==
    /\ Got("dispatch") /\ Taken
    /\ LET m == Head(toDaemon) IN
       \/ /\ active # Idle
          /\ ToRegistry([type |-> "dispatch-rejected", lease |-> m.lease])
          /\ UNCHANGED daemonVars
       \/ /\ active = Idle
          /\ active' = [phase |-> "accepted", lease |-> m.lease,
                        awaits |-> tracked, status |-> "active", retained |-> m.retained]
          /\ known' = IF m.retained THEN "retained" ELSE "bare"
          /\ UNCHANGED toRegistry
    /\ UNCHANGED kept /\ UNCHANGED hostRecord /\ UNCHANGED hostTimers /\ UNCHANGED hostLeases
    /\ UNCHANGED hostAttach /\ UNCHANGED linkVars /\ UNCHANGED discardVars /\ UNCHANGED attachVars

\* Mutant: the attempt checks out beside the removal of its own workspace.
DiscardIgnored == TRUE

\* The await of the discard found at the start.
DiscardAwaited == active.awaits \notin removing

BeginRun ==
    /\ active.phase = "accepted" /\ DiscardAwaited
    /\ active' = [active EXCEPT !.phase = "working"]
    /\ kept' = TRUE          \* rehydrated, or checked out afresh
    /\ ToRegistry([type |-> "run-patch", lease |-> active.lease, status |-> "active",
                   retained |-> FALSE])
    /\ UNCHANGED <<known, toDaemon>> /\ UNCHANGED hostRecord /\ UNCHANGED hostTimers
    /\ UNCHANGED hostLeases /\ UNCHANGED hostAttach /\ UNCHANGED linkVars
    /\ UNCHANGED discardVars /\ UNCHANGED attachVars

\* The attempt's outcome is reported before its sandbox is finished.
Conclude(status) ==
    /\ active.phase = "working"
    /\ active' = [active EXCEPT !.phase = "finishing", !.status = status]
    /\ ToRegistry([type |-> "run-patch", lease |-> active.lease, status |-> status,
                   retained |-> FALSE])
    /\ UNCHANGED <<known, toDaemon, kept>> /\ UNCHANGED hostRecord /\ UNCHANGED hostTimers
    /\ UNCHANGED hostLeases /\ UNCHANGED hostAttach /\ UNCHANGED linkVars
    /\ UNCHANGED discardVars /\ UNCHANGED attachVars

\* finishRunSandbox: the disk of a finished run is retained, any other destroyed.
FinishSandbox ==
    /\ active.phase = "finishing"
    /\ active' = [active EXCEPT !.phase = "reporting",
                                !.retained = @ \/ active.status \in Finished]
    /\ kept' = (kept /\ active.status \in Finished)
    /\ IF active.status \in Finished
       THEN ToRegistry([type |-> "run-patch", lease |-> active.lease, status |-> Same,
                        retained |-> TRUE])
       ELSE UNCHANGED toRegistry
    /\ UNCHANGED <<known, toDaemon>> /\ UNCHANGED hostRecord /\ UNCHANGED hostTimers
    /\ UNCHANGED hostLeases /\ UNCHANGED hostAttach /\ UNCHANGED linkVars
    /\ UNCHANGED discardVars /\ UNCHANGED attachVars

\* The finally of the execution.
CompleteRun ==
    /\ active.phase = "reporting"
    /\ active' = Idle
    /\ known' = IF active.retained THEN "retained" ELSE "bare"
    /\ ToRegistry([type |-> "run-complete", lease |-> active.lease, status |-> active.status])
    /\ UNCHANGED <<toDaemon, kept>> /\ UNCHANGED hostRecord /\ UNCHANGED hostTimers
    /\ UNCHANGED hostLeases /\ UNCHANGED hostAttach /\ UNCHANGED linkVars
    /\ UNCHANGED discardVars /\ UNCHANGED attachVars

HandleDiscard ==
    /\ Got("discard") /\ Taken
    /\ known' = "no"
    /\ removals' = removals + 1
    /\ removing' = removing \cup {removals + 1} /\ tracked' = removals + 1
    /\ UNCHANGED <<active, kept, toRegistry>> /\ UNCHANGED hostRecord /\ UNCHANGED hostTimers
    /\ UNCHANGED hostLeases /\ UNCHANGED hostAttach /\ UNCHANGED linkVars /\ UNCHANGED attachVars

Removed(d) ==
    /\ d \in removing
    /\ removing' = removing \ {d}
    /\ tracked' = IF tracked = d THEN 0 ELSE tracked
    /\ kept' = FALSE
    /\ UNCHANGED <<removals, toDaemon, toRegistry>> /\ UNCHANGED hostRecord
    /\ UNCHANGED hostTimers /\ UNCHANGED hostLeases /\ UNCHANGED hostAttach /\ UNCHANGED linkVars
    /\ UNCHANGED daemonVars /\ UNCHANGED attachVars

-----------------------------------------------------------------------------
(* Interactive sessions on the worker *)

\* open, to the await of the shared boot, which the first session starts.
AttachOpen ==
    /\ Got("attach-open") /\ Taken
    /\ LET i == Head(toDaemon).id IN
       \/ /\ known = "retained"
          /\ tty' = [tty EXCEPT ![i] = "booting"]
          /\ shared' = IF shared = NoBoot THEN [state |-> "pending", clients |-> 0] ELSE shared
          /\ UNCHANGED toRegistry
       \/ /\ known # "retained"
          /\ ToRegistry([type |-> "attach-over", id |-> i])
          /\ UNCHANGED attachVars
    /\ UNCHANGED kept /\ UNCHANGED hostRecord /\ UNCHANGED hostTimers /\ UNCHANGED hostLeases
    /\ UNCHANGED hostAttach /\ UNCHANGED linkVars /\ UNCHANGED daemonVars /\ UNCHANGED discardVars

\* releaseRun: the last client's release stops the compute.
Release(boot) ==
    IF boot.clients > 1 THEN [boot EXCEPT !.clients = @ - 1] ELSE NoBoot

\* The boot resolves for a session; one closed meanwhile gives its share straight back.
\* A session that finds another's boot gone was left the sandbox it awaited.
AttachBooted(i) ==
    /\ tty[i] \in {"booting", "closing"}
    /\ \/ /\ kept /\ tty[i] = "booting"
          /\ tty' = [tty EXCEPT ![i] = "live"]
          /\ shared' = IF shared = NoBoot THEN shared
                       ELSE [state |-> "up", clients |-> shared.clients + 1]
          /\ UNCHANGED toRegistry
       \/ /\ tty[i] = "closing"           \* released already: counted, never given back
          /\ tty' = [tty EXCEPT ![i] = "gone"]
          /\ shared' = IF shared = NoBoot \/ ~kept THEN shared
                       ELSE [state |-> "up", clients |-> shared.clients + 1]
          /\ UNCHANGED toRegistry
       \/ /\ ~kept /\ tty[i] = "booting"
          /\ tty' = [tty EXCEPT ![i] = "gone"]
          /\ shared' = IF shared.state = "pending" THEN NoBoot ELSE Release(shared)
          /\ ToRegistry([type |-> "attach-over", id |-> i])
    /\ UNCHANGED <<toDaemon, kept>> /\ UNCHANGED hostRecord /\ UNCHANGED hostTimers
    /\ UNCHANGED hostLeases /\ UNCHANGED hostAttach /\ UNCHANGED linkVars
    /\ UNCHANGED daemonVars /\ UNCHANGED discardVars

\* The terminal's program exits: the host is told, then usage is exported and the
\* share given back.
AttachExit(i) ==
    /\ tty[i] = "live"
    /\ tty' = [tty EXCEPT ![i] = "gone"]
    /\ shared' = Release(shared)
    /\ ToRegistry([type |-> "attach-over", id |-> i])
    /\ UNCHANGED <<toDaemon, kept>> /\ UNCHANGED hostRecord /\ UNCHANGED hostTimers
    /\ UNCHANGED hostLeases /\ UNCHANGED hostAttach /\ UNCHANGED linkVars
    /\ UNCHANGED daemonVars /\ UNCHANGED discardVars

AttachClose ==
    /\ Got("attach-close") /\ Taken
    /\ LET i == Head(toDaemon).id IN
       \/ /\ tty[i] \in {"booting", "live"}
          /\ tty' = [tty EXCEPT ![i] = IF tty[i] = "live" THEN "gone" ELSE "closing"]
          /\ shared' = Release(shared)
       \/ /\ tty[i] \notin {"booting", "live"}
          /\ UNCHANGED attachVars
    /\ UNCHANGED <<kept, toRegistry>> /\ UNCHANGED hostRecord /\ UNCHANGED hostTimers
    /\ UNCHANGED hostLeases /\ UNCHANGED hostAttach /\ UNCHANGED linkVars
    /\ UNCHANGED daemonVars /\ UNCHANGED discardVars

-----------------------------------------------------------------------------
(* The socket *)

Durable(m) == m.type \in {"run-patch", "run-complete"}

\* What the worker still has to say once its socket is gone.
Durables(frames) ==
    LET durable[i \in 0..Len(frames)] ==
          IF i = 0 THEN <<>>
          ELSE IF Durable(frames[i]) THEN Append(durable[i - 1], frames[i]) ELSE durable[i - 1]
    IN  durable[Len(frames)]

Break ==
    /\ online /\ breaks < MaxBreaks
    /\ online' = FALSE /\ breaks' = breaks + 1
    /\ toDaemon' = <<>> /\ toRegistry' = Durables(toRegistry)
    /\ UNCHANGED kept /\ UNCHANGED hostRecord /\ UNCHANGED hostTimers /\ UNCHANGED hostLeases
    /\ UNCHANGED hostAttach /\ UNCHANGED daemonVars /\ UNCHANGED discardVars /\ UNCHANGED attachVars

Claimed ==
    {active.lease : a \in {active} \ {Idle}}
      \cup {toRegistry[i].lease : i \in {j \in DOMAIN toRegistry : toRegistry[j].type = "run-complete"}}

\* Registration: leases whose dispatch was lost are expired, and their run interrupted.
Reconnect ==
    /\ ~online
    /\ online' = TRUE
    /\ held' = held \cap Claimed
    /\ IF held \subseteq Claimed \/ runState \in Finished
       THEN UNCHANGED <<hostRecord, hostTimers, toDaemon>>
       ELSE /\ resumeTimer' = "none" /\ reapTimer' = "none"
            /\ retainedUntil' = FALSE /\ lapsed' = FALSE
            /\ toDaemon' = IF retainedUntil THEN Append(toDaemon, [type |-> "discard"]) ELSE toDaemon
            /\ Enqueued
            /\ followUp' = IF \E l \in held \ Claimed : kinds[l] = "follow-up" THEN "marked" ELSE followUp
    /\ UNCHANGED <<breaks, kinds, retries, toRegistry, kept>> /\ UNCHANGED hostAttach
    /\ UNCHANGED daemonVars /\ UNCHANGED discardVars /\ UNCHANGED attachVars

-----------------------------------------------------------------------------
\* A run that failed and left its disk, and one that was never executed.
DiskInit ==
    /\ \/ /\ runState = "queued" /\ queued = TRUE /\ retainedUntil = FALSE
          /\ kept = FALSE /\ known = "no" /\ reapTimer = "none"
       \/ /\ runState \in Finished /\ queued = FALSE /\ retainedUntil = TRUE
          /\ kept = TRUE /\ known = "retained" /\ reapTimer = "armed"
    /\ followUp = "no" /\ lapsed = FALSE /\ resumeTimer = "none"
    /\ held = {} /\ kinds = <<>> /\ retries = 0 /\ opened = 0 /\ attached = {}
    /\ online = TRUE /\ breaks = 0 /\ toDaemon = <<>> /\ toRegistry = <<>>
    /\ active = Idle /\ removing = {} /\ tracked = 0 /\ removals = 0
    /\ shared = NoBoot /\ tty = [i \in Sessions |-> "none"]

DiskNext ==
    \/ RetryRun
    \/ ResumeFires
    \/ \E ready \in BOOLEAN : Probed(ready)
    \/ Lapse
    \/ MaybeReap
    \/ FollowUpRun
    \/ \E open \in BOOLEAN : FollowUpChecked(open)
    \/ DispatchQueued
    \/ ApplyRunPatch
    \/ ApplyRunComplete
    \/ OnRunRejected
    \/ OpenAttach
    \/ \E i \in Sessions : CloseAttach(i)
    \/ ReceiveAttachFrame
    \/ HandleDispatch
    \/ BeginRun
    \/ \E status \in DiskSettled : Conclude(status)
    \/ FinishSandbox
    \/ CompleteRun
    \/ HandleDiscard
    \/ \E d \in removing : Removed(d)
    \/ AttachOpen
    \/ \E i \in Sessions : AttachBooted(i) \/ AttachExit(i)
    \/ AttachClose
    \/ Break
    \/ Reconnect

DiskSpec == DiskInit /\ [][DiskNext]_diskVars

-----------------------------------------------------------------------------
(* Properties *)

DiskTypeOK ==
    /\ runState \in DiskSettled \cup {"queued", "active"} /\ followUp \in {"no", "checking", "marked"}
    /\ reapTimer \in {"none", "armed"} /\ resumeTimer \in {"none", "armed", "probing"}
    /\ held \subseteq Attempts /\ attached \subseteq Sessions
    /\ active.phase \in {"idle", "accepted", "working", "finishing", "reporting"}
    /\ tracked \in removing \cup {0}

\* No discard is under way in a workspace an attempt works in: the one sent before its
\* dispatch was waited for, and none reaches it later, however retries, reaps,
\* follow-ups and rejected dispatches follow each other (daemon.ts activeDiscards;
\* scheduler.ts #discardRetained waits for no answer).
NoDiscardUnderWork == active.phase = "working" => tracked = 0

\* The same of every removal, not only of the latest discard's: "A dispatch for a run
\* waits for its own discard first" (daemon.ts). A second discard replaces the first in
\* activeDiscards, and nobody waits for the first any more.
NoTeardownUnderWork == active.phase = "working" => removing = {}

\* A follow-up never works in a disk that an interactive session the host knows of is
\* attached to (scheduler.ts followUpRun's two checks and resumeRun's). A terminal that
\* closes while its worker is away leaves a session nobody knows of.
FollowUpsRespectSessions ==
    (active.phase = "working" /\ kinds[active.lease] = "follow-up") => \A i \in attached : tty[i] # "live"

\* A retained disk has one user at a time: neither a discard nor an interactive session
\* is at work in it under an attempt (the two above).
RetainedDiskHasOneUser == NoDiscardUnderWork /\ FollowUpsRespectSessions

\* Whatever waits is woken: a settled run that waits for its limit has a resume timer or
\* a probe out, and a settled run whose disk is retained has a reap timer, or the
\* credential-bearing disk would sit unreclaimed until the next restart
\* (scheduler.ts #maybeReap, #tryResume).
WaitersHaveATimer ==
    (held = {} /\ followUp = "no" /\ runState \in DiskSettled) =>
        /\ runState = "waiting" => resumeTimer # "none"
        /\ retainedUntil => reapTimer # "none"

-----------------------------------------------------------------------------
(* What RetainedDiskHasOneUser needs. It holds of a run that has one lease *)
(* at a time: always where its worker has room for one, and elsewhere when *)
(* nobody retries or follows up a run whose last attempt still tears its   *)
(* sandbox down.                                                           *)

OneLeaseAtATime == Capacity > 1 /\ held # {} => held' \subseteq held

DaemonFrames ==
    [type : {"dispatch"}, lease : Nat, retained : BOOLEAN]
      \cup [type : {"discard"}] \cup [type : {"attach-open", "attach-close"}, id : Nat]
RegistryFrames ==
    [type : {"run-patch"}, lease : Nat, status : DiskSettled \cup {"active", Same},
     retained : BOOLEAN]
      \cup [type : {"run-complete"}, lease : Nat, status : DiskSettled]
      \cup [type : {"attach-over"}, id : Nat]
Attempt ==
    [phase : {"accepted", "working", "finishing", "reporting"}, lease : Nat, awaits : Nat,
     status : DiskSettled \cup {"active"}, retained : BOOLEAN]

DiskShape ==
    /\ runState \in DiskSettled \cup {"queued", "active"}
    /\ followUp \in {"no", "checking", "marked"}
    /\ retainedUntil \in BOOLEAN /\ online \in BOOLEAN
    /\ kinds \in Seq({"follow-up", "implementation"})
    /\ toDaemon \in Seq(DaemonFrames) /\ toRegistry \in Seq(RegistryFrames)
    /\ active = Idle \/ active \in Attempt
    /\ opened \in Nat /\ removals \in Nat
    /\ removing \subseteq 1..removals /\ tracked \in removing \cup {0}

\* What is on the wire is of the last lease, and nothing is on its way to a daemon that
\* is away.
LastLease ==
    /\ \A i \in DOMAIN toDaemon : toDaemon[i].type = "dispatch" => toDaemon[i].lease = Len(kinds)
    /\ \A i \in DOMAIN toRegistry :
         toRegistry[i].type # "attach-over" => toRegistry[i].lease = Len(kinds)
    /\ ~online => toDaemon = <<>>

\* That lease is out as long as anything is left of it; its dispatch, its execution and
\* its completion exclude one another.
Says(type) == \E i \in DOMAIN toRegistry : toRegistry[i].type = type
Hears(type) == \E i \in DOMAIN toDaemon : toDaemon[i].type = type
OneLease ==
    /\ held \in {{}, {Len(kinds)}}
    /\ (active # Idle \/ Hears("dispatch") \/ Says("run-patch") \/ Says("run-complete"))
         => held = {Len(kinds)} /\ kinds # <<>>
    /\ active # Idle => active.lease = Len(kinds)
    /\ active # Idle => ~Hears("dispatch") /\ ~Says("run-complete")
    /\ Says("run-patch") => active # Idle \/ Says("run-complete")
    /\ Hears("dispatch") => ~Says("run-complete")
    /\ active # Idle /\ active.phase \notin {"accepted", "working"} => active.status \in DiskSettled

\* Reports of an attempt: that it has begun is the first, its completion the last.
IsBeginning(i) == toRegistry[i].type = "run-patch" /\ toRegistry[i].status = "active"
ReportsInOrder ==
    \A i, j \in DOMAIN toRegistry : i < j =>
      /\ toRegistry[i].type = "run-complete" => toRegistry[j].type = "attach-over"
      /\ IsBeginning(j) => toRegistry[i].type = "attach-over"
InOrder ==
    /\ ReportsInOrder
    /\ \A i \in DOMAIN toRegistry : IsBeginning(i) => runState \notin DiskSettled

\* A lease whose attempt has not come to its outcome: not begun, or lost with the
\* socket, or at work. The host waits for it, and nobody else has a hand on the disk.
Early ==
    /\ held # {} /\ ~Says("run-complete")
    /\ active = Idle \/ active.phase \in {"accepted", "working"}
Undisturbed ==
    /\ Early => /\ runState \in {"queued", "active"}
                /\ \A i \in DOMAIN toRegistry : toRegistry[i].type # "attach-over" => IsBeginning(i)
                /\ kinds[Len(kinds)] = "follow-up" => attached = {}
    /\ Early /\ active = Idle => runState = "queued"
    /\ active # Idle /\ active.phase = "accepted" => ~Says("run-patch")
    /\ runState \notin DiskSettled => reapTimer = "none" /\ followUp # "checking"
    /\ followUp = "marked" => attached = {}

\* Discards come before the dispatch they make room for, and are waited for.
DispatchIsLast ==
    \A i, j \in DOMAIN toDaemon :
      i < j /\ toDaemon[i].type = "dispatch" => toDaemon[j].type \notin {"dispatch", "discard"}
DiscardsFirst ==
    /\ DispatchIsLast
    /\ active # Idle /\ active.phase \in {"accepted", "working"} => ~Hears("discard")
    /\ active # Idle /\ active.phase = "accepted" => tracked \in {0, active.awaits}
    /\ active # Idle /\ active.phase = "working" => tracked = 0

DiskInv == DiskShape /\ LastLease /\ OneLease /\ InOrder /\ Undisturbed /\ DiscardsFirst
================================================================================
