------------------------------ MODULE LeaseFence ------------------------------
(***************************************************************************)
(* One lease against the clock: the host renews it on every heartbeat and  *)
(* reporting frame, pulls its deadline in when the worker's socket dies,   *)
(* arms a grace timer and a sweep (packages/orchestrator/src/workers.ts);  *)
(* the worker notes the deadline it was last told and stops the run by     *)
(* itself once that passes (packages/worker/src/connection.ts).            *)
(*                                                                         *)
(* Both ends read one clock: skew between the machines is left out. Timers *)
(* fire on time, and a sweep within its period of the deadline it looks    *)
(* for. While the network works, frames arrive before the clock moves on;  *)
(* while it stalls they may wait for as long as the socket lives.          *)
(***************************************************************************)
EXTENDS Integers, Sequences

CONSTANTS
    Heartbeat,     \* WORKER_HEARTBEAT_MS
    Budgets,       \* config.fleet, as records [timeout, grace]
    Sweep,         \* LEASE_SWEEP_MS and LEASE_DEADLINE_SWEEP_MS
    Horizon,       \* bound: the last instant considered
    MaxStalls,     \* bound: how often the network stops carrying frames
    MaxBoots,      \* bound: how often the host restarts
    MaxChanges     \* bound: how often the budget is changed in the settings

ASSUME FenceAssumption ==
    /\ {Heartbeat, Sweep, Horizon} \subseteq Nat \ {0}
    /\ {MaxStalls, MaxBoots, MaxChanges} \subseteq Nat
    /\ Budgets # {} /\ Budgets \subseteq [timeout : Nat \ {0}, grace : Nat \ {0}]
\* The schema's floor for heartbeatTimeoutSeconds is two heartbeats; more than one
\* is all that is needed here.
ASSUME BudgetAssumption == \A b \in Budgets : Heartbeat < b.timeout

VARIABLES
    now,
    budget,        \* config.fleet, read at every use
    hostUp,
    hostDue,       \* the lease's expiresAt; Never once it is settled
    goneAt,        \* when the host wrote the lease off
    graceDue,      \* the reconnect window's timer
    watchDue,      \* the heartbeat watchdog: the host has a socket
    workDue,       \* the worker's copy of expiresAt; Never once it gave up
    beatDue,       \* the next heartbeat: the worker has a socket
    network,       \* "ok" or "stalled"
    toHost,        \* heartbeats under way
    toWorker,      \* lease-acks (the deadline they carry) and lease-losts
    troubled,      \* (history) something has stalled, died or been reconfigured
    fenceSpent

hostFence   == <<hostUp, hostDue, goneAt, graceDue, watchDue>>
workFence   == <<workDue, beatDue>>
fenceVars   == <<now, budget, hostFence, workFence, network, toHost, toWorker,
                 troubled, fenceSpent>>

Never == -1
Lost  == 0            \* a lease-lost, among the deadlines lease-acks carry

FenceSpend(what, limit) ==
    /\ fenceSpent[what] < limit
    /\ fenceSpent' = [fenceSpent EXCEPT ![what] = @ + 1]

HostHolds  == hostDue # Never
Executing  == workDue # Never
HostSees   == watchDue # Never
WorkerSees == beatDue # Never

\* #leaseDeadline
FullDeadline == now + budget.timeout + budget.grace
\* #pullInLeaseDeadline, and what restore() gives a lease at boot
GraceDeadline == now + budget.grace

(* Slips (README, "Mutants"). *)
\* Renewed, forgetting the sum (FenceHolds).
RenewedForTheGrace == GraceDeadline
\* HeldUntil, counted from when the frame is read (FenceHolds).
HeldFromArrival(deadline) == deadline + (FullDeadline - now)

-----------------------------------------------------------------------------
(* The host *)

\* #renewLease, as the deadline it sets.
Renewed == FullDeadline

\* The heartbeat case of #handleMessage: watchdog, renewal, lease-ack.
HostHearsBeat ==
    /\ hostUp /\ HostSees /\ toHost > 0 /\ network = "ok"
    /\ toHost' = toHost - 1
    /\ watchDue' = now + budget.timeout
    /\ hostDue' = IF HostHolds THEN Renewed ELSE Never
    /\ toWorker' = IF HostHolds THEN Append(toWorker, Renewed) ELSE toWorker
    /\ UNCHANGED <<now, budget, hostUp, goneAt, graceDue, workFence, network,
                   troubled, fenceSpent>>

\* #leaseFor: a reporting frame renews the lease, and nothing is sent back.
HostHearsReport ==
    /\ hostUp /\ HostSees /\ HostHolds /\ Executing /\ WorkerSees
    /\ network = "ok"
    /\ hostDue' = Renewed
    /\ UNCHANGED <<now, budget, hostUp, goneAt, graceDue, watchDue, workFence,
                   network, toHost, toWorker, troubled, fenceSpent>>

\* #handleDisconnect: the deadline is pulled in and the grace timer armed.
HostLosesSocket ==
    /\ hostUp /\ HostSees
    /\ \/ watchDue <= now                      \* the watchdog terminates it
       \/ ~WorkerSees /\ network = "ok"        \* the worker's end is closed
       \/ network = "stalled"                  \* or the network breaks it
    /\ watchDue' = Never
    /\ hostDue' = IF HostHolds THEN GraceDeadline ELSE Never
    /\ graceDue' = IF HostHolds THEN GraceDeadline ELSE Never
    /\ toHost' = 0 /\ toWorker' = <<>>
    /\ UNCHANGED <<now, budget, hostUp, goneAt, workFence, network, troubled,
                   fenceSpent>>

\* #expireLease, by the grace timer or by #sweepExpiredLeases.
Expire ==
    /\ hostUp /\ HostHolds
    /\ hostDue <= now \/ (graceDue # Never /\ graceDue <= now)
    /\ hostDue' = Never /\ graceDue' = Never
    /\ goneAt' = now
    /\ UNCHANGED <<now, budget, hostUp, watchDue, workFence, network, toHost,
                   toWorker, troubled, fenceSpent>>

\* #handleRegister settles at once a lease the worker no longer claims.
Reclaims == HostHolds /\ ~Executing

\* The worker dials and registers: the grace timer is cleared, the lease
\* renewed and acknowledged if both ends still have it, declared lost if only
\* the worker does.
Reconnect ==
    /\ hostUp /\ ~HostSees /\ ~WorkerSees /\ network = "ok"
    /\ graceDue' = Never
    /\ watchDue' = now + budget.timeout
    /\ beatDue' = now + Heartbeat
    /\ IF Reclaims
       THEN hostDue' = Never /\ goneAt' = now
       ELSE hostDue' = (IF HostHolds THEN Renewed ELSE Never) /\ UNCHANGED goneAt
    /\ toWorker' = IF ~Executing THEN <<>>
                   ELSE <<IF HostHolds THEN Renewed ELSE Lost>>
    /\ UNCHANGED <<now, budget, hostUp, workDue, network, toHost, troubled,
                   fenceSpent>>

\* The process ends: its timers and sockets with it.
HostStops ==
    /\ hostUp /\ FenceSpend("boots", MaxBoots)
    /\ hostUp' = FALSE
    /\ watchDue' = Never /\ graceDue' = Never
    /\ toHost' = 0 /\ toWorker' = <<>>
    /\ troubled' = TRUE
    /\ UNCHANGED <<now, budget, hostDue, goneAt, workFence, network>>

\* restore(): a lease on disk gets a fresh reconnect deadline.
HostBoots ==
    /\ ~hostUp
    /\ hostUp' = TRUE
    /\ hostDue' = IF HostHolds THEN GraceDeadline ELSE Never
    /\ UNCHANGED <<now, budget, goneAt, graceDue, watchDue, workFence, network,
                   toHost, toWorker, troubled, fenceSpent>>

\* The operator saves other fleet settings.
ChangeBudget ==
    /\ FenceSpend("changes", MaxChanges)
    /\ budget' \in Budgets \ {budget}
    /\ troubled' = TRUE
    /\ UNCHANGED <<now, hostFence, workFence, network, toHost, toWorker>>

-----------------------------------------------------------------------------
(* The worker *)

\* startHeartbeat's interval
Beat ==
    /\ WorkerSees /\ beatDue <= now
    /\ beatDue' = now + Heartbeat
    /\ toHost' = IF HostSees THEN toHost + 1 ELSE toHost
    /\ UNCHANGED <<now, budget, hostFence, workDue, network, toWorker, troubled,
                   fenceSpent>>

\* The deadline in a lease-ack, as the worker notes it: the host's own instant.
HeldUntil(deadline) == deadline

\* A lease-ack moves the deadline of a lease the worker still has; a lease-lost
\* ends its execution.
WorkerHears ==
    /\ WorkerSees /\ HostSees /\ toWorker # <<>> /\ network = "ok"
    /\ toWorker' = Tail(toWorker)
    /\ workDue' = IF ~Executing \/ Head(toWorker) = Lost THEN Never
                  ELSE HeldUntil(Head(toWorker))
    /\ UNCHANGED <<now, budget, hostFence, beatDue, network, toHost, troubled,
                   fenceSpent>>

\* The "close" event: heartbeats stop; the lease and its deadline stay.
WorkerLosesSocket ==
    /\ WorkerSees
    /\ (~HostSees /\ network = "ok") \/ network = "stalled"
    /\ beatDue' = Never
    /\ toHost' = 0 /\ toWorker' = <<>>
    /\ UNCHANGED <<now, budget, hostFence, workDue, network, troubled, fenceSpent>>

\* sweepLeaseDeadlines: no word from the host, so the run is abandoned.
FenceSelf ==
    /\ Executing /\ workDue <= now
    /\ workDue' = Never
    /\ UNCHANGED <<now, budget, hostFence, beatDue, network, toHost, toWorker,
                   troubled, fenceSpent>>

-----------------------------------------------------------------------------
(* The world *)

Stall ==
    /\ network = "ok" /\ FenceSpend("stalls", MaxStalls)
    /\ network' = "stalled" /\ troubled' = TRUE
    /\ UNCHANGED <<now, budget, hostFence, workFence, toHost, toWorker>>

Heal ==
    /\ network = "stalled"
    /\ network' = "ok"
    /\ UNCHANGED <<now, budget, hostFence, workFence, toHost, toWorker, troubled,
                   fenceSpent>>

\* A timer that is due fires before the clock moves, a sweep at most Sweep
\* after what it looks for; a working network delivers.
Tick ==
    /\ now < Horizon
    /\ now' = now + 1
    /\ HostSees => now < watchDue
    /\ hostUp /\ graceDue # Never => now < graceDue
    /\ hostUp /\ HostHolds => now < hostDue + Sweep
    /\ WorkerSees => now < beatDue
    /\ Executing => now < workDue + Sweep
    /\ network = "ok" => /\ toHost = 0 /\ toWorker = <<>>
                         /\ HostSees <=> WorkerSees
    /\ UNCHANGED <<budget, hostFence, workFence, network, toHost, toWorker,
                   troubled, fenceSpent>>

\* A lease that was just dispatched over a live socket.
FenceInit ==
    /\ now = 1
    /\ budget \in Budgets
    /\ hostUp = TRUE
    /\ hostDue = FullDeadline /\ workDue = FullDeadline
    /\ goneAt = Never /\ graceDue = Never
    /\ watchDue = now + budget.timeout
    /\ beatDue = now + Heartbeat
    /\ network = "ok" /\ toHost = 0 /\ toWorker = <<>>
    /\ troubled = FALSE
    /\ fenceSpent = [w \in {"stalls", "boots", "changes"} |-> 0]

FenceHost == HostHearsBeat \/ HostHearsReport \/ HostLosesSocket \/ Expire
             \/ HostStops \/ HostBoots \/ ChangeBudget
FenceWorker == Beat \/ WorkerHears \/ WorkerLosesSocket \/ FenceSelf
FenceNext == FenceHost \/ FenceWorker \/ Reconnect \/ Stall \/ Heal \/ Tick

FenceSpec == FenceInit /\ [][FenceNext]_fenceVars

-----------------------------------------------------------------------------
(* Properties *)

Instants == 0..(Horizon + 100)

FenceTypeOK ==
    /\ now \in Instants /\ budget \in Budgets /\ hostUp \in BOOLEAN
    /\ {hostDue, goneAt, graceDue, watchDue, workDue, beatDue}
           \subseteq Instants \cup {Never}
    /\ network \in {"ok", "stalled"} /\ toHost \in Nat
    /\ toWorker \in Seq(Instants) /\ troubled \in BOOLEAN
    /\ fenceSpent \in [{"stalls", "boots", "changes"} -> Nat]

\* What a budget granted exceeds a grace window by.
Excess(granted, window) == granted.timeout + granted.grace - window.grace

\* A worker whose lease the host has written off has stopped, at the latest,
\* when the budget it was last granted runs out: whoever is handed the run next
\* shares its branch with it no longer than that (sweepLeaseDeadlines,
\* #pullInLeaseDeadline, restore).
OverlapIsBounded ==
    Executing /\ ~HostHolds =>
        \E b, c \in Budgets : now <= goneAt + Excess(b, c) + Sweep

\* While nothing stalls, dies or is reconfigured, neither end gives the lease or the
\* connection up, however the heartbeats, the renewals, the watchdog and the sweeps
\* fall (Lease: "a healthy lease is renewed long before it comes due"; config.ts:
\* no "ordinary event-loop or network jitter" is to "drop a perfectly healthy
\* worker").
HealthyLeaseIsKept ==
    ~troubled => HostHolds /\ Executing /\ HostSees /\ WorkerSees

\* The fence holds both ways: it ends what was given up, and nothing else.
FenceHolds == OverlapIsBounded /\ HealthyLeaseIsKept

\* The two ends never work on one lease the other has given up (connection.ts:
\* "the host has written the lease off and may already have given the run to
\* another worker. Stopping here is what keeps two workers off the same branch").
NeverBothAtWork == Executing => HostHolds

-----------------------------------------------------------------------------
(* What FenceHolds needs to be inductive *)

ClockInv ==
    /\ now \in Nat \ {0} /\ budget \in Budgets /\ toHost \in Nat
    /\ {hostDue, goneAt, graceDue, watchDue, workDue, beatDue} \subseteq Int
    /\ toWorker \in Seq(Int)
    /\ HostHolds \/ goneAt > 0
    /\ HostSees => graceDue = Never

\* Every deadline the worker goes by, or will once it hears of it.
Deadlines == ({workDue} \cup {toWorker[i] : i \in DOMAIN toWorker}) \ {Never}

\* What the budget of an instant t may have granted, and what lasts at least the
\* grace window of t.
GrantedAt(t, d)  == \E b \in Budgets : d <= t + b.timeout + b.grace
Outlasts(due, t) == \E c \in Budgets : t + c.grace <= due

\* While the host holds the lease, it goes on to hold it for the grace window of
\* the instant it granted any of those deadlines at, or longer.
Covered(d, t) == /\ GrantedAt(t, d) /\ Outlasts(hostDue, t)
                 /\ graceDue # Never => Outlasts(graceDue, t)
GrantInv == HostHolds => \A d \in Deadlines : \E t \in 1..now : Covered(d, t)

\* Once it has written it off, none of them is later than OverlapIsBounded says.
OverlapInv ==
    Executing /\ ~HostHolds => \A d \in Deadlines : \E b, c \in Budgets :
        d <= goneAt + Excess(b, c)

\* An untroubled beat is heard and answered in its instant: what both ends hold
\* was granted at the last beat, or at the one before while it is under way.
BeatHeard == toHost = 0 /\ toWorker = <<>>
CalmInv ==
    ~troubled =>
        /\ hostUp /\ network = "ok" /\ graceDue = Never
        /\ HostHolds /\ Executing /\ HostSees /\ WorkerSees
        /\ now <= beatDue /\ beatDue <= now + Heartbeat
        /\ ~BeatHeard => beatDue = now + Heartbeat
        /\ \A i \in DOMAIN toWorker : toWorker[i] = FullDeadline
        /\ LET heard == IF toHost = 0 THEN beatDue ELSE now
               told  == IF BeatHeard THEN beatDue ELSE now
           IN  /\ watchDue + Heartbeat >= heard + budget.timeout
               /\ hostDue + Heartbeat >= heard + budget.timeout + budget.grace
               /\ workDue + Heartbeat >= told + budget.timeout + budget.grace

FenceInv == ClockInv /\ GrantInv /\ OverlapInv /\ OverlapIsBounded /\ CalmInv

===============================================================================
