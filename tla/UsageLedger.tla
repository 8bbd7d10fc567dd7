------------------------------ MODULE UsageLedger ------------------------------
(***************************************************************************)
(* What a run's agent executions cost, from three sources that disagree:   *)
(* the agent's own event stream (packages/worker/src/costs.ts), samples of *)
(* the session's transcript taken by ccusage beside it (ccusage.ts), and   *)
(* the transcript exported to the host's archive (usageSnapshot.ts,        *)
(* packages/orchestrator/src/ccusageArchive.ts). recordPendingCost         *)
(* (runner.ts) settles an execution; the run's cost list is the reporter's *)
(* (reporter.ts), which mirrors the host's RunStore (state.ts).            *)
(*                                                                         *)
(* Usage is counted in tokens per model, a token costs 1. The pricing      *)
(* table knows every model, the data bundled with ccusage only the main    *)
(* loop's: a subagent on a newer model is what an entry's gap filling is   *)
(* about.                                                                  *)
(***************************************************************************)
EXTENDS Integers, Sequences, FiniteSets, SequencesExt

CONSTANTS
    MaxTokens,          \* bound: tokens burned on one model by one execution
    MaxExecutions,      \* bound: agent executions in the run
    MaxReviews          \* codex passes that review the first of them side by side

ASSUME UsageAssumption ==
    {MaxTokens, MaxExecutions} \subseteq Nat \ {0} /\ MaxReviews \in Nat

Models == {"main", "subagent"}
Execs  == 1..MaxExecutions
Reviews == MaxExecutions + 1 .. MaxExecutions + MaxReviews
NoRows == [m \in Models |-> 0]
TokensOf(rows) == rows["main"] + rows["subagent"]

VARIABLES
    execution,     \* the execution in flight or last settled, 0 before the first
    pending,       \* pendingCostLabel: what of it is unsettled ("no", "live", "reading")
    session,       \* currentSessionId is known: the init event was seen
    cut,           \* the abort signal: every further exec in the sandbox fails
    burned,        \* the transcript of each execution's session, in tokens
    streamed,      \* claudeStreamAdapter's perModel
    result,        \* the modelUsage of the terminal "result" event, or NoRows
    stopped,       \* the sampler's flag
    inFlight,      \* the executions whose tick is out in the sandbox, with its rows
    latest,        \* latestRows
    costs,         \* run.costs
    interim,       \* #interimCostIndex: an index in costs, 0 for none
    frames,        \* run-usage-snapshot frames not acknowledged yet
    applied,       \* how many of them the host has applied
    archive,       \* tokens in the archive's files: a session's own transcript
                   \* ("main") and its subagents'
    reviews,       \* each codex pass of the review
    oldCli,        \* whose codex reports a cumulative total, not one per turn
    reported       \* (history) settled executions whose stream had reported usage

usageVars == <<execution, pending, session, cut, burned, streamed, result, stopped,
               inFlight, latest, costs, interim, frames, applied, archive, reviews,
               oldCli, reported>>
reviewVars  == <<reviews, oldCli>>
agentVars   == <<burned, streamed, result, session, reviewVars, reported>>
samplerVars == <<stopped, inFlight, latest>>
listVars    == <<costs, interim>>
archiveVars == <<frames, applied, archive>>

-----------------------------------------------------------------------------
(* Cost entries *)

\* estimateCost
Estimate(m, tokens) == tokens
\* parseCcusageSessions: a cost of 0 is how ccusage says it has no price.
Reported(usage) == [usage EXCEPT !["subagent"] = 0]

SumOf(price, rows) == MapThenSumSet(LAMBDA m : price[m], rows)

\* buildCostEntry rolls up one row per model that burned anything; a row without a
\* reported figure is priced from the table, and marks the entry as an estimate.
CostEntry(e, usage, cost) ==
    LET rows  == {m \in Models : usage[m] > 0}
        price == [m \in Models |-> IF cost[m] > 0 THEN cost[m] ELSE Estimate(m, usage[m])]
    IN  [execution |-> e, tokens |-> TokensOf(usage), costUsd |-> SumOf(price, rows),
         estimated |-> \E m \in rows : cost[m] = 0]

CcusageCostEntry(e, rows) == CostEntry(e, rows, Reported(rows))

\* usageCollector.snapshot: the result's split when it came, else the running totals,
\* which carry no price of their own.
StreamUsage == IF result # NoRows THEN result ELSE streamed
StreamEntry(e) ==
    IF result # NoRows THEN CostEntry(e, result, Reported(result))
    ELSE CostEntry(e, streamed, NoRows)

\* #upsertCost: the execution's own entry is replaced, a first one is appended.
Upserted(e, entry) ==
    IF interim[e] # 0 THEN [costs EXCEPT ![interim[e]] = entry] ELSE Append(costs, entry)
UpsertedIndex(e) == IF interim[e] # 0 THEN interim[e] ELSE Len(costs) + 1

-----------------------------------------------------------------------------
(* The execution and its sampler *)

UsageInit ==
    /\ execution = 0 /\ pending = "no" /\ session = FALSE /\ cut = FALSE
    /\ burned = [e \in Execs |-> NoRows] /\ streamed = NoRows /\ result = NoRows
    /\ stopped = TRUE /\ inFlight = <<>> /\ latest = NoRows
    /\ costs = <<>> /\ interim = [e \in Execs |-> 0]
    /\ frames = <<>> /\ applied = 0 /\ archive = [e \in Execs |-> NoRows]
    /\ reviews = [r \in Reviews |-> [at |-> "idle", burned |-> 0, seen |-> 0]]
    /\ oldCli = FALSE /\ reported = {}

\* Promise.all over the reviewers.
ReviewsOver == \A r \in Reviews : reviews[r].at \in {"idle", "done"}

\* runAgent names what is pending and starts a sampler before it runs the agent.
StartExecution ==
    /\ pending = "no" /\ ReviewsOver /\ ~cut /\ execution < MaxExecutions
    /\ execution' = execution + 1
    /\ pending' = "live"
    /\ session' = FALSE /\ streamed' = NoRows /\ result' = NoRows
    /\ stopped' = FALSE /\ latest' = NoRows
    /\ UNCHANGED <<cut, burned, inFlight, reviewVars, reported>> /\ UNCHANGED listVars /\ UNCHANGED archiveVars

ObserveInit ==
    /\ pending = "live" /\ ~session
    /\ session' = TRUE
    /\ UNCHANGED <<execution, pending, cut, burned, streamed, result, reviewVars, reported>>
    /\ UNCHANGED samplerVars /\ UNCHANGED listVars /\ UNCHANGED archiveVars

\* A turn: the transcript grows, and the stream carries it unless the agent is cut
\* before the event is flushed.
Burn(m, seen) ==
    /\ pending = "live" /\ session /\ ~cut /\ result = NoRows
    /\ burned[execution][m] < MaxTokens
    /\ burned' = [burned EXCEPT ![execution][m] = @ + 1]
    /\ streamed' = IF seen THEN [streamed EXCEPT ![m] = @ + 1] ELSE streamed
    /\ UNCHANGED <<execution, pending, cut, session, result, reviewVars, reported>>
    /\ UNCHANGED samplerVars /\ UNCHANGED listVars /\ UNCHANGED archiveVars

ObserveResult ==
    /\ pending = "live" /\ session /\ ~cut /\ result = NoRows
    /\ result' = burned[execution]
    /\ UNCHANGED <<execution, pending, cut, burned, streamed, session, reviewVars, reported>>
    /\ UNCHANGED samplerVars /\ UNCHANGED listVars /\ UNCHANGED archiveVars

\* tick: one sample at a time, none before the init event named the session.
Tick ==
    /\ ~stopped /\ ~cut /\ session /\ \A i \in DOMAIN inFlight : inFlight[i].execution # execution
    /\ inFlight' = Append(inFlight, [execution |-> execution, rows |-> burned[execution]])
    /\ UNCHANGED <<execution, pending, cut, stopped, latest>>
    /\ UNCHANGED agentVars /\ UNCHANGED listVars /\ UNCHANGED archiveVars

\* Mutant: a slow sample emits whatever happened meanwhile.
EmitsAlways(e) == TRUE

\* A sample's continuation, if its sampler is not stopped by then.
Emits(e) == ~stopped /\ e = execution

TickReturns(i) ==
    LET s == inFlight[i] IN
    /\ inFlight' = RemoveAt(inFlight, i)
    /\ \/ /\ ~cut /\ Emits(s.execution) /\ s.rows # NoRows
          /\ latest' = s.rows
          /\ costs' = Upserted(s.execution, CcusageCostEntry(s.execution, s.rows))
          /\ interim' = [interim EXCEPT ![s.execution] = UpsertedIndex(s.execution)]
       \/ /\ cut \/ ~Emits(s.execution) \/ s.rows = NoRows
          /\ UNCHANGED <<latest, costs, interim>>
    /\ UNCHANGED <<execution, pending, cut, stopped>>
    /\ UNCHANGED agentVars /\ UNCHANGED archiveVars

Cancel ==
    /\ ~cut /\ execution > 0
    /\ cut' = TRUE
    /\ UNCHANGED <<execution, pending>> /\ UNCHANGED agentVars
    /\ UNCHANGED samplerVars /\ UNCHANGED listVars /\ UNCHANGED archiveVars

-----------------------------------------------------------------------------
(* recordPendingCost *)

\* Up to the await of sampler.finalRead().
Settle ==
    /\ pending = "live"
    /\ pending' = "reading" /\ stopped' = TRUE
    /\ UNCHANGED <<execution, cut, inFlight, latest>>
    /\ UNCHANGED agentVars /\ UNCHANGED listVars /\ UNCHANGED archiveVars

\* What finalRead resolves to: a last sample, or the latest when the read fails.
FinalRows(ok) == IF ok /\ ~cut /\ session /\ burned[execution] # NoRows
                 THEN burned[execution] ELSE latest

\* minimizeClaudeSessionJsonl: of a transcript only its lines with token usage are left.
Minimized(e, p) == [session |-> e, transcript |-> p, tokens |-> burned[e][p]]

\* findSessionTranscripts: a session's own transcript and those of its subagents, each
\* one found once.
Transcripts(e) == {p \in Models : burned[e][p] > 0}

\* collectUsageSnapshots: what is neither unreadable nor too large to be sent.
Exported(e, parts) ==
    [i \in 1..Cardinality(parts) |-> Minimized(e, SetToSeq(parts)[i])]

\* The rest: ccusage's figure replaces the stream's, the final entry replaces the
\* interim one and its index is dropped, and the session is exported.
FinalReadReturns(ok) ==
    LET rows  == FinalRows(ok)
        known == rows # NoRows \/ StreamUsage # NoRows
        entry == IF rows # NoRows THEN CcusageCostEntry(execution, rows)
                 ELSE StreamEntry(execution)
    IN  /\ pending = "reading"
        /\ pending' = "no"
        /\ reported' = IF StreamUsage # NoRows THEN reported \cup {execution} ELSE reported
        /\ streamed' = NoRows /\ result' = NoRows /\ latest' = NoRows
        /\ costs' = IF known THEN Upserted(execution, entry) ELSE costs
        /\ interim' = IF known THEN [interim EXCEPT ![execution] = 0] ELSE interim
        /\ \E unusable \in {{}, Transcripts(execution)} :
              frames' = frames \o IF session
                                  THEN Exported(execution, Transcripts(execution) \ unusable)
                                  ELSE <<>>
        /\ UNCHANGED <<execution, session, cut, burned, stopped, inFlight, applied, archive,
                       reviewVars>>

-----------------------------------------------------------------------------
(* The host's archive *)

\* Mutant: a snapshot is appended to the transcript's file.
Appended(f) == [archive EXCEPT ![f.session][f.transcript] = @ + f.tokens]

\* CcusageArchive.save replaces the transcript's file.
Saved(f) == [archive EXCEPT ![f.session][f.transcript] = f.tokens]

\* #saveUsageSnapshot of the next admitted frame.
ApplyFrame ==
    /\ applied < Len(frames)
    /\ applied' = applied + 1
    /\ archive' = Saved(frames[applied + 1])
    /\ UNCHANGED <<execution, pending, cut, frames>>
    /\ UNCHANGED agentVars /\ UNCHANGED samplerVars /\ UNCHANGED listVars

AckFrames ==
    /\ applied > 0
    /\ frames' = SubSeq(frames, applied + 1, Len(frames)) /\ applied' = 0
    /\ UNCHANGED <<execution, pending, cut, archive>>
    /\ UNCHANGED agentVars /\ UNCHANGED samplerVars /\ UNCHANGED listVars

\* The host restarts with an older watermark: applied frames are replayed.
Replay ==
    /\ applied > 0 /\ applied' = 0
    /\ UNCHANGED <<execution, pending, cut, frames, archive>>
    /\ UNCHANGED agentVars /\ UNCHANGED samplerVars /\ UNCHANGED listVars

\* The run is over and its lease released; an attach session continues one of its
\* sessions in the retained sandbox and, as its terminal exits, exports every session
\* of the sandbox again, in frames that are lost when the worker is offline.
Reexport(e, m, delivered) ==
    /\ pending = "no" /\ ReviewsOver /\ frames = <<>> /\ e \in 1..execution
    /\ burned[e][m] < MaxTokens
    /\ burned' = [burned EXCEPT ![e][m] = @ + 1]
    /\ cut' = TRUE       \* no further execution
    /\ archive' = [x \in Execs |-> [p \in Models |->
                     IF p \in delivered THEN burned'[x][p] ELSE archive[x][p]]]
    /\ UNCHANGED <<execution, pending, session, streamed, result, frames, applied,
                   reviewVars, reported>>
    /\ UNCHANGED samplerVars /\ UNCHANGED listVars

-----------------------------------------------------------------------------
(* The review, after the first execution: a codex exec per angle, each with *)
(* its own collector.                                                       *)

\* Bound: the first execution had no subagent, its samples are in and its transcript is
\* archived.
StartReviews(old) ==
    /\ pending = "no" /\ execution = 1 /\ ~cut
    /\ burned[1]["subagent"] = 0 /\ frames = <<>> /\ inFlight = <<>>
    /\ \A r \in Reviews : reviews[r].at = "idle"
    /\ reviews' = [r \in Reviews |-> [reviews[r] EXCEPT !.at = "runs"]]
    /\ oldCli' = old
    /\ UNCHANGED <<execution, pending, cut, burned, streamed, result, session, reported>>
    /\ UNCHANGED samplerVars /\ UNCHANGED listVars /\ UNCHANGED archiveVars

\* codexStreamAdapter: a cumulative total replaces the last, a turn's is added.
Observed(r) == IF oldCli THEN reviews[r].burned + 1 ELSE reviews[r].seen + 1

\* A turn, whose event may be lost with the end of the process.
ReviewTurn(r, heard) ==
    /\ reviews[r].at = "runs" /\ ~cut /\ reviews[r].burned < MaxTokens
    /\ reviews' = [reviews EXCEPT ![r].burned = @ + 1,
                                  ![r].seen = IF heard THEN Observed(r) ELSE @]
    /\ UNCHANGED <<execution, pending, cut, burned, streamed, result, session, reported, oldCli>>
    /\ UNCHANGED samplerVars /\ UNCHANGED listVars /\ UNCHANGED archiveVars

ReviewExits(r) ==
    /\ reviews[r].at = "runs"
    /\ reviews' = [reviews EXCEPT ![r].at = "reading"]
    /\ UNCHANGED <<execution, pending, cut, burned, streamed, result, session, reported, oldCli>>
    /\ UNCHANGED samplerVars /\ UNCHANGED listVars /\ UNCHANGED archiveVars

\* A codex session of one model: a priced read is the execution's cost.
ReviewEntry(r, tokens) ==
    [execution |-> r, tokens |-> tokens, costUsd |-> Estimate("main", tokens),
     estimated |-> tokens = reviews[r].seen]

\* readCodexSessionUsage finds the session's rollout with a price for it, or the
\* stream's estimate stands; addCost appends.
ReviewRead(r, priced) ==
    LET tokens == IF priced THEN reviews[r].burned ELSE reviews[r].seen
    IN  /\ reviews[r].at = "reading"
        /\ priced => ~cut /\ reviews[r].burned > 0
        /\ reviews' = [reviews EXCEPT ![r].at = "done"]
        /\ costs' = IF tokens > 0 THEN Append(costs, ReviewEntry(r, tokens)) ELSE costs
        /\ UNCHANGED <<execution, pending, cut, burned, streamed, result, session,
                       oldCli, interim, reported>>
        /\ UNCHANGED samplerVars /\ UNCHANGED archiveVars

UsageNext ==
    \/ StartExecution
    \/ ObserveInit
    \/ \E m \in Models, seen \in BOOLEAN : Burn(m, seen)
    \/ ObserveResult
    \/ Tick
    \/ \E i \in DOMAIN inFlight : TickReturns(i)
    \/ Cancel
    \/ Settle
    \/ \E ok \in BOOLEAN : FinalReadReturns(ok)
    \/ ApplyFrame
    \/ AckFrames
    \/ Replay
    \/ \E e \in Execs, m \in Models, delivered \in {{}, Models} : Reexport(e, m, delivered)
    \/ \E old \in BOOLEAN : StartReviews(old)
    \/ \E r \in Reviews :
          \/ \E heard \in BOOLEAN : ReviewTurn(r, heard)
          \/ ReviewExits(r)
          \/ \E priced \in BOOLEAN : ReviewRead(r, priced)

UsageSpec == UsageInit /\ [][UsageNext]_usageVars

-----------------------------------------------------------------------------
(* Properties *)

UsageTypeOK ==
    /\ execution \in 0..MaxExecutions /\ pending \in {"no", "live", "reading"}
    /\ session \in BOOLEAN /\ cut \in BOOLEAN /\ stopped \in BOOLEAN
    /\ {streamed, result, latest} \cup {burned[e] : e \in Execs} \subseteq [Models -> 0..MaxTokens]
    /\ interim \in [Execs -> 0..Len(costs)]
    /\ applied \in 0..Len(frames)
    /\ archive \in [Execs -> [Models -> 0..MaxTokens]]
    /\ reviews \in [Reviews -> [at : {"idle", "runs", "reading", "done"},
                                burned : 0..MaxTokens, seen : 0..MaxTokens]]
    /\ oldCli \in BOOLEAN /\ reported \subseteq Execs

\* What an execution has really burned.
Spent(x) == IF x \in Reviews THEN reviews[x].burned ELSE TokensOf(burned[x])

\* Each agent execution and each pass of its review appears in the run's cost list
\* once, however samples, final reads and the passes beside one another interleave:
\* never twice, never with more than it burned, priced in full, and, when its stream
\* reported anything, not missing once it is settled; and no archived file holds more
\* than its transcript, however its snapshot is replayed or exported again (runner.ts
\* recordPendingCost, ccusage.ts startCcusageSampler, review.ts runCodexExec,
\* reporter.ts #upsertCost, ccusageArchive.ts save).
SpendIsCountedOnce ==
    /\ \A i, j \in DOMAIN costs : costs[i].execution = costs[j].execution => i = j
    /\ \A i \in DOMAIN costs :
          /\ costs[i].tokens <= Spent(costs[i].execution)
          /\ costs[i].costUsd = costs[i].tokens
    /\ \A e \in reported : \E i \in DOMAIN costs : costs[i].execution = e
    /\ \A r \in Reviews :
          reviews[r].at = "done" /\ reviews[r].seen > 0
              => \E i \in DOMAIN costs : costs[i].execution = r
    /\ \A e \in Execs, p \in Models : archive[e][p] <= burned[e][p]

-----------------------------------------------------------------------------
(* What SpendIsCountedOnce needs to be inductive *)

TokenRows == [Models -> Nat]
CostEntries == [execution : Execs \cup Reviews, tokens : Nat, costUsd : Nat, estimated : BOOLEAN]
Below(rows, of) == \A m \in Models : rows[m] <= of[m]
Samples == {s \in [execution : Execs, rows : TokenRows] : Below(s.rows, burned[s.execution])}
Snapshots == {f \in [session : Execs, transcript : Models, tokens : Nat] :
                f.tokens <= burned[f.session][f.transcript]}

\* What has been seen of an execution's tokens was burned by it; a sampler emits only
\* while its execution is in flight.
AgentOK ==
    /\ execution \in 0..MaxExecutions /\ pending \in {"no", "live", "reading"}
    /\ pending # "no" => execution # 0
    /\ pending # "live" => stopped = TRUE
    /\ burned \in [Execs -> TokenRows] /\ {streamed, result, latest} \subseteq TokenRows
    /\ pending # "no" => \A rows \in {streamed, result, latest} : Below(rows, burned[execution])
    /\ inFlight \in Seq(Samples)

\* A codex pass has heard of no more than it burned.
ReviewsOK ==
    /\ reviews \in [Reviews -> [at : {"idle", "runs", "reading", "done"}, burned : Nat, seen : Nat]]
    /\ \A r \in Reviews : reviews[r].seen <= reviews[r].burned

\* The entries of the executions so far and of the reviews that are done; the execution
\* in flight has one where interim says, and none when it says so.
CostsOK ==
    /\ costs \in Seq(CostEntries) /\ interim \in [Execs -> Nat] /\ reported \subseteq Execs
    /\ \A i, j \in DOMAIN costs : costs[i].execution = costs[j].execution => i = j
    /\ \A i \in DOMAIN costs :
          /\ costs[i].tokens <= Spent(costs[i].execution) /\ costs[i].costUsd = costs[i].tokens
          /\ costs[i].execution \in Execs => costs[i].execution <= execution
          /\ costs[i].execution \in Reviews => reviews[costs[i].execution].at = "done"
    /\ \A e \in Execs : interim[e] # 0 => interim[e] \in DOMAIN costs /\ costs[interim[e]].execution = e
    /\ pending # "no" /\ interim[execution] = 0 => \A i \in DOMAIN costs : costs[i].execution # execution
    /\ \A e \in reported : \E i \in DOMAIN costs : costs[i].execution = e
    /\ \A r \in Reviews : reviews[r].at = "done" /\ reviews[r].seen > 0
                             => \E i \in DOMAIN costs : costs[i].execution = r

\* No snapshot, on its way or archived, tells more than its transcript.
ArchiveOK ==
    /\ archive \in [Execs -> TokenRows] /\ applied \in 0..Len(frames)
    /\ \A e \in Execs : Below(archive[e], burned[e])
    /\ frames \in Seq(Snapshots)

LedgerInv == AgentOK /\ ReviewsOK /\ CostsOK /\ ArchiveOK
================================================================================
