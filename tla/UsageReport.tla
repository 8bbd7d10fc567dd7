----------------------------- MODULE UsageReport -----------------------------
(***************************************************************************)
(* GET /api/usage: what every machine's agents have spent, day by day. The *)
(* host reads its own transcripts and asks every other worker for its      *)
(* (packages/orchestrator/src/scheduler.ts and workers.ts,                 *)
(* packages/worker/src/daemon.ts, packages/integrations/src/machineUsage.ts, *)
(* packages/shared/src/usage.ts), the dashboard adds the machines up       *)
(* (apps/app/src/components/Usage.tsx).                                    *)
(*                                                                         *)
(* Costs stand for every figure of a day: tokens and the rows by model are *)
(* added the same way. There is one worker on the host's own machine (it is *)
(* local) and one elsewhere. A worker's connection is the number of its    *)
(* socket, 0 for none: `entered` is the one the registry holds, `line` the *)
(* one the worker is on, and they differ while a close or a registration is *)
(* on its way.                                                             *)
(***************************************************************************)
EXTENDS Naturals, FiniteSets, FiniteSetsExt

CONSTANTS Viewers,          \* the dashboard's places that show a report
          CalendarDays,
          Unreadable,       \* which sources a read may miss, as sets
          MaxCollections,   \* bound: collections
          MaxSpent,         \* bound: what is spent while they are under way
          MaxLines          \* bound: sockets of the worker elsewhere at a time

VARIABLES
  transcripts,   \* what the transcripts of a machine say: by source and day
  able,          \* the worker elsewhere knows the usage-report message
  entered, line,
  reading,       \* usage-reports the worker has heard, whose machine is being read
  outbox,        \* usage-report-results: in its generic queue or on the line
  requests,      \* #usageRequests
  cached,        \* #usageCache: which collection, and whether it is a minute old
  colls,         \* the collections
  viewers,       \* who shows the report: what is shown, what is waited for
  spending       \* what MaxSpent bounds

reportVars == << transcripts, able, entered, line, reading, outbox, requests,
                 cached, colls, viewers, spending >>

Workers == {"local", "away"}        \* the fleet; "host" is a row of its own
Disks == {"here", "there"}
TranscriptsAt(id) == IF id = "away" THEN "there" ELSE "here"
Sources == {"claude", "codex"}      \* grok is a third of the kind

ASSUME ReportAssumption == Unreadable \subseteq SUBSET Sources

Total(f, S) == MapThenSumSet(LAMBDA x : f[x], S)

-----------------------------------------------------------------------------
(* Reading a machine.                                                      *)

(* parseCcusageDaily: one row for every day with usage.                    *)
DailyReport(m, source) ==
  {[date |-> d, cost |-> transcripts[m][source][d]] :
     d \in {x \in CalendarDays : transcripts[m][source][x] > 0}}

(* mergeUsageDays: one row for every day, the sources' added up.           *)
MergeUsageDays(reports) ==
  LET rows == UNION {{[source |-> s, row |-> r] : r \in reports[s]} : s \in DOMAIN reports}
  IN {[date |-> d, cost |-> Total([x \in rows |-> x.row.cost], {x \in rows : x.row.date = d})] :
        d \in {x.row.date : x \in rows}}

(* readMachineUsage: a source that cannot be read degrades to an empty     *)
(* list; without ccusage there is nothing to read with, which the report   *)
(* says. A row keeps (for the property) which sources went missing.        *)
Errored == [days |-> {}, missing |-> Sources]

MachineUsage(m) ==
  {Errored} \cup
  {[days |-> MergeUsageDays([s \in Sources \ lost |-> DailyReport(m, s)]), missing |-> lost] :
     lost \in Unreadable}

AgentsSpend ==
  /\ spending < MaxSpent
  /\ spending' = spending + 1
  /\ \E m \in Disks, s \in Sources, d \in CalendarDays :
       transcripts' = [transcripts EXCEPT ![m][s][d] = @ + 1]
  /\ UNCHANGED << able, entered, line, reading, outbox, requests, cached,
                  colls, viewers >>

-----------------------------------------------------------------------------
(* The host: GET /api/usage.                                               *)

Collecting(c) == c \in DOMAIN colls /\ \E id \in colls[c].ids : id \notin colls[c].settled

(* The workers a collection asks: the host's read covers the local ones.   *)
EveryWorker == Workers
Remote == {w \in Workers : TranscriptsAt(w) # TranscriptsAt("host")}

(* #collectUsage: an offline worker and one that is too old are answered   *)
(* for at once. (The local worker would be read over a connection of its   *)
(* own; it is never asked.)                                                *)
CanTell(id) == IF id = "away" THEN entered # 0 /\ able ELSE TRUE

Collected(c) ==
  LET ids == {"host"} \cup Remote
      now == {id \in Remote : ~CanTell(id)}
      rows == [id \in ids |-> Errored]
  IN [ids |-> ids, settled |-> now, rows |-> rows, since |-> transcripts]

Load(v) ==
  /\ viewers[v].waits = 0
  /\ \/ /\ cached.fresh
        /\ viewers' = [viewers EXCEPT ![v].waits = cached.coll]
        /\ UNCHANGED << cached, colls, requests, reading >>
     \/ /\ ~cached.fresh /\ Cardinality(DOMAIN colls) < MaxCollections
        /\ LET c == Cardinality(DOMAIN colls) + 1
           IN /\ colls' = [x \in DOMAIN colls \cup {c} |->
                             IF x = c THEN Collected(c) ELSE colls[x]]
              /\ cached' = [coll |-> c, fresh |-> TRUE]
              /\ viewers' = [viewers EXCEPT ![v].waits = c]
              /\ IF entered # 0 /\ able
                 THEN /\ requests' = requests \cup {[id |-> c, worker |-> "away"]}
                      /\ \/ UNCHANGED reading     \* lost with its socket
                         \/ line = entered /\ reading' = reading \cup {c}
                 ELSE UNCHANGED << requests, reading >>
  /\ UNCHANGED << transcripts, able, entered, line, outbox, spending >>

MinutePasses ==
  /\ cached.fresh
  /\ cached' = [cached EXCEPT !.fresh = FALSE]
  /\ UNCHANGED << transcripts, able, entered, line, reading, outbox, requests,
                  colls, viewers, spending >>

RowSettled(c, id, row) ==
  [colls EXCEPT ![c].rows[id] = row, ![c].settled = @ \cup {id}]

(* The host's own disk, whichever rows the collection takes from it.       *)
HostRead(c, id) ==
  /\ id \in colls[c].ids \ colls[c].settled /\ id # "away"
  /\ \E row \in MachineUsage(TranscriptsAt(id)) : colls' = RowSettled(c, id, row)
  /\ UNCHANGED << transcripts, able, entered, line, reading, outbox, requests,
                  cached, viewers, spending >>

(* The report resolves, and reaches whoever waits for it.                  *)
LoadLands(v) ==
  /\ viewers[v].waits # 0 /\ ~Collecting(viewers[v].waits)
  /\ viewers' = [viewers EXCEPT ![v] = [shown |-> @.waits, waits |-> 0]]
  /\ UNCHANGED << transcripts, able, entered, line, reading, outbox, requests,
                  cached, colls, spending >>

(* The connection to the host fails: what was shown stays.                 *)
LoadFails(v) ==
  /\ viewers[v].waits # 0
  /\ viewers' = [viewers EXCEPT ![v].waits = 0]
  /\ UNCHANGED << transcripts, able, entered, line, reading, outbox, requests,
                  cached, colls, spending >>

(* requestUsage's timer.                                                   *)
TimesOut(r) ==
  /\ requests' = requests \ {r}
  /\ colls' = RowSettled(r.id, r.worker, Errored)
  /\ UNCHANGED << transcripts, able, entered, line, reading, outbox, cached,
                  viewers, spending >>

-----------------------------------------------------------------------------
(* The worker elsewhere, and its connection.                               *)

(* The daemon reads its machine for every request it hears. A failed read  *)
(* still answers; the answer waits in the generic queue, for this socket or *)
(* the next one that is registered.                                        *)
WorkerRead(id) ==
  /\ reading' = reading \ {id}
  /\ \E row \in MachineUsage("there") : outbox' = outbox \cup {[id |-> id, row |-> row]}
  /\ UNCHANGED << transcripts, able, entered, line, requests, cached, colls, viewers, spending >>

(* The request an answer settles: the one it names, if it still waits.     *)
FromItsWorker(msg) == {r \in requests : r.worker = "away"}
Awaited(msg) == {r \in requests : r.id = msg.id /\ r.worker = "away"}

HostHears(msg) ==
  /\ line # 0 /\ line = entered
  /\ outbox' = outbox \ {msg}
  /\ IF Awaited(msg) = {} THEN UNCHANGED << requests, colls >>
     ELSE \E r \in Awaited(msg) : requests' = requests \ {r}
                                  /\ colls' = RowSettled(r.id, r.worker, msg.row)
  /\ UNCHANGED << transcripts, able, entered, line, reading, cached, viewers, spending >>

(* The socket dies under the worker, and takes what was on it along.       *)
LineDies ==
  /\ line # 0
  /\ line' = 0
  /\ outbox' \in SUBSET outbox
  /\ UNCHANGED << transcripts, able, entered, reading, requests, cached, colls, viewers,
                  spending >>

(* The registry hears the close: its requests fail, unless a new socket of *)
(* the worker has replaced the one that closed.                            *)
EntryCloses ==
  /\ entered # 0 /\ line # entered
  /\ entered' = 0
  /\ colls' = [c \in DOMAIN colls |->
                 IF \E r \in requests : r.id = c
                 THEN [colls[c] EXCEPT !.rows["away"] = Errored, !.settled = @ \cup {"away"}]
                 ELSE colls[c]]
  /\ requests' = {}
  /\ UNCHANGED << transcripts, able, line, reading, outbox, cached, viewers,
                  spending >>

(* It registers again, on a socket of a higher number: what it was asked on *)
(* the old one waits for its timer.                                        *)
LineReturns ==
  /\ line = 0 /\ entered < MaxLines
  /\ entered' = entered + 1 /\ line' = entered + 1
  /\ UNCHANGED << transcripts, able, reading, outbox, requests, cached, colls,
                  viewers, spending >>

-----------------------------------------------------------------------------
ReportInit ==
  /\ transcripts = [m \in Disks |-> [s \in Sources |-> [d \in CalendarDays |-> 1]]]
  /\ able \in BOOLEAN
  /\ entered = 1 /\ line = 1
  /\ reading = {} /\ outbox = {} /\ requests = {}
  /\ cached = [coll |-> 0, fresh |-> FALSE]
  /\ colls = << >>
  /\ viewers = [v \in Viewers |-> [shown |-> 0, waits |-> 0]]
  /\ spending = 0

ReportNext ==
  \/ AgentsSpend \/ MinutePasses \/ LineDies \/ EntryCloses \/ LineReturns
  \/ \E v \in Viewers : Load(v) \/ LoadLands(v) \/ LoadFails(v)
  \/ \E c \in DOMAIN colls : \E id \in colls[c].ids : HostRead(c, id)
  \/ \E r \in requests : TimesOut(r)
  \/ \E id \in reading : WorkerRead(id)
  \/ \E msg \in outbox : HostHears(msg)

ReportSpec == ReportInit /\ [][ReportNext]_reportVars

-----------------------------------------------------------------------------
(* The page.                                                               *)

(* A machine's day in the chart and in the table below it: the one row of  *)
(* that date (byDate is a Map).                                            *)
ByDate(row, d) ==
  IF \E r \in row.days : r.date = d THEN (CHOOSE r \in row.days : r.date = d).cost ELSE 0

(* A day's cost on a disk, over the rows the report has of it.             *)
Column(report, m, d) ==
  Total([id \in report.ids |-> ByDate(report.rows[id], d)],
        {id \in report.ids : TranscriptsAt(id) = m})

Truth(ledger, m, d) == Total([s \in Sources |-> ledger[m][s][d]], Sources)

(* What the page shows of a machine is what its agents spent, once: never  *)
(* more than its transcripts say, and, where a machine answered in full, no *)
(* less than they said when the report was asked for. A late answer to an  *)
(* earlier report, a worker on the host's own machine, a replaced socket   *)
(* and sources that share a day change nothing of it.                      *)
SpendIsReportedOnce ==
  \A v \in Viewers : viewers[v].shown # 0 =>
    LET report == colls[viewers[v].shown]
    IN \A m \in Disks, d \in CalendarDays :
         /\ Column(report, m, d) <= Truth(transcripts, m, d)
         /\ (\E id \in report.ids : TranscriptsAt(id) = m /\ report.rows[id].missing = {})
              => Column(report, m, d) >= Truth(report.since, m, d)

(* Not so in the code: a request whose socket was replaced before the old  *)
(* one was seen to close is not settled by that close. Nothing but its     *)
(* timer ends it, and the report waits that long for a worker that no      *)
(* longer knows of it.                                                     *)
RequestsAreOnTheLine ==
  \A r \in requests :
    r.id \in reading \/ (\E msg \in outbox : msg.id = r.id) \/ entered # line

-----------------------------------------------------------------------------
(* What SpendIsReportedOnce needs to be inductive                          *)

Ledgers == [Disks -> [Sources -> [CalendarDays -> Nat]]]
Reports == [days : SUBSET [date : CalendarDays, cost : Nat], missing : SUBSET Sources]
Asked == {"host", "away"}
Collections == [ids : {Asked}, settled : SUBSET Asked, rows : [Asked -> Reports],
                since : Ledgers]

(* Transcripts only grow.                                                  *)
GrewTo(ledger) ==
  \A m \in Disks, s \in Sources, d \in CalendarDays :
    ledger[m][s][d] <= transcripts[m][s][d]

(* A report of a machine says no more than its transcripts, and no less    *)
(* than they said when it was asked for, unless it says what is missing.   *)
Honest(row, m, since) ==
  \A d \in CalendarDays :
    /\ ByDate(row, d) <= Truth(transcripts, m, d)
    /\ row.missing = {} => ByDate(row, d) >= Truth(since, m, d)

ReportInv ==
  /\ transcripts \in Ledgers
  /\ IsFiniteSet(DOMAIN colls) /\ DOMAIN colls = 1 .. Cardinality(DOMAIN colls)
  /\ \A c \in DOMAIN colls :
       /\ colls[c] \in Collections /\ GrewTo(colls[c].since)
       /\ \A id \in Asked : Honest(colls[c].rows[id], TranscriptsAt(id), colls[c].since)
  /\ reading \subseteq DOMAIN colls
  /\ requests \subseteq [id : DOMAIN colls, worker : {"away"}]
  /\ outbox \subseteq [id : DOMAIN colls, row : Reports]
  /\ \A msg \in outbox : Honest(msg.row, "there", colls[msg.id].since)
  /\ cached \in [coll : DOMAIN colls \cup {0}, fresh : BOOLEAN]
  /\ cached.fresh => cached.coll # 0
  /\ viewers \in [Viewers -> [shown : DOMAIN colls \cup {0}, waits : DOMAIN colls \cup {0}]]
=============================================================================
