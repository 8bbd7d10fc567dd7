----------------------------- MODULE DesktopShell -----------------------------
(***************************************************************************)
(* Mission Control, the desktop app that runs the host in its main process: *)
(* the supervisor's serialized operations, the local worker it keeps        *)
(* running against its own host, the auto-updater with its bookkeeping on   *)
(* disk, and the teardown both a quit and an update go through              *)
(* (apps/desktop/src/main and startOrchestrator in                          *)
(* packages/orchestrator/src/server.ts).                                    *)
(*                                                                          *)
(* The app is launched again after every quit and every update, whether the *)
(* update took or not; only the updater's file survives that.               *)
(***************************************************************************)
EXTENDS Naturals, Sequences, FiniteSets

CONSTANTS Releases,        \* versions 1 .. Releases; the feed only moves forward
          MaxInstallAttempts, \* MAX_INSTALL_ATTEMPTS
          MaxClicksApp,    \* bound: restarts and quits asked for by the user
          MaxLaunches,     \* bound: launches of the app
          MaxCrashesLocal  \* bound: failures of the local worker

VARIABLES
  app,         \* "running", "quitting" (teardown begun) or "off"
  ops,         \* the supervisor's #operation chain
  at,          \* how far the operation at its head is
  handle,      \* #handle: the supervisor owns a started orchestrator
  hosts,       \* orchestrators started and not stopped, owned or not
  daemon,      \* the local worker's cycle
  stopping,    \* startLocalWorker's flag
  told,        \* the running daemon's signal has been aborted
  busy,        \* runs executing or queued on the host
  seen,        \* what the fleet monitor last heard of that
  version,     \* the version of the app that is running
  offered,     \* the newest release on the feed
  updater,     \* the updater's state and the version it is about
  record,      \* desktop-update.json: the pending install and the quarantine
  tries,       \* (history) installs begun through install(), per release
  clicks,      \* user actions so far
  launches,    \* launches so far
  crashes      \* local worker failures so far

hostVars == << ops, at, handle, hosts >>
workerVars == << daemon, stopping, told, crashes >>
fleetVars == << busy, seen >>
updateVars == << version, offered, updater, record, tries >>
deskVars == << app, hostVars, workerVars, fleetVars, updateVars, clicks, launches >>

NoPending == [version |-> 0, attempts |-> 0]
Upd(k, v) == [kind |-> k, version |-> v]
Idle == Upd("idle", 0)

DeskInit ==
  /\ app = "running"
  /\ ops = << "start" >> /\ at = "none"
  /\ handle = FALSE /\ hosts = 0
  /\ daemon = "none" /\ stopping = FALSE /\ told = FALSE
  /\ busy = FALSE /\ seen = FALSE
  /\ version = 1 /\ offered = 1
  /\ updater = Upd("unstarted", 0)
  /\ record = [pending |-> NoPending, quarantined |-> {}]
  /\ tries = [v \in 1 .. Releases |-> 0]
  /\ clicks = 0 /\ launches = 1 /\ crashes = 0

-----------------------------------------------------------------------------
(* The supervisor: one operation at a time. Starting is booting the         *)
(* orchestrator and then binding its listener; stopping is the local worker *)
(* first and then the host.                                                 *)

HeadOp(o) == ops # << >> /\ Head(ops) = o

OpDone == ops' = Tail(ops) /\ at' = "none"

(* start() of a running host is a no-op; main() starts the updater once the *)
(* first start has settled, and it reconciles what an earlier install left. *)
Reconciled(r) ==
  IF r.pending = NoPending THEN r
  ELSE IF r.pending.version = version THEN [r EXCEPT !.pending = NoPending]
  ELSE IF r.pending.attempts >= MaxInstallAttempts
  THEN [pending |-> NoPending, quarantined |-> r.quarantined \cup {r.pending.version}]
  ELSE r

StartUpdater ==
  IF updater.kind = "unstarted" /\ HeadOp("start")
  THEN updater' = Idle /\ record' = Reconciled(record)
  ELSE UNCHANGED << updater, record >>

OpBegins ==
  /\ app # "off" /\ ops # << >> /\ at = "none"
  /\ IF handle /\ ~HeadOp("start")
     THEN /\ handle' = FALSE
          /\ stopping' = TRUE /\ told' = (daemon = "running")
          /\ at' = "worker"
          /\ UNCHANGED ops
     ELSE /\ IF handle \/ HeadOp("stop") THEN OpDone ELSE at' = "boot" /\ UNCHANGED ops
          /\ UNCHANGED << handle, stopping, told >>
  /\ UNCHANGED << app, hosts, daemon, crashes, fleetVars, updateVars, clicks, launches >>

WorkerGone == daemon \in {"none", "gone"}

(* The local worker is gone, so the host may stop (its queued and leased    *)
(* runs stay on disk).                                                      *)
OrchestratorStops ==
  /\ app # "off" /\ at = "worker" /\ WorkerGone
  /\ hosts' = hosts - 1
  /\ daemon' = "none" /\ stopping' = FALSE /\ told' = FALSE
  /\ IF HeadOp("stop") THEN OpDone ELSE at' = "boot" /\ UNCHANGED ops
  /\ UNCHANGED << app, handle, crashes, fleetVars, updateVars, clicks, launches >>

(* orchestrator.start() and everything before it, or its failure. *)
OrchestratorStarts ==
  /\ app # "off" /\ at = "boot"
  /\ \/ hosts' = hosts + 1 /\ at' = "bind" /\ UNCHANGED << ops, updater, record >>
     \/ UNCHANGED hosts /\ OpDone /\ StartUpdater
  /\ UNCHANGED << app, handle, workerVars, fleetVars, version, offered, tries, clicks,
                  launches >>

(* The dashboard listener is bound and the local worker starts, if this     *)
(* machine can execute runs; or the port is taken, and the supervisor is    *)
(* left without a handle to the orchestrator already polling.               *)
OrchestratorBinds ==
  /\ app # "off" /\ at = "bind"
  /\ \/ handle' = TRUE /\ daemon' \in {"none", "enrolling"}
     \/ UNCHANGED << handle, daemon >>
  /\ OpDone /\ StartUpdater
  /\ UNCHANGED << app, hosts, stopping, told, crashes, fleetVars, version, offered, tries, clicks,
                  launches >>

UserRestarts ==
  /\ app = "running" /\ clicks < MaxClicksApp
  /\ clicks' = clicks + 1
  /\ ops' = Append(ops, "restart")
  /\ UNCHANGED << app, at, handle, hosts, workerVars, fleetVars, updateVars, launches >>

-----------------------------------------------------------------------------
(* The local worker: mint a credential, run the daemon, and start over with *)
(* a growing delay when it ends, until it is told to stop.                  *)

(* Without the check after the await. *)
StartsAnyway == "running"

AfterEnrolling == IF stopping THEN "gone" ELSE "running"

Enrolled ==
  /\ app # "off" /\ daemon = "enrolling"
  /\ daemon' = AfterEnrolling
  /\ UNCHANGED << app, hostVars, stopping, told, crashes, fleetVars, updateVars, clicks, launches >>

(* Enrolling or the daemon fails, or the daemon ends on its own. *)
DaemonFails ==
  /\ app # "off" /\ daemon \in {"enrolling", "running"}
  /\ crashes < MaxCrashesLocal /\ crashes' = crashes + 1
  /\ daemon' = IF stopping THEN "gone" ELSE "waiting"
  /\ UNCHANGED << app, hostVars, stopping, told, fleetVars, updateVars, clicks, launches >>

RestartTimer ==
  /\ app # "off" /\ daemon = "waiting" /\ ~stopping
  /\ daemon' = "enrolling"
  /\ UNCHANGED << app, hostVars, stopping, told, crashes, fleetVars, updateVars, clicks, launches >>

(* Once stopping, the timer is cleared; a running daemon that was told       *)
(* drains its last reports within its deadline.                             *)
DaemonStops ==
  /\ app # "off" /\ stopping
  /\ daemon = "waiting" \/ (daemon = "running" /\ told)
  /\ daemon' = "gone"
  /\ UNCHANGED << app, hostVars, stopping, told, crashes, fleetVars, updateVars, clicks, launches >>

-----------------------------------------------------------------------------
(* The fleet monitor hears of the host's runs over its socket, later, and   *)
(* tells the updater each time.                                             *)

RunsChange ==
  /\ app # "off" /\ hosts > 0
  /\ busy' = ~busy
  /\ UNCHANGED << app, hostVars, workerVars, seen, updateVars, clicks, launches >>

(* install(): the attempt is on disk before anything irreversible, then the *)
(* teardown runs, unless one is already under way.                          *)
Marked(r, v) ==
  [r EXCEPT !.pending = IF r.pending.version = v
                        THEN [version |-> v, attempts |-> r.pending.attempts + 1]
                        ELSE [version |-> v, attempts |-> 1]]

Teardown ==
  IF app = "running" THEN app' = "quitting" /\ ops' = Append(ops, "stop")
  ELSE UNCHANGED << app, ops >>

Install(v) ==
  /\ updater' = Upd("installing", v)
  /\ record' = Marked(record, v)
  /\ tries' = [tries EXCEPT ![v] = @ + 1]
  /\ Teardown

MonitorHears ==
  /\ app = "running" /\ seen # busy
  /\ seen' = busy
  /\ IF updater.kind = "ready" /\ ~busy THEN Install(updater.version)
     ELSE UNCHANGED << updater, record, tries, app, ops >>
  /\ UNCHANGED << at, handle, hosts, workerVars, busy, version, offered, clicks, launches >>

-----------------------------------------------------------------------------
(* The updater. *)

Released ==
  /\ offered < Releases
  /\ offered' = offered + 1
  /\ UNCHANGED << app, hostVars, workerVars, fleetVars, version, updater, record, tries,
                  clicks, launches >>

(* Without the quarantine. *)
OfferedAlways(v) == TRUE

Offerable(v) == v \notin record.quarantined

(* A check, from the timer or the tray: nothing new, a release to download  *)
(* (unless it is quarantined), or an error.                                 *)
CheckFeed ==
  /\ app = "running" /\ updater.kind \in {"idle", "error"}
  /\ updater' \in {Upd("error", 0)} \cup
       (IF offered > version /\ Offerable(offered) THEN {Upd("downloading", offered)}
        ELSE {Idle})
  /\ UNCHANGED << app, hostVars, workerVars, fleetVars, version, offered, record, tries,
                  clicks, launches >>

(* Downloaded: installed at once when the monitor knows of no run. *)
Downloaded ==
  /\ app # "off" /\ updater.kind = "downloading"
  /\ IF ~seen THEN Install(updater.version)
     ELSE /\ updater' = Upd("ready", updater.version)
          /\ UNCHANGED << record, tries, app, ops >>
  /\ UNCHANGED << at, handle, hosts, workerVars, fleetVars, version, offered, clicks,
                  launches >>

DownloadFails ==
  /\ app # "off" /\ updater.kind = "downloading"
  /\ updater' = Upd("error", 0)
  /\ UNCHANGED << app, hostVars, workerVars, fleetVars, version, offered, record, tries,
                  clicks, launches >>

(* "Restart to Update" in the tray, whatever is running. *)
UserInstalls ==
  /\ app = "running" /\ updater.kind = "ready" /\ clicks < MaxClicksApp
  /\ clicks' = clicks + 1
  /\ Install(updater.version)
  /\ UNCHANGED << at, handle, hosts, workerVars, fleetVars, version, offered, launches >>

-----------------------------------------------------------------------------
(* Leaving. The first before-quit is held back for the teardown; a second   *)
(* one is not.                                                              *)

UserQuits ==
  /\ app # "off" /\ clicks < MaxClicksApp
  /\ clicks' = clicks + 1
  /\ IF app = "running" THEN Teardown ELSE app' = "off" /\ UNCHANGED ops
  /\ UNCHANGED << at, handle, hosts, workerVars, fleetVars, updateVars, launches >>

TeardownDone ==
  /\ app = "quitting" /\ ops = << >>
  /\ app' = "off"
  /\ UNCHANGED << hostVars, workerVars, fleetVars, updateVars, clicks, launches >>

(* The next launch: the old version again, or the one whose install began   *)
(* (also one that was ready, which electron-updater installs on quit).      *)
Relaunch ==
  /\ app = "off" /\ launches < MaxLaunches
  /\ launches' = launches + 1
  /\ app' = "running"
  /\ version' \in {version} \cup
                  (IF updater.kind \in {"ready", "installing"} THEN {updater.version} ELSE {})
  /\ ops' = << "start" >> /\ at' = "none"
  /\ handle' = FALSE /\ hosts' = 0
  /\ daemon' = "none" /\ stopping' = FALSE /\ told' = FALSE
  /\ seen' = FALSE
  /\ updater' = Upd("unstarted", 0)
  /\ UNCHANGED << crashes, busy, offered, record, tries, clicks >>

-----------------------------------------------------------------------------
DeskNext ==
  \/ OpBegins \/ OrchestratorStops \/ OrchestratorStarts \/ OrchestratorBinds \/ UserRestarts
  \/ Enrolled \/ DaemonFails \/ RestartTimer \/ DaemonStops
  \/ RunsChange \/ MonitorHears
  \/ Released \/ CheckFeed \/ Downloaded \/ DownloadFails \/ UserInstalls
  \/ UserQuits \/ TeardownDone \/ Relaunch

DeskSpec == DeskInit /\ [][DeskNext]_deskVars

-----------------------------------------------------------------------------
(* Properties.                                                              *)

(* The types of the app's state. *)
DeskTypeOK ==
  /\ app \in {"running", "quitting", "off"}
  /\ at \in {"none", "worker", "boot", "bind"}
  /\ hosts \in Nat
  /\ daemon \in {"none", "enrolling", "running", "waiting", "gone"}
  /\ updater.version \in 0 .. Releases
  /\ record.quarantined \subseteq 1 .. Releases

(* The local worker's daemon runs only under the host it was started for:   *)
(* from the moment that host is given up until it stops, a running daemon   *)
(* has been told to go, so the stop that waits for it does not wait for     *)
(* ever, and one still enrolling does not start behind its back.            *)
WorkerHasItsHost ==
  app # "off" /\ daemon = "running" => hosts > 0 /\ (handle \/ (at = "worker" /\ told))

(* Why it holds, for the proof: the local worker goes through its cycle     *)
(* only under a host the supervisor owns, or while that host is being       *)
(* stopped, and is told to stop when it is.                                 *)
DeskInv ==
  app # "off" =>
    /\ hosts \in Nat
    /\ handle => hosts > 0 /\ at = "none"
    /\ at = "worker" => hosts > 0
    /\ at = "bind" => hosts > 0
    /\ stopping <=> at = "worker"
    /\ daemon \in {"enrolling", "running", "waiting"} => handle \/ at = "worker"
    /\ at = "worker" /\ daemon = "running" => told

(* A release is not installed over and over: two attempts of the updater,   *)
(* across any number of restarts, and it is left alone.                     *)
TwoInstallsAtMost == \A v \in 1 .. Releases : tries[v] <= MaxInstallAttempts

(* Not so in the code: a start that fails to bind leaves its orchestrator   *)
(* polling, and the next start adds another.                                *)
OneHost == hosts <= 1

(* Not so in the code: quitting twice. *)
LeavesOnceStopped == app = "off" => hosts = 0

(* Not so in the code: the monitor may not have heard of the run yet. *)
AutoInstallWaits == updater.kind = "installing" => ~busy \/ clicks > 0
=============================================================================
