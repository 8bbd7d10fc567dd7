---------------------------- MODULE WorkerShutdown ----------------------------
(***************************************************************************)
(* How a worker process stops (packages/worker/src/daemon.ts, with the     *)
(* drain and the close of connection.ts and the sessions of attach.ts): a  *)
(* signal, a supervisor that is gone, a revocation or a credential that is *)
(* refused starts a sequence that aborts the executions, awaits them,      *)
(* drains the connection and closes it, all under one deadline.            *)
(*                                                                         *)
(* More than one sequence can run. An execution's only report here is its  *)
(* run-complete; what it does before is RunExecution's, how the frame      *)
(* travels is ReportChannel's.                                             *)
(***************************************************************************)
EXTENDS Naturals, FiniteSets

CONSTANTS Executions,     \* runs the host dispatches to this process
          Slots,          \* --concurrency
          MaxCuts         \* bound: connections lost

VARIABLES
  process,       \* "starting", "up", or how it ended: "resolved", "failed", "exited"
  shuttingDown,
  sequences,     \* the stop sequences under way
  gaveUp,        \* a sequence hit its deadline, or left frames behind
  exec,          \* the executions: activeRuns and their promises
  toldToStop,    \* whose abort signal is set
  completion,    \* their run-complete: in the replay buffer, acknowledged, gone
  socket,        \* the connection's socket; "closing" after close()
  halted,        \* connection.closed: it does not reconnect
  revoked,       \* connection.revoked
  forgetting,    \* the stored credential is being removed, and why
  terminal,      \* an interactive session: none, booting or live
  cuts

stopVars == << process, shuttingDown, sequences, gaveUp, exec, toldToStop, completion, socket, halted,
               revoked, forgetting, terminal, cuts >>

Running == {r \in Executions : exec[r] \in {"discarding", "running"}}

StopInit ==
  /\ process = "starting" /\ shuttingDown = FALSE /\ sequences = {} /\ gaveUp = FALSE
  /\ exec = [r \in Executions |-> "none"]
  /\ toldToStop = {} /\ completion = [r \in Executions |-> "none"]
  /\ socket = "down" /\ halted = FALSE /\ revoked = FALSE /\ forgetting = "no"
  /\ terminal = "none" /\ cuts = 0

Heard == process \in {"up", "resolved"} /\ socket \in {"up", "closing"}

-----------------------------------------------------------------------------
(* The process, its connection and its work.                               *)

(* The sandbox provider and the agent commands are probed, and what an     *)
(* earlier process left in WORKSPACES_DIR is swept, before it connects.    *)
Connects ==
  /\ process = "starting"
  /\ process' = "up" /\ socket' = "up"
  /\ UNCHANGED << shuttingDown, sequences, gaveUp, exec, toldToStop, completion, halted, revoked,
                  forgetting, terminal, cuts >>

(* handleDispatch: not while it stops, not above its slots.                *)
TakesDispatch(r) ==
  /\ Heard /\ exec[r] = "none"
  /\ ~shuttingDown /\ Cardinality(Running) < Slots
  /\ \E at \in {"discarding", "running"} : exec' = [exec EXCEPT ![r] = at]
  /\ UNCHANGED << process, shuttingDown, sequences, gaveUp, toldToStop, completion, socket, halted,
                  revoked, forgetting, terminal, cuts >>

(* The discard of the run's last sandbox, which the execution waits for.   *)
DiscardEnds(r) ==
  /\ exec[r] = "discarding"
  /\ exec' = [exec EXCEPT ![r] = "running"]
  /\ UNCHANGED << process, shuttingDown, sequences, gaveUp, toldToStop, completion, socket, halted,
                  revoked, forgetting, terminal, cuts >>

(* It finishes, of itself or aborted, and its run-complete is in the replay *)
(* buffer of its lease: a new one where the lease was lost, which the host *)
(* will not acknowledge.                                                   *)
ExecutionEnds(r) ==
  /\ exec[r] = "running"
  /\ exec' = [exec EXCEPT ![r] = "done"]
  /\ completion' = [completion EXCEPT ![r] = IF @ = "gone" THEN "orphan" ELSE "held"]
  /\ UNCHANGED << process, shuttingDown, sequences, gaveUp, toldToStop, socket, halted, revoked,
                  forgetting, terminal, cuts >>

(* lease-ack at its number, or run-complete-ack.                           *)
Acknowledged(r) ==
  /\ Heard /\ completion[r] = "held"
  /\ completion' = [completion EXCEPT ![r] = "acked"]
  /\ UNCHANGED << process, shuttingDown, sequences, gaveUp, exec, toldToStop, socket, halted,
                  revoked, forgetting, terminal, cuts >>

(* handleLeaseLost: told by the host, or the lease's own deadline.         *)
LosesLease(r) ==
  /\ process \in {"up", "resolved"}
  /\ exec[r] # "none" /\ completion[r] \in {"none", "held"}
  /\ completion' = [completion EXCEPT ![r] = "gone"]
  /\ toldToStop' = IF r \in Running THEN toldToStop \cup {r} ELSE toldToStop
  /\ UNCHANGED << process, shuttingDown, sequences, gaveUp, exec, socket, halted, revoked,
                  forgetting, terminal, cuts >>

AttachOpens ==
  /\ Heard /\ terminal = "none"
  /\ terminal' = "booting"
  /\ UNCHANGED << process, shuttingDown, sequences, gaveUp, exec, toldToStop, completion, socket, halted,
                  revoked, forgetting, cuts >>

SessionBoots ==
  /\ terminal = "booting"
  /\ terminal' \in {"live", "none"}
  /\ UNCHANGED << process, shuttingDown, sequences, gaveUp, exec, toldToStop, completion, socket, halted,
                  revoked, forgetting, cuts >>

SocketCloses ==
  /\ socket = "closing" \/ (socket = "up" /\ cuts < MaxCuts)
  /\ socket' = "down"
  /\ cuts' = IF socket = "up" THEN cuts + 1 ELSE cuts
  /\ UNCHANGED << process, shuttingDown, sequences, gaveUp, exec, toldToStop, completion, halted,
                  revoked, forgetting, terminal >>

SocketOpens ==
  /\ process = "up" /\ socket = "down" /\ ~halted
  /\ socket' = "up"
  /\ UNCHANGED << process, shuttingDown, sequences, gaveUp, exec, toldToStop, completion, halted,
                  revoked, forgetting, terminal, cuts >>

-----------------------------------------------------------------------------
(* Stopping.                                                               *)

(* shutdown(): from here no dispatch is taken, and every execution knows.  *)
(* It awaits the promises it finds.                                        *)
Begins(why) ==
  /\ shuttingDown' = TRUE
  /\ toldToStop' = toldToStop \cup Running
  /\ sequences' = sequences \cup {[why |-> why, at |-> "settling", awaits |-> Running]}

ProcessExits == process' = "exited"

(* A second signal is not argued with.                                     *)
Signal ==
  /\ process = "up"
  /\ IF shuttingDown THEN ProcessExits /\ UNCHANGED << shuttingDown, toldToStop, sequences >>
     ELSE Begins("asked") /\ UNCHANGED process
  /\ UNCHANGED << gaveUp, exec, completion, socket, halted, revoked, forgetting, terminal, cuts >>

(* The supervisor is gone, or aborts the signal it gave: before the worker *)
(* has connected there is nothing to stop.                                 *)
SupervisorGone ==
  /\ \/ process = "starting" /\ ProcessExits /\ UNCHANGED << shuttingDown, toldToStop, sequences >>
     \/ process = "up" /\ ~shuttingDown /\ Begins("asked") /\ UNCHANGED process
  /\ UNCHANGED << gaveUp, exec, completion, socket, halted, revoked, forgetting, terminal, cuts >>

(* The revoked frame: no reconnect, and the credential is removed first.   *)
HostRevokes ==
  /\ Heard /\ ~revoked
  /\ revoked' = TRUE /\ halted' = TRUE
  /\ forgetting' = IF shuttingDown THEN forgetting ELSE "revoked"
  /\ UNCHANGED << process, shuttingDown, sequences, gaveUp, exec, toldToStop, completion, socket,
                  terminal, cuts >>

(* A registration is refused as unauthorized: the socket never registers.  *)
HostRefuses ==
  /\ process = "up" /\ socket = "down" /\ ~halted
  /\ halted' = TRUE /\ forgetting' = "unauthorized"
  /\ UNCHANGED << process, shuttingDown, sequences, gaveUp, exec, toldToStop, completion, socket,
                  revoked, terminal, cuts >>

(* A revoked worker stops though it may be stopping already; a refused one *)
(* looks again.                                                            *)
Forgotten ==
  /\ forgetting # "no" /\ process \in {"up", "resolved"}
  /\ forgetting' = "no"
  /\ IF forgetting = "revoked" \/ ~shuttingDown THEN Begins("denied")
     ELSE UNCHANGED << shuttingDown, toldToStop, sequences >>
  /\ UNCHANGED << process, gaveUp, exec, completion, socket, halted, revoked, terminal, cuts >>

Moves(s, next) == sequences' = (sequences \ {s}) \cup {[s EXCEPT !.at = next]}

(* withDeadline(Promise.allSettled(executions)).                           *)
ExecutionsSettle(s) ==
  /\ s.at = "settling"
  /\ \/ s.awaits \cap Running = {} /\ UNCHANGED gaveUp
     \/ gaveUp' = TRUE
  /\ Moves(s, "draining")
  /\ UNCHANGED << process, shuttingDown, exec, toldToStop, completion, socket, halted, revoked,
                  forgetting, terminal, cuts >>

(* pendingCount: what the replay buffers hold. (The generic queue is empty *)
(* whenever the socket is up.)                                             *)
QueuedOnly == socket # "up" /\ \E r \in Executions : completion[r] \in {"held", "orphan"}
StillOwed == \E r \in Executions : completion[r] \in {"held", "orphan"}

(* drain, then closeAll and close; how the process ends is the first       *)
(* sequence's to say.                                                      *)
Finishes(s) ==
  /\ s.at = "draining"
  /\ \/ ~StillOwed /\ UNCHANGED gaveUp
     \/ StillOwed /\ gaveUp' = TRUE          \* the deadline, or revoked
  /\ sequences' = sequences \ {s}
  /\ terminal' = "none"
  /\ halted' = TRUE
  /\ socket' = IF socket = "up" THEN "closing" ELSE socket
  /\ process' = IF process # "up" THEN process ELSE IF s.why = "denied" THEN "failed" ELSE "resolved"
  /\ UNCHANGED << shuttingDown, exec, toldToStop, completion, revoked, forgetting, cuts >>

Work ==
  \/ Connects \/ AttachOpens \/ SessionBoots \/ SocketCloses \/ SocketOpens
  \/ \E r \in Executions : \/ TakesDispatch(r) \/ DiscardEnds(r) \/ ExecutionEnds(r)
                           \/ Acknowledged(r) \/ LosesLease(r)

Stop ==
  \/ Signal \/ SupervisorGone \/ HostRevokes \/ HostRefuses \/ Forgotten
  \/ \E s \in sequences : ExecutionsSettle(s) \/ Finishes(s)

(* After process.exit, or main's failure, there is nothing left to step.   *)
StopNext == process \notin {"failed", "exited"} /\ (Work \/ Stop)

StopSpec == StopInit /\ [][StopNext]_stopVars

-----------------------------------------------------------------------------
(* Whatever still runs while a worker stops has been told to stop, and a   *)
(* worker that stopped without a complaint left nothing behind: no         *)
(* execution, with its agent and its sandbox, goes on, none begins, and the *)
(* host has every run-complete of a lease it did not take back, whatever   *)
(* broke, was taken back or was asked twice while it stopped.              *)
CleanStopsAreWhole ==
  /\ shuttingDown => Running \subseteq toldToStop
  /\ process \in {"resolved", "failed"} /\ ~gaveUp =>
       /\ Running = {}
       /\ \A r \in Executions : exec[r] = "done" => completion[r] \in {"acked", "gone"}

(* Why it holds, for the proof. An execution owes its report from its end  *)
(* on, and only then.                                                      *)
StopShapes ==
  /\ process \in {"starting", "up", "resolved", "failed", "exited"}
  /\ exec \in [Executions -> {"none", "discarding", "running", "done"}]
  /\ completion \in [Executions -> {"none", "held", "acked", "gone", "orphan"}]
  /\ \A r \in Executions : /\ completion[r] = "none" => exec[r] # "done"
                           /\ completion[r] \in {"held", "acked", "orphan"} => exec[r] = "done"
  /\ \A s \in sequences : /\ s = [why |-> s.why, at |-> s.at, awaits |-> s.awaits]
                          /\ s.at \in {"settling", "draining"}

(* A sequence awaits whatever still runs, drains when nothing does, and is *)
(* over when nothing is owed, unless it gave up.                           *)
StagesReached ==
  /\ ~shuttingDown => sequences = {} /\ process \notin {"resolved", "failed"}
  /\ shuttingDown => Running \subseteq toldToStop
  /\ \A s \in sequences : /\ s.at = "settling" => Running \subseteq s.awaits
                          /\ s.at = "draining" /\ ~gaveUp => Running = {}
  /\ process \in {"resolved", "failed"} /\ ~gaveUp => Running = {} /\ ~StillOwed

StopInv == StopShapes /\ StagesReached

(* Not so in the code: a revoked worker that is signalled while it removes *)
(* its credential runs two sequences, and the signal's resolves.           *)
RevokedStopsFail == process = "resolved" => ~revoked

(* Not so in the code: an attach-open heard between closeAll and the end of *)
(* the closing handshake opens a session in a worker that has stopped.     *)
NoSessionAfterTheStop == process = "resolved" => terminal # "live"
===============================================================================
