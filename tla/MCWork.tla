-------------------------------- MODULE MCWork --------------------------------
(***************************************************************************)
(* TLC instance of what happens around one run: the execution itself on    *)
(* its worker (RunExecution), what becomes of the disk it leaves           *)
(* (RetainedDisk), the host's watch over its pull request and the archive  *)
(* (PullWatch), the dashboard's page of the pull request (PullPage) and    *)
(* how the worker that executes it stops (WorkerShutdown).                 *)
(* They share no variable, so each behaviour moves one of them and leaves  *)
(* the others as they are: the states add up instead of multiplying.       *)
(***************************************************************************)
EXTENDS RunExecution, RetainedDisk, PullWatch, PullPage, WorkerShutdown

VARIABLE part    \* the component this behaviour moves

workVars == << part, execVars, diskVars, watchVars, pageVars, stopVars >>

Execution ==
  /\ part = "execution"
  /\ UNCHANGED << part, diskVars, watchVars, pageVars, stopVars >>

(* A first attempt of a run, where it does not matter which. *)
SomeSetup == [kind |-> "run", agent |-> "claude", review |-> FALSE, retention |-> FALSE,
              auto |-> FALSE, number |-> 1, actionable |-> FALSE, here |-> TRUE]

WorkInit ==
  /\ part \in {"execution", "retention", "watch", "page", "stop"}
  /\ ExecInit /\ (part # "execution" => setup = SomeSetup)
  /\ DiskInit /\ (part # "retention" => queued)
  /\ WatchInit
  /\ PageInit /\ (part # "page" => ~pull.draft)
  /\ StopInit

WorkNext ==
  \/ Execution /\ ExecNext
  \/ /\ part = "retention" /\ DiskNext
     /\ UNCHANGED << part, execVars, watchVars, pageVars, stopVars >>
  \/ /\ part = "watch" /\ WatchNext
     /\ UNCHANGED << part, execVars, diskVars, pageVars, stopVars >>
  \/ /\ part = "page" /\ PageNext
     /\ UNCHANGED << part, execVars, diskVars, watchVars, stopVars >>
  \/ /\ part = "stop" /\ StopNext
     /\ UNCHANGED << part, execVars, diskVars, watchVars, pageVars >>

(* The execution's own fairness, where it is the part that moves. *)
WorkSpec ==
  /\ WorkInit /\ [][WorkNext]_workVars
  /\ WF_workVars(Execution /\ ExecStep)
  /\ WF_workVars(Execution /\ Killed)

(* A retained disk can be used: it is there as long as the host counts on   *)
(* it (RunExecution), and has one user at a time (RetainedDisk).            *)
RetainedDiskIsUsable == RetainedDiskIsThere /\ RetainedDiskHasOneUser

(* Every attempt settles, whatever fails in it and however long its         *)
(* processes would go on (RunExecution's AttemptsSettle, for the behaviours *)
(* that move the execution).                                                *)
EveryAttemptSettles == part = "execution" => AttemptsSettle
===============================================================================
