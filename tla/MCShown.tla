------------------------------- MODULE MCShown -------------------------------
(***************************************************************************)
(* TLC instance of what people are shown of the work: what a run's         *)
(* executions cost (UsageLedger), what every machine spent (UsageReport),  *)
(* the agent's activity (ActivityFeed) and a run's console (Dashboard).    *)
(* They share no variable, so each behaviour moves one of them and leaves  *)
(* the others as they are: the states add up instead of multiplying.       *)
(***************************************************************************)
EXTENDS UsageLedger, UsageReport, ActivityFeed, Dashboard

(* Two lines swapped, and one gone that looks like a header. *)
OneEdit == {[before |-> << "x", "y", "-- z" >>, after |-> << "y", "x" >>]}

VARIABLE part    \* the component this behaviour moves

shownVars == << part, usageVars, reportVars, feedVars, dashVars >>

ShownInit ==
  /\ part \in {"ledger", "report", "feed", "console"}
  /\ UsageInit
  /\ ReportInit /\ (part # "report" => able)
  /\ FeedInit /\ (part # "feed" => format = "claude")
  /\ DashInit

ShownNext ==
  /\ UNCHANGED part
  /\ part # "ledger" => UNCHANGED usageVars
  /\ part # "report" => UNCHANGED reportVars
  /\ part # "feed" => UNCHANGED feedVars
  /\ part # "console" => UNCHANGED dashVars
  /\ \/ part = "ledger" /\ UsageNext
     \/ part = "report" /\ ReportNext
     \/ part = "feed" /\ FeedNext
     \/ part = "console" /\ DashNext

ShownSpec == ShownInit /\ [][ShownNext]_shownVars

(* The feed tells of the agent's work what the log has of it (ActivityFeed, *)
(* for the behaviours that move the feed).                                  *)
FeedIsTrue == part = "feed" => FeedTellsTheWork
==============================================================================
