------------------------------ MODULE Dashboard ------------------------------
(***************************************************************************)
(* One dashboard watching one run: the run's event log on the host         *)
(* (packages/orchestrator/src/state.ts), the socket that pushes live       *)
(* events to subscribed clients (server.ts), and the page's reducer, which *)
(* joins a history fetched over HTTP with what arrives live                *)
(* (apps/app/src/lib/useOrchestrator.ts).                                  *)
(*                                                                         *)
(* The socket is FIFO in both directions; the HTTP requests are not        *)
(* ordered with it nor with each other. Times never go back, and several   *)
(* events may share a millisecond. The page's cap of MAX_EVENTS is not     *)
(* reached.                                                                *)
(***************************************************************************)
EXTENDS Naturals, Sequences, FiniteSets, SequencesExt

CONSTANTS MaxLogged,    \* bound: events of the run
          MaxOpens,     \* bound: times the run is opened
          MaxBreaks     \* bound: times the socket breaks

VARIABLES
  logged,     \* the run's log: the millisecond of each event
  up,         \* the page's socket is open
  subs,       \* the host's side of it: subscriptions, "this" run and "other"
  pushed,     \* events on their way to the page
  sent,       \* subscribe and unsubscribe on their way to the host
  selected,   \* the run is the selected one
  loaded,     \* loadedRuns: its console has been opened
  console,    \* events[runId]
  fetches,    \* history requests: stage, answer, and (history) whether the
              \* socket has carried every event since the answer was read
  whole,      \* (history) the console joins on to the socket without a gap
  breaks      \* socket failures so far

dashVars == << logged, up, subs, pushed, sent, selected, loaded, console, fetches, whole,
               breaks >>

(* The page opens on another run, which its socket is subscribed to. *)
DashInit ==
  /\ logged = << >>
  /\ up = TRUE /\ subs = {"other"}
  /\ pushed = << >> /\ sent = << >>
  /\ selected = FALSE /\ loaded = FALSE /\ console = << >>
  /\ fetches = << >> /\ whole = FALSE
  /\ breaks = 0

-----------------------------------------------------------------------------
(* The host. *)

(* No subscription at all means every event. *)
Listens(s) == s = {} \/ "this" \in s

Missed(fs) == [i \in DOMAIN fs |-> [fs[i] EXCEPT !.joined = FALSE]]

(* appendEvent: the log and the live event in one step. *)
Log ==
  /\ Len(logged) < MaxLogged
  /\ LET last == IF logged = << >> THEN 1 ELSE logged[Len(logged)]
     IN  \E t \in {last, last + 1} : logged' = Append(logged, t)
  /\ IF up /\ Listens(subs)
     THEN pushed' = Append(pushed, Len(logged) + 1) /\ UNCHANGED << fetches, whole >>
     ELSE fetches' = Missed(fetches) /\ whole' = FALSE /\ UNCHANGED pushed
  /\ UNCHANGED << up, subs, sent, selected, loaded, console, breaks >>

HearClient ==
  /\ up /\ sent # << >>
  /\ sent' = Tail(sent)
  /\ subs' = IF Head(sent).type = "subscribe" THEN subs \cup {Head(sent).run}
             ELSE subs \ {Head(sent).run}
  /\ UNCHANGED << logged, up, pushed, selected, loaded, console, fetches, whole, breaks >>

(* GET /api/runs/:id/events: readEvents flushes the queued appends first,   *)
(* so the answer is the log as it is.                                       *)
ServeHistory(i) ==
  /\ fetches[i].stage = "asked"
  /\ fetches' = [fetches EXCEPT ![i] = [stage |-> "answered", upTo |-> Len(logged),
                                        joined |-> up /\ Listens(subs)]]
  /\ UNCHANGED << logged, up, subs, pushed, sent, selected, loaded, console, whole, breaks >>

-----------------------------------------------------------------------------
(* The page. *)

Landed == [stage |-> "done", upTo |-> 0, joined |-> FALSE]

Sends(frames) == sent' = IF up THEN sent \o frames ELSE sent

(* selectRun(run), from the other run or again from itself. *)
Open ==
  /\ Len(fetches) < MaxOpens
  /\ selected' = TRUE
  /\ Sends((IF selected THEN << >> ELSE << [type |-> "unsubscribe", run |-> "other"] >>)
           \o << [type |-> "subscribe", run |-> "this"] >>)
  /\ fetches' = Append(fetches, [Landed EXCEPT !.stage = "asked"])
  /\ UNCHANGED << logged, up, subs, pushed, loaded, console, whole, breaks >>

Leave ==
  /\ selected
  /\ selected' = FALSE
  /\ Sends(<< [type |-> "unsubscribe", run |-> "this"],
              [type |-> "subscribe", run |-> "other"] >>)
  /\ UNCHANGED << logged, up, subs, pushed, loaded, console, fetches, whole, breaks >>

(* "event": kept for the selected run and for those opened before. *)
HearEvent ==
  /\ up /\ pushed # << >>
  /\ pushed' = Tail(pushed)
  /\ IF loaded \/ selected
     THEN console' = Append(console, Head(pushed)) /\ UNCHANGED << fetches, whole >>
     ELSE /\ fetches' = [i \in DOMAIN fetches |->
                           [fetches[i] EXCEPT !.joined = @ /\ fetches[i].upTo >= Head(pushed)]]
          /\ whole' = FALSE
          /\ UNCHANGED console
  /\ UNCHANGED << logged, up, subs, sent, selected, loaded, breaks >>

Cut(n) == IF n = 0 THEN 0 ELSE logged[n]

(* "history": the answer alone, and the answer followed by the live events  *)
(* newer than all of it.                                                    *)
ReplacedBy(n) == [k \in 1 .. n |-> k]

(* filter, as a recursive function so that it can be proved about.          *)
Filtered(s, wanted) ==
  LET tail[i \in 0 .. Len(s)] ==
        IF i = 0 THEN << >>
        ELSE IF s[i] \in wanted THEN Append(tail[i - 1], s[i]) ELSE tail[i - 1]
  IN  tail[Len(s)]

JoinedWith(n) ==
  [k \in 1 .. n |-> k] \o Filtered(console, {k \in 1 .. Len(logged) : logged[k] > Cut(n)})

HistoryLands(i) ==
  /\ fetches[i].stage = "answered"
  /\ fetches' = [fetches EXCEPT ![i] = Landed]
  /\ console' = JoinedWith(fetches[i].upTo)
  /\ loaded' = TRUE
  /\ whole' = (whole \/ fetches[i].joined)
  /\ UNCHANGED << logged, up, subs, pushed, sent, selected, breaks >>

(* The request fails: an empty history. *)
HistoryFails(i) ==
  /\ fetches[i].stage \in {"asked", "answered"}
  /\ fetches' = [fetches EXCEPT ![i] = Landed]
  /\ console' = JoinedWith(0)
  /\ loaded' = TRUE
  /\ UNCHANGED << logged, up, subs, pushed, sent, selected, whole, breaks >>

(* The socket breaks, both directions lost; the next one starts with no     *)
(* subscription and the selected run's is sent again, its history is not.   *)
Break ==
  /\ up /\ breaks < MaxBreaks
  /\ breaks' = breaks + 1
  /\ up' = FALSE /\ subs' = {} /\ pushed' = << >> /\ sent' = << >>
  /\ IF pushed = << >> THEN UNCHANGED << fetches, whole >>
     ELSE fetches' = Missed(fetches) /\ whole' = FALSE
  /\ UNCHANGED << logged, selected, loaded, console >>

SocketReturns ==
  /\ ~up
  /\ up' = TRUE
  /\ sent' = << [type |-> "subscribe", run |-> IF selected THEN "this" ELSE "other"] >>
  /\ UNCHANGED << logged, subs, pushed, selected, loaded, console, fetches, whole, breaks >>

DashNext ==
  \/ Log \/ HearClient \/ Open \/ Leave \/ HearEvent \/ Break \/ SocketReturns
  \/ \E i \in DOMAIN fetches : ServeHistory(i) \/ HistoryLands(i) \/ HistoryFails(i)

DashSpec == DashInit /\ [][DashNext]_dashVars

-----------------------------------------------------------------------------
(* The types of the dashboard's state. *)
DashTypeOK ==
  /\ subs \subseteq {"this", "other"}
  /\ ToSet(pushed) \cup ToSet(console) \subseteq 1 .. Len(logged)
  /\ \A i \in DOMAIN fetches : fetches[i].upTo \in 0 .. Len(logged)

(* The host's events of one millisecond, of which the cut keeps the ones    *)
(* the history has.                                                         *)
SharesItsMillisecond(k) == \E j \in 1 .. k - 1 : logged[j] = logged[k]

(* Once a history has landed that was read while the host was pushing this  *)
(* run's events to the page, and as long as no event has been kept from it  *)
(* since, the console shows the whole log but for what the socket still     *)
(* carries: whichever of the two channels was first, however many histories *)
(* were asked for, failed or overtook one another.                          *)
ConsoleHasEverything ==
  whole => \A k \in 1 .. Len(logged) :
             \/ k \in ToSet(console) \cup ToSet(pushed)
             \/ SharesItsMillisecond(k)

(* Not so in the code: an answer that overtakes the live events on the      *)
(* socket shows them twice.                                                 *)
ShownOnce == \A k \in 1 .. Len(logged) :
               Cardinality({i \in DOMAIN console : console[i] = k}) <= 1

-----------------------------------------------------------------------------
(* What ConsoleHasEverything needs to be inductive *)

(* The run's event k is on the page, on its way there, or cut for sharing   *)
(* its millisecond.                                                         *)
Covered(k) == k \in ToSet(console) \cup ToSet(pushed) \/ SharesItsMillisecond(k)

(* A history that can still be joined on to what the socket carries lacks   *)
(* nothing the page has not heard; no clock runs backwards.                 *)
ConsoleInv ==
  /\ logged \in Seq(Nat \ {0}) /\ pushed \in Seq(Nat) /\ console \in Seq(Nat)
  /\ fetches \in Seq([stage : {"asked", "answered", "done"}, upTo : Nat, joined : BOOLEAN])
  /\ whole \in BOOLEAN
  /\ \A i, j \in 1 .. Len(logged) : i <= j => logged[i] <= logged[j]
  /\ \A i \in DOMAIN fetches : fetches[i].upTo <= Len(logged)
  /\ \A i \in DOMAIN fetches : fetches[i].stage = "answered" /\ fetches[i].joined =>
       \A k \in 1 .. Len(logged) : k > fetches[i].upTo => Covered(k)
  /\ whole => \A k \in 1 .. Len(logged) : Covered(k)
=============================================================================
