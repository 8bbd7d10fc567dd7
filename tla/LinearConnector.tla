--------------------------- MODULE LinearConnector ---------------------------
(***************************************************************************)
(* The host's Linear connector: the configuration file and the chain its    *)
(* writers queue in, the OAuth grant and its refresh, the recovery every    *)
(* Linear call goes through, and the poll loop that turns eligible tickets  *)
(* into queued runs (packages/orchestrator/src/scheduler.ts and             *)
(* packages/integrations/src/linear.ts).                                    *)
(*                                                                          *)
(* Everything here runs on one event loop, so an action is what happens     *)
(* between two awaits. What an await lets in between is the subject: a      *)
(* reconnect during a refresh or a retry, a settings change or a click      *)
(* during a poll, a hand edit of config.json during either.                 *)
(*                                                                          *)
(* A credential is its grant (one per connection the user made) and its     *)
(* turn (how often it was refreshed); 0 is no connection. A ticket is its   *)
(* identity and its revision (updatedAt).                                   *)
(***************************************************************************)
EXTENDS Naturals, Sequences, FiniteSets

CONSTANTS Tickets,       \* the issues assigned to the user
          MaxGrants,     \* bound: connections the user makes
          Personal,      \* the grants among them that are personal keys
          MaxTurns,      \* bound: refreshes of one grant
          MaxEvents      \* bound: what the outside does of its own accord: the
                         \* user's changes and clicks, edits of tickets,
                         \* revocations by Linear, restarts of the host

VARIABLES
  config,       \* #current: the linear section's credential and whether repos resolve
  file,         \* config.json, which a user may edit by hand
  chain,        \* #configOps: the configuration operations, in order
  reloadTimer,  \* #configReloadTimer: the file changed and has yet to settle
  age,          \* how far the current access token is from its expiry
  refused,      \* Linear no longer honours the current credential
  generation,   \* #linearGeneration
  client,       \* #linear is there
  health,       \* linearStatus: #linearAuthError and #linearRefreshFailing
  backoff,      \* #linearRefreshBackoff has not elapsed
  refresh,      \* #linearRefresh: what it was started from, or NoRefresh
  call,         \* the Linear calls in flight, one per caller
  polling,      \* where #polling is in its cycle
  pollAgain,    \* #pollAgain
  asked,        \* (history) a poll was asked for since the last cycle began
  tickets,      \* #tickets: the eligible tickets last fetched
  todo,         \* the tickets this cycle still has to consider
  revision,     \* Linear's side: the revision of each ticket
  creating,     \* createRun calls between their check and their insertion
  listed,       \* the store's runs
  chosen,       \* (history) the grant of the user's last decision: a connection or a
                \* disconnection when it is written, a hand edit when it is made
  broughtBack,  \* (history) a write of brevi's put back a key edited away since then
  grants,       \* the connections the user has made
  events        \* what the outside has done so far

configVars == << config, file, chain, reloadTimer >>
linkButHealth == << age, refused, generation, client, backoff >>
linkVars == << linkButHealth, health >>
pollVars == << polling, pollAgain, asked >>
ticketVars == << tickets, todo, revision, creating, listed >>
decision == << chosen, broughtBack >>
history == << decision, grants, events >>
connVars == << configVars, linkVars, refresh, call, pollVars, ticketVars, history >>

Disconnected == [grant |-> 0, turn |-> 0]
NoRefresh == [generation |-> 0, cred |-> Disconnected, at |-> "none"]
Callers == {"poll", "board"}
NoCall == [at |-> "idle", cred |-> Disconnected, moved |-> FALSE]

Credentials == [grant : 0 .. MaxGrants, turn : 0 .. MaxTurns]
Configs == [cred : Credentials, repos : BOOLEAN]
Outcomes == {"ok", "stale", "permanent", "transient"}
Operations == [op : {"connect", "disconnect", "settings", "reload", "rotate"},
               grant : 0 .. MaxGrants]

(* A personal key never expires and has no refresh token. *)
Refreshable(k) == k # Disconnected /\ k.grant \notin Personal

-----------------------------------------------------------------------------
(* The state a (re)started host comes up with: only the file and the runs   *)
(* survive, and start() asks for a first poll.                              *)

Fresh(saved) ==
  /\ config' = saved
  /\ chain' = << >>
  /\ reloadTimer' = FALSE
  /\ generation' = 0
  /\ client' = (saved.cred # Disconnected)
  /\ health' = "connected"
  /\ backoff' = FALSE
  /\ refresh' = NoRefresh
  /\ call' = [c \in Callers |-> NoCall]
  /\ polling' = "begin"
  /\ pollAgain' = FALSE
  /\ asked' = FALSE
  /\ tickets' = {}
  /\ todo' = {}
  /\ creating' = {}

ConnInit ==
  /\ config = [cred |-> [grant |-> 1, turn |-> 0], repos |-> TRUE]
  /\ file = config
  /\ chain = << >>
  /\ reloadTimer = FALSE
  /\ age = "fresh"
  /\ refused = FALSE
  /\ generation = 0
  /\ client = TRUE
  /\ health = "connected"
  /\ backoff = FALSE
  /\ refresh = NoRefresh
  /\ call = [c \in Callers |-> NoCall]
  /\ polling = "begin"
  /\ pollAgain = FALSE
  /\ asked = FALSE
  /\ tickets = {}
  /\ todo = {}
  /\ revision = [t \in Tickets |-> 0]
  /\ creating = {}
  /\ listed = {}
  /\ chosen = 1
  /\ broughtBack = FALSE
  /\ grants = 1
  /\ events = 0

Happens == events < MaxEvents /\ events' = events + 1

-----------------------------------------------------------------------------
(* The environment: time, Linear, and whoever edits the tickets.            *)

TokenAges ==
  /\ Refreshable(config.cred)
  /\ age # "expired"
  /\ age' = IF age = "fresh" THEN "margin" ELSE "expired"
  /\ UNCHANGED << configVars, pollVars, ticketVars, history, refused, generation, client,
                  health, backoff, refresh, call >>

Revoked ==
  /\ config.cred.grant > 0 /\ ~refused
  /\ Happens
  /\ refused' = TRUE
  /\ UNCHANGED << configVars, pollVars, ticketVars, age, generation, client, health,
                  backoff, refresh, call, decision, grants >>

BackoffElapses ==
  /\ backoff
  /\ backoff' = FALSE
  /\ UNCHANGED << configVars, pollVars, ticketVars, history, age, refused, generation,
                  client, health, refresh, call >>

TicketEdited(t) ==
  /\ Happens
  /\ revision' = [revision EXCEPT ![t] = @ + 1]
  /\ UNCHANGED << configVars, linkVars, pollVars, refresh, call, tickets, todo, creating,
                  listed, decision, grants >>

RunFinishes(r) ==
  /\ r \in listed /\ r.live
  /\ listed' = (listed \ {r}) \cup {[r EXCEPT !.live = FALSE]}
  /\ UNCHANGED << configVars, linkVars, pollVars, history, refresh, call, tickets, todo,
                  revision, creating >>

-----------------------------------------------------------------------------
(* poll(): one cycle at a time, and one more when asked during a cycle.     *)

AskPoll ==
  IF polling = "idle" THEN /\ polling' = "begin"
                           /\ UNCHANGED << pollAgain, asked >>
  ELSE /\ pollAgain' = TRUE
       /\ asked' = TRUE
       /\ UNCHANGED polling

NotAsked == UNCHANGED pollVars

(* #pollTimer fires. *)
PollTimer ==
  /\ polling = "idle" \/ ~pollAgain
  /\ AskPoll
  /\ UNCHANGED << configVars, linkVars, ticketVars, history, refresh, call >>

(* Without the loop: a request that came meanwhile counts as served. *)
ForgetfulCycle ==
  /\ polling' = "idle"
  /\ pollAgain' = FALSE

(* What the do ... while of poll() does when a cycle returns. *)
NextCycle ==
  /\ polling' = IF pollAgain THEN "begin" ELSE "idle"
  /\ UNCHANGED pollAgain

-----------------------------------------------------------------------------
(* Connector state: both transitions are idempotent, and a confirmed dead   *)
(* credential is not overwritten by a refresh that keeps failing.           *)

AuthError(h) == "auth-error"
RefreshFailing(h) == IF h = "connected" THEN "refresh-failing" ELSE h
Cleared(h) == IF h = "refresh-failing" THEN "connected" ELSE h

OnError(outcome, h) ==
  CASE outcome = "permanent" -> AuthError(h)
    [] outcome = "transient" -> RefreshFailing(h)
    [] OTHER -> h

(* Why refreshLinear answers at once, without asking Linear: a backoff that *)
(* has not elapsed. "ask" is a request that has to be made (or joined).     *)
RefreshNow == IF refresh = NoRefresh /\ backoff THEN "transient" ELSE "ask"

JoinRefresh ==
  refresh' = IF refresh # NoRefresh THEN refresh
             ELSE [generation |-> generation, cred |-> config.cred, at |-> "asking"]

(* withAuthRecovery's first attempt, with the key the configuration holds. *)
Calling(c) == call' = [call EXCEPT ![c] = [at |-> "first", cred |-> config.cred, moved |-> FALSE]]

(* pollOnce: nothing without a live connection; a token about to expire is  *)
(* refreshed first, and one that expired during a backoff pauses the        *)
(* connector instead of being used.                                         *)
BeginPoll ==
  /\ polling = "begin"
  /\ pollAgain' = FALSE
  /\ asked' = FALSE
  /\ \/ /\ ~client \/ health = "auth-error"
        /\ polling' = "idle"
        /\ UNCHANGED << health, refresh, call >>
     \/ /\ client /\ health # "auth-error"
        /\ age = "fresh" \/ (age = "margin" /\ RefreshNow = "transient")
        /\ Calling("poll")
        /\ polling' = "fetching"
        /\ UNCHANGED << health, refresh >>
     \/ /\ client /\ health # "auth-error"
        /\ age # "fresh" /\ RefreshNow = "ask"
        /\ JoinRefresh
        /\ polling' = "refreshing"
        /\ UNCHANGED << health, call >>
     \/ /\ client /\ health # "auth-error"
        /\ age = "expired" /\ RefreshNow = "transient"
        /\ health' = RefreshFailing(health)
        /\ polling' = "idle"
        /\ UNCHANGED << refresh, call >>
  /\ UNCHANGED << configVars, linkButHealth, ticketVars, history >>

-----------------------------------------------------------------------------
(* #refreshLinear: one attempt in flight, shared by every caller. Its       *)
(* answer is applied inside the chain, and only to the credential it was    *)
(* asked for.                                                               *)

(* Everyone awaiting the refresh resumes with its outcome. *)
Woken(c, outcome, cred) ==
  IF call[c].at # "recovering" THEN call[c]
  ELSE IF outcome = "ok" THEN [at |-> "again", cred |-> cred, moved |-> FALSE]
  ELSE NoCall

PollGoesOn(outcome) ==
  outcome = "ok" \/ (outcome = "transient" /\ age # "expired")

(* The poll's own wait: a stale outcome ends the cycle silently; a failed   *)
(* one ends it and says so, unless the old token still has time left.       *)
PollSays(outcome) ==
  outcome = "permanent" \/ (outcome = "transient" /\ age = "expired")

CallsSay(outcome) == \E c \in Callers : call[c].at = "recovering"

Resume(outcome, cred) ==
  LET polls == polling = "refreshing"
      fetch == [at |-> "first", cred |-> cred, moved |-> FALSE]
      failed == call["poll"].at = "recovering" /\ outcome # "ok"
  IN /\ refresh' = NoRefresh
     /\ health' = IF outcome = "ok" THEN Cleared(health)
                  ELSE IF (polls /\ PollSays(outcome)) \/ CallsSay(outcome)
                  THEN OnError(outcome, health) ELSE health
     /\ call' = [c \in Callers |-> IF c = "poll" /\ polls /\ PollGoesOn(outcome) THEN fetch
                                   ELSE Woken(c, outcome, cred)]
     /\ IF polls /\ PollGoesOn(outcome) THEN polling' = "fetching" /\ UNCHANGED pollAgain
        ELSE IF polls \/ (failed /\ polling = "fetching") THEN NextCycle
        ELSE IF failed THEN polling' = "queueing" /\ UNCHANGED pollAgain
        ELSE UNCHANGED << polling, pollAgain >>

(* Linear (or the hosted backend) rejects the refresh, or does not answer   *)
(* it. After a reconnect the answer concerns nobody any more.               *)
RefreshFails ==
  /\ refresh.at = "asking"
  /\ \E outcome \in {"permanent", "transient"} :
       /\ outcome = "permanent" => refused \/ refresh.generation # generation
       /\ IF refresh.generation # generation
          THEN Resume("stale", config.cred) /\ UNCHANGED backoff
          ELSE /\ Resume(outcome, config.cred)
               /\ backoff' = (backoff \/ outcome = "transient")
  /\ UNCHANGED << configVars, ticketVars, history, age, refused, generation, client,
                  asked >>

RefreshAnswers ==
  /\ refresh.at = "asking"
  /\ refresh.cred.turn < MaxTurns
  /\ refresh' = [refresh EXCEPT !.at = "saving"]
  /\ chain' = Append(chain, [op |-> "rotate", grant |-> refresh.cred.grant])
  /\ UNCHANGED << linkVars, pollVars, ticketVars, history, config, file, reloadTimer, call >>

(* Without the check: whatever the refresh brought is applied. *)
OursAnyway == TRUE

(* saveConfig: the whole snapshot replaces the file, and the watcher sees   *)
(* this write like any other.                                               *)
Save(c) ==
  /\ config' = c
  /\ file' = c
  /\ reloadTimer' = TRUE

(* A write that is no decision about the credential, over a file somebody   *)
(* has edited since the snapshot was taken: its key comes back.             *)
SaveOver(c) ==
  /\ Save(c)
  /\ broughtBack' = (broughtBack \/ file.cred # config.cred)
  /\ UNCHANGED chosen

(* The check inside the chain, against the configuration of the moment. The *)
(* file is not looked at.                                                   *)
StillOurs == /\ refresh.generation = generation
             /\ refresh.cred = config.cred

Rotate ==
  /\ chain # << >> /\ Head(chain).op = "rotate"
  /\ chain' = Tail(chain)
  /\ IF StillOurs
     THEN LET cred == [refresh.cred EXCEPT !.turn = @ + 1]
          IN /\ SaveOver([config EXCEPT !.cred = cred])
             /\ age' = "fresh"
             /\ backoff' = FALSE
             /\ Resume("ok", cred)
     ELSE /\ Resume("stale", config.cred)
          /\ UNCHANGED << config, file, reloadTimer, decision, age, backoff >>
  /\ UNCHANGED << ticketVars, grants, events, refused, generation, client, asked >>

-----------------------------------------------------------------------------
(* A Linear call and its recovery (withAuthRecovery). What an outdated key  *)
(* meets is Linear's choice; the current one is refused exactly when it has *)
(* expired or was revoked.                                                  *)

Refusable(k) == k # config.cred \/ age = "expired" \/ refused \/ k = Disconnected
Acceptable(k) == k # config.cred \/ (age # "expired" /\ ~refused)

(* What the poll does with the answer of its two calls: a failed fetch ends *)
(* the cycle; the ticket states are best effort.                            *)
PollAfter(c, ok) ==
  IF c # "poll" THEN UNCHANGED << polling, pollAgain >>
  ELSE IF polling = "fetching" THEN ~ok /\ NextCycle
  ELSE polling' = "queueing" /\ UNCHANGED pollAgain

Fetched == { [id |-> t, rev |-> revision[t], repo |-> config.repos] : t \in Tickets }

(* An accepted fetch: the tickets replace the cached ones whatever happened *)
(* meanwhile, and stored runs' ticket states are looked up if there are any *)
(* outside the fetched ones.                                                *)
FetchAnswered ==
  /\ polling = "fetching"
  /\ call["poll"].at \in {"first", "again"} /\ Acceptable(call["poll"].cred)
  /\ \E got \in SUBSET Fetched :
       /\ tickets' = got
       /\ todo' = got
       /\ IF client /\ \E r \in listed : r.id \notin { k.id : k \in got }
          THEN Calling("poll") /\ polling' = "states"
          ELSE call' = [call EXCEPT !["poll"] = NoCall] /\ polling' = "queueing"
  /\ UNCHANGED << configVars, linkVars, history, refresh, pollAgain, asked, revision,
                  creating, listed >>

(* Any other accepted call. *)
CallAnswered(c) ==
  /\ call[c].at \in {"first", "again"} /\ Acceptable(call[c].cred)
  /\ ~(c = "poll" /\ polling = "fetching")
  /\ call' = [call EXCEPT ![c] = NoCall]
  /\ PollAfter(c, TRUE)
  /\ UNCHANGED << configVars, linkVars, ticketVars, history, refresh, asked >>

(* A network failure, or any that is not about authentication. *)
CallFails(c) ==
  /\ call[c].at \in {"first", "again"}
  /\ call' = [call EXCEPT ![c] = NoCall]
  /\ PollAfter(c, FALSE)
  /\ UNCHANGED << configVars, linkVars, ticketVars, history, refresh, asked >>

(* The first attempt is refused: retried at once when the credential was    *)
(* replaced meanwhile, otherwise after a refresh, if one can be made.       *)
CallRefused(c) ==
  /\ call[c].at = "first" /\ Refusable(call[c].cred)
  /\ \/ /\ config.cred # call[c].cred
        /\ call' = [call EXCEPT ![c] = [at |-> "again", cred |-> config.cred, moved |-> TRUE]]
        /\ UNCHANGED << health, refresh, polling, pollAgain >>
     \/ /\ config.cred = call[c].cred
        /\ health # "auth-error" /\ RefreshNow = "ask"
        /\ refresh # NoRefresh \/ Refreshable(config.cred)
        /\ JoinRefresh
        /\ call' = [call EXCEPT ![c].at = "recovering"]
        /\ UNCHANGED << health, polling, pollAgain >>
     \/ /\ config.cred = call[c].cred
        /\ \/ health = "auth-error" /\ UNCHANGED health
           \/ RefreshNow = "transient" /\ health' = RefreshFailing(health)
           \/ /\ RefreshNow = "ask" /\ refresh = NoRefresh /\ ~Refreshable(config.cred)
              /\ health' = AuthError(health)
        /\ call' = [call EXCEPT ![c] = NoCall]
        /\ PollAfter(c, FALSE)
        /\ UNCHANGED refresh
  /\ UNCHANGED << configVars, linkButHealth, ticketVars, history, asked >>

(* The retry is refused too: the fresh token is dead. Not conclusive when   *)
(* the key had changed before the retry.                                    *)
RetryRefused(c) ==
  /\ call[c].at = "again" /\ Refusable(call[c].cred)
  /\ health' = IF call[c].moved THEN health ELSE AuthError(health)
  /\ call' = [call EXCEPT ![c] = NoCall]
  /\ PollAfter(c, FALSE)
  /\ UNCHANGED << configVars, linkButHealth, ticketVars, history, refresh, asked >>

(* The dashboard asks for the projects, or the archive sweep for closures. *)
BoardCalls ==
  /\ client /\ call["board"].at = "idle"
  /\ Calling("board")
  /\ UNCHANGED << configVars, linkVars, pollVars, ticketVars, history, refresh >>

-----------------------------------------------------------------------------
(* Turning a ticket into a run. createRun writes the run to disk before it  *)
(* appears in the store, so the check and the insertion are two steps.      *)

Active(t) == \E r \in listed : r.id = t /\ r.live
Done(k) == \E r \in listed : r.id = k.id /\ r.rev = k.rev

(* Without the question whether this revision has had its run. *)
AnyRevision(k) == k.repo /\ ~Active(k.id)

MayAutoQueue(k) == k.repo /\ ~Active(k.id) /\ ~Done(k)

MaybeAutoQueue(k) ==
  /\ polling = "queueing" /\ k \in todo
  /\ todo' = todo \ {k}
  /\ IF MayAutoQueue(k)
     THEN /\ creating' = creating \cup {[by |-> "poll", id |-> k.id, rev |-> k.rev]}
          /\ polling' = "creating"
     ELSE UNCHANGED << creating, polling >>
  /\ UNCHANGED << configVars, linkVars, history, refresh, call, pollAgain, asked, tickets,
                  revision, listed >>

CycleDone ==
  /\ polling = "queueing" /\ todo = {}
  /\ NextCycle
  /\ UNCHANGED << configVars, linkVars, ticketVars, history, refresh, call, asked >>

(* queueTicket, from the dashboard's list. *)
QueueTicket(k) ==
  /\ k \in tickets /\ k.repo
  /\ ~Active(k.id)
  /\ Happens
  /\ creating' = creating \cup {[by |-> "click", id |-> k.id, rev |-> k.rev]}
  /\ UNCHANGED << configVars, linkVars, pollVars, refresh, call, tickets, todo, revision,
                  listed, decision, grants >>

RunCreated(c) ==
  /\ c \in creating
  /\ creating' = creating \ {c}
  /\ listed' = listed \cup {[n |-> Cardinality(listed) + 1, by |-> c.by, id |-> c.id,
                             rev |-> c.rev, live |-> TRUE]}
  /\ polling' = IF c.by = "poll" THEN "queueing" ELSE polling
  /\ UNCHANGED << configVars, linkVars, history, refresh, call, pollAgain, asked, tickets,
                  todo, revision >>

-----------------------------------------------------------------------------
(* The user's changes. Each queues in the chain and is computed against the *)
(* snapshot of its turn; the connection is rebuilt once the write landed.   *)

Enqueued(op, grant) ==
  /\ chain' = Append(chain, [op |-> op, grant |-> grant])
  /\ UNCHANGED << linkVars, pollVars, ticketVars, config, refresh, call >>

(* Connect Linear (completeLinearOauth, a pasted key), disconnect it        *)
(* (updateCredentials with an empty key), or save a settings form.          *)
UserChanges(op) ==
  /\ Happens
  /\ \/ op = "connect" /\ grants < MaxGrants /\ grants' = grants + 1
     \/ op # "connect" /\ UNCHANGED grants
  /\ Enqueued(op, grants')
  /\ UNCHANGED << file, reloadTimer, decision >>

(* What the user makes of the credential, from here on. *)
Decides(grant) ==
  /\ chosen' = grant
  /\ broughtBack' = FALSE

(* A hand edit of config.json: another repository table, or the key gone.   *)
(* The watcher arms its timer, and every change of the file arms it anew.   *)
HandEdit ==
  /\ Happens
  /\ \/ /\ file' = [file EXCEPT !.repos = ~@]
        /\ UNCHANGED decision
     \/ /\ file.cred # Disconnected
        /\ file' = [file EXCEPT !.cred = Disconnected]
        /\ Decides(0)
  /\ reloadTimer' = TRUE
  /\ UNCHANGED << linkVars, pollVars, ticketVars, config, chain, refresh, call, grants >>

(* CONFIG_RELOAD_DEBOUNCE_MS after the last of them, the reload queues. *)
FileSettles ==
  /\ reloadTimer
  /\ reloadTimer' = FALSE
  /\ Enqueued("reload", 0)
  /\ UNCHANGED << file, history >>

(* #resetLinearConnection: whatever hung on the old credential is void. *)
Reset(cred) ==
  /\ generation' = generation + 1
  /\ backoff' = FALSE
  /\ health' = "connected"
  /\ client' = (cred # Disconnected)
  /\ age' = "fresh"
  /\ refused' = FALSE

Connect ==
  /\ chain # << >> /\ Head(chain).op = "connect"
  /\ chain' = Tail(chain)
  /\ LET cred == [grant |-> Head(chain).grant, turn |-> 0]
     IN /\ Save([config EXCEPT !.cred = cred])
        /\ Reset(cred)
        /\ Decides(cred.grant)
  /\ AskPoll
  /\ UNCHANGED << ticketVars, refresh, call, grants, events >>

Disconnect ==
  /\ chain # << >> /\ Head(chain).op = "disconnect"
  /\ chain' = Tail(chain)
  /\ Save([config EXCEPT !.cred = Disconnected])
  /\ Reset(Disconnected)
  /\ Decides(0)
  /\ tickets' = {}
  /\ NotAsked
  /\ UNCHANGED << refresh, call, todo, revision, creating, listed, grants, events >>

(* updateSettings: the repository table changed, so tickets may resolve. *)
SaveSettings ==
  /\ chain # << >> /\ Head(chain).op = "settings"
  /\ chain' = Tail(chain)
  /\ SaveOver([config EXCEPT !.repos = ~@])
  /\ AskPoll
  /\ UNCHANGED << linkVars, ticketVars, refresh, call, grants, events >>

(* #reloadConfigFile: an own write comes back through the watcher as well,  *)
(* and equals the snapshot.                                                 *)
Reload ==
  /\ chain # << >> /\ Head(chain).op = "reload"
  /\ chain' = Tail(chain)
  /\ config' = file
  /\ IF file.cred # config.cred THEN Reset(file.cred) ELSE UNCHANGED linkVars
  /\ tickets' = IF file.cred # config.cred /\ file.cred = Disconnected THEN {} ELSE tickets
  /\ IF file.repos # config.repos THEN AskPoll ELSE NotAsked
  /\ UNCHANGED << file, reloadTimer, refresh, call, todo, revision, creating, listed, history >>

(* The host stops and starts again: what was on disk is what is left. *)
Restart ==
  /\ Happens
  /\ Fresh(file)
  /\ IF file.cred # config.cred THEN age' = "fresh" /\ refused' = FALSE
     ELSE UNCHANGED << age, refused >>
  /\ UNCHANGED << file, revision, listed, decision, grants >>

-----------------------------------------------------------------------------
ConnNext ==
  \/ TokenAges \/ Revoked \/ BackoffElapses
  \/ PollTimer \/ BeginPoll \/ CycleDone
  \/ RefreshFails \/ RefreshAnswers \/ Rotate
  \/ FetchAnswered \/ BoardCalls
  \/ Connect \/ Disconnect \/ SaveSettings \/ Reload
  \/ HandEdit \/ FileSettles \/ Restart
  \/ \E t \in Tickets : TicketEdited(t)
  \/ \E r \in listed : RunFinishes(r)
  \/ \E c \in Callers : CallAnswered(c) \/ CallFails(c) \/ CallRefused(c) \/ RetryRefused(c)
  \/ \E k \in tickets \cup todo : MaybeAutoQueue(k) \/ QueueTicket(k)
  \/ \E c \in creating : RunCreated(c)
  \/ \E op \in {"connect", "disconnect", "settings"} : UserChanges(op)

ConnSpec == ConnInit /\ [][ConnNext]_connVars

-----------------------------------------------------------------------------
(* Properties.                                                              *)

(* The types of the connector's state. *)
ConnTypeOK ==
  /\ config \in Configs /\ file \in Configs
  /\ chain \in Seq(Operations)
  /\ reloadTimer \in BOOLEAN
  /\ age \in {"fresh", "margin", "expired"}
  /\ refused \in BOOLEAN /\ client \in BOOLEAN /\ backoff \in BOOLEAN
  /\ generation \in Nat
  /\ health \in {"connected", "auth-error", "refresh-failing"}
  /\ refresh.at \in {"none", "asking", "saving"}
  /\ call \in [Callers -> [at : {"idle", "first", "recovering", "again"},
                           cred : Credentials, moved : BOOLEAN]]
  /\ polling \in {"idle", "begin", "refreshing", "fetching", "states", "queueing", "creating"}
  /\ pollAgain \in BOOLEAN /\ asked \in BOOLEAN
  /\ revision \in [Tickets -> 0 .. MaxEvents]

(* A reload is coming: its timer runs, or it waits for its turn. *)
ReloadDue == reloadTimer \/ \E i \in DOMAIN chain : chain[i].op = "reload"

(* No refresh that was in flight while the user connected another account,  *)
(* disconnected, or edited the key away in a file the host has loaded since *)
(* writes its tokens over that decision: the file carries the grant chosen  *)
(* last, and the configuration in force never differs from the file without *)
(* a reload to come. What it leaves out is a write of brevi's that lands    *)
(* before an edit is loaded (HandEditsStand).                               *)
LastDecisionStands ==
  /\ broughtBack \/ file.cred.grant = chosen
  /\ file # config => ReloadDue

(* The poll queues each revision of a ticket at most once, whatever overlaps *)
(* with it: settings changes, reconnections, clicks, restarts.              *)
QueuedOncePerRevision ==
  \A r, s \in { q \in listed : q.by = "poll" } : r.id = s.id /\ r.rev = s.rev => r = s

(* A poll asked for while a cycle runs is not swallowed by it: no cycle     *)
(* ends in idleness with a request that came after it began.                *)
EveryPollIsServed == asked => polling # "idle"

(* Polling neither repeats itself nor forgets. *)
PollsAreExact == QueuedOncePerRevision /\ EveryPollIsServed

(* Why they hold, for the proofs. *)
Grants == [grant : Nat, turn : Nat]
Queued == [op : {"connect", "disconnect", "settings", "reload", "rotate"}, grant : Nat]

ChosenInv ==
  /\ config \in [cred : Grants, repos : BOOLEAN]
  /\ file \in [cred : Grants, repos : BOOLEAN]
  /\ chain \in Seq(Queued)
  /\ refresh.cred \in Grants
  /\ grants \in Nat
  /\ LastDecisionStands

(* The poll's own call is out only while its cycle waits for it, it creates *)
(* one run at a time, of a revision that had none, and a request during a   *)
(* cycle brings another one.                                                *)
PollInv ==
  /\ call = [c \in Callers |-> call[c]]
  /\ \A c \in Callers :
       call[c] = [at |-> call[c].at, cred |-> call[c].cred, moved |-> call[c].moved]
  /\ call["poll"].at # "idle" => polling \in {"fetching", "states"}
  /\ asked \in BOOLEAN /\ pollAgain \in BOOLEAN
  /\ asked => pollAgain /\ polling # "idle"
  /\ \A r \in listed : r = [n |-> r.n, by |-> r.by, id |-> r.id, rev |-> r.rev, live |-> r.live]
  /\ QueuedOncePerRevision
  /\ \A c \in {d \in creating : d.by = "poll"} :
       /\ polling = "creating"
       /\ \A r \in listed : r.by = "poll" /\ r.id = c.id => r.rev # c.rev
       /\ \A d \in creating : d.by = "poll" => d = c

(* Not so in the code: a key edited away comes back with the next write of  *)
(* the configuration, when that one comes before the reload.                *)
HandEditsStand == ~broughtBack

(* Not so in the code: two ways to queue a ticket at once. *)
OneLiveRunPerTicket ==
  \A r, s \in listed : r.live /\ s.live /\ r.id = s.id => r = s

(* Not so in the code: a poll in flight across a disconnect. *)
TicketsHaveAConnection == tickets # {} /\ polling = "idle" => client

(* Not so in the code: a retry refused after a reconnect. *)
PausedOnlyOnDeadCredential == health = "auth-error" => refused \/ age = "expired"
=============================================================================
