----------------------------- MODULE ConnectFlow -----------------------------
(***************************************************************************)
(* Connecting GitHub or an agent's provider: a provider's row in each open *)
(* dashboard (apps/app ConnectorsSection.tsx) and the host's side of it    *)
(* (scheduler.ts, connectors.ts): the credentials found on this machine,   *)
(* the check each passes before it is written, and GitHub's device codes,  *)
(* whose polls go on while other rows, other clicks and the user's answer  *)
(* on github.com come in between.                                          *)
(*                                                                         *)
(* Linear, whose grant is refreshed and used by polls, is LinearConnector. *)
(***************************************************************************)
EXTENDS Naturals, Sequences

CONSTANTS Tabs,          \* dashboards open on the connectors page
          MaxClicks,     \* bound: requests the rows make
          MaxUpsets      \* bound: restarts of the host, rows left, and changes to
                         \* what its machine is logged in to

VARIABLES
  provider,   \* whose row this is
  onHost,     \* what there is to find on the host's machine, by kind
  slots,      \* config.json: the provider's key (or token) and its login
  device,     \* #githubDevice: the code it was started for, or 0
  codes,      \* GitHub's side: each device code is pending, approved, or over:
              \* used, denied or expired
  row,        \* the row's React state in each dashboard
  timers,     \* armed poll timers: whose, and for which code
  flows,      \* requests the host is working on or has answered
  news,       \* dashboards the last config event has yet to reach
  vouched,    \* (history) credentials their provider has accepted
  written,       \* (history) credentials that were written to config.json
  moves       \* what the bounds count

keepVars == << slots, device, vouched, written >>
worldVars == << provider, onHost, codes >>
pageVars == << row, timers, news >>
connectVars == << keepVars, worldVars, pageVars, flows, moves >>

Providers == {"github", "anthropic", "codex", "grok"}
Agents == Providers \ {"github"}

(* A credential is a key or a whole login, from this machine, a form or a   *)
(* device code, and in some health: an expired login can still be refreshed.*)
Secret(kind, from, h) == [kind |-> kind, from |-> from, health |-> h]
NoSecret == Secret("none", "none", "none")

Gone == "gone"      \* the tab of a row that was left

EmptyRow == [code |-> 0, busy |-> FALSE, manual |-> FALSE, told |-> NoSecret,
             sees |-> FALSE, ref |-> 0]

ConnectInit ==
  /\ provider \in Providers
  /\ onHost \in [key : {"none", "good", "dead"},
                  login : IF provider \in Agents THEN {"none", "expired"} ELSE {"none"}]
  /\ slots = [key |-> NoSecret, login |-> NoSecret]
  /\ device = 0 /\ codes = <<>>
  /\ row = [t \in Tabs |-> EmptyRow]
  /\ timers = {} /\ flows = {} /\ news = {}
  /\ vouched = {} /\ written = {}
  /\ moves = [clicks |-> 0, upsets |-> 0]

Upset == moves.upsets < MaxUpsets /\ moves' = [moves EXCEPT !.upsets = @ + 1]

Connected(s) == s.key # NoSecret \/ s.login # NoSecret

-----------------------------------------------------------------------------
(* The row. *)

NewFlow(t, op, stage, secret, code, polled) ==
  [tab |-> t, op |-> op, stage |-> stage, secret |-> secret, code |-> code,
   chain |-> polled, reply |-> "none", has |-> FALSE]

Requests(t, flow) ==
  /\ moves.clicks < MaxClicks
  /\ moves' = [moves EXCEPT !.clicks = @ + 1]
  /\ row' = [row EXCEPT ![t].busy = TRUE, ![t].told = NoSecret]
  /\ flows' = flows \cup {flow}
  /\ UNCHANGED << keepVars, worldVars, timers, news >>

PressConnect(t) ==
  /\ ~row[t].sees /\ ~row[t].busy /\ row[t].code = 0
  /\ Requests(t, NewFlow(t, "connect", "find", NoSecret, 0, 0))

PressDisconnect(t) ==
  /\ row[t].sees /\ ~row[t].busy
  /\ Requests(t, NewFlow(t, "clear", "write", NoSecret, 0, 0))

SaveKey(t, h) ==
  /\ row[t].manual /\ ~row[t].sees /\ ~row[t].busy
  /\ Requests(t, NewFlow(t, "save", "check", Secret("key", "form", h), 0, 0))

EnterByHand(t) ==
  /\ ~row[t].sees /\ ~row[t].manual /\ row[t].code = 0
  /\ row' = [row EXCEPT ![t].manual = TRUE]
  /\ UNCHANGED << keepVars, worldVars, timers, news, flows, moves >>

Timer(t, code) == [tab |-> t, code |-> code]

(* stopPolling: pollTimer names the timer armed last, and a poll in flight  *)
(* has none.                                                                *)
Unarmed(t) == timers \ {Timer(t, row[t].ref)}

PressCancel(t) ==
  /\ row[t].code # 0
  /\ row' = [row EXCEPT ![t].code = 0, ![t].ref = 0]
  /\ timers' = Unarmed(t)
  /\ UNCHANGED << keepVars, worldVars, news, flows, moves >>

(* The page moves elsewhere: the row is unmounted and its last timer        *)
(* cleared, but a poll in flight still has its callbacks.                   *)
LeavePage(t) ==
  /\ row[t] # EmptyRow /\ Upset
  /\ row' = [row EXCEPT ![t] = [EmptyRow EXCEPT !.sees = row[t].sees]]
  /\ timers' = {IF s.tab = t THEN Timer(Gone, s.code) ELSE s : s \in Unarmed(t)}
  /\ flows' = {IF f.tab = t THEN [f EXCEPT !.tab = Gone] ELSE f : f \in flows}
  /\ UNCHANGED << keepVars, worldVars, news >>

(* The effect on `connected`: a row that turns connected drops its code.    *)
Sees(t, r, has) ==
  IF has /\ ~r.sees THEN [r EXCEPT !.sees = TRUE, !.code = 0, !.ref = 0]
                    ELSE [r EXCEPT !.sees = has]

StopsOnSeeing(t, has) == IF has /\ ~row[t].sees THEN Unarmed(t) ELSE timers

HearConfig(t) ==
  /\ t \in news
  /\ news' = news \ {t}
  /\ row' = [row EXCEPT ![t] = Sees(t, @, Connected(slots))]
  /\ timers' = StopsOnSeeing(t, Connected(slots))
  /\ UNCHANGED << keepVars, worldVars, flows, moves >>

-----------------------------------------------------------------------------
(* The poll chain of a device code. *)

PollFires(s) ==
  /\ s \in timers
  /\ timers' = timers \ {s}
  /\ LET f == NewFlow(s.tab, "poll", "ask", NoSecret, device, s.code)
     IN  flows' = flows \cup {IF device # 0 THEN f
                              ELSE [f EXCEPT !.stage = "answer", !.reply = "error",
                                             !.has = Connected(slots)]}
  /\ UNCHANGED << keepVars, worldVars, row, news, moves >>

(* A failed poll that is not tried again, and the code's rule. *)
GivesUp(f) == f.op = "poll" /\ f.reply = "pending"

Rearms(f) == f.op = "poll" /\ f.reply \in {"pending", "failed"}

-----------------------------------------------------------------------------
(* The host. *)

Advances(f, g) == flows' = (flows \ {f}) \cup {g}
Replied(f, reply, has) == [f EXCEPT !.stage = "answer", !.reply = reply, !.has = has]
Replies(f, reply) == Advances(f, Replied(f, reply, Connected(slots)))

(* A key is looked for before a login (discover...Credential). *)
Discovered ==
  IF onHost.key # "none" THEN Secret("key", "machine", onHost.key)
  ELSE IF onHost.login # "none" THEN Secret("login", "machine", onHost.login)
  ELSE NoSecret

(* Nothing usable here: GitHub hands out a code, an agent asks for a key.   *)
FallsBack(f) ==
  IF provider = "github" THEN Advances(f, [f EXCEPT !.stage = "code"])
                         ELSE Replies(f, "manual")

Discover(f) ==
  /\ f.stage = "find"
  /\ IF Discovered # NoSecret
     THEN Advances(f, [f EXCEPT !.stage = "check", !.secret = Discovered])
     ELSE FallsBack(f)
  /\ UNCHANGED << keepVars, worldVars, pageVars, moves >>

(* The provider is asked, which may not answer. *)
Asked(c) == {c.health = "good", FALSE}

(* Codex's and Grok's logins can only be read, and pass when they can still *)
(* be refreshed.                                                            *)
Verdicts(c) ==
  IF c.kind = "login" /\ provider \in {"codex", "grok"}
  THEN {c.health \in {"good", "expired"}}
  ELSE Asked(c)

Check(f) ==
  /\ f.stage = "check"
  /\ \E ok \in Verdicts(f.secret) :
       IF ok
       THEN /\ vouched' = vouched \cup {f.secret}
            /\ Advances(f, [f EXCEPT !.stage = "write"])
       ELSE /\ UNCHANGED vouched
            /\ CASE f.op = "connect" -> FallsBack(f)
                 [] f.op = "save" -> Replies(f, "rejected")
                 [] f.op = "poll" -> Replies(f, "error")
  /\ UNCHANGED << slots, device, written, worldVars, pageVars, moves >>

(* What a write does to the two slots: a key from a form (or a disconnect)  *)
(* replaces the login too; what was found replaces both for Grok only.      *)
Applied(f) ==
  CASE f.op \in {"save", "clear"} -> [key |-> f.secret, login |-> NoSecret]
    [] f.op = "poll" -> [slots EXCEPT !.key = f.secret]
    [] f.op = "connect" ->
         LET other == IF provider = "grok" THEN [key |-> NoSecret, login |-> NoSecret]
                                           ELSE slots
         IN  [other EXCEPT ![f.secret.kind] = f.secret]

SaveCredential(f) ==
  /\ f.stage = "write"
  /\ slots' = Applied(f)
  /\ written' = written \cup ({f.secret} \ {NoSecret})
  /\ news' = Tabs
  /\ Advances(f, Replied(f, IF f.op = "clear" THEN "disconnected" ELSE "connected",
                         Connected(slots')))
  /\ UNCHANGED << device, vouched, worldVars, row, timers, moves >>

SaveFails(f) ==
  /\ f.stage = "write"
  /\ Replies(f, "failed")
  /\ UNCHANGED << keepVars, worldVars, pageVars, moves >>

(* startGithubDeviceFlow: the newest code is the host's one session. *)
HandOutCode(f) ==
  /\ f.stage = "code"
  /\ codes' = Append(codes, "pending")
  /\ device' = Len(codes')
  /\ Advances(f, [Replied(f, "device", Connected(slots)) EXCEPT !.code = Len(codes')])
  /\ UNCHANGED << slots, vouched, written, provider, onHost, pageVars, moves >>

NoCodeToHandOut(f) ==
  /\ f.stage = "code"
  /\ \E reply \in {"manual", "failed"} : Replies(f, reply)
  /\ UNCHANGED << keepVars, worldVars, pageVars, moves >>

(* pollGithubDeviceFlow, and what pollGithubDevice makes of the outcome:    *)
(* any end of any session clears the one the host has by then.              *)
AskGithub(f) ==
  /\ f.stage = "ask"
  /\ CASE codes[f.code] = "pending" ->
            Replies(f, "pending") /\ UNCHANGED << device, codes >>
       [] codes[f.code] = "approved" ->
            /\ device' = 0
            /\ codes' = [codes EXCEPT ![f.code] = "over"]
            /\ Advances(f, [f EXCEPT !.stage = "check",
                                     !.secret = Secret("key", "device", "good")])
       [] codes[f.code] = "over" ->
            Replies(f, "error") /\ device' = 0 /\ UNCHANGED codes
  /\ UNCHANGED << slots, vouched, written, provider, onHost, pageVars, moves >>

GithubUnreachable(f) ==
  /\ f.stage = "ask"
  /\ Replies(f, "failed")
  /\ UNCHANGED << keepVars, worldVars, pageVars, moves >>

-----------------------------------------------------------------------------
(* The answers, in the order they happen to arrive. *)

Heard(t, f) ==
  LET told == [row[t] EXCEPT !.busy = (f.op = "poll" /\ @)]
  IN  CASE f.reply = "connected" ->
             Sees(t, [told EXCEPT !.told = f.secret, !.manual = (f.op = "poll" /\ @),
                                  !.code = IF f.op = "poll" THEN 0 ELSE @], f.has)
        [] f.reply = "disconnected" -> Sees(t, [told EXCEPT !.manual = FALSE], f.has)
        [] f.reply = "rejected" -> Sees(t, told, f.has)
        [] f.reply = "device" -> [told EXCEPT !.code = f.code, !.ref = f.code]
        [] f.reply = "manual" -> [told EXCEPT !.manual = TRUE]
        [] f.reply = "error" -> [told EXCEPT !.code = 0, !.told = NoSecret]
        [] Rearms(f) -> [told EXCEPT !.ref = f.chain]
        [] OTHER -> [told EXCEPT !.told = NoSecret]

Answer(f) ==
  /\ f.stage = "answer" /\ f.tab \in Tabs
  /\ flows' = flows \ {f}
  /\ row' = [row EXCEPT ![f.tab] = Heard(f.tab, f)]
  /\ timers' =
       CASE f.reply \in {"connected", "disconnected", "rejected"} -> StopsOnSeeing(f.tab, f.has)
         [] f.reply = "device" -> timers \cup {Timer(f.tab, f.code)}
         [] Rearms(f) -> timers \cup {Timer(f.tab, f.chain)}
         [] OTHER -> timers
  /\ UNCHANGED << keepVars, worldVars, news, moves >>

(* Nobody's row any more, but its callbacks still arm the next poll.        *)
AnswerNobody(f) ==
  /\ f.stage = "answer" /\ f.tab = Gone
  /\ flows' = flows \ {f}
  /\ timers' = CASE Rearms(f) -> timers \cup {Timer(Gone, f.chain)}
                [] f.reply = "device" -> timers \cup {Timer(Gone, f.code)}
                [] OTHER -> timers
  /\ UNCHANGED << keepVars, worldVars, row, news, moves >>

-----------------------------------------------------------------------------
(* The host stops and starts: its session and its requests are gone, which  *)
(* the rows hear as failures, and a reconnecting page gets the config.      *)

Failing == {Replied(f, "failed", FALSE) : f \in flows}

HostComesBack ==
  /\ Upset
  /\ device' = 0
  /\ flows' = Failing
  /\ news' = Tabs
  /\ UNCHANGED << slots, vouched, written, worldVars, row, timers >>

(* The world: a code is approved, or denied or run out, which matters while *)
(* somebody can still ask about it; and the machine's logins change.        *)
CodeMoves(c, to) ==
  /\ c = device \/ \E f \in flows : f.op = "poll" /\ f.code = c
  /\ codes[c] = "pending" \/ (codes[c] = "approved" /\ to = "over")
  /\ codes' = [codes EXCEPT ![c] = to]
  /\ UNCHANGED << keepVars, provider, onHost, pageVars, flows, moves >>

MachineMoves(kind, h) ==
  /\ kind = "login" => provider \in Agents
  /\ onHost[kind] # h
  /\ Upset
  /\ onHost' = [onHost EXCEPT ![kind] = h]
  /\ UNCHANGED << keepVars, provider, codes, pageVars, flows >>

ConnectNext ==
  \/ \E t \in Tabs :
       \/ PressConnect(t) \/ PressDisconnect(t) \/ EnterByHand(t) \/ PressCancel(t)
       \/ LeavePage(t) \/ HearConfig(t)
       \/ \E h \in {"good", "dead"} : SaveKey(t, h)
  \/ \E s \in timers : PollFires(s)
  \/ \E f \in flows :
       \/ Discover(f) \/ Check(f) \/ SaveCredential(f) \/ SaveFails(f)
       \/ HandOutCode(f) \/ NoCodeToHandOut(f) \/ AskGithub(f) \/ GithubUnreachable(f)
       \/ Answer(f) \/ AnswerNobody(f)
  \/ HostComesBack
  \/ \E c \in DOMAIN codes, to \in {"approved", "over"} : CodeMoves(c, to)
  \/ \E kind \in {"key", "login"}, h \in {"none", "good", "dead"} :
       MachineMoves(kind, h)

-----------------------------------------------------------------------------

\* Somebody is still polling for the code a row shows.
Watched(t) ==
  \/ Timer(t, row[t].code) \in timers
  \/ \E f \in flows : f.op = "poll" /\ f.tab = t /\ f.chain = row[t].code

\* What a row tells its user is backed, whatever was cancelled, left, answered
\* late or restarted in between: a code it shows is still being polled for, and a
\* credential it calls connected was accepted by its provider and written
\* (ConnectorsSection.tsx pollDevice, connectors.ts, credentials.ts: "Validate a
\* credential against its provider before saving it").
RowsAreBacked ==
  /\ \A t \in Tabs :
       /\ row[t].code # 0 => Watched(t)
       /\ row[t].told # NoSecret => row[t].told \in vouched \cap written
  /\ {slots.key, slots.login} \ {NoSecret} \subseteq vouched

-----------------------------------------------------------------------------
(* What RowsAreBacked needs to be inductive *)

ASSUME ConnectAssumption == Gone \notin Tabs

Secrets == [kind : {"none", "key", "login"},
                from : {"none", "machine", "form", "device"},
                health : {"none", "good", "expired", "dead"}]

ConnectTypeOK ==
  /\ row \in [Tabs -> [code : Nat, busy : BOOLEAN, manual : BOOLEAN,
                       told : Secrets, sees : BOOLEAN, ref : Nat]]
  /\ flows \subseteq [tab : Tabs \cup {Gone}, op : {"connect", "clear", "save", "poll"},
                      stage : {"find", "check", "write", "code", "ask", "answer"},
                      secret : Secrets, code : Nat, chain : Nat,
                      reply : {"none", "manual", "rejected", "error", "failed", "device",
                               "pending", "connected", "disconnected"},
                      has : BOOLEAN]
  /\ timers \subseteq [tab : Tabs \cup {Gone}, code : Nat]
  /\ slots \in [key : Secrets, login : Secrets]
  /\ onHost \in [key : {"none", "good", "dead"}, login : {"none", "expired", "good", "dead"}]
  /\ codes \in Seq({"pending", "approved", "over"}) /\ device \in 0 .. Len(codes)
  /\ \A f \in flows : f.code \in 0 .. Len(codes)

\* What a request can be about at each stage: it writes only what was accepted,
\* and answers "connected" only once that is written; only a poll is answered like
\* one, and never in a way that ends its chain and leaves its code in the row.
FlowOK(f) ==
  /\ f.stage \in {"find", "code"} => f.op = "connect"
  /\ f.stage = "check" => f.op # "clear" /\ f.secret.kind # "none"
  /\ f.stage = "write" =>
       IF f.op = "clear" THEN f.secret = NoSecret
                         ELSE f.secret.kind # "none" /\ f.secret \in vouched
  /\ f.stage = "ask" => f.op = "poll" /\ f.code # 0
  /\ f.stage = "answer" =>
       /\ f.reply # "none"
       /\ f.reply = "connected" => f.op # "clear" /\ f.secret \in vouched \cap written
       /\ f.reply = "disconnected" => f.op = "clear"
       /\ f.reply = "rejected" => f.op = "save"
       /\ f.reply \in {"device", "manual"} => f.op = "connect"
       /\ f.reply = "pending" => f.op = "poll"

ConnectInv == ConnectTypeOK /\ RowsAreBacked /\ \A f \in flows : FlowOK(f)

ConnectSpec == ConnectInit /\ [][ConnectNext]_connectVars
===============================================================================
