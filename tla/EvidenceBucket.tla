---------------------------- MODULE EvidenceBucket ----------------------------
(***************************************************************************)
(* Connecting the public R2 bucket that runs' evidence goes to: the row in *)
(* each dashboard (apps/app ConnectorsSection.tsx R2Row, lib/settings.ts), *)
(* the host's one-click flow (scheduler.ts connectR2, r2Status,            *)
(* integrations r2.ts provisionBucket), the wrangler login on the host's   *)
(* machine, and the buckets of the account, in which the user also works.  *)
(*                                                                         *)
(* A public URL is the bucket it serves; "custom" is a domain of the       *)
(* user's. Empty fields of the configuration are Blank.                    *)
(***************************************************************************)
EXTENDS Integers

CONSTANTS Pages,       \* dashboards open on the connectors page
          DefaultName, \* DEFAULT_EVIDENCE_BUCKET
          OtherNames,  \* names of the user's own buckets
          MaxPresses,  \* bound: clicks of Connect and Save in each page
          MaxTyped,    \* bound: edits of the bucket form
          MaxTwists    \* bound: what happens outside brevi

VARIABLES
  buckets,    \* the account: each name absent, private or public
  exposed,    \* (history) buckets made public by a call that had not created them
  cli,        \* wrangler on the host: missing, out or in
  loginRuns,  \* #r2Login
  r2,         \* config.r2
  panel,      \* the row's React state in each page
  asks,       \* requests being served
  due,        \* pages the last config event has yet to reach
  credit,     \* (history) logins started less connects made without a click, per page
  since,      \* (history) the connects made without a click since Connect was last
              \* clicked, per page: clicked (none yet), once or more; none is no click yet
  counts      \* what the bounds count

accountVars == << buckets, exposed >>
clickHistory == << credit, since >>
machineVars == << cli, loginRuns >>
browserVars == << panel, due, clickHistory >>
bucketVars == << accountVars, machineVars, r2, browserVars, asks, counts >>

Names == {DefaultName} \cup OtherNames
Blank == "blank"
NoR2 == [bucket |-> Blank, url |-> Blank]
Whole(c) == c.bucket # Blank /\ c.url # Blank

Unknown == [known |-> FALSE, installed |-> FALSE, in |-> FALSE, ready |-> FALSE]

(* A probe that runs into its deadline reports a login as absent. *)
Probes ==
  CASE cli = "missing" -> {[installed |-> FALSE, in |-> FALSE]}
    [] cli = "out" -> {[installed |-> TRUE, in |-> FALSE]}
    [] cli = "in" -> {[installed |-> TRUE, in |-> TRUE], [installed |-> TRUE, in |-> FALSE]}

Status(probe) == [known |-> TRUE, installed |-> probe.installed, in |-> probe.in,
                  ready |-> probe.in /\ Whole(r2)]

Ask(p, op) == [page |-> p, op |-> op, stage |-> "probe", name |-> Blank,
               made |-> FALSE, reply |-> "none", status |-> Unknown, entries |-> NoR2]

Row == [status |-> Unknown, pending |-> FALSE, detail |-> FALSE, armed |-> FALSE,
        timer |-> FALSE, entries |-> NoR2, saving |-> FALSE]

BucketInit ==
  /\ buckets = [b \in Names |-> "absent"]
  /\ exposed = {}
  /\ cli \in {"missing", "out", "in"} /\ loginRuns = FALSE
  /\ r2 = NoR2
  /\ panel = [p \in Pages |-> Row]
  /\ asks = {Ask(p, "refresh") : p \in Pages}
  /\ due = {} /\ credit = [p \in Pages |-> 0]
  /\ since = [p \in Pages |-> "none"]
  /\ counts = [presses |-> [p \in Pages |-> 0], typed |-> 0, twists |-> 0]

-----------------------------------------------------------------------------
(* The row. *)

(* connect() *)
Connecting(view) == [view EXCEPT !.pending = TRUE, !.detail = FALSE]

(* The effect on a status whose loggedIn or ready is new: a login that was  *)
(* waited for goes on to provision, once.                                   *)
Turns(view, status) ==
  status.in /\ (~view.status.in \/ view.status.ready # status.ready)

GoesOn(view, status) == Turns(view, status) /\ ~status.ready /\ view.armed

Shows(view, status) ==
  LET now == [view EXCEPT !.status = status]
  IN  IF GoesOn(view, status)
      THEN Connecting([now EXCEPT !.timer = FALSE, !.armed = FALSE])
      ELSE IF Turns(view, status)
      THEN [now EXCEPT !.timer = FALSE, !.detail = FALSE]
      ELSE now

PressConnectR2(p) ==
  /\ panel[p].status.installed /\ ~panel[p].status.ready
  /\ ~panel[p].pending /\ ~panel[p].detail
  /\ counts.presses[p] < MaxPresses
  /\ counts' = [counts EXCEPT !.presses[p] = @ + 1]
  /\ panel' = [panel EXCEPT ![p] = Connecting(@)]
  /\ asks' = asks \cup {Ask(p, "connect")}
  /\ since' = [since EXCEPT ![p] = "clicked"]
  /\ UNCHANGED << accountVars, machineVars, r2, due, credit >>

(* Bound: one refresh of a row at a time. *)
Refreshing(p) == \E a \in asks : a.page = p /\ a.op = "refresh"

Recheck(p) ==
  /\ panel[p].status.known /\ ~panel[p].status.installed
  /\ ~Refreshing(p)
  /\ asks' = asks \cup {Ask(p, "refresh")}
  /\ UNCHANGED << accountVars, machineVars, r2, browserVars, counts >>

LoginPollFires(p) ==
  /\ panel[p].timer
  /\ panel' = [panel EXCEPT ![p].timer = FALSE]
  /\ asks' = asks \cup {Ask(p, "poll")}
  /\ UNCHANGED << accountVars, machineVars, r2, due, clickHistory, counts >>

(* The bucket form, whose entries a page keeps until they are saved,        *)
(* cancelled, or made stale by a connect.                                   *)
TypeField(p, field, value) ==
  /\ counts.typed < MaxTyped
  /\ counts' = [counts EXCEPT !.typed = @ + 1]
  /\ panel' = [panel EXCEPT ![p].entries[field] = value]
  /\ UNCHANGED << accountVars, machineVars, r2, due, clickHistory, asks >>

CancelEdit(p) ==
  /\ panel[p].entries # NoR2 /\ ~panel[p].saving
  /\ panel' = [panel EXCEPT ![p].entries = NoR2]
  /\ UNCHANGED << accountVars, machineVars, r2, due, clickHistory, asks, counts >>

SaveBucketForm(p) ==
  /\ panel[p].entries # NoR2 /\ ~panel[p].saving
  /\ counts.presses[p] < MaxPresses
  /\ counts' = [counts EXCEPT !.presses[p] = @ + 1]
  /\ panel' = [panel EXCEPT ![p].saving = TRUE]
  /\ asks' = asks \cup {[Ask(p, "save") EXCEPT !.stage = "write", !.entries = panel[p].entries]}
  /\ UNCHANGED << accountVars, machineVars, r2, due, clickHistory >>

(* A config event with another bucket or URL makes the row ask again. *)
HearBucket(p) ==
  /\ p \in due /\ ~Refreshing(p)
  /\ due' = due \ {p}
  /\ asks' = asks \cup {Ask(p, "refresh")}
  /\ UNCHANGED << accountVars, machineVars, r2, panel, clickHistory, counts >>

-----------------------------------------------------------------------------
(* The host: connectR2 and provisionBucket, a wrangler command at a time,   *)
(* any of which may fail.                                                   *)

MovesOn(a, b) == asks' = (asks \ {a}) \cup {b}
To(a, stage) == [a EXCEPT !.stage = stage]
Reports(a, reply) == [a EXCEPT !.stage = "status", !.reply = reply]
Ends(a, reply) == [a EXCEPT !.stage = "answer", !.reply = reply]

ProbeConnect(a) ==
  /\ a.stage = "probe" /\ a.op = "connect"
  /\ \E probe \in Probes :
       /\ loginRuns' = (loginRuns \/ (probe.installed /\ ~probe.in))
       /\ MovesOn(a, IF ~probe.installed THEN Ends(a, "unavailable")
                     ELSE IF ~probe.in THEN Ends(a, "login-started")
                     ELSE IF Whole(r2) THEN Reports(a, "connected")
                     ELSE [To(a, "create") EXCEPT
                             !.name = IF r2.bucket = Blank THEN DefaultName ELSE r2.bucket])
  /\ UNCHANGED << accountVars, cli, r2, browserVars, counts >>

Works == cli = "in"

CreateBucket(a) ==
  /\ a.stage = "create"
  /\ \/ /\ Works /\ buckets[a.name] = "absent"
        /\ buckets' = [buckets EXCEPT ![a.name] = "private"]
        /\ MovesOn(a, [To(a, "enable") EXCEPT !.made = TRUE])
     \/ /\ Works /\ buckets[a.name] # "absent"
        /\ UNCHANGED buckets
        /\ MovesOn(a, To(a, "read"))
     \/ MovesOn(a, Reports(a, "provision-failed")) /\ UNCHANGED buckets
  /\ UNCHANGED << exposed, machineVars, r2, browserVars, counts >>

(* A bucket that was there: made public all the same, and the code's rule,  *)
(* by which its URL is only read.                                           *)
EnabledAnyway(a) == To(a, "enable")

Reused(a) ==
  IF Works /\ buckets[a.name] = "public" THEN To(a, "write")
                                         ELSE Reports(a, "provision-failed")

ReadUrl(a) ==
  /\ a.stage = "read"
  /\ MovesOn(a, Reused(a))
  /\ UNCHANGED << accountVars, machineVars, r2, browserVars, counts >>

(* The command can take effect without its answer being read. *)
EnableUrl(a) ==
  /\ a.stage = "enable"
  /\ \/ /\ Works
        /\ buckets' = [buckets EXCEPT ![a.name] = "public"]
        /\ exposed' = exposed \cup (IF a.made THEN {} ELSE {a.name})
        /\ \/ MovesOn(a, To(a, "write"))
           \/ MovesOn(a, Reports(a, "provision-failed"))
     \/ MovesOn(a, Reports(a, "provision-failed")) /\ UNCHANGED << buckets, exposed >>
  /\ UNCHANGED << machineVars, r2, browserVars, counts >>

(* #updateConfig with what was provisioned, or with a form's patch. *)
Patched(a) ==
  IF a.op = "connect" THEN [bucket |-> a.name, url |-> a.name]
  ELSE [f \in {"bucket", "url"} |-> IF a.entries[f] = Blank THEN r2[f] ELSE a.entries[f]]

WriteR2(a) ==
  /\ a.stage = "write"
  /\ r2' = Patched(a)
  /\ due' = IF r2' = r2 THEN due ELSE Pages
  /\ MovesOn(a, IF a.op = "connect" THEN Reports(a, "connected") ELSE Ends(a, "saved"))
  /\ UNCHANGED << accountVars, machineVars, panel, clickHistory, counts >>

R2WriteFails(a) ==
  /\ a.stage = "write"
  /\ MovesOn(a, Ends(a, "failed"))
  /\ UNCHANGED << accountVars, machineVars, r2, browserVars, counts >>

(* r2Status, for a page or at the end of connectR2. *)
ProbeStatus(a) ==
  /\ a.stage = "status" \/ (a.stage = "probe" /\ a.op # "connect")
  /\ \E probe \in Probes :
       MovesOn(a, [Ends(a, IF a.reply = "none" THEN "status" ELSE a.reply) EXCEPT
                     !.status = Status(probe)])
  /\ UNCHANGED << accountVars, machineVars, r2, browserVars, counts >>

-----------------------------------------------------------------------------
(* The answers. *)

(* What the row still has to wait for is given up at the poll's deadline.   *)
PollAgain(view) == {[view EXCEPT !.timer = TRUE], [view EXCEPT !.detail = FALSE]}

Unsaved(view, submitted) ==
  [f \in {"bucket", "url"} |-> IF view.entries[f] = submitted[f] THEN Blank ELSE view.entries[f]]

Results(view, a) ==
  LET done == IF a.op = "connect" THEN [view EXCEPT !.pending = FALSE] ELSE view
      shown == IF a.status.known
               THEN Shows(IF a.reply = "connected" THEN [done EXCEPT !.entries = NoR2]
                                                   ELSE done, a.status)
               ELSE done
  IN  CASE a.op = "poll" /\ ~a.status.in -> PollAgain(shown)
        [] a.reply = "login-started" ->
             {[done EXCEPT !.armed = TRUE, !.detail = TRUE, !.timer = TRUE]}
        [] a.op = "save" ->
             {[view EXCEPT !.saving = FALSE,
                          !.entries = IF a.reply = "saved" THEN Unsaved(view, a.entries) ELSE @]}
        [] OTHER -> {shown}

Unclicked == [none |-> "unasked", clicked |-> "once", once |-> "more", more |-> "more",
              unasked |-> "unasked"]

AnswerR2(a) ==
  LET p == a.page
      auto == a.status.known /\ GoesOn(panel[p], a.status)
  IN  /\ a.stage = "answer"
      /\ \E view \in Results(panel[p], a) : panel' = [panel EXCEPT ![p] = view]
      /\ asks' = (asks \ {a}) \cup (IF auto THEN {Ask(p, "connect")} ELSE {})
      /\ credit' = [credit EXCEPT ![p] = @ + (IF a.reply = "login-started" THEN 1 ELSE 0)
                                           - (IF auto THEN 1 ELSE 0)]
      /\ since' = [since EXCEPT ![p] = IF auto THEN Unclicked[@] ELSE @]
      /\ UNCHANGED << accountVars, machineVars, r2, due, counts >>

-----------------------------------------------------------------------------
(* The world: wrangler login ends, the user installs or uses wrangler and   *)
(* the account by hand.                                                     *)

LoginEnds ==
  /\ loginRuns
  /\ loginRuns' = FALSE
  /\ cli' \in {cli} \cup (IF cli = "out" THEN {"in"} ELSE {})
  /\ UNCHANGED << accountVars, r2, browserVars, asks, counts >>

Twist == counts.twists < MaxTwists /\ counts' = [counts EXCEPT !.twists = @ + 1]

CliMoves(to) ==
  /\ cli # to /\ Twist
  /\ cli' = to
  /\ UNCHANGED << accountVars, loginRuns, r2, browserVars, asks >>

UserMoves(b, to) ==
  /\ buckets[b] = "absent" \/ (buckets[b] = "private" /\ to = "public")
  /\ Twist
  /\ buckets' = [buckets EXCEPT ![b] = to]
  /\ UNCHANGED << exposed, machineVars, r2, browserVars, asks >>

BucketNext ==
  \/ \E p \in Pages :
       \/ PressConnectR2(p) \/ Recheck(p) \/ LoginPollFires(p)
       \/ CancelEdit(p) \/ SaveBucketForm(p) \/ HearBucket(p)
       \/ \E b \in Names : TypeField(p, "bucket", b)
       \/ TypeField(p, "url", "custom")
  \/ \E a \in asks :
       \/ ProbeConnect(a) \/ CreateBucket(a) \/ ReadUrl(a) \/ EnableUrl(a)
       \/ WriteR2(a) \/ R2WriteFails(a) \/ ProbeStatus(a) \/ AnswerR2(a)
  \/ LoginEnds
  \/ \E to \in {"out", "in"} : CliMoves(to)
  \/ \E b \in Names, to \in {"private", "public"} : UserMoves(b, to)

BucketSpec == BucketInit /\ [][BucketNext]_bucketVars

-----------------------------------------------------------------------------

\* Whatever clicks, polls, forms and the user's own work on the account come in
\* between, a provisioning turns public access on only for the bucket it has just created
\* (r2.ts provisionBucket: "public access is never turned on for a bucket this call did
\* not create, so pre-existing private contents cannot be exposed by a click"),
\* no row connects by itself in a page where Connect was never clicked, however wrangler
\* came to be logged in, and none does so more often than a connect of its page was
\* answered with a login that was started, so a failed provisioning does not loop
\* (ConnectorsSection.tsx autoProvisioned). The login may be one the row's own connect
\* started, when its probe missed the one there was (OneConnectPerClick).
PublishingIsAskedFor ==
  /\ exposed = {}
  /\ \A p \in Pages : credit[p] >= 0 /\ since[p] # "unasked"

\* Why it holds, for the proof: a request turns public access on only with a bucket of its
\* own in hand, and only one that has probed says how things are, ...
AsksShapes ==
  \A a \in asks :
    /\ a = [page |-> a.page, op |-> a.op, stage |-> a.stage, name |-> a.name, made |-> a.made,
            reply |-> a.reply, status |-> a.status, entries |-> a.entries]
    /\ a.page \in Pages
    /\ a.stage = "enable" => a.made = TRUE
    /\ a.stage # "answer" => a.reply # "login-started" /\ a.status.known = FALSE
    /\ a.reply = "login-started" => a.op = "connect" /\ a.status.known = FALSE
    /\ a.op = "save" => a.stage \in {"write", "answer"} /\ a.status.known = FALSE

\* ... and a row that is armed has a login that was started and not used yet.
ArmedRowsHaveCredit ==
  /\ panel = [p \in Pages |-> panel[p]] /\ credit \in [Pages -> Int]
  /\ \A p \in Pages :
       /\ panel[p] = [status |-> panel[p].status, pending |-> panel[p].pending,
                      detail |-> panel[p].detail, armed |-> panel[p].armed,
                      timer |-> panel[p].timer, entries |-> panel[p].entries,
                      saving |-> panel[p].saving]
       /\ panel[p].armed \in BOOLEAN
       /\ credit[p] >= IF panel[p].armed THEN 1 ELSE 0

\* A page that is armed, or has a connect on its way, has had a click.
ClickedFirst ==
  /\ since \in [Pages -> {"none", "clicked", "once", "more"}]
  /\ \A p \in Pages : panel[p].armed => since[p] # "none"
  /\ \A a \in asks : a.op = "connect" => since[a.page] # "none"

BucketInv == exposed = {} /\ AsksShapes /\ ArmedRowsHaveCredit /\ ClickedFirst

\* Not so in the code: the answer login-started arms the row whoever asked, so a connect
\* the row made by itself can be followed by another one.
OneConnectPerClick == \A p \in Pages : since[p] # "more"
===============================================================================
