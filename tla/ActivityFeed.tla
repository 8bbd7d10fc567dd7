---------------------------- MODULE ActivityFeed ----------------------------
(***************************************************************************)
(* The activity feed of one run: what the worker logs of an agent's stream *)
(* (packages/worker/src/runner.ts) and what the dashboard makes of the log *)
(* (apps/app/src/lib/activity.ts, drawn by components/Activity.tsx).       *)
(*                                                                         *)
(* The feed is a fold over the log, computed anew whenever the log grows.  *)
(* An agent speaks one of three formats: Claude's stream, Codex's items,   *)
(* which every process numbers from the start, or Codex's older envelopes. *)
(* A call is a command or an edit: other tools have rows like an edit's,   *)
(* without the diff. `calls` is a history, of which the feed reads only    *)
(* what was called. An event is lost when the worker's replay buffer had   *)
(* no room for it.                                                         *)
(***************************************************************************)
EXTENDS Naturals, Sequences, SequencesExt, FiniteSets, FiniteSetsExt

CONSTANTS
  Edits,         \* the edits an agent may make: lines before and after
  HeaderLike,    \* lines that with their sign in front begin like a file's header
  MaxTable,      \* diffLines' largest table (250,000 cells)
  MaxCalls,      \* bound: calls
  MaxProcesses,  \* bound: processes of the agent, each killed before the next
  MaxTurns       \* bound: spells of thinking, messages and lost events together,
                 \* a spell without its beginning counting once

VARIABLES
  format,
  nth,           \* how many processes of the agent there have been
  calls,         \* the calls made: what, in which process, how they ended, and
                 \* (history) whether the log has their beginning and their end
  inMessage, thinking,   \* where Claude's own stream is
  startedAt,     \* thinkingTracker knows of a block
  log,           \* the run's events
  unclosed,      \* (history) a spell whose beginning or end the log does not have
  feedSpent      \* what the bounds count

feedVars == << format, nth, calls, inMessage, thinking, startedAt, log, unclosed,
               feedSpent >>

-----------------------------------------------------------------------------
(* Diffs. *)

Signed(sign, lines) == [i \in DOMAIN lines |-> [sign |-> sign, text |-> lines[i]]]
With(diff, signs) == SelectSeq(diff, LAMBDA l : l.sign \in signs)
TextsOf(diff) == [i \in DOMAIN diff |-> diff[i].text]

(* How long a common subsequence a has with b from i and from j on.         *)
Lcs(a, b) ==
  LET lcs[i \in 1 .. Len(a) + 1, j \in 1 .. Len(b) + 1] ==
        IF i > Len(a) \/ j > Len(b) THEN 0
        ELSE IF a[i] = b[j] THEN lcs[i + 1, j + 1] + 1
        ELSE Max({lcs[i + 1, j], lcs[i, j + 1]})
  IN  lcs

(* Too large a table removes all and adds all. *)
DiffLines(a, b) ==
  LET lcs == Lcs(a, b)
      diff[i \in 1 .. Len(a) + 1, j \in 1 .. Len(b) + 1] ==
        IF i > Len(a) THEN Signed("+", SubSeq(b, j, Len(b)))
        ELSE IF j > Len(b) THEN Signed("-", SubSeq(a, i, Len(a)))
        ELSE IF a[i] = b[j] THEN Signed(" ", << a[i] >>) \o diff[i + 1, j + 1]
        ELSE IF lcs[i + 1, j] >= lcs[i, j + 1]
             THEN Signed("-", << a[i] >>) \o diff[i + 1, j]
             ELSE Signed("+", << b[j] >>) \o diff[i, j + 1]
  IN  IF Len(a) * Len(b) > MaxTable THEN Signed("-", a) \o Signed("+", b) ELSE diff[1, 1]

(* A patch of an edit as Codex writes it: the file's header, a hunk's, the  *)
(* changed lines, and the blank that a last newline leaves.                 *)
Patch(edit) ==
  Signed("header", << "old", "new" >>) \o Signed("@", << "hunk" >>)
  \o Signed("-", edit.before) \o Signed("+", edit.after) \o Signed(" ", << "" >>)

(* What begins like a header goes, and so do blanks at the end.             *)
ParseUnifiedDiff(patch) ==
  LET Kept(l) == l.sign # "header" /\ ~(l.sign \in {"+", "-"} /\ l.text \in HeaderLike)
      kept == SelectSeq(patch, Kept)
      Blank(l) == l = [sign |-> " ", text |-> ""]
      last == Max({0} \cup {i \in DOMAIN kept : ~Blank(kept[i])})
  IN  SubSeq(kept, 1, last)

-----------------------------------------------------------------------------
(* The feed. *)

Begun(n, id)         == [type |-> "begins", id |-> id, call |-> n]
Ends(n, id, ok)      == [type |-> "ends", id |-> id, call |-> n, ok |-> ok]
Completed(n, id, ok) == [type |-> "completed", id |-> id, call |-> n, ok |-> ok]
Thinking(phase, ms)  == [type |-> "thinking", phase |-> phase, ms |-> ms]

(* The row of a call (claudeToolItem, or Codex's kinds of item).            *)
RowOf(n, ok) ==
  LET c == calls[n]
  IN  [kind |-> "call", call |-> n, ok |-> ok, running |-> c.tool = "command" /\ ok = "unknown",
       diff |-> IF c.tool # "edit" THEN << >>
                ELSE IF format = "claude" THEN DiffLines(c.edit.before, c.edit.after)
                ELSE ParseUnifiedDiff(Patch(c.edit))]
Said == [kind |-> "message"]
Thought(e) == [kind |-> "thought", ms |-> e.ms, pending |-> e.phase = "started"]

(* Feed.push and Feed.resolve: the row that waits for the result of an id.  *)
Shows(feed, row) == [feed EXCEPT !.rows = Append(@, row)]
Awaits(feed, row, id) ==
  [rows |-> Append(feed.rows, row),
   open |-> {o \in feed.open : o.id # id} \cup {[id |-> id, at |-> Len(feed.rows) + 1]}]

\* Slip: the result goes to the row that has waited the shortest (FeedTellsTheWork).
OpenLatest(feed, id) ==
  {o \in feed.open : \A p \in feed.open : p.at <= o.at}
OpenCalls(feed, id) == {o \in feed.open : o.id = id}

Resolves(feed, id, ok) ==
  [rows |-> [i \in DOMAIN feed.rows |->
               IF \E o \in OpenCalls(feed, id) : o.at = i
               THEN [feed.rows[i] EXCEPT !.ok = ok, !.running = FALSE]
               ELSE feed.rows[i]],
   open |-> feed.open \ OpenCalls(feed, id)]

(* Spells that follow one another are one row.                              *)
Thinks(feed, e) ==
  LET n == Len(feed.rows)
  IN  IF n > 0 /\ feed.rows[n].kind = "thought"
      THEN [feed EXCEPT !.rows[n] = [@ EXCEPT !.ms = @ + e.ms, !.pending = e.phase = "started"]]
      ELSE Shows(feed, Thought(e))

TakesIn(feed, e) ==
  CASE e.type = "begins" -> Awaits(feed, RowOf(e.call, "unknown"), e.id)
    [] e.type = "ends" -> Resolves(feed, e.id, e.ok)
    [] e.type = "completed" ->      \* Codex: a command may have been begun
         IF calls[e.call].tool = "command" /\ OpenCalls(feed, e.id) # {}
         THEN Resolves(feed, e.id, e.ok)
         ELSE Shows(feed, RowOf(e.call, e.ok))
    [] e.type = "thinking" -> Thinks(feed, e)
    [] e.type = "message" -> Shows(feed, Said)

ToActivity == FoldLeft(TakesIn, [rows |-> << >>, open |-> {}], log).rows

(* The spinner, while the run is live: on the last thought, if it is one    *)
(* still under way.                                                         *)
Spinner(rows) ==
  LET thoughts == {i \in DOMAIN rows : rows[i].kind = "thought"}
  IN  thoughts # {} /\ rows[Max(thoughts)].pending

-----------------------------------------------------------------------------
(* The worker: handleAgentEvent. *)

FeedInit ==
  /\ format \in {"claude", "codex", "envelopes"} /\ nth = 1
  /\ calls = << >> /\ log = << >>
  /\ inMessage = FALSE /\ thinking = FALSE /\ startedAt = FALSE
  /\ unclosed = FALSE
  /\ feedSpent = 0

Turn == feedSpent < MaxTurns /\ feedSpent' = feedSpent + 1

(* An event reaches the log, or is lost on its way to the host.             *)
Logged(e) == log' = Append(log, e) /\ UNCHANGED feedSpent
Lost == /\ Turn
        /\ UNCHANGED log

(* stream_event: thinkingTracker of the agent's own stream; a subagent's is *)
(* not looked at.                                                           *)
MessageStarts ==
  /\ format = "claude" /\ ~inMessage
  /\ inMessage' = TRUE /\ startedAt' = FALSE
  /\ UNCHANGED << format, nth, calls, thinking, log, unclosed, feedSpent >>

MessageStops ==
  /\ inMessage /\ ~thinking
  /\ inMessage' = FALSE
  /\ UNCHANGED << format, nth, calls, thinking, startedAt, log, unclosed, feedSpent >>

BlockStarts ==
  /\ inMessage /\ ~thinking
  /\ thinking' = TRUE
  /\ startedAt' = TRUE
  /\ \/ /\ Turn
        /\ log' = IF startedAt THEN log ELSE Append(log, Thinking("started", 0))
        /\ UNCHANGED unclosed
     \/ ~startedAt /\ Lost /\ unclosed' = TRUE
  /\ UNCHANGED << format, nth, calls, inMessage >>

BlockStops ==
  /\ thinking
  /\ thinking' = FALSE /\ startedAt' = FALSE
  /\ \/ /\ startedAt
        /\ Logged(Thinking("finished", 1)) /\ UNCHANGED unclosed
     \/ startedAt /\ Lost /\ unclosed' = TRUE
     \/ ~startedAt /\ UNCHANGED << log, feedSpent, unclosed >>
  /\ UNCHANGED << format, nth, calls, inMessage >>

(* The agent, or at any time a subagent, says something.                    *)
Says ==
  /\ Turn
  /\ log' = Append(log, [type |-> "message"])
  /\ UNCHANGED << format, nth, calls, inMessage, thinking, startedAt, unclosed >>

(* Claude names a call uniquely, an item of Codex has its number in its     *)
(* process.                                                                 *)
Id(n) == IF format # "codex" THEN n
         ELSE Cardinality({k \in 1 .. n : calls[k].process = calls[n].process})
Tools == {"command", "edit"}

(* Whether the format tells of the beginning of a call.                     *)
TellsBeginning(tool) == format # "codex" \/ tool = "command"

(* Bound: no event that begins an item of Codex is lost after its first     *)
(* process, see ResultsAreTheirOwn.                                         *)
Calls(tool, edit) ==
  LET n == Len(calls) + 1
      call == [tool |-> tool, edit |-> edit, process |-> nth, ended |-> "unknown",
               begun |-> FALSE, told |-> FALSE]
      id == IF format # "codex" THEN n
            ELSE 1 + Cardinality({k \in DOMAIN calls : calls[k].process = nth})
  IN  /\ n <= MaxCalls /\ (format = "claude" => inMessage /\ ~thinking)
      /\ \/ /\ TellsBeginning(tool)
            /\ Logged(Begun(n, id)) /\ calls' = Append(calls, [call EXCEPT !.begun = TRUE])
         \/ /\ TellsBeginning(tool) /\ (format = "codex" => nth = 1)
            /\ Lost /\ calls' = Append(calls, call)
         \/ /\ ~TellsBeginning(tool)
            /\ UNCHANGED << log, feedSpent >> /\ calls' = Append(calls, call)
      /\ UNCHANGED << format, nth, inMessage, thinking, startedAt, unclosed >>

(* Calls run beside one another and end in any order.                       *)
CallEnds(n, ok) ==
  LET ended == [calls EXCEPT ![n].ended = ok]
  IN  /\ calls[n].ended = "unknown" /\ calls[n].process = nth
      /\ \/ /\ Logged(IF format = "codex" THEN Completed(n, Id(n), ok) ELSE Ends(n, Id(n), ok))
            /\ calls' = [ended EXCEPT ![n].told = TRUE]
         \/ Lost /\ calls' = ended
      /\ UNCHANGED << format, nth, inMessage, thinking, startedAt, unclosed >>

(* A process of the agent is killed in the middle; the next one is another  *)
(* pass, with the same tracker.                                             *)
NextProcess ==
  /\ nth < MaxProcesses
  /\ nth' = nth + 1
  /\ inMessage' = FALSE /\ thinking' = FALSE
  /\ unclosed' = (unclosed \/ thinking)
  /\ UNCHANGED << format, calls, startedAt, log, feedSpent >>

FeedNext ==
  \/ MessageStarts \/ MessageStops \/ BlockStarts \/ BlockStops \/ Says \/ NextProcess
  \/ \E tool \in Tools, edit \in Edits :
       (tool # "edit" => edit = CHOOSE e \in Edits : TRUE) /\ Calls(tool, edit)
  \/ \E n \in DOMAIN calls, ok \in {"yes", "no"} : CallEnds(n, ok)

FeedSpec == FeedInit /\ [][FeedNext]_feedVars

-----------------------------------------------------------------------------
(* Properties *)

(* A longest common subsequence, by trying them all. *)
LongestCommon(a, b) ==
  LET At(s, S) == TextsOf(Signed(" ", [k \in 1 .. Cardinality(S) |-> s[SetToSortSeq(S, <)[k]]]))
  IN  Max({Cardinality(S) : S \in {T \in SUBSET DOMAIN a :
             \E U \in SUBSET DOMAIN b : Cardinality(T) = Cardinality(U) /\ At(a, T) = At(b, U)}})

(* A diff that is shown takes what was there before to what is there after, *)
(* and, unless it was too large, with as few lines as can be; a patch loses *)
(* none of its changes but lines that look like a header.                   *)
DiffIsRight(diff, edit) ==
  LET Plain(lines) == SelectSeq(lines, LAMBDA t : t \notin HeaderLike)
      old == TextsOf(With(diff, {"-", " "}))
      new == TextsOf(With(diff, {"+", " "}))
  IN  IF format = "claude"
      THEN /\ old = edit.before /\ new = edit.after
           /\ Len(edit.before) * Len(edit.after) <= MaxTable
                => Len(With(diff, {" "})) = LongestCommon(edit.before, edit.after)
      ELSE old = Plain(edit.before) /\ new = Plain(edit.after)

(* The feed tells of the agent's work what the log has of it: every call    *)
(* has one row, of its own outcome as soon as it is known and no other's,   *)
(* whatever runs beside it, is lost or was left open by a process that was  *)
(* killed; a command is shown running while no result of it has come; edits *)
(* are shown as they were; no thinking is counted twice; and the spinner    *)
(* turns exactly while the agent thinks (activity.ts Feed, runner.ts        *)
(* thinkingTracker: "only the top-level assistant stream drives the         *)
(* spinner").                                                               *)
FeedTellsTheWork ==
  LET rows == ToActivity
      RowsOf(n) == {i \in DOMAIN rows : rows[i].kind = "call" /\ rows[i].call = n}
  IN  /\ \A n \in DOMAIN calls :
           LET c == calls[n]
           IN  /\ Cardinality(RowsOf(n)) =
                    IF c.begun \/ (c.told /\ format = "codex") THEN 1 ELSE 0
               /\ \A i \in RowsOf(n) :
                    /\ rows[i].ok = IF c.told THEN c.ended ELSE "unknown"
                    /\ rows[i].running = (c.tool = "command" /\ ~c.told)
                    /\ c.tool = "edit" => DiffIsRight(rows[i].diff, c.edit)
      /\ FoldLeft(LAMBDA sum, r : IF r.kind = "thought" THEN sum + r.ms ELSE sum, 0, rows)
           = FoldLeft(LAMBDA sum, e : IF e.type = "thinking" THEN sum + e.ms ELSE sum, 0, log)
      /\ ~unclosed => Spinner(rows) = thinking

(* Not so in the code: the beginning of a command of Codex is lost, its end *)
(* arrives, and a command of the same number waits since an earlier process *)
(* was killed: that one is given the outcome, and the command has no row.   *)
ResultsAreTheirOwn ==
  \A i \in DOMAIN ToActivity :
    LET row == ToActivity[i]
    IN  row.kind = "call" => row.ok \in {"unknown", calls[row.call].ended}
=============================================================================
