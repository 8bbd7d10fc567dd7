------------------------------- MODULE PullPage -------------------------------
(***************************************************************************)
(* One pull request on the dashboard: the page's two queries and its one    *)
(* mutation (apps/app/src/components/PullRequestDetail.tsx and              *)
(* PullRequests.tsx), the proxy that serves them                            *)
(* (packages/orchestrator/src/server.ts and pulls.ts) and the calls it      *)
(* makes (packages/integrations/src/github.ts). Nothing is cached between   *)
(* the page and GitHub, and GitHub changes at the hands of others.          *)
(*                                                                          *)
(* GitHub is the pull request and a count of its changes; what the page     *)
(* shows is a reading of it, with the count it was read at. The query       *)
(* library (TanStack Query) is external: a fetch under way is joined by the *)
(* poll and the refresh button, and dropped for a new one by an             *)
(* invalidation; a failed fetch is tried once more.                         *)
(***************************************************************************)
EXTENDS Naturals, FiniteSets

CONSTANTS MaxClicks,    \* bound: actions asked for
          MaxAround     \* bound: what happens around them: fetches the page
                        \* starts of its own accord, texts written in the
                        \* composer, colleagues, changes of the configuration

VARIABLES
  pull,         \* GitHub's pull request
  rev,          \* how often it has changed
  connected,    \* config: a GitHub token, and the page's repository
  query,        \* the page's queries: what they show, and the fetch under way
  text,         \* the composer's text, 0 when it is empty
  acts,         \* the actions between their click and the end of act()
  notice,       \* the last action failed
  posted,       \* how often each text was posted
  done,         \* (history) the count at the last action act() was told of
  asked, around   \* what the bounds bound

pageVars == << pull, rev, connected, query, text, acts, notice, posted, done,
               asked, around >>

Queries == {"detail", "list"}
Texts == 1 .. MaxAround + 1

(* A pull request; its state to the dashboard puts merged before closed and *)
(* closed before draft.                                                     *)
Pulls == [state : {"open", "closed", "merged"}, draft : BOOLEAN]

PrState(p) == IF p.state # "open" THEN p.state ELSE IF p.draft THEN "draft" ELSE "open"

NoFetch == [stage |-> "idle", rev |-> 0, pull |-> {}, tries |-> 0]
Asked == [NoFetch EXCEPT !.stage = "asked"]

Around == around < MaxAround /\ around' = around + 1

(* The page is loaded, and something is written in its composer. *)
PageInit ==
  /\ pull \in {p \in Pulls : p.state = "open"}
  /\ rev = 0 /\ connected = TRUE
  /\ query = [q \in Queries |-> [shown |-> IF q = "detail" THEN {pull} ELSE {}, rev |-> 0,
                                error |-> FALSE, fetch |-> NoFetch]]
  /\ text = 1 /\ acts = {} /\ notice = FALSE
  /\ posted = [t \in Texts |-> 0]
  /\ done = 0 /\ asked = 0 /\ around = 0

-----------------------------------------------------------------------------
(* Fetches. *)

(* refetchInterval and the refresh button. *)
Refetch(q) ==
  /\ Around
  /\ query[q].fetch.stage = "idle"
  /\ query' = [query EXCEPT ![q].fetch = Asked]
  /\ UNCHANGED << pull, rev, connected, text, acts, notice, posted, done, asked >>

(* pulls.get, or the repository's page of pulls.list: what the answer says  *)
(* of the pull request is read here, the rest of the bundle after it        *)
(* (gatherPullDetail reads conversation, files, commits and checks one      *)
(* after the other). Only what the controls go by is kept of it.            *)
GithubReads(q) ==
  /\ query[q].fetch.stage = "asked" /\ connected
  /\ query' = [query EXCEPT ![q].fetch = [@ EXCEPT !.stage = "read", !.rev = rev,
                                                  !.pull = IF q = "detail" THEN {pull} ELSE {}]]
  /\ UNCHANGED << pull, rev, connected, text, acts, notice, posted, done, asked, around >>

AnswerLands(q) ==
  /\ query[q].fetch.stage = "read"
  /\ query' = [query EXCEPT ![q] = [shown |-> query[q].fetch.pull, rev |-> query[q].fetch.rev,
                                    error |-> FALSE, fetch |-> NoFetch]]
  /\ UNCHANGED << pull, rev, connected, text, acts, notice, posted, done, asked, around >>

(* PullService.list answers for the other repositories when one fails: the  *)
(* pull requests of this one are gone from the list, its error beside it.   *)
RepoFails ==
  /\ query["list"].fetch.stage = "asked" /\ connected
  /\ query' = [query EXCEPT !["list"] = [shown |-> {}, rev |-> @.rev, error |-> TRUE,
                                         fetch |-> NoFetch]]
  /\ UNCHANGED << pull, rev, connected, text, acts, notice, posted, done, asked, around >>

(* The data stays, and a banner says that the refresh failed. *)
FetchFails(q) ==
  /\ query[q].fetch.stage # "idle"
  /\ query' = [query EXCEPT ![q] =
                 IF @.fetch.tries = 0 THEN [@ EXCEPT !.fetch = [Asked EXCEPT !.tries = 1]]
                 ELSE [@ EXCEPT !.error = TRUE, !.fetch = NoFetch]]
  /\ UNCHANGED << pull, rev, connected, text, acts, notice, posted, done, asked, around >>

-----------------------------------------------------------------------------
(* Actions. *)

(* mutation.isPending: over once GitHub's answer is there, before what it   *)
(* invalidates has been fetched.                                            *)
Busy == \E a \in acts : a.stage \in {"sent", "taken", "refused"}

Shown == query["detail"].shown

(* The controls the page offers for what it shows. *)
Offered(key) ==
  \E p \in Shown :
    CASE key = "merge" -> PrState(p) = "open"
      [] key = "ready" -> PrState(p) = "draft"
      [] key = "close" -> p.state = "open"
      [] key = "reopen" -> p.state = "closed"
      [] key = "resolve" -> TRUE       \* a thread's, and a review of approval
      [] key = "comment" -> text # 0   \* a reply's and a review's text too

Keys == {"merge", "ready", "close", "reopen", "resolve", "comment"}

Click(key) ==
  /\ asked < MaxClicks
  /\ ~Busy /\ Offered(key)
  /\ asked' = asked + 1
  /\ notice' = FALSE
  /\ acts' = acts \cup {[id |-> asked + 1, key |-> key, stage |-> "sent", text |-> text]}
  /\ UNCHANGED << pull, rev, connected, query, text, posted, done, around >>

Write ==
  /\ Around
  /\ text' = around + 2
  /\ UNCHANGED << pull, rev, connected, query, acts, notice, posted, done, asked >>

(* What GitHub may take, and what it takes for certain: 405 for what cannot *)
(* be merged (its checks and conflicts are GitHub's to say), and 422 for a  *)
(* state a merged pull request cannot have.                                 *)
Takes(a) ==
  CASE a.key = "merge" -> PrState(pull) = "open"
    [] a.key \in {"close", "reopen"} -> pull.state # "merged"
    [] OTHER -> TRUE

After(a) ==
  CASE a.key = "merge" -> [pull EXCEPT !.state = "merged"]
    [] a.key = "ready" -> [pull EXCEPT !.draft = FALSE]
    [] a.key = "close" -> [pull EXCEPT !.state = "closed"]
    [] a.key = "reopen" -> [pull EXCEPT !.state = "open"]
    [] a.key \in {"resolve", "comment"} -> pull

Moved(a, stage) == acts' = (acts \ {a}) \cup {[a EXCEPT !.stage = stage]}

(* A PullService call: the token and the repository of the configuration as *)
(* it is, then GitHub.                                                      *)
GithubActs(a) ==
  /\ a.stage = "sent" /\ connected /\ Takes(a)
  /\ pull' = After(a) /\ rev' = rev + 1
  /\ posted' = IF a.key = "comment" THEN [posted EXCEPT ![a.text] = @ + 1] ELSE posted
  /\ Moved(a, "taken")
  /\ UNCHANGED << connected, query, text, notice, done, asked, around >>

(* Not connected, no such repository, or GitHub's refusal. *)
ActRefused(a) ==
  /\ a.stage = "sent"
  /\ ~connected \/ ~Takes(a) \/ a.key = "merge"
  /\ Moved(a, "refused")
  /\ UNCHANGED << pull, rev, connected, query, text, notice, posted, done, asked, around >>

(* The failure, GitHub's or the connection's: GitHub may have acted.        *)
ActFails(a) ==
  /\ a.stage \in {"sent", "taken", "refused"}
  /\ acts' = acts \ {a}
  /\ notice' = TRUE
  /\ UNCHANGED << pull, rev, connected, query, text, posted, done, asked, around >>

(* invalidateQueries: a fetch of the query's own, whatever was under way.   *)
Joined(q) == [query EXCEPT ![q].fetch = IF @.stage = "idle" THEN Asked ELSE @]

Invalidated(q) == [query EXCEPT ![q].fetch = Asked]

ActSucceeds(a) ==
  /\ a.stage = "taken"
  /\ Moved(a, "detail")
  /\ query' = Invalidated("detail")
  /\ done' = rev
  /\ UNCHANGED << pull, rev, connected, text, notice, posted, asked, around >>

(* The detail's fetch has ended one way or the other: the list is next. *)
DetailDone(a) ==
  /\ a.stage = "detail" /\ query["detail"].fetch.stage = "idle"
  /\ Moved(a, "list")
  /\ query' = Invalidated("list")
  /\ UNCHANGED << pull, rev, connected, text, notice, posted, done, asked, around >>

(* act() answers true, and the composer empties for what it sent. *)
ActEnds(a) ==
  /\ a.stage = "list" /\ query["list"].fetch.stage = "idle"
  /\ acts' = acts \ {a}
  /\ text' = IF a.key = "comment" THEN 0 ELSE text
  /\ UNCHANGED << pull, rev, connected, query, notice, posted, done, asked, around >>

-----------------------------------------------------------------------------
(* The others. *)

(* A colleague, or brevi itself, does anything that can be done. *)
Colleague ==
  /\ Around
  /\ pull.state # "merged"
  /\ \E p \in Pulls : p # pull /\ (p.state = "merged" => ~p.draft) /\ pull' = p
  /\ rev' = rev + 1
  /\ UNCHANGED << connected, query, text, acts, notice, posted, done, asked >>

(* The token is cleared or the repository removed, or put back. *)
Reconfigure ==
  /\ Around
  /\ connected' = ~connected
  /\ UNCHANGED << pull, rev, query, text, acts, notice, posted, done, asked >>

PageNext ==
  \/ \E q \in Queries : Refetch(q) \/ GithubReads(q) \/ AnswerLands(q) \/ FetchFails(q)
  \/ RepoFails
  \/ \E key \in Keys : Click(key)
  \/ \E a \in acts : GithubActs(a) \/ ActRefused(a) \/ ActFails(a) \/ ActSucceeds(a)
                       \/ DetailDone(a) \/ ActEnds(a)
  \/ Write \/ Colleague \/ Reconfigure

PageSpec == PageInit /\ [][PageNext]_pageVars

-----------------------------------------------------------------------------
(* The types of the page's state. *)
PageTypeOK ==
  /\ pull \in Pulls
  /\ \A q \in Queries : /\ query[q].shown \subseteq Pulls /\ query[q].rev <= rev
                        /\ query[q].fetch.pull \subseteq Pulls
  /\ Cardinality({a \in acts : a.stage \in {"sent", "taken", "refused"}}) <= 1

AtRest == acts = {} /\ \A q \in Queries : query[q].fetch.stage = "idle"

(* When nothing is under way, the detail and the list were read after every *)
(* action the page was told had succeeded, or say that they could not be:   *)
(* whatever fetch of an earlier state was under way at the click, whatever  *)
(* else was clicked while the page was still refreshing.                    *)
WhatWasDoneIsShown ==
  AtRest => \A q \in Queries : query[q].error \/ query[q].rev >= done

(* Why it holds, for the proof: the shapes of the page's state, ...          *)
Answer == [stage : {"idle", "asked", "read"}, rev : Nat, pull : SUBSET Pulls, tries : Nat]

PageShapes ==
  /\ pull \in Pulls /\ rev \in Nat /\ done \in Nat /\ done <= rev
  /\ query \in [Queries -> [shown : SUBSET Pulls, rev : Nat, error : BOOLEAN, fetch : Answer]]
  /\ \A a \in acts : /\ a = [id |-> a.id, key |-> a.key, stage |-> a.stage, text |-> a.text]
                     /\ a.key \in Keys

(* ... and for each query that a reading of what was done is asked for, read, *)
(* or shown, or is known to have failed. The list's is asked for only once    *)
(* the detail's is there.                                                     *)
ReadSince(q) ==
  CASE query[q].fetch.stage = "asked" -> TRUE
    [] query[q].fetch.stage = "read" -> query[q].fetch.rev >= done
    [] OTHER -> query[q].error \/ query[q].rev >= done

PageInv ==
  /\ PageShapes
  /\ ReadSince("detail")
  /\ ReadSince("list") \/ \E a \in acts : a.stage = "detail"

(* Not so in the code: the composer can be sent again while its page is     *)
(* still refreshing, and what is written in that time is erased.            *)
PostedOnce == \A t \in Texts : posted[t] <= 1
===============================================================================
