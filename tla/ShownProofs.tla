------------------------------ MODULE ShownProofs ------------------------------
(***************************************************************************)
(* That people are shown what happened: a run's cost list has each         *)
(* execution and each pass of its review once (UsageLedger), the report of *)
(* every machine's spend counts what was burned once (UsageReport), and a  *)
(* run's console misses no log entry (Dashboard): however samples, reads,  *)
(* answers and reconnections interleave, for every number of them. Each    *)
(* argument is one invariant, stated at the end of its module: LedgerInv   *)
(* says that what a sample, a final read or a snapshot on its way tells of *)
(* an execution was burned by it, and which entry of the list is its own;  *)
(* ReportInv that what a collection has of a machine is honest for as long *)
(* as it may still be shown; ConsoleInv that what the console has, what is *)
(* on its way to it and what is still to come cover the log.               *)
(***************************************************************************)
EXTENDS UsageLedger, UsageReport, Dashboard, WellFoundedInduction, SequenceTheorems,
        FiniteSetTheorems, TLAPS

-----------------------------------------------------------------------------
(* What machines spent (UsageReport)                                       *)

\* The recursive function behind Total.
Sums(it, f, S) ==
    it = [s \in SUBSET S |->
            IF s = {} THEN 0
            ELSE f[CHOOSE x \in s : TRUE] + it[s \ {CHOOSE x \in s : TRUE}]]

\* A total over at most two elements.
LEMMA TotalOfTwo ==
    ASSUME NEW f, NEW a, NEW b, a # b, NEW S, S \subseteq {a, b},
           a \in S => f[a] \in Nat, b \in S => f[b] \in Nat
    PROVE  Total(f, S) = (IF a \in S THEN f[a] ELSE 0) + (IF b \in S THEN f[b] ELSE 0)
<1>1. PICK g : g = [s \in SUBSET S |-> (IF a \in s THEN f[a] ELSE 0) + (IF b \in s THEN f[b] ELSE 0)]
    OBVIOUS
<1>2. Sums(g, f, S)
  <2>1. ASSUME NEW s \in SUBSET S
        PROVE  g[s] = IF s = {} THEN 0
                      ELSE f[CHOOSE x \in s : TRUE] + g[s \ {CHOOSE x \in s : TRUE}]
    <3>1. g[s] = (IF a \in s THEN f[a] ELSE 0) + (IF b \in s THEN f[b] ELSE 0)  BY <1>1
    <3>2. CASE s = {}  BY <3>1, <3>2
    <3>3. CASE s # {}
      <4>1. PICK x \in s : x = (CHOOSE y \in s : TRUE)  BY <3>3
      <4>2. s \ {x} \in SUBSET S  OBVIOUS
      <4>3. g[s \ {x}] = (IF a \in s \ {x} THEN f[a] ELSE 0) + (IF b \in s \ {x} THEN f[b] ELSE 0)
        BY <1>1, <4>2
      <4>4. x = a \/ x = b  OBVIOUS
      <4>5. g[s] = f[x] + g[s \ {x}]
        <5>1. CASE x = a  BY <3>1, <4>3, <5>1
        <5>2. CASE x = b  BY <3>1, <4>3, <5>2
        <5>3. QED  BY <4>4, <5>1, <5>2
      <4>6. QED  BY <3>3, <4>1, <4>5
    <3>4. QED  BY <3>2, <3>3
  <2>2. g = [s \in SUBSET S |-> g[s]]  BY <1>1
  <2>3. QED  BY <2>1, <2>2 DEF Sums
<1>3. PICK it : it = (CHOOSE h : Sums(h, f, S))  OBVIOUS
<1>4. Total(f, S) = it[S]  BY <1>3 DEF Total, MapThenSumSet, MapThenFoldSet, Sums
<1>5. Sums(it, f, S)  BY <1>2, <1>3
<1>6. \A s \in SUBSET S :
        it[s] = IF s = {} THEN 0
                ELSE f[CHOOSE x \in s : TRUE] + it[s \ {CHOOSE x \in s : TRUE}]
    BY <1>5 DEF Sums
<1>7. it[{}] = 0  BY <1>6
<1>8. ASSUME NEW x, {x} \in SUBSET S  PROVE it[{x}] = f[x]
  <2>1. (CHOOSE y \in {x} : TRUE) = x /\ {x} # {} /\ {x} \ {x} = {}  OBVIOUS
  <2>2. it[{x}] = f[x] + it[{}]  BY <1>6, <1>8, <2>1
  <2>3. f[x] \in Nat  BY <1>8
  <2>4. QED  BY <1>7, <2>2, <2>3
<1>9. CASE S = {}  BY <1>4, <1>7, <1>9
<1>10. CASE S = {a}  BY <1>4, <1>8, <1>10
<1>11. CASE S = {b}  BY <1>4, <1>8, <1>11
<1>12. CASE S = {a, b}
  <2>1. PICK x \in S : x = (CHOOSE y \in S : TRUE)  BY <1>12
  <2>2. it[S] = f[x] + it[S \ {x}]  BY <1>6, <1>12, <2>1
  <2>3. CASE x = a
    <3>1. S \ {x} = {b}  BY <1>12, <2>3
    <3>2. QED  BY <1>4, <1>8, <1>12, <2>2, <2>3, <3>1
  <2>4. CASE x = b
    <3>1. S \ {x} = {a}  BY <1>12, <2>4
    <3>2. QED  BY <1>4, <1>8, <1>12, <2>2, <2>4, <3>1
  <2>5. QED  BY <1>12, <2>1, <2>3, <2>4
<1>13. QED  BY <1>9, <1>10, <1>11, <1>12

\* A total over nothing, over one element, and over two.
LEMMA TotalOfNone ==
    ASSUME NEW f
    PROVE  Total(f, {}) = 0
<1>1. PICK a, b : a = 0 /\ b = 1  OBVIOUS
<1>2. PICK R : R = {}  OBVIOUS
<1>3. a # b /\ R \subseteq {a, b}  BY <1>1, <1>2
<1>4. (a \in R => f[a] \in Nat) /\ (b \in R => f[b] \in Nat)  BY <1>2
<1>5. Total(f, R) = (IF a \in R THEN f[a] ELSE 0) + (IF b \in R THEN f[b] ELSE 0)
    BY <1>3, <1>4, TotalOfTwo, Zenon
<1>6. QED  BY <1>2, <1>5

\* A total over one element.
LEMMA TotalOfOne ==
    ASSUME NEW f, NEW a, f[a] \in Nat
    PROVE  Total(f, {a}) = f[a]
<1>1. PICK b : b # a
  <2>1. a # 0 \/ a # 1  OBVIOUS
  <2>2. QED  BY <2>1
<1>2. PICK R : R = {a}  OBVIOUS
<1>3. a # b /\ R \subseteq {a, b}  BY <1>1, <1>2
<1>4. a \in R => f[a] \in Nat  OBVIOUS
<1>5. b \in R => f[b] \in Nat  BY <1>1, <1>2
<1>6. Total(f, R) = (IF a \in R THEN f[a] ELSE 0) + (IF b \in R THEN f[b] ELSE 0)
    BY <1>3, <1>4, <1>5, TotalOfTwo, Zenon
<1>7. QED  BY <1>1, <1>2, <1>6

\* A total over two elements.
LEMMA TotalOfPair ==
    ASSUME NEW f, NEW a, NEW b, a # b, f[a] \in Nat, f[b] \in Nat
    PROVE  Total(f, {a, b}) = f[a] + f[b]
<1>2. PICK R : R = {a, b}  OBVIOUS
<1>3. a # b /\ R \subseteq {a, b}  BY <1>2
<1>4. a \in R => f[a] \in Nat  OBVIOUS
<1>5. b \in R => f[b] \in Nat  OBVIOUS
<1>6. Total(f, R) = (IF a \in R THEN f[a] ELSE 0) + (IF b \in R THEN f[b] ELSE 0)
    BY <1>3, <1>4, <1>5, TotalOfTwo, Zenon
<1>7. QED  BY <1>2, <1>6

\* What the transcripts of a machine say of a day: the sources' added up.
LEMMA TruthIsTheSum ==
    ASSUME NEW ledger \in Ledgers, NEW m \in Disks, NEW d \in CalendarDays
    PROVE  /\ Truth(ledger, m, d) = ledger[m]["claude"][d] + ledger[m]["codex"][d]
           /\ \A s \in Sources : ledger[m][s][d] \in Nat
<1>1. \A s \in Sources : ledger[m][s][d] \in Nat  BY DEF Ledgers
<1>2. PICK f : f = [s \in Sources |-> ledger[m][s][d]]  OBVIOUS
<1>3. f["claude"] = ledger[m]["claude"][d] /\ f["codex"] = ledger[m]["codex"][d]
    BY <1>2 DEF Sources
<1>4. f["claude"] \in Nat /\ f["codex"] \in Nat  BY <1>1, <1>3 DEF Sources
<1>5. Sources \in SUBSET {"claude", "codex"} /\ "claude" # "codex"
      /\ "claude" \in Sources /\ "codex" \in Sources
    BY DEF Sources
<1>6. Total(f, Sources) = f["claude"] + f["codex"]
  <2>1. Sources = {"claude", "codex"}  BY DEF Sources
  <2>2. Total(f, {"claude", "codex"}) = f["claude"] + f["codex"]  BY <1>4, TotalOfPair
  <2>3. QED  BY <2>1, <2>2
<1>7. QED  BY <1>1, <1>2, <1>3, <1>6 DEF Truth

\* Of a day a merged report says what the sources it could read say.
LEMMA MergedDays ==
    ASSUME transcripts \in Ledgers, NEW m \in Disks, NEW lost \in SUBSET Sources, NEW row,
           row = [days |-> MergeUsageDays([s \in Sources \ lost |-> DailyReport(m, s)]),
                  missing |-> lost]
    PROVE  /\ row \in Reports
           /\ \A d \in CalendarDays :
                ByDate(row, d) = (IF "claude" \in lost THEN 0 ELSE transcripts[m]["claude"][d])
                                 + (IF "codex" \in lost THEN 0 ELSE transcripts[m]["codex"][d])
<1>1. PICK reports : reports = [s \in Sources \ lost |-> DailyReport(m, s)]  OBVIOUS
<1>2. PICK rows : rows = UNION {{[source |-> s, row |-> r] : r \in reports[s]} : s \in DOMAIN reports}
    OBVIOUS
<1>3. PICK cost : cost = [x \in rows |-> x.row.cost]  OBVIOUS
<1> DEFINE T(s, e) == transcripts[m][s][e]
           Entry(s, e) == [source |-> s, row |-> [date |-> e, cost |-> T(s, e)]]
           OfDay(e) == {x \in rows : x.row.date = e}
           Sum(e) == (IF "claude" \in lost THEN 0 ELSE T("claude", e))
                     + (IF "codex" \in lost THEN 0 ELSE T("codex", e))
<1>4. \A s \in Sources, e \in CalendarDays : T(s, e) \in Nat  BY DEF Ledgers
<1>5. \A x : x \in rows <=> \E s \in Sources \ lost, e \in CalendarDays :
                              T(s, e) > 0 /\ x = Entry(s, e)
  <2>1. DOMAIN reports = Sources \ lost /\ \A s \in Sources \ lost : reports[s] = DailyReport(m, s)
    BY <1>1
  <2>2. \A x : x \in rows <=> \E s \in Sources \ lost : \E r \in DailyReport(m, s) :
                                x = [source |-> s, row |-> r]
    BY <1>2, <2>1
  <2>3. \A s, r : r \in DailyReport(m, s) <=>
          \E e \in CalendarDays : T(s, e) > 0 /\ r = [date |-> e, cost |-> T(s, e)]
    BY DEF DailyReport
  <2>4. QED  BY <2>2, <2>3
<1>6. ASSUME NEW e \in CalendarDays
      PROVE  Total(cost, OfDay(e)) = Sum(e) /\ Sum(e) \in Nat
  <2>1. PICK a : a = Entry("claude", e)  OBVIOUS
  <2>2. PICK b : b = Entry("codex", e)  OBVIOUS
  <2>3. a # b /\ a.row.date = e /\ b.row.date = e
        /\ a.row.cost = T("claude", e) /\ b.row.cost = T("codex", e)
        /\ a.source = "claude" /\ b.source = "codex"
    BY <2>1, <2>2
  <2>4. a \in rows <=> "claude" \notin lost /\ T("claude", e) > 0
    BY <1>5, <2>1, <2>3 DEF Sources
  <2>5. b \in rows <=> "codex" \notin lost /\ T("codex", e) > 0
    BY <1>5, <2>2, <2>3 DEF Sources
  <2>6. ASSUME NEW x \in OfDay(e)  PROVE x \in {a, b}
    <3>1. x \in rows /\ x.row.date = e  OBVIOUS
    <3>2. PICK s \in Sources \ lost, f \in CalendarDays : x = Entry(s, f)  BY <1>5, <3>1
    <3>3. f = e  BY <3>1, <3>2
    <3>4. QED  BY <2>1, <2>2, <3>2, <3>3 DEF Sources
  <2>7. (a \in OfDay(e) <=> a \in rows) /\ (b \in OfDay(e) <=> b \in rows)  BY <2>3
  <2>8. (a \in rows => cost[a] = T("claude", e)) /\ (b \in rows => cost[b] = T("codex", e))
    BY <1>3, <2>3
  <2>9. T("claude", e) \in Nat /\ T("codex", e) \in Nat  BY <1>4 DEF Sources
  <2>10. PICK chosen : chosen \subseteq {a, b} /\ chosen = OfDay(e)  BY <2>6
  <2> HIDE DEF T, OfDay, Entry
  <2>11. Total(cost, chosen) = (IF a \in chosen THEN cost[a] ELSE 0) + (IF b \in chosen THEN cost[b] ELSE 0)
    <3>1. a # b /\ chosen \subseteq {a, b}  BY <2>3, <2>10
    <3>2. PICK v \in Nat, w \in Nat : v = T("claude", e) /\ w = T("codex", e)  BY <2>9
    <3>3. a \in chosen => cost[a] = v  BY <2>7, <2>8, <2>10, <3>2
    <3>4. b \in chosen => cost[b] = w  BY <2>7, <2>8, <2>10, <3>2
    <3>5. CASE chosen = {}  BY <3>5, TotalOfNone
    <3>6. CASE chosen = {a}
      <4>1. Total(cost, {a}) = cost[a]  BY <3>2, <3>3, <3>6, TotalOfOne
      <4>2. b \notin chosen  BY <3>1, <3>6
      <4>3. QED  BY <3>2, <3>3, <3>6, <4>1, <4>2
    <3>7. CASE chosen = {b}
      <4>1. Total(cost, {b}) = cost[b]  BY <3>2, <3>4, <3>7, TotalOfOne
      <4>2. a \notin chosen  BY <3>1, <3>7
      <4>3. QED  BY <3>2, <3>4, <3>7, <4>1, <4>2
    <3>8. CASE chosen = {a, b}
      <4>1. Total(cost, {a, b}) = cost[a] + cost[b]
        BY <3>1, <3>2, <3>3, <3>4, <3>8, TotalOfPair
      <4>2. QED  BY <3>8, <4>1
    <3>9. QED  BY <3>1, <3>5, <3>6, <3>7, <3>8
  <2>12. QED  BY <2>4, <2>5, <2>7, <2>8, <2>9, <2>10, <2>11
<1>7. PICK days : days = MergeUsageDays(reports)  OBVIOUS
<1>8. \A r : r \in days <=> \E x \in rows : r = [date |-> x.row.date, cost |-> Total(cost, OfDay(x.row.date))]
    BY <1>2, <1>3, <1>7 DEF MergeUsageDays
<1>9. \A r : r \in days <=> \E x \in rows : r = [date |-> x.row.date, cost |-> Sum(x.row.date)]
  <2>1. \A x \in rows : x.row.date \in CalendarDays  BY <1>5
  <2> HIDE DEF OfDay, Sum, T
  <2>2. QED  BY <1>6, <1>8, <2>1
<1>10. row.days = days /\ row.missing = lost /\ row = [days |-> days, missing |-> lost]
    BY <1>1, <1>7
<1>11. row \in Reports
  <2>1. \A x \in rows : x.row.date \in CalendarDays  BY <1>5
  <2> HIDE DEF Sum
  <2>2. ASSUME NEW r \in days  PROVE r \in [date : CalendarDays, cost : Nat]
    <3>1. PICK x \in rows : r = [date |-> x.row.date, cost |-> Sum(x.row.date)]  BY <1>9
    <3>2. PICK e \in CalendarDays : e = x.row.date  BY <2>1
    <3>3. Sum(e) \in Nat  BY <1>6
    <3>4. QED  BY <3>1, <3>2, <3>3
  <2>3. QED  BY <1>10, <2>2 DEF Reports
<1>12. ASSUME NEW d \in CalendarDays  PROVE ByDate(row, d) = Sum(d)
  <2>1. CASE \E r \in days : r.date = d
    <3>1. PICK r : r = (CHOOSE q \in days : q.date = d)  OBVIOUS
    <3>2. r \in days /\ r.date = d  BY <2>1, <3>1
    <3>3. r.cost = Sum(d)
      <4> HIDE DEF Sum
      <4>1. PICK x \in rows : r = [date |-> x.row.date, cost |-> Sum(x.row.date)]  BY <1>9, <3>2
      <4>2. QED  BY <3>2, <4>1
    <3>4. QED  BY <1>10, <2>1, <3>1, <3>3 DEF ByDate
  <2>2. CASE ~(\E r \in days : r.date = d)
    <3>1. ByDate(row, d) = 0  BY <1>10, <2>2 DEF ByDate
    <3>2. ASSUME NEW s \in Sources \ lost  PROVE T(s, d) = 0
      <4>1. SUFFICES ASSUME T(s, d) > 0  PROVE FALSE  BY <1>4
      <4>2. Entry(s, d) \in rows /\ Entry(s, d).row.date = d  BY <1>5, <4>1
      <4>3. PICK x \in rows : x.row.date = d  BY <4>2
      <4> HIDE DEF Sum
      <4>4. [date |-> d, cost |-> Sum(d)] \in days  BY <1>9, <4>3
      <4>5. QED  BY <2>2, <4>4
    <3>3. QED  BY <3>1, <3>2 DEF Sources
  <2>3. QED  BY <2>1, <2>2
<1>13. QED  BY <1>11, <1>12

\* Which rows a collection has, and of which machine.
LEMMA AskedMachines ==
    /\ Remote = {"away"} /\ Asked = {"host"} \cup Remote
    /\ \A id \in Asked : TranscriptsAt(id) \in Disks
    /\ TranscriptsAt("away") = "there" /\ TranscriptsAt("host") = "here"
BY DEF Remote, Workers, TranscriptsAt, Asked, Disks

\* A day of a report is a number.
LEMMA DaysAreNumbers ==
    ASSUME NEW row \in Reports, NEW d \in CalendarDays
    PROVE  ByDate(row, d) \in Nat
<1>1. row.days \subseteq [date : CalendarDays, cost : Nat]  BY DEF Reports
<1>2. CASE \E r \in row.days : r.date = d
  <2>1. PICK r : r = (CHOOSE q \in row.days : q.date = d)  OBVIOUS
  <2>2. r \in row.days  BY <1>2, <2>1
  <2>3. r.cost \in Nat  BY <1>1, <2>2
  <2>4. QED  BY <1>2, <2>1, <2>3 DEF ByDate
<1>3. CASE ~(\E r \in row.days : r.date = d)  BY <1>3 DEF ByDate
<1>4. QED  BY <1>2, <1>3

\* A report that says nothing is honest about it.
LEMMA ErroredIsHonest ==
    ASSUME transcripts \in Ledgers, NEW m \in Disks, NEW since
    PROVE  Errored \in Reports /\ Honest(Errored, m, since)
<1>1. Errored.days = {} /\ Errored.missing = Sources  BY DEF Errored
<1>2. Errored \in Reports  BY DEF Errored, Reports
<1>3. Sources # {}  BY DEF Sources
<1>4. ASSUME NEW d \in CalendarDays  PROVE ByDate(Errored, d) <= Truth(transcripts, m, d)
  <2>1. ByDate(Errored, d) = 0  BY <1>1 DEF ByDate
  <2>2. Truth(transcripts, m, d) = transcripts[m]["claude"][d] + transcripts[m]["codex"][d]
    BY TruthIsTheSum
  <2>3. transcripts[m]["claude"][d] \in Nat /\ transcripts[m]["codex"][d] \in Nat
    BY TruthIsTheSum DEF Sources
  <2>4. QED  BY <2>1, <2>2, <2>3
<1>5. QED  BY <1>1, <1>2, <1>3, <1>4 DEF Honest

\* So is what is read of a machine.
LEMMA ReadingIsHonest ==
    ASSUME transcripts \in Ledgers, NEW m \in Disks, NEW row \in MachineUsage(m),
           NEW since \in Ledgers, GrewTo(since)
    PROVE  row \in Reports /\ Honest(row, m, since)
<1>1. CASE row = Errored  BY <1>1, ErroredIsHonest
<1>2. CASE row # Errored
  <2>1. PICK lost \in Unreadable :
          row = [days |-> MergeUsageDays([s \in Sources \ lost |-> DailyReport(m, s)]),
                 missing |-> lost]
    BY <1>2 DEF MachineUsage
  <2>2. lost \in SUBSET Sources  BY ReportAssumption
  <2>3. /\ row \in Reports
        /\ \A d \in CalendarDays :
             ByDate(row, d) = (IF "claude" \in lost THEN 0 ELSE transcripts[m]["claude"][d])
                              + (IF "codex" \in lost THEN 0 ELSE transcripts[m]["codex"][d])
    BY <2>1, <2>2, MergedDays
  <2>4. row.missing = lost  BY <2>1
  <2>5. ASSUME NEW d \in CalendarDays
        PROVE  /\ ByDate(row, d) <= Truth(transcripts, m, d)
               /\ lost = {} => ByDate(row, d) >= Truth(since, m, d)
    <3>1. PICK a \in Nat, b \in Nat :
            /\ a = transcripts[m]["claude"][d] /\ b = transcripts[m]["codex"][d]
            /\ Truth(transcripts, m, d) = a + b
      BY TruthIsTheSum DEF Sources
    <3>2. PICK x \in Nat, y \in Nat :
            /\ x = since[m]["claude"][d] /\ y = since[m]["codex"][d]
            /\ Truth(since, m, d) = x + y
      BY TruthIsTheSum DEF Sources
    <3>3. x <= a /\ y <= b  BY <3>1, <3>2 DEF GrewTo, Sources
    <3>4. ByDate(row, d) = (IF "claude" \in lost THEN 0 ELSE a) + (IF "codex" \in lost THEN 0 ELSE b)
      BY <2>3, <3>1
    <3>5. lost = {} => ByDate(row, d) = a + b  BY <3>4
    <3>6. ByDate(row, d) <= a + b  BY <3>4
    <3>7. QED  BY <3>1, <3>2, <3>3, <3>5, <3>6
  <2>6. QED  BY <2>3, <2>4, <2>5 DEF Honest
<1>3. QED  BY <1>1, <1>2

\* What the invariant says, in the terms the steps need.
LEMMA ReportParts ==
    ASSUME ReportInv
    PROVE  /\ transcripts \in Ledgers
           /\ \A c \in DOMAIN colls :
                /\ colls[c] \in Collections /\ GrewTo(colls[c].since)
                /\ colls[c].since \in Ledgers /\ colls[c].rows \in [Asked -> Reports]
                /\ colls[c].settled \in SUBSET Asked /\ colls[c].ids = Asked
                /\ \A id \in Asked : Honest(colls[c].rows[id], TranscriptsAt(id), colls[c].since)
           /\ requests \subseteq [id : DOMAIN colls, worker : {"away"}]
           /\ reading \subseteq DOMAIN colls
           /\ \A msg \in outbox : msg.id \in DOMAIN colls /\ msg.row \in Reports
                                  /\ Honest(msg.row, "there", colls[msg.id].since)
<1>1. \A c \in DOMAIN colls : colls[c] \in Collections  BY DEF ReportInv
<1>2. \A c \in DOMAIN colls :
        /\ colls[c].since \in Ledgers /\ colls[c].rows \in [Asked -> Reports]
        /\ colls[c].settled \in SUBSET Asked /\ colls[c].ids = Asked
    BY <1>1 DEF Collections
<1>3. \A c \in DOMAIN colls :
        /\ GrewTo(colls[c].since)
        /\ \A id \in Asked : Honest(colls[c].rows[id], TranscriptsAt(id), colls[c].since)
    BY DEF ReportInv
<1>4. \A msg \in outbox : msg.id \in DOMAIN colls /\ msg.row \in Reports
    BY DEF ReportInv
<1>5. \A msg \in outbox : Honest(msg.row, "there", colls[msg.id].since)  BY DEF ReportInv
<1>6. transcripts \in Ledgers /\ requests \subseteq [id : DOMAIN colls, worker : {"away"}]
      /\ reading \subseteq DOMAIN colls
    BY DEF ReportInv
<1>7. QED  BY <1>1, <1>2, <1>3, <1>4, <1>5, <1>6

\* The collections of a step that neither starts one nor spends anything.
Resettled ==
    /\ transcripts' = transcripts /\ DOMAIN colls' = DOMAIN colls
    /\ \A c \in DOMAIN colls :
         /\ colls'[c] \in Collections /\ colls'[c].since = colls[c].since
         /\ \A id \in Asked : Honest(colls'[c].rows[id], TranscriptsAt(id), colls[c].since)

\* A row of one of them is settled.
LEMMA SettlingResettles ==
    ASSUME ReportInv, transcripts' = transcripts, NEW c \in DOMAIN colls, NEW id \in Asked,
           NEW row \in Reports, Honest(row, TranscriptsAt(id), colls[c].since),
           colls' = RowSettled(c, id, row)
    PROVE  Resettled
<1>1. PICK q : q = [colls[c] EXCEPT !.rows[id] = row, !.settled = @ \cup {id}]  OBVIOUS
<1>2. colls' = [colls EXCEPT ![c] = q]  BY <1>1 DEF RowSettled
<1>3. PICK o \in Collections : o = colls[c]  BY ReportParts
<1>4. PICK r : r = [o.rows EXCEPT ![id] = row]  OBVIOUS
<1>5. /\ r \in [Asked -> Reports] /\ r[id] = row
      /\ \A i \in Asked : i # id => r[i] = o.rows[i]
    BY <1>3, <1>4 DEF Collections
<1>6. q = [o EXCEPT !.rows = r, !.settled = o.settled \cup {id}]
    BY <1>1, <1>3, <1>4 DEF Collections
<1>7. q \in Collections /\ q.since = o.since /\ q.rows = r
    BY <1>3, <1>5, <1>6 DEF Collections
<1>8. DOMAIN colls' = DOMAIN colls /\ \A k \in DOMAIN colls : colls'[k] = IF k = c THEN q ELSE colls[k]
    BY <1>2
<1>9. ASSUME NEW k \in DOMAIN colls
      PROVE  /\ colls'[k] \in Collections /\ colls'[k].since = colls[k].since
             /\ \A i \in Asked : Honest(colls'[k].rows[i], TranscriptsAt(i), colls[k].since)
  <2>1. CASE k # c
    <3>1. colls'[k] = colls[k]  BY <1>8, <2>1
    <3>2. QED  BY <3>1, ReportParts
  <2>2. CASE k = c
    <3>1. colls'[k] = q  BY <1>8, <2>2
    <3>2. ASSUME NEW i \in Asked
          PROVE  Honest(r[i], TranscriptsAt(i), colls[c].since)
      <4>1. CASE i = id  BY <1>5, <4>1
      <4>2. CASE i # id
        <5>1. r[i] = colls[c].rows[i]  BY <1>3, <1>5, <4>2
        <5>2. QED  BY <5>1, ReportParts
      <4>3. QED  BY <4>1, <4>2
    <3>3. QED  BY <1>3, <1>7, <2>2, <3>1, <3>2
  <2>3. QED  BY <2>1, <2>2
<1>10. QED  BY <1>8, <1>9 DEF Resettled

\* The invariant holds after a step that settles rows, takes requests, readings and
\* answers off, or answers honestly.
LEMMA ResettlingKeepsReport ==
    ASSUME ReportInv, Resettled, reading' \subseteq reading, requests' \subseteq requests,
           \A msg \in outbox' : msg \in outbox \/
             (msg \in [id : DOMAIN colls, row : Reports] /\ Honest(msg.row, "there", colls[msg.id].since)),
           cached' \in [coll : DOMAIN colls \cup {0}, fresh : BOOLEAN],
           cached'.fresh => cached'.coll # 0,
           viewers' \in [Viewers -> [shown : DOMAIN colls \cup {0}, waits : DOMAIN colls \cup {0}]]
    PROVE  ReportInv'
<1>1. transcripts' = transcripts /\ DOMAIN colls' = DOMAIN colls  BY DEF Resettled
<1>2. \A r, m, s : Honest(r, m, s) => Honest(r, m, s)'  BY <1>1 DEF Honest
<1>3. \A s : GrewTo(s) => GrewTo(s)'  BY <1>1 DEF GrewTo
<1>4. \A c \in DOMAIN colls : colls'[c] \in Collections /\ colls'[c].since = colls[c].since
    BY DEF Resettled
<1>5. ASSUME NEW c \in DOMAIN colls
      PROVE  \A id \in Asked : Honest(colls[c].rows[id], TranscriptsAt(id), colls[c].since)'
  <2>1. PICK q, s : q = colls'[c] /\ s = colls[c].since  OBVIOUS
  <2>2. \A id \in Asked : Honest(q.rows[id], TranscriptsAt(id), s)  BY <2>1 DEF Resettled
  <2>3. \A id \in Asked : Honest(q.rows[id], TranscriptsAt(id), s)'  BY <1>2, <2>2
  <2>4. colls'[c].since = s  BY <1>4, <2>1
  <2>5. QED  BY <1>1, <2>1, <2>3, <2>4 DEF Honest
<1>6. ASSUME NEW c \in DOMAIN colls  PROVE GrewTo(colls[c].since)'
  <2>1. GrewTo(colls[c].since)  BY ReportParts
  <2>2. QED  BY <1>1, <1>4, <2>1 DEF GrewTo
<1>7. outbox' \subseteq [id : DOMAIN colls', row : Reports]
  <2>1. outbox \subseteq [id : DOMAIN colls, row : Reports]  BY DEF ReportInv
  <2>2. QED  BY <1>1, <2>1
<1>8. ASSUME NEW msg \in outbox'  PROVE Honest(msg.row, "there", colls[msg.id].since)'
  <2>1. msg.id \in DOMAIN colls  BY ReportParts
  <2>2. Honest(msg.row, "there", colls[msg.id].since)  BY ReportParts
  <2>3. colls'[msg.id].since = colls[msg.id].since  BY <1>4, <2>1
  <2>4. QED  BY <1>1, <2>2, <2>3 DEF Honest
<1>9. transcripts' \in Ledgers  BY <1>1, ReportParts
<1>10. IsFiniteSet(DOMAIN colls') /\ DOMAIN colls' = 1 .. Cardinality(DOMAIN colls')
    BY <1>1 DEF ReportInv
<1>11. reading' \subseteq DOMAIN colls' /\ requests' \subseteq [id : DOMAIN colls', worker : {"away"}]
    BY <1>1, ReportParts
<1>12. /\ cached' \in [coll : DOMAIN colls' \cup {0}, fresh : BOOLEAN]
       /\ viewers' \in [Viewers -> [shown : DOMAIN colls' \cup {0}, waits : DOMAIN colls' \cup {0}]]
    BY <1>1
<1>13. \A c \in DOMAIN colls' :
         /\ colls'[c] \in Collections /\ GrewTo(colls[c].since)'
         /\ \A id \in Asked : Honest(colls[c].rows[id], TranscriptsAt(id), colls[c].since)'
    BY <1>1, <1>4, <1>5, <1>6
<1>14. QED  BY <1>7, <1>8, <1>9, <1>10, <1>11, <1>12, <1>13, Zenon DEF ReportInv

\* The parts of the invariant that are about who is shown what.
LEMMA ReportTypes ==
    ASSUME ReportInv
    PROVE  /\ cached \in [coll : DOMAIN colls \cup {0}, fresh : BOOLEAN]
           /\ cached.fresh => cached.coll # 0
           /\ viewers \in [Viewers -> [shown : DOMAIN colls \cup {0}, waits : DOMAIN colls \cup {0}]]
BY DEF ReportInv

\* No row changes in a step that leaves the collections as they are.
LEMMA UnchangedResettles ==
    ASSUME ReportInv, transcripts' = transcripts, colls' = colls
    PROVE  Resettled
BY ReportParts DEF Resettled

\* Nobody has asked for a report at first.
LEMMA InitReport == ReportInit => ReportInv
<1> SUFFICES ASSUME ReportInit  PROVE ReportInv
    OBVIOUS
<1>1. transcripts \in Ledgers  BY DEF ReportInit, Ledgers
<1>2. /\ colls = << >> /\ reading = {} /\ outbox = {} /\ requests = {}
      /\ cached = [coll |-> 0, fresh |-> FALSE]
      /\ viewers = [v \in Viewers |-> [shown |-> 0, waits |-> 0]]
    BY DEF ReportInit
<1>3. DOMAIN colls = {} /\ Cardinality(DOMAIN colls) = 0  BY <1>2, FS_EmptySet
<1>4. IsFiniteSet(DOMAIN colls) /\ DOMAIN colls = 1 .. Cardinality(DOMAIN colls)
    BY <1>3, FS_EmptySet
<1>5. /\ cached \in [coll : DOMAIN colls \cup {0}, fresh : BOOLEAN] /\ ~cached.fresh
      /\ viewers \in [Viewers -> [shown : DOMAIN colls \cup {0}, waits : DOMAIN colls \cup {0}]]
    BY <1>2
<1>6. QED  BY <1>1, <1>2, <1>3, <1>4, <1>5 DEF ReportInv

\* The agents of a machine spend something.
LEMMA SpendingKeepsReport == ReportInv /\ AgentsSpend => ReportInv'
<1> SUFFICES ASSUME ReportInv, AgentsSpend  PROVE ReportInv'
    OBVIOUS
<1>1. PICK m \in Disks, s \in Sources, d \in CalendarDays :
        transcripts' = [transcripts EXCEPT ![m][s][d] = @ + 1]
    BY DEF AgentsSpend
<1>2. PICK old, grown : old \in Ledgers /\ old = transcripts /\ grown = transcripts'  BY ReportParts
<1>3. PICK of : of = old[m]  OBVIOUS
<1>4. of \in [Sources -> [CalendarDays -> Nat]]  BY <1>2, <1>3 DEF Ledgers
<1>5. PICK days : days = [of[s] EXCEPT ![d] = of[s][d] + 1]  OBVIOUS
<1>6. /\ days \in [CalendarDays -> Nat]
      /\ \A e \in CalendarDays : of[s][e] <= days[e] /\ of[s][e] \in Nat /\ days[e] \in Nat
    BY <1>4, <1>5
<1>7. PICK row : row = [of EXCEPT ![s] = days]  OBVIOUS
<1>8. /\ row \in [Sources -> [CalendarDays -> Nat]]
      /\ \A t \in Sources, e \in CalendarDays : of[t][e] <= row[t][e]
    BY <1>4, <1>6, <1>7
<1>9. grown = [old EXCEPT ![m] = row]  BY <1>1, <1>2, <1>3, <1>5, <1>7 DEF Ledgers
<1>10. grown \in Ledgers  BY <1>2, <1>8, <1>9 DEF Ledgers
<1>11. \A n \in Disks, t \in Sources, e \in CalendarDays : old[n][t][e] <= grown[n][t][e]
  <2>1. TAKE n \in Disks, t \in Sources, e \in CalendarDays
  <2>2. CASE n = m
    <3>1. grown[n] = row /\ old[n] = of  BY <1>2, <1>3, <1>9, <2>2 DEF Ledgers
    <3>2. QED  BY <1>8, <3>1
  <2>3. CASE n # m
    <3>1. grown[n] = old[n]  BY <1>2, <1>9, <2>3 DEF Ledgers
    <3>2. old[n][t][e] \in Nat  BY <1>2 DEF Ledgers
    <3>3. QED  BY <3>1, <3>2
  <2>4. QED  BY <2>2, <2>3
<1>12. ASSUME NEW r \in Reports, NEW n \in Disks, NEW since, Honest(r, n, since)
       PROVE  Honest(r, n, since)'
  <2>1. ASSUME NEW e \in CalendarDays  PROVE ByDate(r, e) <= Truth(grown, n, e)
    <3>1. PICK a \in Nat, b \in Nat :
            a = old[n]["claude"][e] /\ b = old[n]["codex"][e] /\ Truth(old, n, e) = a + b
      BY <1>2, TruthIsTheSum DEF Sources
    <3>2. PICK x \in Nat, y \in Nat :
            x = grown[n]["claude"][e] /\ y = grown[n]["codex"][e] /\ Truth(grown, n, e) = x + y
      BY <1>10, TruthIsTheSum DEF Sources
    <3>3. a <= x /\ b <= y  BY <1>11, <3>1, <3>2 DEF Sources
    <3>4. ByDate(r, e) <= a + b  BY <1>2, <1>12, <3>1 DEF Honest
    <3>5. ByDate(r, e) \in Nat  BY <1>12, DaysAreNumbers
    <3>6. QED  BY <3>1, <3>2, <3>3, <3>4, <3>5
  <2>2. \A e \in CalendarDays : r.missing = {} => ByDate(r, e) >= Truth(since, n, e)
    BY <1>12 DEF Honest
  <2>3. QED  BY <1>2, <2>1, <2>2 DEF Honest
<1>13. UNCHANGED << colls, reading, outbox, requests, cached, viewers >>  BY DEF AgentsSpend
<1>14. ASSUME NEW c \in DOMAIN colls
       PROVE  /\ GrewTo(colls[c].since)'
              /\ \A id \in Asked : Honest(colls[c].rows[id], TranscriptsAt(id), colls[c].since)'
  <2>1. PICK q : q = colls[c]  OBVIOUS
  <2>2. /\ q.since \in Ledgers /\ GrewTo(q.since) /\ q.rows \in [Asked -> Reports]
        /\ \A id \in Asked : Honest(q.rows[id], TranscriptsAt(id), q.since)
    BY <2>1, ReportParts
  <2>3. \A id \in Asked : Honest(q.rows[id], TranscriptsAt(id), q.since)'
    BY <1>12, <2>2, AskedMachines
  <2>4. GrewTo(q.since)'
    <3>1. SUFFICES ASSUME NEW n \in Disks, NEW t \in Sources, NEW e \in CalendarDays
                   PROVE  q.since[n][t][e] <= grown[n][t][e]
      BY <1>2 DEF GrewTo
    <3>2. q.since[n][t][e] <= old[n][t][e]  BY <1>2, <2>2 DEF GrewTo
    <3>3. old[n][t][e] <= grown[n][t][e]  BY <1>11
    <3>4. q.since[n][t][e] \in Nat /\ old[n][t][e] \in Nat /\ grown[n][t][e] \in Nat
      BY <1>2, <1>10, <2>2 DEF Ledgers
    <3>5. QED  BY <3>2, <3>3, <3>4
  <2>5. colls'[c] = q  BY <1>13, <2>1
  <2>6. QED  BY <2>3, <2>4, <2>5 DEF Honest, GrewTo
<1>15. ASSUME NEW msg \in outbox  PROVE Honest(msg.row, "there", colls[msg.id].since)'
  <2>1. PICK since : since = colls[msg.id].since  OBVIOUS
  <2>2. msg.row \in Reports /\ Honest(msg.row, "there", since)  BY <2>1, ReportParts
  <2>3. Honest(msg.row, "there", since)'  BY <1>12, <2>2 DEF Disks
  <2>4. QED  BY <1>13, <2>1, <2>3 DEF Honest
<1>16. transcripts' \in Ledgers  BY <1>2, <1>10
<1>17. /\ IsFiniteSet(DOMAIN colls') /\ DOMAIN colls' = 1 .. Cardinality(DOMAIN colls')
       /\ reading' \subseteq DOMAIN colls' /\ requests' \subseteq [id : DOMAIN colls', worker : {"away"}]
       /\ outbox' \subseteq [id : DOMAIN colls', row : Reports]
       /\ cached' \in [coll : DOMAIN colls' \cup {0}, fresh : BOOLEAN]
       /\ cached'.fresh => cached'.coll # 0
       /\ viewers' \in [Viewers -> [shown : DOMAIN colls' \cup {0}, waits : DOMAIN colls' \cup {0}]]
    BY <1>13 DEF ReportInv
<1>18. \A c \in DOMAIN colls' : colls'[c] \in Collections  BY <1>13, ReportParts
<1>19. \A c \in DOMAIN colls' :
         /\ colls'[c] \in Collections /\ GrewTo(colls[c].since)'
         /\ \A id \in Asked : Honest(colls[c].rows[id], TranscriptsAt(id), colls[c].since)'
    BY <1>13, <1>14, <1>18
<1>20. \A msg \in outbox' : Honest(msg.row, "there", colls[msg.id].since)'  BY <1>13, <1>15
<1>21. QED  BY <1>16, <1>17, <1>19, <1>20, Zenon DEF ReportInv

\* A viewer of the report, once it shows or awaits another.
LEMMA ViewerOf ==
    ASSUME NEW S, NEW w \in [Viewers -> S], NEW v \in Viewers, NEW x \in S
    PROVE  [w EXCEPT ![v] = x] \in [Viewers -> S]
OBVIOUS

\* A report is asked for: the one of the last minute, or a new collection.
LEMMA LoadingKeepsReport ==
    ASSUME ReportInv, NEW v \in Viewers, Load(v)
    PROVE  ReportInv'
<1>1. transcripts' = transcripts /\ outbox' = outbox  BY DEF Load
<1>2. PICK w : w = viewers[v] /\ w \in [shown : DOMAIN colls \cup {0}, waits : DOMAIN colls \cup {0}]
    BY ReportTypes
<1>3. CASE cached.fresh
  <2>1. /\ viewers' = [viewers EXCEPT ![v].waits = cached.coll]
        /\ cached' = cached /\ colls' = colls /\ requests' = requests /\ reading' = reading
    BY <1>3 DEF Load
  <2>2. [w EXCEPT !.waits = cached.coll] \in [shown : DOMAIN colls \cup {0}, waits : DOMAIN colls \cup {0}]
    BY <1>2, ReportTypes
  <2>3. viewers' = [viewers EXCEPT ![v] = [w EXCEPT !.waits = cached.coll]]  BY <1>2, <2>1
  <2>4. viewers' \in [Viewers -> [shown : DOMAIN colls \cup {0}, waits : DOMAIN colls \cup {0}]]
    BY <2>2, <2>3, ReportTypes, ViewerOf
  <2>5. Resettled  BY <1>1, <2>1, UnchangedResettles
  <2>6. QED  BY <1>1, <2>1, <2>4, <2>5, ReportTypes, ResettlingKeepsReport
<1>4. CASE ~cached.fresh
  <2>1. PICK c : c = Cardinality(DOMAIN colls) + 1  OBVIOUS
  <2>2. /\ colls' = [x \in DOMAIN colls \cup {c} |-> IF x = c THEN Collected(c) ELSE colls[x]]
        /\ cached' = [coll |-> c, fresh |-> TRUE]
        /\ viewers' = [viewers EXCEPT ![v].waits = c]
        /\ requests' \subseteq requests \cup {[id |-> c, worker |-> "away"]}
        /\ reading' \subseteq reading \cup {c}
    BY <1>4, <2>1 DEF Load
  <2>3. DOMAIN colls = 1 .. Cardinality(DOMAIN colls)  BY DEF ReportInv
  <2>4. Cardinality(DOMAIN colls) \in Nat
    <3>1. IsFiniteSet(DOMAIN colls)  BY DEF ReportInv
    <3>2. QED  BY <3>1, FS_CardinalityType
  <2>5. c \in Nat /\ c # 0 /\ c \notin DOMAIN colls /\ DOMAIN colls \cup {c} = 1 .. c
    BY <2>1, <2>3, <2>4
  <2>6. DOMAIN colls' = DOMAIN colls \cup {c}  BY <2>2
  <2>7. Cardinality(DOMAIN colls') = c /\ DOMAIN colls' = 1 .. c
    <3>1. DOMAIN colls' = 1 .. c  BY <2>5, <2>6
    <3>2. Cardinality(1 .. c) = c  BY <2>5, FS_Interval
    <3>3. QED  BY <3>1, <3>2
  <2>8. PICK q : q = Collected(c)  OBVIOUS
  <2>9. colls'[c] = q /\ \A k \in DOMAIN colls : colls'[k] = colls[k]  BY <2>2, <2>5, <2>8
  <2>10. /\ q.ids = Asked /\ q.since = transcripts /\ q.settled \in SUBSET Asked
         /\ q.rows = [id \in Asked |-> Errored]
         /\ q = [ids |-> q.ids, settled |-> q.settled, rows |-> q.rows, since |-> q.since]
    BY <2>8, AskedMachines DEF Collected
  <2>11. Errored \in Reports /\ \A id \in Asked : Honest(Errored, TranscriptsAt(id), transcripts)
    BY ErroredIsHonest, AskedMachines, ReportParts
  <2>12. q \in Collections
    <3>1. q.rows \in [Asked -> Reports] /\ q.since \in Ledgers  BY <2>10, <2>11, ReportParts
    <3>2. QED  BY <2>10, <3>1 DEF Collections
  <2>13. GrewTo(transcripts)
    <3>1. \A m \in Disks, s \in Sources, d \in CalendarDays : transcripts[m][s][d] \in Nat
      BY ReportParts DEF Ledgers
    <3>2. QED  BY <3>1 DEF GrewTo
  <2>14. ASSUME NEW k \in DOMAIN colls'
         PROVE  /\ colls'[k] \in Collections /\ GrewTo(colls[k].since)'
                /\ \A id \in Asked : Honest(colls[k].rows[id], TranscriptsAt(id), colls[k].since)'
    <3>1. PICK r : r = colls'[k]  OBVIOUS
    <3>2. /\ r \in Collections /\ GrewTo(r.since)
          /\ \A id \in Asked : Honest(r.rows[id], TranscriptsAt(id), r.since)
      <4>1. CASE k = c
        <5>1. r = q  BY <2>9, <3>1, <4>1
        <5>2. \A id \in Asked : r.rows[id] = Errored  BY <2>10, <5>1
        <5>3. QED  BY <2>10, <2>11, <2>12, <2>13, <5>1, <5>2
      <4>2. CASE k # c
        <5>1. k \in DOMAIN colls /\ r = colls[k]  BY <2>6, <2>9, <2>14, <3>1, <4>2
        <5>2. QED  BY <5>1, ReportParts
      <4>3. QED  BY <4>1, <4>2
    <3>3. QED  BY <1>1, <3>1, <3>2 DEF GrewTo, Honest
  <2>15. ASSUME NEW msg \in outbox'
         PROVE  /\ msg \in [id : DOMAIN colls', row : Reports]
                /\ Honest(msg.row, "there", colls[msg.id].since)'
    <3>1. msg \in [id : DOMAIN colls, row : Reports]  BY <1>1 DEF ReportInv
    <3>2. msg.id \in DOMAIN colls /\ Honest(msg.row, "there", colls[msg.id].since)
      BY <1>1, ReportParts
    <3>3. colls'[msg.id].since = colls[msg.id].since  BY <2>9, <3>2
    <3>4. QED  BY <1>1, <2>6, <3>1, <3>2, <3>3 DEF Honest
  <2>16. requests' \subseteq [id : DOMAIN colls', worker : {"away"}]
    <3>1. [id |-> c, worker |-> "away"] \in [id : DOMAIN colls', worker : {"away"}]  BY <2>6
    <3>2. requests \subseteq [id : DOMAIN colls', worker : {"away"}]  BY <2>6, ReportParts
    <3>3. QED  BY <2>2, <3>1, <3>2
  <2>17. reading' \subseteq DOMAIN colls'  BY <2>2, <2>6, ReportParts
  <2>18. viewers' \in [Viewers -> [shown : DOMAIN colls' \cup {0}, waits : DOMAIN colls' \cup {0}]]
    <3>1. PICK S : S = [shown : DOMAIN colls' \cup {0}, waits : DOMAIN colls' \cup {0}]  OBVIOUS
    <3>2. [w EXCEPT !.waits = c] \in S  BY <1>2, <2>6, <3>1
    <3>3. viewers' = [viewers EXCEPT ![v] = [w EXCEPT !.waits = c]]  BY <1>2, <2>2
    <3>4. viewers \in [Viewers -> S]
      <4>1. \A u \in Viewers : viewers[u] \in S  BY <2>6, <3>1, ReportTypes
      <4>2. QED  BY <4>1, ReportTypes
    <3>5. QED  BY <3>1, <3>2, <3>3, <3>4, ViewerOf
  <2>19. cached' \in [coll : DOMAIN colls' \cup {0}, fresh : BOOLEAN] /\ (cached'.fresh => cached'.coll # 0)
    BY <2>2, <2>5, <2>6
  <2>20. IsFiniteSet(DOMAIN colls') /\ DOMAIN colls' = 1 .. Cardinality(DOMAIN colls')
    BY <2>5, <2>7, FS_Interval
  <2>21. transcripts' \in Ledgers  BY <1>1, ReportParts
  <2>22. outbox' \subseteq [id : DOMAIN colls', row : Reports]  BY <2>15
  <2>23. QED
    BY <2>14, <2>15, <2>16, <2>17, <2>18, <2>19, <2>20, <2>21, <2>22, Zenon DEF ReportInv
<1>5. QED  BY <1>3, <1>4

\* A minute passes, a report lands or its request fails.
LEMMA ViewingKeepsReport ==
    ASSUME ReportInv, MinutePasses \/ \E v \in Viewers : LoadLands(v) \/ LoadFails(v)
    PROVE  ReportInv'
<1>1. /\ transcripts' = transcripts /\ colls' = colls /\ outbox' = outbox
      /\ requests' = requests /\ reading' = reading
    BY DEF MinutePasses, LoadLands, LoadFails
<1>2. Resettled  BY <1>1, UnchangedResettles
<1>3. /\ cached' \in [coll : DOMAIN colls \cup {0}, fresh : BOOLEAN]
      /\ cached'.fresh => cached'.coll # 0
      /\ viewers' \in [Viewers -> [shown : DOMAIN colls \cup {0}, waits : DOMAIN colls \cup {0}]]
  <2>1. CASE MinutePasses
    <3>1. viewers' = viewers /\ cached' = [cached EXCEPT !.fresh = FALSE]  BY <2>1 DEF MinutePasses
    <3>2. PICK o \in [coll : DOMAIN colls \cup {0}, fresh : BOOLEAN] : o = cached  BY ReportTypes
    <3>3. /\ [o EXCEPT !.fresh = FALSE] \in [coll : DOMAIN colls \cup {0}, fresh : BOOLEAN]
          /\ [o EXCEPT !.fresh = FALSE].fresh = FALSE
      OBVIOUS
    <3>4. QED  BY <3>1, <3>2, <3>3, ReportTypes
  <2>2. ASSUME NEW v \in Viewers, LoadLands(v) \/ LoadFails(v)
        PROVE  /\ cached' = cached
               /\ viewers' \in [Viewers -> [shown : DOMAIN colls \cup {0}, waits : DOMAIN colls \cup {0}]]
    <3>1. PICK w : w = viewers[v] /\ w \in [shown : DOMAIN colls \cup {0}, waits : DOMAIN colls \cup {0}]
      BY ReportTypes
    <3>2. PICK x : /\ x \in [shown : DOMAIN colls \cup {0}, waits : DOMAIN colls \cup {0}]
                   /\ viewers' = [viewers EXCEPT ![v] = x]
      <4>1. CASE LoadLands(v)
        <5>1. viewers' = [viewers EXCEPT ![v] = [shown |-> w.waits, waits |-> 0]]
          BY <3>1, <4>1 DEF LoadLands
        <5>2. QED  BY <3>1, <5>1
      <4>2. CASE LoadFails(v)
        <5>1. viewers' = [viewers EXCEPT ![v] = [w EXCEPT !.waits = 0]]  BY <3>1, <4>2 DEF LoadFails
        <5>2. [w EXCEPT !.waits = 0] \in [shown : DOMAIN colls \cup {0}, waits : DOMAIN colls \cup {0}]
          BY <3>1
        <5>3. QED  BY <5>1, <5>2
      <4>3. QED  BY <2>2, <4>1, <4>2
    <3>3. cached' = cached  BY <2>2 DEF LoadLands, LoadFails
    <3>4. QED  BY <3>2, <3>3, ReportTypes, ViewerOf
  <2>3. QED  BY <2>1, <2>2, ReportTypes
<1>4. QED  BY <1>1, <1>2, <1>3, ResettlingKeepsReport

\* A row of a collection is settled: read on the host, answered by the worker, or
\* given up by the timer.
LEMMA SettlingKeepsReport ==
    ASSUME ReportInv, NEW c \in DOMAIN colls, NEW id \in Asked, NEW row \in Reports,
           Honest(row, TranscriptsAt(id), colls[c].since), colls' = RowSettled(c, id, row),
           UNCHANGED << transcripts, reading, cached, viewers >>,
           outbox' \subseteq outbox, requests' \subseteq requests
    PROVE  ReportInv'
<1>1. /\ transcripts' = transcripts /\ reading' = reading
      /\ cached' = cached /\ viewers' = viewers
    OBVIOUS
<1>2. Resettled  BY <1>1, SettlingResettles
<1>3. QED  BY <1>1, <1>2, ReportTypes, ResettlingKeepsReport

\* The host's own read comes back.
LEMMA HostReadKeepsReport ==
    ASSUME ReportInv, NEW c \in DOMAIN colls, NEW id \in colls[c].ids, HostRead(c, id)
    PROVE  ReportInv'
<1>1. id \in Asked  BY ReportParts
<1>2. PICK row \in MachineUsage(TranscriptsAt(id)) : colls' = RowSettled(c, id, row)
    BY DEF HostRead
<1>3. TranscriptsAt(id) \in Disks  BY <1>1, AskedMachines
<1>4. row \in Reports /\ Honest(row, TranscriptsAt(id), colls[c].since)
    BY <1>3, ReadingIsHonest, ReportParts
<1>5. /\ UNCHANGED << transcripts, reading, cached, viewers >>
      /\ outbox' \subseteq outbox /\ requests' \subseteq requests
    BY DEF HostRead
<1>6. QED  BY <1>1, <1>2, <1>4, <1>5, SettlingKeepsReport

\* A machine does not answer in time.
LEMMA TimingOutKeepsReport ==
    ASSUME ReportInv, NEW r \in requests, TimesOut(r)
    PROVE  ReportInv'
<1>1. r.id \in DOMAIN colls /\ r.worker = "away" /\ "away" \in Asked  BY ReportParts DEF Asked
<1>2. Errored \in Reports /\ Honest(Errored, TranscriptsAt("away"), colls[r.id].since)
    BY <1>1, AskedMachines, ErroredIsHonest, ReportParts
<1>3. /\ UNCHANGED << transcripts, reading, cached, viewers >>
      /\ outbox' \subseteq outbox /\ requests' \subseteq requests
      /\ colls' = RowSettled(r.id, "away", Errored)
    BY <1>1 DEF TimesOut
<1>4. QED  BY <1>1, <1>2, <1>3, SettlingKeepsReport

\* An answer settles the row it is about, if that still waits.
LEMMA HearingAnswerKeepsReport ==
    ASSUME ReportInv, NEW msg \in outbox, HostHears(msg)
    PROVE  ReportInv'
<1>1. /\ UNCHANGED << transcripts, reading, cached, viewers >> /\ outbox' \subseteq outbox
    BY DEF HostHears
<1>2. CASE Awaited(msg) = {}
  <2>1. requests' = requests /\ colls' = colls  BY <1>2 DEF HostHears
  <2>2. /\ transcripts' = transcripts /\ reading' = reading
        /\ cached' = cached /\ viewers' = viewers
    BY <1>1
  <2>3. Resettled  BY <2>1, <2>2, UnchangedResettles
  <2>4. QED  BY <1>1, <2>1, <2>2, <2>3, ReportTypes, ResettlingKeepsReport
<1>3. CASE Awaited(msg) # {}
  <2>1. PICK r \in Awaited(msg) :
          requests' = requests \ {r} /\ colls' = RowSettled(r.id, r.worker, msg.row)
    BY <1>3 DEF HostHears
  <2>2. r.id = msg.id /\ r.worker = "away" /\ "away" \in Asked  BY DEF Awaited, Asked
  <2>3. /\ msg.id \in DOMAIN colls /\ msg.row \in Reports
        /\ Honest(msg.row, TranscriptsAt("away"), colls[msg.id].since)
    BY AskedMachines, ReportParts
  <2>4. colls' = RowSettled(msg.id, "away", msg.row) /\ requests' \subseteq requests
    BY <2>1, <2>2
  <2>5. QED  BY <1>1, <2>2, <2>3, <2>4, SettlingKeepsReport
<1>4. QED  BY <1>2, <1>3

\* The worker elsewhere reads its machine.
LEMMA WorkerReadKeepsReport ==
    ASSUME ReportInv, NEW id \in reading, WorkerRead(id)
    PROVE  ReportInv'
<1>1. /\ transcripts' = transcripts /\ colls' = colls /\ requests' = requests
      /\ cached' = cached /\ viewers' = viewers /\ reading' \subseteq reading
    BY DEF WorkerRead
<1>2. PICK row \in MachineUsage("there") : outbox' = outbox \cup {[id |-> id, row |-> row]}
    BY DEF WorkerRead
<1>3. id \in DOMAIN colls  BY ReportParts
<1>4. row \in Reports /\ Honest(row, "there", colls[id].since)
    BY <1>3, ReadingIsHonest, ReportParts DEF Disks
<1>5. ASSUME NEW msg \in outbox', msg \notin outbox
      PROVE  /\ msg \in [id : DOMAIN colls, row : Reports]
             /\ Honest(msg.row, "there", colls[msg.id].since)
  <2>1. msg = [id |-> id, row |-> row]  BY <1>2, <1>5
  <2>2. msg.id = id /\ msg.row = row  BY <2>1
  <2>3. QED  BY <1>3, <1>4, <2>1, <2>2
<1>6. Resettled  BY <1>1, UnchangedResettles
<1>7. QED  BY <1>1, <1>5, <1>6, ReportTypes, ResettlingKeepsReport

\* The registry hears a close: the rows of every request it had are given up.
LEMMA ClosingKeepsReport == ReportInv /\ EntryCloses => ReportInv'
<1> SUFFICES ASSUME ReportInv, EntryCloses  PROVE ReportInv'
    OBVIOUS
<1>1. /\ transcripts' = transcripts /\ outbox' = outbox /\ requests' = {}
      /\ cached' = cached /\ viewers' = viewers /\ reading' = reading
    BY DEF EntryCloses
<1>2. Errored \in Reports /\ \A c \in DOMAIN colls : Honest(Errored, TranscriptsAt("away"), colls[c].since)
    BY AskedMachines, ErroredIsHonest, ReportParts DEF Disks
<1>3. DOMAIN colls' = DOMAIN colls  BY DEF EntryCloses
<1>4. ASSUME NEW c \in DOMAIN colls
      PROVE  /\ colls'[c] \in Collections /\ colls'[c].since = colls[c].since
             /\ \A id \in Asked : Honest(colls'[c].rows[id], TranscriptsAt(id), colls[c].since)
  <2>1. PICK o \in Collections : o = colls[c]  BY ReportParts
  <2>2. PICK r : r = [o.rows EXCEPT !["away"] = Errored]  OBVIOUS
  <2>3. PICK q : q = [o EXCEPT !.rows = r, !.settled = o.settled \cup {"away"}]  OBVIOUS
  <2>4. /\ r \in [Asked -> Reports] /\ r["away"] = Errored
        /\ \A i \in Asked : i # "away" => r[i] = o.rows[i]
    BY <1>2, <2>1, <2>2 DEF Collections, Asked
  <2>5. q \in Collections /\ q.since = o.since /\ q.rows = r
    BY <2>1, <2>3, <2>4 DEF Collections, Asked
  <2>6. colls'[c] = o \/ colls'[c] = q
    <3>1. colls'[c] = IF \E s \in requests : s.id = c
                      THEN [o EXCEPT !.rows["away"] = Errored, !.settled = @ \cup {"away"}] ELSE o
      BY <2>1 DEF EntryCloses
    <3>2. [o EXCEPT !.rows["away"] = Errored, !.settled = @ \cup {"away"}] = q
      BY <2>1, <2>2, <2>3 DEF Collections
    <3>3. QED  BY <3>1, <3>2
  <2>7. CASE colls'[c] = o
    <3>1. colls'[c] = colls[c]  BY <2>1, <2>7
    <3>2. QED  BY <3>1, ReportParts
  <2>8. CASE colls'[c] = q
    <3>1. ASSUME NEW i \in Asked  PROVE Honest(r[i], TranscriptsAt(i), o.since)
      <4>1. CASE i = "away"  BY <1>2, <2>1, <2>4, <4>1
      <4>2. CASE i # "away"
        <5>1. r[i] = o.rows[i]  BY <2>4, <4>2
        <5>2. QED  BY <2>1, <5>1, ReportParts
      <4>3. QED  BY <4>1, <4>2
    <3>2. QED  BY <2>1, <2>5, <2>8, <3>1
  <2>9. QED  BY <2>6, <2>7, <2>8
<1>5. Resettled  BY <1>1, <1>3, <1>4 DEF Resettled
<1>6. QED  BY <1>1, <1>5, ReportTypes, ResettlingKeepsReport

\* The worker's socket dies, or it registers again.
LEMMA LinesKeepReport == ReportInv /\ (LineDies \/ LineReturns) => ReportInv'
<1> SUFFICES ASSUME ReportInv, LineDies \/ LineReturns  PROVE ReportInv'
    OBVIOUS
<1>1. /\ transcripts' = transcripts /\ colls' = colls /\ requests' = requests
      /\ cached' = cached /\ viewers' = viewers /\ reading' = reading /\ outbox' \subseteq outbox
    BY DEF LineDies, LineReturns
<1>2. Resettled  BY <1>1, UnchangedResettles
<1>3. QED  BY <1>1, <1>2, ReportTypes, ResettlingKeepsReport

\* Every step keeps the report.
LEMMA NextReport == ReportInv /\ [ReportNext]_reportVars => ReportInv'
<1> SUFFICES ASSUME ReportInv, [ReportNext]_reportVars  PROVE ReportInv'
    OBVIOUS
<1>1. CASE UNCHANGED reportVars
  <2>1. /\ transcripts' = transcripts /\ colls' = colls /\ requests' = requests
        /\ cached' = cached /\ viewers' = viewers /\ reading' = reading /\ outbox' = outbox
    BY <1>1 DEF reportVars
  <2>2. Resettled  BY <2>1, UnchangedResettles
  <2>3. QED  BY <2>1, <2>2, ReportTypes, ResettlingKeepsReport
<1>2. CASE AgentsSpend  BY <1>2, SpendingKeepsReport
<1>3. CASE MinutePasses  BY <1>3, ViewingKeepsReport
<1>4. CASE LineDies \/ LineReturns  BY <1>4, LinesKeepReport
<1>5. CASE EntryCloses  BY <1>5, ClosingKeepsReport
<1>6. ASSUME NEW v \in Viewers, Load(v) \/ LoadLands(v) \/ LoadFails(v)  PROVE ReportInv'
    BY <1>6, LoadingKeepsReport, ViewingKeepsReport
<1>7. ASSUME NEW c \in DOMAIN colls, NEW id \in colls[c].ids, HostRead(c, id)  PROVE ReportInv'
    BY <1>7, HostReadKeepsReport
<1>8. ASSUME NEW r \in requests, TimesOut(r)  PROVE ReportInv'
    BY <1>8, TimingOutKeepsReport
<1>9. ASSUME NEW id \in reading, WorkerRead(id)  PROVE ReportInv'
    BY <1>9, WorkerReadKeepsReport
<1>10. ASSUME NEW msg \in outbox, HostHears(msg)  PROVE ReportInv'
    BY <1>10, HearingAnswerKeepsReport
<1>11. QED
    BY <1>1, <1>2, <1>3, <1>4, <1>5, <1>6, <1>7, <1>8, <1>9, <1>10 DEF ReportNext

\* A machine's column of a report is its one row.
LEMMA ColumnIsARow ==
    ASSUME NEW report \in Collections, NEW id \in Asked, NEW d \in CalendarDays
    PROVE  Column(report, TranscriptsAt(id), d) = ByDate(report.rows[id], d)
<1>1. PICK m : m = TranscriptsAt(id)  OBVIOUS
<1>2. PICK f : f = [i \in report.ids |-> ByDate(report.rows[i], d)]  OBVIOUS
<1>3. report.ids = Asked /\ report.rows \in [Asked -> Reports]  BY DEF Collections
<1>4. f[id] = ByDate(report.rows[id], d) /\ f[id] \in Nat
  <2>1. f[id] = ByDate(report.rows[id], d)  BY <1>2, <1>3
  <2>2. report.rows[id] \in Reports  BY <1>3
  <2>3. QED  BY <2>1, <2>2, DaysAreNumbers
<1>5. {i \in report.ids : TranscriptsAt(i) = m} = {id}  BY <1>1, <1>3 DEF Asked, TranscriptsAt
<1>6. Total(f, {id}) = f[id]  BY <1>4, TotalOfOne
<1>7. QED  BY <1>1, <1>2, <1>4, <1>5, <1>6 DEF Column

\* What the usage page shows of a machine is what its agents spent, once: however
\* answers, timers, replaced sockets and collections interleave (scheduler.ts
\* getUsage, workers.ts requestUsage, machineUsage.ts, Usage.tsx).
THEOREM SpendIsShownOnce == ReportSpec => []SpendIsReportedOnce
<1>1. ReportInv => SpendIsReportedOnce
  <2> SUFFICES ASSUME ReportInv, NEW v \in Viewers, viewers[v].shown # 0,
                      NEW m \in Disks, NEW d \in CalendarDays
               PROVE  /\ Column(colls[viewers[v].shown], m, d) <= Truth(transcripts, m, d)
                      /\ (\E id \in colls[viewers[v].shown].ids :
                            TranscriptsAt(id) = m /\ colls[viewers[v].shown].rows[id].missing = {})
                         => Column(colls[viewers[v].shown], m, d)
                              >= Truth(colls[viewers[v].shown].since, m, d)
    BY DEF SpendIsReportedOnce
  <2>1. viewers[v].shown \in DOMAIN colls  BY ReportTypes
  <2>2. PICK report : report = colls[viewers[v].shown]  OBVIOUS
  <2>3. /\ report \in Collections /\ report.ids = Asked
        /\ \A id \in Asked : Honest(report.rows[id], TranscriptsAt(id), report.since)
    BY <2>1, <2>2, ReportParts
  <2>4. PICK id \in Asked : TranscriptsAt(id) = m
    BY AskedMachines DEF Disks, Asked
  <2>5. Column(report, m, d) = ByDate(report.rows[id], d)  BY <2>3, <2>4, ColumnIsARow
  <2>6. Column(report, m, d) <= Truth(transcripts, m, d)
    BY <2>3, <2>4, <2>5 DEF Honest
  <2>7. ASSUME NEW i \in report.ids, TranscriptsAt(i) = m, report.rows[i].missing = {}
        PROVE  Column(report, m, d) >= Truth(report.since, m, d)
    <3>1. i = id  BY <2>3, <2>4, <2>7 DEF Asked, TranscriptsAt
    <3>2. QED  BY <2>3, <2>4, <2>5, <2>7, <3>1 DEF Honest
  <2>8. QED  BY <2>2, <2>6, <2>7
<1>2. QED  BY <1>1, InitReport, NextReport, PTL DEF ReportSpec

-----------------------------------------------------------------------------
(* What a run's executions cost (UsageLedger)                              *)

\* An execution's number is not a review's.
LEMMA ExecutionsAreNotReviews ==
    /\ MaxExecutions \in Nat /\ MaxReviews \in Nat
    /\ \A e \in Execs : e \in Nat /\ e # 0 /\ e <= MaxExecutions /\ e \notin Reviews
    /\ \A r \in Reviews : r \in Nat /\ r > MaxExecutions
BY UsageAssumption DEF Execs, Reviews

\* A cost entry is priced in full: a model's own price, or the table's.
LEMMA PricedInFull ==
    ASSUME NEW e, NEW usage \in TokenRows, NEW cost \in TokenRows, NEW entry,
           \A m \in Models : cost[m] > 0 => cost[m] = usage[m],
           entry = CostEntry(e, usage, cost)
    PROVE  /\ entry.execution = e /\ entry.tokens = TokensOf(usage) /\ entry.tokens \in Nat
           /\ entry.costUsd = entry.tokens /\ entry.estimated \in BOOLEAN
           /\ entry = [execution |-> entry.execution, tokens |-> entry.tokens,
                       costUsd |-> entry.costUsd, estimated |-> entry.estimated]
<1>1. PICK rows : rows = {m \in Models : usage[m] > 0}  OBVIOUS
<1>2. PICK price : price = [m \in Models |-> IF cost[m] > 0 THEN cost[m] ELSE Estimate(m, usage[m])]
    OBVIOUS
<1>3. /\ usage["main"] \in Nat /\ usage["subagent"] \in Nat
      /\ price["main"] = usage["main"] /\ price["subagent"] = usage["subagent"]
  <2>1. \A m \in Models : usage[m] \in Nat /\ cost[m] \in Nat  BY DEF TokenRows
  <2>2. \A m \in Models : price[m] = usage[m]  BY <1>2, <2>1 DEF Estimate
  <2>3. QED  BY <2>1, <2>2 DEF Models
<1>4. SumOf(price, rows) = Total(price, rows)  BY DEF SumOf, Total
<1>5. /\ rows \subseteq {"main", "subagent"}
      /\ "main" \in rows <=> usage["main"] > 0
      /\ "subagent" \in rows <=> usage["subagent"] > 0
    BY <1>1 DEF Models
<1>6. Total(price, rows) = usage["main"] + usage["subagent"]
  <2>1. CASE rows = {}
    <3>1. usage["main"] = 0 /\ usage["subagent"] = 0  BY <1>3, <1>5, <2>1
    <3>2. QED  BY <2>1, <3>1, TotalOfNone
  <2>2. CASE rows = {"main"}
    <3>1. usage["subagent"] = 0  BY <1>3, <1>5, <2>2
    <3>2. Total(price, {"main"}) = price["main"]  BY <1>3, TotalOfOne
    <3>3. QED  BY <1>3, <2>2, <3>1, <3>2
  <2>3. CASE rows = {"subagent"}
    <3>1. usage["main"] = 0  BY <1>3, <1>5, <2>3
    <3>2. Total(price, {"subagent"}) = price["subagent"]  BY <1>3, TotalOfOne
    <3>3. QED  BY <1>3, <2>3, <3>1, <3>2
  <2>4. CASE rows = {"main", "subagent"}
    <3>1. Total(price, {"main", "subagent"}) = price["main"] + price["subagent"]
      BY <1>3, TotalOfPair
    <3>2. QED  BY <1>3, <2>4, <3>1
  <2>5. QED  BY <1>5, <2>1, <2>2, <2>3, <2>4
<1>7. PICK b \in BOOLEAN : b = \E m \in rows : cost[m] = 0  OBVIOUS
<1>8. entry = [execution |-> e, tokens |-> TokensOf(usage), costUsd |-> SumOf(price, rows),
               estimated |-> b]
    BY <1>1, <1>2, <1>7 DEF CostEntry
<1>9. TokensOf(usage) = usage["main"] + usage["subagent"] /\ TokensOf(usage) \in Nat
    BY <1>3 DEF TokensOf
<1>10. QED  BY <1>4, <1>6, <1>8, <1>9

\* What ccusage has no price for counts as 0.
LEMMA ReportedRows ==
    ASSUME NEW usage \in TokenRows
    PROVE  /\ Reported(usage) \in TokenRows
           /\ \A m \in Models : Reported(usage)[m] > 0 => Reported(usage)[m] = usage[m]
BY DEF Reported, TokenRows, Models

\* No tokens are below any.
LEMMA NoRowsIsNothing ==
    /\ NoRows \in TokenRows /\ \A m \in Models : NoRows[m] = 0
    /\ \A of \in TokenRows : Below(NoRows, of)
BY DEF NoRows, TokenRows, Below

\* What is below a split is below its sum.
LEMMA BelowAdds ==
    ASSUME NEW rows \in TokenRows, NEW of \in TokenRows, Below(rows, of)
    PROVE  TokensOf(rows) <= TokensOf(of) /\ TokensOf(rows) \in Nat /\ TokensOf(of) \in Nat
BY DEF Below, TokensOf, TokenRows, Models

\* The entry of an execution: with its tokens, priced in full.
LEMMA EntryOf ==
    ASSUME LedgerInv, pending # "no", NEW rows \in TokenRows, Below(rows, burned[execution]),
           NEW cost \in {Reported(rows), NoRows}, NEW entry, entry = CostEntry(execution, rows, cost)
    PROVE  /\ execution \in Execs /\ entry \in CostEntries /\ entry.execution = execution
           /\ entry.costUsd = entry.tokens /\ entry.tokens <= Spent(execution)
<1>1. execution \in Execs
    BY ExecutionsAreNotReviews DEF LedgerInv, AgentOK, Execs
<1>2. cost \in TokenRows /\ \A m \in Models : cost[m] > 0 => cost[m] = rows[m]
    BY ReportedRows, NoRowsIsNothing
<1>3. /\ entry.execution = execution /\ entry.tokens = TokensOf(rows) /\ entry.tokens \in Nat
      /\ entry.costUsd = entry.tokens /\ entry.estimated \in BOOLEAN
      /\ entry = [execution |-> entry.execution, tokens |-> entry.tokens,
                  costUsd |-> entry.costUsd, estimated |-> entry.estimated]
    BY <1>2, PricedInFull
<1>4. entry \in CostEntries  BY <1>1, <1>3 DEF CostEntries
<1>5. burned[execution] \in TokenRows  BY <1>1 DEF LedgerInv, AgentOK
<1>6. Spent(execution) = TokensOf(burned[execution])
    BY <1>1, ExecutionsAreNotReviews DEF Spent
<1>7. QED  BY <1>1, <1>3, <1>4, <1>5, <1>6, BelowAdds

\* The list with an execution's entry in it, in the place of its interim one.
LEMMA UpsertedList ==
    ASSUME CostsOK, pending # "no", execution \in Execs,
           NEW entry \in CostEntries, entry.execution = execution
    PROVE  /\ Upserted(execution, entry) \in Seq(CostEntries)
           /\ UpsertedIndex(execution) \in DOMAIN Upserted(execution, entry)
           /\ UpsertedIndex(execution) \in Nat /\ UpsertedIndex(execution) # 0
           /\ Upserted(execution, entry)[UpsertedIndex(execution)] = entry
           /\ \A i \in DOMAIN costs : /\ i \in DOMAIN Upserted(execution, entry)
                                      /\ Upserted(execution, entry)[i].execution = costs[i].execution
           /\ \A i \in DOMAIN Upserted(execution, entry) :
                \/ i = UpsertedIndex(execution)
                \/ /\ i \in DOMAIN costs /\ Upserted(execution, entry)[i] = costs[i]
                   /\ costs[i].execution # execution
<1>1. PICK u, k : u = Upserted(execution, entry) /\ k = UpsertedIndex(execution)  OBVIOUS
<1>2. costs \in Seq(CostEntries) /\ interim[execution] \in Nat
      /\ Len(costs) \in Nat /\ DOMAIN costs = 1 .. Len(costs)
    BY DEF CostsOK
<1>3. CASE interim[execution] # 0
  <2>1. u = [costs EXCEPT ![k] = entry] /\ k = interim[execution]
    BY <1>1, <1>3 DEF Upserted, UpsertedIndex
  <2>2. k \in DOMAIN costs /\ costs[k].execution = execution  BY <1>3, <2>1 DEF CostsOK
  <2>3. /\ u \in Seq(CostEntries) /\ DOMAIN u = DOMAIN costs
        /\ \A i \in DOMAIN costs : u[i] = IF i = k THEN entry ELSE costs[i]
    BY <1>2, <2>1, <2>2, ExceptSeq
  <2>4. \A i \in DOMAIN costs : i # k => costs[i].execution # execution  BY <2>2 DEF CostsOK
  <2>5. QED  BY <1>1, <1>2, <1>3, <2>1, <2>2, <2>3, <2>4
<1>4. CASE interim[execution] = 0
  <2>1. u = Append(costs, entry) /\ k = Len(costs) + 1
    BY <1>1, <1>4 DEF Upserted, UpsertedIndex
  <2>2. /\ u \in Seq(CostEntries) /\ Len(u) = Len(costs) + 1 /\ u[Len(costs) + 1] = entry
        /\ \A i \in 1 .. Len(costs) : u[i] = costs[i]
    BY <1>2, <2>1
  <2>3. DOMAIN u = 1 .. Len(costs) + 1  BY <2>2
  <2>4. \A i \in DOMAIN costs : costs[i].execution # execution  BY <1>4 DEF CostsOK
  <2>5. k \in DOMAIN u /\ k \in Nat /\ k # 0 /\ u[k] = entry  BY <1>2, <2>1, <2>2, <2>3
  <2>6. \A i \in DOMAIN costs : i \in DOMAIN u /\ u[i] = costs[i]  BY <1>2, <2>2, <2>3
  <2>7. \A i \in DOMAIN u : i = k \/ i \in DOMAIN costs  BY <1>2, <2>1, <2>3
  <2>8. QED  BY <1>1, <2>2, <2>4, <2>5, <2>6, <2>7
<1>5. QED  BY <1>3, <1>4

\* What has been spent, and on what, only grows.
Onward ==
    /\ burned' \in [Execs -> TokenRows] /\ \A e \in Execs : Below(burned[e], burned'[e])
    /\ reviews' \in [Reviews -> [at : {"idle", "runs", "reading", "done"}, burned : Nat, seen : Nat]]
    /\ \A r \in Reviews : reviews[r].burned <= reviews'[r].burned

\* What a step onward has spent is no less.
LEMMA SpentGrows ==
    ASSUME LedgerInv, Onward
    PROVE  \A x \in Execs \cup Reviews : Spent(x) \in Nat /\ Spent(x)' \in Nat /\ Spent(x) <= Spent(x)'
<1>1. ASSUME NEW x \in Execs \cup Reviews
      PROVE  Spent(x) \in Nat /\ Spent(x)' \in Nat /\ Spent(x) <= Spent(x)'
  <2>1. CASE x \in Reviews
    <3>1. reviews[x].burned \in Nat /\ reviews'[x].burned \in Nat
      BY <2>1 DEF LedgerInv, ReviewsOK, Onward
    <3>2. Spent(x) = reviews[x].burned /\ Spent(x)' = reviews'[x].burned  BY <2>1 DEF Spent
    <3>3. QED  BY <2>1, <3>1, <3>2 DEF Onward
  <2>2. CASE x \notin Reviews
    <3>1. burned[x] \in TokenRows /\ burned'[x] \in TokenRows /\ Below(burned[x], burned'[x])
      BY <1>1, <2>2 DEF LedgerInv, AgentOK, Onward
    <3>2. \A m \in Models : burned[x][m] \in Nat /\ burned'[x][m] \in Nat /\ burned[x][m] <= burned'[x][m]
      BY <3>1 DEF TokenRows, Below
    <3>3. Spent(x) = burned[x]["main"] + burned[x]["subagent"]
          /\ Spent(x)' = burned'[x]["main"] + burned'[x]["subagent"]
      BY <2>2 DEF Spent, TokensOf
    <3>4. QED  BY <3>2, <3>3 DEF Models
  <2>3. QED  BY <2>1, <2>2
<1>2. QED  BY <1>1

\* The cost list holds after a step that leaves it alone.
LEMMA CostsCarried ==
    ASSUME LedgerInv, Onward, UNCHANGED << costs, interim, reported >>,
           execution' \in Nat, execution <= execution',
           pending' # "no" => execution' \in Execs
                              /\ ((pending # "no" /\ execution' = execution) \/ execution' > execution),
           \A r \in Reviews : /\ reviews[r].at = "done" <=> reviews'[r].at = "done"
                              /\ reviews[r].at = "done" => reviews'[r].seen = reviews[r].seen
    PROVE  CostsOK'
<1>1. costs' = costs /\ interim' = interim /\ reported' = reported  OBVIOUS
<1>2. costs \in Seq(CostEntries) /\ \A i \in DOMAIN costs : costs[i] \in CostEntries
    BY DEF LedgerInv, CostsOK
<1>3. ASSUME NEW i \in DOMAIN costs
      PROVE  /\ costs[i].tokens <= Spent(costs[i].execution)'
             /\ costs[i].costUsd = costs[i].tokens
             /\ costs[i].execution \in Execs => costs[i].execution <= execution'
             /\ costs[i].execution \in Reviews => reviews'[costs[i].execution].at = "done"
  <2>1. PICK x \in Execs \cup Reviews : x = costs[i].execution  BY <1>2 DEF CostEntries
  <2>2. costs[i].tokens \in Nat /\ costs[i].tokens <= Spent(x)
    BY <1>2, <2>1 DEF CostEntries, LedgerInv, CostsOK
  <2>3. Spent(x) \in Nat /\ Spent(x)' \in Nat /\ Spent(x) <= Spent(x)'  BY SpentGrows
  <2>4. costs[i].tokens <= Spent(x)'  BY <2>2, <2>3
  <2>5. x \in Execs => x <= execution'
    <3>1. x \in Execs => x <= execution /\ x \in Nat /\ execution \in Nat
      BY <2>1, ExecutionsAreNotReviews DEF LedgerInv, CostsOK, AgentOK
    <3>2. QED  BY <3>1
  <2>6. x \in Reviews => reviews'[x].at = "done"  BY <2>1 DEF LedgerInv, CostsOK
  <2>7. costs[i].costUsd = costs[i].tokens  BY DEF LedgerInv, CostsOK
  <2>8. Spent(costs[i].execution)' = Spent(x)'  BY <1>1, <2>1 DEF Spent
  <2>9. costs[i].tokens <= Spent(x)' /\ x = costs[i].execution  BY <2>1, <2>4
  <2>10. QED  BY <1>1, <2>1, <2>5, <2>6, <2>7, <2>9
<1>4. ASSUME pending' # "no", interim[execution'] = 0, NEW i \in DOMAIN costs
      PROVE  costs[i].execution # execution'
  <2>1. CASE pending # "no" /\ execution' = execution
    BY <1>4, <2>1 DEF LedgerInv, CostsOK
  <2>2. CASE execution' > execution
    <3>1. execution' \in Execs /\ execution \in Nat  BY <1>4 DEF LedgerInv, AgentOK
    <3>2. costs[i].execution \in Execs => costs[i].execution <= execution
      BY DEF LedgerInv, CostsOK
    <3>3. QED  BY <2>2, <3>1, <3>2
  <2>3. QED  BY <1>4, <2>1, <2>2
<1>5. ASSUME NEW r \in Reviews, reviews'[r].at = "done", reviews'[r].seen > 0
      PROVE  \E i \in DOMAIN costs : costs[i].execution = r
  <2>1. reviews[r].at = "done" /\ reviews[r].seen > 0  BY <1>5
  <2>2. QED  BY <2>1 DEF LedgerInv, CostsOK
<1>6. /\ costs \in Seq(CostEntries) /\ interim \in [Execs -> Nat] /\ reported \subseteq Execs
      /\ \A i, j \in DOMAIN costs : costs[i].execution = costs[j].execution => i = j
      /\ \A e \in Execs : interim[e] # 0 => interim[e] \in DOMAIN costs /\ costs[interim[e]].execution = e
      /\ \A e \in reported : \E i \in DOMAIN costs : costs[i].execution = e
    BY DEF LedgerInv, CostsOK
<1>7. \A i \in DOMAIN costs' : costs'[i].tokens <= Spent(costs[i].execution)'
    BY <1>1, <1>3
<1>8. \A i \in DOMAIN costs' :
          /\ costs'[i].costUsd = costs'[i].tokens
          /\ costs'[i].execution \in Execs => costs'[i].execution <= execution'
          /\ costs'[i].execution \in Reviews => reviews'[costs'[i].execution].at = "done"
    BY <1>1, <1>3
<1>9. /\ costs' \in Seq(CostEntries) /\ interim' \in [Execs -> Nat] /\ reported' \subseteq Execs
      /\ \A i, j \in DOMAIN costs' : costs'[i].execution = costs'[j].execution => i = j
      /\ \A e \in Execs : interim'[e] # 0 => interim'[e] \in DOMAIN costs' /\ costs'[interim'[e]].execution = e
      /\ \A e \in reported' : \E i \in DOMAIN costs' : costs'[i].execution = e
    BY <1>1, <1>6
<1>10. pending' # "no" /\ interim'[execution'] = 0 => \A i \in DOMAIN costs' : costs'[i].execution # execution'
    BY <1>1, <1>4
<1>11. \A r \in Reviews : reviews'[r].at = "done" /\ reviews'[r].seen > 0
                             => \E i \in DOMAIN costs' : costs'[i].execution = r
    BY <1>1, <1>5
<1>12. QED  BY <1>7, <1>8, <1>9, <1>10, <1>11, Zenon DEF CostsOK

\* The entry of the execution in flight is put in the list.
LEMMA UpsertKeepsCosts ==
    ASSUME LedgerInv, pending # "no", UNCHANGED << execution, burned, reviews >>,
           NEW entry \in CostEntries, execution \in Execs, entry.execution = execution,
           entry.costUsd = entry.tokens, entry.tokens <= Spent(execution),
           costs' = Upserted(execution, entry), interim' \in [Execs -> Nat],
           \A e \in Execs : interim'[e] # 0 => IF e = execution
                                               THEN interim'[e] = UpsertedIndex(execution)
                                               ELSE interim'[e] = interim[e],
           pending' # "no" => interim'[execution] # 0,
           reported' \subseteq reported \cup {execution}
    PROVE  CostsOK'
<1>1. execution' = execution /\ burned' = burned /\ reviews' = reviews  OBVIOUS
<1>2. CostsOK  BY DEF LedgerInv
<1>3. PICK u, k : u = costs' /\ k = UpsertedIndex(execution)  OBVIOUS
<1>4. /\ u \in Seq(CostEntries) /\ k \in DOMAIN u /\ k \in Nat /\ k # 0 /\ u[k] = entry
      /\ \A i \in DOMAIN costs : i \in DOMAIN u /\ u[i].execution = costs[i].execution
      /\ \A i \in DOMAIN u : i = k \/ (i \in DOMAIN costs /\ u[i] = costs[i]
                                       /\ costs[i].execution # execution)
    BY <1>2, <1>3, UpsertedList
<1>5. \A x : Spent(x)' = Spent(x)  BY <1>1 DEF Spent
<1>6. ASSUME NEW i \in DOMAIN u
      PROVE  /\ u[i].tokens <= Spent(u[i].execution) /\ u[i].costUsd = u[i].tokens
             /\ u[i].execution \in Execs => u[i].execution <= execution
             /\ u[i].execution \in Reviews => reviews[u[i].execution].at = "done"
  <2>1. CASE i = k
    <3>1. u[i] = entry /\ execution \notin Reviews /\ execution <= execution
      BY <1>4, <2>1, ExecutionsAreNotReviews
    <3>2. QED  BY <3>1
  <2>2. CASE i \in DOMAIN costs /\ u[i] = costs[i]  BY <1>2, <2>2 DEF CostsOK
  <2>3. QED  BY <1>4, <2>1, <2>2
<1>7. ASSUME NEW i \in DOMAIN u, NEW j \in DOMAIN u, u[i].execution = u[j].execution
      PROVE  i = j
  <2>1. CASE i = k /\ j # k  BY <1>4, <1>7, <2>1
  <2>2. CASE j = k /\ i # k  BY <1>4, <1>7, <2>2
  <2>3. CASE i # k /\ j # k
    <3>1. i \in DOMAIN costs /\ j \in DOMAIN costs /\ costs[i].execution = costs[j].execution
      BY <1>4, <1>7, <2>3
    <3>2. QED  BY <1>2, <3>1 DEF CostsOK
  <2>4. QED  BY <2>1, <2>2, <2>3
<1>8. ASSUME NEW e \in Execs, interim'[e] # 0
      PROVE  interim'[e] \in DOMAIN u /\ u[interim'[e]].execution = e
  <2>1. CASE e = execution  BY <1>3, <1>4, <1>8, <2>1
  <2>2. CASE e # execution
    <3>1. interim'[e] = interim[e] /\ interim[e] # 0  BY <1>8, <2>2
    <3>2. interim[e] \in DOMAIN costs /\ costs[interim[e]].execution = e  BY <1>2, <3>1 DEF CostsOK
    <3>3. QED  BY <1>4, <3>1, <3>2
  <2>3. QED  BY <2>1, <2>2
<1>9. ASSUME NEW e \in reported'  PROVE \E i \in DOMAIN u : u[i].execution = e
  <2>1. CASE e = execution  BY <1>4, <2>1
  <2>2. CASE e \in reported
    <3>1. PICK i \in DOMAIN costs : costs[i].execution = e  BY <1>2, <2>2 DEF CostsOK
    <3>2. QED  BY <1>4, <3>1
  <2>3. QED  BY <2>1, <2>2
<1>10. ASSUME NEW r \in Reviews, reviews[r].at = "done" /\ reviews[r].seen > 0
       PROVE  \E i \in DOMAIN u : u[i].execution = r
  <2>1. PICK i \in DOMAIN costs : costs[i].execution = r  BY <1>2, <1>10 DEF CostsOK
  <2>2. QED  BY <1>4, <2>1
<1>11. reported' \subseteq Execs  BY <1>2 DEF CostsOK
<1>12. \A i \in DOMAIN u : u[i].tokens <= Spent(u[i].execution)'  BY <1>5, <1>6
<1>13. \A i \in DOMAIN costs' : costs'[i].tokens <= Spent(costs[i].execution)'
    BY <1>3, <1>1, <1>6 DEF Spent
<1>14. /\ costs' \in Seq(CostEntries)
       /\ \A i \in DOMAIN costs' :
            /\ costs'[i].costUsd = costs'[i].tokens
            /\ costs'[i].execution \in Execs => costs'[i].execution <= execution'
            /\ costs'[i].execution \in Reviews => reviews'[costs'[i].execution].at = "done"
       /\ \A i, j \in DOMAIN costs' : costs'[i].execution = costs'[j].execution => i = j
    BY <1>1, <1>3, <1>4, <1>6, <1>7
<1>15. /\ \A e \in Execs : interim'[e] # 0 => interim'[e] \in DOMAIN costs' /\ costs'[interim'[e]].execution = e
       /\ pending' # "no" /\ interim'[execution'] = 0 => \A i \in DOMAIN costs' : costs'[i].execution # execution'
       /\ \A e \in reported' : \E i \in DOMAIN costs' : costs'[i].execution = e
       /\ \A r \in Reviews : reviews'[r].at = "done" /\ reviews'[r].seen > 0
                                => \E i \in DOMAIN costs' : costs'[i].execution = r
    BY <1>1, <1>3, <1>8, <1>9, <1>10
<1>16. QED  BY <1>11, <1>13, <1>14, <1>15, Zenon DEF CostsOK

\* A review's entry is appended, when it has one.
LEMMA ReviewKeepsCosts ==
    ASSUME LedgerInv, NEW r \in Reviews, reviews[r].at = "reading", NEW priced \in BOOLEAN,
           ReviewRead(r, priced)
    PROVE  CostsOK'
<1>1. CostsOK /\ ReviewsOK  BY DEF LedgerInv
<1>2. PICK tokens : tokens = IF priced THEN reviews[r].burned ELSE reviews[r].seen  OBVIOUS
<1>3. /\ reviews' = [reviews EXCEPT ![r].at = "done"]
      /\ priced => reviews[r].burned > 0
      /\ costs' = IF tokens > 0 THEN Append(costs, ReviewEntry(r, tokens)) ELSE costs
      /\ UNCHANGED << execution, pending, burned, interim, reported >>
    BY <1>2 DEF ReviewRead
<1>4. /\ reviews[r].burned \in Nat /\ reviews[r].seen \in Nat /\ reviews[r].seen <= reviews[r].burned
      /\ \A q \in Reviews : reviews'[q].burned = reviews[q].burned /\ reviews'[q].seen = reviews[q].seen
      /\ reviews'[r].at = "done" /\ \A q \in Reviews : q # r => reviews'[q].at = reviews[q].at
    BY <1>1, <1>3 DEF ReviewsOK
<1>5. tokens \in Nat /\ tokens <= reviews[r].burned /\ (reviews[r].seen > 0 => tokens > 0)
    BY <1>2, <1>3, <1>4
<1>6. \A x : Spent(x)' = Spent(x)  BY <1>3, <1>4 DEF Spent
<1>7. \A i \in DOMAIN costs : costs[i].execution # r  BY <1>1 DEF CostsOK
<1>8. r \notin Execs /\ execution \in Nat  BY ExecutionsAreNotReviews DEF LedgerInv, AgentOK
<1>9. PICK u : u = costs'  OBVIOUS
<1>10. costs \in Seq(CostEntries) /\ Len(costs) \in Nat /\ DOMAIN costs = 1 .. Len(costs)
    BY <1>1 DEF CostsOK
<1>11. /\ u \in Seq(CostEntries)
       /\ \A i \in DOMAIN costs : i \in DOMAIN u /\ u[i] = costs[i]
       /\ \A i \in DOMAIN u : i \in DOMAIN costs \/ (i = Len(costs) + 1 /\ u[i].execution = r
                              /\ u[i].tokens = tokens /\ u[i].costUsd = tokens)
       /\ tokens > 0 => \E i \in DOMAIN u : u[i].execution = r
  <2>1. CASE tokens > 0
    <3>1. PICK b \in BOOLEAN : b = (tokens = reviews[r].seen)  OBVIOUS
    <3>2. PICK entry : entry = [execution |-> r, tokens |-> tokens, costUsd |-> tokens, estimated |-> b]
      OBVIOUS
    <3>3. entry \in CostEntries /\ entry.execution = r /\ entry.tokens = tokens /\ entry.costUsd = tokens
      BY <1>5, <3>2 DEF CostEntries
    <3>4. u = Append(costs, entry)  BY <1>3, <1>9, <2>1, <3>1, <3>2 DEF ReviewEntry, Estimate
    <3>5. /\ u \in Seq(CostEntries) /\ Len(u) = Len(costs) + 1 /\ u[Len(costs) + 1] = entry
          /\ \A i \in 1 .. Len(costs) : u[i] = costs[i]
      BY <1>10, <3>3, <3>4
    <3>6. DOMAIN u = 1 .. Len(costs) + 1  BY <3>5
    <3>7. \A i \in DOMAIN costs : i \in DOMAIN u /\ u[i] = costs[i]  BY <1>10, <3>5, <3>6
    <3>8. \A i \in DOMAIN u : i \in DOMAIN costs \/ i = Len(costs) + 1  BY <1>10, <3>6
    <3>9. Len(costs) + 1 \in DOMAIN u  BY <1>10, <3>6
    <3>10. QED  BY <3>3, <3>5, <3>7, <3>8, <3>9
  <2>2. CASE ~(tokens > 0)
    <3>1. u = costs  BY <1>3, <1>9, <2>2
    <3>2. QED  BY <1>10, <2>2, <3>1
  <2>3. QED  BY <2>1, <2>2
<1>12. ASSUME NEW i \in DOMAIN u
       PROVE  /\ u[i].tokens <= Spent(u[i].execution) /\ u[i].costUsd = u[i].tokens
              /\ u[i].execution \in Execs => u[i].execution <= execution
              /\ u[i].execution \in Reviews => reviews'[u[i].execution].at = "done"
  <2>1. CASE i \in DOMAIN costs
    <3>1. u[i] = costs[i]  BY <1>11, <2>1
    <3>2. /\ u[i].tokens <= Spent(u[i].execution) /\ u[i].costUsd = u[i].tokens
          /\ u[i].execution \in Execs => u[i].execution <= execution
          /\ u[i].execution \in Reviews => reviews[u[i].execution].at = "done"
      BY <1>1, <2>1, <3>1 DEF CostsOK
    <3>3. QED  BY <1>4, <3>2
  <2>2. CASE i \notin DOMAIN costs
    <3>1. u[i].execution = r /\ u[i].tokens = tokens /\ u[i].costUsd = tokens  BY <1>11, <2>2
    <3>2. Spent(r) = reviews[r].burned  BY DEF Spent
    <3>3. QED  BY <1>4, <1>5, <1>8, <3>1, <3>2
  <2>3. QED  BY <2>1, <2>2
<1>13. ASSUME NEW i \in DOMAIN u, NEW j \in DOMAIN u, u[i].execution = u[j].execution
       PROVE  i = j
  <2>1. CASE i \in DOMAIN costs /\ j \in DOMAIN costs
    <3>1. costs[i].execution = costs[j].execution  BY <1>11, <1>13, <2>1
    <3>2. QED  BY <1>1, <2>1, <3>1 DEF CostsOK
  <2>2. CASE i \notin DOMAIN costs /\ j \notin DOMAIN costs  BY <1>11, <2>2
  <2>3. CASE i \in DOMAIN costs /\ j \notin DOMAIN costs  BY <1>7, <1>11, <1>13, <2>3
  <2>4. CASE i \notin DOMAIN costs /\ j \in DOMAIN costs  BY <1>7, <1>11, <1>13, <2>4
  <2>5. QED  BY <2>1, <2>2, <2>3, <2>4
<1>14. ASSUME NEW e \in Execs, interim[e] # 0
       PROVE  interim[e] \in DOMAIN u /\ u[interim[e]].execution = e
  <2>1. interim[e] \in DOMAIN costs /\ costs[interim[e]].execution = e  BY <1>1, <1>14 DEF CostsOK
  <2>2. QED  BY <1>11, <2>1
<1>15. ASSUME pending # "no", interim[execution] = 0, NEW i \in DOMAIN u
       PROVE  u[i].execution # execution
  <2>1. execution \in Execs
    BY <1>15, ExecutionsAreNotReviews DEF LedgerInv, AgentOK, Execs
  <2>2. CASE i \in DOMAIN costs  BY <1>1, <1>11, <1>15, <2>2 DEF CostsOK
  <2>3. CASE i \notin DOMAIN costs  BY <1>8, <1>11, <2>1, <2>3
  <2>4. QED  BY <2>2, <2>3
<1>16. ASSUME NEW e \in reported  PROVE \E i \in DOMAIN u : u[i].execution = e
  <2>1. PICK i \in DOMAIN costs : costs[i].execution = e  BY <1>1 DEF CostsOK
  <2>2. QED  BY <1>11, <2>1
<1>17. ASSUME NEW q \in Reviews, reviews'[q].at = "done" /\ reviews'[q].seen > 0
       PROVE  \E i \in DOMAIN u : u[i].execution = q
  <2>1. CASE q = r  BY <1>4, <1>5, <1>11, <1>17, <2>1
  <2>2. CASE q # r
    <3>1. reviews[q].at = "done" /\ reviews[q].seen > 0  BY <1>4, <1>17, <2>2
    <3>2. PICK i \in DOMAIN costs : costs[i].execution = q  BY <1>1, <3>1 DEF CostsOK
    <3>3. QED  BY <1>11, <3>2
  <2>3. QED  BY <2>1, <2>2
<1>18. /\ interim' = interim /\ reported' = reported /\ execution' = execution /\ pending' = pending
       /\ interim \in [Execs -> Nat] /\ reported \subseteq Execs
    BY <1>1, <1>3 DEF CostsOK
<1>19. \A i \in DOMAIN costs' : costs'[i].tokens <= Spent(costs[i].execution)'
  <2>1. \A i \in DOMAIN u : u[i].tokens <= Spent(u[i].execution)'  BY <1>6, <1>12
  <2>2. QED  BY <1>9, <2>1 DEF Spent
<1>20. /\ costs' \in Seq(CostEntries)
       /\ \A i \in DOMAIN costs' :
            /\ costs'[i].costUsd = costs'[i].tokens
            /\ costs'[i].execution \in Execs => costs'[i].execution <= execution'
            /\ costs'[i].execution \in Reviews => reviews'[costs'[i].execution].at = "done"
       /\ \A i, j \in DOMAIN costs' : costs'[i].execution = costs'[j].execution => i = j
    BY <1>9, <1>11, <1>12, <1>13, <1>18
<1>21. /\ \A e \in Execs : interim'[e] # 0 => interim'[e] \in DOMAIN costs' /\ costs'[interim'[e]].execution = e
       /\ pending' # "no" /\ interim'[execution'] = 0 => \A i \in DOMAIN costs' : costs'[i].execution # execution'
       /\ \A e \in reported' : \E i \in DOMAIN costs' : costs'[i].execution = e
       /\ \A q \in Reviews : reviews'[q].at = "done" /\ reviews'[q].seen > 0
                                => \E i \in DOMAIN costs' : costs'[i].execution = q
    BY <1>9, <1>14, <1>15, <1>16, <1>17, <1>18
<1>22. QED  BY <1>18, <1>19, <1>20, <1>21, Zenon DEF CostsOK

\* A sequence over a set is one over any larger set.
LEMMA SeqGrows ==
    ASSUME NEW S, NEW T, S \subseteq T, NEW q \in Seq(S)
    PROVE  q \in Seq(T)
OBVIOUS

\* What told the truth before a step onward still does.
LEMMA OnwardSets ==
    ASSUME LedgerInv, Onward
    PROVE  /\ Samples \subseteq Samples' /\ Snapshots \subseteq Snapshots'
           /\ \A e \in Execs, rows \in TokenRows : Below(rows, burned[e]) => Below(rows, burned'[e])
<1>1. burned \in [Execs -> TokenRows]  BY DEF LedgerInv, AgentOK
<1>2. \A e \in Execs, m \in Models : /\ burned[e][m] \in Nat /\ burned'[e][m] \in Nat
                                     /\ burned[e][m] <= burned'[e][m]
  <2>1. \A e \in Execs : burned[e] \in TokenRows /\ burned'[e] \in TokenRows /\ Below(burned[e], burned'[e])
    BY <1>1 DEF Onward
  <2>2. QED  BY <2>1 DEF Below, TokenRows
<1>3. \A e \in Execs, rows \in TokenRows : Below(rows, burned[e]) => Below(rows, burned'[e])
  <2>1. \A rows \in TokenRows, m \in Models : rows[m] \in Nat  BY DEF TokenRows
  <2>2. QED  BY <1>2, <2>1 DEF Below
<1>4. Samples \subseteq Samples'
  <2>1. ASSUME NEW s \in Samples  PROVE s \in Samples'
    <3>1. s \in [execution : Execs, rows : TokenRows] /\ Below(s.rows, burned[s.execution])
      BY DEF Samples
    <3>2. Below(s.rows, burned'[s.execution])  BY <1>3, <3>1
    <3>3. QED  BY <3>1, <3>2 DEF Samples
  <2>2. QED  BY <2>1
<1>5. Snapshots \subseteq Snapshots'
  <2>1. ASSUME NEW f \in Snapshots  PROVE f \in Snapshots'
    <3>1. /\ f \in [session : Execs, transcript : Models, tokens : Nat]
          /\ f.tokens <= burned[f.session][f.transcript]
      BY DEF Snapshots
    <3>2. f.tokens <= burned'[f.session][f.transcript]  BY <1>2, <3>1
    <3>3. QED  BY <3>1, <3>2 DEF Snapshots
  <2>2. QED  BY <2>1
<1>6. QED  BY <1>3, <1>4, <1>5

\* The archive holds after a step that leaves it alone.
LEMMA ArchiveCarried ==
    ASSUME LedgerInv, Onward, UNCHANGED archiveVars
    PROVE  ArchiveOK'
<1>1. archive' = archive /\ frames' = frames /\ applied' = applied  BY DEF archiveVars
<1>2. /\ archive \in [Execs -> TokenRows] /\ applied \in 0 .. Len(frames)
      /\ \A e \in Execs : Below(archive[e], burned[e])
      /\ frames \in Seq(Snapshots)
    BY DEF LedgerInv, ArchiveOK
<1>3. frames \in Seq(Snapshots')  BY <1>2, OnwardSets, SeqGrows
<1>4. \A e \in Execs : Below(archive[e], burned'[e])  BY <1>2, OnwardSets
<1>5. QED  BY <1>1, <1>2, <1>3, <1>4 DEF ArchiveOK

\* A step that burns nothing is one onward.
LEMMA StillOnward ==
    ASSUME LedgerInv, burned' = burned, reviews' = reviews
    PROVE  Onward /\ ReviewsOK'
<1>1. \A e \in Execs : Below(burned[e], burned[e])
  <2>1. \A e \in Execs, m \in Models : burned[e][m] \in Nat
    BY DEF LedgerInv, AgentOK, TokenRows
  <2>2. QED  BY <2>1 DEF Below
<1>2. \A r \in Reviews : reviews[r].burned \in Nat  BY DEF LedgerInv, ReviewsOK
<1>3. QED  BY <1>1, <1>2 DEF Onward, LedgerInv, AgentOK, ReviewsOK

\* What the agent's part says, in the terms the steps need.
LEMMA AgentParts ==
    ASSUME LedgerInv
    PROVE  /\ execution \in 0 .. MaxExecutions /\ execution \in Nat
           /\ pending \in {"no", "live", "reading"}
           /\ pending # "no" => execution \in Execs /\ burned[execution] \in TokenRows
           /\ pending # "live" => stopped = TRUE
           /\ burned \in [Execs -> TokenRows]
           /\ streamed \in TokenRows /\ result \in TokenRows /\ latest \in TokenRows
           /\ pending # "no" => /\ Below(streamed, burned[execution])
                                /\ Below(result, burned[execution])
                                /\ Below(latest, burned[execution])
           /\ inFlight \in Seq(Samples)
<1>1. AgentOK  BY DEF LedgerInv
<1>2. execution \in 0 .. MaxExecutions /\ execution \in Nat /\ (execution # 0 => execution \in Execs)
    BY <1>1, ExecutionsAreNotReviews DEF AgentOK, Execs
<1>3. /\ pending \in {"no", "live", "reading"} /\ (pending # "no" => execution # 0)
      /\ (pending # "live" => stopped = TRUE)
      /\ burned \in [Execs -> TokenRows] /\ inFlight \in Seq(Samples)
    BY <1>1 DEF AgentOK
<1>4. streamed \in TokenRows /\ result \in TokenRows /\ latest \in TokenRows
    BY <1>1 DEF AgentOK
<1>5. pending # "no" => /\ Below(streamed, burned[execution]) /\ Below(result, burned[execution])
                        /\ Below(latest, burned[execution])
    BY <1>1 DEF AgentOK
<1>6. QED  BY <1>2, <1>3, <1>4, <1>5

\* The agent's part holds, if these do.
LEMMA AgentHolds ==
    ASSUME Onward, execution' \in 0 .. MaxExecutions, pending' \in {"no", "live", "reading"},
           pending' # "no" => execution' # 0, pending' # "live" => stopped' = TRUE,
           streamed' \in TokenRows, result' \in TokenRows, latest' \in TokenRows,
           pending' # "no" => /\ Below(streamed', burned'[execution'])
                              /\ Below(result', burned'[execution'])
                              /\ Below(latest', burned'[execution']),
           inFlight' \in Seq(Samples')
    PROVE  AgentOK'
<1>1. burned' \in [Execs -> TokenRows]  BY DEF Onward
<1>2. {streamed', result', latest'} \subseteq TokenRows  OBVIOUS
<1>3. pending' # "no" => \A rows \in {streamed', result', latest'} : Below(rows, burned'[execution'])
    OBVIOUS
<1>4. QED  BY <1>1, <1>2, <1>3 DEF AgentOK

\* The agent's part holds after a step that leaves it alone.
LEMMA AgentCarried ==
    ASSUME LedgerInv, Onward,
           UNCHANGED << execution, pending, streamed, result, latest, stopped, inFlight >>
    PROVE  AgentOK'
<1>1. /\ execution' = execution /\ pending' = pending /\ streamed' = streamed /\ result' = result
      /\ latest' = latest /\ stopped' = stopped /\ inFlight' = inFlight
    OBVIOUS
<1>2. inFlight' \in Seq(Samples')
  <2>1. inFlight \in Seq(Samples)  BY AgentParts
  <2>2. QED  BY <1>1, <2>1, OnwardSets, SeqGrows
<1>3. pending' # "no" => execution' # 0  BY <1>1, AgentParts, ExecutionsAreNotReviews
<1>4. pending' # "no" => /\ Below(streamed', burned'[execution'])
                         /\ Below(result', burned'[execution'])
                         /\ Below(latest', burned'[execution'])
    BY <1>1, AgentParts, OnwardSets
<1>5. /\ execution' \in 0 .. MaxExecutions /\ pending' \in {"no", "live", "reading"}
      /\ (pending' # "live" => stopped' = TRUE)
      /\ streamed' \in TokenRows /\ result' \in TokenRows /\ latest' \in TokenRows
    BY <1>1, AgentParts
<1>6. QED  BY <1>2, <1>3, <1>4, <1>5, AgentHolds

\* The cost list holds after a step that leaves it, the execution and the reviews alone.
LEMMA CostsUntouched ==
    ASSUME LedgerInv, Onward, UNCHANGED << costs, interim, reported, execution, reviews >>,
           pending' # "no" => pending # "no"
    PROVE  CostsOK'
<1>1. execution' = execution /\ reviews' = reviews  OBVIOUS
<1>2. execution' \in Nat /\ execution <= execution'  BY <1>1, AgentParts
<1>3. pending' # "no" => execution' \in Execs /\ ((pending # "no" /\ execution' = execution) \/ execution' > execution)
    BY <1>1, AgentParts
<1>4. QED  BY <1>1, <1>2, <1>3, CostsCarried

-----------------------------------------------------------------------------
(* The ledger's steps                                                      *)

\* Nothing is burned, nothing listed at first.
LEMMA InitLedger == UsageInit => LedgerInv
<1> SUFFICES ASSUME UsageInit  PROVE LedgerInv
    OBVIOUS
<1>1. /\ execution = 0 /\ pending = "no" /\ burned = [e \in Execs |-> NoRows] /\ streamed = NoRows
      /\ result = NoRows /\ stopped = TRUE /\ inFlight = << >> /\ latest = NoRows
      /\ costs = << >> /\ interim = [e \in Execs |-> 0] /\ frames = << >> /\ applied = 0
      /\ archive = [e \in Execs |-> NoRows]
      /\ reviews = [r \in Reviews |-> [at |-> "idle", burned |-> 0, seen |-> 0]] /\ reported = {}
    BY DEF UsageInit
<1>2. AgentOK
    BY <1>1, NoRowsIsNothing, ExecutionsAreNotReviews DEF AgentOK
<1>3. ReviewsOK  BY <1>1 DEF ReviewsOK
<1>4. CostsOK
  <2>1. costs \in Seq(CostEntries) /\ DOMAIN costs = {}  BY <1>1
  <2>2. interim \in [Execs -> Nat] /\ \A e \in Execs : interim[e] = 0  BY <1>1
  <2>3. \A r \in Reviews : reviews[r].at = "idle"  BY <1>1
  <2>4. QED  BY <1>1, <2>1, <2>2, <2>3 DEF CostsOK
<1>5. ArchiveOK
  <2>1. frames \in Seq(Snapshots) /\ Len(frames) = 0  BY <1>1
  <2>2. QED  BY <1>1, <2>1, NoRowsIsNothing DEF ArchiveOK
<1>6. QED  BY <1>2, <1>3, <1>4, <1>5 DEF LedgerInv

\* An execution starts with nothing of its own seen.
LEMMA StartingKeepsLedger == LedgerInv /\ StartExecution => LedgerInv'
<1> SUFFICES ASSUME LedgerInv, StartExecution  PROVE LedgerInv'
    OBVIOUS
<1>1. /\ execution < MaxExecutions /\ execution' = execution + 1 /\ pending' = "live"
      /\ streamed' = NoRows /\ result' = NoRows /\ latest' = NoRows
      /\ burned' = burned /\ reviews' = reviews /\ inFlight' = inFlight
      /\ UNCHANGED << costs, interim, reported >> /\ UNCHANGED archiveVars
    BY DEF StartExecution, reviewVars, listVars
<1>2. Onward /\ ReviewsOK'  BY <1>1, StillOnward
<1>3. /\ execution' \in 0 .. MaxExecutions /\ execution' \in Execs /\ execution' \in Nat
      /\ execution <= execution' /\ execution' > execution /\ execution' # 0
    BY <1>1, AgentParts, ExecutionsAreNotReviews DEF Execs
<1>4. inFlight' \in Seq(Samples')
  <2>1. inFlight \in Seq(Samples)  BY AgentParts
  <2>2. QED  BY <1>1, <1>2, <2>1, OnwardSets, SeqGrows
<1>5. AgentOK'
  <2>1. burned'[execution'] \in TokenRows  BY <1>1, <1>3, AgentParts
  <2>2. QED  BY <1>1, <1>2, <1>3, <1>4, <2>1, NoRowsIsNothing, AgentHolds
<1>6. CostsOK'  BY <1>1, <1>2, <1>3, CostsCarried
<1>7. ArchiveOK'  BY <1>1, <1>2, ArchiveCarried
<1>8. QED  BY <1>2, <1>5, <1>6, <1>7 DEF LedgerInv

\* A transcript that grows is one of more tokens.
LEMMA BurningIsOnward ==
    ASSUME LedgerInv, NEW e \in Execs, NEW m \in Models,
           burned' = [burned EXCEPT ![e][m] = @ + 1], reviews' = reviews
    PROVE  /\ Onward /\ burned'[e] \in TokenRows
           /\ \A k \in Models : /\ burned[e][k] \in Nat /\ burned'[e][k] \in Nat
                                /\ burned'[e][k] = IF k = m THEN burned[e][k] + 1 ELSE burned[e][k]
<1>1. PICK row : row = burned[e]  OBVIOUS
<1>2. row \in [Models -> Nat]  BY <1>1, AgentParts DEF TokenRows
<1>3. PICK of : of = [row EXCEPT ![m] = @ + 1]  OBVIOUS
<1>4. row[m] + 1 \in Nat  BY <1>2
<1>5. of \in [Models -> Nat] /\ \A k \in Models : of[k] = IF k = m THEN row[k] + 1 ELSE row[k]
    BY <1>2, <1>3, <1>4
<1>6. burned \in [Execs -> TokenRows] /\ of \in TokenRows
    BY <1>5, AgentParts DEF TokenRows
<1>7. burned' = [burned EXCEPT ![e] = of]  BY <1>1, <1>3
<1>8. /\ burned' \in [Execs -> TokenRows] /\ burned'[e] = of
      /\ \A x \in Execs : x # e => burned'[x] = burned[x]
    BY <1>6, <1>7
<1>9. \A x \in Execs, k \in Models : burned[x][k] \in Nat /\ burned[x][k] <= burned'[x][k]
  <2>1. \A k \in Models : row[k] \in Nat /\ row[k] <= of[k]  BY <1>2, <1>5
  <2>2. \A x \in Execs, k \in Models : burned[x][k] \in Nat  BY <1>6 DEF TokenRows
  <2>3. \A x \in Execs, k \in Models : x # e => burned[x][k] <= burned'[x][k]  BY <1>8, <2>2
  <2>4. QED  BY <1>1, <1>8, <2>1, <2>2, <2>3
<1>10. /\ reviews' \in [Reviews -> [at : {"idle", "runs", "reading", "done"}, burned : Nat, seen : Nat]]
       /\ \A r \in Reviews : reviews[r].burned <= reviews'[r].burned
  <2>1. /\ reviews' = reviews
        /\ reviews \in [Reviews -> [at : {"idle", "runs", "reading", "done"}, burned : Nat, seen : Nat]]
    BY DEF LedgerInv, ReviewsOK
  <2>2. \A r \in Reviews : reviews[r].burned \in Nat  BY <2>1
  <2>3. QED  BY <2>1, <2>2
<1>11. \A x \in Execs : Below(burned[x], burned'[x])  BY <1>9 DEF Below
<1>12. Onward  BY <1>8, <1>10, <1>11 DEF Onward
<1>13. QED  BY <1>1, <1>2, <1>5, <1>6, <1>8, <1>12

\* A turn of the agent.
LEMMA BurningKeepsLedger ==
    ASSUME LedgerInv, NEW m \in Models, NEW seen \in BOOLEAN, Burn(m, seen)
    PROVE  LedgerInv'
<1>1. /\ pending = "live"
      /\ burned' = [burned EXCEPT ![execution][m] = @ + 1]
      /\ streamed' = IF seen THEN [streamed EXCEPT ![m] = @ + 1] ELSE streamed
      /\ execution' = execution /\ pending' = pending /\ result' = result /\ latest' = latest
      /\ reviews' = reviews /\ stopped' = stopped /\ inFlight' = inFlight
      /\ UNCHANGED << costs, interim, reported, execution, reviews >> /\ UNCHANGED archiveVars
    BY DEF Burn, reviewVars, listVars, samplerVars
<1>2. execution \in Execs /\ burned[execution] \in TokenRows /\ streamed \in TokenRows
    BY <1>1, AgentParts
<1>3. PICK of : of = burned'[execution]  OBVIOUS
<1>4. /\ Onward /\ of \in TokenRows
      /\ \A k \in Models : burned[execution][k] \in Nat /\ of[k] \in Nat
                           /\ of[k] = IF k = m THEN burned[execution][k] + 1 ELSE burned[execution][k]
    BY <1>1, <1>2, <1>3, BurningIsOnward
<1>7. streamed' \in TokenRows /\ Below(streamed', of)
  <2>1. \A k \in Models : streamed[k] \in Nat /\ streamed[k] <= burned[execution][k]
    BY <1>1, <1>2, AgentParts DEF TokenRows, Below
  <2>2. PICK q : q = streamed'  OBVIOUS
  <2>3. CASE seen
    <3>1. q = [streamed EXCEPT ![m] = @ + 1]  BY <1>1, <2>2, <2>3
    <3>2. q \in TokenRows  BY <1>2, <3>1 DEF TokenRows
    <3>3. \A k \in Models : q[k] = IF k = m THEN streamed[k] + 1 ELSE streamed[k]
      BY <1>2, <3>1 DEF TokenRows
    <3>4. QED  BY <1>4, <2>1, <2>2, <3>2, <3>3 DEF Below
  <2>4. CASE ~seen
    <3>1. q = streamed  BY <1>1, <2>2, <2>4
    <3>2. QED  BY <1>2, <1>4, <2>1, <2>2, <3>1 DEF Below
  <2>5. QED  BY <2>3, <2>4
<1>8. AgentOK'
  <2>1. inFlight \in Seq(Samples)  BY AgentParts
  <2>2. inFlight' \in Seq(Samples')  BY <1>1, <1>4, <2>1, OnwardSets, SeqGrows
  <2>3. Below(result', burned'[execution']) /\ Below(latest', burned'[execution'])
    BY <1>1, <1>2, <1>4, AgentParts, OnwardSets
  <2>4. execution' \in 0 .. MaxExecutions /\ execution' # 0  BY <1>1, AgentParts, ExecutionsAreNotReviews
  <2>5. result' \in TokenRows /\ latest' \in TokenRows /\ pending' = "live"  BY <1>1, AgentParts
  <2>6. Below(streamed', burned'[execution'])  BY <1>1, <1>3, <1>7
  <2>7. QED  BY <1>4, <1>7, <2>2, <2>3, <2>4, <2>5, <2>6, AgentHolds
<1>9. CostsOK'  BY <1>1, <1>4, CostsUntouched
<1>10. ReviewsOK'  BY <1>1 DEF LedgerInv, ReviewsOK
<1>11. ArchiveOK'  BY <1>1, <1>4, ArchiveCarried
<1>12. QED  BY <1>8, <1>9, <1>10, <1>11 DEF LedgerInv

\* The agent's result tells all that it burned; an execution is settled.
LEMMA ObservingKeepsLedger == LedgerInv /\ (ObserveResult \/ Settle) => LedgerInv'
<1> SUFFICES ASSUME LedgerInv, ObserveResult \/ Settle  PROVE LedgerInv'
    OBVIOUS
<1>1. /\ pending = "live" /\ pending' \in {"live", "reading"}
      /\ pending' # "live" => stopped' = TRUE
      /\ result' \in {result, burned[execution]}
      /\ burned' = burned /\ execution' = execution /\ streamed' = streamed /\ latest' = latest
      /\ reviews' = reviews /\ inFlight' = inFlight
      /\ UNCHANGED << costs, interim, reported, execution, reviews >> /\ UNCHANGED archiveVars
    BY DEF ObserveResult, Settle, reviewVars, listVars, samplerVars, agentVars
<1>2. Onward /\ ReviewsOK'  BY <1>1, StillOnward
<1>3. execution \in Execs /\ burned[execution] \in TokenRows /\ Below(burned[execution], burned[execution])
    BY <1>1, AgentParts DEF Below, TokenRows
<1>4. AgentOK'
  <2>1. inFlight \in Seq(Samples)  BY AgentParts
  <2>2. inFlight' \in Seq(Samples')  BY <1>1, <1>2, <2>1, OnwardSets, SeqGrows
  <2>3. /\ Below(streamed', burned'[execution']) /\ Below(result', burned'[execution'])
        /\ Below(latest', burned'[execution'])
    BY <1>1, <1>3, AgentParts
  <2>4. execution' \in 0 .. MaxExecutions /\ execution' # 0  BY <1>1, <1>3, AgentParts, ExecutionsAreNotReviews
  <2>5. streamed' \in TokenRows /\ result' \in TokenRows /\ latest' \in TokenRows
    BY <1>1, <1>3, AgentParts
  <2>6. QED  BY <1>1, <1>2, <2>2, <2>3, <2>4, <2>5, AgentHolds
<1>5. CostsOK'  BY <1>1, <1>2, CostsUntouched
<1>6. ArchiveOK'  BY <1>1, <1>2, ArchiveCarried
<1>7. QED  BY <1>2, <1>4, <1>5, <1>6 DEF LedgerInv

-----------------------------------------------------------------------------
(* The ledger's other steps                                                *)

\* A step that leaves the agent, its samples, the cost list and the reviews alone.
LEMMA QuietKeepsLedger ==
    ASSUME LedgerInv, ArchiveOK',
           UNCHANGED << execution, pending, burned, streamed, result, latest, stopped, inFlight,
                        costs, interim, reported, reviews >>
    PROVE  LedgerInv'
<1>1. /\ UNCHANGED << execution, pending, streamed, result, latest, stopped, inFlight >>
      /\ UNCHANGED << costs, interim, reported, execution, reviews >>
      /\ burned' = burned /\ reviews' = reviews /\ pending' = pending
    OBVIOUS
<1>2. Onward /\ ReviewsOK'  BY <1>1, StillOnward
<1>3. AgentOK'  BY <1>1, <1>2, AgentCarried
<1>4. CostsOK'  BY <1>1, <1>2, CostsUntouched
<1>5. QED  BY <1>2, <1>3, <1>4 DEF LedgerInv

\* A step that touches only what the invariant does not mention.
LEMMA UntouchedKeepsLedger ==
    ASSUME LedgerInv, UNCHANGED archiveVars,
           UNCHANGED << execution, pending, burned, streamed, result, latest, stopped, inFlight,
                        costs, interim, reported, reviews >>
    PROVE  LedgerInv'
<1>1. burned' = burned /\ reviews' = reviews  OBVIOUS
<1>2. ArchiveOK'  BY <1>1, StillOnward, ArchiveCarried
<1>3. QED  BY <1>2, QuietKeepsLedger

\* The init event is seen, the run is cancelled, or nothing happens.
LEMMA SeeingKeepsLedger ==
    LedgerInv /\ (ObserveInit \/ Cancel \/ UNCHANGED usageVars) => LedgerInv'
<1> SUFFICES ASSUME LedgerInv, ObserveInit \/ Cancel \/ UNCHANGED usageVars  PROVE LedgerInv'
    OBVIOUS
<1>1. /\ UNCHANGED archiveVars
      /\ UNCHANGED << execution, pending, burned, streamed, result, latest, stopped, inFlight,
                      costs, interim, reported, reviews >>
  <2>1. CASE ObserveInit
    BY <2>1 DEF ObserveInit, reviewVars, samplerVars, listVars, archiveVars
  <2>2. CASE Cancel
    BY <2>2 DEF Cancel, agentVars, reviewVars, samplerVars, listVars, archiveVars
  <2>3. CASE UNCHANGED usageVars
    BY <2>3 DEF usageVars, archiveVars
  <2>4. QED  BY <2>1, <2>2, <2>3
<1>2. QED  BY <1>1, UntouchedKeepsLedger

\* The archive's file is replaced by a snapshot, a snapshot is acknowledged or due again.
LEMMA ArchivingKeepsLedger ==
    LedgerInv /\ (ApplyFrame \/ AckFrames \/ Replay) => LedgerInv'
<1> SUFFICES ASSUME LedgerInv, ApplyFrame \/ AckFrames \/ Replay  PROVE LedgerInv'
    OBVIOUS
<1>1. UNCHANGED << execution, pending, burned, streamed, result, latest, stopped, inFlight,
                   costs, interim, reported, reviews >>
    BY DEF ApplyFrame, AckFrames, Replay, agentVars, reviewVars, samplerVars, listVars
<1>2. burned' = burned /\ Snapshots' = Snapshots  BY <1>1 DEF Snapshots
<1>3. /\ archive \in [Execs -> TokenRows] /\ applied \in 0 .. Len(frames)
      /\ \A e \in Execs : Below(archive[e], burned[e])
      /\ frames \in Seq(Snapshots) /\ Len(frames) \in Nat
    BY DEF LedgerInv, ArchiveOK
<1>4. ArchiveOK'
  <2>1. CASE ApplyFrame
    <3>1. applied < Len(frames) /\ applied' = applied + 1 /\ frames' = frames
      BY <2>1 DEF ApplyFrame, samplerVars, listVars
    <3>2. PICK f : f = frames[applied + 1]  OBVIOUS
    <3>3. f \in Snapshots  BY <1>3, <3>1, <3>2
    <3>4. /\ f.session \in Execs /\ f.transcript \in Models /\ f.tokens \in Nat
          /\ f.tokens <= burned[f.session][f.transcript]
      BY <3>3 DEF Snapshots
    <3>5. PICK e, p, t : e = f.session /\ p = f.transcript /\ t = f.tokens  OBVIOUS
    <3>6. PICK row : row = archive[e]  OBVIOUS
    <3>7. row \in [Models -> Nat]  BY <1>3, <3>4, <3>5, <3>6 DEF TokenRows
    <3>8. PICK of : of = [row EXCEPT ![p] = t]  OBVIOUS
    <3>9. of \in [Models -> Nat] /\ \A m \in Models : of[m] = IF m = p THEN t ELSE row[m]
      BY <3>4, <3>5, <3>7, <3>8
    <3>10. archive' = [archive EXCEPT ![e] = of]
      <4>1. archive' = [archive EXCEPT ![f.session][f.transcript] = f.tokens]
        BY <2>1, <3>2 DEF ApplyFrame, Saved
      <4>2. QED  BY <3>5, <3>6, <3>8, <4>1
    <3>11. of \in TokenRows  BY <3>9 DEF TokenRows
    <3>12. Below(row, burned[e])  BY <1>3, <3>4, <3>5, <3>6
    <3>13. Below(of, burned[e])  BY <3>4, <3>5, <3>9, <3>12 DEF Below
    <3>14. archive' \in [Execs -> TokenRows]  BY <1>3, <3>10, <3>11
    <3>15. \A x \in Execs : archive'[x] = IF x = e THEN of ELSE archive[x]
      BY <1>3, <3>10
    <3>16. \A x \in Execs : Below(archive'[x], burned'[x])  BY <1>2, <1>3, <3>13, <3>15
    <3>17. applied' \in 0 .. Len(frames')  BY <1>3, <3>1
    <3>18. frames' \in Seq(Snapshots')  BY <1>2, <1>3, <3>1
    <3>19. QED  BY <3>14, <3>16, <3>17, <3>18 DEF ArchiveOK
  <2>2. CASE AckFrames
    <3>1. /\ applied > 0 /\ frames' = SubSeq(frames, applied + 1, Len(frames)) /\ applied' = 0
          /\ archive' = archive
      BY <2>2 DEF AckFrames
    <3>2. applied + 1 \in Int /\ Len(frames) \in Int
          /\ \A i \in applied + 1 .. Len(frames) : frames[i] \in Snapshots
      BY <1>3
    <3>3. frames' \in Seq(Snapshots)  BY <3>1, <3>2, SubSeqProperties
    <3>4. frames' \in Seq(Snapshots') /\ applied' \in 0 .. Len(frames')  BY <1>2, <3>1, <3>3
    <3>5. QED  BY <1>2, <1>3, <3>1, <3>4 DEF ArchiveOK
  <2>3. CASE Replay
    <3>1. frames' = frames /\ applied' = 0 /\ archive' = archive  BY <2>3 DEF Replay
    <3>2. QED  BY <1>2, <1>3, <3>1 DEF ArchiveOK
  <2>4. QED  BY <2>1, <2>2, <2>3
<1>5. QED  BY <1>1, <1>4, QuietKeepsLedger

\* A sample of the transcript is taken.
LEMMA TickKeepsLedger == LedgerInv /\ Tick => LedgerInv'
<1> SUFFICES ASSUME LedgerInv, Tick  PROVE LedgerInv'
    OBVIOUS
<1>1. /\ ~stopped
      /\ inFlight' = Append(inFlight, [execution |-> execution, rows |-> burned[execution]])
      /\ UNCHANGED << costs, interim, reported, execution, reviews >> /\ UNCHANGED archiveVars
      /\ burned' = burned /\ reviews' = reviews /\ pending' = pending /\ stopped' = stopped
      /\ streamed' = streamed /\ result' = result /\ latest' = latest /\ execution' = execution
    BY DEF Tick, agentVars, reviewVars, listVars
<1>2. Onward /\ ReviewsOK'  BY <1>1, StillOnward
<1>3. execution \in Execs /\ burned[execution] \in TokenRows  BY <1>1, AgentParts
<1>4. PICK s : s = [execution |-> execution, rows |-> burned[execution]]  OBVIOUS
<1>5. s \in Samples
  <2>1. s \in [execution : Execs, rows : TokenRows]  BY <1>3, <1>4
  <2>2. Below(burned[execution], burned[execution])  BY <1>3 DEF Below, TokenRows
  <2>3. QED  BY <1>4, <2>1, <2>2 DEF Samples
<1>6. inFlight' \in Seq(Samples)
  <2>1. inFlight \in Seq(Samples)  BY AgentParts
  <2>2. QED  BY <1>1, <1>4, <1>5, <2>1
<1>7. Samples' = Samples  BY <1>1 DEF Samples
<1>8. AgentOK'
  <2>1. execution' \in 0 .. MaxExecutions /\ execution' # 0
    BY <1>1, <1>3, AgentParts, ExecutionsAreNotReviews
  <2>2. /\ pending' \in {"no", "live", "reading"} /\ (pending' # "live" => stopped' = TRUE)
        /\ streamed' \in TokenRows /\ result' \in TokenRows /\ latest' \in TokenRows
    BY <1>1, AgentParts
  <2>3. pending' # "no" => /\ Below(streamed', burned'[execution'])
                           /\ Below(result', burned'[execution'])
                           /\ Below(latest', burned'[execution'])
    BY <1>1, AgentParts
  <2>4. QED  BY <1>2, <1>6, <1>7, <2>1, <2>2, <2>3, AgentHolds
<1>9. CostsOK'  BY <1>1, <1>2, CostsUntouched
<1>10. ArchiveOK'  BY <1>1, <1>2, ArchiveCarried
<1>11. QED  BY <1>2, <1>8, <1>9, <1>10 DEF LedgerInv

\* A sequence without one of its elements.
LEMMA Without ==
    ASSUME NEW S, NEW q \in Seq(S), NEW i \in DOMAIN q
    PROVE  RemoveAt(q, i) \in Seq(S)
<1>1. Len(q) \in Nat /\ i \in 1 .. Len(q) /\ \A k \in 1 .. Len(q) : q[k] \in S  OBVIOUS
<1>2. SubSeq(q, 1, i - 1) \in Seq(S)
  <2>1. 1 \in Int /\ i - 1 \in Int /\ \A k \in 1 .. i - 1 : q[k] \in S  BY <1>1
  <2>2. QED  BY <2>1, SubSeqProperties
<1>3. SubSeq(q, i + 1, Len(q)) \in Seq(S)
  <2>1. i + 1 \in Int /\ Len(q) \in Int /\ \A k \in i + 1 .. Len(q) : q[k] \in S  BY <1>1
  <2>2. QED  BY <2>1, SubSeqProperties
<1>4. QED  BY <1>2, <1>3, ConcatProperties DEF RemoveAt

\* A sample's answer is listed as its execution's entry, or dropped.
LEMMA TickReturnsKeepsLedger ==
    ASSUME LedgerInv, NEW i \in DOMAIN inFlight, TickReturns(i)
    PROVE  LedgerInv'
<1>1. /\ UNCHANGED << execution, burned, reviews >> /\ UNCHANGED archiveVars
      /\ inFlight' = RemoveAt(inFlight, i)
      /\ burned' = burned /\ reviews' = reviews /\ pending' = pending /\ stopped' = stopped
      /\ streamed' = streamed /\ result' = result /\ execution' = execution /\ reported' = reported
    BY DEF TickReturns, agentVars, reviewVars
<1>2. Onward /\ ReviewsOK'  BY <1>1, StillOnward
<1>3. inFlight \in Seq(Samples)  BY AgentParts
<1>4. inFlight' \in Seq(Samples')
  <2>1. Samples' = Samples  BY <1>1 DEF Samples
  <2>2. QED  BY <1>1, <1>3, <2>1, Without
<1>5. PICK s, rows : s = inFlight[i] /\ rows = s.rows  OBVIOUS
<1>6. /\ s \in Samples /\ rows \in TokenRows /\ Below(rows, burned[s.execution])
  <2>1. s \in Samples  BY <1>3, <1>5
  <2>2. QED  BY <1>5, <2>1 DEF Samples
<1>7. ASSUME latest' \in TokenRows, pending # "no" => Below(latest', burned[execution])
      PROVE  AgentOK'
  <2>1. execution' \in 0 .. MaxExecutions /\ (pending' # "no" => execution' # 0)
    BY <1>1, AgentParts, ExecutionsAreNotReviews
  <2>2. /\ pending' \in {"no", "live", "reading"} /\ (pending' # "live" => stopped' = TRUE)
        /\ streamed' \in TokenRows /\ result' \in TokenRows
    BY <1>1, AgentParts
  <2>3. pending' # "no" => /\ Below(streamed', burned'[execution'])
                           /\ Below(result', burned'[execution'])
                           /\ Below(latest', burned'[execution'])
    BY <1>1, <1>7, AgentParts
  <2>4. QED  BY <1>2, <1>4, <1>7, <2>1, <2>2, <2>3, AgentHolds
<1>8. ArchiveOK'  BY <1>1, <1>2, ArchiveCarried
<1>9. CASE /\ Emits(s.execution) /\ latest' = rows
           /\ costs' = Upserted(s.execution, CcusageCostEntry(s.execution, rows))
           /\ interim' = [interim EXCEPT ![s.execution] = UpsertedIndex(s.execution)]
  <2>1. s.execution = execution /\ pending = "live" /\ pending # "no" /\ execution \in Execs
    BY <1>9, AgentParts DEF Emits
  <2>2. Below(rows, burned[execution])  BY <1>6, <2>1
  <2>3. AgentOK'  BY <1>6, <1>7, <1>9, <2>2
  <2>4. PICK entry : entry = CcusageCostEntry(execution, rows)  OBVIOUS
  <2>5. PICK cost : cost = Reported(rows)  OBVIOUS
  <2>6. entry = CostEntry(execution, rows, cost) /\ cost \in {Reported(rows), NoRows}
    BY <2>4, <2>5 DEF CcusageCostEntry
  <2>7. /\ entry \in CostEntries /\ entry.execution = execution
        /\ entry.costUsd = entry.tokens /\ entry.tokens <= Spent(execution)
    BY <1>6, <2>1, <2>2, <2>6, EntryOf
  <2>8. PICK k : k = UpsertedIndex(execution)  OBVIOUS
  <2>9. interim \in [Execs -> Nat] /\ CostsOK  BY DEF LedgerInv, CostsOK
  <2>10. k \in Nat /\ k # 0  BY <2>1, <2>7, <2>8, <2>9, UpsertedList
  <2>11. interim' = [interim EXCEPT ![execution] = k]  BY <1>9, <2>1, <2>8
  <2>12. /\ interim' \in [Execs -> Nat] /\ interim'[execution] = k
         /\ \A e \in Execs : e # execution => interim'[e] = interim[e]
    BY <2>1, <2>9, <2>10, <2>11
  <2>13. \A e \in Execs : interim'[e] # 0 => IF e = execution
                                             THEN interim'[e] = UpsertedIndex(execution)
                                             ELSE interim'[e] = interim[e]
    BY <2>8, <2>12
  <2>14. costs' = Upserted(execution, entry)  BY <1>9, <2>1, <2>4
  <2>15. reported' \subseteq reported \cup {execution} /\ interim'[execution] # 0
    BY <1>1, <2>10, <2>12
  <2>16. CostsOK'  BY <1>1, <2>1, <2>7, <2>12, <2>13, <2>14, <2>15, UpsertKeepsCosts
  <2>17. QED  BY <1>2, <1>8, <2>3, <2>16 DEF LedgerInv
<1>10. CASE UNCHANGED << latest, costs, interim >>
  <2>1. latest' = latest /\ UNCHANGED << costs, interim, reported, execution, reviews >>
    BY <1>1, <1>10
  <2>2. AgentOK'  BY <1>7, <2>1, AgentParts
  <2>3. CostsOK'  BY <1>1, <1>2, <2>1, CostsUntouched
  <2>4. QED  BY <1>2, <1>8, <2>2, <2>3 DEF LedgerInv
<1>11. QED  BY <1>5, <1>9, <1>10 DEF TickReturns

\* The models' transcripts, each one once.
LEMMA ModelsAreFew ==
    ASSUME NEW parts \in SUBSET Models
    PROVE  /\ Cardinality(parts) \in Nat
           /\ \A i \in 1 .. Cardinality(parts) : SetToSeq(parts)[i] \in parts
<1>1. IsFiniteSet(Models)
  <2>1. IsFiniteSet({"main"}) /\ IsFiniteSet({"subagent"})  BY FS_Singleton
  <2>2. IsFiniteSet({"main"} \cup {"subagent"})  BY <2>1, FS_Union
  <2>3. Models = {"main"} \cup {"subagent"}  BY DEF Models
  <2>4. QED  BY <2>2, <2>3
<1>2. IsFiniteSet(parts)  BY <1>1, FS_Subset
<1>3. Cardinality(parts) \in Nat /\ ExistsBijection(1 .. Cardinality(parts), parts)
    BY <1>2, FS_CardinalityType
<1>4. PICK f \in Bijection(1 .. Cardinality(parts), parts) : TRUE
    BY <1>3 DEF ExistsBijection
<1>5. f \in [1 .. Cardinality(parts) -> parts] /\ IsInjective(f)
    BY <1>4 DEF Bijection, Injection
<1>6. SetToSeq(parts) \in [1 .. Cardinality(parts) -> parts]
    BY <1>5 DEF SetToSeq
<1>7. QED  BY <1>3, <1>6

\* An execution's exported snapshots tell its transcripts as they are.
LEMMA ExportedSnapshots ==
    ASSUME LedgerInv, NEW e \in Execs, NEW parts \in SUBSET Models
    PROVE  Exported(e, parts) \in Seq(Snapshots)
<1>1. PICK n : n = Cardinality(parts)  OBVIOUS
<1>2. n \in Nat /\ \A i \in 1 .. n : SetToSeq(parts)[i] \in Models  BY <1>1, ModelsAreFew
<1>3. ASSUME NEW i \in 1 .. n  PROVE Minimized(e, SetToSeq(parts)[i]) \in Snapshots
  <2>1. PICK p \in Models : p = SetToSeq(parts)[i]  BY <1>2
  <2>2. burned[e][p] \in Nat
    <3>1. burned[e] \in TokenRows  BY AgentParts
    <3>2. QED  BY <3>1 DEF TokenRows
  <2>3. Minimized(e, p) = [session |-> e, transcript |-> p, tokens |-> burned[e][p]]
    BY DEF Minimized
  <2>4. Minimized(e, p) \in Snapshots  BY <2>2, <2>3 DEF Snapshots
  <2>5. QED  BY <2>1, <2>4
<1>4. Exported(e, parts) = [i \in 1 .. n |-> Minimized(e, SetToSeq(parts)[i])]
    BY <1>1 DEF Exported
<1>5. Exported(e, parts) \in [1 .. n -> Snapshots]  BY <1>3, <1>4
<1>6. QED  BY <1>2, <1>5, IsASeq

\* The final read settles the execution: its entry is final, its session exported.
LEMMA SettlingKeepsLedger ==
    ASSUME LedgerInv, NEW ok \in BOOLEAN, FinalReadReturns(ok)
    PROVE  LedgerInv'
<1>1. PICK rows : rows = FinalRows(ok)  OBVIOUS
<1>2. PICK known \in BOOLEAN : known = (rows # NoRows \/ StreamUsage # NoRows)  OBVIOUS
<1>3. PICK entry : entry = IF rows # NoRows THEN CcusageCostEntry(execution, rows)
                           ELSE StreamEntry(execution)
    OBVIOUS
<1>4. /\ pending = "reading" /\ pending' = "no"
      /\ reported' = IF StreamUsage # NoRows THEN reported \cup {execution} ELSE reported
      /\ streamed' = NoRows /\ result' = NoRows /\ latest' = NoRows
      /\ costs' = IF known THEN Upserted(execution, entry) ELSE costs
      /\ interim' = IF known THEN [interim EXCEPT ![execution] = 0] ELSE interim
      /\ \E unusable \in {{}, Transcripts(execution)} :
            frames' = frames \o IF session
                                THEN Exported(execution, Transcripts(execution) \ unusable)
                                ELSE <<>>
      /\ UNCHANGED << execution, burned, reviews >>
      /\ execution' = execution /\ burned' = burned /\ reviews' = reviews /\ stopped' = stopped
      /\ inFlight' = inFlight /\ applied' = applied /\ archive' = archive
    BY <1>1, <1>2, <1>3 DEF FinalReadReturns, reviewVars
<1>5. Onward /\ ReviewsOK'  BY <1>4, StillOnward
<1>6. /\ execution \in Execs /\ burned[execution] \in TokenRows /\ pending # "no"
      /\ Below(burned[execution], burned[execution])
  <2>1. execution \in Execs /\ burned[execution] \in TokenRows  BY <1>4, AgentParts
  <2>2. QED  BY <1>4, <2>1 DEF Below, TokenRows
<1>7. rows \in TokenRows /\ Below(rows, burned[execution])
  <2>1. latest \in TokenRows /\ Below(latest, burned[execution])  BY <1>6, AgentParts
  <2>2. rows = burned[execution] \/ rows = latest  BY <1>1 DEF FinalRows
  <2>3. QED  BY <1>6, <2>1, <2>2
<1>8. known => /\ entry \in CostEntries /\ entry.execution = execution
               /\ entry.costUsd = entry.tokens /\ entry.tokens <= Spent(execution)
  <2>1. CASE rows # NoRows
    <3>1. PICK cost : cost = Reported(rows)  OBVIOUS
    <3>2. entry = CostEntry(execution, rows, cost) /\ cost \in {Reported(rows), NoRows}
      BY <1>3, <2>1, <3>1 DEF CcusageCostEntry
    <3>3. QED  BY <1>6, <1>7, <3>2, EntryOf
  <2>2. CASE rows = NoRows /\ result # NoRows
    <3>1. PICK cost : cost = Reported(result)  OBVIOUS
    <3>2. entry = CostEntry(execution, result, cost) /\ cost \in {Reported(result), NoRows}
      BY <1>3, <2>2, <3>1 DEF StreamEntry
    <3>3. result \in TokenRows /\ Below(result, burned[execution])  BY <1>6, AgentParts
    <3>4. QED  BY <1>6, <3>2, <3>3, EntryOf
  <2>3. CASE rows = NoRows /\ result = NoRows
    <3>1. PICK cost : cost = NoRows  OBVIOUS
    <3>2. entry = CostEntry(execution, streamed, cost) /\ cost \in {Reported(streamed), NoRows}
      BY <1>3, <2>3, <3>1 DEF StreamEntry
    <3>3. streamed \in TokenRows /\ Below(streamed, burned[execution])  BY <1>6, AgentParts
    <3>4. QED  BY <1>6, <3>2, <3>3, EntryOf
  <2>4. QED  BY <2>1, <2>2, <2>3
<1>9. CostsOK'
  <2>1. CASE known
    <3>1. interim \in [Execs -> Nat]  BY DEF LedgerInv, CostsOK
    <3>2. interim' = [interim EXCEPT ![execution] = 0]  BY <1>4, <2>1
    <3>3. /\ interim' \in [Execs -> Nat] /\ interim'[execution] = 0
          /\ \A e \in Execs : e # execution => interim'[e] = interim[e]
      BY <1>6, <3>1, <3>2
    <3>4. \A e \in Execs : interim'[e] # 0 => IF e = execution
                                              THEN interim'[e] = UpsertedIndex(execution)
                                              ELSE interim'[e] = interim[e]
      BY <3>3
    <3>5. costs' = Upserted(execution, entry) /\ pending' = "no"  BY <1>4, <2>1
    <3>6. reported' \subseteq reported \cup {execution}  BY <1>4
    <3>7. QED  BY <1>4, <1>6, <1>8, <2>1, <3>3, <3>4, <3>5, <3>6, UpsertKeepsCosts
  <2>2. CASE ~known
    <3>1. reported' = reported /\ costs' = costs /\ interim' = interim  BY <1>2, <1>4, <2>2
    <3>2. UNCHANGED << costs, interim, reported, execution, reviews >> /\ pending' = "no"
      BY <1>4, <3>1
    <3>3. QED  BY <1>5, <3>2, CostsUntouched
  <2>3. QED  BY <2>1, <2>2
<1>10. AgentOK'
  <2>1. inFlight \in Seq(Samples) /\ execution \in 0 .. MaxExecutions /\ stopped = TRUE
    BY <1>4, AgentParts
  <2>2. inFlight' \in Seq(Samples')  BY <1>4, <1>5, <2>1, OnwardSets, SeqGrows
  <2>3. QED  BY <1>4, <1>5, <2>1, <2>2, NoRowsIsNothing, AgentHolds
<1>11. ArchiveOK'
  <2>1. /\ archive \in [Execs -> TokenRows] /\ applied \in 0 .. Len(frames)
        /\ \A e \in Execs : Below(archive[e], burned[e])
        /\ frames \in Seq(Snapshots) /\ Len(frames) \in Nat
    BY DEF LedgerInv, ArchiveOK
  <2>2. PICK parts, more : /\ parts \in SUBSET Models
                           /\ more = IF session THEN Exported(execution, parts) ELSE <<>>
                           /\ frames' = frames \o more
    <3>1. PICK unusable \in {{}, Transcripts(execution)} :
             frames' = frames \o IF session
                                 THEN Exported(execution, Transcripts(execution) \ unusable)
                                 ELSE <<>>
      BY <1>4
    <3>2. Transcripts(execution) \ unusable \in SUBSET Models  BY DEF Transcripts
    <3>3. QED  BY <3>1, <3>2
  <2>3. more \in Seq(Snapshots)
    <3>1. Exported(execution, parts) \in Seq(Snapshots)  BY <1>6, <2>2, ExportedSnapshots
    <3>2. << >> \in Seq(Snapshots)  OBVIOUS
    <3>3. QED  BY <2>2, <3>1, <3>2
  <2>4. frames' \in Seq(Snapshots) /\ Len(frames') = Len(frames) + Len(more) /\ Len(more) \in Nat
    BY <2>1, <2>2, <2>3, ConcatProperties
  <2>5. frames' \in Seq(Snapshots')  BY <1>5, <2>4, OnwardSets, SeqGrows
  <2>6. applied' \in 0 .. Len(frames')  BY <1>4, <2>1, <2>4
  <2>7. QED  BY <1>4, <2>1, <2>5, <2>6 DEF ArchiveOK
<1>12. QED  BY <1>5, <1>9, <1>10, <1>11 DEF LedgerInv

\* A session continued in the retained sandbox, and exported again.
LEMMA ReexportKeepsLedger ==
    ASSUME LedgerInv, NEW e \in Execs, NEW m \in Models, NEW delivered \in {{}, Models},
           Reexport(e, m, delivered)
    PROVE  LedgerInv'
<1>1. /\ pending = "no" /\ frames = << >>
      /\ burned' = [burned EXCEPT ![e][m] = @ + 1]
      /\ archive' = [x \in Execs |-> [p \in Models |->
                       IF p \in delivered THEN burned'[x][p] ELSE archive[x][p]]]
      /\ UNCHANGED << execution, pending, streamed, result, latest, stopped, inFlight >>
      /\ UNCHANGED << costs, interim, reported, execution, reviews >>
      /\ frames' = frames /\ applied' = applied /\ reviews' = reviews /\ pending' = pending
    BY DEF Reexport, reviewVars, samplerVars, listVars
<1>2. Onward  BY <1>1, BurningIsOnward
<1>3. ReviewsOK'  BY <1>1 DEF LedgerInv, ReviewsOK
<1>4. AgentOK'  BY <1>1, <1>2, AgentCarried
<1>5. CostsOK'  BY <1>1, <1>2, CostsUntouched
<1>6. ArchiveOK'
  <2>1. /\ archive \in [Execs -> TokenRows] /\ applied \in 0 .. Len(frames)
        /\ \A x \in Execs : Below(archive[x], burned[x])
        /\ frames \in Seq(Snapshots)
    BY DEF LedgerInv, ArchiveOK
  <2>2. \A x \in Execs, p \in Models :
           /\ burned[x][p] \in Nat /\ burned'[x][p] \in Nat /\ archive[x][p] \in Nat
           /\ archive[x][p] <= burned[x][p] /\ burned[x][p] <= burned'[x][p]
    <3>1. \A x \in Execs : /\ burned[x] \in TokenRows /\ burned'[x] \in TokenRows
                           /\ archive[x] \in TokenRows /\ Below(archive[x], burned[x])
                           /\ Below(burned[x], burned'[x])
      BY <1>2, <2>1, AgentParts DEF Onward
    <3>2. QED  BY <3>1 DEF Below, TokenRows
  <2>3. \A x \in Execs, p \in Models : archive'[x][p] \in Nat /\ archive'[x][p] <= burned'[x][p]
    <3>1. \A x \in Execs, p \in Models :
             archive'[x][p] = IF p \in delivered THEN burned'[x][p] ELSE archive[x][p]
      BY <1>1
    <3>2. QED  BY <2>2, <3>1
  <2>4. archive' \in [Execs -> TokenRows]
    <3>1. \A x \in Execs, p \in Models :
             (IF p \in delivered THEN burned'[x][p] ELSE archive[x][p]) \in Nat
      BY <2>2
    <3>2. QED  BY <1>1, <3>1 DEF TokenRows
  <2>5. \A x \in Execs : Below(archive'[x], burned'[x])  BY <2>3 DEF Below
  <2>6. frames' \in Seq(Snapshots')  BY <1>1, <1>2, <2>1, OnwardSets, SeqGrows
  <2>7. applied' \in 0 .. Len(frames')  BY <1>1, <2>1
  <2>8. QED  BY <2>4, <2>5, <2>6, <2>7 DEF ArchiveOK
<1>7. QED  BY <1>3, <1>4, <1>5, <1>6 DEF LedgerInv

\* A step of the reviews: what they burn grows, what they heard of is no more than it,
\* and the cost list still holds.
LEMMA ReviewStep ==
    ASSUME LedgerInv, UNCHANGED << execution, pending, streamed, result, latest, stopped, inFlight >>,
           burned' = burned, UNCHANGED archiveVars, Onward, CostsOK', ReviewsOK'
    PROVE  LedgerInv'
<1>1. AgentOK'  BY AgentCarried
<1>2. ArchiveOK'  BY ArchiveCarried
<1>3. QED  BY <1>1, <1>2 DEF LedgerInv

\* The cost list holds while no review is done or undone.
LEMMA ReviewsCarryCosts ==
    ASSUME LedgerInv, Onward, UNCHANGED << costs, interim, reported, execution >>, pending' = pending,
           \A r \in Reviews : /\ reviews[r].at = "done" <=> reviews'[r].at = "done"
                              /\ reviews[r].at = "done" => reviews'[r].seen = reviews[r].seen
    PROVE  CostsOK'
<1>1. UNCHANGED << costs, interim, reported >> /\ execution' = execution  OBVIOUS
<1>2. execution' \in Nat /\ execution <= execution'  BY <1>1, AgentParts
<1>3. pending' # "no" => execution' \in Execs /\ ((pending # "no" /\ execution' = execution) \/ execution' > execution)
    BY <1>1, AgentParts
<1>4. QED  BY <1>1, <1>2, <1>3, CostsCarried

\* The review's passes start, burn, and exit.
LEMMA ReviewingKeepsLedger ==
    ASSUME LedgerInv,
           \/ \E old \in BOOLEAN : StartReviews(old)
           \/ \E r \in Reviews : (\E heard \in BOOLEAN : ReviewTurn(r, heard)) \/ ReviewExits(r)
    PROVE  LedgerInv'
<1>1. /\ UNCHANGED << execution, pending, streamed, result, latest, stopped, inFlight >>
      /\ UNCHANGED << costs, interim, reported, execution >> /\ pending' = pending
      /\ burned' = burned /\ UNCHANGED archiveVars
    BY DEF StartReviews, ReviewTurn, ReviewExits, samplerVars, listVars
<1>2. /\ reviews \in [Reviews -> [at : {"idle", "runs", "reading", "done"}, burned : Nat, seen : Nat]]
      /\ \A r \in Reviews : /\ reviews[r].burned \in Nat /\ reviews[r].seen \in Nat
                            /\ reviews[r].seen <= reviews[r].burned
      /\ burned \in [Execs -> TokenRows]
    BY DEF LedgerInv, ReviewsOK, AgentOK
<1>3. ASSUME /\ reviews' \in [Reviews -> [at : {"idle", "runs", "reading", "done"}, burned : Nat, seen : Nat]]
             /\ \A r \in Reviews : /\ reviews[r].burned <= reviews'[r].burned
                                   /\ reviews'[r].seen <= reviews'[r].burned
                                   /\ reviews[r].at = "done" <=> reviews'[r].at = "done"
                                   /\ reviews[r].at = "done" => reviews'[r].seen = reviews[r].seen
      PROVE  LedgerInv'
  <2>1. \A e \in Execs : Below(burned[e], burned'[e])
    <3>1. \A e \in Execs, m \in Models : burned[e][m] \in Nat  BY <1>2 DEF TokenRows
    <3>2. QED  BY <1>1, <3>1 DEF Below
  <2>2. Onward  BY <1>1, <1>2, <1>3, <2>1 DEF Onward
  <2>3. ReviewsOK'  BY <1>3 DEF ReviewsOK
  <2>4. CostsOK'  BY <1>1, <1>3, <2>2, ReviewsCarryCosts
  <2>5. QED  BY <1>1, <2>2, <2>3, <2>4, ReviewStep
<1>4. ASSUME NEW old \in BOOLEAN, StartReviews(old)  PROVE LedgerInv'
  <2>1. /\ \A r \in Reviews : reviews[r].at = "idle"
        /\ reviews' = [r \in Reviews |-> [reviews[r] EXCEPT !.at = "runs"]]
    BY <1>4 DEF StartReviews
  <2>2. \A r \in Reviews : /\ reviews'[r] \in [at : {"idle", "runs", "reading", "done"}, burned : Nat, seen : Nat]
                           /\ reviews'[r].at = "runs" /\ reviews'[r].burned = reviews[r].burned
                           /\ reviews'[r].seen = reviews[r].seen
    BY <1>2, <2>1
  <2>3. QED  BY <1>2, <1>3, <2>1, <2>2
<1>5. ASSUME NEW r \in Reviews, NEW heard \in BOOLEAN, ReviewTurn(r, heard)  PROVE LedgerInv'
  <2>1. /\ reviews[r].at = "runs"
        /\ reviews' = [reviews EXCEPT ![r].burned = @ + 1,
                                      ![r].seen = IF heard THEN Observed(r) ELSE @]
    BY <1>5 DEF ReviewTurn
  <2>2. PICK seen : seen = IF heard THEN Observed(r) ELSE reviews[r].seen  OBVIOUS
  <2>3. seen \in Nat /\ seen <= reviews[r].burned + 1
    BY <1>2, <2>2 DEF Observed
  <2>4. PICK of : of = [reviews[r] EXCEPT !.burned = @ + 1, !.seen = seen]  OBVIOUS
  <2>5. reviews' = [reviews EXCEPT ![r] = of]
    <3>1. CASE heard  BY <1>2, <2>1, <2>2, <2>4, <3>1
    <3>2. CASE ~heard  BY <1>2, <2>1, <2>2, <2>4, <3>2
    <3>3. QED  BY <3>1, <3>2
  <2>6. /\ of \in [at : {"idle", "runs", "reading", "done"}, burned : Nat, seen : Nat]
        /\ of.at = "runs" /\ of.burned = reviews[r].burned + 1 /\ of.seen = seen
    <3>1. PICK row \in [at : {"idle", "runs", "reading", "done"}, burned : Nat, seen : Nat] :
             row = reviews[r]
      BY <1>2
    <3>2. PICK b : b = row.burned + 1  OBVIOUS
    <3>3. b \in Nat  BY <3>1, <3>2
    <3>4. of = [row EXCEPT !.burned = b, !.seen = seen]  BY <2>4, <3>1, <3>2
    <3>5. /\ of \in [at : {"idle", "runs", "reading", "done"}, burned : Nat, seen : Nat]
          /\ of.at = row.at /\ of.burned = b /\ of.seen = seen
      BY <2>3, <3>1, <3>3, <3>4
    <3>6. QED  BY <2>1, <3>1, <3>2, <3>5
  <2>7. /\ reviews'[r] = of /\ \A q \in Reviews : q # r => reviews'[q] = reviews[q]
        /\ reviews' \in [Reviews -> [at : {"idle", "runs", "reading", "done"}, burned : Nat, seen : Nat]]
    BY <1>2, <2>5, <2>6
  <2>8. QED  BY <1>2, <1>3, <2>1, <2>3, <2>6, <2>7
<1>6. ASSUME NEW r \in Reviews, ReviewExits(r)  PROVE LedgerInv'
  <2>1. reviews[r].at = "runs" /\ reviews' = [reviews EXCEPT ![r].at = "reading"]
    BY <1>6 DEF ReviewExits
  <2>2. QED  BY <1>2, <1>3, <2>1
<1>7. QED  BY <1>4, <1>5, <1>6

\* A pass's usage is read, and listed.
LEMMA ReviewReadKeepsLedger ==
    ASSUME LedgerInv, NEW r \in Reviews, NEW priced \in BOOLEAN, ReviewRead(r, priced)
    PROVE  LedgerInv'
<1>1. /\ UNCHANGED << execution, pending, streamed, result, latest, stopped, inFlight >>
      /\ burned' = burned /\ UNCHANGED archiveVars
      /\ reviews[r].at = "reading" /\ reviews' = [reviews EXCEPT ![r].at = "done"]
    BY DEF ReviewRead, samplerVars
<1>2. /\ reviews \in [Reviews -> [at : {"idle", "runs", "reading", "done"}, burned : Nat, seen : Nat]]
      /\ \A q \in Reviews : /\ reviews[q].burned \in Nat /\ reviews[q].seen \in Nat
                            /\ reviews[q].seen <= reviews[q].burned
      /\ burned \in [Execs -> TokenRows]
    BY DEF LedgerInv, ReviewsOK, AgentOK
<1>3. /\ reviews' \in [Reviews -> [at : {"idle", "runs", "reading", "done"}, burned : Nat, seen : Nat]]
      /\ \A q \in Reviews : reviews'[q].burned = reviews[q].burned /\ reviews'[q].seen = reviews[q].seen
    BY <1>1, <1>2
<1>4. \A e \in Execs : Below(burned[e], burned'[e])
  <2>1. \A e \in Execs, m \in Models : burned[e][m] \in Nat  BY <1>2 DEF TokenRows
  <2>2. QED  BY <1>1, <2>1 DEF Below
<1>5. Onward  BY <1>1, <1>2, <1>3, <1>4 DEF Onward
<1>6. ReviewsOK'  BY <1>2, <1>3 DEF ReviewsOK
<1>7. CostsOK'  BY <1>1, ReviewKeepsCosts
<1>8. QED  BY <1>1, <1>5, <1>6, <1>7, ReviewStep

\* Every step keeps the ledger.
LEMMA NextLedger == LedgerInv /\ [UsageNext]_usageVars => LedgerInv'
<1> SUFFICES ASSUME LedgerInv, [UsageNext]_usageVars  PROVE LedgerInv'
    OBVIOUS
<1>1. CASE StartExecution  BY <1>1, StartingKeepsLedger
<1>2. CASE ObserveInit \/ Cancel \/ UNCHANGED usageVars  BY <1>2, SeeingKeepsLedger
<1>3. ASSUME NEW m \in Models, NEW seen \in BOOLEAN, Burn(m, seen)  PROVE LedgerInv'
    BY <1>3, BurningKeepsLedger
<1>4. CASE ObserveResult \/ Settle  BY <1>4, ObservingKeepsLedger
<1>5. CASE Tick  BY <1>5, TickKeepsLedger
<1>6. ASSUME NEW i \in DOMAIN inFlight, TickReturns(i)  PROVE LedgerInv'
    BY <1>6, TickReturnsKeepsLedger
<1>7. ASSUME NEW ok \in BOOLEAN, FinalReadReturns(ok)  PROVE LedgerInv'
    BY <1>7, SettlingKeepsLedger
<1>8. CASE ApplyFrame \/ AckFrames \/ Replay  BY <1>8, ArchivingKeepsLedger
<1>9. ASSUME NEW e \in Execs, NEW m \in Models, NEW delivered \in {{}, Models},
             Reexport(e, m, delivered)
      PROVE  LedgerInv'
    BY <1>9, ReexportKeepsLedger
<1>10. CASE \/ \E old \in BOOLEAN : StartReviews(old)
            \/ \E r \in Reviews : (\E heard \in BOOLEAN : ReviewTurn(r, heard)) \/ ReviewExits(r)
    BY <1>10, ReviewingKeepsLedger
<1>11. ASSUME NEW r \in Reviews, NEW priced \in BOOLEAN, ReviewRead(r, priced)  PROVE LedgerInv'
    BY <1>11, ReviewReadKeepsLedger
<1>12. QED
  <2>1. CASE UNCHANGED usageVars  BY <1>2, <2>1
  <2>2. CASE UsageNext
    BY <1>1, <1>2, <1>3, <1>4, <1>5, <1>6, <1>7, <1>8, <1>9, <1>10, <1>11, <2>2, Zenon DEF UsageNext
  <2>3. QED  BY <2>1, <2>2

\* SpendIsCountedOnce, for every number of tokens, executions and reviews: an execution
\* and each pass of its review is listed once, priced in full, never with more than it
\* burned; and no archived transcript holds more than its session's.
THEOREM SpendIsListedOnce == UsageSpec => []SpendIsCountedOnce
<1>1. LedgerInv => SpendIsCountedOnce
  <2> SUFFICES ASSUME LedgerInv  PROVE SpendIsCountedOnce
      OBVIOUS
  <2>1. CostsOK /\ ArchiveOK  BY DEF LedgerInv
  <2>2. \A e \in Execs, p \in Models : archive[e][p] <= burned[e][p]
    BY <2>1 DEF ArchiveOK, Below
  <2>3. QED  BY <2>1, <2>2, Zenon DEF SpendIsCountedOnce, CostsOK
<1>2. UsageInit => LedgerInv  BY InitLedger
<1>3. LedgerInv /\ [UsageNext]_usageVars => LedgerInv'  BY NextLedger
<1>4. QED  BY <1>1, <1>2, <1>3, PTL DEF UsageSpec

-----------------------------------------------------------------------------
(* A run's console (Dashboard)                                             *)

\* A non-empty set of numbers has a least one.
LEMMA LeastOf ==
    ASSUME NEW T, T \subseteq Nat, T # {}
    PROVE  \E m \in T : \A k \in T : m <= k
<1> DEFINE Less == OpToRel(<, Nat)
<1>1. IsWellFoundedOn(Less, Nat)  BY NatLessThanWellFounded
<1>2. \A x, y \in Nat : y < x => <<y, x>> \in Less  BY DEF OpToRel
<1> HIDE DEF Less
<1>3. PICK m \in T : \A y \in T : ~(<<y, m>> \in Less)  BY <1>1, WFMin
<1>4. \A y \in T : ~(y < m) /\ y \in Nat /\ m \in Nat  BY <1>2, <1>3
<1>5. QED  BY <1>3, <1>4

\* What holds of the first number, and of each number's next, holds of all.
LEMMA UpTo ==
    ASSUME NEW n \in Nat, NEW S, 0 \in S, \A i \in 0 .. n : i + 1 <= n /\ i \in S => i + 1 \in S
    PROVE  0 .. n \subseteq S
<1> SUFFICES ASSUME ~(0 .. n \subseteq S)  PROVE FALSE
    OBVIOUS
<1> DEFINE T == {i \in 0 .. n : i \notin S}
<1>1. T \subseteq Nat /\ T # {}  OBVIOUS
<1>2. PICK m \in T : \A k \in T : m <= k  BY <1>1, LeastOf
<1>3. m \in 0 .. n /\ m # 0 /\ m \notin S  BY <1>2
<1>4. m - 1 \in 0 .. n /\ m - 1 \notin T  BY <1>2, <1>3
<1>5. m - 1 \in S  BY <1>4
<1>6. QED  BY <1>3, <1>4, <1>5

\* The recursive function behind Filtered, up to n.
Tails(f, s, wanted, n) ==
    f = [i \in 0 .. n |->
            IF i = 0 THEN << >>
            ELSE IF s[i] \in wanted THEN Append(f[i - 1], s[i]) ELSE f[i - 1]]

\* There is such a function.
LEMMA TailsExist ==
    ASSUME NEW s, NEW wanted, NEW n \in Nat
    PROVE  \E f : Tails(f, s, wanted, n)
<1> DEFINE S == {m \in 0 .. n : \E f : Tails(f, s, wanted, m)}
<1>1. 0 \in S
  <2>1. Tails([i \in 0 .. 0 |-> << >>], s, wanted, 0)
    BY DEF Tails
  <2>2. QED  BY <2>1
<1>2. ASSUME NEW m \in 0 .. n, m + 1 <= n, m \in S  PROVE m + 1 \in S
  <2>1. PICK f : Tails(f, s, wanted, m)  BY <1>2
  <2>2. PICK g : g = [i \in 0 .. m + 1 |->
                        IF i = m + 1
                        THEN IF s[i] \in wanted THEN Append(f[m], s[i]) ELSE f[m]
                        ELSE f[i]]
    OBVIOUS
  <2>3. \A i \in 0 .. m : g[i] = f[i]  BY <2>2
  <2>4. ASSUME NEW i \in 0 .. m + 1
        PROVE  g[i] = IF i = 0 THEN << >>
                      ELSE IF s[i] \in wanted THEN Append(g[i - 1], s[i]) ELSE g[i - 1]
    <3>1. CASE i = m + 1
      <4>1. i # 0 /\ i - 1 = m /\ m \in 0 .. m  BY <3>1
      <4>2. g[i] = IF s[i] \in wanted THEN Append(f[m], s[i]) ELSE f[m]  BY <2>2, <3>1
      <4>3. g[i - 1] = f[m]  BY <2>3, <4>1
      <4>4. QED  BY <4>1, <4>2, <4>3
    <3>2. CASE i = 0
      <4>1. g[0] = f[0] /\ f[0] = << >>  BY <2>1, <2>3 DEF Tails
      <4>2. QED  BY <3>2, <4>1
    <3>3. CASE i # m + 1 /\ i # 0
      <4>1. i \in 0 .. m /\ i - 1 \in 0 .. m  BY <3>3
      <4>2. f[i] = IF s[i] \in wanted THEN Append(f[i - 1], s[i]) ELSE f[i - 1]
        BY <2>1, <3>3, <4>1 DEF Tails
      <4>3. QED  BY <2>3, <3>3, <4>1, <4>2
    <3>4. QED  BY <3>1, <3>2, <3>3
  <2>5. g = [i \in 0 .. m + 1 |-> g[i]]  BY <2>2
  <2>6. Tails(g, s, wanted, m + 1)  BY <2>4, <2>5 DEF Tails
  <2>7. QED  BY <1>2, <2>6
<1> HIDE DEF S
<1>3. 0 .. n \subseteq S  BY <1>1, <1>2, UpTo
<1>4. QED  BY <1>3 DEF S

\* t has the wanted ones among the first n elements of s.
Keeps(t, s, wanted, n) ==
    \A k \in Nat : (\E j \in 1 .. Len(t) : t[j] = k) <=> k \in wanted /\ \E j \in 1 .. n : s[j] = k

\* A filter keeps the wanted elements of a sequence, and nothing else.
LEMMA FilteredElements ==
    ASSUME NEW s \in Seq(Nat), NEW wanted
    PROVE  /\ Filtered(s, wanted) \in Seq(Nat)
           /\ \A k \in Nat : k \in ToSet(Filtered(s, wanted)) <=> k \in ToSet(s) /\ k \in wanted
<1> DEFINE tail == CHOOSE f : Tails(f, s, wanted, Len(s))
<1>1. Filtered(s, wanted) = tail[Len(s)]
    BY DEF Filtered, Tails
<1>2. Len(s) \in Nat  OBVIOUS
<1>3. Tails(tail, s, wanted, Len(s))  BY <1>2, TailsExist
<1> HIDE DEF tail
<1>a. \A i \in 0 .. Len(s) :
        tail[i] = IF i = 0 THEN << >>
                  ELSE IF s[i] \in wanted THEN Append(tail[i - 1], s[i]) ELSE tail[i - 1]
    BY <1>3 DEF Tails
<1> DEFINE S == {n \in 0 .. Len(s) : tail[n] \in Seq(Nat) /\ Keeps(tail[n], s, wanted, n)}
<1>4. 0 \in S
  <2>1. tail[0] = << >>  BY <1>2, <1>3 DEF Tails
  <2>2. tail[0] \in Seq(Nat) /\ Len(tail[0]) = 0  BY <2>1
  <2>3. \A k \in Nat : ~(\E j \in 1 .. Len(tail[0]) : tail[0][j] = k) /\ ~(\E j \in 1 .. 0 : s[j] = k)
    BY <2>2
  <2>4. Keeps(tail[0], s, wanted, 0)  BY <2>3 DEF Keeps
  <2>5. QED  BY <1>2, <2>2, <2>4
<1>5. ASSUME NEW n \in 0 .. Len(s), n + 1 <= Len(s), n \in S  PROVE n + 1 \in S
  <2>1. s[n + 1] \in Nat /\ n + 1 \in 1 .. Len(s) /\ n \in Nat  BY <1>5
  <2>2. tail[n + 1] = IF s[n + 1] \in wanted THEN Append(tail[n], s[n + 1]) ELSE tail[n]
    <3>1. n + 1 \in 0 .. Len(s) /\ n + 1 # 0 /\ n + 1 - 1 = n  BY <2>1
    <3>2. tail[n + 1] = IF s[n + 1] \in wanted THEN Append(tail[n + 1 - 1], s[n + 1])
                        ELSE tail[n + 1 - 1]
      BY <1>a, <3>1
    <3>3. QED  BY <3>1, <3>2
  <2>3. tail[n] \in Seq(Nat)  BY <1>5
  <2>4. tail[n + 1] \in Seq(Nat)  BY <2>1, <2>2, <2>3
  <2>5. ASSUME NEW k \in Nat
        PROVE  (\E j \in 1 .. Len(tail[n + 1]) : tail[n + 1][j] = k)
               <=> k \in wanted /\ \E j \in 1 .. n + 1 : s[j] = k
    <3>1. (\E j \in 1 .. Len(tail[n]) : tail[n][j] = k)
          <=> k \in wanted /\ \E j \in 1 .. n : s[j] = k
      BY <1>5 DEF Keeps
    <3>2. (\E j \in 1 .. n + 1 : s[j] = k) <=> (\E j \in 1 .. n : s[j] = k) \/ s[n + 1] = k
      BY <2>1
    <3>3. CASE s[n + 1] \in wanted
      <4>1. tail[n + 1] = Append(tail[n], s[n + 1])  BY <2>2, <3>3
      <4>2. (\E j \in 1 .. Len(tail[n + 1]) : tail[n + 1][j] = k)
            <=> (\E j \in 1 .. Len(tail[n]) : tail[n][j] = k) \/ s[n + 1] = k
        <5> HIDE DEF S
        <5>1. PICK t \in Seq(Nat) : t = tail[n]  BY <2>3
        <5>2. PICK e \in Nat : e = s[n + 1]  BY <2>1
        <5>3. PICK u : u = Append(t, e)  OBVIOUS
        <5>4. /\ Len(u) = Len(t) + 1 /\ u[Len(t) + 1] = e /\ Len(t) \in Nat
              /\ \A j \in 1 .. Len(t) : u[j] = t[j]
          BY <5>3
        <5>5. (\E j \in 1 .. Len(u) : u[j] = k) <=> (\E j \in 1 .. Len(t) : t[j] = k) \/ e = k
          <6>1. ASSUME NEW j \in 1 .. Len(u), u[j] = k
                PROVE  (\E i \in 1 .. Len(t) : t[i] = k) \/ e = k
            <7>1. j \in 1 .. Len(t) \/ j = Len(t) + 1  BY <5>4
            <7>2. QED  BY <5>4, <6>1, <7>1
          <6>2. ASSUME NEW j \in 1 .. Len(t), t[j] = k  PROVE \E i \in 1 .. Len(u) : u[i] = k
            <7>1. j \in 1 .. Len(u) /\ u[j] = k  BY <5>4, <6>2
            <7>2. QED  BY <7>1
          <6>3. ASSUME e = k  PROVE \E i \in 1 .. Len(u) : u[i] = k
            <7>1. Len(t) + 1 \in 1 .. Len(u) /\ u[Len(t) + 1] = k  BY <5>4, <6>3
            <7>2. QED  BY <7>1
          <6>4. QED  BY <6>1, <6>2, <6>3
        <5>6. tail[n + 1] = u  BY <4>1, <5>1, <5>2, <5>3
        <5>7. QED  BY <5>1, <5>2, <5>5, <5>6
      <4>3. QED  BY <3>1, <3>2, <3>3, <4>2
    <3>4. CASE s[n + 1] \notin wanted
      <4>1. tail[n + 1] = tail[n]  BY <2>2, <3>4
      <4>2. QED  BY <3>1, <3>2, <3>4, <4>1
    <3>5. QED  BY <3>3, <3>4
  <2>6. Keeps(tail[n + 1], s, wanted, n + 1)  BY <2>5 DEF Keeps
  <2>7. n + 1 \in 0 .. Len(s)  BY <2>1
  <2>8. QED  BY <2>4, <2>6, <2>7
<1> HIDE DEF S
<1>6. Len(s) \in S
  <2>1. 0 .. Len(s) \subseteq S  BY <1>2, <1>4, <1>5, UpTo
  <2>2. QED  BY <1>2, <2>1
<1>7. PICK t \in Seq(Nat) : t = Filtered(s, wanted) /\ Keeps(t, s, wanted, Len(s))
    BY <1>1, <1>6 DEF S
<1>8. \A k \in Nat : (\E j \in 1 .. Len(t) : t[j] = k)
                      <=> k \in wanted /\ \E j \in 1 .. Len(s) : s[j] = k
    BY <1>7 DEF Keeps
<1>9. ASSUME NEW k, NEW u \in Seq(Nat)
      PROVE  k \in ToSet(u) <=> \E j \in 1 .. Len(u) : u[j] = k
    BY DEF ToSet
<1>10. \A k \in Nat : k \in ToSet(t) <=> k \in ToSet(s) /\ k \in wanted
  <2>1. TAKE k \in Nat
  <2>2. (k \in ToSet(t) <=> \E j \in 1 .. Len(t) : t[j] = k)
        /\ (k \in ToSet(s) <=> \E j \in 1 .. Len(s) : s[j] = k)
    BY <1>9
  <2>3. QED  BY <1>8, <2>2
<1>11. QED  BY <1>7, <1>10

-----------------------------------------------------------------------------
(* A run's console (Dashboard)                                             *)

Requested == [stage : {"asked", "answered", "done"}, upTo : Nat, joined : BOOLEAN]

\* Nothing is logged at first.
LEMMA InitConsole == DashInit => ConsoleInv
<1> SUFFICES ASSUME DashInit  PROVE ConsoleInv
    OBVIOUS
<1>1. logged = << >> /\ pushed = << >> /\ console = << >> /\ fetches = << >>  BY DEF DashInit
<1>2. whole = FALSE  BY DEF DashInit
<1>3. /\ logged \in Seq(Nat \ {0}) /\ pushed \in Seq(Nat) /\ console \in Seq(Nat)
      /\ Len(logged) = 0 /\ DOMAIN fetches = {}
      /\ fetches \in Seq([stage : {"asked", "answered", "done"}, upTo : Nat, joined : BOOLEAN])
    BY <1>1
<1>4. \A k : k \notin 1 .. 0  OBVIOUS
<1>5. whole \in BOOLEAN /\ (whole => \A k \in 1 .. Len(logged) : Covered(k))
    BY <1>2
<1>6. \A i, j \in 1 .. Len(logged) : i <= j => logged[i] <= logged[j]  BY <1>3, <1>4
<1>7. QED  BY <1>3, <1>5, <1>6, Zenon DEF ConsoleInv

\* What the invariant says, in the terms the steps need.
LEMMA ConsoleParts ==
    ASSUME ConsoleInv
    PROVE  /\ logged \in Seq(Nat) /\ Len(logged) \in Nat
           /\ \A i \in 1 .. Len(logged) : logged[i] \in Nat /\ logged[i] > 0
           /\ \A i, j \in 1 .. Len(logged) : i <= j => logged[i] <= logged[j]
           /\ pushed \in Seq(Nat) /\ console \in Seq(Nat)
           /\ fetches \in Seq(Requested) /\ Len(fetches) \in Nat
           /\ DOMAIN fetches = 1 .. Len(fetches)
           /\ \A i \in DOMAIN fetches : fetches[i] \in Requested /\ fetches[i].upTo <= Len(logged)
           /\ whole \in BOOLEAN
<1>1. /\ logged \in Seq(Nat \ {0}) /\ pushed \in Seq(Nat) /\ console \in Seq(Nat)
      /\ fetches \in Seq(Requested) /\ whole \in BOOLEAN
      /\ \A i, j \in 1 .. Len(logged) : i <= j => logged[i] <= logged[j]
      /\ \A i \in DOMAIN fetches : fetches[i].upTo <= Len(logged)
    BY DEF ConsoleInv, Requested
<1>2. /\ logged \in Seq(Nat) /\ Len(logged) \in Nat
      /\ \A i \in 1 .. Len(logged) : logged[i] \in Nat /\ logged[i] > 0
    BY <1>1
<1>3. /\ Len(fetches) \in Nat /\ DOMAIN fetches = 1 .. Len(fetches)
      /\ \A i \in DOMAIN fetches : fetches[i] \in Requested
    BY <1>1
<1>4. QED  BY <1>1, <1>2, <1>3

\* The invariant holds after a step that leaves the log as it is, if whatever was
\* covered still is, and the histories still to be joined are ones that were.
LEMMA Carried ==
    ASSUME ConsoleInv, logged' = logged, pushed' \in Seq(Nat), console' \in Seq(Nat),
           fetches' \in Seq(Requested), whole' \in BOOLEAN,
           \A i \in DOMAIN fetches' : fetches'[i].upTo <= Len(logged),
           \A i \in DOMAIN fetches' :
             fetches'[i].stage = "answered" /\ fetches'[i].joined =>
               \A k \in 1 .. Len(logged) : k > fetches'[i].upTo => Covered(k)',
           whole' => \A k \in 1 .. Len(logged) : Covered(k)'
    PROVE  ConsoleInv'
<1>1. logged' \in Seq(Nat \ {0})  BY DEF ConsoleInv
<1>2. \A i, j \in 1 .. Len(logged') : i <= j => logged'[i] <= logged'[j]  BY DEF ConsoleInv
<1>3. \A i \in DOMAIN fetches' : fetches'[i].upTo <= Len(logged')  OBVIOUS
<1>4. \A i \in DOMAIN fetches' :
        fetches'[i].stage = "answered" /\ fetches'[i].joined =>
          \A k \in 1 .. Len(logged') : k > fetches'[i].upTo => Covered(k)'
    OBVIOUS
<1>5. whole' => \A k \in 1 .. Len(logged') : Covered(k)'  OBVIOUS
<1>6. fetches' \in Seq([stage : {"asked", "answered", "done"}, upTo : Nat, joined : BOOLEAN])
    BY DEF Requested
<1>7. pushed' \in Seq(Nat) /\ console' \in Seq(Nat) /\ whole' \in BOOLEAN  OBVIOUS
<1>8. QED  BY <1>1, <1>2, <1>3, <1>4, <1>5, <1>6, <1>7, Zenon DEF ConsoleInv

\* A history being joined, and a console without gaps, cover the log.
LEMMA Whole ==
    ASSUME ConsoleInv
    PROVE  /\ whole => \A k \in 1 .. Len(logged) : Covered(k)
           /\ \A i \in DOMAIN fetches : fetches[i].stage = "answered" /\ fetches[i].joined =>
                \A k \in 1 .. Len(logged) : k > fetches[i].upTo => Covered(k)
BY DEF ConsoleInv

\* The host answers a request for the run's history.
LEMMA ServingKeepsConsole ==
    ASSUME ConsoleInv, NEW i \in DOMAIN fetches, ServeHistory(i)
    PROVE  ConsoleInv'
<1>1. /\ logged' = logged /\ pushed' = pushed /\ console' = console /\ whole' = whole
      /\ fetches' = [fetches EXCEPT ![i] = [stage |-> "answered", upTo |-> Len(logged),
                                            joined |-> up /\ Listens(subs)]]
    BY DEF ServeHistory
<1>2. PICK j : j = (up /\ Listens(subs)) /\ j \in BOOLEAN  OBVIOUS
<1>3. PICK r : r = [stage |-> "answered", upTo |-> Len(logged), joined |-> j]  OBVIOUS
<1>4. r \in Requested /\ r.upTo = Len(logged)  BY <1>2, <1>3, ConsoleParts DEF Requested
<1>5. fetches' = [fetches EXCEPT ![i] = r]  BY <1>1, <1>2, <1>3
<1>6. /\ fetches' \in Seq(Requested) /\ DOMAIN fetches' = DOMAIN fetches
      /\ \A n \in DOMAIN fetches : fetches'[n] = IF n = i THEN r ELSE fetches[n]
    BY <1>4, <1>5, ConsoleParts, ExceptSeq
<1>7. \A k : Covered(k) => Covered(k)'  BY <1>1 DEF Covered, SharesItsMillisecond
<1>8. ASSUME NEW n \in DOMAIN fetches'  PROVE fetches'[n].upTo <= Len(logged)
  <2>1. CASE n = i  BY <1>4, <1>6, <1>8, <2>1, ConsoleParts
  <2>2. CASE n # i
    <3>1. fetches'[n] = fetches[n] /\ n \in DOMAIN fetches  BY <1>6, <1>8, <2>2
    <3>2. QED  BY <3>1, ConsoleParts
  <2>3. QED  BY <2>1, <2>2
<1>9. ASSUME NEW n \in DOMAIN fetches', fetches'[n].stage = "answered" /\ fetches'[n].joined,
             NEW k \in 1 .. Len(logged), k > fetches'[n].upTo
      PROVE  Covered(k)'
  <2>1. n # i  BY <1>4, <1>6, <1>9, ConsoleParts
  <2>2. fetches'[n] = fetches[n] /\ n \in DOMAIN fetches  BY <1>6, <1>9, <2>1
  <2>3. Covered(k)  BY <1>9, <2>2, Whole
  <2>4. QED  BY <1>7, <2>3
<1>10. whole' => \A k \in 1 .. Len(logged) : Covered(k)'
    BY <1>1, <1>7, Whole
<1>11. pushed' \in Seq(Nat) /\ console' \in Seq(Nat) /\ whole' \in BOOLEAN
    BY <1>1, ConsoleParts
<1>12. QED  BY <1>1, <1>6, <1>8, <1>9, <1>10, <1>11, Carried

\* The run is opened, and its history asked for.
LEMMA OpeningKeepsConsole == ConsoleInv /\ Open => ConsoleInv'
<1> SUFFICES ASSUME ConsoleInv, Open  PROVE ConsoleInv'
    OBVIOUS
<1>1. /\ logged' = logged /\ pushed' = pushed /\ console' = console /\ whole' = whole
      /\ fetches' = Append(fetches, [Landed EXCEPT !.stage = "asked"])
    BY DEF Open
<1>2. PICK r : r = [Landed EXCEPT !.stage = "asked"]  OBVIOUS
<1>3. r \in Requested /\ r.upTo = 0 /\ r.stage = "asked"  BY <1>2 DEF Landed, Requested
<1>4. /\ fetches' \in Seq(Requested)
      /\ \A n \in DOMAIN fetches' : fetches'[n] = r \/ (n \in DOMAIN fetches /\ fetches'[n] = fetches[n])
    BY <1>1, <1>2, <1>3, ConsoleParts
<1>5. \A k : Covered(k) => Covered(k)'  BY <1>1 DEF Covered, SharesItsMillisecond
<1>6. ASSUME NEW n \in DOMAIN fetches'  PROVE fetches'[n].upTo <= Len(logged)
  <2>1. CASE fetches'[n] = r  BY <1>3, <2>1, ConsoleParts
  <2>2. CASE n \in DOMAIN fetches /\ fetches'[n] = fetches[n]  BY <2>2, ConsoleParts
  <2>3. QED  BY <1>4, <2>1, <2>2
<1>7. ASSUME NEW n \in DOMAIN fetches', fetches'[n].stage = "answered" /\ fetches'[n].joined,
             NEW k \in 1 .. Len(logged), k > fetches'[n].upTo
      PROVE  Covered(k)'
  <2>1. fetches'[n] = fetches[n] /\ n \in DOMAIN fetches  BY <1>3, <1>4, <1>7
  <2>2. Covered(k)  BY <1>7, <2>1, Whole
  <2>3. QED  BY <1>5, <2>2
<1>8. whole' => \A k \in 1 .. Len(logged) : Covered(k)'
    BY <1>1, <1>5, Whole
<1>9. pushed' \in Seq(Nat) /\ console' \in Seq(Nat) /\ whole' \in BOOLEAN
    BY <1>1, ConsoleParts
<1>10. QED  BY <1>1, <1>4, <1>6, <1>7, <1>8, <1>9, Carried

\* No history still to be read is joined on after a gap.
LEMMA AllMissed ==
    ASSUME ConsoleInv
    PROVE  /\ Missed(fetches) \in Seq(Requested)
           /\ DOMAIN Missed(fetches) = DOMAIN fetches
           /\ \A i \in DOMAIN fetches : /\ Missed(fetches)[i].joined = FALSE
                                        /\ Missed(fetches)[i].upTo = fetches[i].upTo
<1> DEFINE m == [i \in DOMAIN fetches |-> [fetches[i] EXCEPT !.joined = FALSE]]
<1>1. ASSUME NEW i \in DOMAIN fetches
      PROVE  /\ m[i] \in Requested /\ m[i].joined = FALSE /\ m[i].upTo = fetches[i].upTo
    BY ConsoleParts DEF Requested
<1>2. DOMAIN fetches = 1 .. Len(fetches) /\ Len(fetches) \in Nat  BY ConsoleParts
<1>3. m \in [1 .. Len(fetches) -> Requested]  BY <1>1, <1>2
<1>4. m \in Seq(Requested)
  <2> HIDE DEF m
  <2>1. QED  BY <1>2, <1>3
<1>5. Missed(fetches) = m  BY DEF Missed
<1>6. DOMAIN m = DOMAIN fetches  OBVIOUS
<1> HIDE DEF m
<1>7. QED  BY <1>1, <1>4, <1>5, <1>6

\* Every event has gone past the page.
LEMMA MissedKeepsConsole ==
    ASSUME ConsoleInv, logged' = logged, fetches' = Missed(fetches), whole' = FALSE,
           pushed' \in Seq(Nat), console' \in Seq(Nat)
    PROVE  ConsoleInv'
<1>1. /\ fetches' \in Seq(Requested) /\ DOMAIN fetches' = DOMAIN fetches
      /\ \A i \in DOMAIN fetches : fetches'[i].joined = FALSE /\ fetches'[i].upTo = fetches[i].upTo
    BY AllMissed
<1>2. \A i \in DOMAIN fetches' : fetches'[i].upTo <= Len(logged)  BY <1>1, ConsoleParts
<1>3. \A i \in DOMAIN fetches' :
        fetches'[i].stage = "answered" /\ fetches'[i].joined =>
          \A k \in 1 .. Len(logged) : k > fetches'[i].upTo => Covered(k)'
    BY <1>1
<1>4. QED  BY <1>1, <1>2, <1>3, Carried

\* Nothing the console shows, or the socket carries, is lost.
LEMMA NothingLostKeepsConsole ==
    ASSUME ConsoleInv, logged' = logged, fetches' = fetches, whole' = whole,
           pushed' \in Seq(Nat), console' \in Seq(Nat),
           ToSet(console) \cup ToSet(pushed) \subseteq ToSet(console') \cup ToSet(pushed')
    PROVE  ConsoleInv'
<1>1. \A k : Covered(k) => Covered(k)'  BY DEF Covered, SharesItsMillisecond
<1>2. \A i \in DOMAIN fetches' :
        fetches'[i].stage = "answered" /\ fetches'[i].joined =>
          \A k \in 1 .. Len(logged) : k > fetches'[i].upTo => Covered(k)'
    BY <1>1, Whole
<1>3. whole' => \A k \in 1 .. Len(logged) : Covered(k)'  BY <1>1, Whole
<1>4. QED  BY <1>2, <1>3, Carried, ConsoleParts

\* The socket breaks.
LEMMA BreakingKeepsConsole == ConsoleInv /\ Break => ConsoleInv'
<1> SUFFICES ASSUME ConsoleInv, Break  PROVE ConsoleInv'
    OBVIOUS
<1>1. logged' = logged /\ console' = console /\ pushed' = << >>  BY DEF Break
<1>2. pushed' \in Seq(Nat) /\ console' \in Seq(Nat)  BY <1>1, ConsoleParts
<1>3. CASE pushed = << >>
  <2>1. fetches' = fetches /\ whole' = whole  BY <1>3 DEF Break
  <2>2. ToSet(console) \cup ToSet(pushed) \subseteq ToSet(console') \cup ToSet(pushed')
    BY <1>1, <1>3
  <2>3. QED  BY <1>1, <1>2, <2>1, <2>2, NothingLostKeepsConsole
<1>4. CASE pushed # << >>
  <2>1. fetches' = Missed(fetches) /\ whole' = FALSE  BY <1>4 DEF Break
  <2>2. QED  BY <1>1, <1>2, <2>1, MissedKeepsConsole
<1>5. QED  BY <1>3, <1>4

\* The elements of a queue are its first and those behind it.
LEMMA HeadAndTail ==
    ASSUME NEW q \in Seq(Nat), q # << >>
    PROVE  /\ Head(q) \in Nat /\ Tail(q) \in Seq(Nat)
           /\ ToSet(q) = {Head(q)} \cup ToSet(Tail(q))
<1>1. Len(q) \in Nat /\ Len(q) > 0 /\ Tail(q) \in Seq(Nat) /\ Len(Tail(q)) = Len(q) - 1
    OBVIOUS
<1>2. Head(q) = q[1] /\ \A i \in 1 .. Len(q) - 1 : Tail(q)[i] = q[i + 1]  OBVIOUS
<1>3. DOMAIN q = 1 .. Len(q) /\ DOMAIN Tail(q) = 1 .. Len(q) - 1  BY <1>1
<1>4. \A x : x \in ToSet(q) <=> \E i \in 1 .. Len(q) : q[i] = x  BY <1>3 DEF ToSet
<1>5. \A x : x \in ToSet(Tail(q)) <=> \E i \in 1 .. Len(q) - 1 : q[i + 1] = x
    BY <1>2, <1>3 DEF ToSet
<1>6. ASSUME NEW x, x \in ToSet(q)  PROVE x = Head(q) \/ x \in ToSet(Tail(q))
  <2>1. PICK i \in 1 .. Len(q) : q[i] = x  BY <1>4, <1>6
  <2>2. CASE i = 1  BY <1>2, <2>1, <2>2
  <2>3. CASE i # 1
    <3>1. i - 1 \in 1 .. Len(q) - 1 /\ q[i - 1 + 1] = x  BY <1>1, <2>1, <2>3
    <3>2. QED  BY <1>5, <3>1
  <2>4. QED  BY <2>2, <2>3
<1>7. Head(q) \in ToSet(q)  BY <1>1, <1>2, <1>4
<1>8. ASSUME NEW x, x \in ToSet(Tail(q))  PROVE x \in ToSet(q)
  <2>1. PICK i \in 1 .. Len(q) - 1 : q[i + 1] = x  BY <1>5, <1>8
  <2>2. i + 1 \in 1 .. Len(q)  BY <1>1
  <2>3. QED  BY <1>4, <2>1, <2>2
<1>9. Head(q) \in Nat  BY <1>1, <1>2
<1>10. QED  BY <1>1, <1>6, <1>7, <1>8, <1>9

\* What is appended joins the elements.
LEMMA AppendedElements ==
    ASSUME NEW q \in Seq(Nat), NEW x \in Nat
    PROVE  Append(q, x) \in Seq(Nat) /\ ToSet(Append(q, x)) = ToSet(q) \cup {x}
<1>1. PICK u : u = Append(q, x)  OBVIOUS
<1>2. /\ u \in Seq(Nat) /\ Len(u) = Len(q) + 1 /\ Len(q) \in Nat /\ u[Len(q) + 1] = x
      /\ \A i \in 1 .. Len(q) : u[i] = q[i]
    BY <1>1
<1>3. DOMAIN q = 1 .. Len(q) /\ DOMAIN u = 1 .. Len(q) + 1  BY <1>2
<1>4. \A y : y \in ToSet(q) <=> \E i \in 1 .. Len(q) : q[i] = y  BY <1>3 DEF ToSet
<1>5. \A y : y \in ToSet(u) <=> \E i \in 1 .. Len(q) + 1 : u[i] = y  BY <1>3 DEF ToSet
<1>6. ASSUME NEW y, y \in ToSet(u)  PROVE y \in ToSet(q) \/ y = x
  <2>1. PICK i \in 1 .. Len(q) + 1 : u[i] = y  BY <1>5, <1>6
  <2>2. i \in 1 .. Len(q) \/ i = Len(q) + 1  BY <1>2
  <2>3. QED  BY <1>2, <1>4, <2>1, <2>2
<1>7. ASSUME NEW y, y \in ToSet(q)  PROVE y \in ToSet(u)
  <2>1. PICK i \in 1 .. Len(q) : q[i] = y  BY <1>4, <1>7
  <2>2. i \in 1 .. Len(q) + 1 /\ u[i] = y  BY <1>2, <2>1
  <2>3. QED  BY <1>5, <2>2
<1>8. x \in ToSet(u)
  <2>1. Len(q) + 1 \in 1 .. Len(q) + 1  BY <1>2
  <2>2. QED  BY <1>2, <1>5, <2>1
<1>9. QED  BY <1>1, <1>2, <1>6, <1>7, <1>8

\* A live event reaches the page: kept, or every history older than it is a gap.
LEMMA HearingKeepsConsole == ConsoleInv /\ HearEvent => ConsoleInv'
<1> SUFFICES ASSUME ConsoleInv, HearEvent  PROVE ConsoleInv'
    OBVIOUS
<1>1. logged' = logged /\ pushed # << >> /\ pushed' = Tail(pushed)  BY DEF HearEvent
<1>2. PICK e : e = Head(pushed)  OBVIOUS
<1>3. /\ e \in Nat /\ pushed' \in Seq(Nat) /\ ToSet(pushed) = {e} \cup ToSet(pushed')
    BY <1>1, <1>2, HeadAndTail, ConsoleParts
<1>4. CASE loaded \/ selected
  <2>1. console' = Append(console, e) /\ fetches' = fetches /\ whole' = whole
    BY <1>2, <1>4 DEF HearEvent
  <2>2. console' \in Seq(Nat) /\ ToSet(console') = ToSet(console) \cup {e}
    BY <1>3, <2>1, AppendedElements, ConsoleParts
  <2>3. QED  BY <1>1, <1>3, <2>1, <2>2, NothingLostKeepsConsole
<1>5. CASE ~(loaded \/ selected)
  <2>1. /\ console' = console /\ whole' = FALSE
        /\ fetches' = [i \in DOMAIN fetches |->
                         [fetches[i] EXCEPT !.joined = @ /\ fetches[i].upTo >= e]]
    BY <1>2, <1>5 DEF HearEvent
  <2>2. ASSUME NEW i \in DOMAIN fetches
        PROVE  /\ fetches'[i] \in Requested /\ fetches'[i].upTo = fetches[i].upTo
               /\ fetches'[i].stage = fetches[i].stage
               /\ fetches'[i].joined => fetches[i].joined /\ fetches[i].upTo >= e
    <3>1. PICK b \in BOOLEAN : b = (fetches[i].joined /\ fetches[i].upTo >= e)  OBVIOUS
    <3>2. PICK f \in Requested : f = fetches[i]  BY <2>2, ConsoleParts
    <3>3. fetches'[i] = [f EXCEPT !.joined = b]  BY <2>1, <2>2, <3>1, <3>2
    <3>4. /\ [f EXCEPT !.joined = b] \in Requested /\ [f EXCEPT !.joined = b].upTo = f.upTo
          /\ [f EXCEPT !.joined = b].stage = f.stage /\ [f EXCEPT !.joined = b].joined = b
      BY DEF Requested
    <3>5. fetches'[i].joined = b  BY <3>3, <3>4
    <3>6. fetches'[i].joined => fetches[i].joined /\ fetches[i].upTo >= e  BY <3>1, <3>5
    <3>7. QED  BY <3>2, <3>3, <3>4, <3>6
  <2>3. DOMAIN fetches' = DOMAIN fetches /\ fetches' \in Seq(Requested)
    <3>1. DOMAIN fetches' = DOMAIN fetches  BY <2>1
    <3>2. DOMAIN fetches = 1 .. Len(fetches) /\ Len(fetches) \in Nat  BY ConsoleParts
    <3>3. PICK f : f = fetches'  OBVIOUS
    <3>4. f = [i \in 1 .. Len(fetches) |-> f[i]]  BY <2>1, <3>2, <3>3
    <3>5. f \in [1 .. Len(fetches) -> Requested]  BY <2>2, <3>2, <3>3, <3>4
    <3>6. f \in Seq(Requested)  BY <3>2, <3>5
    <3>7. QED  BY <3>1, <3>3, <3>6
  <2>4. \A i \in DOMAIN fetches' : fetches'[i].upTo <= Len(logged)  BY <2>2, <2>3, ConsoleParts
  <2>5. ASSUME NEW i \in DOMAIN fetches', fetches'[i].stage = "answered" /\ fetches'[i].joined,
               NEW k \in 1 .. Len(logged), k > fetches'[i].upTo
        PROVE  Covered(k)'
    <3>1. /\ i \in DOMAIN fetches /\ fetches[i].stage = "answered" /\ fetches[i].joined
          /\ fetches[i].upTo >= e /\ k > fetches[i].upTo /\ fetches[i].upTo \in Nat
      BY <2>2, <2>3, <2>5, ConsoleParts DEF Requested
    <3>2. Covered(k)  BY <3>1, Whole
    <3>3. k # e  BY <1>3, <3>1
    <3>4. QED  BY <1>1, <1>3, <2>1, <3>2, <3>3 DEF Covered, SharesItsMillisecond
  <2>6. QED  BY <1>1, <1>3, <2>1, <2>3, <2>4, <2>5, Carried, ConsoleParts
<1>6. QED  BY <1>4, <1>5

\* One sequence after another has the elements of both.
LEMMA JoinedSequences ==
    ASSUME NEW a \in Seq(Nat), NEW b \in Seq(Nat)
    PROVE  a \o b \in Seq(Nat) /\ ToSet(a) \cup ToSet(b) \subseteq ToSet(a \o b)
<1>1. PICK u : u = a \o b  OBVIOUS
<1>2. /\ u \in Seq(Nat) /\ Len(u) = Len(a) + Len(b) /\ Len(a) \in Nat /\ Len(b) \in Nat
      /\ \A i \in 1 .. Len(a) : u[i] = a[i]
      /\ \A i \in 1 .. Len(b) : u[i + Len(a)] = b[i]
    BY <1>1, ConcatProperties
<1>3. DOMAIN a = 1 .. Len(a) /\ DOMAIN b = 1 .. Len(b) /\ DOMAIN u = 1 .. Len(u)  BY <1>2
<1>4. ASSUME NEW x, x \in ToSet(a)  PROVE x \in ToSet(u)
  <2>1. PICK i \in 1 .. Len(a) : a[i] = x  BY <1>3, <1>4 DEF ToSet
  <2>2. i \in 1 .. Len(u) /\ u[i] = x  BY <1>2, <2>1
  <2>3. QED  BY <1>3, <2>2 DEF ToSet
<1>5. ASSUME NEW x, x \in ToSet(b)  PROVE x \in ToSet(u)
  <2>1. PICK i \in 1 .. Len(b) : b[i] = x  BY <1>3, <1>5 DEF ToSet
  <2>2. i + Len(a) \in 1 .. Len(u) /\ u[i + Len(a)] = x  BY <1>2, <2>1
  <2>3. QED  BY <1>3, <2>2 DEF ToSet
<1>6. QED  BY <1>1, <1>2, <1>4, <1>5

\* A history joined with the console: all of the history, and what is newer.
LEMMA JoinedElements ==
    ASSUME ConsoleInv, NEW n \in Nat
    PROVE  /\ JoinedWith(n) \in Seq(Nat)
           /\ \A k \in 1 .. n : k \in ToSet(JoinedWith(n))
           /\ \A k \in 1 .. Len(logged) : k \in ToSet(console) /\ logged[k] > Cut(n)
                                          => k \in ToSet(JoinedWith(n))
<1> DEFINE newer == {k \in 1 .. Len(logged) : logged[k] > Cut(n)}
<1>1. PICK h : h = [k \in 1 .. n |-> k]  OBVIOUS
<1>2. h \in Seq(Nat) /\ \A k \in 1 .. n : k \in ToSet(h)
  <2>1. DOMAIN h = 1 .. n /\ \A k \in 1 .. n : h[k] = k  BY <1>1
  <2>2. h \in Seq(Nat)  BY <1>1
  <2>3. QED  BY <2>1, <2>2 DEF ToSet
<1>3. PICK t : t = Filtered(console, newer)  OBVIOUS
<1>4. t \in Seq(Nat) /\ \A k \in Nat : k \in ToSet(t) <=> k \in ToSet(console) /\ k \in newer
  <2> HIDE DEF newer
  <2>1. QED  BY <1>3, FilteredElements, ConsoleParts
<1>5. JoinedWith(n) = h \o t  BY <1>1, <1>3 DEF JoinedWith
<1>6. h \o t \in Seq(Nat) /\ ToSet(h) \cup ToSet(t) \subseteq ToSet(h \o t)
    BY <1>2, <1>4, JoinedSequences
<1>7. ASSUME NEW k \in 1 .. Len(logged), k \in ToSet(console), logged[k] > Cut(n)
      PROVE  k \in ToSet(t)
  <2>1. k \in newer /\ k \in Nat  BY <1>7, ConsoleParts
  <2>2. QED  BY <1>4, <1>7, <2>1
<1>8. QED  BY <1>2, <1>5, <1>6, <1>7

\* The events a joined history drops share the millisecond of its last.
LEMMA JoiningCovers ==
    ASSUME ConsoleInv, NEW n \in 0 .. Len(logged),
           logged' = logged, pushed' = pushed, console' = JoinedWith(n)
    PROVE  /\ console' \in Seq(Nat)
           /\ \A k \in 1 .. Len(logged) : k <= n \/ Covered(k) => Covered(k)'
<1>1. n \in Nat  BY ConsoleParts
<1>2. /\ console' \in Seq(Nat)
      /\ \A k \in 1 .. n : k \in ToSet(console')
      /\ \A k \in 1 .. Len(logged) : k \in ToSet(console) /\ logged[k] > Cut(n)
                                     => k \in ToSet(console')
    BY <1>1, JoinedElements
<1>3. ASSUME NEW k \in 1 .. Len(logged), k <= n \/ Covered(k)  PROVE Covered(k)'
  <2>1. CASE k <= n
    <3>1. k \in 1 .. n  BY <1>1, <2>1
    <3>2. QED  BY <1>2, <3>1 DEF Covered
  <2>2. CASE k > n /\ k \in ToSet(console)
    <3>1. CASE logged[k] > Cut(n)  BY <1>2, <2>2, <3>1 DEF Covered
    <3>2. CASE ~(logged[k] > Cut(n))
      <4>1. logged[k] \in Nat /\ logged[k] > 0  BY ConsoleParts
      <4>2. n # 0  BY <3>2, <4>1 DEF Cut
      <4>3. n \in 1 .. Len(logged) /\ n \in 1 .. k - 1  BY <1>1, <2>2, <4>2, ConsoleParts
      <4>4. logged[n] <= logged[k] /\ logged[n] \in Nat
        <5>1. \A i, j \in 1 .. Len(logged) : i <= j => logged[i] <= logged[j]
          BY ConsoleParts
        <5>2. logged[n] \in Nat  BY <4>3, ConsoleParts
        <5>3. n <= k /\ n \in 1 .. Len(logged) /\ k \in 1 .. Len(logged)  BY <4>3
        <5>4. QED  BY <5>1, <5>2, <5>3
      <4>5. logged[n] = logged[k]  BY <3>2, <4>1, <4>2, <4>4 DEF Cut
      <4>6. QED  BY <4>3, <4>5 DEF Covered, SharesItsMillisecond
    <3>3. QED  BY <3>1, <3>2
  <2>3. CASE k \in ToSet(pushed) \/ SharesItsMillisecond(k)
    BY <2>3 DEF Covered, SharesItsMillisecond
  <2>4. QED  BY <1>1, <1>3, <2>1, <2>2, <2>3 DEF Covered
<1>4. QED  BY <1>2, <1>3

\* A request ends, whatever it brought.
LEMMA LandedRequests ==
    ASSUME ConsoleInv, NEW i \in DOMAIN fetches, fetches' = [fetches EXCEPT ![i] = Landed]
    PROVE  /\ fetches' \in Seq(Requested)
           /\ \A n \in DOMAIN fetches' : fetches'[n].upTo <= Len(logged)
           /\ \A n \in DOMAIN fetches' : fetches'[n].stage = "answered" =>
                n \in DOMAIN fetches /\ fetches'[n] = fetches[n]
<1>1. Landed \in Requested /\ Landed.upTo = 0 /\ Landed.stage = "done"  BY DEF Landed, Requested
<1>2. /\ fetches' \in Seq(Requested) /\ DOMAIN fetches' = DOMAIN fetches
      /\ \A n \in DOMAIN fetches : fetches'[n] = IF n = i THEN Landed ELSE fetches[n]
    BY <1>1, ConsoleParts, ExceptSeq
<1>3. ASSUME NEW n \in DOMAIN fetches'
      PROVE  /\ fetches'[n].upTo <= Len(logged)
             /\ fetches'[n].stage = "answered" =>
                  n \in DOMAIN fetches /\ fetches'[n] = fetches[n]
  <2>1. CASE n = i
    <3>1. fetches'[n] = Landed  BY <1>2, <2>1
    <3>2. QED  BY <1>1, <3>1, ConsoleParts
  <2>2. CASE n # i
    <3>1. fetches'[n] = fetches[n] /\ n \in DOMAIN fetches  BY <1>2, <1>3, <2>2
    <3>2. QED  BY <3>1, ConsoleParts
  <2>3. QED  BY <2>1, <2>2
<1>4. QED  BY <1>2, <1>3

\* A history lands on the page, or the request for it fails.
LEMMA LandingKeepsConsole ==
    ASSUME ConsoleInv, NEW i \in DOMAIN fetches, HistoryLands(i) \/ HistoryFails(i)
    PROVE  ConsoleInv'
<1>1. /\ logged' = logged /\ pushed' = pushed
      /\ fetches' = [fetches EXCEPT ![i] = Landed]
    BY DEF HistoryLands, HistoryFails
<1>2. /\ fetches' \in Seq(Requested)
      /\ \A n \in DOMAIN fetches' : fetches'[n].upTo <= Len(logged)
      /\ \A n \in DOMAIN fetches' : fetches'[n].stage = "answered" =>
           n \in DOMAIN fetches /\ fetches'[n] = fetches[n]
    BY <1>1, LandedRequests
<1>3. PICK n \in 0 .. Len(logged) :
        /\ console' = JoinedWith(n) /\ whole' \in BOOLEAN
        /\ whole' => whole \/ (fetches[i].stage = "answered" /\ fetches[i].joined
                               /\ n = fetches[i].upTo)
  <2>1. fetches[i].upTo \in 0 .. Len(logged) /\ 0 \in 0 .. Len(logged)
    BY ConsoleParts DEF Requested
  <2>2. CASE HistoryLands(i)
    <3>1. /\ console' = JoinedWith(fetches[i].upTo) /\ fetches[i].stage = "answered"
          /\ whole' = (whole \/ fetches[i].joined)
      BY <2>2 DEF HistoryLands
    <3>2. PICK w : w = (whole \/ fetches[i].joined) /\ w \in BOOLEAN  OBVIOUS
    <3>3. QED  BY <2>1, <3>1, <3>2
  <2>3. CASE HistoryFails(i)
    <3>1. console' = JoinedWith(0) /\ whole' = whole  BY <2>3 DEF HistoryFails
    <3>2. QED  BY <2>1, <3>1, ConsoleParts
  <2>4. QED  BY <2>2, <2>3
<1>4. /\ console' \in Seq(Nat)
      /\ \A k \in 1 .. Len(logged) : k <= n \/ Covered(k) => Covered(k)'
    BY <1>1, <1>3, JoiningCovers
<1>5. ASSUME NEW m \in DOMAIN fetches', fetches'[m].stage = "answered" /\ fetches'[m].joined,
             NEW k \in 1 .. Len(logged), k > fetches'[m].upTo
      PROVE  Covered(k)'
  <2>1. m \in DOMAIN fetches /\ fetches'[m] = fetches[m]  BY <1>2, <1>5
  <2>2. Covered(k)  BY <1>5, <2>1, Whole
  <2>3. QED  BY <1>4, <2>2
<1>6. ASSUME whole', NEW k \in 1 .. Len(logged)  PROVE Covered(k)'
  <2>1. CASE whole  BY <1>4, <2>1, Whole
  <2>2. CASE fetches[i].stage = "answered" /\ fetches[i].joined /\ n = fetches[i].upTo
    <3>1. k > n => Covered(k)  BY <2>2, Whole
    <3>2. k > n \/ k <= n  BY ConsoleParts
    <3>3. QED  BY <1>4, <3>1, <3>2
  <2>3. QED  BY <1>3, <1>6, <2>1, <2>2
<1>7. pushed' \in Seq(Nat)  BY <1>1, ConsoleParts
<1>8. QED  BY <1>1, <1>2, <1>3, <1>4, <1>5, <1>6, <1>7, Carried

\* The run logs one more event.
LEMMA LoggingKeepsConsole == ConsoleInv /\ Log => ConsoleInv'
<1> SUFFICES ASSUME ConsoleInv, Log  PROVE ConsoleInv'
    OBVIOUS
<1>0. PICK n \in Nat : n = Len(logged)  BY ConsoleParts
<1>1. PICK t \in Nat \ {0} :
        /\ logged' = Append(logged, t)
        /\ \A i \in 1 .. Len(logged) : logged[i] <= t
  <2>1. PICK last : last = IF logged = << >> THEN 1 ELSE logged[n]  OBVIOUS
  <2>2. last \in Nat \ {0} /\ \A i \in 1 .. n : logged[i] <= last
    <3>1. CASE logged = << >>
      <4>1. n = 0 /\ last = 1  BY <1>0, <2>1, <3>1
      <4>2. QED  BY <4>1
    <3>2. CASE logged # << >>
      <4>1. n \in 1 .. n /\ last = logged[n]  BY <1>0, <2>1, <3>2, ConsoleParts
      <4>2. QED  BY <1>0, <4>1, ConsoleParts
    <3>3. QED  BY <3>1, <3>2
  <2>3. \E t \in {last, last + 1} : logged' = Append(logged, t)  BY <1>0, <2>1 DEF Log
  <2>4. PICK t \in {last, last + 1} : logged' = Append(logged, t)  BY <2>3
  <2>5. t \in Nat \ {0} /\ last <= t  BY <2>2, <2>4
  <2>6. \A i \in 1 .. n : logged[i] <= t
    <3>1. \A i \in 1 .. n : logged[i] \in Nat  BY <1>0, ConsoleParts
    <3>2. QED  BY <2>2, <2>5, <3>1
  <2>7. QED  BY <1>0, <2>4, <2>5, <2>6
<1>2. /\ logged' \in Seq(Nat \ {0}) /\ Len(logged') = n + 1 /\ n \in Nat
      /\ logged'[n + 1] = t /\ \A i \in 1 .. n : logged'[i] = logged[i]
  <2>1. logged \in Seq(Nat \ {0})  BY DEF ConsoleInv
  <2>2. QED  BY <1>0, <1>1, <2>1
<1>3. console' = console  BY DEF Log
<1>4. \A i, j \in 1 .. Len(logged') : i <= j => logged'[i] <= logged'[j]
  <2>1. SUFFICES ASSUME NEW i \in 1 .. n + 1, NEW j \in 1 .. n + 1, i <= j
                 PROVE  logged'[i] <= logged'[j]
    BY <1>2
  <2>2. CASE j = n + 1
    <3>1. CASE i = n + 1  BY <1>2, <2>2, <3>1
    <3>2. CASE i # n + 1
      <4>1. i \in 1 .. n  BY <1>2, <3>2
      <4>2. QED  BY <1>1, <1>2, <2>2, <4>1
    <3>3. QED  BY <3>1, <3>2
  <2>3. CASE j # n + 1
    <3>1. i \in 1 .. n /\ j \in 1 .. n  BY <1>2, <2>1, <2>3
    <3>2. logged[i] <= logged[j]  BY <1>0, <2>1, <3>1, ConsoleParts
    <3>3. QED  BY <1>2, <3>1, <3>2
  <2>4. QED  BY <2>2, <2>3
<1>5. CASE up /\ Listens(subs)
  <2>1. pushed' = Append(pushed, n + 1) /\ fetches' = fetches /\ whole' = whole
    BY <1>0, <1>5 DEF Log
  <2>2. pushed' \in Seq(Nat) /\ ToSet(pushed') = ToSet(pushed) \cup {n + 1}
    BY <1>2, <2>1, AppendedElements, ConsoleParts
  <2>3. ASSUME NEW k \in 1 .. n, Covered(k)  PROVE Covered(k)'
    <3>1. CASE k \in ToSet(console) \cup ToSet(pushed)  BY <1>3, <2>2, <3>1 DEF Covered
    <3>2. CASE SharesItsMillisecond(k)
      <4>1. PICK j \in 1 .. k - 1 : logged[j] = logged[k]  BY <3>2 DEF SharesItsMillisecond
      <4>2. j \in 1 .. n  BY <4>1
      <4>3. logged'[j] = logged'[k]  BY <1>2, <4>1, <4>2
      <4>4. QED  BY <4>1, <4>3 DEF Covered, SharesItsMillisecond
    <3>3. QED  BY <2>3, <3>1, <3>2 DEF Covered
  <2>4. Covered(n + 1)'  BY <2>2 DEF Covered
  <2>5. \A i \in DOMAIN fetches' : fetches'[i].upTo <= Len(logged')
    <3>1. \A i \in DOMAIN fetches : fetches[i].upTo <= n /\ fetches[i].upTo \in Nat
      BY <1>0, ConsoleParts DEF Requested
    <3>2. QED  BY <1>2, <2>1, <3>1
  <2>6. ASSUME NEW i \in DOMAIN fetches', fetches'[i].stage = "answered" /\ fetches'[i].joined,
               NEW k \in 1 .. Len(logged'), k > fetches'[i].upTo
        PROVE  Covered(k)'
    <3>1. CASE k = n + 1  BY <2>4, <3>1
    <3>2. CASE k # n + 1
      <4>1. k \in 1 .. n  BY <1>2, <3>2
      <4>2. Covered(k)  BY <1>0, <2>1, <2>6, <4>1, Whole
      <4>3. QED  BY <2>3, <4>1, <4>2
    <3>3. QED  BY <3>1, <3>2
  <2>7. ASSUME whole', NEW k \in 1 .. Len(logged')  PROVE Covered(k)'
    <3>1. CASE k = n + 1  BY <2>4, <3>1
    <3>2. CASE k # n + 1
      <4>1. k \in 1 .. n  BY <1>2, <3>2
      <4>2. Covered(k)  BY <1>0, <2>1, <2>7, <4>1, Whole
      <4>3. QED  BY <2>3, <4>1, <4>2
    <3>3. QED  BY <3>1, <3>2
  <2>8. /\ fetches' \in Seq([stage : {"asked", "answered", "done"}, upTo : Nat, joined : BOOLEAN])
        /\ console' \in Seq(Nat) /\ whole' \in BOOLEAN
    BY <1>3, <2>1, ConsoleParts DEF Requested
  <2>9. QED  BY <1>2, <1>4, <2>2, <2>5, <2>6, <2>7, <2>8, Zenon DEF ConsoleInv
<1>6. CASE ~(up /\ Listens(subs))
  <2>1. pushed' = pushed /\ fetches' = Missed(fetches) /\ whole' = FALSE
    BY <1>6 DEF Log
  <2>2. /\ fetches' \in Seq(Requested) /\ DOMAIN fetches' = DOMAIN fetches
        /\ \A i \in DOMAIN fetches : fetches'[i].joined = FALSE /\ fetches'[i].upTo = fetches[i].upTo
    BY <2>1, AllMissed
  <2>3. \A i \in DOMAIN fetches' : fetches'[i].upTo <= Len(logged')
    <3>1. \A i \in DOMAIN fetches : fetches[i].upTo <= n /\ fetches[i].upTo \in Nat
      BY <1>0, ConsoleParts DEF Requested
    <3>2. QED  BY <1>2, <2>2, <3>1
  <2>4. \A i \in DOMAIN fetches' :
          fetches'[i].stage = "answered" /\ fetches'[i].joined =>
            \A k \in 1 .. Len(logged') : k > fetches'[i].upTo => Covered(k)'
    BY <2>2
  <2>5. whole' => \A k \in 1 .. Len(logged') : Covered(k)'  BY <2>1
  <2>6. /\ fetches' \in Seq([stage : {"asked", "answered", "done"}, upTo : Nat, joined : BOOLEAN])
        /\ pushed' \in Seq(Nat) /\ console' \in Seq(Nat) /\ whole' \in BOOLEAN
    BY <1>3, <2>1, <2>2, ConsoleParts DEF Requested
  <2>7. QED  BY <1>2, <1>4, <2>3, <2>4, <2>5, <2>6, Zenon DEF ConsoleInv
<1>7. QED  BY <1>5, <1>6

\* Every step of the dashboard keeps the invariant.
LEMMA NextConsole == ConsoleInv /\ [DashNext]_dashVars => ConsoleInv'
<1> SUFFICES ASSUME ConsoleInv, [DashNext]_dashVars  PROVE ConsoleInv'
    OBVIOUS
<1>1. CASE HearClient \/ Leave \/ SocketReturns \/ UNCHANGED dashVars
  <2>1. /\ logged' = logged /\ fetches' = fetches /\ whole' = whole
        /\ pushed' = pushed /\ console' = console
    BY <1>1 DEF HearClient, Leave, SocketReturns, dashVars
  <2>2. QED  BY <2>1, NothingLostKeepsConsole, ConsoleParts
<1>2. CASE Log  BY <1>2, LoggingKeepsConsole
<1>3. CASE Open  BY <1>3, OpeningKeepsConsole
<1>4. CASE HearEvent  BY <1>4, HearingKeepsConsole
<1>5. CASE Break  BY <1>5, BreakingKeepsConsole
<1>6. ASSUME NEW i \in DOMAIN fetches, ServeHistory(i) \/ HistoryLands(i) \/ HistoryFails(i)
      PROVE  ConsoleInv'
    BY <1>6, ServingKeepsConsole, LandingKeepsConsole
<1>7. QED  BY <1>1, <1>2, <1>3, <1>4, <1>5, <1>6 DEF DashNext

\* Once a history read while the host was pushing has landed, and as long as no
\* event has been kept from the page since, the console shows the whole log but
\* for what the socket still carries, in whatever order the answers and the
\* live events came (useOrchestrator.ts reducer, server.ts broadcast).
THEOREM ConsoleIsComplete == DashSpec => []ConsoleHasEverything
<1>1. ConsoleInv => ConsoleHasEverything
    BY Whole DEF ConsoleHasEverything, Covered
<1>2. QED  BY <1>1, InitConsole, NextConsole, PTL DEF DashSpec
================================================================================
