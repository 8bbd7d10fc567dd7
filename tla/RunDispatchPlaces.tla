--------------------------- MODULE RunDispatchPlaces ---------------------------
(***************************************************************************)
(* That a run is handed out once, that none in flight is stranded, that no *)
(* late report moves one, and that a lease is issued for what was asked    *)
(* for, for every fleet, every set of runs and every number of faults and  *)
(* commands. The argument is PlaceInv, on top of OwnershipInv: a run is in *)
(* one place at a time, the queue, a lease or its lock, and a held lease   *)
(* is the only one that moves its run. It survives every step but the      *)
(* three Orderly keeps out. LateInv adds that an execution says one thing  *)
(* of how it ends; KindInv and ResultInv, where the marker of a follow-up  *)
(* and the result it follows up on are.                                    *)
(***************************************************************************)
EXTENDS RunDispatchProofs, SequenceTheorems

-----------------------------------------------------------------------------
(* The queue *)

\* A run that is not listed may be listed, at the end or at the start.
LEMMA ListingOne ==
    ASSUME NEW s \in Seq(Runs), IsInjective(s), NEW r \in Runs, ~Contains(s, r)
    PROVE  /\ IsInjective(Append(s, r)) /\ IsInjective(<<r>> \o s)
           /\ \A q : Contains(Append(s, r), q) <=> Contains(s, q) \/ q = r
           /\ \A q : Contains(<<r>> \o s, q) <=> Contains(s, q) \/ q = r
<1> DEFINE a == Append(s, r)
           b == <<r>> \o s
           n == Len(s)
<1>1. n \in Nat /\ DOMAIN s = 1..n /\ \A i \in 1..n : s[i] # r
    BY DEF Contains
<1>2. \A i, j \in 1..n : s[i] = s[j] => i = j
    BY <1>1 DEF IsInjective
<1>3. /\ Len(a) = n + 1 /\ DOMAIN a = 1..(n + 1) /\ a[n + 1] = r
      /\ \A i \in 1..n : a[i] = s[i]
    BY <1>1
<1>4. /\ Len(b) = n + 1 /\ DOMAIN b = 1..(n + 1) /\ b[1] = r
      /\ \A i \in 1..(n + 1) : i # 1 => i - 1 \in 1..n /\ b[i] = s[i - 1]
    BY <1>1
<1> HIDE DEF a, b, n
<1>5. IsInjective(a)
  <2>1. ASSUME NEW i \in 1..(n + 1), NEW j \in 1..(n + 1), a[i] = a[j] PROVE i = j
    <3>1. i = n + 1 \/ i \in 1..n
      BY <1>1
    <3>2. j = n + 1 \/ j \in 1..n
      BY <1>1
    <3>3. QED  BY <1>1, <1>2, <1>3, <2>1, <3>1, <3>2
  <2>2. QED  BY <1>3, <2>1 DEF IsInjective
<1>6. IsInjective(b)
  <2>1. ASSUME NEW i \in 1..(n + 1), NEW j \in 1..(n + 1), b[i] = b[j] PROVE i = j
    <3>1. CASE i = 1 \/ j = 1
      BY <1>1, <1>4, <2>1, <3>1
    <3>2. CASE i # 1 /\ j # 1
      <4>1. i - 1 = j - 1
        BY <1>2, <1>4, <2>1, <3>2
      <4>2. QED  BY <1>1, <4>1
    <3>3. QED  BY <3>1, <3>2
  <2>2. QED  BY <1>4, <2>1 DEF IsInjective
<1>7. ASSUME NEW q PROVE Contains(a, q) <=> Contains(s, q) \/ q = r
  <2>1. Contains(a, q) <=> \E i \in 1..(n + 1) : a[i] = q
    BY <1>3 DEF Contains
  <2>2. Contains(s, q) <=> \E i \in 1..n : s[i] = q
    BY DEF Contains, n
  <2>3. \A i \in 1..(n + 1) : i \in 1..n \/ i = n + 1
    BY <1>1
  <2>4. n + 1 \in 1..(n + 1) /\ \A i \in 1..n : i \in 1..(n + 1)
    BY <1>1
  <2>5. QED  BY <1>3, <2>1, <2>2, <2>3, <2>4
<1>8. ASSUME NEW q PROVE Contains(b, q) <=> Contains(s, q) \/ q = r
  <2>1. Contains(b, q) <=> \E i \in 1..(n + 1) : b[i] = q
    BY <1>4 DEF Contains
  <2>2. Contains(s, q) <=> \E i \in 1..n : s[i] = q
    BY DEF Contains, n
  <2>3. ASSUME NEW i \in 1..n PROVE i + 1 \in 1..(n + 1) /\ b[i + 1] = s[i]
    <3>1. i + 1 \in 1..(n + 1) /\ i + 1 # 1 /\ (i + 1) - 1 = i
      BY <1>1
    <3>2. QED  BY <1>4, <3>1
  <2>4. 1 \in 1..(n + 1)
    BY <1>1
  <2>5. QED  BY <1>4, <2>1, <2>2, <2>3, <2>4
<1>9. QED  BY <1>5, <1>6, <1>7, <1>8 DEF a, b

\* The first run leaves the queue.
LEMMA TakingTheFirst ==
    ASSUME NEW s \in Seq(Runs), IsInjective(s), s # <<>>
    PROVE  /\ IsInjective(Tail(s)) /\ Contains(s, Head(s))
           /\ \A q : Contains(Tail(s), q) <=> Contains(s, q) /\ q # Head(s)
<1> DEFINE t == Tail(s)
           n == Len(s)
<1>1. n \in Nat /\ n > 0 /\ DOMAIN s = 1..n /\ Head(s) = s[1]
    OBVIOUS
<1>2. \A i, j \in 1..n : s[i] = s[j] => i = j
    BY <1>1 DEF IsInjective
<1>3. Len(t) = n - 1 /\ DOMAIN t = 1..(n - 1) /\ \A i \in 1..(n - 1) : t[i] = s[i + 1]
    BY <1>1
<1>4. \A q : Contains(s, q) <=> \E i \in 1..n : s[i] = q
    BY DEF Contains
<1> HIDE DEF t, n
<1>5. \A i \in 1..(n - 1) : i + 1 \in 1..n /\ i + 1 # 1
    BY <1>1
<1>6. IsInjective(t)
  <2>1. ASSUME NEW i \in 1..(n - 1), NEW j \in 1..(n - 1), t[i] = t[j] PROVE i = j
    <3>1. i + 1 = j + 1
      BY <1>2, <1>3, <1>5, <2>1
    <3>2. QED  BY <1>1, <3>1
  <2>2. QED  BY <1>3, <2>1 DEF IsInjective
<1>7. ASSUME NEW q PROVE Contains(t, q) <=> Contains(s, q) /\ q # Head(s)
  <2>1. Contains(t, q) <=> \E i \in 1..(n - 1) : t[i] = q
    BY <1>3 DEF Contains
  <2>2. ASSUME NEW i \in 1..n, i # 1 PROVE i - 1 \in 1..(n - 1) /\ t[i - 1] = s[i]
    <3>1. i - 1 \in 1..(n - 1) /\ (i - 1) + 1 = i
      BY <1>1, <2>2
    <3>2. QED  BY <1>3, <3>1
  <2>3. 1 \in 1..n
    BY <1>1
  <2>4. ASSUME NEW i \in 1..(n - 1), t[i] = q PROVE Contains(s, q) /\ q # Head(s)
    BY <1>1, <1>2, <1>3, <1>4, <1>5, <2>3, <2>4
  <2>5. ASSUME NEW i \in 1..n, s[i] = q, q # Head(s) PROVE Contains(t, q)
    BY <1>1, <2>1, <2>2, <2>5
  <2>6. QED  BY <1>4, <2>1, <2>4, <2>5
<1>8. Contains(s, Head(s))
    BY <1>1, <1>4
<1>9. QED  BY <1>6, <1>7, <1>8 DEF t

\* A run is taken out of the queue.
LEMMA TakingOut ==
    ASSUME queue \in Seq(Runs), IsInjective(queue), NEW r \in Runs, Contains(queue, r)
    PROVE  /\ IsInjective(Dequeued(r))
           /\ \A q : Contains(Dequeued(r), q) <=> Contains(queue, q) /\ q # r
<1> DEFINE k == CHOOSE i \in DOMAIN queue : queue[i] = r
           n == Len(queue)
           a == SubSeq(queue, 1, k - 1)
           b == SubSeq(queue, k + 1, n)
           t == a \o b
<1>1. n \in Nat /\ DOMAIN queue = 1..n
    OBVIOUS
<1>2. k \in 1..n /\ queue[k] = r
    BY <1>1 DEF Contains
<1>3. \A i, j \in 1..n : queue[i] = queue[j] => i = j
    BY <1>1 DEF IsInjective
<1>4. \A q : Contains(queue, q) <=> \E i \in 1..n : queue[i] = q
    BY DEF Contains
<1>5. Dequeued(r) = t
    BY DEF Dequeued, RemoveAt
<1> HIDE DEF k
<1>6. /\ a \in Seq(Runs) /\ Len(a) = k - 1 /\ \A i \in 1..(k - 1) : a[i] = queue[i]
  <2>1. a \in Seq(Runs)
    BY <1>1, <1>2
  <2>2. Len(a) = k - 1
    BY <1>1, <1>2
  <2>3. ASSUME NEW i \in 1..(k - 1) PROVE a[i] = queue[i]
    BY <1>1, <1>2, <2>3
  <2>4. QED  BY <2>1, <2>2, <2>3
<1>7. /\ b \in Seq(Runs) /\ Len(b) = n - k /\ \A i \in 1..(n - k) : b[i] = queue[i + k]
  <2>1. b \in Seq(Runs)
    BY <1>1, <1>2
  <2>2. Len(b) = n - k
    <3>1. CASE k + 1 <= n
      BY <1>1, <1>2, <3>1
    <3>2. CASE k = n
      <4>1. k + 1 \in Int /\ n \in Int /\ n < k + 1
        BY <1>1, <1>2, <3>2
      <4>2. b = <<>>
        BY <4>1, SubSeqEmpty
      <4> HIDE DEF b
      <4>3. Len(<<>>) = 0
        OBVIOUS
      <4>4. n - k = 0
        BY <1>1, <3>2
      <4>5. QED  BY <4>2, <4>3, <4>4
    <3>3. k + 1 <= n \/ k = n
      <4>1. n \in Nat /\ k \in 1..n
        BY <1>1, <1>2
      <4> HIDE DEF n
      <4>2. QED  BY <4>1
    <3>4. QED  BY <3>1, <3>2, <3>3
  <2>3. ASSUME NEW i \in 1..(n - k) PROVE b[i] = queue[i + k]
    <3>1. b[i] = queue[(k + 1) + i - 1]
      BY <1>1, <1>2, <2>3
    <3>2. (k + 1) + i - 1 = i + k
      BY <1>2
    <3>3. QED  BY <3>1, <3>2
  <2>4. QED  BY <2>1, <2>2, <2>3
<1> HIDE DEF a, b
<1>8. Len(t) = n - 1 /\ DOMAIN t = 1..(n - 1)
  <2>1. t \in Seq(Runs) /\ Len(t) = Len(a) + Len(b)
    BY <1>6, <1>7
  <2>2. Len(t) = n - 1
    BY <1>1, <1>2, <1>6, <1>7, <2>1
  <2>3. QED  BY <2>1, <2>2
<1>9. ASSUME NEW i \in 1..(n - 1)
      PROVE  /\ i < k => i \in 1..n /\ i # k /\ t[i] = queue[i]
             /\ i >= k => i + 1 \in 1..n /\ i + 1 # k /\ t[i] = queue[i + 1]
  <2>1. i \in 1..(Len(a) + Len(b))
    BY <1>1, <1>2, <1>6, <1>7
  <2>2. CASE i < k
    <3>1. i \in 1..(k - 1) /\ i \in 1..n /\ ~(i >= k) /\ i <= Len(a)
      BY <1>1, <1>2, <1>6, <2>2
    <3>2. t[i] = a[i]
      BY <1>6, <1>7, <2>1, <3>1
    <3>3. QED  BY <1>2, <1>6, <3>1, <3>2
  <2>3. CASE i >= k
    <3>1. /\ i - (k - 1) \in 1..(n - k) /\ (i - (k - 1)) + k = i + 1 /\ ~(i < k)
          /\ i + 1 \in 1..n /\ i + 1 # k /\ i > Len(a)
      BY <1>1, <1>2, <1>6, <2>3
    <3>2. t[i] = b[i - Len(a)]
      BY <1>6, <1>7, <2>1, <3>1
    <3>3. b[i - (k - 1)] = queue[(i - (k - 1)) + k]
      BY <1>7, <3>1
    <3>4. QED  BY <1>6, <3>1, <3>2, <3>3
  <2>4. QED  BY <1>1, <1>2, <2>2, <2>3
<1> HIDE DEF t, n
<1>10. IsInjective(t)
  <2>1. ASSUME NEW i \in 1..(n - 1), NEW j \in 1..(n - 1), t[i] = t[j] PROVE i = j
    <3>1. CASE i < k /\ j < k
      BY <1>3, <1>9, <2>1, <3>1
    <3>2. CASE i >= k /\ j >= k
      <4>1. i + 1 = j + 1
        BY <1>3, <1>9, <2>1, <3>2
      <4>2. QED  BY <1>1, <4>1
    <3>3. CASE i < k /\ j >= k
      <4>1. i = j + 1
        BY <1>3, <1>9, <2>1, <3>3
      <4>2. QED  BY <1>1, <1>2, <3>3, <4>1
    <3>4. CASE i >= k /\ j < k
      <4>1. i + 1 = j
        BY <1>3, <1>9, <2>1, <3>4
      <4>2. QED  BY <1>1, <1>2, <3>4, <4>1
    <3>5. QED  BY <1>1, <1>2, <3>1, <3>2, <3>3, <3>4
  <2>2. QED  BY <1>8, <2>1 DEF IsInjective
<1>11. ASSUME NEW q PROVE Contains(t, q) <=> Contains(queue, q) /\ q # r
  <2>1. Contains(t, q) <=> \E i \in 1..(n - 1) : t[i] = q
    BY <1>8 DEF Contains
  <2>2. ASSUME NEW i \in 1..(n - 1), t[i] = q PROVE Contains(queue, q) /\ q # r
    <3>1. PICK j \in 1..n : j # k /\ t[i] = queue[j]
      <4>1. i < k \/ i >= k
        BY <1>1, <1>2
      <4>2. QED  BY <1>9, <4>1
    <3>2. QED  BY <1>2, <1>3, <1>4, <2>2, <3>1
  <2>3. ASSUME NEW i \in 1..n, queue[i] = q, q # r PROVE Contains(t, q)
    <3>1. CASE i < k
      <4>1. i \in 1..(n - 1)
        BY <1>1, <1>2, <3>1
      <4>2. QED  BY <1>9, <2>1, <2>3, <3>1, <4>1
    <3>2. CASE i > k
      <4>1. i - 1 \in 1..(n - 1) /\ i - 1 >= k /\ (i - 1) + 1 = i
        BY <1>1, <1>2, <3>2
      <4>2. t[i - 1] = queue[(i - 1) + 1]
        BY <1>9, <4>1
      <4>3. QED  BY <2>1, <2>3, <4>1, <4>2
    <3>3. i # k
      BY <1>2, <2>3
    <3>4. QED  BY <1>1, <1>2, <3>1, <3>2, <3>3
  <2>4. QED  BY <1>4, <2>1, <2>2, <2>3
<1>12. QED  BY <1>5, <1>10, <1>11

\* SetToSeqs lists every member of a finite set, once.
LEMMA ListingRuns ==
    ASSUME NEW S \in SUBSET Runs, NEW s \in SetToSeqs(S)
    PROVE  s \in Seq(Runs) /\ IsInjective(s) /\ \A q : Contains(s, q) <=> q \in S
<1> DEFINE n == Cardinality(S)
<1>1. IsFiniteSet(S) /\ n \in Nat
    BY DispatchAssumption, FS_Subset, FS_CardinalityType
<1>2. s \in [1..n -> S] /\ \A i, j \in 1..n : i # j => s[i] # s[j]
    BY DEF SetToSeqs
<1> HIDE DEF n
<1>3. IsInjective(s)
    BY <1>2 DEF IsInjective
<1>4. s \in Injection(1..n, S)
    BY <1>2, <1>3 DEF Injection
<1>5. Cardinality(1..n) = n /\ n = Cardinality(S)
    BY <1>1, FS_Interval DEF n
<1>6. s \in Surjection(1..n, S)
    BY <1>1, <1>4, <1>5, FS_Injection
<1>7. s \in [1..n -> Runs]
    BY <1>2
<1>8. s \in Seq(Runs) /\ Len(s) = n
    BY <1>1, <1>7
<1>9. \A q : Contains(s, q) <=> q \in S
    BY <1>2, <1>6, <1>8 DEF Contains, Surjection
<1>10. QED  BY <1>3, <1>8, <1>9

-----------------------------------------------------------------------------
(* Where the runs are *)

\* What is on its way was on its way, or its claim has just begun.
LEMMA ComingStays ==
    ASSUME OwnershipInv, Next, NEW l \in Leases, Coming(l)'
    PROVE  Coming(l) \/ l \in claiming' \ claiming
<1>0. /\ RecordInv /\ SocketsOK /\ SchedulerOK /\ BooksOK /\ BuffersOK /\ LinesOK
      /\ BegunOnce
    BY DEF OwnershipInv, RecordInv
<1>1. CASE l \in claiming'
    BY <1>1 DEF Coming
<1>2. CASE ~Unsent(l)'
  <2>1. PICK w \in Workers : Carries(w, Msg("dispatch", l))'
    BY <1>2 DEF Unsent, Carries
  <2>2. Carries(w, Msg("dispatch", l)) \/ ClaimLands(l)
    BY <1>0, <2>1, DispatchesGoOutOnce
  <2>3. Carries(w, Msg("dispatch", l)) => ~Unsent(l)
    BY UnsentIs
  <2>4. ClaimLands(l) => l \in claiming
    BY DEF ClaimLands
  <2>5. QED  BY <2>2, <2>3, <2>4 DEF Coming
<1>3. CASE Refused(l)'
  <2>1. Refused(l) \/ \E w \in Workers : HandleDispatch(w) /\ l = Head(toWorker[w]).lease
    BY <1>0, <1>3, RefusalsAreOfDispatches
  <2>2. ASSUME NEW w \in Workers, HandleDispatch(w), l = Head(toWorker[w]).lease PROVE ~Unsent(l)
    BY <1>0, <2>2, ArrivalsAreOver
  <2>3. QED  BY <2>1, <2>2 DEF Coming
<1>4. QED  BY <1>1, <1>2, <1>3 DEF Coming

\* What the host holds is its run's one lease, and what it is about to settle it
\* holds.
LEMMA HeldByRun ==
    ASSUME BooksOK, HeldOK, NEW l \in held
    PROVE  /\ l \in Leases /\ RunOf(l) \in Runs /\ leaseByRun[RunOf(l)] = l /\ l # None
           /\ \A m \in held : RunOf(m) = RunOf(l) => m = l
<1>1. l \in Leases /\ RunOf(l) \in Runs
    BY Granted
<1>2. QED  BY <1>1, DispatchAssumption DEF HeldOK

\* A completion that is being finished is of a held lease.
LEMMA FinishingIsHeld ==
    ASSUME BooksOK, HeldOK, LastWords, NEW l \in finishing PROVE l \in held
<1>1. l \in Leases /\ admitted[l] > 0
    BY DEF BooksOK, LastWords
<1>2. QED  BY <1>1 DEF HeldOK

\* Steps of the sockets, of the daemons and of the executions leave every run
\* where it is.
LEMMA PlacesStay ==
    ASSUME PlaceInv, \A l \in held : Coming(l)' => Coming(l),
           UNCHANGED <<status, queue, busy, lost, grant, held, leaseByRun, stored, admitted,
                       finishing>>
    PROVE  PlaceInv'
<1>1. \A r \in Runs : Placed(r)'
    BY DEF PlaceInv, Placed, LockFree
<1>2. HeldOK'
    BY DEF PlaceInv, HeldOK, RunOf
<1>3. QED  BY <1>1, <1>2 DEF PlaceInv

\* A run that is not leased is moved: the queue, its status, its lock.
LEMMA MovingOne ==
    ASSUME PlaceInv, SchedulerOK, BooksOK, LastWords, NEW r \in Runs, leaseByRun[r] = None,
           UNCHANGED <<grant, held, leaseByRun, claiming, stored, admitted, finishing,
                       toHost, toWorker>>,
           \A q \in Runs : q # r => /\ status'[q] = status[q] /\ busy'[q] = busy[q]
                                    /\ Contains(queue', q) <=> Contains(queue, q),
           lost' \subseteq lost, \A x \in lost \ lost' : x.run = r,
           busy'[r] # Free => \A x \in lost' : x.run # r,
           IsInjective(queue'), Placed(r)'
    PROVE  PlaceInv'
<1>1. ASSUME NEW q \in Runs, q # r PROVE Placed(q)'
  <2>1. Placed(q)
    BY DEF PlaceInv
  <2>2. LockFree(q)' <=> LockFree(q)
    BY <1>1 DEF LockFree
  <2>3. QED  BY <1>1, <2>1, <2>2 DEF Placed
<1>2. ASSUME NEW x \in lost'
      PROVE  busy'[x.run] = Free /\ \A y \in lost' : x.run = y.run => x = y
  <2>1. x.run \in Runs
    BY DEF SchedulerOK
  <2>2. QED  BY <2>1 DEF PlaceInv
<1>3. HeldOK'
  <2>0. HeldOK
    BY DEF PlaceInv
  <2>1. ASSUME NEW l \in held PROVE RunOf(l) \in Runs /\ RunOf(l) # r
    BY <2>0, HeldByRun
  <2>2. ASSUME NEW l PROVE Coming(l)' => Coming(l)
    BY DEF Coming, Unsent, Refused
  <2>3. \A l \in finishing : l \in held
    BY <2>0, FinishingIsHeld
  <2>4. ASSUME NEW l \in held PROVE status'[RunOf(l)] = status[RunOf(l)] /\ RunOf(l)' = RunOf(l)
    BY <2>1 DEF RunOf
  <2>5. QED  BY <2>0, <2>2, <2>3, <2>4 DEF HeldOK, RunOf
<1>4. \A q \in Runs : Placed(q)'
    BY <1>1
<1>5. QED  BY <1>2, <1>3, <1>4 DEF PlaceInv

\* What the scheduler and its commands do with a run that is not leased.
LEMMA SchedulingKeepsPlaces ==
    ASSUME OwnershipInv, PlaceInv, NEW r \in Runs,
           SchedulerStep(r) \/ Retry(r) \/ FollowUp(r),
           Retry(r) \/ FollowUp(r) \/ Resume(r) => leaseByRun[r] = None
    PROVE  PlaceInv'
<1>0. /\ SchedulerOK /\ BooksOK /\ LastWords /\ Placed(r) /\ IsInjective(queue)
      /\ queue \in Seq(Runs) /\ status \in [Runs -> Statuses] /\ DOMAIN busy = Runs
    BY DEF OwnershipInv, PlaceInv, SchedulerOK
<1>1. /\ UNCHANGED <<grant, held, leaseByRun, claiming, stored, admitted, finishing,
                     toHost, toWorker, lost>>
    BY DEF SchedulerStep, Enqueue, Adopt, Requeue, JoinQueue, FollowUpGranted, FollowUpRefused,
           Resume, Retry, FollowUp, StartOver, bookVars, reportVars, wireVars
<1>2. \A q \in Runs : q # r => status'[q] = status[q] /\ busy'[q] = busy[q]
  <2>1. status' = status \/ \E s : status' = [status EXCEPT ![r] = s]
    BY DEF SchedulerStep, Enqueue, Adopt, Requeue, JoinQueue, FollowUpGranted, FollowUpRefused,
           Resume, Retry, FollowUp, StartOver, storeVars
  <2>2. \/ busy' = busy
        \/ busy' = [busy EXCEPT ![r] = Free]
        \/ busy' = [busy EXCEPT ![r] = Busy("requeueing", busy[r].by)]
        \/ \E op : busy' = [busy EXCEPT ![r] = Busy(op, None)]
    BY DEF SchedulerStep, Enqueue, Adopt, Requeue, JoinQueue, FollowUpGranted, FollowUpRefused,
           Resume, Retry, FollowUp, StartOver
  <2>3. \A q \in Runs : q # r => status'[q] = status[q]
    BY <1>0, <2>1
  <2>4. \A q \in Runs : q # r => busy'[q] = busy[q]
    BY <1>0, <2>2
  <2>5. QED  BY <2>3, <2>4
<1>3. Free.op = "free" /\ \A o, l : Busy(o, l).op = o
    BY DEF Free, Busy
<1>4. ASSUME leaseByRun[r] = None, busy'[r] # Free => \A x \in lost : x.run # r,
             IsInjective(queue'), Placed(r)',
             \A q \in Runs : q # r => (Contains(queue', q) <=> Contains(queue, q))
      PROVE  PlaceInv'
    BY <1>0, <1>1, <1>2, <1>4, MovingOne
<1>5. ASSUME Enqueue(r) PROVE PlaceInv'
  <2>1. status[r] = "new" /\ status'[r] = "queued" /\ queue' = Append(queue, r) /\ UNCHANGED busy
    BY <1>0, <1>5 DEF Enqueue
  <2>2. ~Contains(queue, r) /\ leaseByRun[r] = None /\ LockFree(r)
    BY <1>0, <2>1 DEF Placed
  <2>3. IsInjective(queue') /\ \A q : Contains(queue', q) <=> Contains(queue, q) \/ q = r
    BY <1>0, <2>1, <2>2, ListingOne
  <2>4. LockFree(r)'
    BY <1>1, <2>1, <2>2 DEF LockFree
  <2>5. busy'[r] = Free
    BY <2>4 DEF LockFree
  <2>6. Placed(r)'
    BY <1>1, <1>3, <2>1, <2>2, <2>3, <2>4, <2>5 DEF Placed
  <2>7. QED  BY <1>4, <2>2, <2>3, <2>5, <2>6
<1>6. ASSUME Adopt(r) PROVE PlaceInv'
  <2>1. busy[r].op = "adopting" /\ status'[r] = "completed" /\ busy'[r] = Free /\ UNCHANGED queue
    BY <1>0, <1>6 DEF Adopt
  <2>2. ~LockFree(r) /\ ~Contains(queue, r) /\ leaseByRun[r] = None
    BY <1>0, <1>3, <2>1 DEF Placed, LockFree
  <2>3. Placed(r)'
    BY <1>1, <1>3, <2>1, <2>2 DEF Placed
  <2>4. QED  BY <1>0, <1>4, <2>1, <2>2, <2>3
<1>7. ASSUME NEW b, b \in {"returning", "requeueing", "checking"}, NEW l, busy'[r] = Busy(b, l),
             UNCHANGED queue, ~Contains(queue, r), leaseByRun[r] = None, \A x \in lost : x.run # r,
             b = "requeueing" => status'[r] = "queued",
             b = "checking" => status'[r] \in Terminal, status'[r] # "new"
      PROVE  PlaceInv'
  <2>1. busy'[r].op = b /\ busy'[r] # Free
    BY <1>3, <1>7
  <2>2. ~LockFree(r)'
    BY <2>1 DEF LockFree
  <2>3. Placed(r)'
    BY <1>1, <1>7, <2>1, <2>2 DEF Placed
  <2>4. QED  BY <1>0, <1>4, <1>7, <2>3
<1>8. ASSUME busy[r] # Free PROVE \A x \in lost : x.run # r
    BY <1>8 DEF PlaceInv
<1>9. ASSUME Requeue(r) \/ FollowUpGranted(r) PROVE PlaceInv'
  <2>1. /\ busy[r].op \in {"adopting", "returning", "checking"} /\ status'[r] = "queued"
        /\ UNCHANGED queue /\ \E l : busy'[r] = Busy("requeueing", l)
    BY <1>0, <1>9 DEF Requeue, FollowUpGranted
  <2>2. busy[r] # Free
    BY <1>3, <2>1
  <2>3. ~LockFree(r) /\ ~Contains(queue, r) /\ leaseByRun[r] = None
    BY <1>0, <2>2 DEF Placed, LockFree
  <2>4. QED  BY <1>7, <1>8, <2>1, <2>2, <2>3
<1>10. ASSUME JoinQueue(r) PROVE PlaceInv'
  <2>1. /\ busy[r].op = "requeueing" /\ UNCHANGED status /\ busy'[r] = Free
        /\ queue' = IF Contains(queue, r) THEN queue ELSE Append(queue, r)
    BY <1>0, <1>10 DEF JoinQueue, storeVars
  <2>2. busy[r] # Free
    BY <1>3, <2>1
  <2>3. ~LockFree(r) /\ ~Contains(queue, r) /\ leaseByRun[r] = None /\ status[r] = "queued"
    BY <1>0, <2>1, <2>2 DEF Placed, LockFree
  <2>4. IsInjective(queue') /\ \A q : Contains(queue', q) <=> Contains(queue, q) \/ q = r
    BY <1>0, <2>1, <2>3, ListingOne
  <2>5. LockFree(r)'
    BY <1>1, <1>8, <2>1, <2>2 DEF LockFree
  <2>6. Placed(r)'
    BY <1>1, <1>3, <2>1, <2>3, <2>4, <2>5 DEF Placed
  <2>7. QED  BY <1>4, <2>1, <2>3, <2>4, <2>6
<1>11. ASSUME FollowUpRefused(r) PROVE PlaceInv'
  <2>1. busy[r].op = "checking" /\ UNCHANGED <<status, queue>> /\ busy'[r] = Free
    BY <1>0, <1>11 DEF FollowUpRefused, storeVars
  <2>2. busy[r] # Free
    BY <1>3, <2>1
  <2>3. ~LockFree(r) /\ ~Contains(queue, r) /\ leaseByRun[r] = None /\ status[r] \in Terminal
    BY <1>0, <2>1, <2>2 DEF Placed, LockFree
  <2>4. status'[r] \notin {"new", "queued", "active"}
    BY <2>1, <2>3 DEF Terminal
  <2>5. Placed(r)'
    BY <1>1, <1>3, <2>1, <2>3, <2>4 DEF Placed
  <2>6. QED  BY <1>0, <1>4, <2>1, <2>3, <2>5
<1>12. ASSUME Resume(r) \/ Retry(r) \/ FollowUp(r) PROVE PlaceInv'
  <2>1. LockFree(r) /\ leaseByRun[r] = None /\ UNCHANGED <<status, queue>>
    BY <1>12 DEF Resume, Retry, FollowUp, StartOver, storeVars
  <2>2. status[r] \notin {"new", "queued"}
    BY <1>12 DEF Resume, Retry, FollowUp, Terminal
  <2>3. ~Contains(queue, r) /\ \A x \in lost : x.run # r
    BY <1>0, <2>1, <2>2 DEF Placed, LockFree
  <2>4. CASE FollowUp(r)
    <3>1. busy'[r] = Busy("checking", None) /\ status[r] \in Terminal
      BY <1>0, <2>4 DEF FollowUp
    <3>2. QED  BY <1>7, <2>1, <2>2, <2>3, <3>1
  <2>5. CASE Resume(r) \/ Retry(r)
    <3>1. busy'[r] = Busy("returning", None)
      BY <1>0, <2>5 DEF Resume, Retry, StartOver
    <3>2. QED  BY <1>7, <2>1, <2>2, <2>3, <3>1
  <2>6. QED  BY <1>12, <2>4, <2>5
<1>13. QED  BY <1>5, <1>6, <1>9, <1>10, <1>11, <1>12 DEF SchedulerStep

\* A cancel takes a run out of the queue, or leaves it where it is.
LEMMA CancelKeepsPlaces ==
    ASSUME OwnershipInv, PlaceInv, Next, NEW r \in Runs, Cancel(r) PROVE PlaceInv'
<1>0. /\ SchedulerOK /\ BooksOK /\ LastWords /\ Placed(r) /\ IsInjective(queue) /\ HeldOK
      /\ queue \in Seq(Runs) /\ status \in [Runs -> Statuses]
    BY DEF OwnershipInv, PlaceInv, SchedulerOK
<1>1. /\ UNCHANGED <<grant, held, leaseByRun, claiming, stored, admitted, finishing, toHost,
                     busy, lost>>
      /\ LockFree(r)
    BY DEF Cancel, reportVars
<1>2. CASE CancelHere(r)
  <2>1. UNCHANGED toWorker /\ status' = [status EXCEPT ![r] = "cancelled"]
    BY <1>2 DEF CancelHere
  <2>2. \/ status[r] = "queued" /\ Contains(queue, r) /\ queue' = Dequeued(r)
        \/ ~(status[r] = "queued" /\ Contains(queue, r)) /\ queue' = queue
    BY <1>2 DEF CancelHere
  <2>3. IsInjective(queue') /\ \A q : Contains(queue', q) <=> Contains(queue, q) /\ q # r
    <3>1. CASE Contains(queue, r) /\ queue' = Dequeued(r)
      BY <1>0, <3>1, TakingOut
    <3>2. CASE ~Contains(queue, r) /\ queue' = queue
      BY <1>0, <3>2
    <3>3. QED  BY <1>0, <2>2, <3>1, <3>2 DEF Placed
  <2>4. status'[r] = "cancelled" /\ \A q \in Runs : q # r => status'[q] = status[q]
    BY <1>0, <2>1
  <2>5. LockFree(r)' /\ busy[r] = Free /\ \A x \in lost : x.run # r
    BY <1>1 DEF LockFree
  <2>6. Free.op = "free"
    BY DEF Free
  <2>7. Placed(r)'
    BY <1>1, <2>3, <2>4, <2>5, <2>6 DEF Placed
  <2>8. CASE leaseByRun[r] = None
    BY <1>0, <1>1, <2>1, <2>3, <2>4, <2>5, <2>7, <2>8, MovingOne
  <2>9. CASE leaseByRun[r] # None
    <3>1. status[r] = "waiting"
      BY <1>0, <1>2, <2>9 DEF CancelHere, Placed
    <3>2. HeldOK'
      <4>1. ASSUME NEW l PROVE Coming(l)' => Coming(l)
        BY <1>1, <2>1 DEF Coming, Unsent, Refused
      <4>2. ASSUME NEW l \in held PROVE Coming(l)' => status'[RunOf(l)] = "queued"
        <5>1. Coming(l)' => status[RunOf(l)] = "queued"
          BY <1>0, <4>1 DEF HeldOK
        <5>2. RunOf(l) \in Runs
          BY <1>0, Granted
        <5>3. QED  BY <2>4, <3>1, <5>1, <5>2
      <4>3. ASSUME NEW l \in finishing PROVE status'[RunOf(l)] \in Terminal \cup {"waiting"}
        <5>1. RunOf(l) \in Runs /\ status[RunOf(l)] \in Terminal \cup {"waiting"}
          BY <1>0, Granted DEF HeldOK
        <5>2. "cancelled" \in Terminal
          BY DEF Terminal
        <5>3. QED  BY <2>4, <5>1, <5>2
      <4>4. \A l : RunOf(l)' = RunOf(l)
        BY <1>1 DEF RunOf
      <4>5. QED  BY <1>0, <1>1, <4>2, <4>3, <4>4 DEF HeldOK
    <3>3. ASSUME NEW q \in Runs, q # r PROVE Placed(q)'
      <4>1. Placed(q)
        BY DEF PlaceInv
      <4>2. LockFree(q)' <=> LockFree(q)
        BY <1>1 DEF LockFree
      <4>3. QED  BY <1>1, <2>3, <2>4, <3>3, <4>1, <4>2 DEF Placed
    <3>4. QED  BY <1>1, <2>3, <2>7, <3>2, <3>3 DEF PlaceInv
  <2>10. QED  BY <2>8, <2>9
<1>3. CASE CancelOnWorker(r)
  <2>1. UNCHANGED <<status, queue>>
    BY <1>3 DEF CancelOnWorker
  <2>2. ASSUME NEW l \in held PROVE Coming(l)' => Coming(l)
    <3>1. l \in Leases /\ claiming' = claiming
      BY <1>0, <1>1, Granted
    <3>2. QED  BY <3>1, ComingStays
  <2>3. QED  BY <1>1, <2>1, <2>2, PlacesStay
<1>4. QED  BY <1>2, <1>3 DEF Cancel

\* An interruption is taken up by its run's lock, or over.
LEMMA InterruptKeepsPlaces ==
    ASSUME OwnershipInv, PlaceInv, NEW x \in lost, BeginInterrupt(x) PROVE PlaceInv'
<1> DEFINE r == x.run
<1>0. /\ SchedulerOK /\ BooksOK /\ LastWords /\ IsInjective(queue) /\ DOMAIN busy = Runs
    BY DEF OwnershipInv, PlaceInv, SchedulerOK
<1>1. r \in Runs
    BY <1>0 DEF SchedulerOK
<1>2. Placed(r)
    BY <1>1 DEF PlaceInv
<1>3. ~LockFree(r) /\ busy[r] = Free /\ leaseByRun[r] = None /\ ~Contains(queue, r)
      /\ status[r] # "new"
    BY <1>2 DEF LockFree, Placed, PlaceInv
<1>4. /\ UNCHANGED <<grant, held, leaseByRun, claiming, stored, admitted, finishing, toHost,
                     toWorker, status, queue>>
      /\ lost' = lost \ {x}
    BY DEF BeginInterrupt, bookVars, reportVars, wireVars, storeVars
<1>5. \A y \in lost' : y.run # r
    BY <1>4 DEF PlaceInv
<1>6. CASE status[r] \in Terminal
  <2>1. UNCHANGED busy
    BY <1>6 DEF BeginInterrupt
  <2>2. Free.op = "free"
    BY DEF Free
  <2>3. status[r] \notin {"queued", "active"}
    BY <1>6 DEF Terminal
  <2>4. Placed(r)'
    BY <1>3, <1>4, <2>1, <2>2, <2>3 DEF Placed
  <2>5. QED  BY <1>0, <1>1, <1>3, <1>4, <1>5, <2>1, <2>4, MovingOne
<1>7. CASE status[r] \notin Terminal
  <2>1. PICK op \in {"adopting", "returning"} : busy' = [busy EXCEPT ![r] = Busy(op, x.by)]
    BY <1>7 DEF BeginInterrupt
  <2>2. busy'[r].op = op /\ \A q \in Runs : q # r => busy'[q] = busy[q]
    BY <1>0, <1>1, <2>1 DEF Busy
  <2>3. busy'[r] # Free
    BY <2>2 DEF Free
  <2>4. ~LockFree(r)'
    BY <2>3 DEF LockFree
  <2>5. Placed(r)'
    BY <1>3, <1>4, <2>2, <2>4 DEF Placed
  <2>6. QED  BY <1>0, <1>1, <1>3, <1>4, <1>5, <2>2, <2>5, MovingOne
<1>8. QED  BY <1>6, <1>7

\* The first run of the queue becomes a lease's.
LEMMA DispatchKeepsPlaces ==
    ASSUME OwnershipInv, PlaceInv, DispatchQueued PROVE PlaceInv'
<1>0. /\ SchedulerOK /\ BooksOK /\ LastWords /\ IsInjective(queue) /\ HeldOK
      /\ queue \in Seq(Runs)
    BY DEF OwnershipInv, PlaceInv, SchedulerOK
<1>1. UNCHANGED <<status, busy, lost, admitted, finishing, toHost, toWorker, running, aborted,
                  claimed>>
    BY DEF DispatchQueued, storeVars, reportVars, wireVars, workerVars
<1>2. CASE DispatchBlocked
  <2>1. UNCHANGED <<queue, grant, held, leaseByRun, claiming, stored>>
    BY <1>2 DEF DispatchBlocked, bookVars
  <2>2. \A l : Coming(l)' => Coming(l)
    BY <1>1, <2>1 DEF Coming, Unsent, Refused
  <2>3. QED  BY <1>1, <2>1, <2>2, PlacesStay
<1>3. CASE DispatchHead
  <2>0. PICK r : r = Head(queue)
    OBVIOUS
  <2>1. /\ queue # <<>> /\ queue' = Tail(queue) /\ r \in Runs
        /\ status[r] = "queued" => \E l \in Unused, w \in Placements : Issue(l, w, r)
    BY <1>0, <1>3, <2>0 DEF DispatchHead
  <2>2. /\ Contains(queue, r) /\ IsInjective(queue')
        /\ \A q : Contains(queue', q) <=> Contains(queue, q) /\ q # r
    BY <1>0, <2>0, <2>1, TakingTheFirst
  <2>3. Placed(r)
    BY <2>1 DEF PlaceInv
  <2>4. status[r] = "queued" /\ leaseByRun[r] = None /\ LockFree(r)
    BY <2>2, <2>3 DEF Placed
  <2>5. PICK l \in Unused, w \in Placements : Issue(l, w, r)
    BY <2>1, <2>4
  <2>6. /\ l \in Leases /\ RunOf(l)' = r /\ l # None /\ l \notin held /\ l \notin finishing
        /\ \A m \in Leases : m # l => grant'[m] = grant[m]
    BY <1>0, <1>1, <2>1, <2>5, IssueKeepsBooks, DispatchAssumption DEF Unused
  <2>7. /\ held' = held \cup {l} /\ leaseByRun' = [leaseByRun EXCEPT ![r] = l]
        /\ claiming' = claiming \cup {l} /\ stored' = stored \cup {l}
    BY <2>5 DEF Issue
  <2>8. leaseByRun'[r] = l /\ \A q \in Runs : q # r => leaseByRun'[q] = leaseByRun[q]
    <3>1. DOMAIN leaseByRun = Runs
      BY DEF OwnershipInv, RecordInv
    <3>2. QED  BY <2>1, <2>7, <3>1
  <2>9. \A q : LockFree(q)' <=> LockFree(q)
    BY <1>1 DEF LockFree
  <2>10. busy[r] = Free /\ Free.op = "free"
    BY <2>4 DEF LockFree, Free
  <2>11. Placed(r)'
    BY <1>1, <2>2, <2>4, <2>6, <2>8, <2>9, <2>10 DEF Placed
  <2>12. ASSUME NEW q \in Runs, q # r PROVE Placed(q)'
    <3>1. Placed(q)
      BY DEF PlaceInv
    <3>2. QED  BY <1>1, <2>2, <2>8, <2>9, <2>12, <3>1 DEF Placed
  <2>13. ASSUME NEW m \in held
         PROVE  /\ RunOf(m)' = RunOf(m) /\ leaseByRun'[RunOf(m)] = m
                /\ Coming(m)' => status'[RunOf(m)] = "queued"
    <3>1. m # l /\ RunOf(m) \in Runs /\ leaseByRun[RunOf(m)] = m /\ m \in Leases /\ m # None
      BY <1>0, <2>6, HeldByRun
    <3>2. RunOf(m)' = RunOf(m)
      BY <2>6, <3>1 DEF RunOf
    <3>3. leaseByRun'[RunOf(m)] = m
      BY <2>4, <2>8, <3>1
    <3>4. Coming(m)' => Coming(m)
      BY <1>1, <2>7, <3>1 DEF Coming, Unsent, Refused
    <3>5. QED  BY <1>0, <1>1, <3>2, <3>3, <3>4 DEF HeldOK
  <2>14. ASSUME NEW m \in finishing PROVE RunOf(m)' = RunOf(m)
    BY <2>6, <2>14, <1>0 DEF RunOf, BooksOK
  <2>15. HeldOK'
    <3>1. stored' \subseteq held' /\ \A m \in Leases : admitted'[m] > 0 => m \in held'
      BY <1>0, <1>1, <2>7 DEF HeldOK
    <3>2. \A m \in finishing' : status'[RunOf(m)'] \in Terminal \cup {"waiting"}
      BY <1>0, <1>1, <2>14 DEF HeldOK
    <3>3. \A m \in held' : leaseByRun'[RunOf(m)'] = m
                           /\ (Coming(m)' => status'[RunOf(m)'] = "queued")
      BY <1>1, <2>4, <2>6, <2>7, <2>8, <2>13
    <3>4. QED  BY <3>1, <3>2, <3>3 DEF HeldOK, RunOf
  <2>16. \A q \in Runs : Placed(q)'
    BY <2>11, <2>12
  <2>17. QED  BY <1>1, <2>2, <2>15, <2>16 DEF PlaceInv
<1>4. QED  BY <1>2, <1>3 DEF DispatchQueued

\* What is on its way has been begun by nobody, and reported on by nobody.
LEMMA ComingIsFresh ==
    ASSUME OwnershipInv, NEW l \in Leases, Coming(l)
    PROVE  Fresh(l) /\ admitted[l] = 0 /\ l \notin finishing
<1>0. BuffersOK /\ BegunOnce /\ LastWords
    BY DEF OwnershipInv
<1>1. Fresh(l)
    BY <1>0 DEF Coming, BegunOnce
<1>2. admitted[l] = 0
  <2>1. admitted[l] \in Nat /\ admitted[l] <= Len(<<>>)
    BY <1>0, <1>1 DEF BuffersOK, Fresh
  <2>2. Len(<<>>) = 0
    OBVIOUS
  <2>3. QED  BY <2>1, <2>2
<1>3. ~(admitted[l] > 0)
    BY <1>2
<1>4. QED  BY <1>0, <1>1, <1>2, <1>3 DEF LastWords

\* The run of a held lease is nowhere else, and in no place once that is settled.
LEMMA RunOfHeld ==
    ASSUME OwnershipInv, PlaceInv, NEW l \in held
    PROVE  /\ RunOf(l) \in Runs /\ LockFree(RunOf(l)) /\ busy[RunOf(l)] = Free
           /\ \A x \in lost : x.run # RunOf(l)
           /\ ~Contains(queue, RunOf(l)) /\ status[RunOf(l)] # "new"
           /\ \A S : Settle(S) /\ l \in S => leaseByRun'[RunOf(l)] = None
<1>0. BooksOK /\ HeldOK
    BY DEF OwnershipInv, PlaceInv
<1>1. RunOf(l) \in Runs /\ leaseByRun[RunOf(l)] = l /\ l # None
    BY <1>0, HeldByRun
<1>2. Placed(RunOf(l))
    BY <1>1 DEF PlaceInv
<1>3. QED  BY <1>1, <1>2 DEF Placed, LockFree, Settle

\* Leases are settled: their runs are left somewhere else.
LEMMA SettlingKeepsPlaces ==
    ASSUME OwnershipInv, PlaceInv, NEW S \in SUBSET held, Settle(S),
           \A l \in held : Coming(l)' => Coming(l), UNCHANGED <<grant, status, busy>>,
           finishing' \subseteq finishing,
           \A l \in Leases : admitted'[l] > 0 => admitted[l] > 0 /\ l \notin S,
           IsInjective(queue'),
           \A q \in Runs : (\A l \in S : RunOf(l) # q) =>
                /\ Contains(queue', q) <=> Contains(queue, q)
                /\ LockFree(q)' <=> LockFree(q),
           \A x \in lost' : busy[x.run] = Free /\ \A y \in lost' : x.run = y.run => x = y,
           \A q \in Runs : (\E l \in S : RunOf(l) = q) => Placed(q)'
    PROVE  PlaceInv'
<1>0. BooksOK /\ HeldOK
    BY DEF OwnershipInv, PlaceInv
<1>1. /\ held' = held \ S /\ stored' = stored \ S
      /\ leaseByRun' = [r \in Runs |-> IF leaseByRun[r] \in S THEN None ELSE leaseByRun[r]]
    BY DEF Settle
<1>2. ASSUME NEW q \in Runs, \A l \in S : RunOf(l) # q PROVE Placed(q)'
  <2>1. leaseByRun[q] \notin S
    BY <1>0, <1>2, DispatchAssumption DEF BooksOK
  <2>2. leaseByRun'[q] = leaseByRun[q]
    BY <1>1, <2>1
  <2>3. Placed(q)
    BY DEF PlaceInv
  <2>4. QED  BY <1>2, <2>2, <2>3 DEF Placed
<1>3. \A q \in Runs : Placed(q)'
    BY <1>2
<1>4. HeldOK'
  <2>1. stored' \subseteq held'
    BY <1>0, <1>1 DEF HeldOK
  <2>2. ASSUME NEW l \in held' PROVE leaseByRun'[RunOf(l)] = l
    <3>1. RunOf(l) \in Runs /\ leaseByRun[RunOf(l)] = l
      BY <1>0, <1>1, HeldByRun
    <3>2. QED  BY <1>1, <3>1
  <2>3. ASSUME NEW l \in held' PROVE Coming(l)' => status'[RunOf(l)] = "queued"
    BY <1>0, <1>1 DEF HeldOK
  <2>4. \A l : RunOf(l)' = RunOf(l)
    BY DEF RunOf
  <2>5. \A l \in Leases : admitted'[l] > 0 => l \in held'
    BY <1>0, <1>1 DEF HeldOK
  <2>6. \A l \in finishing' : status'[RunOf(l)] \in Terminal \cup {"waiting"}
    BY <1>0 DEF HeldOK
  <2>7. QED  BY <2>1, <2>2, <2>3, <2>4, <2>5, <2>6 DEF HeldOK
<1>5. QED  BY <1>3, <1>4 DEF PlaceInv

\* Leases expire: each run that is not over is left to an interruption.
LEMMA ExpiringKeepsPlaces ==
    ASSUME OwnershipInv, PlaceInv, NEW S \in SUBSET held, Settle(S),
           lost' = lost \cup Interruptions(S),
           \A l \in held : Coming(l)' => Coming(l),
           UNCHANGED <<grant, status, busy, queue, admitted, finishing>>,
           \A l \in S : admitted[l] = 0
    PROVE  PlaceInv'
<1>0. BooksOK /\ HeldOK
    BY DEF OwnershipInv, PlaceInv
<1>1. \A x \in Interruptions(S) : \E l \in S :
        /\ x = [run |-> RunOf(l), kind |-> grant[l].kind, by |-> l]
        /\ x.run = RunOf(l) /\ status[RunOf(l)] \notin Terminal
    BY DEF Interruptions
<1>2. \A l \in S : status[RunOf(l)] \notin Terminal => \E x \in Interruptions(S) : x.run = RunOf(l)
  <2>1. ASSUME NEW l \in S, status[RunOf(l)] \notin Terminal
        PROVE  \E x \in Interruptions(S) : x.run = RunOf(l)
    <3>1. [run |-> RunOf(l), kind |-> grant[l].kind, by |-> l] \in Interruptions(S)
      BY <2>1 DEF Interruptions
    <3>2. QED  BY <3>1
  <2>2. QED  BY <2>1
<1>3. ASSUME NEW q \in Runs, \A l \in S : RunOf(l) # q PROVE LockFree(q)' <=> LockFree(q)
    BY <1>1, <1>3 DEF LockFree
<1>4. ASSUME NEW x \in lost', NEW y \in lost', x.run = y.run PROVE x = y
  <2>1. CASE x \in lost /\ y \in lost
    BY <1>4, <2>1 DEF PlaceInv
  <2>2. CASE x \in Interruptions(S) /\ y \in Interruptions(S)
    BY <1>0, <1>1, <1>4, <2>2, HeldByRun
  <2>3. ASSUME NEW l \in S, NEW z \in lost, z.run = RunOf(l) PROVE FALSE
    BY <2>3, RunOfHeld
  <2>4. QED  BY <1>1, <1>4, <2>1, <2>2, <2>3
<1>5. ASSUME NEW x \in lost' PROVE busy[x.run] = Free
  <2>1. CASE x \in lost
    BY <2>1 DEF PlaceInv
  <2>2. CASE x \in Interruptions(S)
    BY <1>1, <2>2, RunOfHeld
  <2>3. QED  BY <2>1, <2>2
<1>6. ASSUME NEW q \in Runs, NEW l \in S, RunOf(l) = q PROVE Placed(q)'
  <2>1. /\ LockFree(q) /\ busy[q] = Free /\ ~Contains(queue, q) /\ status[q] # "new"
        /\ leaseByRun'[q] = None
    BY <1>6, RunOfHeld
  <2>2. Free.op = "free"
    BY DEF Free
  <2>3. CASE status[q] \in Terminal
    <3>1. status[q] \notin {"queued", "active"}
      BY <2>3 DEF Terminal
    <3>2. QED  BY <2>1, <2>2, <3>1 DEF Placed
  <2>4. CASE status[q] \notin Terminal
    <3>1. ~LockFree(q)'
      BY <1>2, <1>6, <2>4 DEF LockFree
    <3>2. QED  BY <2>1, <2>2, <3>1 DEF Placed
  <2>5. QED  BY <2>3, <2>4
<1>7. IsInjective(queue')
    BY DEF PlaceInv
<1>8. \A l \in Leases : admitted'[l] > 0 => admitted[l] > 0 /\ l \notin S
    OBVIOUS
<1>9. QED  BY <1>3, <1>4, <1>5, <1>6, <1>7, <1>8, SettlingKeepsPlaces

\* A lease is refused, by its worker or by the disk: its run goes back to the
\* head of the queue.
LEMMA RejectingKeepsPlaces ==
    ASSUME OwnershipInv, PlaceInv, NEW l \in held, Coming(l), Settle({l}), Rejected(l),
           \A m \in held : Coming(m)' => Coming(m),
           UNCHANGED <<grant, status, busy, lost, admitted, finishing>>
    PROVE  PlaceInv'
<1>0. BooksOK /\ HeldOK /\ queue \in Seq(Runs) /\ IsInjective(queue)
    BY DEF OwnershipInv, PlaceInv, SchedulerOK
<1>1. PICK r : r = RunOf(l)
    OBVIOUS
<1>2. /\ r \in Runs /\ LockFree(r) /\ busy[r] = Free /\ ~Contains(queue, r)
      /\ leaseByRun'[r] = None
    BY <1>1, RunOfHeld
<1>3. status[r] = "queued"
    BY <1>0, <1>1 DEF HeldOK
<1>4. queue' = <<r>> \o queue
    BY <1>1, <1>2, <1>3 DEF Rejected
<1>5. IsInjective(queue') /\ \A q : Contains(queue', q) <=> Contains(queue, q) \/ q = r
    BY <1>0, <1>2, <1>4, ListingOne
<1>6. \A q : LockFree(q)' <=> LockFree(q)
    BY DEF LockFree
<1>7. Free.op = "free"
    BY DEF Free
<1>8. Placed(r)'
    BY <1>2, <1>3, <1>5, <1>6, <1>7 DEF Placed
<1>9. \A q \in Runs : (\A m \in {l} : RunOf(m) # q) =>
            /\ Contains(queue', q) <=> Contains(queue, q)
            /\ LockFree(q)' <=> LockFree(q)
    BY <1>1, <1>5, <1>6
<1>10. \A q \in Runs : (\E m \in {l} : RunOf(m) = q) => Placed(q)'
  <2>1. ASSUME NEW q \in Runs, RunOf(l) = q PROVE Placed(q)'
    BY <1>1, <1>8, <2>1
  <2>2. QED  BY <2>1
<1>11. \A m \in Leases : admitted'[m] > 0 => admitted[m] > 0 /\ m \notin {l}
  <2>1. l \in Leases /\ admitted[l] = 0
    BY <1>0, Granted, ComingIsFresh
  <2>2. ~(admitted[l] > 0)
    BY <2>1
  <2>3. QED  BY <2>2
<1>12. \A x \in lost' : busy[x.run] = Free /\ \A y \in lost' : x.run = y.run => x = y
    BY DEF PlaceInv
<1>13. QED  BY <1>5, <1>9, <1>10, <1>11, <1>12, SettlingKeepsPlaces

\* The refusals and failures of one lease.
LEMMA RefusalKeepsPlaces ==
    ASSUME OwnershipInv, PlaceInv, Next,
           \/ \E l \in held : ClaimFails(l)
           \/ \E w \in Workers : HandleRejected(w)
    PROVE  PlaceInv'
<1>0. BooksOK /\ HeldOK /\ SocketsOK
    BY DEF OwnershipInv, PlaceInv, RecordInv
<1>1. claiming' \subseteq claiming /\ UNCHANGED <<grant, status, busy, lost, admitted, finishing>>
    BY DEF ClaimFails, HandleRejected, storeVars, reportVars
<1>2. \A m \in held : Coming(m)' => Coming(m)
  <2>1. ASSUME NEW m \in held, Coming(m)' PROVE Coming(m)
    <3>1. m \in Leases
      BY <1>0, Granted
    <3>2. QED  BY <1>1, <2>1, <3>1, ComingStays
  <2>2. QED  BY <2>1
<1>3. ASSUME NEW l \in held, ClaimFails(l) PROVE PlaceInv'
  <2>1. Coming(l) /\ Settle({l}) /\ Rejected(l)
    BY <1>3 DEF ClaimFails, Coming
  <2>2. QED  BY <1>1, <1>2, <2>1, RejectingKeepsPlaces
<1>4. ASSUME NEW w \in Workers, HandleRejected(w) PROVE PlaceInv'
  <2>1. PICK f : f = Head(toHost[w])
    OBVIOUS
  <2>2. CASE f.lease \in HeldBy(w)
    <3>1. f.lease \in held /\ Settle({f.lease}) /\ Rejected(f.lease)
      BY <1>4, <2>1, <2>2 DEF HandleRejected, HeldBy
    <3>2. f = Msg("dispatch-rejected", f.lease) /\ f = toHost[w][1] /\ 1 \in DOMAIN toHost[w]
      <4>1. toHost[w] \in Seq(WorkerFrames) /\ toHost[w] # <<>> /\ f.type = "dispatch-rejected"
        BY <1>0, <1>4, <2>1 DEF HandleRejected, SocketsOK
      <4>2. f \in WorkerFrames /\ f = toHost[w][1] /\ 1 \in DOMAIN toHost[w]
        BY <2>1, <4>1
      <4>3. QED  BY <4>1, <4>2 DEF WorkerFrames, Msg
    <3>3. Coming(f.lease)
      BY <3>2 DEF Coming, Refused
    <3>4. QED  BY <1>1, <1>2, <3>1, <3>3, RejectingKeepsPlaces
  <2>3. CASE f.lease \notin HeldBy(w)
    <3>1. UNCHANGED <<held, leaseByRun, stored, queue>>
      BY <1>4, <2>1, <2>3 DEF HandleRejected
    <3>2. QED  BY <1>1, <1>2, <3>1, PlacesStay
  <2>4. QED  BY <2>2, <2>3
<1>5. QED  BY <1>3, <1>4

\* A completion is acknowledged: the lease is given back, its run is over or
\* waits.
LEMMA FinishingKeepsPlaces ==
    ASSUME OwnershipInv, PlaceInv, Next, NEW l \in Leases, FinishCompletion(l) PROVE PlaceInv'
<1>0. BooksOK /\ HeldOK /\ LastWords /\ BuffersOK /\ IsInjective(queue)
    BY DEF OwnershipInv, PlaceInv
<1>1. l \in finishing /\ l \in held
    BY <1>0, FinishingIsHeld DEF FinishCompletion
<1>2. /\ Settle({l}) /\ finishing' = finishing \ {l}
      /\ admitted' = [admitted EXCEPT ![l] = @ - 1]
      /\ UNCHANGED <<grant, status, busy, lost, queue, claiming>>
    BY <1>1 DEF FinishCompletion, Landed, storeVars
<1>3. \A m \in held : Coming(m)' => Coming(m)
  <2>1. ASSUME NEW m \in held, Coming(m)' PROVE Coming(m)
    <3>1. m \in Leases
      BY <1>0, Granted
    <3>2. QED  BY <1>2, <2>1, <3>1, ComingStays
  <2>2. QED  BY <2>1
<1>4. \A m \in Leases : admitted'[m] > 0 => admitted[m] > 0 /\ m \notin {l}
  <2>1. admitted \in [Leases -> Nat] /\ admitted[l] <= Len(reports[l])
    BY <1>0 DEF BuffersOK
  <2>2. reports[l] \in Seq(Reports) /\ reports[l] # <<>> /\ admitted[l] > 0
        /\ Head(reports[l]).type = "run-complete"
    BY <1>0, <1>1, AdmittedAre DEF LastWords, BuffersOK
  <2>3. 1 \in DOMAIN reports[l] /\ reports[l][1] = Head(reports[l])
    BY <2>2
  <2>4. Len(reports[l]) = 1
    BY <1>0, <2>2, <2>3 DEF LastWords
  <2>5. admitted[l] = 1
    BY <2>1, <2>2, <2>4
  <2>6. admitted'[l] = 0 /\ \A m \in Leases : m # l => admitted'[m] = admitted[m]
    BY <1>2, <2>1, <2>5
  <2>7. ~(admitted'[l] > 0)
    BY <2>6
  <2>8. QED  BY <2>6, <2>7
<1>5. \A q : LockFree(q)' <=> LockFree(q)
    BY <1>2 DEF LockFree
<1>6. PICK r : r = RunOf(l)
    OBVIOUS
<1>7. /\ r \in Runs /\ LockFree(r) /\ busy[r] = Free /\ ~Contains(queue, r)
      /\ leaseByRun'[r] = None
    BY <1>1, <1>2, <1>6, RunOfHeld
<1>8. status[r] \notin {"queued", "active", "new"}
    BY <1>0, <1>1, <1>6 DEF HeldOK, Terminal
<1>9. Free.op = "free"
    BY DEF Free
<1>10. Placed(r)'
    BY <1>2, <1>5, <1>7, <1>8, <1>9 DEF Placed
<1>11. \A q \in Runs : (\E m \in {l} : RunOf(m) = q) => Placed(q)'
  <2>1. ASSUME NEW q \in Runs, RunOf(l) = q PROVE Placed(q)'
    BY <1>6, <1>10, <2>1
  <2>2. QED  BY <2>1
<1>12. \A q \in Runs : (\A m \in {l} : RunOf(m) # q) =>
            /\ Contains(queue', q) <=> Contains(queue, q)
            /\ LockFree(q)' <=> LockFree(q)
    BY <1>2, <1>5
<1>13. \A x \in lost' : busy[x.run] = Free /\ \A y \in lost' : x.run = y.run => x = y
    BY <1>2 DEF PlaceInv
<1>14. finishing' \subseteq finishing /\ IsInjective(queue')
    BY <1>0, <1>2
<1>15. QED  BY <1>1, <1>2, <1>3, <1>4, <1>11, <1>12, <1>13, <1>14, SettlingKeepsPlaces

\* Leases expire, at their worker's registration or without it.
LEMMA ExpiriesKeepPlaces ==
    ASSUME OwnershipInv, PlaceInv, Next, Orderly,
           \/ \E l \in Leases : ExpireLease(l)
           \/ \E w \in Workers : HandleRegister(w)
    PROVE  PlaceInv'
<1>0. BooksOK
    BY DEF OwnershipInv
<1>1. UNCHANGED <<grant, status, busy, queue, admitted, finishing, claiming>>
    BY DEF ExpireLease, HandleRegister, storeVars, reportVars
<1>2. \A m \in held : Coming(m)' => Coming(m)
  <2>1. ASSUME NEW m \in held, Coming(m)' PROVE Coming(m)
    <3>1. m \in Leases
      BY <1>0, Granted
    <3>2. QED  BY <1>1, <2>1, <3>1, ComingStays
  <2>2. QED  BY <2>1
<1>3. ASSUME NEW l \in Leases, ExpireLease(l) PROVE PlaceInv'
  <2>1. /\ {l} \in SUBSET held /\ Settle({l}) /\ lost' = lost \cup Interruptions({l})
        /\ \A m \in {l} : admitted[m] = 0
    BY <1>3 DEF ExpireLease
  <2>2. QED  BY <1>1, <1>2, <2>1, ExpiringKeepsPlaces
<1>4. ASSUME NEW w \in Workers, HandleRegister(w) PROVE PlaceInv'
  <2>1. PICK S : S = Unclaimed(w, Head(toHost[w]).leases)
    OBVIOUS
  <2>2. S \in SUBSET held /\ Settle(S) /\ lost' = lost \cup Interruptions(S)
    BY <1>4, <2>1 DEF HandleRegister, Unclaimed, HeldBy
  <2>3. \A m \in S : admitted[m] = 0
    BY <1>4, <2>2 DEF Orderly, Settle
  <2>4. QED  BY <1>1, <1>2, <2>2, <2>3, ExpiringKeepsPlaces
<1>5. QED  BY <1>3, <1>4

\* A report moves the run of a lease the host holds, which is nowhere else.
LEMMA ReportsKeepPlaces ==
    ASSUME OwnershipInv, PlaceInv, Next, NEW l \in Leases,
           AdmitReport(l) \/ ApplyPatch(l) \/ ApplyRunComplete(l)
    PROVE  PlaceInv'
<1>0. /\ BooksOK /\ BuffersOK /\ HeldOK /\ IsInjective(queue)
      /\ status \in [Runs -> Statuses] /\ admitted \in [Leases -> Nat]
    BY DEF OwnershipInv, PlaceInv, SchedulerOK, BuffersOK
<1>1. UNCHANGED <<grant, queue, busy, lost, held, leaseByRun, claiming>>
    BY DEF AdmitReport, ApplyPatch, ApplyRunComplete, schedVars, bookVars
<1>2. \A m \in held : Coming(m)' => Coming(m)
  <2>1. ASSUME NEW m \in held, Coming(m)' PROVE Coming(m)
    <3>1. m \in Leases
      BY <1>0, Granted
    <3>2. QED  BY <1>1, <2>1, <3>1, ComingStays
  <2>2. QED  BY <2>1
<1>3. \A q : LockFree(q)' <=> LockFree(q)
    BY <1>1 DEF LockFree
<1>4. \A m : RunOf(m)' = RunOf(m)
    BY <1>1 DEF RunOf
<1>5. ASSUME AdmitReport(l) PROVE PlaceInv'
  <2>1. /\ l \in held /\ admitted' = [admitted EXCEPT ![l] = @ + 1]
        /\ UNCHANGED <<status, stored, finishing>>
    BY <1>5 DEF AdmitReport, storeVars, bookVars
  <2>2. \A m \in Leases : admitted'[m] > 0 => m \in held'
    BY <1>0, <1>1, <2>1 DEF HeldOK
  <2>3. HeldOK'
    BY <1>0, <1>1, <1>2, <1>4, <2>1, <2>2 DEF HeldOK
  <2>4. \A q \in Runs : Placed(q)'
    BY <1>1, <1>3, <2>1 DEF PlaceInv, Placed
  <2>5. QED  BY <1>1, <2>3, <2>4 DEF PlaceInv
<1>6. ASSUME ApplyPatch(l) \/ ApplyRunComplete(l) PROVE PlaceInv'
  <2>1. admitted[l] > 0 /\ l \notin finishing
    BY <1>6 DEF ApplyPatch, ApplyRunComplete
  <2>2. l \in held /\ reports[l] # <<>>
    BY <1>0, <2>1, AdmittedAre DEF HeldOK
  <2>3. PICK r : r = RunOf(l)
    OBVIOUS
  <2>4. /\ r \in Runs /\ LockFree(r) /\ busy[r] = Free /\ ~Contains(queue, r)
        /\ leaseByRun[r] = l /\ l # None
    BY <1>0, <2>2, <2>3, RunOfHeld, HeldByRun
  <2>5. PICK s : s = Head(reports[l]).status
    OBVIOUS
  <2>6. /\ s \in {"active", "waiting"} \cup Terminal
        /\ Head(reports[l]).type = "run-complete" => s \in {"waiting"} \cup Terminal
    BY <1>0, <2>2, <2>5, HeadReport DEF Reports
  <2>7. status' = [status EXCEPT ![r] = s]
    BY <1>6, <2>3, <2>5 DEF ApplyPatch, ApplyRunComplete
  <2>8. status'[r] = s /\ \A q \in Runs : q # r => status'[q] = status[q]
    BY <1>0, <2>4, <2>7
  <2>9. s # "new"
    BY <2>6 DEF Terminal
  <2>10. ASSUME NEW m \in held, m # l PROVE RunOf(m) \in Runs /\ RunOf(m) # r
    BY <1>0, <2>2, <2>3, <2>10, HeldByRun
  <2>11. ASSUME NEW m \in held, Coming(m)' PROVE status'[RunOf(m)] = "queued"
    <3>1. Coming(m) /\ m \in Leases
      BY <1>0, <1>2, <2>11, Granted
    <3>2. m # l
      <4>1. ASSUME m = l PROVE FALSE
        <5>1. admitted[l] = 0
          BY <3>1, <4>1, ComingIsFresh
        <5>2. QED  BY <2>1, <5>1
      <4>2. QED  BY <4>1
    <3>3. QED  BY <1>0, <2>8, <2>10, <3>1, <3>2 DEF HeldOK
  <2>12. /\ stored' \subseteq stored \cup {l} /\ \A m \in Leases : admitted'[m] > 0 => m \in held
    <3>1. CASE ApplyPatch(l)
      <4>1. stored' = stored \cup {l} /\ admitted' = [admitted EXCEPT ![l] = @ - 1]
        BY <3>1 DEF ApplyPatch, Landed
      <4>2. \A m \in Leases : m # l => admitted'[m] = admitted[m]
        BY <1>0, <4>1
      <4>3. QED  BY <1>0, <2>2, <4>1, <4>2 DEF HeldOK
    <3>2. CASE ApplyRunComplete(l)
      <4>1. stored' = stored /\ admitted' = admitted
        BY <3>2 DEF ApplyRunComplete, bookVars
      <4>2. QED  BY <1>0, <4>1 DEF HeldOK
    <3>3. QED  BY <1>6, <3>1, <3>2
  <2>13. ASSUME NEW m \in finishing' PROVE status'[RunOf(m)] \in Terminal \cup {"waiting"}
    <3>1. CASE m \in finishing
      <4>1. m \in held /\ m # l
        BY <1>0, <2>1, <3>1, FinishingIsHeld DEF OwnershipInv
      <4>2. QED  BY <1>0, <2>8, <2>10, <3>1, <4>1 DEF HeldOK
    <3>2. CASE m \notin finishing
      <4>1. m = l /\ Head(reports[l]).type = "run-complete"
        BY <1>6, <2>13, <3>2 DEF ApplyPatch, ApplyRunComplete
      <4>2. QED  BY <2>3, <2>6, <2>8, <4>1
    <3>3. QED  BY <3>1, <3>2
  <2>14. HeldOK'
    BY <1>0, <1>1, <1>4, <2>2, <2>11, <2>12, <2>13 DEF HeldOK
  <2>15. Free.op = "free"
    BY DEF Free
  <2>16. Placed(r)'
    BY <1>1, <1>3, <2>4, <2>8, <2>9, <2>15 DEF Placed
  <2>17. ASSUME NEW q \in Runs, q # r PROVE Placed(q)'
    <3>1. Placed(q)
      BY DEF PlaceInv
    <3>2. QED  BY <1>1, <1>3, <2>8, <2>17, <3>1 DEF Placed
  <2>18. QED  BY <1>1, <2>14, <2>16, <2>17 DEF PlaceInv
<1>7. QED  BY <1>5, <1>6

\* A restart of the host puts every run where its lease or its status says.
LEMMA BootKeepsPlaces ==
    ASSUME OwnershipInv, PlaceInv, RestartHost PROVE PlaceInv'
<1>0. BooksOK /\ HeldOK /\ status \in [Runs -> Statuses]
    BY DEF OwnershipInv, PlaceInv, SchedulerOK
<1>1. PICK torn, byRun :
        LET kept == Restored(stored \ torn)
            open == {r \in Runs : status[r] \notin Terminal \cup {"new", "waiting"}}
            free == Unleased(open, kept)
        IN
        /\ held' = kept /\ stored' = kept /\ leaseByRun' = byRun
        /\ byRun \in [Runs -> kept \cup {None}]
        /\ \A r \in Runs : IF \E l \in kept : RunOf(l) = r
                           THEN byRun[r] \in kept /\ RunOf(byRun[r]) = r
                           ELSE byRun[r] = None
        /\ queue' \in SetToSeqs({r \in free : status[r] = "queued"})
        /\ lost' = {[run |-> r, kind |-> "implementation", by |-> None] :
                        r \in {q \in free : status[q] # "queued"}}
    BY DEF RestartHost
<1>2. PICK kept : kept = Restored(stored \ torn)
    OBVIOUS
<1>3. PICK open : open = {r \in Runs : status[r] \notin Terminal \cup {"new", "waiting"}}
    OBVIOUS
<1>4. PICK free : free = Unleased(open, kept)
    OBVIOUS
<1>5. PICK Q : Q = {r \in free : status[r] = "queued"}
    OBVIOUS
<1>6. /\ held' = kept /\ stored' = kept
      /\ \A r \in Runs : IF \E l \in kept : RunOf(l) = r
                         THEN leaseByRun'[r] \in kept /\ RunOf(leaseByRun'[r]) = r
                         ELSE leaseByRun'[r] = None
      /\ queue' \in SetToSeqs(Q)
    BY <1>1, <1>2, <1>3, <1>4, <1>5
<1>7. lost' = {[run |-> r, kind |-> "implementation", by |-> None] :
                    r \in {q \in free : status[q] # "queued"}}
    BY <1>1, <1>2, <1>3, <1>4
<1>8. /\ UNCHANGED <<status, grant>> /\ busy' = [r \in Runs |-> Free]
      /\ claiming' = {} /\ finishing' = {} /\ admitted' = [l \in Leases |-> 0]
      /\ toHost' = [w \in Workers |-> <<>>] /\ toWorker' = [w \in Workers |-> <<>>]
    BY DEF RestartHost, storeVars
<1>9. kept \subseteq held
    BY <1>0, <1>2 DEF Restored, HeldOK
<1>10. /\ free \subseteq Runs /\ Q \in SUBSET Runs
       /\ \A r \in free : /\ status[r] \notin {"new", "waiting"} /\ leaseByRun'[r] = None
                          /\ \A l \in kept : RunOf(l) # r
    BY <1>3, <1>4, <1>5, <1>6 DEF Unleased
<1>11. IsInjective(queue') /\ \A q : Contains(queue', q) <=> q \in Q
    BY <1>6, <1>10, ListingRuns
<1>12. \A x \in lost' : \E r \in free :
          /\ x = [run |-> r, kind |-> "implementation", by |-> None]
          /\ x.run = r /\ status[r] # "queued"
    BY <1>7
<1>13. ASSUME NEW r \in free, status[r] # "queued" PROVE \E x \in lost' : x.run = r
  <2>1. [run |-> r, kind |-> "implementation", by |-> None] \in lost'
    BY <1>7, <1>13
  <2>2. QED  BY <2>1
<1>14. ASSUME NEW r \in Runs PROVE LockFree(r)' <=> ~(r \in free /\ status[r] # "queued")
  <2>1. busy'[r] = Free
    BY <1>8
  <2>2. QED  BY <1>12, <1>13, <2>1 DEF LockFree
<1>15. ASSUME NEW r \in Runs PROVE Placed(r)'
  <2>1. busy'[r].op = "free"
    BY <1>8 DEF Free
  <2>2. Contains(queue', r) => /\ status'[r] = "queued" /\ leaseByRun'[r] = None
                               /\ LockFree(r)'
    BY <1>5, <1>8, <1>10, <1>11, <1>14
  <2>3. leaseByRun'[r] # None => LockFree(r)' /\ status'[r] # "new"
    <3>1. SUFFICES ASSUME leaseByRun'[r] # None PROVE LockFree(r)' /\ status'[r] # "new"
      OBVIOUS
    <3>2. PICK l \in kept : RunOf(l) = r
      BY <1>6, <3>1
    <3>3. status[r] # "new"
      BY <1>9, <3>2, RunOfHeld
    <3>4. r \notin free
      BY <1>10, <3>1
    <3>5. QED  BY <1>8, <1>14, <3>3, <3>4
  <2>4. ~LockFree(r)' => status'[r] # "new"
    BY <1>8, <1>10, <1>14
  <2>5. status'[r] \in {"queued", "active"} =>
            Contains(queue', r) \/ leaseByRun'[r] # None \/ ~LockFree(r)'
    <3>1. SUFFICES ASSUME status[r] \in {"queued", "active"}, leaseByRun'[r] = None
                   PROVE  Contains(queue', r) \/ ~LockFree(r)'
      BY <1>8
    <3>2. r \in open
      BY <1>3, <3>1 DEF Terminal
    <3>3. None \notin kept
      BY <1>0, <1>9, Granted, DispatchAssumption
    <3>4. r \in free
      BY <1>4, <1>6, <3>1, <3>2, <3>3 DEF Unleased
    <3>5. QED  BY <1>5, <1>11, <1>14, <3>4
  <2>6. QED  BY <2>1, <2>2, <2>3, <2>4, <2>5 DEF Placed
<1>16. ASSUME NEW x \in lost'
       PROVE  busy'[x.run] = Free /\ \A y \in lost' : x.run = y.run => x = y
  <2>1. x.run \in Runs
    BY <1>10, <1>12
  <2>2. \A y \in lost' : x.run = y.run => x = y
    BY <1>12
  <2>3. QED  BY <1>8, <2>1, <2>2
<1>17. HeldOK'
  <2>1. \A l : RunOf(l)' = RunOf(l)
    BY <1>8 DEF RunOf
  <2>2. ASSUME NEW l \in kept PROVE leaseByRun'[RunOf(l)] = l
    BY <1>0, <1>6, <1>9, HeldByRun
  <2>3. \A l : ~Coming(l)'
    <3>1. \A w \in Workers : toHost'[w] = <<>> /\ toWorker'[w] = <<>>
      BY <1>8
    <3>2. DOMAIN <<>> = {}
      OBVIOUS
    <3>3. QED  BY <1>8, <3>1, <3>2 DEF Coming, Unsent, Refused
  <2>4. \A l \in Leases : ~(admitted'[l] > 0)
    BY <1>8
  <2>5. QED  BY <1>6, <1>8, <2>1, <2>2, <2>3, <2>4 DEF HeldOK
<1>18. QED  BY <1>11, <1>15, <1>16, <1>17 DEF PlaceInv

\* What the sockets, the daemons and the executions do by themselves.
LEMMA OthersKeepPlaces ==
    ASSUME OwnershipInv, PlaceInv, Next,
           \/ Redrive
           \/ \E l \in Leases : ClaimLands(l) \/ Execution(l) \/ FenceSelf(l)
           \/ \E w \in Workers : HandleDisconnect(w) \/ DaemonStep(w) \/ BreakSocket(w)
                                 \/ RestartWorker(w)
    PROVE  PlaceInv'
<1>1. /\ UNCHANGED <<status, queue, busy, lost, grant, held, leaseByRun, stored, admitted,
                     finishing>>
      /\ claiming' \subseteq claiming
    BY DEF Redrive, ClaimLands, Execution, BeginAttempt, Checkpoint, FinalizePr, Conclude,
           SendComplete, FenceSelf, HandleDisconnect, DaemonStep, Dial, HandleDispatch,
           HandleCancel, HandleLeaseLost, HandleRunCompleteAck, Receives, BreakSocket,
           RestartWorker, storeVars, schedVars, bookVars, reportVars
<1>2. ASSUME NEW m \in held, Coming(m)' PROVE Coming(m)
  <2>1. m \in Leases
    BY Granted DEF OwnershipInv
  <2>2. QED  BY <1>1, <1>2, <2>1, ComingStays
<1>3. QED  BY <1>1, <1>2, PlacesStay

\* A step keeps every run in its one place.
LEMMA StepsKeepPlaces == OwnershipInv /\ PlaceInv /\ Next /\ Orderly => PlaceInv'
<1> SUFFICES ASSUME OwnershipInv, PlaceInv, Next, Orderly PROVE PlaceInv'  OBVIOUS
<1>1. CASE DispatchQueued  BY <1>1, DispatchKeepsPlaces
<1>2. CASE Redrive  BY <1>2, OthersKeepPlaces
<1>3. CASE \E x \in lost : BeginInterrupt(x)  BY <1>3, InterruptKeepsPlaces
<1>4. ASSUME NEW r \in Runs, SchedulerStep(r) \/ Command(r) PROVE PlaceInv'
  <2>1. Retry(r) \/ FollowUp(r) \/ Resume(r) => leaseByRun[r] = None
    BY DEF Orderly
  <2>2. QED  BY <1>4, <2>1, SchedulingKeepsPlaces, CancelKeepsPlaces DEF Command
<1>5. ASSUME NEW l \in Leases, HostStep(l) \/ Execution(l) \/ FenceSelf(l) \/ ClaimFails(l)
      PROVE  PlaceInv'
  <2>1. CASE ClaimLands(l) \/ Execution(l) \/ FenceSelf(l)  BY <2>1, OthersKeepPlaces
  <2>2. CASE ExpireLease(l)  BY <2>2, ExpiriesKeepPlaces
  <2>3. CASE AdmitReport(l) \/ ApplyPatch(l) \/ ApplyRunComplete(l)  BY <2>3, ReportsKeepPlaces
  <2>4. CASE FinishCompletion(l)  BY <2>4, FinishingKeepsPlaces
  <2>5. CASE ClaimFails(l)
    <3>1. l \in held
      BY <2>5 DEF Orderly
    <3>2. QED  BY <2>5, <3>1, RefusalKeepsPlaces
  <2>6. QED  BY <1>5, <2>1, <2>2, <2>3, <2>4, <2>5 DEF HostStep
<1>6. ASSUME NEW w \in Workers,
             ConnectionStep(w) \/ DaemonStep(w) \/ BreakSocket(w) \/ RestartWorker(w)
      PROVE  PlaceInv'
  <2>1. CASE HandleRegister(w)  BY <2>1, ExpiriesKeepPlaces
  <2>2. CASE HandleRejected(w)  BY <2>2, RefusalKeepsPlaces
  <2>3. CASE HandleDisconnect(w) \/ DaemonStep(w) \/ BreakSocket(w) \/ RestartWorker(w)
    BY <2>3, OthersKeepPlaces
  <2>4. QED  BY <1>6, <2>1, <2>2, <2>3 DEF ConnectionStep
<1>7. CASE RestartHost  BY <1>7, BootKeepsPlaces
<1>8. QED  BY <1>1, <1>2, <1>3, <1>4, <1>5, <1>6, <1>7 DEF Next

\* Every run is in one place, for as long as the steps are orderly: the inductive
\* invariant behind HandedOutOnce and NoRunStranded.
LEMMA RunsArePlaced == Spec /\ [][Orderly]_vars => []PlaceInv
<1> DEFINE Inv == OwnershipInv /\ PlaceInv
<1>1. Init => Inv
  <2> SUFFICES ASSUME Init PROVE PlaceInv
    BY InitOwnership
  <2>1. /\ queue = <<>> /\ held = {} /\ stored = {} /\ finishing = {} /\ lost = {}
        /\ \A r \in Runs : status[r] = "new" /\ leaseByRun[r] = None /\ busy[r] = Free
        /\ \A l \in Leases : ~(admitted[l] > 0)
    BY DEF Init
  <2>2. IsInjective(<<>>) /\ \A r : ~Contains(<<>>, r)
    <3>1. DOMAIN <<>> = {}
      OBVIOUS
    <3>2. QED  BY <3>1 DEF IsInjective, Contains
  <2>3. Free.op = "free"
    BY DEF Free
  <2>4. \A r \in Runs : Placed(r)
    BY <2>1, <2>2, <2>3 DEF Placed, LockFree
  <2>5. HeldOK
    BY <2>1 DEF HeldOK
  <2>6. QED  BY <2>1, <2>2, <2>4, <2>5 DEF PlaceInv
<1>2. Inv /\ [Next]_vars /\ [Orderly]_vars => Inv'
  <2> SUFFICES ASSUME Inv, [Next]_vars, [Orderly]_vars PROVE Inv'
    OBVIOUS
  <2>1. OwnershipInv'
    BY StepsKeepOwnership
  <2>2. CASE Next /\ Orderly
    BY <2>1, <2>2, StepsKeepPlaces
  <2>3. CASE UNCHANGED vars
    <3>1. UNCHANGED <<status, queue, busy, lost, grant, held, leaseByRun, stored, admitted,
                      finishing, claiming, toHost, toWorker>>
      BY <2>3 DEF vars, storeVars, schedVars, bookVars, reportVars, wireVars
    <3>2. ASSUME NEW l \in held PROVE Coming(l)' => Coming(l)
      BY <3>1 DEF Coming, Unsent, Refused
    <3>3. QED  BY <2>1, <3>1, <3>2, PlacesStay
  <2>4. QED  BY <2>2, <2>3
<1>3. Inv => PlaceInv
    OBVIOUS
<1>4. QED  BY <1>1, <1>2, <1>3, PTL DEF Spec

\* A run is handed out once, whatever dies, is lost, or restarts, for as long as
\* no registration settles a lease whose reports are still being written, no claim
\* fails after its lease was settled, and no run is brought back under a lease
\* (scheduler.ts planRunRecovery, #dispatchQueued; workers.ts #settleLease).
THEOREM RunsAreHandedOutOnce == Spec /\ [][Orderly]_vars => []HandedOutOnce
<1>1. PlaceInv => HandedOutOnce
    BY DEF PlaceInv, HeldOK, HandedOutOnce, Placed
<1>2. QED  BY <1>1, RunsArePlaced, PTL

\* Under the same circumstances no run in flight is stranded: whatever gave it up
\* has put it in the queue, or left it to an interruption that will
\* (scheduler.ts #onRunInterrupted).
THEOREM NothingIsStranded == Spec /\ [][Orderly]_vars => []NoRunStranded
<1>1. PlaceInv => NoRunStranded
    BY DEF PlaceInv, NoRunStranded, Placed
<1>2. QED  BY <1>1, RunsArePlaced, PTL

-----------------------------------------------------------------------------
(* Late reports *)

\* The reports of a lease are as they were, or fewer, unless it is begun or its
\* execution goes on; and then it is at the stage it was at.
LEMMA SaidBefore ==
    ASSUME OwnershipInv, Next, NEW m \in Leases, ~Execution(m),
           ~\E w \in Workers : HandleDispatch(w) /\ m = Head(toWorker[w]).lease
    PROVE  /\ reports'[m] \in {reports[m], Tail(reports[m]), Forgotten(m), <<>>}
           /\ m \in running' => m \in running /\ stage'[m] = stage[m]
<1> DEFINE P == /\ reports'[m] \in {reports[m], Tail(reports[m]), Forgotten(m), <<>>}
                /\ m \in running' => stage'[m] = stage[m]
<1>0. /\ SocketsOK /\ BuffersOK /\ LinesOK /\ BegunOnce
      /\ DOMAIN reports = Leases /\ DOMAIN stage = Leases
    BY DEF OwnershipInv, RecordInv, BuffersOK
<1>1. m \in running' => m \in running
    BY <1>0, WhoBegins
<1>2. ASSUME UNCHANGED <<reports, stage>> PROVE P
    BY <1>2
<1>3. ASSUME NEW l \in Leases, Landed(l), UNCHANGED stage PROVE P
  <2>1. reports' = [reports EXCEPT ![l] = Tail(@)]
    BY <1>3 DEF Landed
  <2>2. QED  BY <1>0, <1>3, <2>1
<1>4. ASSUME NEW l \in Leases, Abandon(l) PROVE P
  <2>1. reports' = [reports EXCEPT ![l] = Forgotten(l)] /\ UNCHANGED stage
    BY <1>4 DEF Abandon
  <2>2. QED  BY <1>0, <2>1
<1>5. ASSUME NEW l \in Leases, Execution(l) PROVE P
  <2>1. l # m
    BY <1>5
  <2>2. /\ reports' = reports \/ \E rep : reports' = [reports EXCEPT ![l] = Append(@, rep)]
        /\ \E x : stage' = [stage EXCEPT ![l] = x]
    <3>1. ASSUME NEW rep, Report(l, rep)
          PROVE  reports' = reports \/ \E p : reports' = [reports EXCEPT ![l] = Append(@, p)]
      BY <3>1 DEF Report
    <3>2. CASE Checkpoint(l) \/ FinalizePr(l)
      BY <3>2 DEF Checkpoint, FinalizePr
    <3>3. CASE BeginAttempt(l) \/ (\E o \in Statuses : Conclude(l, o)) \/ SendComplete(l)
      <4>1. (\E rep : Report(l, rep)) /\ \E x : stage' = [stage EXCEPT ![l] = x]
        BY <3>3 DEF BeginAttempt, Conclude, SendComplete
      <4>2. QED  BY <3>1, <4>1
    <3>4. QED  BY <1>5, <3>2, <3>3 DEF Execution
  <2>3. QED  BY <1>0, <2>1, <2>2
<1>6. ASSUME NEW w \in Workers, HandleDispatch(w) PROVE P
  <2>1. PICK d : d = Head(toWorker[w]).lease
    OBVIOUS
  <2>2. reports' = reports /\ (stage' = stage \/ stage' = [stage EXCEPT ![d] = "started"])
    BY <1>6, <2>1 DEF HandleDispatch, workerVars
  <2>3. d # m
    BY <1>6, <2>1
  <2>4. QED  BY <1>0, <2>2, <2>3
<1>7. ASSUME NEW w \in Workers, RestartWorker(w) PROVE P
  <2>1. /\ reports' = [l \in Leases |-> IF l \in RunningOn(w) \cup ClaimedBy(w) THEN Forgotten(l)
                                        ELSE reports[l]]
        /\ stage' = [l \in Leases |-> IF l \in RunningOn(w) THEN "none" ELSE stage[l]]
        /\ running' = running \ RunningOn(w)
    BY <1>7 DEF RestartWorker
  <2>2. QED  BY <2>1
<1>8. ASSUME RestartHost PROVE P
  <2>1. /\ reports' = [l \in Leases |-> IF l \in claimed THEN reports[l] ELSE <<>>]
        /\ UNCHANGED stage
    BY <1>8 DEF RestartHost
  <2>2. QED  BY <2>1
<1>9. ASSUME NEW w \in Workers, HandleLeaseLost(w) PROVE P
  <2>1. Head(toWorker[w]).lease \in Leases /\ Abandon(Head(toWorker[w]).lease)
    BY <1>0, <1>9, AfterReceiving DEF HandleLeaseLost
  <2>2. QED  BY <1>4, <2>1
<1>10. ASSUME \A l \in Leases : /\ ~Execution(l) /\ ~ApplyPatch(l) /\ ~FinishCompletion(l)
                                /\ ~FenceSelf(l),
              \A w \in Workers : /\ ~HandleDispatch(w) /\ ~RestartWorker(w) /\ ~HandleLeaseLost(w),
              ~RestartHost
       PROVE  UNCHANGED <<reports, stage>>
    BY ZenonT(60), <1>10 DEF Next, DispatchQueued, Redrive, BeginInterrupt, SchedulerStep, Command,
                Enqueue, Adopt, Requeue, JoinQueue, FollowUpGranted, FollowUpRefused, Resume, Cancel,
                Retry, FollowUp, StartOver, HostStep, ClaimLands, ExpireLease, AdmitReport,
                ApplyRunComplete, ClaimFails, ConnectionStep, HandleRegister, HandleRejected,
                HandleDisconnect, DaemonStep, Dial, HandleCancel, HandleRunCompleteAck, Receives,
                BreakSocket, workerVars
<1>11. ASSUME NEW l \in Leases, ApplyPatch(l) \/ FinishCompletion(l) PROVE P
  <2>1. Landed(l) /\ UNCHANGED stage
    BY <1>11 DEF ApplyPatch, FinishCompletion
  <2>2. QED  BY <1>3, <2>1
<1>12. ASSUME NEW l \in Leases, FenceSelf(l) PROVE P
    BY <1>4, <1>12 DEF FenceSelf
<1> HIDE DEF P
<1>13. P
    BY <1>2, <1>5, <1>6, <1>7, <1>8, <1>9, <1>10, <1>11, <1>12
<1>14. QED  BY <1>1, <1>13 DEF P

\* Fewer reports say no more than the reports did.
LEMMA FewerReports ==
    ASSUME BuffersOK, NEW m \in Leases,
           NEW s \in {reports[m], Tail(reports[m]), Forgotten(m), <<>>}
    PROVE  s = <<>> \/ \E k \in {0, 1} : \A i \in DOMAIN s :
                i \in Int /\ i + k \in DOMAIN reports[m] /\ s[i] = reports[m][i + k]
<1>1. reports[m] \in Seq(Reports)
    BY DEF BuffersOK
<1>2. CASE s = reports[m]
  <2>1. \A i \in DOMAIN s : i \in Int /\ i + 0 = i
    BY <1>1, <1>2
  <2>2. QED  BY <1>2, <2>1
<1>3. CASE s = Tail(reports[m]) /\ reports[m] # <<>>
  <2>1. \A i \in DOMAIN s : i \in Int /\ i + 1 \in DOMAIN reports[m] /\ s[i] = reports[m][i + 1]
    BY <1>1, <1>3
  <2>2. QED  BY <2>1
<1>4. CASE reports[m] = <<>> /\ s = Tail(reports[m])
  <2>1. Tail(<<>>) = <<>>
    OBVIOUS
  <2>2. QED  BY <1>4, <2>1
<1>5. CASE s = Forgotten(m)
  <2>1. \A i \in DOMAIN s : i \in Int /\ i + 0 = i /\ i \in DOMAIN reports[m] /\ s[i] = reports[m][i]
    BY <1>1, <1>5, ForgottenIs
  <2>2. QED  BY <2>1
<1>6. QED  BY <1>2, <1>3, <1>4, <1>5

\* The run of a held lease is moved by the reports on that lease alone.
LEMMA ReportsMoveARun ==
    ASSUME OwnershipInv, PlaceInv, Next, Unhurried, NEW l \in held,
           ~ApplyPatch(l), ~ApplyRunComplete(l)
    PROVE  status'[RunOf(l)] = status[RunOf(l)]
<1> DEFINE r == RunOf(l)
           P == status'[r] = status[r]
<1>0. /\ BooksOK /\ BuffersOK /\ HeldOK /\ DOMAIN status = Runs
    BY DEF OwnershipInv, PlaceInv, SchedulerOK
<1>1. /\ r \in Runs /\ LockFree(r) /\ busy[r] = Free /\ ~Contains(queue, r) /\ status[r] # "new"
      /\ leaseByRun[r] = l /\ l # None /\ l \in Leases
    BY <1>0, RunOfHeld, HeldByRun
<1>2. Free.op = "free"
    BY DEF Free
<1> HIDE DEF r
<1>3. ASSUME NEW q \in Runs, NEW s, status' = [status EXCEPT ![q] = s], q # r PROVE P
    BY <1>0, <1>1, <1>3
<1>4. ASSUME NEW q \in Runs, SchedulerStep(q) PROVE P
  <2>1. CASE Enqueue(q)
    <3>1. status' = [status EXCEPT ![q] = "queued"] /\ status[q] = "new"
      BY <2>1 DEF Enqueue
    <3>2. QED  BY <1>1, <1>3, <3>1
  <2>2. CASE Adopt(q) \/ Requeue(q) \/ FollowUpGranted(q)
    <3>1. busy[q].op # "free" /\ \E s : status' = [status EXCEPT ![q] = s]
      BY <2>2 DEF Adopt, Requeue, FollowUpGranted
    <3>2. QED  BY <1>1, <1>2, <1>3, <3>1
  <2>3. CASE JoinQueue(q) \/ FollowUpRefused(q) \/ Resume(q)
    BY <2>3 DEF JoinQueue, FollowUpRefused, Resume, StartOver, storeVars
  <2>4. QED  BY <1>4, <2>1, <2>2, <2>3 DEF SchedulerStep
<1>5. ASSUME NEW q \in Runs, Command(q) PROVE P
  <2>1. CASE Retry(q) \/ FollowUp(q)
    BY <2>1 DEF Retry, FollowUp, StartOver, storeVars
  <2>2. CASE Cancel(q) /\ CancelOnWorker(q)
    BY <2>2 DEF CancelOnWorker
  <2>3. CASE Cancel(q) /\ CancelHere(q)
    <3>1. /\ status' = [status EXCEPT ![q] = "cancelled"]
          /\ status[q] = "waiting" \/ Contains(queue, q) \/ leaseByRun[q] = None
      BY <2>3 DEF CancelHere
    <3>2. status[q] = "waiting" => leaseByRun[q] = None
      BY <2>3 DEF Unhurried
    <3>3. q # r
      BY <1>1, <3>1, <3>2
    <3>4. QED  BY <1>3, <3>1, <3>3
  <2>4. Cancel(q) => CancelHere(q) \/ CancelOnWorker(q)
    BY DEF Cancel
  <2>5. QED  BY <1>5, <2>1, <2>2, <2>3, <2>4 DEF Command
<1>6. ASSUME NEW m \in Leases, ApplyPatch(m) \/ ApplyRunComplete(m) PROVE P
  <2>1. admitted[m] > 0 /\ \E s : status' = [status EXCEPT ![RunOf(m)] = s]
    BY <1>6 DEF ApplyPatch, ApplyRunComplete
  <2>2. m \in held /\ m # l
    BY <1>0, <1>6, <2>1 DEF HeldOK
  <2>3. RunOf(m) \in Runs /\ RunOf(m) # r
    BY <1>0, <2>2, HeldByRun DEF r
  <2>4. QED  BY <1>3, <2>1, <2>3
<1>7. ASSUME \A q \in Runs : ~SchedulerStep(q) /\ ~Command(q),
             \A m \in Leases : ~ApplyPatch(m) /\ ~ApplyRunComplete(m)
      PROVE  UNCHANGED status
    BY ZenonT(60), <1>7 DEF Next, DispatchQueued, Redrive, BeginInterrupt, HostStep, ClaimLands,
                ExpireLease, AdmitReport, FinishCompletion, ClaimFails, Execution, BeginAttempt,
                Checkpoint, FinalizePr, Conclude, SendComplete, FenceSelf, ConnectionStep,
                HandleRegister, HandleRejected, HandleDisconnect, DaemonStep, Dial, HandleDispatch,
                HandleCancel, HandleLeaseLost, HandleRunCompleteAck, Receives, BreakSocket,
                RestartWorker, RestartHost, storeVars
<1>8. P
    BY <1>4, <1>5, <1>6, <1>7
<1>9. QED  BY <1>8 DEF r

\* A lease that the host comes to hold has been issued for a queued run.
LEMMA NewlyHeld ==
    ASSUME OwnershipInv, PlaceInv, PlaceInv', Next, NEW l \in held' \ held
    PROVE  status'[RunOf(l)'] = "queued"
<1>0. SchedulerOK /\ HeldOK /\ HeldOK'
    BY DEF OwnershipInv, PlaceInv
<1>1. ASSUME NEW m \in Unused, NEW w \in Placements, NEW r \in Runs, Issue(m, w, r)
      PROVE  Coming(l)'
    BY <1>1 DEF Issue, Coming
<1>2. ASSUME DispatchQueued PROVE Coming(l)'
  <2>1. held' = held \/ \E m \in Unused, w \in Placements, r \in Runs : Issue(m, w, r)
    BY <1>0, <1>2, DispatchIs DEF bookVars
  <2>2. QED  BY <1>1, <2>1
<1>3. ASSUME ~DispatchQueued, ~RestartHost PROVE held' \subseteq held
    BY ZenonT(60), <1>3 DEF Next, Redrive, BeginInterrupt, SchedulerStep, Command, Enqueue, Adopt,
                Requeue, JoinQueue, FollowUpGranted, FollowUpRefused, Resume, Cancel, Retry,
                FollowUp, StartOver, HostStep, ClaimLands, ExpireLease, AdmitReport, ApplyPatch,
                ApplyRunComplete, FinishCompletion, ClaimFails, Execution, BeginAttempt, Checkpoint,
                FinalizePr, Conclude, SendComplete, FenceSelf, ConnectionStep, HandleRegister,
                HandleRejected, HandleDisconnect, DaemonStep, Dial, HandleDispatch, HandleCancel,
                HandleLeaseLost, HandleRunCompleteAck, Receives, BreakSocket, RestartWorker,
                Settle, bookVars
<1>4. RestartHost => held' \subseteq held
    BY <1>0 DEF RestartHost, Restored, HeldOK
<1>5. QED  BY <1>0, <1>2, <1>3, <1>4 DEF HeldOK

\* What has been said so far, when a step says no more and the execution goes on as
\* it was.
LEMMA SayingNoMore ==
    ASSUME BuffersOK, NEW m \in Leases, OneEnding(m),
           reports'[m] \in {reports[m], Tail(reports[m]), Forgotten(m), <<>>},
           m \in running' => m \in running /\ stage'[m] = stage[m]
    PROVE  /\ OneEnding(m)'
           /\ \A s : (\A i \in DOMAIN reports[m] : reports[m][i].status = s)
                => \A i \in DOMAIN reports'[m] : reports'[m][i].status = s
<1>1. PICK t : t = reports'[m]
    OBVIOUS
<1>2. t \in {reports[m], Tail(reports[m]), Forgotten(m), <<>>}
    BY <1>1
<1>3. t = <<>> \/ \E k \in {0, 1} : \A i \in DOMAIN t :
            i \in Int /\ i + k \in DOMAIN reports[m] /\ t[i] = reports[m][i + k]
    BY <1>2, FewerReports
<1>4. CASE t = <<>>
  <2>1. DOMAIN t = {}
    BY <1>4
  <2>2. QED  BY <1>1, <2>1 DEF OneEnding
<1>5. ASSUME NEW k \in {0, 1},
             \A i \in DOMAIN t :
                i \in Int /\ i + k \in DOMAIN reports[m] /\ t[i] = reports[m][i + k]
      PROVE  /\ OneEnding(m)'
             /\ \A s : (\A i \in DOMAIN reports[m] : reports[m][i].status = s)
                => \A i \in DOMAIN reports'[m] : reports'[m][i].status = s
  <2>1. ASSUME NEW i \in DOMAIN t, NEW j \in DOMAIN t, i < j, t[i].status # "active"
        PROVE  t[j].status = t[i].status
    <3>1. PICK a \in DOMAIN reports[m] : a = i + k /\ t[i] = reports[m][a]
      BY <1>5
    <3>2. PICK b \in DOMAIN reports[m] : b = j + k /\ t[j] = reports[m][b]
      BY <1>5
    <3>3. a < b
      BY <1>5, <2>1, <3>1, <3>2
    <3>4. QED  BY <2>1, <3>1, <3>2, <3>3 DEF OneEnding
  <2>2. ASSUME m \in running', NEW i \in DOMAIN t PROVE t[i].status \in {"active", stage'[m]}
    BY <1>5, <2>2 DEF OneEnding
  <2>3. ASSUME NEW s, \A i \in DOMAIN reports[m] : reports[m][i].status = s, NEW i \in DOMAIN t
        PROVE  t[i].status = s
    BY <1>5, <2>3
  <2>4. OneEnding(m)'
    BY <1>1, <2>1, <2>2 DEF OneEnding
  <2>5. QED  BY <1>1, <2>3, <2>4
<1>6. QED  BY <1>3, <1>4, <1>5

\* One more report, of an execution that has said nothing of its end, or says it
\* again.
LEMMA SayingMore ==
    ASSUME BuffersOK, NEW m \in Leases, OneEnding(m), NEW rep,
           NEW t, t = reports[m] \/ t = Append(reports[m], rep),
           \A i \in DOMAIN reports[m] : reports[m][i].status # "active"
                => m \in running /\ rep.status = stage[m]
    PROVE  /\ \A i, j \in DOMAIN t : i < j /\ t[i].status # "active" => t[j].status = t[i].status
           /\ \A i \in DOMAIN t : t[i] = rep \/ \E j \in DOMAIN reports[m] : t[i] = reports[m][j]
<1> DEFINE s == reports[m]
           n == Len(s)
<1>1. s \in Seq(Reports) /\ n \in Nat /\ DOMAIN s = 1..n
  <2>1. s \in Seq(Reports)
    BY DEF BuffersOK
  <2>2. QED  BY <2>1
<1>2. \A i, j \in 1..n : i < j /\ s[i].status # "active" => s[j].status = s[i].status
    BY <1>1 DEF OneEnding
<1>3. m \in running => \A i \in 1..n : s[i].status \in {"active", stage[m]}
    BY <1>1 DEF OneEnding
<1>4. CASE t = s
    BY <1>1, <1>2, <1>4
<1>5. CASE t = Append(s, rep)
  <2>1. DOMAIN t = 1..(n + 1) /\ t[n + 1] = rep /\ \A i \in 1..n : t[i] = s[i]
    BY <1>1, <1>5
  <2>2. \A i \in 1..(n + 1) : i \in 1..n \/ i = n + 1
    BY <1>1
  <2> HIDE DEF s, n
  <2>3. ASSUME NEW i \in 1..(n + 1), NEW j \in 1..(n + 1), i < j, t[i].status # "active"
        PROVE  t[j].status = t[i].status
    <3>1. i \in 1..n /\ t[i] = s[i]
      BY <1>1, <2>1, <2>3
    <3>2. m \in running /\ rep.status = stage[m] /\ s[i].status = stage[m]
      BY <1>1, <1>3, <2>3, <3>1 DEF s
    <3>3. CASE j \in 1..n
      BY <1>2, <2>1, <2>3, <3>1, <3>3
    <3>4. CASE j = n + 1
      BY <2>1, <3>1, <3>2, <3>4
    <3>5. QED  BY <2>2, <3>3, <3>4
  <2>4. ASSUME NEW i \in 1..(n + 1) PROVE t[i] = rep \/ \E j \in 1..n : t[i] = s[j]
    BY <2>1, <2>2
  <2>5. QED  BY <1>1, <2>1, <2>3, <2>4 DEF s
<1>6. QED  BY <1>4, <1>5

\* An execution that goes on, or ends, says one thing of its end.
LEMMA ExecutionsEndOnce ==
    ASSUME OwnershipInv, PlaceInv, LateInv, NEW m \in Leases, Execution(m)
    PROVE  OneEnding(m)' /\ EndedAs(m)'
<1>0. /\ BuffersOK /\ OneEnding(m) /\ EndedAs(m) /\ BooksOK
      /\ stage \in [Leases -> Stages] /\ reports \in [Leases -> Seq(Reports)]
    BY DEF OwnershipInv, LateInv, BuffersOK, Stages
<1>1. m \in running /\ UNCHANGED <<status, grant, held>>
    BY DEF Execution, BeginAttempt, Checkpoint, FinalizePr, Conclude, SendComplete, Executing,
           storeVars, bookVars
<1>2. UNCHANGED RunOf(m)
    BY <1>1 DEF RunOf
<1>3. \A i \in DOMAIN reports[m] : reports[m][i].status \in {"active", "waiting"} \cup Terminal
  <2>1. \A i \in DOMAIN reports[m] : reports[m][i] \in Reports
    BY <1>0
  <2>2. QED  BY <2>1 DEF Reports
<1>4. ASSUME stage[m] \in {"started", "begun", "drafted", "finalized"}
      PROVE  /\ \A i \in DOMAIN reports[m] : reports[m][i].status = "active"
             /\ ~(m \in held /\ status[RunOf(m)] \in Terminal)
  <2>1. stage[m] \notin {"active", "waiting"} \cup Terminal
    BY <1>4 DEF Terminal
  <2>2. \A i \in DOMAIN reports[m] : reports[m][i].status \in {"active", stage[m]}
    BY <1>0, <1>1 DEF OneEnding
  <2>3. m \in held /\ status[RunOf(m)] \in Terminal => stage[m] = status[RunOf(m)]
    BY <1>0, <1>1 DEF EndedAs
  <2>4. ASSUME NEW i \in DOMAIN reports[m] PROVE reports[m][i].status = "active"
    BY <1>3, <2>1, <2>2
  <2>5. ~(m \in held /\ status[RunOf(m)] \in Terminal)
    BY <2>1, <2>3
  <2>6. QED  BY <2>4, <2>5
<1>5. ASSUME NEW rep, reports'[m] \in {reports[m], Append(reports[m], rep)},
             stage[m] \in {"started", "begun", "drafted", "finalized"},
             rep.status \in {"active", stage'[m]}
      PROVE  OneEnding(m)' /\ EndedAs(m)'
  <2>1. PICK t : t = reports'[m]
    OBVIOUS
  <2>2. t = reports[m] \/ t = Append(reports[m], rep)
    BY <1>5, <2>1
  <2>3. /\ \A i, j \in DOMAIN t : i < j /\ t[i].status # "active" => t[j].status = t[i].status
        /\ \A i \in DOMAIN t : t[i] = rep \/ \E j \in DOMAIN reports[m] : t[i] = reports[m][j]
    <3>1. \A i \in DOMAIN reports[m] : reports[m][i].status # "active"
                => m \in running /\ rep.status = stage[m]
      BY <1>4, <1>5
    <3>2. BuffersOK /\ OneEnding(m)
      BY <1>0
    <3>3. QED  BY SMTT(60), <2>2, <3>1, <3>2, SayingMore
  <2>4. \A i \in DOMAIN t : t[i].status \in {"active", stage'[m]}
    BY <1>4, <1>5, <2>3
  <2>5. OneEnding(m)'
    BY <2>1, <2>3, <2>4 DEF OneEnding
  <2>6. EndedAs(m)'
    BY <1>1, <1>2, <1>4, <1>5 DEF EndedAs
  <2>7. QED  BY <2>5, <2>6
<1>6. ASSUME NEW rep, Report(m, rep) PROVE reports'[m] \in {reports[m], Append(reports[m], rep)}
    BY <1>0, <1>6 DEF Report
<1>7. CASE BeginAttempt(m)
  <2>1. /\ Report(m, PatchReport("active")) /\ stage[m] = "started"
        /\ PatchReport("active").status = "active"
    BY <1>7 DEF BeginAttempt, Executing, PatchReport
  <2>2. QED  BY <1>5, <1>6, <2>1
<1>8. CASE Checkpoint(m) \/ FinalizePr(m)
  <2>1. stage[m] \in {"begun", "drafted"} /\ reports' = reports
    BY <1>8 DEF Checkpoint, FinalizePr, Executing
  <2>2. PatchReport("active").status = "active"
    BY DEF PatchReport
  <2>3. QED  BY <1>5, <2>1, <2>2
<1>9. ASSUME NEW o \in Statuses, Conclude(m, o) PROVE OneEnding(m)' /\ EndedAs(m)'
  <2>1. /\ Report(m, PatchReport(o)) /\ stage[m] \in {"started", "begun", "drafted", "finalized"}
        /\ stage' = [stage EXCEPT ![m] = o]
    BY <1>9 DEF Conclude, Executing
  <2>2. stage'[m] = o /\ PatchReport(o).status = o
    BY <1>0, <2>1 DEF PatchReport
  <2>3. QED  BY <1>5, <1>6, <2>1, <2>2
<1>10. CASE SendComplete(m)
  <2>1. PICK rep : Report(m, rep) /\ rep.status = stage[m]
    BY <1>10 DEF SendComplete, CompleteReport
  <2>2. m \notin running'
    BY <1>10 DEF SendComplete
  <2>3. PICK t : t = reports'[m]
    OBVIOUS
  <2>4. t = reports[m] \/ t = Append(reports[m], rep)
    BY <1>6, <2>1, <2>3
  <2>5. /\ \A i, j \in DOMAIN t : i < j /\ t[i].status # "active" => t[j].status = t[i].status
        /\ \A i \in DOMAIN t : t[i] = rep \/ \E j \in DOMAIN reports[m] : t[i] = reports[m][j]
    <3>1. m \in running /\ rep.status = stage[m]
      BY <1>1, <2>1
    <3>2. BuffersOK /\ OneEnding(m)
      BY <1>0
    <3>3. \A i \in DOMAIN reports[m] : reports[m][i].status # "active"
                => m \in running /\ rep.status = stage[m]
      BY <3>1
    <3>4. QED  BY SMTT(60), <2>4, <3>2, <3>3, SayingMore
  <2>6. OneEnding(m)'
    BY <2>2, <2>3, <2>5 DEF OneEnding
  <2>7. EndedAs(m)'
    <3>1. SUFFICES ASSUME m \in held, status[RunOf(m)] \in Terminal, NEW i \in DOMAIN t
                   PROVE  t[i].status = status[RunOf(m)]
      BY <1>1, <1>2, <2>2, <2>3 DEF EndedAs
    <3>2. QED  BY <1>0, <1>1, <2>1, <2>5, <3>1 DEF EndedAs
  <2>8. QED  BY <2>6, <2>7
<1>11. QED  BY <1>7, <1>8, <1>9, <1>10 DEF Execution

\* A lease that is begun has said nothing, and its run is not over.
LEMMA BeginningSaysNothing ==
    ASSUME OwnershipInv, PlaceInv, NEW m, NEW w \in Workers, HandleDispatch(w),
           m = Head(toWorker[w]).lease
    PROVE  OneEnding(m)' /\ EndedAs(m)'
<1>0. SocketsOK /\ LinesOK /\ BegunOnce /\ HeldOK
    BY DEF OwnershipInv, RecordInv, PlaceInv
<1>1. ~Unsent(m) /\ m \in Leases
    BY <1>0, ArrivalsAreOver
<1>2. m \in held /\ reports[m] = <<>> /\ status[RunOf(m)] = "queued"
    BY <1>0, <1>1 DEF BegunOnce, Fresh, HeldOK, Coming
<1>3. UNCHANGED <<status, grant, reports>>
    BY DEF HandleDispatch, Receives, storeVars, bookVars, workerVars
<1>4. DOMAIN reports'[m] = {}
    BY <1>2, <1>3
<1>5. "queued" \notin Terminal
    BY DEF Terminal
<1>6. status'[RunOf(m)'] = "queued"
    BY <1>2, <1>3 DEF RunOf
<1>7. QED  BY <1>4, <1>5, <1>6 DEF OneEnding, EndedAs

\* Nobody says of a run that it ended otherwise than it did.
LEMMA StepsKeepEndings ==
    ASSUME OwnershipInv, PlaceInv, LateInv, PlaceInv', Next, Unhurried, NEW m \in Leases
    PROVE  OneEnding(m)' /\ EndedAs(m)'
<1>0. /\ SocketsOK /\ SchedulerOK /\ BooksOK /\ BuffersOK /\ LastWords /\ HeldOK
      /\ OneEnding(m) /\ EndedAs(m)
    BY DEF OwnershipInv, RecordInv, PlaceInv, LateInv
<1>1. CASE Execution(m)
    BY <1>1, ExecutionsEndOnce
<1>2. CASE \E w \in Workers : HandleDispatch(w) /\ m = Head(toWorker[w]).lease
    BY <1>2, BeginningSaysNothing
<1>3. ASSUME ~Execution(m), ~\E w \in Workers : HandleDispatch(w) /\ m = Head(toWorker[w]).lease
      PROVE  OneEnding(m)' /\ EndedAs(m)'
  <2>1. /\ reports'[m] \in {reports[m], Tail(reports[m]), Forgotten(m), <<>>}
        /\ m \in running' => m \in running /\ stage'[m] = stage[m]
    BY <1>3, SaidBefore
  <2>2. /\ OneEnding(m)'
        /\ \A s : (\A i \in DOMAIN reports[m] : reports[m][i].status = s)
                => \A i \in DOMAIN reports'[m] : reports'[m][i].status = s
    BY <1>0, <2>1, SayingNoMore
  <2>3. SUFFICES ASSUME m \in held', status'[RunOf(m)'] \in Terminal PROVE EndedAs(m)'
    BY <2>2 DEF EndedAs
  <2>4. m \in held
    <3>1. ASSUME m \notin held PROVE FALSE
      <4>1. status'[RunOf(m)'] = "queued"
        BY <2>3, <3>1, NewlyHeld
      <4>2. QED  BY <2>3, <4>1 DEF Terminal
    <3>2. QED  BY <3>1
  <2>5. RunOf(m)' = RunOf(m) /\ RunOf(m) \in Runs
    BY <1>0, <2>4, WorkersStay, Granted
  <2>6. PICK r : r = RunOf(m)
    OBVIOUS
  <2>7. PICK s : s = status'[r]
    OBVIOUS
  <2>8. r \in Runs /\ s \in Terminal /\ status'[RunOf(m)'] = s /\ status[r] = status[RunOf(m)]
    BY <2>3, <2>5, <2>6, <2>7
  <2>9. ASSUME \A i \in DOMAIN reports[m] : reports[m][i].status = s,
               m \in running => stage[m] = s
        PROVE  EndedAs(m)'
    <3>1. \A i \in DOMAIN reports'[m] : reports'[m][i].status = s
      BY <2>2, <2>9
    <3>2. m \in running' => stage'[m] = s
      BY <2>1, <2>9
    <3>3. QED  BY <2>8, <3>1, <3>2 DEF EndedAs
  <2>10. CASE status'[r] = status[r]
    BY <1>0, <2>4, <2>7, <2>8, <2>9, <2>10 DEF EndedAs
  <2>11. CASE ApplyPatch(m) \/ ApplyRunComplete(m)
    <3>1. admitted[m] > 0 /\ status' = [status EXCEPT ![r] = Head(reports[m]).status]
      BY <2>6, <2>11 DEF ApplyPatch, ApplyRunComplete
    <3>2. reports[m] # <<>>
      BY <1>0, <3>1, AdmittedAre
    <3>3. reports[m] \in Seq(Reports) /\ 1 \in DOMAIN reports[m] /\ Head(reports[m]) = reports[m][1]
      BY <1>0, <3>2, HeadReport DEF BuffersOK
    <3>4. s = reports[m][1].status
      BY <1>0, <2>7, <2>8, <3>1, <3>3 DEF SchedulerOK
    <3>5. s # "active"
      BY <2>8 DEF Terminal
    <3>6. ASSUME NEW i \in DOMAIN reports[m] PROVE reports[m][i].status = s
      <4>1. i = 1 \/ 1 < i
        BY <3>3
      <4>2. QED  BY <1>0, <3>3, <3>4, <3>5, <4>1 DEF OneEnding
    <3>7. m \in running => stage[m] = s
      BY <1>0, <3>3, <3>4, <3>5 DEF OneEnding
    <3>8. QED  BY <2>9, <3>6, <3>7
  <2>12. QED
    <3>1. CASE ~ApplyPatch(m) /\ ~ApplyRunComplete(m)
      <4>1. status'[r] = status[r]
        BY <2>4, <2>6, <3>1, ReportsMoveARun
      <4>2. QED  BY <2>10, <4>1
    <3>2. QED  BY <2>11, <3>1
<1>4. QED  BY <1>1, <1>2, <1>3

\* While an interruption gives a run back, nothing ends it.
LEMMA StepsKeepUnended ==
    ASSUME OwnershipInv, PlaceInv, LateInv, Next, NEW r \in Runs
    PROVE  Unended(r)'
<1>0. /\ SchedulerOK /\ BooksOK /\ HeldOK /\ Placed(r) /\ Unended(r)
      /\ DOMAIN busy = Runs /\ DOMAIN status = Runs
    BY DEF OwnershipInv, PlaceInv, LateInv, SchedulerOK
<1>1. /\ Free.op = "free" /\ \A o, l : Busy(o, l).op = o /\ Busy(o, l).by = l
    BY DEF Free, Busy
<1>2. ASSUME busy'[r].op \notin {"adopting", "returning"} PROVE Unended(r)'
    BY <1>2 DEF Unended
<1>3. ASSUME busy'[r] = Busy("returning", None) PROVE Unended(r)'
    BY <1>1, <1>3 DEF Unended
<1>4. ASSUME busy'[r] = busy[r], busy[r] = Free \/ status'[r] = status[r] PROVE Unended(r)'
    BY <1>0, <1>1, <1>4 DEF Unended
<1>5. ASSUME busy'[r] = busy[r], NEW q, NEW s, status' = [status EXCEPT ![q] = s],
             LockFree(q) \/ q # r
      PROVE  Unended(r)'
  <2>1. status'[r] = status[r] \/ q = r
    BY <1>0, <1>5
  <2>2. q = r => busy[r] = Free
    BY <1>5 DEF LockFree
  <2>3. QED  BY <1>4, <1>5, <2>1, <2>2
<1>6. ASSUME NEW q \in Runs, SchedulerStep(q) \/ Command(q) PROVE Unended(r)'
  <2>1. CASE Enqueue(q)
    <3>1. busy' = busy /\ status' = [status EXCEPT ![q] = "queued"] /\ status[q] = "new"
      BY <2>1 DEF Enqueue
    <3>2. LockFree(q)
      BY <3>1 DEF PlaceInv, Placed
    <3>3. QED  BY <1>5, <3>1, <3>2
  <2>2. CASE Cancel(q)
    <3>1. /\ busy' = busy /\ LockFree(q)
          /\ status' = status \/ status' = [status EXCEPT ![q] = "cancelled"]
      BY <2>2 DEF Cancel, CancelHere, CancelOnWorker
    <3>2. QED  BY <1>4, <1>5, <3>1
  <2>3. CASE Adopt(q) \/ Requeue(q) \/ JoinQueue(q) \/ FollowUpGranted(q) \/ FollowUpRefused(q)
             \/ Resume(q) \/ Retry(q) \/ FollowUp(q)
    <3>1. /\ \/ busy' = [busy EXCEPT ![q] = Free]
             \/ busy' = [busy EXCEPT ![q] = Busy("requeueing", busy[q].by)]
             \/ busy' = [busy EXCEPT ![q] = Busy("requeueing", None)]
             \/ busy' = [busy EXCEPT ![q] = Busy("checking", None)]
             \/ busy' = [busy EXCEPT ![q] = Busy("returning", None)]
          /\ status' = status \/ \E s : status' = [status EXCEPT ![q] = s]
      BY <2>3 DEF Adopt, Requeue, JoinQueue, FollowUpGranted, FollowUpRefused, Resume, Retry,
                  FollowUp, StartOver, storeVars
    <3>2. CASE q # r
      <4>1. busy'[r] = busy[r] /\ status'[r] = status[r]
        BY <1>0, <3>1, <3>2
      <4>2. QED  BY <1>4, <4>1
    <3>3. CASE q = r
      <4>1. \/ busy'[r] = Free \/ busy'[r] = Busy("requeueing", busy[r].by)
            \/ busy'[r] = Busy("requeueing", None) \/ busy'[r] = Busy("checking", None)
            \/ busy'[r] = Busy("returning", None)
        BY <1>0, <3>1, <3>3
      <4>2. QED  BY <1>1, <1>2, <1>3, <4>1
    <3>4. QED  BY <3>2, <3>3
  <2>4. QED  BY <1>6, <2>1, <2>2, <2>3 DEF SchedulerStep, Command
<1>7. ASSUME NEW x \in lost, BeginInterrupt(x) PROVE Unended(r)'
  <2>1. status' = status
    BY <1>7 DEF BeginInterrupt, storeVars
  <2>2. CASE status[x.run] \in Terminal
    <3>1. busy' = busy
      BY <1>7, <2>2 DEF BeginInterrupt
    <3>2. QED  BY <1>4, <2>1, <3>1
  <2>3. CASE status[x.run] \notin Terminal
    <3>1. \E b : busy' = [busy EXCEPT ![x.run] = b]
      BY <1>7, <2>3 DEF BeginInterrupt
    <3>2. CASE x.run = r
      BY <2>1, <2>3, <3>2 DEF Unended
    <3>3. CASE x.run # r
      <4>1. busy'[r] = busy[r]
        BY <1>0, <3>1, <3>3
      <4>2. QED  BY <1>4, <2>1, <4>1
    <3>4. QED  BY <3>2, <3>3
  <2>4. QED  BY <2>2, <2>3
<1>8. ASSUME NEW m \in Leases, ApplyPatch(m) \/ ApplyRunComplete(m) PROVE Unended(r)'
  <2>1. /\ admitted[m] > 0 /\ busy' = busy
        /\ \E s : status' = [status EXCEPT ![RunOf(m)] = s]
    BY <1>8 DEF ApplyPatch, ApplyRunComplete, schedVars
  <2>2. m \in held
    BY <1>0, <1>8, <2>1 DEF HeldOK
  <2>3. LockFree(RunOf(m))
    BY <2>2, RunOfHeld
  <2>4. QED  BY <1>5, <2>1, <2>3
<1>9. ASSUME RestartHost PROVE Unended(r)'
  <2>1. busy'[r] = Free
    BY <1>9 DEF RestartHost
  <2>2. QED  BY <1>1, <1>2, <2>1
<1>10. ASSUME \A q \in Runs : ~SchedulerStep(q) /\ ~Command(q),
              \A m \in Leases : ~ApplyPatch(m) /\ ~ApplyRunComplete(m),
              \A x \in lost : ~BeginInterrupt(x), ~RestartHost
       PROVE  UNCHANGED <<status, busy>>
    BY ZenonT(60), <1>10 DEF Next, DispatchQueued, Redrive, HostStep, ClaimLands,
                ExpireLease, AdmitReport, FinishCompletion, ClaimFails, Execution, BeginAttempt,
                Checkpoint, FinalizePr, Conclude, SendComplete, FenceSelf, ConnectionStep,
                HandleRegister, HandleRejected, HandleDisconnect, DaemonStep, Dial, HandleDispatch,
                HandleCancel, HandleLeaseLost, HandleRunCompleteAck, Receives, BreakSocket,
                RestartWorker, storeVars, schedVars
<1>11. QED  BY <1>4, <1>6, <1>7, <1>8, <1>9, <1>10

\* The commands of users are counted, one at a time.
LEMMA CommandsAreCounted ==
    ASSUME "commands" \in DOMAIN spent, spent.commands \in Nat, Next
    PROVE  "commands" \in DOMAIN spent' /\ spent'.commands \in Nat
<1>1. ASSUME NEW what, NEW limit, Spend(what, limit)
      PROVE  "commands" \in DOMAIN spent' /\ spent'.commands \in Nat
  <2>1. spent' = [spent EXCEPT ![what] = @ + 1]
    BY <1>1 DEF Spend
  <2>2. "commands" \in DOMAIN spent'
    BY <2>1
  <2>3. CASE what = "commands"
    BY <2>1, <2>3
  <2>4. CASE what # "commands"
    BY <2>1, <2>4
  <2>5. QED  BY <2>2, <2>3, <2>4
<1>2. \/ spent' = spent
      \/ Spend("commands", MaxCommands) \/ Spend("breaks", MaxBreaks)
      \/ Spend("hostRestarts", MaxHostRestarts) \/ Spend("workerRestarts", MaxWorkerRestarts)
      \/ Spend("writeFailures", MaxWriteFailures) \/ Spend("fences", MaxFences)
    BY ZenonT(60) DEF Next, DispatchQueued, DispatchHead, DispatchBlocked, Issue, Redrive,
                BeginInterrupt, SchedulerStep, Command,
                Enqueue, Adopt, Requeue, JoinQueue, FollowUpGranted, FollowUpRefused, Resume, Cancel,
                Retry, FollowUp, StartOver, HostStep, ClaimLands, ExpireLease, AdmitReport,
                ApplyPatch, ApplyRunComplete, FinishCompletion, ClaimFails, Execution, BeginAttempt,
                Checkpoint, FinalizePr, Conclude, SendComplete, FenceSelf, ConnectionStep,
                HandleRegister, HandleRejected, HandleDisconnect, DaemonStep, Dial, HandleDispatch,
                HandleCancel, HandleLeaseLost, HandleRunCompleteAck, Receives, BreakSocket,
                RestartWorker, RestartHost, histVars
<1>3. QED  BY <1>1, <1>2

\* The inductive invariant behind NoLateReportMovesARun.
LEMMA NobodyReportsLate == Spec /\ [][Unhurried]_vars => [](OwnershipInv /\ PlaceInv /\ LateInv)
<1>1. Init => OwnershipInv /\ LateInv
  <2> SUFFICES ASSUME Init PROVE LateInv
    BY InitOwnership
  <2>1. ASSUME NEW l \in Leases PROVE OneEnding(l) /\ EndedAs(l)
    <3>1. reports[l] = <<>> /\ l \notin held /\ DOMAIN <<>> = {}
      BY DEF Init
    <3>2. QED  BY <3>1 DEF OneEnding, EndedAs
  <2>2. ASSUME NEW r \in Runs PROVE Unended(r)
    BY DEF Init, Unended, Free
  <2>3. "commands" \in DOMAIN spent /\ spent.commands \in Nat
    BY DEF Init
  <2>4. QED  BY <2>1, <2>2, <2>3 DEF LateInv
<1>2. OwnershipInv /\ PlaceInv /\ PlaceInv' /\ LateInv /\ [Next]_vars /\ [Unhurried]_vars
        => OwnershipInv' /\ LateInv'
  <2> SUFFICES ASSUME OwnershipInv, PlaceInv, PlaceInv', LateInv, [Next]_vars, [Unhurried]_vars
               PROVE  LateInv'
    BY StepsKeepOwnership
  <2>1. CASE Next /\ Unhurried
    <3>1. \A l \in Leases : OneEnding(l)' /\ EndedAs(l)'
      BY <2>1, StepsKeepEndings
    <3>2. \A r \in Runs : Unended(r)'
      BY <2>1, StepsKeepUnended
    <3>3. "commands" \in DOMAIN spent' /\ spent'.commands \in Nat
      BY <2>1, CommandsAreCounted DEF LateInv
    <3>4. QED  BY <3>1, <3>2, <3>3 DEF LateInv
  <2>2. CASE UNCHANGED vars
    <3>1. UNCHANGED <<status, busy, spent, held, reports, grant, running, stage>>
      BY <2>2 DEF vars, storeVars, schedVars, bookVars, reportVars, workerVars, histVars
    <3>2. \A l \in Leases : OneEnding(l)' /\ EndedAs(l)'
      BY <3>1 DEF LateInv, OneEnding, EndedAs, RunOf
    <3>3. \A r \in Runs : Unended(r)'
      BY <3>1 DEF LateInv, Unended
    <3>4. QED  BY <3>1, <3>2, <3>3 DEF LateInv
  <2>3. QED  BY <2>1, <2>2
<1>3. [Unhurried]_vars => [Orderly]_vars
    BY DEF Unhurried
<1>4. QED  BY <1>1, <1>2, <1>3, RunsArePlaced, PTL DEF Spec

\* The run of no lease is moved by the scheduler and by commands.
LEMMA UnleasedRunsMove ==
    ASSUME OwnershipInv, PlaceInv, LateInv, Next, NEW r \in Runs, status'[r] # status[r],
           \A l \in held : RunOf(l) # r
    PROVE  Enqueue(r) \/ Adopt(r) \/ Requeue(r) \/ FollowUpGranted(r) \/ Cancel(r)
<1>0. HeldOK /\ DOMAIN status = Runs
    BY DEF OwnershipInv, PlaceInv, SchedulerOK
<1>1. ASSUME NEW q \in Runs, SchedulerStep(q) \/ Command(q)
      PROVE  Enqueue(r) \/ Adopt(r) \/ Requeue(r) \/ FollowUpGranted(r) \/ Cancel(r)
  <2>1. \/ status' = status
        \/ /\ Enqueue(q) \/ Adopt(q) \/ Requeue(q) \/ FollowUpGranted(q) \/ Cancel(q)
           /\ \E s : status' = [status EXCEPT ![q] = s]
    BY <1>1 DEF SchedulerStep, Command, Enqueue, Adopt, Requeue, JoinQueue, FollowUpGranted,
                FollowUpRefused, Resume, Retry, FollowUp, StartOver, Cancel, CancelHere,
                CancelOnWorker, storeVars
  <2>2. (\E s : status' = [status EXCEPT ![q] = s]) => q = r
    BY <1>0
  <2>3. QED  BY <2>1, <2>2
<1>2. ASSUME NEW m \in Leases, ApplyPatch(m) \/ ApplyRunComplete(m) PROVE FALSE
  <2>1. admitted[m] > 0 /\ \E s : status' = [status EXCEPT ![RunOf(m)] = s]
    BY <1>2 DEF ApplyPatch, ApplyRunComplete
  <2>2. m \in held
    BY <1>0, <1>2, <2>1 DEF HeldOK
  <2>3. QED  BY <1>0, <2>1, <2>2
<1>3. ASSUME \A q \in Runs : ~SchedulerStep(q) /\ ~Command(q),
             \A m \in Leases : ~ApplyPatch(m) /\ ~ApplyRunComplete(m)
      PROVE  UNCHANGED status
    BY ZenonT(60), <1>3 DEF Next, DispatchQueued, Redrive, BeginInterrupt, HostStep, ClaimLands,
                ExpireLease, AdmitReport, FinishCompletion, ClaimFails, Execution, BeginAttempt,
                Checkpoint, FinalizePr, Conclude, SendComplete, FenceSelf, ConnectionStep,
                HandleRegister, HandleRejected, HandleDisconnect, DaemonStep, Dial, HandleDispatch,
                HandleCancel, HandleLeaseLost, HandleRunCompleteAck, Receives, BreakSocket,
                RestartWorker, RestartHost, storeVars
<1>4. QED  BY <1>1, <1>2, <1>3

\* A run that is over is brought back by its lock's holder alone, and one in the
\* queue is taken out by a command or handed out.
LEMMA MovingInTime ==
    ASSUME OwnershipInv, PlaceInv, LateInv, Next, Unhurried, NEW r \in Runs, status'[r] # status[r]
    PROVE  /\ status[r] \in Terminal => busy'[r] = Busy("requeueing", None)
           /\ status[r] = "queued" /\ Contains(queue, r) /\ status'[r] # "queued"
                => spent'.commands > spent.commands
<1>0. /\ BooksOK /\ BuffersOK /\ HeldOK /\ Placed(r) /\ Unended(r)
      /\ DOMAIN busy = Runs /\ DOMAIN status = Runs
      /\ "commands" \in DOMAIN spent /\ spent.commands \in Nat
    BY DEF OwnershipInv, PlaceInv, LateInv, SchedulerOK
<1>1. Free.op = "free" /\ "new" \notin Terminal
    BY DEF Free, Terminal
<1>2. ASSUME NEW l \in held, RunOf(l) = r
      PROVE  status[r] \notin Terminal /\ ~Contains(queue, r)
  <2>1. l \in Leases /\ ~Contains(queue, r)
    BY <1>0, <1>2, RunOfHeld, Granted
  <2>2. ApplyPatch(l) \/ ApplyRunComplete(l)
    BY <1>2, ReportsMoveARun
  <2>3. /\ admitted[l] > 0 /\ status' = [status EXCEPT ![r] = Head(reports[l]).status]
    BY <1>2, <2>2 DEF ApplyPatch, ApplyRunComplete
  <2>4. reports[l] # <<>>
    BY <1>0, <2>1, <2>3, AdmittedAre
  <2>5. 1 \in DOMAIN reports[l] /\ Head(reports[l]) = reports[l][1]
    BY <1>0, <2>1, <2>4, HeadReport
  <2>6. status'[r] = reports[l][1].status
    BY <1>0, <2>3, <2>5
  <2>7. EndedAs(l)
    BY <2>1 DEF LateInv
  <2>8. status[r] \notin Terminal
    BY <1>2, <2>5, <2>6, <2>7 DEF EndedAs
  <2>9. QED  BY <2>1, <2>8
<1>3. ASSUME \A l \in held : RunOf(l) # r
      PROVE  Enqueue(r) \/ Adopt(r) \/ Requeue(r) \/ FollowUpGranted(r) \/ Cancel(r)
    BY <1>3, UnleasedRunsMove
<1>4. CASE Enqueue(r)
  <2>1. status[r] = "new"
    BY <1>4 DEF Enqueue
  <2>2. QED  BY <1>1, <2>1
<1>5. CASE Adopt(r) \/ Requeue(r)
  <2>1. busy[r].op \in {"adopting", "returning"}
    BY <1>5 DEF Adopt, Requeue
  <2>2. ~Contains(queue, r)
    BY <1>0, <1>1, <2>1 DEF Placed, LockFree
  <2>3. status[r] \in Terminal => busy[r].op = "returning" /\ busy[r].by = None
    BY <1>0, <2>1 DEF Unended
  <2>4. busy[r].op = "returning" /\ busy[r].by = None => busy'[r] = Busy("requeueing", None)
    BY <1>0, <1>5 DEF Adopt, Requeue
  <2>5. QED  BY <2>2, <2>3, <2>4
<1>6. CASE FollowUpGranted(r)
  <2>1. busy[r].op = "checking" /\ busy'[r] = Busy("requeueing", None)
    BY <1>0, <1>6 DEF FollowUpGranted
  <2>2. ~Contains(queue, r)
    BY <1>0, <1>1, <2>1 DEF Placed, LockFree
  <2>3. QED  BY <2>1, <2>2
<1>7. CASE Cancel(r)
  <2>1. status[r] \notin Terminal /\ spent' = [spent EXCEPT !["commands"] = @ + 1]
    BY <1>7 DEF Cancel, Spend
  <2>2. spent'.commands = spent.commands + 1
    BY <1>0, <2>1
  <2>3. QED  BY <1>0, <2>1, <2>2
<1>8. QED  BY <1>2, <1>3, <1>4, <1>5, <1>6, <1>7

\* No late report moves a run: one that is over stays as it ended until a retry or
\* a follow-up brings it back, and one in the queue stays there until it is handed
\* out or cancelled (state.ts isTerminal, scheduler.ts #dispatchQueued, workers.ts
\* #applyRunPatch and #applyRunComplete), for as long as the steps are orderly and
\* nobody cancels a waiting run whose execution has yet to say that it is over.
THEOREM ReportsComeInTime == Spec /\ [][Unhurried]_vars => NoLateReportMovesARun
<1>1. OwnershipInv /\ PlaceInv /\ LateInv /\ [Next]_vars /\ [Unhurried]_vars
      => [\A r \in Runs : status'[r] # status[r] =>
            /\ status[r] \in Terminal => busy'[r] = Busy("requeueing", None)
            /\ status[r] = "queued" /\ Contains(queue, r) /\ status'[r] # "queued"
                 => spent'.commands > spent.commands]_vars
  <2>1. CASE UNCHANGED vars
    BY <2>1
  <2>2. CASE ~UNCHANGED vars
    BY <2>2, MovingInTime
  <2>3. QED  BY <2>1, <2>2
<1>2. QED  BY <1>1, NobodyReportsLate, PTL DEF Spec, NoLateReportMovesARun

-----------------------------------------------------------------------------
(* What is asked for *)

\* A refusal that the host reads is on its way.
LEMMA RefusalIsComing ==
    ASSUME SocketsOK, NEW w \in Workers, HandleRejected(w) PROVE Coming(Head(toHost[w]).lease)
<1>1. PICK f : f = Head(toHost[w])
    OBVIOUS
<1>2. toHost[w] \in Seq(WorkerFrames) /\ toHost[w] # <<>> /\ f.type = "dispatch-rejected"
    BY <1>1 DEF HandleRejected, SocketsOK
<1>3. f \in WorkerFrames /\ f = toHost[w][1] /\ 1 \in DOMAIN toHost[w]
    BY <1>1, <1>2
<1>4. f = Msg("dispatch-rejected", f.lease)
    BY <1>2, <1>3 DEF WorkerFrames, Msg
<1>5. QED  BY <1>1, <1>3, <1>4 DEF Coming, Refused

\* The marker of a run is as it was when nothing about the run changes.
LEMMA MarkStays ==
    ASSUME NEW q \in Runs, Marked(q), status'[q] = "new" => status[q] = "new",
           busy'[q] = busy[q], wanted'[q] = wanted[q],
           Contains(queue', q) <=> Contains(queue, q), q \in followUps' <=> q \in followUps
    PROVE  Marked(q)'
BY DEF Marked

\* One run is moved, and its marker is right.
LEMMA MarkingOne ==
    ASSUME KindInv, NEW r \in Runs, wanted' \in [Runs -> Kinds],
           UNCHANGED grant, held' \subseteq held,
           \A q \in Runs : q # r =>
                /\ status'[q] = "new" => status[q] = "new"
                /\ busy'[q] = busy[q] /\ wanted'[q] = wanted[q]
                /\ Contains(queue', q) <=> Contains(queue, q)
                /\ q \in followUps' <=> q \in followUps,
           \A x \in lost' : x.kind = wanted'[x.run],
           wanted'[r] = wanted[r] \/ \A l \in held : RunOf(l) \in Runs \ {r},
           Marked(r)'
    PROVE  KindInv'
<1>1. ASSUME NEW q \in Runs PROVE Marked(q)'
  <2>1. CASE q = r
    BY <2>1
  <2>2. CASE q # r
    BY <2>2, MarkStays DEF KindInv
  <2>3. QED  BY <2>1, <2>2
<1>2. ASSUME NEW l \in held' PROVE grant'[l].kind = wanted'[RunOf(l)']
  <2>1. RunOf(l)' = RunOf(l)
    BY DEF RunOf
  <2>2. grant[l].kind = wanted[RunOf(l)]
    BY DEF KindInv
  <2>3. CASE wanted'[r] = wanted[r]
    <3>1. wanted' = wanted
      BY <2>3 DEF KindInv
    <3>2. QED  BY <2>1, <2>2, <3>1
  <2>4. CASE wanted'[r] # wanted[r]
    BY <2>1, <2>2, <2>4
  <2>5. QED  BY <2>3, <2>4
<1>3. QED  BY <1>1, <1>2 DEF KindInv

\* A run in the queue or at work is marked nowhere else.
LEMMA MarkedWhere ==
    ASSUME OwnershipInv, PlaceInv, KindInv, NEW r \in Runs
    PROVE  /\ Contains(queue, r) => /\ status[r] = "queued" /\ leaseByRun[r] = None
                                    /\ busy[r] = Free /\ \A x \in lost : x.run # r
           /\ busy[r] # Free => /\ ~Contains(queue, r) /\ leaseByRun[r] = None
                                /\ status[r] # "new" /\ \A x \in lost : x.run # r
           /\ r \in followUps => Contains(queue, r) \/ busy[r] # Free
           /\ leaseByRun[r] = None => \A l \in held : RunOf(l) \in Runs \ {r}
<1>1. Placed(r) /\ Marked(r) /\ BooksOK /\ HeldOK
    BY DEF PlaceInv, KindInv, OwnershipInv
<1>2. Free.op = "free"
    BY DEF Free
<1>3. busy[r] # Free => \A x \in lost : x.run # r
    BY DEF PlaceInv
<1>4. \A l \in held : RunOf(l) \in Runs /\ leaseByRun[RunOf(l)] = l /\ l # None
    BY <1>1, HeldByRun
<1>5. QED  BY <1>1, <1>2, <1>3, <1>4 DEF Placed, LockFree, Marked

\* What the scheduler and a user do to a run leaves its marker right.
LEMMA SchedulingKeepsKinds ==
    ASSUME OwnershipInv, PlaceInv, KindInv, NEW r \in Runs,
           SchedulerStep(r) \/ Retry(r) \/ FollowUp(r),
           Retry(r) \/ FollowUp(r) \/ Resume(r) => leaseByRun[r] = None
    PROVE  KindInv'
<1>0. /\ queue \in Seq(Runs) /\ IsInjective(queue) /\ DOMAIN status = Runs /\ DOMAIN busy = Runs
      /\ wanted \in [Runs -> Kinds] /\ Marked(r) /\ Placed(r)
    BY DEF OwnershipInv, PlaceInv, SchedulerOK, KindInv
<1>1. UNCHANGED <<grant, held, lost>>
    BY DEF SchedulerStep, Enqueue, Adopt, Requeue, JoinQueue, FollowUpGranted, FollowUpRefused,
           Resume, Retry, FollowUp, StartOver, bookVars
<1>2. /\ Free.op = "free" /\ \A o, l : Busy(o, l).op = o
      /\ "implementation" # "follow-up" /\ {"implementation", "follow-up"} = Kinds
    BY DEF Free, Busy, Kinds
<1>3. ASSUME \A q \in Runs : q # r => /\ status'[q] = status[q] /\ busy'[q] = busy[q]
                                      /\ wanted'[q] = wanted[q]
                                      /\ Contains(queue', q) <=> Contains(queue, q)
                                      /\ q \in followUps' <=> q \in followUps,
             wanted' \in [Runs -> Kinds],
             wanted'[r] = wanted[r] \/ (leaseByRun[r] = None /\ \A x \in lost : x.run # r),
             Marked(r)'
      PROVE  KindInv'
  <2>1. wanted'[r] = wanted[r] \/ \A l \in held : RunOf(l) \in Runs \ {r}
    BY <1>3, MarkedWhere
  <2>2. ASSUME NEW x \in lost' PROVE x.kind = wanted'[x.run]
    <3>1. x \in lost /\ x.run \in Runs /\ x.kind = wanted[x.run]
      BY <1>1 DEF OwnershipInv, SchedulerOK, KindInv
    <3>2. CASE x.run = r
      BY <1>3, <3>1, <3>2
    <3>3. CASE x.run # r
      BY <1>3, <3>1, <3>3
    <3>4. QED  BY <3>2, <3>3
  <2>3. held' \subseteq held
    BY <1>1
  <2>4. QED  BY <1>1, <1>3, <2>1, <2>2, <2>3, MarkingOne
<1>4. ASSUME Enqueue(r) PROVE KindInv'
  <2>1. /\ status[r] = "new" /\ status' = [status EXCEPT ![r] = "queued"]
        /\ queue' = Append(queue, r) /\ UNCHANGED <<busy, followUps, wanted>>
    BY <1>4 DEF Enqueue, histVars
  <2>2. ~Contains(queue, r) /\ busy[r] = Free /\ r \notin followUps
        /\ wanted[r] = "implementation"
    BY <1>0, <2>1, MarkedWhere DEF Marked
  <2>3. \A q : Contains(queue', q) <=> Contains(queue, q) \/ q = r
    BY <1>0, <2>1, <2>2, ListingOne
  <2>4. Marked(r)'
    BY <1>0, <1>2, <2>1, <2>2, <2>3 DEF Marked
  <2>5. \A q \in Runs : q # r => status'[q] = status[q]
    BY <1>0, <2>1
  <2>6. QED  BY <1>0, <1>3, <2>1, <2>3, <2>4, <2>5
<1>5. ASSUME Adopt(r) \/ Requeue(r) \/ FollowUpGranted(r) PROVE KindInv'
  <2>1. /\ busy[r].op \in {"adopting", "returning", "checking"}
        /\ \E s \in {"completed", "queued"} : status' = [status EXCEPT ![r] = s]
        /\ UNCHANGED <<queue, followUps>>
        /\ \E b : busy' = [busy EXCEPT ![r] = b]
    BY <1>5 DEF Adopt, Requeue, FollowUpGranted
  <2>2. /\ ~Contains(queue, r) /\ leaseByRun[r] = None /\ \A x \in lost : x.run # r
    BY <1>2, <2>1, MarkedWhere
  <2>3. /\ \A q \in Runs : q # r => status'[q] = status[q] /\ busy'[q] = busy[q]
        /\ status'[r] # "new"
    BY <1>0, <2>1
  <2>4. CASE Adopt(r)
    <3>1. busy[r].op = "adopting" /\ busy'[r] = Free /\ UNCHANGED wanted
      BY <1>0, <2>4 DEF Adopt, histVars
    <3>2. Marked(r)'
      BY <1>0, <1>2, <2>1, <2>2, <2>3, <3>1 DEF Marked
    <3>3. QED  BY <1>0, <1>3, <2>1, <2>3, <3>1, <3>2
  <2>5. CASE Requeue(r)
    <3>1. /\ busy[r].op \in {"adopting", "returning"} /\ busy'[r].op = "requeueing"
          /\ UNCHANGED wanted
      BY <1>0, <1>2, <2>5 DEF Requeue, histVars
    <3>2. Marked(r)'
      BY <1>0, <1>2, <2>1, <2>2, <2>3, <3>1 DEF Marked
    <3>3. QED  BY <1>0, <1>3, <2>1, <2>3, <3>1, <3>2
  <2>6. CASE FollowUpGranted(r)
    <3>1. /\ busy[r].op = "checking" /\ busy'[r].op = "requeueing"
          /\ wanted' = [wanted EXCEPT ![r] = "follow-up"]
      BY <1>0, <1>2, <2>6 DEF FollowUpGranted
    <3>2. /\ wanted'[r] = "follow-up" /\ wanted' \in [Runs -> Kinds]
          /\ \A q \in Runs : q # r => wanted'[q] = wanted[q]
      BY <1>0, <1>2, <3>1
    <3>3. Marked(r)'
      BY <1>0, <1>2, <2>1, <2>2, <2>3, <3>1, <3>2 DEF Marked
    <3>4. QED  BY <1>0, <1>3, <2>1, <2>2, <2>3, <3>2, <3>3
  <2>7. QED  BY <1>5, <2>4, <2>5, <2>6
<1>6. ASSUME JoinQueue(r) PROVE KindInv'
  <2>1. /\ busy[r].op = "requeueing" /\ busy' = [busy EXCEPT ![r] = Free]
        /\ queue' = IF Contains(queue, r) THEN queue ELSE Append(queue, r)
        /\ UNCHANGED <<status, followUps, wanted>>
    BY <1>6 DEF JoinQueue, storeVars, histVars
  <2>2. ~Contains(queue, r) /\ status[r] # "new"
    BY <1>2, <2>1, MarkedWhere
  <2>3. \A q : Contains(queue', q) <=> Contains(queue, q) \/ q = r
    BY <1>0, <2>1, <2>2, ListingOne
  <2>4. busy'[r] = Free /\ \A q \in Runs : q # r => busy'[q] = busy[q]
    BY <1>0, <2>1
  <2>5. Marked(r)'
    BY <1>0, <1>2, <2>1, <2>2, <2>3, <2>4 DEF Marked
  <2>6. QED  BY <1>0, <1>3, <2>1, <2>3, <2>4, <2>5
<1>7. ASSUME FollowUpRefused(r) PROVE KindInv'
  <2>1. /\ busy[r].op = "checking" /\ busy' = [busy EXCEPT ![r] = Free]
        /\ followUps' = followUps \ {r} /\ UNCHANGED <<status, queue, wanted>>
    BY <1>7 DEF FollowUpRefused, storeVars, histVars
  <2>2. ~Contains(queue, r) /\ status[r] # "new"
    BY <1>2, <2>1, MarkedWhere
  <2>3. busy'[r] = Free /\ \A q \in Runs : q # r => busy'[q] = busy[q]
    BY <1>0, <2>1
  <2>4. Marked(r)'
    BY <1>0, <1>2, <2>1, <2>2, <2>3 DEF Marked
  <2>5. QED  BY <1>0, <1>3, <2>1, <2>3, <2>4
<1>8. ASSUME Resume(r) \/ Retry(r) \/ FollowUp(r) PROVE KindInv'
  <2>1. /\ LockFree(r) /\ leaseByRun[r] = None /\ UNCHANGED <<status, queue>>
        /\ status[r] \notin {"new", "queued"}
    BY <1>8 DEF Resume, Retry, FollowUp, StartOver, storeVars, Terminal
  <2>2. ~Contains(queue, r) /\ \A x \in lost : x.run # r
    BY <2>1, MarkedWhere DEF LockFree
  <2>3. r \notin followUps
    BY <2>1, <2>2, MarkedWhere DEF LockFree
  <2>4. CASE FollowUp(r)
    <3>1. /\ busy' = [busy EXCEPT ![r] = Busy("checking", None)]
          /\ followUps' = followUps \cup {r} /\ UNCHANGED wanted
      BY <2>4 DEF FollowUp
    <3>2. busy'[r].op = "checking" /\ \A q \in Runs : q # r => busy'[q] = busy[q]
      BY <1>0, <1>2, <3>1
    <3>3. Marked(r)'
      BY <1>0, <2>1, <2>2, <3>1, <3>2 DEF Marked
    <3>4. QED  BY <1>0, <1>3, <2>1, <3>1, <3>2, <3>3
  <2>5. CASE Resume(r) \/ Retry(r)
    <3>1. /\ busy' = [busy EXCEPT ![r] = Busy("returning", None)]
          /\ wanted' = [wanted EXCEPT ![r] = "implementation"] /\ UNCHANGED followUps
      BY <2>5 DEF Resume, Retry, StartOver
    <3>2. /\ busy'[r].op = "returning" /\ wanted'[r] = "implementation"
          /\ wanted' \in [Runs -> Kinds]
          /\ \A q \in Runs : q # r => busy'[q] = busy[q] /\ wanted'[q] = wanted[q]
      BY <1>0, <1>2, <3>1
    <3>3. Marked(r)'
      BY <1>0, <1>2, <2>1, <2>2, <2>3, <3>1, <3>2 DEF Marked
    <3>4. QED  BY <1>0, <1>3, <2>1, <2>2, <3>1, <3>2, <3>3
  <2>6. QED  BY <1>8, <2>4, <2>5
<1>9. QED  BY <1>4, <1>5, <1>6, <1>7, <1>8 DEF SchedulerStep

\* A cancel takes the marker with the run.
LEMMA CancelKeepsKinds ==
    ASSUME OwnershipInv, PlaceInv, KindInv, NEW r \in Runs, Cancel(r) PROVE KindInv'
<1>0. /\ queue \in Seq(Runs) /\ IsInjective(queue) /\ DOMAIN status = Runs
      /\ wanted \in [Runs -> Kinds] /\ Marked(r)
    BY DEF OwnershipInv, PlaceInv, SchedulerOK, KindInv
<1>1. UNCHANGED <<grant, held, busy, lost, wanted>> /\ LockFree(r)
    BY DEF Cancel
<1>2. Free.op = "free" /\ busy[r] = Free
    BY <1>1 DEF Free, LockFree
<1>3. /\ status' = status \/ status' = [status EXCEPT ![r] = "cancelled"]
      /\ \/ queue' = queue /\ followUps' = followUps
         \/ /\ Contains(queue, r) /\ queue' = Dequeued(r) /\ followUps' = followUps \ {r}
            /\ status' = [status EXCEPT ![r] = "cancelled"]
    BY DEF Cancel, CancelHere, CancelOnWorker
<1>4. \A q \in Runs : (status'[q] = "new" => status[q] = "new")
    BY <1>0, <1>3
<1>5. CASE queue' = queue /\ followUps' = followUps
  <2>1. Marked(r)'
    BY <1>0, <1>1, <1>4, <1>5 DEF Marked
  <2>2. held' \subseteq held /\ \A x \in lost' : x.kind = wanted'[x.run]
    BY <1>1 DEF KindInv
  <2>3. QED  BY <1>0, <1>1, <1>4, <1>5, <2>1, <2>2, MarkingOne
<1>6. CASE /\ Contains(queue, r) /\ queue' = Dequeued(r) /\ followUps' = followUps \ {r}
           /\ status' = [status EXCEPT ![r] = "cancelled"]
  <2>1. \A q : Contains(queue', q) <=> Contains(queue, q) /\ q # r
    BY <1>0, <1>6, TakingOut
  <2>2. status'[r] = "cancelled"
    BY <1>0, <1>6
  <2>3. Marked(r)'
    BY <1>1, <1>2, <1>6, <2>1, <2>2 DEF Marked
  <2>4. held' \subseteq held /\ \A x \in lost' : x.kind = wanted'[x.run]
    BY <1>1 DEF KindInv
  <2>5. QED  BY <1>0, <1>1, <1>4, <1>6, <2>1, <2>3, <2>4, MarkingOne
<1>7. QED  BY <1>3, <1>5, <1>6

\* An interruption marks a follow-up as one again.
LEMMA InterruptKeepsKinds ==
    ASSUME OwnershipInv, PlaceInv, KindInv, NEW x \in lost, BeginInterrupt(x) PROVE KindInv'
<1>1. PICK r : r = x.run
    OBVIOUS
<1>2. /\ r \in Runs /\ x.kind = wanted[r] /\ busy[r] = Free /\ DOMAIN busy = Runs
      /\ wanted \in [Runs -> Kinds]
    BY <1>1 DEF OwnershipInv, PlaceInv, SchedulerOK, KindInv
<1>3. Placed(r) /\ Marked(r) /\ Free.op = "free" /\ ~LockFree(r)
    BY <1>1, <1>2 DEF PlaceInv, KindInv, Free, LockFree
<1>4. status[r] # "new" /\ ~Contains(queue, r) /\ r \notin followUps
    BY <1>2, <1>3 DEF Placed, Marked
<1>5. UNCHANGED <<status, queue, grant, held, wanted>> /\ lost' = lost \ {x}
    BY DEF BeginInterrupt, storeVars, bookVars, histVars
<1>6. held' \subseteq held /\ \A y \in lost' : y.kind = wanted'[y.run]
    BY <1>5 DEF KindInv
<1>7. CASE UNCHANGED <<followUps, busy>>
  <2>1. Marked(r)'
    BY <1>3, <1>5, <1>7 DEF Marked
  <2>2. QED  BY <1>2, <1>5, <1>6, <1>7, <2>1, MarkingOne
<1>8. CASE status[r] \notin Terminal
  <2>1. PICK op \in {"adopting", "returning"} :
            /\ busy' = [busy EXCEPT ![r] = Busy(op, x.by)]
            /\ op = "adopting" => x.kind = "implementation"
    BY <1>1, <1>8 DEF BeginInterrupt, Adoptable
  <2>2. busy'[r].op = op /\ \A q \in Runs : q # r => busy'[q] = busy[q]
    BY <1>2, <2>1 DEF Busy
  <2>3. followUps' = IF x.kind = "follow-up" THEN followUps \cup {r} ELSE followUps
    BY <1>1, <1>8 DEF BeginInterrupt
  <2>4. Marked(r)'
    BY <1>2, <1>4, <1>5, <2>1, <2>2, <2>3 DEF Marked
  <2>5. \A q \in Runs : q # r => (q \in followUps' <=> q \in followUps)
    BY <2>3
  <2>6. QED  BY <1>2, <1>5, <1>6, <2>2, <2>4, <2>5, MarkingOne
<1>9. QED  BY <1>1, <1>7, <1>8 DEF BeginInterrupt

\* A dispatch reads the marker, and takes it off.
LEMMA DispatchKeepsKinds ==
    ASSUME OwnershipInv, PlaceInv, KindInv, DispatchQueued PROVE KindInv'
<1>0. /\ SchedulerOK /\ BooksOK /\ queue \in Seq(Runs) /\ IsInjective(queue)
      /\ wanted \in [Runs -> Kinds]
    BY DEF OwnershipInv, PlaceInv, SchedulerOK, KindInv
<1>1. UNCHANGED <<status, busy, lost, finishing, running, aborted, claimed>>
    BY DEF DispatchQueued, storeVars, reportVars, workerVars
<1>2. CASE DispatchBlocked
  <2>1. UNCHANGED <<queue, followUps, grant, held, wanted>>
    BY <1>2 DEF DispatchBlocked, bookVars, histVars
  <2>2. QED  BY <1>1, <2>1 DEF KindInv, Marked, RunOf
<1>3. CASE DispatchHead
  <2>0. PICK r : r = Head(queue)
    OBVIOUS
  <2>1. /\ queue # <<>> /\ queue' = Tail(queue) /\ r \in Runs
        /\ status[r] = "queued" => /\ \E l \in Unused, w \in Placements : Issue(l, w, r)
                                   /\ followUps' = followUps \ {r}
    BY <1>0, <1>3, <2>0 DEF DispatchHead
  <2>2. /\ Contains(queue, r)
        /\ \A q : Contains(queue', q) <=> Contains(queue, q) /\ q # r
    BY <1>0, <2>0, <2>1, TakingTheFirst
  <2>3. status[r] = "queued" /\ busy[r] = Free /\ Marked(r)
    BY <2>1, <2>2, MarkedWhere DEF KindInv
  <2>4. PICK l \in Unused, w \in Placements : Issue(l, w, r)
    BY <2>1, <2>3
  <2>5. /\ l \in Leases /\ RunOf(l)' = r /\ l \notin held
        /\ \A m \in Leases : m # l => grant'[m] = grant[m]
    BY <1>0, <1>1, <2>1, <2>4, IssueKeepsBooks, DispatchAssumption DEF Unused
  <2>6. /\ held' = held \cup {l} /\ UNCHANGED wanted /\ followUps' = followUps \ {r}
        /\ grant'[l].kind = IF r \in followUps THEN "follow-up" ELSE "implementation"
    BY <1>0, <2>1, <2>3, <2>4, <2>5 DEF Issue, BooksOK
  <2>7. grant'[l].kind = wanted'[RunOf(l)']
    BY <1>0, <2>1, <2>2, <2>3, <2>5, <2>6 DEF Marked, Kinds
  <2>8. ASSUME NEW m \in held PROVE grant'[m].kind = wanted'[RunOf(m)']
    <3>1. m \in Leases /\ m # l
      BY <1>0, <2>5, Granted
    <3>2. grant'[m] = grant[m] /\ RunOf(m)' = RunOf(m)
      BY <2>5, <3>1 DEF RunOf
    <3>3. QED  BY <2>6, <3>2 DEF KindInv
  <2>9. ASSUME NEW q \in Runs PROVE Marked(q)'
    <3>1. CASE q = r
      <4>1. Free.op = "free" /\ ~Contains(queue', r) /\ r \notin followUps'
        BY <2>2, <2>6 DEF Free
      <4>2. QED  BY <1>1, <2>3, <3>1, <4>1 DEF Marked
    <3>2. CASE q # r
      <4>1. Marked(q)
        BY DEF KindInv
      <4>2. QED  BY <1>1, <2>2, <2>6, <3>2, <4>1 DEF Marked
    <3>3. QED  BY <3>1, <3>2
  <2>10. \A m \in held' : grant'[m].kind = wanted'[RunOf(m)']
    BY <2>6, <2>7, <2>8
  <2>11. wanted' \in [Runs -> Kinds] /\ \A x \in lost' : x.kind = wanted'[x.run]
    BY <1>1, <2>6 DEF KindInv
  <2>12. QED  BY <2>9, <2>10, <2>11 DEF KindInv
<1>4. QED  BY <1>2, <1>3 DEF DispatchQueued

\* A lease that comes back unbegun puts its run in the queue, marked as it was.
LEMMA RejectingKeepsKinds ==
    ASSUME OwnershipInv, PlaceInv, KindInv, NEW l \in held, Coming(l), Settle({l}), Rejected(l),
           UNCHANGED <<grant, status, busy, lost, wanted>>
    PROVE  KindInv'
<1>0. BooksOK /\ HeldOK /\ queue \in Seq(Runs) /\ IsInjective(queue) /\ wanted \in [Runs -> Kinds]
    BY DEF OwnershipInv, PlaceInv, SchedulerOK, KindInv
<1>1. PICK r : r = RunOf(l)
    OBVIOUS
<1>2. r \in Runs /\ busy[r] = Free /\ ~Contains(queue, r) /\ status[r] = "queued"
    BY <1>0, <1>1, RunOfHeld DEF HeldOK
<1>3. r \notin followUps /\ grant[l].kind = wanted[r]
    BY <1>1, <1>2, MarkedWhere DEF KindInv
<1>4. /\ queue' = <<r>> \o queue
      /\ followUps' = IF grant[l].kind = "follow-up" THEN followUps \cup {r} ELSE followUps
    BY <1>1, <1>2 DEF Rejected
<1>5. \A q : Contains(queue', q) <=> Contains(queue, q) \/ q = r
    BY <1>0, <1>2, <1>4, ListingOne
<1>6. Marked(r)'
    BY <1>2, <1>3, <1>4, <1>5 DEF Marked, Free
<1>7. \A q \in Runs : q # r => (q \in followUps' <=> q \in followUps)
    BY <1>4
<1>8. held' \subseteq held /\ \A x \in lost' : x.kind = wanted'[x.run]
    BY DEF Settle, KindInv
<1>9. QED  BY <1>0, <1>2, <1>5, <1>6, <1>7, <1>8, MarkingOne

\* The refusals and failures of one lease leave the markers right.
LEMMA RefusalKeepsKinds ==
    ASSUME OwnershipInv, PlaceInv, KindInv,
           \/ \E l \in held : ClaimFails(l)
           \/ \E w \in Workers : HandleRejected(w)
    PROVE  KindInv'
<1>0. SocketsOK
    BY DEF OwnershipInv, RecordInv
<1>1. UNCHANGED <<grant, status, busy, lost, wanted>>
    BY DEF ClaimFails, HandleRejected, storeVars, histVars
<1>2. ASSUME NEW l \in held, ClaimFails(l) PROVE KindInv'
  <2>1. Coming(l) /\ Settle({l}) /\ Rejected(l)
    BY <1>2 DEF ClaimFails, Coming
  <2>2. QED  BY <1>1, <2>1, RejectingKeepsKinds
<1>3. ASSUME NEW w \in Workers, HandleRejected(w) PROVE KindInv'
  <2>1. PICK l : l = Head(toHost[w]).lease
    OBVIOUS
  <2>2. CASE l \in HeldBy(w)
    <3>1. l \in held /\ Settle({l}) /\ Rejected(l)
      BY <1>3, <2>1, <2>2 DEF HandleRejected, HeldBy
    <3>2. Coming(l)
      BY <1>0, <1>3, <2>1, RefusalIsComing
    <3>3. QED  BY <1>1, <3>1, <3>2, RejectingKeepsKinds
  <2>3. CASE l \notin HeldBy(w)
    <3>1. UNCHANGED <<held, queue, followUps>>
      BY <1>3, <2>1, <2>3 DEF HandleRejected
    <3>2. QED  BY <1>1, <3>1 DEF KindInv, Marked, RunOf
  <2>4. QED  BY <2>2, <2>3
<1>4. QED  BY <1>2, <1>3

\* An interruption remembers what its lease was for.
LEMMA ExpiringKeepsKinds ==
    ASSUME OwnershipInv, KindInv, \/ \E l \in Leases : ExpireLease(l)
                                  \/ \E w \in Workers : HandleRegister(w)
    PROVE  KindInv'
<1>1. UNCHANGED <<grant, status, busy, queue, followUps, wanted>>
    BY DEF ExpireLease, HandleRegister, storeVars, histVars
<1>2. PICK S \in SUBSET held : held' = held \ S /\ lost' = lost \cup Interruptions(S)
  <2>1. ASSUME NEW l \in Leases, ExpireLease(l)
        PROVE  \E S \in SUBSET held : held' = held \ S /\ lost' = lost \cup Interruptions(S)
    <3>1. {l} \in SUBSET held /\ held' = held \ {l} /\ lost' = lost \cup Interruptions({l})
      BY <2>1 DEF ExpireLease, Settle
    <3>2. QED  BY <3>1
  <2>2. ASSUME NEW w \in Workers, HandleRegister(w)
        PROVE  \E S \in SUBSET held : held' = held \ S /\ lost' = lost \cup Interruptions(S)
    <3>1. PICK S : S = Unclaimed(w, Head(toHost[w]).leases)
      OBVIOUS
    <3>2. S \in SUBSET held /\ held' = held \ S /\ lost' = lost \cup Interruptions(S)
      BY <2>2, <3>1 DEF HandleRegister, Settle, Unclaimed, HeldBy
    <3>3. QED  BY <3>2
  <2>3. QED  BY <2>1, <2>2
<1>3. ASSUME NEW x \in lost' PROVE x.kind = wanted'[x.run]
  <2>1. CASE x \in lost
    BY <1>1, <2>1 DEF KindInv
  <2>2. CASE x \in Interruptions(S)
    <3>1. PICK l \in S : x = [run |-> RunOf(l), kind |-> grant[l].kind, by |-> l]
      BY <2>2 DEF Interruptions
    <3>2. QED  BY <1>1, <3>1 DEF KindInv
  <2>3. QED  BY <1>2, <2>1, <2>2
<1>4. \A r \in Runs : Marked(r)'
    BY <1>1 DEF KindInv, Marked
<1>5. \A l \in held' : grant'[l].kind = wanted'[RunOf(l)']
    BY <1>1, <1>2 DEF KindInv, RunOf
<1>6. QED  BY <1>1, <1>3, <1>4, <1>5 DEF KindInv

\* A host that boots with no follow-up under way marks none.
LEMMA BootKeepsKinds ==
    ASSUME OwnershipInv, PlaceInv, KindInv, RestartHost,
           \A r \in Runs : status[r] \in {"queued", "active"} => wanted[r] = "implementation"
    PROVE  KindInv'
<1>0. HeldOK /\ BooksOK /\ DOMAIN status = Runs /\ status \in [Runs -> Statuses]
    BY DEF OwnershipInv, PlaceInv, SchedulerOK
<1>1. PICK torn :
        LET kept == Restored(stored \ torn)
            open == {r \in Runs : status[r] \notin Terminal \cup {"new", "waiting"}}
            free == Unleased(open, kept)
        IN
        /\ held' = kept
        /\ followUps' = {RunOf(l) : l \in {m \in kept : /\ RunOf(m) \in open
                                                        /\ grant[m].kind = "follow-up"}}
        /\ queue' \in SetToSeqs({r \in free : status[r] = "queued"})
        /\ lost' = {[run |-> r, kind |-> "implementation", by |-> None] :
                        r \in {q \in free : status[q] # "queued"}}
    BY DEF RestartHost
<1>2. PICK kept : kept = Restored(stored \ torn)
    OBVIOUS
<1>3. PICK open : open = {r \in Runs : status[r] \notin Terminal \cup {"new", "waiting"}}
    OBVIOUS
<1>4. PICK free : free = Unleased(open, kept)
    OBVIOUS
<1>5. PICK Q : Q = {r \in free : status[r] = "queued"}
    OBVIOUS
<1>6. /\ held' = kept
      /\ followUps' = {RunOf(l) : l \in {m \in kept : /\ RunOf(m) \in open
                                                      /\ grant[m].kind = "follow-up"}}
      /\ queue' \in SetToSeqs(Q)
      /\ lost' = {[run |-> r, kind |-> "implementation", by |-> None] :
                        r \in {q \in free : status[q] # "queued"}}
    BY <1>1, <1>2, <1>3, <1>4, <1>5
<1>7. UNCHANGED <<status, grant, wanted>> /\ busy' = [r \in Runs |-> Free]
    BY DEF RestartHost, storeVars
<1>8. kept \subseteq held
    BY <1>0, <1>2 DEF Restored, HeldOK
<1>9. ASSUME NEW r \in open PROVE r \in Runs /\ wanted[r] = "implementation"
    BY <1>0, <1>3, <1>9 DEF Statuses
<1>10. free \subseteq open /\ Q \in SUBSET Runs
    BY <1>3, <1>4, <1>5 DEF Unleased
<1>11. followUps' = {}
  <2>1. ASSUME NEW m \in kept, RunOf(m) \in open, grant[m].kind = "follow-up" PROVE FALSE
    <3>1. wanted[RunOf(m)] = "follow-up"
      BY <1>8, <2>1 DEF KindInv
    <3>2. QED  BY <1>9, <2>1, <3>1
  <2>2. QED  BY <1>6, <2>1
<1>12. \A q : Contains(queue', q) <=> q \in Q
    BY <1>6, <1>10, ListingRuns
<1>13. ASSUME NEW r \in Runs PROVE Marked(r)'
  <2>1. busy'[r].op = "free"
    BY <1>7 DEF Free
  <2>2. Contains(queue', r) => wanted'[r] = "implementation"
    BY <1>5, <1>7, <1>9, <1>10, <1>12
  <2>3. status'[r] = "new" => wanted'[r] = "implementation"
    BY <1>7 DEF KindInv, Marked
  <2>4. QED  BY <1>11, <2>1, <2>2, <2>3 DEF Marked
<1>14. ASSUME NEW x \in lost' PROVE x.kind = "implementation" /\ x.kind = wanted'[x.run]
  <2>1. PICK r \in free : x = [run |-> r, kind |-> "implementation", by |-> None]
    BY <1>6
  <2>2. QED  BY <1>7, <1>9, <1>10, <2>1
<1>15. \A l \in held' : grant'[l].kind = wanted'[RunOf(l)']
    BY <1>6, <1>7, <1>8 DEF KindInv, RunOf
<1>16. QED  BY <1>7, <1>13, <1>14, <1>15 DEF KindInv

\* Everything else leaves the markers, and what the leases are for, alone.
LEMMA OthersKeepKinds ==
    ASSUME OwnershipInv, KindInv,
           UNCHANGED <<queue, followUps, busy, wanted, grant>>,
           held' \subseteq held, lost' \subseteq lost,
           \A r \in Runs : status'[r] = "new" => status[r] = "new"
    PROVE  KindInv'
<1>1. \A r \in Runs : Marked(r)'
    BY DEF KindInv, Marked
<1>2. \A l \in held' : grant'[l].kind = wanted'[RunOf(l)']
    BY DEF KindInv, RunOf
<1>3. wanted' \in [Runs -> Kinds] /\ \A x \in lost' : x.kind = wanted'[x.run]
    BY DEF KindInv
<1>4. QED  BY <1>1, <1>2, <1>3 DEF KindInv

\* A report leaves no run new.
LEMMA ReportsMakeNothingNew ==
    ASSUME OwnershipInv, PlaceInv, NEW l \in Leases, ApplyPatch(l) \/ ApplyRunComplete(l)
    PROVE  \A r \in Runs : status'[r] = "new" => status[r] = "new"
<1>0. BooksOK /\ BuffersOK /\ HeldOK /\ DOMAIN status = Runs
    BY DEF OwnershipInv, PlaceInv, SchedulerOK
<1>1. admitted[l] > 0 /\ status' = [status EXCEPT ![RunOf(l)] = Head(reports[l]).status]
    BY DEF ApplyPatch, ApplyRunComplete
<1>2. reports[l] # <<>>
    BY <1>0, <1>1, AdmittedAre
<1>3. Head(reports[l]).status # "new"
    BY <1>0, <1>2, HeadReport DEF Reports, Terminal
<1>4. QED  BY <1>0, <1>1, <1>3

\* A step keeps the markers right, and what a run is leased for what it was asked for.
LEMMA StepsKeepKinds ==
    ASSUME OwnershipInv, PlaceInv, KindInv, Next, MarkersKept PROVE KindInv'
<1>0. Orderly
    BY DEF MarkersKept
<1>1. CASE DispatchQueued
    BY <1>1, DispatchKeepsKinds
<1>2. CASE \E x \in lost : BeginInterrupt(x)
    BY <1>2, InterruptKeepsKinds
<1>3. CASE \E r \in Runs : SchedulerStep(r) \/ Command(r)
  <2>1. PICK r \in Runs : SchedulerStep(r) \/ Command(r)
    BY <1>3
  <2>2. Retry(r) \/ FollowUp(r) \/ Resume(r) => leaseByRun[r] = None
    BY <1>0 DEF Orderly
  <2>3. QED  BY <2>1, <2>2, SchedulingKeepsKinds, CancelKeepsKinds DEF Command
<1>4. CASE \/ \E l \in Leases : ClaimFails(l)
           \/ \E w \in Workers : HandleRejected(w)
  <2>1. \A l \in Leases : ClaimFails(l) => l \in held
    BY <1>0 DEF Orderly
  <2>2. QED  BY <1>4, <2>1, RefusalKeepsKinds
<1>5. CASE \/ \E l \in Leases : ExpireLease(l)
           \/ \E w \in Workers : HandleRegister(w)
    BY <1>5, ExpiringKeepsKinds
<1>6. CASE RestartHost
  <2>1. \A r \in Runs : status[r] \in {"queued", "active"} => wanted[r] = "implementation"
    BY <1>6 DEF MarkersKept
  <2>2. QED  BY <1>6, <2>1, BootKeepsKinds
<1>7. CASE \E l \in Leases : ApplyPatch(l) \/ ApplyRunComplete(l)
  <2>1. PICK l \in Leases : ApplyPatch(l) \/ ApplyRunComplete(l)
    BY <1>7
  <2>2. UNCHANGED <<queue, followUps, busy, lost, wanted, grant, held>>
    BY <2>1 DEF ApplyPatch, ApplyRunComplete, schedVars, bookVars, histVars
  <2>3. held' \subseteq held /\ lost' \subseteq lost
    BY <2>2
  <2>4. QED  BY <2>1, <2>2, <2>3, ReportsMakeNothingNew, OthersKeepKinds
<1>8. CASE \/ Redrive
           \/ \E l \in Leases : \/ ClaimLands(l) \/ AdmitReport(l) \/ FinishCompletion(l)
                                \/ Execution(l) \/ FenceSelf(l)
           \/ \E w \in Workers : HandleDisconnect(w) \/ DaemonStep(w) \/ BreakSocket(w)
                                 \/ RestartWorker(w)
  <2>1. /\ UNCHANGED <<status, queue, followUps, busy, lost, wanted, grant>>
        /\ held' \subseteq held
    BY ZenonT(60), <1>8 DEF Redrive, ClaimLands, AdmitReport, FinishCompletion, Settle, Execution,
           BeginAttempt, Checkpoint, FinalizePr, Conclude, SendComplete, FenceSelf,
           HandleDisconnect, DaemonStep, Dial, HandleDispatch, HandleCancel, HandleLeaseLost,
           HandleRunCompleteAck, Receives, BreakSocket, RestartWorker, storeVars, schedVars,
           bookVars, histVars
  <2>2. lost' \subseteq lost /\ \A r \in Runs : status'[r] = "new" => status[r] = "new"
    BY <2>1
  <2>3. QED  BY <2>1, <2>2, OthersKeepKinds
<1>9. QED  BY <1>1, <1>2, <1>3, <1>4, <1>5, <1>6, <1>7, <1>8
           DEF Next, HostStep, ConnectionStep

\* What every run was leased for is what it was last asked for, for as long as no
\* restart finds a follow-up under way: the inductive invariant behind the first
\* half of LeasesAreAsAsked.
LEMMA KindsAreKept ==
    Spec /\ [][MarkersKept]_vars => [](OwnershipInv /\ PlaceInv /\ KindInv)
<1>1. Init => OwnershipInv /\ KindInv
  <2> SUFFICES ASSUME Init PROVE KindInv
    BY InitOwnership
  <2>1. /\ queue = <<>> /\ held = {} /\ lost = {} /\ followUps = {}
        /\ wanted = [r \in Runs |-> "implementation"] /\ busy = [r \in Runs |-> Free]
    BY DEF Init
  <2>2. \A r \in Runs : ~Contains(queue, r)
    <3>1. DOMAIN <<>> = {}
      OBVIOUS
    <3>2. QED  BY <2>1, <3>1 DEF Contains
  <2>3. \A r \in Runs : Marked(r)
    BY <2>1, <2>2 DEF Marked, Free
  <2>4. QED  BY <2>1, <2>3 DEF KindInv, Kinds
<1>2. OwnershipInv /\ PlaceInv /\ PlaceInv' /\ KindInv /\ [Next]_vars /\ [MarkersKept]_vars
        => OwnershipInv' /\ KindInv'
  <2> SUFFICES ASSUME OwnershipInv, PlaceInv, KindInv, [Next]_vars, [MarkersKept]_vars
               PROVE  KindInv'
    BY StepsKeepOwnership
  <2>1. CASE Next /\ MarkersKept
    BY <2>1, StepsKeepKinds
  <2>2. CASE UNCHANGED vars
    <3>1. UNCHANGED <<status, queue, followUps, busy, lost, wanted, grant, held>>
      BY <2>2 DEF vars, storeVars, schedVars, bookVars, histVars
    <3>2. QED  BY <3>1, OthersKeepKinds
  <2>3. QED  BY <2>1, <2>2
<1>3. [MarkersKept]_vars => [Orderly]_vars
    BY DEF MarkersKept
<1>4. QED  BY <1>1, <1>2, <1>3, RunsArePlaced, PTL DEF Spec

\* Only a dispatch puts a lease on the host's books.
LEMMA OnlyDispatchIssues ==
    ASSUME OwnershipInv, PlaceInv, Next, ~DispatchQueued
    PROVE  claiming' \subseteq claiming /\ held' \subseteq held /\ UNCHANGED grant
<1>0. HeldOK
    BY DEF PlaceInv
<1>1. CASE RestartHost
    BY <1>0, <1>1 DEF RestartHost, Restored, HeldOK
<1>2. CASE ~RestartHost
    BY ZenonT(60), <1>2 DEF Next, Redrive, BeginInterrupt, SchedulerStep, Command, Enqueue, Adopt,
                Requeue, JoinQueue, FollowUpGranted, FollowUpRefused, Resume, Cancel, Retry,
                FollowUp, StartOver, HostStep, ClaimLands, ExpireLease, AdmitReport, ApplyPatch,
                ApplyRunComplete, FinishCompletion, ClaimFails, Execution, BeginAttempt, Checkpoint,
                FinalizePr, Conclude, SendComplete, FenceSelf, ConnectionStep, HandleRegister,
                HandleRejected, HandleDisconnect, DaemonStep, Dial, HandleDispatch, HandleCancel,
                HandleLeaseLost, HandleRunCompleteAck, Receives, BreakSocket, RestartWorker,
                Settle, bookVars
<1>3. QED  BY <1>1, <1>2

\* A dispatch issues one lease, to a run of the queue, for what its marker says and
\* with the pull request its record names.
LEMMA DispatchIssues ==
    ASSUME OwnershipInv, PlaceInv, KindInv, DispatchQueued
    PROVE  \/ /\ UNCHANGED <<held, claiming, grant>>
              /\ \A q \in Runs : Contains(queue', q) => Contains(queue, q)
           \/ \E l \in Leases, r \in Runs :
                /\ held' = held \cup {l} /\ claiming' = claiming \cup {l}
                /\ \A m \in Leases : m # l => grant'[m] = grant[m]
                /\ grant'[l].run = r /\ grant'[l].kind = wanted[r] /\ grant'[l].pr = result[r]
                /\ Contains(queue, r) /\ \A q \in Runs : Contains(queue', q) => Contains(queue, q)
<1>0. /\ SchedulerOK /\ BooksOK /\ queue \in Seq(Runs) /\ IsInjective(queue)
      /\ wanted \in [Runs -> Kinds] /\ DOMAIN grant = Leases
    BY DEF OwnershipInv, PlaceInv, SchedulerOK, KindInv, BooksOK
<1>1. CASE DispatchBlocked
    BY <1>1 DEF DispatchBlocked, bookVars
<1>2. CASE DispatchHead
  <2>0. PICK r : r = Head(queue)
    OBVIOUS
  <2>1. /\ queue # <<>> /\ queue' = Tail(queue) /\ r \in Runs
        /\ status[r] = "queued" => \E l \in Unused, w \in Placements : Issue(l, w, r)
    BY <1>0, <1>2, <2>0 DEF DispatchHead
  <2>2. Contains(queue, r) /\ \A q : Contains(queue', q) => Contains(queue, q)
    BY <1>0, <2>0, <2>1, TakingTheFirst
  <2>3. status[r] = "queued" /\ Marked(r)
    BY <2>1, <2>2, MarkedWhere DEF KindInv
  <2>4. PICK l \in Unused, w \in Placements : Issue(l, w, r)
    BY <2>1, <2>3
  <2>5. l \in Leases /\ held' = held \cup {l} /\ claiming' = claiming \cup {l}
    BY <2>4 DEF Issue, Unused
  <2>6. PICK g : g = [run |-> r, worker |-> w, pr |-> result[r],
                      kind |-> IF r \in followUps THEN "follow-up" ELSE "implementation"]
    OBVIOUS
  <2>7. grant' = [grant EXCEPT ![l] = g]
    BY <2>4, <2>6 DEF Issue
  <2>8. /\ \A m \in Leases : m # l => grant'[m] = grant[m]
        /\ grant'[l].run = r /\ grant'[l].pr = result[r]
        /\ grant'[l].kind = IF r \in followUps THEN "follow-up" ELSE "implementation"
    BY <1>0, <2>5, <2>6, <2>7
  <2>9. grant'[l].kind = wanted[r]
    BY <1>0, <2>1, <2>2, <2>3, <2>8 DEF Marked, Kinds
  <2>10. QED  BY <2>1, <2>2, <2>5, <2>8, <2>9
<1>3. QED  BY <1>1, <1>2 DEF DispatchQueued

\* The record of a run whose lease is on its way says what it said.
LEMMA ResultsOfComing ==
    ASSUME OwnershipInv, PlaceInv, Next, NEW l \in held, Coming(l)
    PROVE  result'[RunOf(l)] = result[RunOf(l)]
<1> DEFINE P == result'[RunOf(l)] = result[RunOf(l)]
<1>0. /\ BooksOK /\ HeldOK /\ DOMAIN result = Runs
    BY DEF OwnershipInv, PlaceInv, SchedulerOK
<1>1. /\ l \in Leases /\ RunOf(l) \in Runs /\ busy[RunOf(l)] = Free /\ admitted[l] = 0
    BY <1>0, Granted, RunOfHeld, ComingIsFresh
<1>2. ASSUME NEW q \in Runs, Adopt(q) \/ Requeue(q) PROVE P
  <2>1. /\ busy[q].op \in {"adopting", "returning"}
        /\ \E b : result' = [result EXCEPT ![q] = b]
    BY <1>2 DEF Adopt, Requeue
  <2>2. q # RunOf(l)
    BY <1>1, <2>1 DEF Free
  <2>3. QED  BY <1>0, <2>1, <2>2
<1>3. ASSUME NEW m \in Leases, ApplyPatch(m) \/ ApplyRunComplete(m) PROVE P
  <2>1. /\ admitted[m] > 0 /\ \E b : result' = [result EXCEPT ![RunOf(m)] = b]
    BY <1>3 DEF ApplyPatch, ApplyRunComplete
  <2>2. m \in held /\ m # l
    BY <1>0, <1>1, <1>3, <2>1 DEF HeldOK
  <2>3. RunOf(m) # RunOf(l)
    BY <1>0, <2>2, HeldByRun
  <2>4. QED  BY <1>0, <2>1, <2>3
<1>4. ASSUME \A q \in Runs : ~Adopt(q) /\ ~Requeue(q),
             \A m \in Leases : ~ApplyPatch(m) /\ ~ApplyRunComplete(m)
      PROVE  UNCHANGED result
    BY ZenonT(60), <1>4 DEF Next, DispatchQueued, Redrive, BeginInterrupt, SchedulerStep, Command,
                Enqueue, JoinQueue, FollowUpGranted, FollowUpRefused, Resume, Cancel, Retry,
                FollowUp, StartOver, HostStep, ClaimLands, ExpireLease, AdmitReport,
                FinishCompletion, ClaimFails, Execution, BeginAttempt, Checkpoint, FinalizePr,
                Conclude, SendComplete, FenceSelf, ConnectionStep, HandleRegister, HandleRejected,
                HandleDisconnect, DaemonStep, Dial, HandleDispatch, HandleCancel, HandleLeaseLost,
                HandleRunCompleteAck, Receives, BreakSocket, RestartWorker, RestartHost, storeVars
<1>5. QED  BY <1>2, <1>3, <1>4

\* A lease on its way keeps the result its run follows up on.
LEMMA StepsKeepComing ==
    ASSUME OwnershipInv, PlaceInv, KindInv, ResultInv, Next
    PROVE  \A l \in held' : Coming(l)' /\ grant'[l].kind = "follow-up" => result'[RunOf(l)']
<1>0. BooksOK
    BY DEF OwnershipInv
<1>1. ASSUME NEW l \in held, l \in Leases, Coming(l)', l \notin claiming' \ claiming,
             grant'[l] = grant[l], grant'[l].kind = "follow-up"
      PROVE  result'[RunOf(l)']
  <2>1. Coming(l)
    BY <1>1, ComingStays
  <2>2. RunOf(l)' = RunOf(l) /\ result[RunOf(l)]
    BY <1>1, <2>1 DEF ResultInv, RunOf
  <2>3. QED  BY <2>1, <2>2, ResultsOfComing
<1>2. CASE ~DispatchQueued
  <2>1. claiming' \subseteq claiming /\ held' \subseteq held /\ UNCHANGED grant
    BY <1>2, OnlyDispatchIssues
  <2>2. \A l \in held : l \in Leases
    BY <1>0, Granted
  <2>3. QED  BY <1>1, <2>1, <2>2
<1>3. CASE DispatchQueued
  <2>0. UNCHANGED result
    BY <1>3 DEF DispatchQueued, storeVars
  <2>1. CASE UNCHANGED <<held, claiming, grant>>
    BY <1>0, <1>1, <2>1, Granted
  <2>2. CASE \E l \in Leases, r \in Runs :
                /\ held' = held \cup {l} /\ claiming' = claiming \cup {l}
                /\ \A m \in Leases : m # l => grant'[m] = grant[m]
                /\ grant'[l].run = r /\ grant'[l].kind = wanted[r] /\ grant'[l].pr = result[r]
                /\ Contains(queue, r)
    <3>1. PICK l \in Leases, r \in Runs :
                /\ held' = held \cup {l} /\ claiming' = claiming \cup {l}
                /\ \A m \in Leases : m # l => grant'[m] = grant[m]
                /\ grant'[l].run = r /\ grant'[l].kind = wanted[r] /\ grant'[l].pr = result[r]
                /\ Contains(queue, r)
      BY <2>2
    <3>2. grant'[l].kind = "follow-up" => result'[RunOf(l)']
      <4>1. Grounded(r)
        BY DEF ResultInv
      <4>2. QED  BY <2>0, <3>1, <4>1 DEF Grounded, RunOf
    <3>3. ASSUME NEW m \in held, m # l, Coming(m)', grant'[m].kind = "follow-up"
          PROVE  result'[RunOf(m)']
      <4>1. m \in Leases /\ m \notin claiming' \ claiming /\ grant'[m] = grant[m]
        BY <1>0, <3>1, <3>3, Granted
      <4>2. QED  BY <1>1, <3>3, <4>1
    <3>4. QED  BY <3>1, <3>2, <3>3
  <2>3. QED  BY <1>3, <2>1, <2>2, DispatchIssues
<1>4. QED  BY <1>2, <1>3

\* What a run needs to be followed up on is left as it was.
LEMMA GroundStays ==
    ASSUME NEW q \in Runs, Grounded(q), wanted'[q] = wanted[q], result'[q] = result[q],
           busy'[q] = busy[q] \/ busy'[q].op \notin {"requeueing", "returning"},
           Contains(queue', q) => Contains(queue, q)
    PROVE  Grounded(q)'
BY DEF Grounded

\* A run that a follow-up is not under way for, or that is neither in the queue nor
\* about to be, needs no result.
LEMMA GroundAnyway ==
    ASSUME NEW q \in Runs,
           \/ wanted'[q] # "follow-up"
           \/ busy'[q].op \notin {"requeueing", "returning"} /\ ~Contains(queue', q)
    PROVE  Grounded(q)'
BY DEF Grounded

\* The scheduler and a user leave a follow-up what it follows up on.
LEMMA SchedulingKeepsResults ==
    ASSUME OwnershipInv, PlaceInv, KindInv, ResultInv, NEW r \in Runs,
           SchedulerStep(r) \/ Retry(r) \/ FollowUp(r)
    PROVE  \A q \in Runs : Grounded(q)'
<1>0. /\ queue \in Seq(Runs) /\ IsInjective(queue) /\ DOMAIN result = Runs /\ DOMAIN busy = Runs
      /\ DOMAIN wanted = Runs /\ Marked(r) /\ Placed(r) /\ Grounded(r)
    BY DEF OwnershipInv, PlaceInv, SchedulerOK, KindInv, ResultInv
<1>1. Free.op = "free" /\ \A o, l : Busy(o, l).op = o
    BY DEF Free, Busy
<1>2. ASSUME Grounded(r)',
             \/ queue' = queue
             \/ ~Contains(queue, r) /\ queue' = Append(queue, r)
      PROVE  \A q \in Runs : Grounded(q)'
  <2>1. ASSUME NEW q \in Runs, q # r PROVE Grounded(q)'
    <3>1. /\ \/ result' = result \/ \E b : result' = [result EXCEPT ![r] = b]
          /\ \/ busy' = busy \/ busy' = [busy EXCEPT ![r] = Free]
             \/ busy' = [busy EXCEPT ![r] = Busy("requeueing", busy[r].by)]
             \/ \E op : busy' = [busy EXCEPT ![r] = Busy(op, None)]
          /\ \/ wanted' = wanted \/ \E k : wanted' = [wanted EXCEPT ![r] = k]
      BY DEF SchedulerStep, Enqueue, Adopt, Requeue, JoinQueue, FollowUpGranted, FollowUpRefused,
             Resume, Retry, FollowUp, StartOver, storeVars, histVars
    <3>2. result'[q] = result[q]
      BY <1>0, <2>1, <3>1
    <3>3. busy'[q] = busy[q]
      BY <1>0, <2>1, <3>1
    <3>4. wanted'[q] = wanted[q]
      BY <1>0, <2>1, <3>1
    <3>5. Contains(queue', q) => Contains(queue, q)
      <4>1. ASSUME ~Contains(queue, r), queue' = Append(queue, r)
            PROVE  Contains(queue', q) => Contains(queue, q)
        <5>1. \A p : Contains(queue', p) <=> Contains(queue, p) \/ p = r
          BY <1>0, <4>1, ListingOne
        <5>2. QED  BY <2>1, <5>1
      <4>2. QED  BY <1>2, <4>1
    <3>6. QED  BY <3>2, <3>3, <3>4, <3>5, GroundStays DEF ResultInv
  <2>2. QED  BY <1>2, <2>1
<1>3. CASE Enqueue(r)
  <2>1. status[r] = "new" /\ queue' = Append(queue, r) /\ UNCHANGED wanted
    BY <1>3 DEF Enqueue, histVars
  <2>2. ~Contains(queue, r) /\ wanted'[r] = "implementation"
    BY <1>0, <2>1 DEF Marked, Placed
  <2>3. Grounded(r)'
    BY <2>2, GroundAnyway
  <2>4. QED  BY <1>2, <2>1, <2>2, <2>3
<1>4. CASE Adopt(r) \/ Requeue(r)
  <2>1. busy[r].op \in {"adopting", "returning"} /\ UNCHANGED <<queue, wanted>>
    BY <1>4 DEF Adopt, Requeue, histVars
  <2>2. wanted'[r] # "follow-up"
    BY <1>0, <2>1 DEF Marked, Grounded
  <2>3. Grounded(r)'
    BY <2>2, GroundAnyway
  <2>4. QED  BY <1>2, <2>1, <2>3
<1>5. CASE JoinQueue(r)
  <2>1. /\ busy[r].op = "requeueing" /\ busy'[r] = Free /\ UNCHANGED <<result, wanted>>
        /\ queue' = IF Contains(queue, r) THEN queue ELSE Append(queue, r)
    BY <1>0, <1>5 DEF JoinQueue, storeVars, histVars
  <2>2. Grounded(r)'
    BY <1>0, <1>1, <2>1 DEF Grounded
  <2>3. QED  BY <1>2, <2>1, <2>2
<1>6. CASE FollowUpGranted(r)
  <2>1. /\ result[r] /\ busy'[r].op = "requeueing" /\ UNCHANGED <<result, queue>>
    BY <1>0, <1>1, <1>6 DEF FollowUpGranted
  <2>2. Grounded(r)'
    BY <2>1 DEF Grounded
  <2>3. QED  BY <1>2, <2>1, <2>2
<1>7. CASE FollowUpRefused(r) \/ FollowUp(r)
  <2>1. /\ busy'[r].op \in {"free", "checking"} /\ UNCHANGED <<result, queue, wanted>>
    BY <1>0, <1>1, <1>7 DEF FollowUpRefused, FollowUp, storeVars, histVars
  <2>2. Grounded(r)'
    BY <1>0, <2>1, GroundStays
  <2>3. QED  BY <1>2, <2>1, <2>2
<1>8. CASE Resume(r) \/ Retry(r)
  <2>1. wanted'[r] = "implementation" /\ UNCHANGED queue
    BY <1>0, <1>8 DEF Resume, Retry, StartOver
  <2>2. Grounded(r)'
    BY <2>1, GroundAnyway
  <2>3. QED  BY <1>2, <2>1, <2>2
<1>9. QED  BY <1>3, <1>4, <1>5, <1>6, <1>7, <1>8 DEF SchedulerStep

\* A follow-up that comes back unbegun still has what it follows up on.
LEMMA RefusalKeepsResults ==
    ASSUME OwnershipInv, PlaceInv, KindInv, ResultInv,
           \/ \E l \in held : ClaimFails(l)
           \/ \E w \in Workers : HandleRejected(w)
    PROVE  \A q \in Runs : Grounded(q)'
<1>0. SocketsOK /\ BooksOK /\ queue \in Seq(Runs) /\ IsInjective(queue)
    BY DEF OwnershipInv, RecordInv, PlaceInv, SchedulerOK
<1>1. UNCHANGED <<result, busy, wanted>>
    BY DEF ClaimFails, HandleRejected, storeVars, histVars
<1>2. ASSUME NEW l \in held, Coming(l), Rejected(l), NEW q \in Runs PROVE Grounded(q)'
  <2>1. PICK r : r = RunOf(l)
    OBVIOUS
  <2>2. /\ r \in Runs /\ ~Contains(queue, r) /\ grant[l].kind = wanted[r]
        /\ grant[l].kind = "follow-up" => result[r]
    BY <1>2, <2>1, RunOfHeld DEF KindInv, ResultInv
  <2>3. queue' = queue \/ queue' = <<r>> \o queue
    BY <1>2, <2>1 DEF Rejected
  <2>4. \A p : Contains(queue', p) => Contains(queue, p) \/ p = r
    <3>1. CASE queue' = queue
      BY <3>1
    <3>2. CASE queue' = <<r>> \o queue
      <4>1. \A p : Contains(queue', p) <=> Contains(queue, p) \/ p = r
        BY <1>0, <2>2, <3>2, ListingOne
      <4>2. QED  BY <4>1
    <3>3. QED  BY <2>3, <3>1, <3>2
  <2>5. CASE q = r
    BY <1>1, <2>2, <2>5, RunOfHeld DEF Grounded, ResultInv
  <2>6. CASE q # r
    BY <1>1, <2>4, <2>6, GroundStays DEF ResultInv
  <2>7. QED  BY <2>5, <2>6
<1>3. ASSUME NEW l \in held, ClaimFails(l) PROVE \A q \in Runs : Grounded(q)'
  <2>1. Coming(l) /\ Rejected(l)
    BY <1>3 DEF ClaimFails, Coming
  <2>2. QED  BY <1>2, <2>1
<1>4. ASSUME NEW w \in Workers, HandleRejected(w) PROVE \A q \in Runs : Grounded(q)'
  <2>1. PICK l : l = Head(toHost[w]).lease
    OBVIOUS
  <2>2. CASE l \in HeldBy(w)
    <3>1. l \in held /\ Rejected(l)
      BY <1>4, <2>1, <2>2 DEF HandleRejected, HeldBy
    <3>2. Coming(l)
      BY <1>0, <1>4, <2>1, RefusalIsComing
    <3>3. QED  BY <1>2, <3>1, <3>2
  <2>3. CASE l \notin HeldBy(w)
    <3>1. UNCHANGED queue
      BY <1>4, <2>1, <2>3 DEF HandleRejected
    <3>2. QED  BY <1>1, <3>1, GroundStays DEF ResultInv
  <2>4. QED  BY <2>2, <2>3
<1>5. QED  BY <1>3, <1>4

\* A step leaves a follow-up what it follows up on.
LEMMA StepsKeepResults ==
    ASSUME OwnershipInv, PlaceInv, KindInv, ResultInv, Next, Unbroken PROVE ResultInv'
<1>0. /\ BooksOK /\ BuffersOK /\ HeldOK /\ MarkersKept /\ Orderly /\ queue \in Seq(Runs)
      /\ IsInjective(queue) /\ DOMAIN busy = Runs /\ DOMAIN result = Runs
    BY DEF OwnershipInv, PlaceInv, SchedulerOK, Unbroken, MarkersKept
<1>1. \A x \in lost' : x.kind = "implementation"
    BY DEF Unbroken, ResultInv
<1>2. \A l \in held' : Coming(l)' /\ grant'[l].kind = "follow-up" => result'[RunOf(l)']
    BY StepsKeepComing
<1>3. CASE DispatchQueued
  <2>1. UNCHANGED <<result, busy, wanted>>
    BY <1>3 DEF DispatchQueued, DispatchHead, DispatchBlocked, Issue, storeVars, histVars
  <2>2. \A q \in Runs : Contains(queue', q) => Contains(queue, q)
    BY <1>3, DispatchIssues
  <2>3. \A q \in Runs : Grounded(q)'
    BY <2>1, <2>2, GroundStays DEF ResultInv
  <2>4. QED  BY <1>1, <1>2, <2>3 DEF ResultInv
<1>4. CASE \E x \in lost : BeginInterrupt(x)
  <2>1. PICK x \in lost : BeginInterrupt(x)
    BY <1>4
  <2>2. PICK r : r = x.run
    OBVIOUS
  <2>3. wanted[r] = "implementation"
    BY <2>2 DEF KindInv, ResultInv
  <2>4. UNCHANGED <<result, queue, wanted>>
    BY <2>1 DEF BeginInterrupt, storeVars, histVars
  <2>5. busy' = busy \/ \E b : busy' = [busy EXCEPT ![r] = b]
    BY <2>1, <2>2 DEF BeginInterrupt
  <2>6. \A q \in Runs : q # r => busy'[q] = busy[q]
    BY <1>0, <2>5
  <2>7. \A q \in Runs : Grounded(q)'
    BY <2>3, <2>4, <2>6, GroundStays, GroundAnyway DEF ResultInv
  <2>8. QED  BY <1>1, <1>2, <2>7 DEF ResultInv
<1>5. CASE \E r \in Runs : SchedulerStep(r) \/ Command(r)
  <2>1. PICK r \in Runs : SchedulerStep(r) \/ Command(r)
    BY <1>5
  <2>2. CASE Cancel(r)
    <3>1. UNCHANGED <<result, busy, wanted>>
      BY <2>2 DEF Cancel
    <3>2. queue' = queue \/ (Contains(queue, r) /\ queue' = Dequeued(r))
      BY <2>2 DEF Cancel, CancelHere, CancelOnWorker
    <3>3. \A q : Contains(queue', q) => Contains(queue, q)
      BY <1>0, <3>2, TakingOut
    <3>4. \A q \in Runs : Grounded(q)'
      BY <3>1, <3>3, GroundStays DEF ResultInv
    <3>5. QED  BY <1>1, <1>2, <3>4 DEF ResultInv
  <2>3. CASE SchedulerStep(r) \/ Retry(r) \/ FollowUp(r)
    <3>1. \A q \in Runs : Grounded(q)'
      BY <2>3, SchedulingKeepsResults
    <3>2. QED  BY <1>1, <1>2, <3>1 DEF ResultInv
  <2>4. QED  BY <2>1, <2>2, <2>3 DEF Command
<1>6. CASE \/ \E l \in Leases : ClaimFails(l)
           \/ \E w \in Workers : HandleRejected(w)
  <2>1. \A l \in Leases : ClaimFails(l) => l \in held
    BY <1>0 DEF Orderly
  <2>2. \A q \in Runs : Grounded(q)'
    BY <1>6, <2>1, RefusalKeepsResults
  <2>3. QED  BY <1>1, <1>2, <2>2 DEF ResultInv
<1>7. CASE RestartHost
  <2>1. UNCHANGED <<status, wanted>> /\ \A r \in Runs : busy'[r] = Free
    BY <1>7 DEF RestartHost, storeVars
  <2>2. PlaceInv'
    BY <1>7, BootKeepsPlaces
  <2>3. ASSUME NEW q \in Runs PROVE Grounded(q)'
    <3>1. Contains(queue', q) => status[q] = "queued"
      BY <2>1, <2>2 DEF PlaceInv, Placed
    <3>2. Contains(queue', q) => wanted'[q] = "implementation"
      BY <1>0, <1>7, <2>1, <3>1 DEF MarkersKept
    <3>3. busy'[q].op \notin {"requeueing", "returning"}
      BY <2>1 DEF Free
    <3>4. QED  BY <3>2, <3>3, GroundAnyway
  <2>4. QED  BY <1>1, <1>2, <2>3 DEF ResultInv
<1>8. CASE \E l \in Leases : ApplyPatch(l) \/ ApplyRunComplete(l)
  <2>1. PICK l \in Leases : ApplyPatch(l) \/ ApplyRunComplete(l)
    BY <1>8
  <2>2. PICK r : r = RunOf(l)
    OBVIOUS
  <2>3. /\ UNCHANGED <<queue, busy, wanted>> /\ admitted[l] > 0
        /\ \E b : result' = [result EXCEPT ![r] = b]
    BY <2>1, <2>2 DEF ApplyPatch, ApplyRunComplete, schedVars, histVars
  <2>4. l \in held
    BY <1>0, <2>3 DEF HeldOK
  <2>5. busy'[r] = Free /\ ~Contains(queue', r)
    BY <2>2, <2>3, <2>4, RunOfHeld
  <2>6. ASSUME NEW q \in Runs PROVE Grounded(q)'
    <3>1. CASE q = r
      BY <2>5, <3>1, GroundAnyway DEF Free
    <3>2. CASE q # r
      <4>1. result'[q] = result[q]
        BY <1>0, <2>3, <3>2
      <4>2. QED  BY <2>3, <4>1, GroundStays DEF ResultInv
    <3>3. QED  BY <3>1, <3>2
  <2>7. QED  BY <1>1, <1>2, <2>6 DEF ResultInv
<1>9. CASE \/ Redrive
           \/ \E l \in Leases : \/ ClaimLands(l) \/ AdmitReport(l) \/ FinishCompletion(l)
                                \/ Execution(l) \/ FenceSelf(l) \/ ExpireLease(l)
           \/ \E w \in Workers : HandleDisconnect(w) \/ DaemonStep(w) \/ BreakSocket(w)
                                 \/ RestartWorker(w) \/ HandleRegister(w)
  <2>1. UNCHANGED <<result, queue, busy, wanted>>
    BY ZenonT(60), <1>9 DEF Redrive, ClaimLands, AdmitReport, FinishCompletion, Execution,
           BeginAttempt, Checkpoint, FinalizePr, Conclude, SendComplete, FenceSelf, ExpireLease,
           HandleDisconnect, DaemonStep, Dial, HandleDispatch, HandleCancel, HandleLeaseLost,
           HandleRunCompleteAck, Receives, BreakSocket, RestartWorker, HandleRegister, storeVars,
           schedVars, histVars
  <2>2. \A q \in Runs : Grounded(q)'
    BY <2>1, GroundStays DEF ResultInv
  <2>3. QED  BY <1>1, <1>2, <2>2 DEF ResultInv
<1>10. QED  BY <1>3, <1>4, <1>5, <1>6, <1>7, <1>8, <1>9 DEF Next, HostStep, ConnectionStep

\* The inductive invariant behind all of LeasesAreAsAsked, for as long as no
\* follow-up is interrupted, either.
LEMMA ResultsAreKept ==
    Spec /\ [][Unbroken]_vars => [](OwnershipInv /\ PlaceInv /\ KindInv /\ ResultInv)
<1> DEFINE Inv == OwnershipInv /\ PlaceInv /\ KindInv
<1>1. Init => ResultInv
  <2> SUFFICES ASSUME Init PROVE ResultInv
    OBVIOUS
  <2>1. /\ held = {} /\ lost = {} /\ wanted = [r \in Runs |-> "implementation"]
    BY DEF Init
  <2>2. \A r \in Runs : Grounded(r)
    BY <2>1 DEF Grounded
  <2>3. QED  BY <2>1, <2>2 DEF ResultInv
<1>2. Inv /\ ResultInv /\ [Next]_vars /\ [Unbroken]_vars => ResultInv'
  <2> SUFFICES ASSUME Inv, ResultInv, [Next]_vars, [Unbroken]_vars PROVE ResultInv'
    OBVIOUS
  <2>1. CASE Next /\ Unbroken
    BY <2>1, StepsKeepResults
  <2>2. CASE UNCHANGED vars
    <3>1. UNCHANGED <<result, queue, busy, lost, wanted, grant, held, claiming, toHost, toWorker>>
      BY <2>2 DEF vars, storeVars, schedVars, bookVars, histVars, wireVars
    <3>2. \A r \in Runs : Grounded(r)'
      BY <3>1 DEF ResultInv, Grounded
    <3>3. \A l : (Coming(l)' <=> Coming(l)) /\ RunOf(l)' = RunOf(l)
      BY <3>1 DEF Coming, Unsent, Refused, RunOf
    <3>4. QED  BY <3>1, <3>2, <3>3 DEF ResultInv
  <2>3. QED  BY <2>1, <2>2
<1>3. [Unbroken]_vars => [MarkersKept]_vars
    BY DEF Unbroken
<1>4. QED  BY <1>1, <1>2, <1>3, KindsAreKept, PTL DEF Spec

\* What a step issues is for what was asked for, with what the record names.
LEMMA Issued ==
    ASSUME OwnershipInv, PlaceInv, KindInv, Next, NEW l \in claiming' \ claiming
    PROVE  /\ grant'[l].kind = wanted[grant'[l].run]
           /\ grant'[l].run \in Runs /\ Contains(queue, grant'[l].run)
           /\ grant'[l].pr = result[grant'[l].run]
<1>1. DispatchQueued
    BY OnlyDispatchIssues
<1>2. QED  BY <1>1, DispatchIssues

\* A lease is issued for the kind of work that was last asked for: a follow-up is
\* not rebuilt as a fresh implementation, and an implementation not taken for a
\* follow-up (scheduler.ts #followUps, #onRunRejected, #onRunInterrupted), for as
\* long as the steps are orderly and no restart finds a follow-up under way.
THEOREM LeasesAreOfTheKindAskedFor ==
    Spec /\ [][MarkersKept]_vars
        => [][\A l \in claiming' \ claiming : grant'[l].kind = wanted[grant'[l].run]]_vars
<1>1. OwnershipInv /\ PlaceInv /\ KindInv /\ [Next]_vars
        => [\A l \in claiming' \ claiming : grant'[l].kind = wanted[grant'[l].run]]_vars
  <2>1. CASE UNCHANGED vars
    BY <2>1
  <2>2. CASE ~UNCHANGED vars
    BY <2>2, Issued
  <2>3. QED  BY <2>1, <2>2
<1>2. QED  BY <1>1, KindsAreKept, PTL DEF Spec

\* And a follow-up goes out with the pull request it follows up on (scheduler.ts
\* followUpRun: "the PR context must survive"), for as long as no follow-up is
\* interrupted, either: #enqueueForAttempt clears its result.
THEOREM LeasesAreIssuedAsAsked == Spec /\ [][Unbroken]_vars => LeasesAreAsAsked
<1>1. OwnershipInv /\ PlaceInv /\ KindInv /\ ResultInv /\ [Next]_vars
        => [\A l \in claiming' \ claiming :
                /\ grant'[l].kind = wanted[grant'[l].run]
                /\ grant'[l].kind = "follow-up" => grant'[l].pr]_vars
  <2>1. CASE UNCHANGED vars
    BY <2>1
  <2>2. CASE ~UNCHANGED vars
    <3> SUFFICES ASSUME OwnershipInv, PlaceInv, KindInv, ResultInv, Next,
                        NEW l \in claiming' \ claiming
                 PROVE  /\ grant'[l].kind = wanted[grant'[l].run]
                        /\ grant'[l].kind = "follow-up" => grant'[l].pr
      BY <2>2
    <3>1. PICK r \in Runs : /\ grant'[l].run = r /\ grant'[l].kind = wanted[r]
                            /\ Contains(queue, r) /\ grant'[l].pr = result[r]
      BY Issued
    <3>2. Grounded(r)
      BY DEF ResultInv
    <3>3. QED  BY <3>1, <3>2 DEF Grounded
  <2>3. QED  BY <2>1, <2>2
<1>2. QED  BY <1>1, ResultsAreKept, PTL DEF Spec, LeasesAreAsAsked

=============================================================================
