------------------------------ MODULE WorkProofs ------------------------------
(***************************************************************************)
(* That an attempt delivers what it says, leaves no process it waits for   *)
(* behind and never pushes over a person (RunExecution); that a retained   *)
(* disk is there while the host counts on it and has one user at a time    *)
(* (RunExecution and RetainedDisk, composed by MCWork); that a stop        *)
(* reported clean leaves nothing behind (WorkerShutdown); that only what   *)
(* is over is in the archive (PullWatch); and that a page shows what it    *)
(* did (PullPage): whatever fails and whenever it is interrupted, for      *)
(* every number of attempts, executions, sessions, lookups and clicks.     *)
(* Each argument is one invariant, stated at the end of its module. That   *)
(* of an attempt, ExecInv, says at each step of the coroutine which        *)
(* processes may be alive, that the sandbox is up from its boot to the     *)
(* last step, whose retained disk it is, and what has been done where      *)
(* Close begins. That of a retained disk, DiskInv, says which frames of    *)
(* its lease may be under way, in which order, and what no frame disturbs  *)
(* until the attempt has come to its outcome.                              *)
(***************************************************************************)
EXTENDS MCWork, TLAPS, FiniteSetTheorems, NaturalsInduction, WellFoundedInduction

-----------------------------------------------------------------------------
(* The retained disk *)

\* What a frame more at its end makes of a queue.
Grown(s, t, m) ==
    /\ DOMAIN s \subseteq Nat /\ DOMAIN t \subseteq Nat /\ DOMAIN s \subseteq DOMAIN t
    /\ \A i \in DOMAIN s : t[i] = s[i]
    /\ \E n \in DOMAIN t : t[n] = m /\ \A i \in DOMAIN t : i = n \/ (i \in DOMAIN s /\ i < n)

\* What taking its first frame makes of a queue.
Shrunk(s, t) ==
    /\ DOMAIN s \subseteq Nat /\ DOMAIN t \subseteq Nat
    /\ 1 \in DOMAIN s /\ Head(s) = s[1]
    /\ \A i \in DOMAIN t : i + 1 \in DOMAIN s /\ t[i] = s[i + 1] /\ i + 1 > 1
    /\ \A i \in DOMAIN s : i = 1 \/ (i - 1 \in DOMAIN t /\ t[i - 1] = s[i])

\* An attempt is not the idle daemon.
LEMMA AttemptParts ==
    ASSUME active \in Attempt
    PROVE  /\ active # Idle /\ active.lease \in Nat /\ active.awaits \in Nat
           /\ active.status \in DiskSettled \cup {"active"} /\ active.retained \in BOOLEAN
           /\ active.phase \in {"accepted", "working", "finishing", "reporting"}
BY DEF Attempt, Idle

\* The idle daemon is at no step of an attempt.
LEMMA IdlePhase == Idle.phase = "idle"
BY DEF Idle

\* What a frame for the daemon may say.
LEMMA DaemonFrameParts ==
    ASSUME NEW m \in DaemonFrames
    PROVE  /\ m.type \in {"dispatch", "discard", "attach-open", "attach-close"}
           /\ m.type = "dispatch" => m.lease \in Nat /\ m.retained \in BOOLEAN
           /\ m.type \in {"attach-open", "attach-close"} => m.id \in Nat
BY DEF DaemonFrames

\* What a frame for the registry may say.
LEMMA RegistryFrameParts ==
    ASSUME NEW m \in RegistryFrames
    PROVE  /\ m.type \in {"run-patch", "run-complete", "attach-over"}
           /\ m.type # "attach-over" => m.lease \in Nat
           /\ m.type = "run-patch" => m.status \in DiskSettled \cup {"active", Same} /\ m.retained \in BOOLEAN
           /\ m.type = "run-complete" => m.status \in DiskSettled
BY DEF RegistryFrames

\* A frame more is a frame at the end of the queue.
LEMMA AppendGrows ==
    ASSUME NEW S, NEW s \in Seq(S), NEW m \in S
    PROVE  Append(s, m) \in Seq(S) /\ Grown(s, Append(s, m), m)
<1>1. PICK t : t = Append(s, m)  OBVIOUS
<1>2. /\ t \in Seq(S) /\ Len(s) \in Nat /\ Len(t) = Len(s) + 1 /\ t[Len(s) + 1] = m
      /\ DOMAIN s = 1 .. Len(s) /\ DOMAIN t = 1 .. Len(s) + 1 /\ \A i \in 1 .. Len(s) : t[i] = s[i]
    BY <1>1
<1>3. Grown(s, t, m)  BY <1>2 DEF Grown
<1>4. QED  BY <1>1, <1>2, <1>3

\* A frame less is the first one of the queue.
LEMMA TailShrinks ==
    ASSUME NEW S, NEW s \in Seq(S), s # << >>
    PROVE  Tail(s) \in Seq(S) /\ Shrunk(s, Tail(s)) /\ Head(s) \in S
<1>1. PICK t : t = Tail(s)  OBVIOUS
<1>2. /\ t \in Seq(S) /\ Len(s) \in Nat /\ Len(s) > 0 /\ Len(t) = Len(s) - 1 /\ Head(s) = s[1]
      /\ DOMAIN s = 1 .. Len(s) /\ DOMAIN t = 1 .. Len(s) - 1
      /\ \A i \in 1 .. Len(s) - 1 : t[i] = s[i + 1]
    BY <1>1
<1>3. Shrunk(s, t)  BY <1>2 DEF Shrunk
<1>4. QED  BY <1>1, <1>2, <1>3

\* A message for the daemon.
LEMMA DaemonIsTold ==
    ASSUME toDaemon \in Seq(DaemonFrames), NEW m \in DaemonFrames, ToDaemon(m)
    PROVE  /\ toDaemon' \in Seq(DaemonFrames)
           /\ (~online /\ toDaemon' = toDaemon) \/ (online /\ Grown(toDaemon, toDaemon', m))
BY AppendGrows DEF ToDaemon

\* A message for the registry.
LEMMA RegistryIsTold ==
    ASSUME toRegistry \in Seq(RegistryFrames), NEW m \in RegistryFrames, ToRegistry(m)
    PROVE  toRegistry' \in Seq(RegistryFrames) /\ Grown(toRegistry, toRegistry', m)
BY AppendGrows DEF ToRegistry

\* The daemon reads.
LEMMA DaemonReads ==
    ASSUME toDaemon \in Seq(DaemonFrames), toDaemon # << >>, Taken
    PROVE  /\ toDaemon' \in Seq(DaemonFrames) /\ Shrunk(toDaemon, toDaemon')
           /\ Head(toDaemon) \in DaemonFrames
BY TailShrinks DEF Taken

\* The registry reads.
LEMMA RegistryReads ==
    ASSUME toRegistry \in Seq(RegistryFrames), toRegistry # << >>, toRegistry' = Tail(toRegistry)
    PROVE  /\ toRegistry' \in Seq(RegistryFrames) /\ Shrunk(toRegistry, toRegistry')
           /\ Head(toRegistry) \in RegistryFrames
BY TailShrinks

\* Of which type there is a frame.
LEMMA GrownHears ==
    ASSUME NEW m, Grown(toDaemon, toDaemon', m), NEW type
    PROVE  Hears(type)' <=> Hears(type) \/ m.type = type
BY DEF Grown, Hears

\* Reading a frame leaves the others to be heard.
LEMMA ShrunkHears ==
    ASSUME Shrunk(toDaemon, toDaemon'), NEW type
    PROVE  Hears(type) <=> Hears(type)' \/ Head(toDaemon).type = type
<1>1. ASSUME NEW i \in DOMAIN toDaemon, toDaemon[i].type = type
      PROVE  Hears(type)' \/ Head(toDaemon).type = type
    BY <1>1 DEF Shrunk, Hears
<1>2. QED  BY <1>1 DEF Shrunk, Hears

\* The same of what the registry is to be told.
LEMMA GrownSays ==
    ASSUME NEW m, Grown(toRegistry, toRegistry', m), NEW type
    PROVE  Says(type)' <=> Says(type) \/ m.type = type
BY DEF Grown, Says

\* The same of what the registry reads.
LEMMA ShrunkSays ==
    ASSUME Shrunk(toRegistry, toRegistry'), NEW type
    PROVE  Says(type) <=> Says(type)' \/ Head(toRegistry).type = type
<1>1. ASSUME NEW i \in DOMAIN toRegistry, toRegistry[i].type = type
      PROVE  Says(type)' \/ Head(toRegistry).type = type
    BY <1>1 DEF Shrunk, Says
<1>2. QED  BY <1>1 DEF Shrunk, Says

\* The order of frames.
LEMMA ShrunkDispatch ==
    ASSUME DispatchIsLast, Shrunk(toDaemon, toDaemon')
    PROVE  DispatchIsLast' /\ (Head(toDaemon).type = "dispatch" => ~Hears("dispatch")' /\ ~Hears("discard")')
BY DEF DispatchIsLast, Shrunk, Hears

\* A discard sent before the dispatch stays before it.
LEMMA GrownDispatch ==
    ASSUME DispatchIsLast, NEW m, Grown(toDaemon, toDaemon', m),
           Hears("dispatch") => m.type \notin {"dispatch", "discard"}
    PROVE  DispatchIsLast'
BY DEF DispatchIsLast, Grown, Hears

\* Reading a report leaves the later ones in order.
LEMMA ShrunkReports ==
    ASSUME ReportsInOrder, Shrunk(toRegistry, toRegistry'), toRegistry' \in Seq(RegistryFrames)
    PROVE  /\ ReportsInOrder'
           /\ Head(toRegistry).type = "run-complete" => ~Says("run-patch")' /\ ~Says("run-complete")'
<1>1. ReportsInOrder'  BY DEF ReportsInOrder, Shrunk, IsBeginning
<1>2. ASSUME Head(toRegistry).type = "run-complete", NEW i \in DOMAIN toRegistry'
      PROVE  toRegistry'[i].type = "attach-over"
    BY <1>2 DEF ReportsInOrder, Shrunk
<1>3. QED  BY <1>1, <1>2 DEF Says

\* A report more is the last one.
LEMMA GrownReports ==
    ASSUME ReportsInOrder, NEW m \in RegistryFrames, Grown(toRegistry, toRegistry', m),
           toRegistry \in Seq(RegistryFrames),
           m.type = "attach-over" \/ ~Says("run-complete"),
           m.type # "run-patch" \/ m.status # "active" \/ ~Says("run-patch")
    PROVE  ReportsInOrder'
<1>1. \A i \in DOMAIN toRegistry : toRegistry[i].type \in {"run-patch", "run-complete", "attach-over"}
    BY RegistryFrameParts
<1>2. QED  BY <1>1 DEF ReportsInOrder, Grown, IsBeginning, Says

\* A dispatch on its way is the last lease's, and so is a report, if one that joins is.
LEMMA DispatchesAreLast ==
    ASSUME LastLease, kinds' = kinds \/ ~Hears("dispatch")
    PROVE  /\ toDaemon' = toDaemon =>
                \A i \in DOMAIN toDaemon' :
                    toDaemon'[i].type = "dispatch" => toDaemon'[i].lease = Len(kinds')
           /\ Shrunk(toDaemon, toDaemon') =>
                \A i \in DOMAIN toDaemon' :
                    toDaemon'[i].type = "dispatch" => toDaemon'[i].lease = Len(kinds')
           /\ \A m : Grown(toDaemon, toDaemon', m) /\ (m.type = "dispatch" => m.lease = Len(kinds'))
                    => \A i \in DOMAIN toDaemon' :
                         toDaemon'[i].type = "dispatch" => toDaemon'[i].lease = Len(kinds')
<1>1. \A i \in DOMAIN toDaemon : toDaemon[i].type = "dispatch" => toDaemon[i].lease = Len(kinds')
    BY DEF LastLease, Hears
<1>2. QED  BY <1>1 DEF Grown, Shrunk

LEMMA ReportsAreLast ==
    ASSUME LastLease, kinds' = kinds \/ (~Says("run-patch") /\ ~Says("run-complete")),
           toRegistry \in Seq(RegistryFrames)
    PROVE  /\ toRegistry' = toRegistry =>
                \A i \in DOMAIN toRegistry' :
                    toRegistry'[i].type # "attach-over" => toRegistry'[i].lease = Len(kinds')
           /\ Shrunk(toRegistry, toRegistry') =>
                \A i \in DOMAIN toRegistry' :
                    toRegistry'[i].type # "attach-over" => toRegistry'[i].lease = Len(kinds')
           /\ \A m : Grown(toRegistry, toRegistry', m) /\ (m.type # "attach-over" => m.lease = Len(kinds'))
                    => \A i \in DOMAIN toRegistry' :
                         toRegistry'[i].type # "attach-over" => toRegistry'[i].lease = Len(kinds')
<1>1. \A i \in DOMAIN toRegistry : toRegistry[i] \in RegistryFrames
    OBVIOUS
<1>2. \A i \in DOMAIN toRegistry :
          toRegistry[i].type # "attach-over" => toRegistry[i].lease = Len(kinds')
    BY <1>1, RegistryFrameParts DEF LastLease, Says
<1>3. QED  BY <1>2 DEF Grown, Shrunk

\* Until its attempt has come to its outcome, a lease is early.
LEMMA AtFirst ==
    ASSUME OneLease, Hears("dispatch") \/ (active # Idle /\ active.phase \in {"accepted", "working"})
    PROVE  Early
BY DEF OneLease, Early

\* A retry: what the last attempt retained is discarded before the new one is asked for.
LEMMA RetryRunKeepsDisk ==
    ASSUME DiskInv, OneLeaseAtATime, RetryRun
    PROVE  DiskInv'
<1> USE DEF Idle, Finished, DiskSettled, Same
<1>1. DiskShape /\ LastLease /\ OneLease /\ InOrder /\ Undisturbed /\ DiscardsFirst
    BY DEF DiskInv
<1>a. active.phase # "idle" => active \in Attempt  BY <1>1, IdlePhase DEF DiskShape
<1>u. /\ followUp' = followUp /\ held' = held /\ kinds' = kinds /\ online' = online
      /\ active' = active /\ attached' = attached /\ tracked' = tracked
      /\ removing' = removing /\ removals' = removals /\ opened' = opened
    BY DEF RetryRun, hostAttach, daemonVars, discardVars, attachVars, linkVars,
           DiscardThrows, Discarded, Enqueued, Requeued, Unlocked
<1>dm. PICK md : md = [type |-> "discard"]  OBVIOUS
<1>dn. md.type = "discard"  BY <1>dm
<1>df. md \in DaemonFrames
    BY <1>dm, <1>1, <1>a, AttemptParts, DaemonFrameParts
    DEF RetryRun, DaemonFrames, DiskShape, OneLease, Sessions, Got
<1>d. /\ toDaemon' \in Seq(DaemonFrames)
      /\ toDaemon' = toDaemon \/ (Grown(toDaemon, toDaemon', md) /\ online)
    BY <1>1, <1>dm, <1>df, DaemonIsTold
    DEF RetryRun, DiskShape, hostAttach, daemonVars, discardVars, attachVars, linkVars,
        DiscardThrows, Discarded, Enqueued, Requeued, Unlocked
<1>dt. /\ Hears("dispatch")' => Hears("dispatch") \/ md.type = "dispatch"
       /\ Hears("discard")' => Hears("discard") \/ md.type = "discard"
       /\ Hears("dispatch") => Hears("dispatch")'
       /\ Hears("discard") => Hears("discard")'
  <2>1. CASE toDaemon' = toDaemon  BY <2>1 DEF Hears
  <2>2. CASE Grown(toDaemon, toDaemon', md)  BY <2>2, GrownHears
  <2>3. QED  BY <1>d, <2>1, <2>2
<1>r. toRegistry' = toRegistry
    BY DEF RetryRun, hostAttach, daemonVars, discardVars, attachVars, linkVars,
           DiscardThrows, Discarded, Enqueued, Requeued, Unlocked
<1>rt. (Says("run-patch")' <=> Says("run-patch")) /\ (Says("run-complete")' <=> Says("run-complete"))
    BY <1>r
    DEF Says
<1>v. /\ followUp # "checking" /\ runState \in DiskSettled /\ reapTimer' = "none"
      /\ runState' = runState \/ runState' = "queued"
      /\ retainedUntil' \in BOOLEAN
    BY <1>1, <1>a, <1>u, <1>dm, <1>dn, <1>d, <1>dt, <1>r, <1>rt, AttemptParts,
       DaemonFrameParts, RegistryFrameParts, IdlePhase
    DEF RetryRun, hostAttach, daemonVars, discardVars, attachVars, linkVars, DiscardThrows,
        Discarded, Enqueued, Requeued, Unlocked, DiskShape, LastLease, OneLease,
        OneLeaseAtATime, Shrunk
<1>2. DiskShape'
  BY <1>1, <1>a, <1>u, <1>dm, <1>dn, <1>d, <1>dt, <1>r, <1>rt, <1>v, AttemptParts,
     DaemonFrameParts, RegistryFrameParts, IdlePhase
  DEF DiskShape, OneLease
<1>l. LastLease'
  <2>1. \A i \in DOMAIN toDaemon' :
          toDaemon'[i].type = "dispatch" => toDaemon'[i].lease = Len(kinds')
    BY <1>1, <1>u, <1>dn, <1>d, <1>v, DispatchesAreLast DEF OneLease, DiskShape
  <2>2. \A i \in DOMAIN toRegistry' :
          toRegistry'[i].type # "attach-over" => toRegistry'[i].lease = Len(kinds')
    BY <1>1, <1>2, <1>a, <1>u, <1>dm, <1>dn, <1>d, <1>dt, <1>r, <1>rt, <1>v, AttemptParts,
       DaemonFrameParts, RegistryFrameParts, IdlePhase, ReportsAreLast
    DEF OneLease, DiskShape
  <2>3. ~online' => toDaemon' = << >>
    BY <1>1, <1>2, <1>a, <1>u, <1>dm, <1>dn, <1>d, <1>dt, <1>r, <1>rt, <1>v, AttemptParts,
       DaemonFrameParts, RegistryFrameParts, IdlePhase
    DEF LastLease, OneLease, Grown, Shrunk, DiskShape
  <2>4. QED  BY <2>1, <2>2, <2>3 DEF LastLease
<1>3. OneLease'
  BY <1>1, <1>a, <1>u, <1>dm, <1>dn, <1>d, <1>dt, <1>r, <1>rt, <1>v, AttemptParts
  DEF OneLease, Claimed
<1>4. InOrder'
  BY <1>1, <1>a, <1>u, <1>dm, <1>dn, <1>d, <1>dt, <1>r, <1>rt, <1>v, IdlePhase, <1>2,
     AttemptParts, DaemonFrameParts, RegistryFrameParts
  DEF InOrder, OneLease, DiskShape, ReportsInOrder, IsBeginning, Says, Undisturbed, Early, Grown,
      Shrunk
<1>5. Undisturbed'
  BY <1>1, <1>2, <1>3, <1>a, <1>u, <1>dm, <1>dn, <1>d, <1>dt, <1>r, <1>rt, <1>v, AttemptParts,
     DaemonFrameParts, RegistryFrameParts, IdlePhase
  DEF Early, OneLease, DiskShape, Undisturbed, IsBeginning, Says, Grown, Shrunk, InOrder,
      ReportsInOrder
<1>6. DiscardsFirst'
  BY <1>1, <1>a, <1>u, <1>dm, <1>dn, <1>d, <1>dt, <1>r, <1>rt, <1>v, GrownDispatch, AtFirst,
     IdlePhase, <1>2, <1>3, AttemptParts, DaemonFrameParts, RegistryFrameParts
  DEF DiscardsFirst, OneLease, Undisturbed, DiskShape, DispatchIsLast, Hears, Early, Grown,
      Shrunk
<1>7. QED  BY <1>2, <1>l, <1>3, <1>4, <1>5, <1>6 DEF DiskInv

\* The lookup that resumes a waiting run.
LEMMA ProbedKeepsDisk ==
    ASSUME DiskInv, OneLeaseAtATime, NEW ready \in BOOLEAN, Probed(ready)
    PROVE  DiskInv'
<1> USE DEF Idle, Finished, DiskSettled, Same
<1>1. DiskShape /\ LastLease /\ OneLease /\ InOrder /\ Undisturbed /\ DiscardsFirst
    BY DEF DiskInv
<1>a. active.phase # "idle" => active \in Attempt  BY <1>1, IdlePhase DEF DiskShape
<1>u. /\ followUp' = followUp /\ held' = held /\ kinds' = kinds /\ online' = online
      /\ active' = active /\ attached' = attached /\ tracked' = tracked
      /\ removing' = removing /\ removals' = removals /\ opened' = opened
    BY DEF Probed, hostLeases, hostAttach, daemonVars, discardVars, attachVars, linkVars,
           DiscardThrows, Discarded, Enqueued, Requeued, Unlocked
<1>dm. PICK md : md = [type |-> "discard"]  OBVIOUS
<1>dn. md.type = "discard"  BY <1>dm
<1>df. md \in DaemonFrames
    BY <1>dm, <1>1, <1>a, AttemptParts, DaemonFrameParts
    DEF Probed, DaemonFrames, DiskShape, OneLease, Sessions, Got
<1>d. /\ toDaemon' \in Seq(DaemonFrames)
      /\ toDaemon' = toDaemon \/ (Grown(toDaemon, toDaemon', md) /\ online)
    BY <1>1, <1>dm, <1>df, DaemonIsTold
    DEF Probed, DiskShape, hostLeases, hostAttach, daemonVars, discardVars, attachVars,
        linkVars, DiscardThrows, Discarded, Enqueued, Requeued, Unlocked
<1>dt. /\ Hears("dispatch")' => Hears("dispatch") \/ md.type = "dispatch"
       /\ Hears("discard")' => Hears("discard") \/ md.type = "discard"
       /\ Hears("dispatch") => Hears("dispatch")'
       /\ Hears("discard") => Hears("discard")'
  <2>1. CASE toDaemon' = toDaemon  BY <2>1 DEF Hears
  <2>2. CASE Grown(toDaemon, toDaemon', md)  BY <2>2, GrownHears
  <2>3. QED  BY <1>d, <2>1, <2>2
<1>r. toRegistry' = toRegistry
    BY DEF Probed, hostLeases, hostAttach, daemonVars, discardVars, attachVars, linkVars,
           DiscardThrows, Discarded, Enqueued, Requeued, Unlocked
<1>rt. (Says("run-patch")' <=> Says("run-patch")) /\ (Says("run-complete")' <=> Says("run-complete"))
    BY <1>r
    DEF Says
<1>v. /\ followUp # "checking"
      /\ \/ runState' = runState /\ toDaemon' = toDaemon /\ reapTimer' \in {reapTimer, "none"}
         \/ runState = "waiting" /\ runState' = "queued" /\ reapTimer' = "none"
      /\ retainedUntil' \in BOOLEAN
    BY <1>1, <1>a, <1>u, <1>dm, <1>dn, <1>d, <1>dt, <1>r, <1>rt, AttemptParts,
       DaemonFrameParts, RegistryFrameParts, IdlePhase
    DEF Probed, hostLeases, hostAttach, daemonVars, discardVars, attachVars, linkVars,
        DiscardThrows, Discarded, Enqueued, Requeued, Unlocked, DiskShape, LastLease,
        OneLease, OneLeaseAtATime, Shrunk
<1>2. DiskShape'
  BY <1>1, <1>a, <1>u, <1>dm, <1>dn, <1>d, <1>dt, <1>r, <1>rt, <1>v, AttemptParts,
     DaemonFrameParts, RegistryFrameParts, IdlePhase
  DEF DiskShape, OneLease
<1>l. LastLease'
  <2>1. \A i \in DOMAIN toDaemon' : toDaemon'[i].type = "dispatch" => toDaemon'[i].lease = Len(kinds')
    BY <1>1, <1>u, <1>dn, <1>d, <1>v, DispatchesAreLast DEF OneLease, DiskShape
  <2>2. \A i \in DOMAIN toRegistry' : toRegistry'[i].type # "attach-over" => toRegistry'[i].lease = Len(kinds')
    BY <1>1, <1>2, <1>a, <1>u, <1>dm, <1>dn, <1>d, <1>dt, <1>r, <1>rt, <1>v, AttemptParts,
       DaemonFrameParts, RegistryFrameParts, IdlePhase, ReportsAreLast
    DEF OneLease, DiskShape
  <2>3. ~online' => toDaemon' = << >>
    BY <1>1, <1>a, <1>u, <1>dm, <1>dn, <1>d, <1>dt, <1>r, <1>rt, <1>v
    DEF LastLease, DiskShape, Shrunk
  <2>4. QED  BY <2>1, <2>2, <2>3 DEF LastLease
<1>3. OneLease'
  BY <1>1, <1>a, <1>u, <1>dm, <1>dn, <1>d, <1>dt, <1>r, <1>rt, <1>v, AttemptParts
  DEF OneLease, Claimed
<1>4. InOrder'
  BY <1>1, <1>a, <1>u, <1>dm, <1>dn, <1>d, <1>dt, <1>r, <1>rt, <1>v, IdlePhase, <1>2,
     AttemptParts, DaemonFrameParts, RegistryFrameParts
  DEF InOrder, OneLease, DiskShape, ReportsInOrder, IsBeginning, Says, Undisturbed, Early, Grown,
      Shrunk
<1>5. Undisturbed'
  BY <1>1, <1>2, <1>3, <1>a, <1>u, <1>dm, <1>dn, <1>d, <1>dt, <1>r, <1>rt, <1>v, AttemptParts,
     DaemonFrameParts, RegistryFrameParts, IdlePhase
  DEF Early, OneLease, DiskShape, Undisturbed, IsBeginning, Says, Grown, Shrunk, InOrder,
      ReportsInOrder
<1>6. DiscardsFirst'
  BY <1>1, <1>a, <1>u, <1>dm, <1>dn, <1>d, <1>dt, <1>r, <1>rt, <1>v, GrownDispatch, AtFirst,
     IdlePhase, <1>2, <1>3, AttemptParts, DaemonFrameParts, RegistryFrameParts
  DEF DiscardsFirst, OneLease, Undisturbed, DiskShape, DispatchIsLast, Hears, Early, Grown,
      Shrunk
<1>7. QED  BY <1>2, <1>l, <1>3, <1>4, <1>5, <1>6 DEF DiskInv

\* The reaper: a disk whose time is up is discarded.
LEMMA MaybeReapKeepsDisk ==
    ASSUME DiskInv, OneLeaseAtATime, MaybeReap
    PROVE  DiskInv'
<1> USE DEF Idle, Finished, DiskSettled, Same
<1>1. DiskShape /\ LastLease /\ OneLease /\ InOrder /\ Undisturbed /\ DiscardsFirst
    BY DEF DiskInv
<1>a. active.phase # "idle" => active \in Attempt  BY <1>1, IdlePhase DEF DiskShape
<1>u. /\ runState' = runState /\ followUp' = followUp /\ held' = held
      /\ kinds' = kinds /\ online' = online /\ active' = active
      /\ attached' = attached /\ tracked' = tracked /\ removing' = removing
      /\ removals' = removals /\ opened' = opened
    BY DEF MaybeReap, hostLeases, hostAttach, daemonVars, discardVars, attachVars, linkVars,
           DiscardThrows, Discarded
<1>dm. PICK md : md = [type |-> "discard"]  OBVIOUS
<1>dn. md.type = "discard"  BY <1>dm
<1>df. md \in DaemonFrames
    BY <1>dm, <1>1, <1>a, AttemptParts, DaemonFrameParts
    DEF MaybeReap, DaemonFrames, DiskShape, OneLease, Sessions, Got
<1>d. /\ toDaemon' \in Seq(DaemonFrames)
      /\ toDaemon' = toDaemon \/ (Grown(toDaemon, toDaemon', md) /\ online)
    BY <1>1, <1>dm, <1>df, DaemonIsTold
    DEF MaybeReap, DiskShape, hostLeases, hostAttach, daemonVars, discardVars, attachVars,
        linkVars, DiscardThrows, Discarded
<1>dt. /\ Hears("dispatch")' => Hears("dispatch") \/ md.type = "dispatch"
       /\ Hears("discard")' => Hears("discard") \/ md.type = "discard"
       /\ Hears("dispatch") => Hears("dispatch")'
       /\ Hears("discard") => Hears("discard")'
  <2>1. CASE toDaemon' = toDaemon  BY <2>1 DEF Hears
  <2>2. CASE Grown(toDaemon, toDaemon', md)  BY <2>2, GrownHears
  <2>3. QED  BY <1>d, <2>1, <2>2
<1>r. toRegistry' = toRegistry
    BY DEF MaybeReap, hostLeases, hostAttach, daemonVars, discardVars, attachVars, linkVars,
           DiscardThrows, Discarded
<1>rt. (Says("run-patch")' <=> Says("run-patch")) /\ (Says("run-complete")' <=> Says("run-complete"))
    BY <1>r
    DEF Says
<1>v. /\ reapTimer = "armed" /\ reapTimer' \in {reapTimer, "none"}
      /\ retainedUntil' \in BOOLEAN
    BY <1>1, <1>a, <1>u, <1>dm, <1>dn, <1>d, <1>dt, <1>r, <1>rt, AttemptParts,
       DaemonFrameParts, RegistryFrameParts, IdlePhase
    DEF MaybeReap, hostLeases, hostAttach, daemonVars, discardVars, attachVars, linkVars,
        DiscardThrows, Discarded, DiskShape, LastLease, OneLease, OneLeaseAtATime, Shrunk
<1>2. DiskShape'
  BY <1>1, <1>a, <1>u, <1>dm, <1>dn, <1>d, <1>dt, <1>r, <1>rt, <1>v, AttemptParts,
     DaemonFrameParts, RegistryFrameParts, IdlePhase
  DEF DiskShape, OneLease
<1>l. LastLease'
  <2>1. \A i \in DOMAIN toDaemon' : toDaemon'[i].type = "dispatch" => toDaemon'[i].lease = Len(kinds')
    BY <1>1, <1>u, <1>dn, <1>d, <1>v, DispatchesAreLast DEF OneLease, DiskShape
  <2>2. \A i \in DOMAIN toRegistry' : toRegistry'[i].type # "attach-over" => toRegistry'[i].lease = Len(kinds')
    BY <1>1, <1>2, <1>a, <1>u, <1>dm, <1>dn, <1>d, <1>dt, <1>r, <1>rt, <1>v, AttemptParts,
       DaemonFrameParts, RegistryFrameParts, IdlePhase, ReportsAreLast
    DEF OneLease, DiskShape
  <2>3. ~online' => toDaemon' = << >>
    BY <1>1, <1>a, <1>u, <1>dm, <1>dn, <1>d, <1>dt, <1>r, <1>rt, <1>v
    DEF LastLease, DiskShape, Shrunk
  <2>4. QED  BY <2>1, <2>2, <2>3 DEF LastLease
<1>3. OneLease'
  BY <1>1, <1>a, <1>u, <1>dm, <1>dn, <1>d, <1>dt, <1>r, <1>rt, <1>v, AttemptParts
  DEF OneLease, Claimed
<1>4. InOrder'
  BY <1>1, <1>a, <1>u, <1>dm, <1>dn, <1>d, <1>dt, <1>r, <1>rt, <1>v, IdlePhase, <1>2,
     AttemptParts, DaemonFrameParts, RegistryFrameParts
  DEF InOrder, OneLease, DiskShape, ReportsInOrder, IsBeginning, Says, Undisturbed, Early, Grown,
      Shrunk
<1>5. Undisturbed'
  BY <1>1, <1>2, <1>3, <1>a, <1>u, <1>dm, <1>dn, <1>d, <1>dt, <1>r, <1>rt, <1>v, AttemptParts,
     DaemonFrameParts, RegistryFrameParts, IdlePhase
  DEF Early, OneLease, DiskShape, Undisturbed, IsBeginning, Says, Grown, Shrunk, InOrder,
      ReportsInOrder
<1>6. DiscardsFirst'
  BY <1>1, <1>a, <1>u, <1>dm, <1>dn, <1>d, <1>dt, <1>r, <1>rt, <1>v, GrownDispatch, AtFirst,
     IdlePhase, <1>2, <1>3, AttemptParts, DaemonFrameParts, RegistryFrameParts
  DEF DiscardsFirst, OneLease, Undisturbed, DiskShape, DispatchIsLast, Hears, Early, Grown,
      Shrunk
<1>7. QED  BY <1>2, <1>l, <1>3, <1>4, <1>5, <1>6 DEF DiskInv

\* A session is asked for on the retained disk.
LEMMA OpenAttachKeepsDisk ==
    ASSUME DiskInv, OneLeaseAtATime, OpenAttach
    PROVE  DiskInv'
<1> USE DEF Idle, Finished, DiskSettled, Same
<1>1. DiskShape /\ LastLease /\ OneLease /\ InOrder /\ Undisturbed /\ DiscardsFirst
    BY DEF DiskInv
<1>a. active.phase # "idle" => active \in Attempt  BY <1>1, IdlePhase DEF DiskShape
<1>u. /\ runState' = runState /\ followUp' = followUp /\ held' = held
      /\ kinds' = kinds /\ online' = online /\ active' = active
      /\ reapTimer' = reapTimer /\ tracked' = tracked /\ removing' = removing
      /\ removals' = removals /\ retainedUntil' = retainedUntil
    BY DEF OpenAttach, hostRecord, hostTimers, hostLeases, daemonVars, discardVars,
           attachVars, linkVars
<1>dm. PICK md : md = [type |-> "attach-open", id |-> opened + 1]  OBVIOUS
<1>dn. md.type = "attach-open"  BY <1>dm
<1>df. md \in DaemonFrames
    BY <1>dm, <1>1, <1>a, AttemptParts, DaemonFrameParts
    DEF OpenAttach, DaemonFrames, DiskShape, OneLease, Sessions, Got
<1>d. /\ toDaemon' \in Seq(DaemonFrames)
      /\ toDaemon' = toDaemon \/ (Grown(toDaemon, toDaemon', md) /\ online)
    BY <1>1, <1>dm, <1>df, DaemonIsTold
    DEF OpenAttach, DiskShape, hostRecord, hostTimers, hostLeases, daemonVars, discardVars,
        attachVars, linkVars
<1>dt. /\ Hears("dispatch")' => Hears("dispatch") \/ md.type = "dispatch"
       /\ Hears("discard")' => Hears("discard") \/ md.type = "discard"
       /\ Hears("dispatch") => Hears("dispatch")'
       /\ Hears("discard") => Hears("discard")'
  <2>1. CASE toDaemon' = toDaemon  BY <2>1 DEF Hears
  <2>2. CASE Grown(toDaemon, toDaemon', md)  BY <2>2, GrownHears
  <2>3. QED  BY <1>d, <2>1, <2>2
<1>r. toRegistry' = toRegistry
    BY DEF OpenAttach, hostRecord, hostTimers, hostLeases, daemonVars, discardVars,
           attachVars, linkVars
<1>rt. (Says("run-patch")' <=> Says("run-patch")) /\ (Says("run-complete")' <=> Says("run-complete"))
    BY <1>r
    DEF Says
<1>v. /\ runState \in Finished /\ followUp = "no"
      /\ opened' \in Nat
    BY <1>1, <1>a, <1>u, <1>dm, <1>dn, <1>d, <1>dt, <1>r, <1>rt, AttemptParts,
       DaemonFrameParts, RegistryFrameParts, IdlePhase
    DEF OpenAttach, hostRecord, hostTimers, hostLeases, daemonVars, discardVars, attachVars,
        linkVars, DiskShape, LastLease, OneLease, OneLeaseAtATime, Shrunk, Sessions
<1>2. DiskShape'
  BY <1>1, <1>a, <1>u, <1>dm, <1>dn, <1>d, <1>dt, <1>r, <1>rt, <1>v, AttemptParts,
     DaemonFrameParts, RegistryFrameParts, IdlePhase
  DEF DiskShape, OneLease
<1>l. LastLease'
  <2>1. \A i \in DOMAIN toDaemon' : toDaemon'[i].type = "dispatch" => toDaemon'[i].lease = Len(kinds')
    BY <1>1, <1>u, <1>dn, <1>d, <1>v, DispatchesAreLast DEF OneLease, DiskShape
  <2>2. \A i \in DOMAIN toRegistry' : toRegistry'[i].type # "attach-over" => toRegistry'[i].lease = Len(kinds')
    BY <1>1, <1>2, <1>a, <1>u, <1>dm, <1>dn, <1>d, <1>dt, <1>r, <1>rt, <1>v, AttemptParts,
       DaemonFrameParts, RegistryFrameParts, IdlePhase, ReportsAreLast
    DEF OneLease, DiskShape
  <2>3. ~online' => toDaemon' = << >>
    BY <1>1, <1>a, <1>u, <1>dm, <1>dn, <1>d, <1>dt, <1>r, <1>rt, <1>v
    DEF LastLease, DiskShape, Shrunk
  <2>4. QED  BY <2>1, <2>2, <2>3 DEF LastLease
<1>3. OneLease'
  BY <1>1, <1>a, <1>u, <1>dm, <1>dn, <1>d, <1>dt, <1>r, <1>rt, <1>v, AttemptParts
  DEF OneLease, Claimed
<1>4. InOrder'
  BY <1>1, <1>a, <1>u, <1>dm, <1>dn, <1>d, <1>dt, <1>r, <1>rt, <1>v, IdlePhase, <1>2,
     AttemptParts, DaemonFrameParts, RegistryFrameParts
  DEF InOrder, OneLease, DiskShape, ReportsInOrder, IsBeginning, Says, Undisturbed, Early, Grown,
      Shrunk
<1>5. Undisturbed'
  BY <1>1, <1>2, <1>3, <1>a, <1>u, <1>dm, <1>dn, <1>d, <1>dt, <1>r, <1>rt, <1>v, AttemptParts,
     DaemonFrameParts, RegistryFrameParts, IdlePhase
  DEF Early, OneLease, DiskShape, Undisturbed, IsBeginning, Says, Grown, Shrunk, InOrder,
      ReportsInOrder
<1>6. DiscardsFirst'
  BY <1>1, <1>a, <1>u, <1>dm, <1>dn, <1>d, <1>dt, <1>r, <1>rt, <1>v, GrownDispatch, AtFirst,
     IdlePhase, <1>2, <1>3, AttemptParts, DaemonFrameParts, RegistryFrameParts
  DEF DiscardsFirst, OneLease, Undisturbed, DiskShape, DispatchIsLast, Hears, Early, Grown,
      Shrunk
<1>7. QED  BY <1>2, <1>l, <1>3, <1>4, <1>5, <1>6 DEF DiskInv

\* A session is told to close.
LEMMA CloseAttachKeepsDisk ==
    ASSUME DiskInv, OneLeaseAtATime, NEW s \in Sessions, CloseAttach(s)
    PROVE  DiskInv'
<1> USE DEF Idle, Finished, DiskSettled, Same
<1>1. DiskShape /\ LastLease /\ OneLease /\ InOrder /\ Undisturbed /\ DiscardsFirst
    BY DEF DiskInv
<1>a. active.phase # "idle" => active \in Attempt  BY <1>1, IdlePhase DEF DiskShape
<1>u. /\ runState' = runState /\ followUp' = followUp /\ held' = held
      /\ kinds' = kinds /\ online' = online /\ active' = active
      /\ reapTimer' = reapTimer /\ tracked' = tracked /\ removing' = removing
      /\ removals' = removals /\ opened' = opened /\ retainedUntil' = retainedUntil
    BY DEF CloseAttach, hostRecord, hostTimers, hostLeases, daemonVars, discardVars,
           attachVars, linkVars
<1>dm. PICK md : md = [type |-> "attach-close", id |-> s]  OBVIOUS
<1>dn. md.type = "attach-close"  BY <1>dm
<1>df. md \in DaemonFrames
    BY <1>dm, <1>1, <1>a, AttemptParts, DaemonFrameParts
    DEF CloseAttach, DaemonFrames, DiskShape, OneLease, Sessions, Got
<1>d. /\ toDaemon' \in Seq(DaemonFrames)
      /\ toDaemon' = toDaemon \/ (Grown(toDaemon, toDaemon', md) /\ online)
    BY <1>1, <1>dm, <1>df, DaemonIsTold
    DEF CloseAttach, DiskShape, hostRecord, hostTimers, hostLeases, daemonVars, discardVars,
        attachVars, linkVars
<1>dt. /\ Hears("dispatch")' => Hears("dispatch") \/ md.type = "dispatch"
       /\ Hears("discard")' => Hears("discard") \/ md.type = "discard"
       /\ Hears("dispatch") => Hears("dispatch")'
       /\ Hears("discard") => Hears("discard")'
  <2>1. CASE toDaemon' = toDaemon  BY <2>1 DEF Hears
  <2>2. CASE Grown(toDaemon, toDaemon', md)  BY <2>2, GrownHears
  <2>3. QED  BY <1>d, <2>1, <2>2
<1>r. toRegistry' = toRegistry
    BY DEF CloseAttach, hostRecord, hostTimers, hostLeases, daemonVars, discardVars,
           attachVars, linkVars
<1>rt. (Says("run-patch")' <=> Says("run-patch")) /\ (Says("run-complete")' <=> Says("run-complete"))
    BY <1>r
    DEF Says
<1>v. attached' \subseteq attached
    BY <1>1, <1>a, <1>u, <1>dm, <1>dn, <1>d, <1>dt, <1>r, <1>rt, AttemptParts,
       DaemonFrameParts, RegistryFrameParts, IdlePhase
    DEF CloseAttach, hostRecord, hostTimers, hostLeases, daemonVars, discardVars,
        attachVars, linkVars, DiskShape, LastLease, OneLease, OneLeaseAtATime, Shrunk,
        Sessions
<1>2. DiskShape'
  BY <1>1, <1>a, <1>u, <1>dm, <1>dn, <1>d, <1>dt, <1>r, <1>rt, <1>v, AttemptParts,
     DaemonFrameParts, RegistryFrameParts, IdlePhase
  DEF DiskShape, OneLease
<1>l. LastLease'
  <2>1. \A i \in DOMAIN toDaemon' :
          toDaemon'[i].type = "dispatch" => toDaemon'[i].lease = Len(kinds')
    BY <1>1, <1>u, <1>dn, <1>d, <1>v, DispatchesAreLast DEF OneLease, DiskShape
  <2>2. \A i \in DOMAIN toRegistry' :
          toRegistry'[i].type # "attach-over" => toRegistry'[i].lease = Len(kinds')
    BY <1>1, <1>2, <1>a, <1>u, <1>dm, <1>dn, <1>d, <1>dt, <1>r, <1>rt, <1>v, AttemptParts,
       DaemonFrameParts, RegistryFrameParts, IdlePhase, ReportsAreLast
    DEF OneLease, DiskShape
  <2>3. ~online' => toDaemon' = << >>
    BY <1>1, <1>2, <1>a, <1>u, <1>dm, <1>dn, <1>d, <1>dt, <1>r, <1>rt, <1>v, AttemptParts,
       DaemonFrameParts, RegistryFrameParts, IdlePhase
    DEF LastLease, OneLease, Grown, Shrunk, DiskShape
  <2>4. QED  BY <2>1, <2>2, <2>3 DEF LastLease
<1>3. OneLease'
  BY <1>1, <1>a, <1>u, <1>dm, <1>dn, <1>d, <1>dt, <1>r, <1>rt, <1>v, AttemptParts
  DEF OneLease, Claimed
<1>4. InOrder'
  BY <1>1, <1>a, <1>u, <1>dm, <1>dn, <1>d, <1>dt, <1>r, <1>rt, <1>v, IdlePhase, <1>2,
     AttemptParts, DaemonFrameParts, RegistryFrameParts
  DEF InOrder, OneLease, DiskShape, ReportsInOrder, IsBeginning, Says, Undisturbed, Early, Grown,
      Shrunk
<1>5. Undisturbed'
  BY <1>1, <1>2, <1>3, <1>a, <1>u, <1>dm, <1>dn, <1>d, <1>dt, <1>r, <1>rt, <1>v, AttemptParts,
     DaemonFrameParts, RegistryFrameParts, IdlePhase
  DEF Early, OneLease, DiskShape, Undisturbed, IsBeginning, Says, Grown, Shrunk, InOrder,
      ReportsInOrder
<1>6. DiscardsFirst'
  BY <1>1, <1>a, <1>u, <1>dm, <1>dn, <1>d, <1>dt, <1>r, <1>rt, <1>v, GrownDispatch, AtFirst,
     IdlePhase, <1>2, <1>3, AttemptParts, DaemonFrameParts, RegistryFrameParts
  DEF DiscardsFirst, OneLease, Undisturbed, DiskShape, DispatchIsLast, Hears, Early, Grown,
      Shrunk
<1>7. QED  BY <1>2, <1>l, <1>3, <1>4, <1>5, <1>6 DEF DiskInv

\* The registry reads what an attempt says of its run.
LEMMA ApplyRunPatchKeepsDisk ==
    ASSUME DiskInv, OneLeaseAtATime, ApplyRunPatch
    PROVE  DiskInv'
<1> USE DEF Idle, Finished, DiskSettled, Same
<1>1. DiskShape /\ LastLease /\ OneLease /\ InOrder /\ Undisturbed /\ DiscardsFirst
    BY DEF DiskInv
<1>a. active.phase # "idle" => active \in Attempt  BY <1>1, IdlePhase DEF DiskShape
<1>u. /\ followUp' = followUp /\ held' = held /\ kinds' = kinds /\ online' = online
      /\ active' = active /\ attached' = attached /\ reapTimer' = reapTimer
      /\ tracked' = tracked /\ removing' = removing /\ removals' = removals
      /\ opened' = opened
    BY DEF ApplyRunPatch, hostTimers, hostLeases, hostAttach, daemonVars, discardVars,
           attachVars, linkVars, Report, Leased
<1>d. toDaemon' = toDaemon
    BY DEF ApplyRunPatch, hostTimers, hostLeases, hostAttach, daemonVars, discardVars,
           attachVars, linkVars, Report, Leased
<1>dt. (Hears("dispatch")' <=> Hears("dispatch")) /\ (Hears("discard")' <=> Hears("discard"))
    BY <1>d
    DEF Hears
<1>r. /\ toRegistry' \in Seq(RegistryFrames) /\ Shrunk(toRegistry, toRegistry')
      /\ Head(toRegistry) \in RegistryFrames
    BY <1>1, RegistryReads DEF ApplyRunPatch, Got, Report, DiskShape
<1>rt. /\ Says("run-patch") <=> Says("run-patch")' \/ Head(toRegistry).type = "run-patch"
       /\ Says("run-complete") <=> Says("run-complete")' \/ Head(toRegistry).type = "run-complete"
    BY <1>r, ShrunkSays
<1>v. /\ Head(toRegistry).type = "run-patch" /\ retainedUntil' \in BOOLEAN
      /\ runState' = runState \/ (runState' = Head(toRegistry).status /\ Head(toRegistry).status # Same)
    BY <1>1, <1>a, <1>u, <1>d, <1>dt, <1>r, <1>rt, AttemptParts, DaemonFrameParts,
       RegistryFrameParts, IdlePhase
    DEF ApplyRunPatch, hostTimers, hostLeases, hostAttach, daemonVars, discardVars,
        attachVars, linkVars, Report, Leased, DiskShape, LastLease, OneLease,
        OneLeaseAtATime, Shrunk
<1>2. DiskShape'
  BY <1>1, <1>a, <1>u, <1>d, <1>dt, <1>r, <1>rt, <1>v, AttemptParts, DaemonFrameParts,
     RegistryFrameParts, IdlePhase
  DEF DiskShape, OneLease
<1>l. LastLease'
  <2>1. \A i \in DOMAIN toDaemon' :
          toDaemon'[i].type = "dispatch" => toDaemon'[i].lease = Len(kinds')
    BY <1>1, <1>2, <1>a, <1>u, <1>d, <1>dt, <1>r, <1>rt, <1>v, AttemptParts,
       DaemonFrameParts, RegistryFrameParts, IdlePhase, DispatchesAreLast
    DEF OneLease, DiskShape
  <2>2. \A i \in DOMAIN toRegistry' :
          toRegistry'[i].type # "attach-over" => toRegistry'[i].lease = Len(kinds')
    BY <1>1, <1>2, <1>a, <1>u, <1>d, <1>dt, <1>r, <1>rt, <1>v, AttemptParts,
       DaemonFrameParts, RegistryFrameParts, IdlePhase, ReportsAreLast
    DEF OneLease, DiskShape
  <2>3. ~online' => toDaemon' = << >>
    BY <1>1, <1>2, <1>a, <1>u, <1>d, <1>dt, <1>r, <1>rt, <1>v, AttemptParts,
       DaemonFrameParts, RegistryFrameParts, IdlePhase
    DEF LastLease, OneLease, Grown, Shrunk, DiskShape
  <2>4. QED  BY <2>1, <2>2, <2>3 DEF LastLease
<1>3. OneLease'
  BY <1>1, <1>a, <1>u, <1>d, <1>dt, <1>r, <1>rt, <1>v, AttemptParts
  DEF OneLease, Claimed
<1>4. InOrder'
  <2>1. ReportsInOrder'
    BY <1>1, <1>a, <1>u, <1>d, <1>dt, <1>r, <1>rt, <1>v, ShrunkReports
    DEF InOrder, OneLease, DiskShape
  <2>2. \A i \in DOMAIN toRegistry' : IsBeginning(i)' => runState' \notin DiskSettled
    BY <1>1, <1>2, <1>a, <1>u, <1>d, <1>dt, <1>r, <1>rt, <1>v, AttemptParts,
       DaemonFrameParts, RegistryFrameParts, IdlePhase
    DEF OneLease, InOrder, ReportsInOrder, IsBeginning, Says, Undisturbed, Early, Grown, Shrunk
  <2>3. QED  BY <2>1, <2>2 DEF InOrder, IsBeginning
<1>5. Undisturbed'
  BY <1>1, <1>2, <1>3, <1>a, <1>u, <1>d, <1>dt, <1>r, <1>rt, <1>v, AttemptParts,
     DaemonFrameParts, RegistryFrameParts, IdlePhase
  DEF Early, OneLease, DiskShape, Undisturbed, IsBeginning, Says, Grown, Shrunk, InOrder,
      ReportsInOrder
<1>6. DiscardsFirst'
  BY <1>1, <1>a, <1>u, <1>d, <1>dt, <1>r, <1>rt, <1>v, AtFirst, <1>2, <1>3, AttemptParts,
     DaemonFrameParts, RegistryFrameParts, IdlePhase
  DEF DiscardsFirst, OneLease, Undisturbed, DiskShape, DispatchIsLast, Early, Hears, Grown,
      Shrunk
<1>7. QED  BY <1>2, <1>l, <1>3, <1>4, <1>5, <1>6 DEF DiskInv

\* The registry reads that an attempt is over.
LEMMA ApplyRunCompleteKeepsDisk ==
    ASSUME DiskInv, OneLeaseAtATime, ApplyRunComplete
    PROVE  DiskInv'
<1> USE DEF Idle, Finished, DiskSettled, Same
<1>1. DiskShape /\ LastLease /\ OneLease /\ InOrder /\ Undisturbed /\ DiscardsFirst
    BY DEF DiskInv
<1>a. active.phase # "idle" => active \in Attempt  BY <1>1, IdlePhase DEF DiskShape
<1>u. /\ followUp' = followUp /\ kinds' = kinds /\ online' = online
      /\ active' = active /\ attached' = attached /\ tracked' = tracked
      /\ removing' = removing /\ removals' = removals /\ opened' = opened
      /\ retainedUntil' = retainedUntil
    BY DEF ApplyRunComplete, hostAttach, daemonVars, discardVars, attachVars, linkVars,
           ReapArmed, ResumeArmed, Report, Leased
<1>d. toDaemon' = toDaemon
    BY DEF ApplyRunComplete, hostAttach, daemonVars, discardVars, attachVars, linkVars,
           ReapArmed, ResumeArmed, Report, Leased
<1>dt. (Hears("dispatch")' <=> Hears("dispatch")) /\ (Hears("discard")' <=> Hears("discard"))
    BY <1>d
    DEF Hears
<1>r. /\ toRegistry' \in Seq(RegistryFrames) /\ Shrunk(toRegistry, toRegistry')
      /\ Head(toRegistry) \in RegistryFrames
    BY <1>1, RegistryReads DEF ApplyRunComplete, Got, Report, DiskShape
<1>rt. /\ Says("run-patch") <=> Says("run-patch")' \/ Head(toRegistry).type = "run-patch"
       /\ Says("run-complete") <=> Says("run-complete")' \/ Head(toRegistry).type = "run-complete"
    BY <1>r, ShrunkSays
<1>v. /\ Head(toRegistry).type = "run-complete" /\ Head(toRegistry).lease = Len(kinds)
      /\ held = {Len(kinds)} /\ held' = {} /\ runState' \in DiskSettled
    BY <1>1, <1>a, <1>u, <1>d, <1>dt, <1>r, <1>rt, AttemptParts, DaemonFrameParts,
       RegistryFrameParts, IdlePhase
    DEF ApplyRunComplete, hostAttach, daemonVars, discardVars, attachVars, linkVars,
        ReapArmed, ResumeArmed, Report, Leased, DiskShape, LastLease, OneLease,
        OneLeaseAtATime, Shrunk
<1>w. ~Says("run-patch")' /\ ~Says("run-complete")'
    BY <1>1, <1>r, <1>v, ShrunkReports
    DEF InOrder
<1>2. DiskShape'
  BY <1>1, <1>a, <1>u, <1>d, <1>dt, <1>r, <1>rt, <1>v, <1>w, AttemptParts, DaemonFrameParts,
     RegistryFrameParts, IdlePhase
  DEF DiskShape, OneLease
<1>l. LastLease'
  <2>1. \A i \in DOMAIN toDaemon' :
          toDaemon'[i].type = "dispatch" => toDaemon'[i].lease = Len(kinds')
    BY <1>1, <1>2, <1>a, <1>u, <1>d, <1>dt, <1>r, <1>rt, <1>v, <1>w, AttemptParts,
       DaemonFrameParts, RegistryFrameParts, IdlePhase, DispatchesAreLast
    DEF OneLease, DiskShape
  <2>2. \A i \in DOMAIN toRegistry' :
          toRegistry'[i].type # "attach-over" => toRegistry'[i].lease = Len(kinds')
    BY <1>1, <1>2, <1>a, <1>u, <1>d, <1>dt, <1>r, <1>rt, <1>v, <1>w, AttemptParts,
       DaemonFrameParts, RegistryFrameParts, IdlePhase, ReportsAreLast
    DEF OneLease, DiskShape
  <2>3. ~online' => toDaemon' = << >>
    BY <1>1, <1>2, <1>a, <1>u, <1>d, <1>dt, <1>r, <1>rt, <1>v, <1>w, AttemptParts,
       DaemonFrameParts, RegistryFrameParts, IdlePhase
    DEF LastLease, OneLease, Grown, Shrunk, DiskShape
  <2>4. QED  BY <2>1, <2>2, <2>3 DEF LastLease
<1>3. OneLease'
  BY <1>1, <1>a, <1>u, <1>d, <1>dt, <1>r, <1>rt, <1>v, <1>w, AttemptParts
  DEF OneLease, Claimed
<1>4. InOrder'
  BY <1>1, <1>a, <1>u, <1>d, <1>dt, <1>r, <1>rt, <1>v, <1>w, ShrunkReports, <1>2,
     AttemptParts, DaemonFrameParts, RegistryFrameParts, IdlePhase
  DEF InOrder, OneLease, DiskShape, ReportsInOrder, IsBeginning, Says, Undisturbed, Early, Grown,
      Shrunk
<1>5. Undisturbed'
  BY <1>1, <1>2, <1>3, <1>a, <1>u, <1>d, <1>dt, <1>r, <1>rt, <1>v, <1>w, AttemptParts,
     DaemonFrameParts, RegistryFrameParts, IdlePhase
  DEF Early, OneLease, DiskShape, Undisturbed, IsBeginning, Says, Grown, Shrunk, InOrder,
      ReportsInOrder
<1>6. DiscardsFirst'
  BY <1>1, <1>a, <1>u, <1>d, <1>dt, <1>r, <1>rt, <1>v, <1>w, AtFirst, <1>2, <1>3,
     AttemptParts, DaemonFrameParts, RegistryFrameParts, IdlePhase
  DEF DiscardsFirst, OneLease, Undisturbed, DiskShape, DispatchIsLast, Early, Hears, Grown,
      Shrunk
<1>7. QED  BY <1>2, <1>l, <1>3, <1>4, <1>5, <1>6 DEF DiskInv

\* The registry reads that a session is over.
LEMMA ReceiveAttachFrameKeepsDisk ==
    ASSUME DiskInv, OneLeaseAtATime, ReceiveAttachFrame
    PROVE  DiskInv'
<1> USE DEF Idle, Finished, DiskSettled, Same
<1>1. DiskShape /\ LastLease /\ OneLease /\ InOrder /\ Undisturbed /\ DiscardsFirst
    BY DEF DiskInv
<1>a. active.phase # "idle" => active \in Attempt  BY <1>1, IdlePhase DEF DiskShape
<1>u. /\ runState' = runState /\ followUp' = followUp /\ held' = held
      /\ kinds' = kinds /\ online' = online /\ active' = active
      /\ reapTimer' = reapTimer /\ tracked' = tracked /\ removing' = removing
      /\ removals' = removals /\ opened' = opened /\ retainedUntil' = retainedUntil
    BY DEF ReceiveAttachFrame, hostRecord, hostTimers, hostLeases, daemonVars, discardVars,
           attachVars, linkVars
<1>d. toDaemon' = toDaemon
    BY DEF ReceiveAttachFrame, hostRecord, hostTimers, hostLeases, daemonVars, discardVars,
           attachVars, linkVars
<1>dt. (Hears("dispatch")' <=> Hears("dispatch")) /\ (Hears("discard")' <=> Hears("discard"))
    BY <1>d
    DEF Hears
<1>r. /\ toRegistry' \in Seq(RegistryFrames) /\ Shrunk(toRegistry, toRegistry')
      /\ Head(toRegistry) \in RegistryFrames
    BY <1>1, RegistryReads DEF ReceiveAttachFrame, Got, Report, DiskShape
<1>rt. /\ Says("run-patch") <=> Says("run-patch")' \/ Head(toRegistry).type = "run-patch"
       /\ Says("run-complete") <=> Says("run-complete")' \/ Head(toRegistry).type = "run-complete"
    BY <1>r, ShrunkSays
<1>v. Head(toRegistry).type = "attach-over" /\ attached' \subseteq attached
    BY <1>1, <1>a, <1>u, <1>d, <1>dt, <1>r, <1>rt, AttemptParts, DaemonFrameParts,
       RegistryFrameParts, IdlePhase
    DEF ReceiveAttachFrame, hostRecord, hostTimers, hostLeases, daemonVars, discardVars,
        attachVars, linkVars, DiskShape, LastLease, OneLease, OneLeaseAtATime, Shrunk,
        Sessions
<1>2. DiskShape'
  BY <1>1, <1>a, <1>u, <1>d, <1>dt, <1>r, <1>rt, <1>v, AttemptParts, DaemonFrameParts,
     RegistryFrameParts, IdlePhase
  DEF DiskShape, OneLease
<1>l. LastLease'
  <2>1. \A i \in DOMAIN toDaemon' :
          toDaemon'[i].type = "dispatch" => toDaemon'[i].lease = Len(kinds')
    BY <1>1, <1>2, <1>a, <1>u, <1>d, <1>dt, <1>r, <1>rt, <1>v, AttemptParts,
       DaemonFrameParts, RegistryFrameParts, IdlePhase, DispatchesAreLast
    DEF OneLease, DiskShape
  <2>2. \A i \in DOMAIN toRegistry' :
          toRegistry'[i].type # "attach-over" => toRegistry'[i].lease = Len(kinds')
    BY <1>1, <1>2, <1>a, <1>u, <1>d, <1>dt, <1>r, <1>rt, <1>v, AttemptParts,
       DaemonFrameParts, RegistryFrameParts, IdlePhase, ReportsAreLast
    DEF OneLease, DiskShape
  <2>3. ~online' => toDaemon' = << >>
    BY <1>1, <1>2, <1>a, <1>u, <1>d, <1>dt, <1>r, <1>rt, <1>v, AttemptParts,
       DaemonFrameParts, RegistryFrameParts, IdlePhase
    DEF LastLease, OneLease, Grown, Shrunk, DiskShape
  <2>4. QED  BY <2>1, <2>2, <2>3 DEF LastLease
<1>3. OneLease'
  BY <1>1, <1>a, <1>u, <1>d, <1>dt, <1>r, <1>rt, <1>v, AttemptParts
  DEF OneLease, Claimed
<1>4. InOrder'
  <2>1. ReportsInOrder'
    BY <1>1, <1>a, <1>u, <1>d, <1>dt, <1>r, <1>rt, <1>v, ShrunkReports
    DEF InOrder, OneLease, DiskShape
  <2>2. \A i \in DOMAIN toRegistry' : IsBeginning(i)' => runState' \notin DiskSettled
    BY <1>1, <1>2, <1>a, <1>u, <1>d, <1>dt, <1>r, <1>rt, <1>v, AttemptParts,
       DaemonFrameParts, RegistryFrameParts, IdlePhase
    DEF OneLease, InOrder, ReportsInOrder, IsBeginning, Says, Undisturbed, Early, Grown, Shrunk
  <2>3. QED  BY <2>1, <2>2 DEF InOrder, IsBeginning
<1>5. Undisturbed'
  BY <1>1, <1>2, <1>3, <1>a, <1>u, <1>d, <1>dt, <1>r, <1>rt, <1>v, AttemptParts,
     DaemonFrameParts, RegistryFrameParts, IdlePhase
  DEF Early, OneLease, DiskShape, Undisturbed, IsBeginning, Says, Grown, Shrunk, InOrder,
      ReportsInOrder
<1>6. DiscardsFirst'
  BY <1>1, <1>a, <1>u, <1>d, <1>dt, <1>r, <1>rt, <1>v, AtFirst, <1>2, <1>3, AttemptParts,
     DaemonFrameParts, RegistryFrameParts, IdlePhase
  DEF DiscardsFirst, OneLease, Undisturbed, DiskShape, DispatchIsLast, Early, Hears, Grown,
      Shrunk
<1>7. QED  BY <1>2, <1>l, <1>3, <1>4, <1>5, <1>6 DEF DiskInv

\* The daemon reads a dispatch.
LEMMA HandleDispatchKeepsDisk ==
    ASSUME DiskInv, OneLeaseAtATime, HandleDispatch
    PROVE  DiskInv'
<1> USE DEF Idle, Finished, DiskSettled, Same
<1>1. DiskShape /\ LastLease /\ OneLease /\ InOrder /\ Undisturbed /\ DiscardsFirst
    BY DEF DiskInv
<1>a. active.phase # "idle" => active \in Attempt  BY <1>1, IdlePhase DEF DiskShape
<1>u. /\ runState' = runState /\ followUp' = followUp /\ held' = held
      /\ kinds' = kinds /\ online' = online /\ attached' = attached
      /\ reapTimer' = reapTimer /\ tracked' = tracked /\ removing' = removing
      /\ removals' = removals /\ opened' = opened /\ retainedUntil' = retainedUntil
    BY DEF HandleDispatch, hostRecord, hostTimers, hostLeases, hostAttach, daemonVars,
           discardVars, attachVars, linkVars, Got
<1>d. /\ toDaemon' \in Seq(DaemonFrames) /\ Shrunk(toDaemon, toDaemon')
      /\ Head(toDaemon) \in DaemonFrames
    BY <1>1, DaemonReads DEF HandleDispatch, Got, Report, DiskShape
<1>dt. /\ Hears("dispatch") <=> Hears("dispatch")' \/ Head(toDaemon).type = "dispatch"
       /\ Hears("discard") <=> Hears("discard")' \/ Head(toDaemon).type = "discard"
    BY <1>d, ShrunkHears
<1>r. toRegistry' = toRegistry
  <2>1. Hears("dispatch")  BY <1>dt DEF HandleDispatch, Got
  <2>2. QED  BY <1>1, <2>1 DEF OneLease, HandleDispatch
<1>rt. (Says("run-patch")' <=> Says("run-patch")) /\ (Says("run-complete")' <=> Says("run-complete"))
    BY <1>r
    DEF Says
<1>v. /\ Head(toDaemon).type = "dispatch" /\ Head(toDaemon).lease = Len(kinds) /\ active = Idle
      /\ active' \in Attempt /\ active'.phase = "accepted" /\ active'.lease = Len(kinds)
      /\ active'.awaits = tracked
    BY <1>1, <1>a, <1>u, <1>d, <1>dt, <1>r, <1>rt, AttemptParts, DaemonFrameParts,
       RegistryFrameParts, IdlePhase
    DEF HandleDispatch, hostRecord, hostTimers, hostLeases, hostAttach, daemonVars,
        discardVars, attachVars, linkVars, Got, DiskShape, LastLease, OneLease,
        OneLeaseAtATime, Shrunk, Attempt
<1>w. ~Hears("dispatch")' /\ ~Hears("discard")'
    BY <1>1, <1>d, <1>v, ShrunkDispatch
    DEF DiscardsFirst
<1>2. DiskShape'
  BY <1>1, <1>a, <1>u, <1>d, <1>dt, <1>r, <1>rt, <1>v, <1>w, AttemptParts, DaemonFrameParts,
     RegistryFrameParts, IdlePhase
  DEF DiskShape, OneLease
<1>l. LastLease'
  <2>1. \A i \in DOMAIN toDaemon' :
          toDaemon'[i].type = "dispatch" => toDaemon'[i].lease = Len(kinds')
    BY <1>1, <1>2, <1>a, <1>u, <1>d, <1>dt, <1>r, <1>rt, <1>v, <1>w, AttemptParts,
       DaemonFrameParts, RegistryFrameParts, IdlePhase, DispatchesAreLast
    DEF OneLease, DiskShape
  <2>2. \A i \in DOMAIN toRegistry' :
          toRegistry'[i].type # "attach-over" => toRegistry'[i].lease = Len(kinds')
    BY <1>1, <1>2, <1>a, <1>u, <1>d, <1>dt, <1>r, <1>rt, <1>v, <1>w, AttemptParts,
       DaemonFrameParts, RegistryFrameParts, IdlePhase, ReportsAreLast
    DEF OneLease, DiskShape
  <2>3. ~online' => toDaemon' = << >>
    BY <1>1, <1>2, <1>a, <1>u, <1>d, <1>dt, <1>r, <1>rt, <1>v, <1>w, AttemptParts,
       DaemonFrameParts, RegistryFrameParts, IdlePhase
    DEF LastLease, OneLease, Grown, Shrunk, DiskShape
  <2>4. QED  BY <2>1, <2>2, <2>3 DEF LastLease
<1>3. OneLease'
  BY <1>1, <1>a, <1>u, <1>d, <1>dt, <1>r, <1>rt, <1>v, <1>w, AttemptParts
  DEF OneLease, Claimed
<1>4. InOrder'
  BY <1>1, <1>a, <1>u, <1>d, <1>dt, <1>r, <1>rt, <1>v, <1>w, IdlePhase, <1>2, AttemptParts,
     DaemonFrameParts, RegistryFrameParts
  DEF InOrder, OneLease, DiskShape, ReportsInOrder, IsBeginning, Says, Undisturbed, Early, Grown,
      Shrunk
<1>5. Undisturbed'
  BY <1>1, <1>2, <1>3, <1>a, <1>u, <1>d, <1>dt, <1>r, <1>rt, <1>v, <1>w, AttemptParts,
     DaemonFrameParts, RegistryFrameParts, IdlePhase
  DEF Early, OneLease, DiskShape, Undisturbed, IsBeginning, Says, Grown, Shrunk, InOrder,
      ReportsInOrder
<1>6. DiscardsFirst'
  BY <1>1, <1>a, <1>u, <1>d, <1>dt, <1>r, <1>rt, <1>v, <1>w, ShrunkDispatch, <1>2, <1>3,
     AttemptParts, DaemonFrameParts, RegistryFrameParts, IdlePhase
  DEF DiscardsFirst, OneLease, Undisturbed, DiskShape, Early, DispatchIsLast, Hears, Grown,
      Shrunk
<1>7. QED  BY <1>2, <1>l, <1>3, <1>4, <1>5, <1>6 DEF DiskInv

\* The daemon reads a discard and begins to remove the disk.
LEMMA HandleDiscardKeepsDisk ==
    ASSUME DiskInv, OneLeaseAtATime, HandleDiscard
    PROVE  DiskInv'
<1> USE DEF Idle, Finished, DiskSettled, Same
<1>1. DiskShape /\ LastLease /\ OneLease /\ InOrder /\ Undisturbed /\ DiscardsFirst
    BY DEF DiskInv
<1>a. active.phase # "idle" => active \in Attempt  BY <1>1, IdlePhase DEF DiskShape
<1>u. /\ runState' = runState /\ followUp' = followUp /\ held' = held
      /\ kinds' = kinds /\ online' = online /\ active' = active
      /\ attached' = attached /\ reapTimer' = reapTimer /\ opened' = opened
      /\ retainedUntil' = retainedUntil
    BY DEF HandleDiscard, hostRecord, hostTimers, hostLeases, hostAttach, attachVars,
           linkVars, Got
<1>d. /\ toDaemon' \in Seq(DaemonFrames) /\ Shrunk(toDaemon, toDaemon')
      /\ Head(toDaemon) \in DaemonFrames
    BY <1>1, DaemonReads DEF HandleDiscard, Got, Report, DiskShape
<1>dt. /\ Hears("dispatch") <=> Hears("dispatch")' \/ Head(toDaemon).type = "dispatch"
       /\ Hears("discard") <=> Hears("discard")' \/ Head(toDaemon).type = "discard"
    BY <1>d, ShrunkHears
<1>r. toRegistry' = toRegistry
    BY DEF HandleDiscard, hostRecord, hostTimers, hostLeases, hostAttach, attachVars,
           linkVars, Got
<1>rt. (Says("run-patch")' <=> Says("run-patch")) /\ (Says("run-complete")' <=> Says("run-complete"))
    BY <1>r
    DEF Says
<1>v. /\ Head(toDaemon).type = "discard" /\ removals' \in Nat
      /\ removing' \subseteq 1 .. removals' /\ tracked' \in removing' \cup {0}
    BY <1>1, <1>a, <1>u, <1>d, <1>dt, <1>r, <1>rt, AttemptParts, DaemonFrameParts,
       RegistryFrameParts, IdlePhase
    DEF HandleDiscard, hostRecord, hostTimers, hostLeases, hostAttach, attachVars, linkVars,
        Got, DiskShape, LastLease, OneLease, OneLeaseAtATime, Shrunk
<1>2. DiskShape'
  BY <1>1, <1>a, <1>u, <1>d, <1>dt, <1>r, <1>rt, <1>v, AttemptParts, DaemonFrameParts,
     RegistryFrameParts, IdlePhase
  DEF DiskShape, OneLease
<1>l. LastLease'
  <2>1. \A i \in DOMAIN toDaemon' :
          toDaemon'[i].type = "dispatch" => toDaemon'[i].lease = Len(kinds')
    BY <1>1, <1>2, <1>a, <1>u, <1>d, <1>dt, <1>r, <1>rt, <1>v, AttemptParts,
       DaemonFrameParts, RegistryFrameParts, IdlePhase, DispatchesAreLast
    DEF OneLease, DiskShape
  <2>2. \A i \in DOMAIN toRegistry' :
          toRegistry'[i].type # "attach-over" => toRegistry'[i].lease = Len(kinds')
    BY <1>1, <1>2, <1>a, <1>u, <1>d, <1>dt, <1>r, <1>rt, <1>v, AttemptParts,
       DaemonFrameParts, RegistryFrameParts, IdlePhase, ReportsAreLast
    DEF OneLease, DiskShape
  <2>3. ~online' => toDaemon' = << >>
    BY <1>1, <1>2, <1>a, <1>u, <1>d, <1>dt, <1>r, <1>rt, <1>v, AttemptParts,
       DaemonFrameParts, RegistryFrameParts, IdlePhase
    DEF LastLease, OneLease, Grown, Shrunk, DiskShape
  <2>4. QED  BY <2>1, <2>2, <2>3 DEF LastLease
<1>3. OneLease'
  BY <1>1, <1>a, <1>u, <1>d, <1>dt, <1>r, <1>rt, <1>v, AttemptParts
  DEF OneLease, Claimed
<1>4. InOrder'
  BY <1>1, <1>a, <1>u, <1>d, <1>dt, <1>r, <1>rt, <1>v, IdlePhase, <1>2, AttemptParts,
     DaemonFrameParts, RegistryFrameParts
  DEF InOrder, OneLease, DiskShape, ReportsInOrder, IsBeginning, Says, Undisturbed, Early, Grown,
      Shrunk
<1>5. Undisturbed'
  BY <1>1, <1>2, <1>3, <1>a, <1>u, <1>d, <1>dt, <1>r, <1>rt, <1>v, AttemptParts,
     DaemonFrameParts, RegistryFrameParts, IdlePhase
  DEF Early, OneLease, DiskShape, Undisturbed, IsBeginning, Says, Grown, Shrunk, InOrder,
      ReportsInOrder
<1>6. DiscardsFirst'
  BY <1>1, <1>a, <1>u, <1>d, <1>dt, <1>r, <1>rt, <1>v, ShrunkDispatch, <1>2, <1>3,
     AttemptParts, DaemonFrameParts, RegistryFrameParts, IdlePhase
  DEF DiscardsFirst, OneLease, Undisturbed, DiskShape, Early, DispatchIsLast, Hears, Grown,
      Shrunk
<1>7. QED  BY <1>2, <1>l, <1>3, <1>4, <1>5, <1>6 DEF DiskInv

\* An attempt begins, unless a removal is under way.
LEMMA BeginRunKeepsDisk ==
    ASSUME DiskInv, OneLeaseAtATime, BeginRun
    PROVE  DiskInv'
<1> USE DEF Idle, Finished, DiskSettled, Same
<1>1. DiskShape /\ LastLease /\ OneLease /\ InOrder /\ Undisturbed /\ DiscardsFirst
    BY DEF DiskInv
<1>a. active.phase # "idle" => active \in Attempt  BY <1>1, IdlePhase DEF DiskShape
<1>u. /\ runState' = runState /\ followUp' = followUp /\ held' = held
      /\ kinds' = kinds /\ online' = online /\ attached' = attached
      /\ reapTimer' = reapTimer /\ tracked' = tracked /\ removing' = removing
      /\ removals' = removals /\ opened' = opened /\ retainedUntil' = retainedUntil
    BY DEF BeginRun, hostRecord, hostTimers, hostLeases, hostAttach, discardVars,
           attachVars, linkVars, DiscardAwaited
<1>d. toDaemon' = toDaemon
    BY DEF BeginRun, hostRecord, hostTimers, hostLeases, hostAttach, discardVars,
           attachVars, linkVars, DiscardAwaited
<1>dt. (Hears("dispatch")' <=> Hears("dispatch")) /\ (Hears("discard")' <=> Hears("discard"))
    BY <1>d
    DEF Hears
<1>rm. PICK mr : mr = [type |-> "run-patch", lease |-> active.lease, status |-> "active", retained |-> FALSE]  OBVIOUS
<1>rn. mr.type = "run-patch"  BY <1>rm
<1>rf. mr \in RegistryFrames
    BY <1>rm, <1>1, <1>a, AttemptParts, DaemonFrameParts
    DEF BeginRun, RegistryFrames, DiskShape, OneLease, Sessions, Got
<1>r. toRegistry' \in Seq(RegistryFrames) /\ Grown(toRegistry, toRegistry', mr)
    BY <1>1, <1>rm, <1>rf, RegistryIsTold DEF BeginRun, DiskShape
<1>rt. /\ Says("run-patch")' <=> Says("run-patch") \/ mr.type = "run-patch"
       /\ Says("run-complete")' <=> Says("run-complete") \/ mr.type = "run-complete"
    BY <1>r, GrownSays
<1>v. /\ active \in Attempt /\ active.phase = "accepted" /\ active.awaits \notin removing
      /\ active' \in Attempt /\ active'.phase = "working" /\ active'.lease = active.lease
    BY <1>1, <1>a, <1>u, <1>d, <1>dt, <1>rm, <1>rn, <1>r, <1>rt, AttemptParts,
       DaemonFrameParts, RegistryFrameParts, IdlePhase
    DEF BeginRun, hostRecord, hostTimers, hostLeases, hostAttach, discardVars, attachVars,
        linkVars, DiscardAwaited, DiskShape, LastLease, OneLease, OneLeaseAtATime, Shrunk,
        Attempt
<1>w. mr.status = "active" /\ ~Says("run-patch")  BY <1>1, <1>rm, <1>v DEF Undisturbed
<1>2. DiskShape'
  BY <1>1, <1>a, <1>u, <1>d, <1>dt, <1>rm, <1>rn, <1>r, <1>rt, <1>v, <1>w, AttemptParts,
     DaemonFrameParts, RegistryFrameParts, IdlePhase
  DEF DiskShape, OneLease
<1>l. LastLease'
  <2>1. \A i \in DOMAIN toDaemon' :
          toDaemon'[i].type = "dispatch" => toDaemon'[i].lease = Len(kinds')
    BY <1>1, <1>2, <1>a, <1>u, <1>d, <1>dt, <1>rm, <1>rn, <1>r, <1>rt, <1>v, <1>w,
       AttemptParts, DaemonFrameParts, RegistryFrameParts, IdlePhase, DispatchesAreLast
    DEF OneLease, DiskShape
  <2>2. \A i \in DOMAIN toRegistry' :
          toRegistry'[i].type # "attach-over" => toRegistry'[i].lease = Len(kinds')
    BY <1>1, <1>2, <1>a, <1>u, <1>d, <1>dt, <1>rm, <1>rn, <1>r, <1>rt, <1>v, <1>w,
       AttemptParts, DaemonFrameParts, RegistryFrameParts, IdlePhase, ReportsAreLast
    DEF OneLease, DiskShape
  <2>3. ~online' => toDaemon' = << >>
    BY <1>1, <1>2, <1>a, <1>u, <1>d, <1>dt, <1>rm, <1>rn, <1>r, <1>rt, <1>v, <1>w,
       AttemptParts, DaemonFrameParts, RegistryFrameParts, IdlePhase
    DEF LastLease, OneLease, Grown, Shrunk, DiskShape
  <2>4. QED  BY <2>1, <2>2, <2>3 DEF LastLease
<1>3. OneLease'
  BY <1>1, <1>a, <1>u, <1>d, <1>dt, <1>rm, <1>rn, <1>r, <1>rt, <1>v, <1>w, AttemptParts
  DEF OneLease, Claimed
<1>4. InOrder'
  BY <1>1, <1>a, <1>u, <1>d, <1>dt, <1>rm, <1>rn, <1>r, <1>rt, <1>v, <1>w, <1>rf,
     GrownReports, AttemptParts, <1>2, DaemonFrameParts, RegistryFrameParts, IdlePhase
  DEF InOrder, OneLease, DiskShape, ReportsInOrder, IsBeginning, Says, Undisturbed, Early, Grown,
      Shrunk
<1>5. Undisturbed'
  BY <1>1, <1>2, <1>3, <1>a, <1>u, <1>d, <1>dt, <1>rm, <1>rn, <1>r, <1>rt, <1>v, <1>w,
     AttemptParts, DaemonFrameParts, RegistryFrameParts, IdlePhase
  DEF Early, OneLease, DiskShape, Undisturbed, IsBeginning, Says, Grown, Shrunk, InOrder,
      ReportsInOrder
<1>6. DiscardsFirst'
  BY <1>1, <1>a, <1>u, <1>d, <1>dt, <1>rm, <1>rn, <1>r, <1>rt, <1>v, <1>w, AtFirst, <1>2,
     <1>3, AttemptParts, DaemonFrameParts, RegistryFrameParts, IdlePhase
  DEF DiscardsFirst, OneLease, Undisturbed, DiskShape, DispatchIsLast, Early, Hears, Grown,
      Shrunk
<1>7. QED  BY <1>2, <1>l, <1>3, <1>4, <1>5, <1>6 DEF DiskInv

\* An attempt comes to its outcome.
LEMMA ConcludeKeepsDisk ==
    ASSUME DiskInv, OneLeaseAtATime, NEW status \in DiskSettled, Conclude(status)
    PROVE  DiskInv'
<1> USE DEF Idle, Finished, DiskSettled, Same
<1>1. DiskShape /\ LastLease /\ OneLease /\ InOrder /\ Undisturbed /\ DiscardsFirst
    BY DEF DiskInv
<1>a. active.phase # "idle" => active \in Attempt  BY <1>1, IdlePhase DEF DiskShape
<1>u. /\ runState' = runState /\ followUp' = followUp /\ held' = held
      /\ kinds' = kinds /\ online' = online /\ attached' = attached
      /\ reapTimer' = reapTimer /\ tracked' = tracked /\ removing' = removing
      /\ removals' = removals /\ opened' = opened /\ retainedUntil' = retainedUntil
    BY DEF Conclude, hostRecord, hostTimers, hostLeases, hostAttach, discardVars,
           attachVars, linkVars
<1>d. toDaemon' = toDaemon
    BY DEF Conclude, hostRecord, hostTimers, hostLeases, hostAttach, discardVars,
           attachVars, linkVars
<1>dt. (Hears("dispatch")' <=> Hears("dispatch")) /\ (Hears("discard")' <=> Hears("discard"))
    BY <1>d
    DEF Hears
<1>rm. PICK mr : mr = [type |-> "run-patch", lease |-> active.lease, status |-> status, retained |-> FALSE]  OBVIOUS
<1>rn. mr.type = "run-patch"  BY <1>rm
<1>rf. mr \in RegistryFrames
    BY <1>rm, <1>1, <1>a, AttemptParts, DaemonFrameParts
    DEF Conclude, RegistryFrames, DiskShape, OneLease, Sessions, Got
<1>r. toRegistry' \in Seq(RegistryFrames) /\ Grown(toRegistry, toRegistry', mr)
    BY <1>1, <1>rm, <1>rf, RegistryIsTold DEF Conclude, DiskShape
<1>rt. /\ Says("run-patch")' <=> Says("run-patch") \/ mr.type = "run-patch"
       /\ Says("run-complete")' <=> Says("run-complete") \/ mr.type = "run-complete"
    BY <1>r, GrownSays
<1>v. /\ active \in Attempt /\ active.phase = "working"
      /\ active' \in Attempt /\ active'.phase = "finishing" /\ active'.lease = active.lease
      /\ active'.status = status
    BY <1>1, <1>a, <1>u, <1>d, <1>dt, <1>rm, <1>rn, <1>r, <1>rt, AttemptParts,
       DaemonFrameParts, RegistryFrameParts, IdlePhase
    DEF Conclude, hostRecord, hostTimers, hostLeases, hostAttach, discardVars, attachVars,
        linkVars, DiskShape, LastLease, OneLease, OneLeaseAtATime, Shrunk, Attempt
<1>2. DiskShape'
  BY <1>1, <1>a, <1>u, <1>d, <1>dt, <1>rm, <1>rn, <1>r, <1>rt, <1>v, AttemptParts,
     DaemonFrameParts, RegistryFrameParts, IdlePhase
  DEF DiskShape, OneLease
<1>l. LastLease'
  <2>1. \A i \in DOMAIN toDaemon' :
          toDaemon'[i].type = "dispatch" => toDaemon'[i].lease = Len(kinds')
    BY <1>1, <1>2, <1>a, <1>u, <1>d, <1>dt, <1>rm, <1>rn, <1>r, <1>rt, <1>v, AttemptParts,
       DaemonFrameParts, RegistryFrameParts, IdlePhase, DispatchesAreLast
    DEF OneLease, DiskShape
  <2>2. \A i \in DOMAIN toRegistry' :
          toRegistry'[i].type # "attach-over" => toRegistry'[i].lease = Len(kinds')
    BY <1>1, <1>2, <1>a, <1>u, <1>d, <1>dt, <1>rm, <1>rn, <1>r, <1>rt, <1>v, AttemptParts,
       DaemonFrameParts, RegistryFrameParts, IdlePhase, ReportsAreLast
    DEF OneLease, DiskShape
  <2>3. ~online' => toDaemon' = << >>
    BY <1>1, <1>2, <1>a, <1>u, <1>d, <1>dt, <1>rm, <1>rn, <1>r, <1>rt, <1>v, AttemptParts,
       DaemonFrameParts, RegistryFrameParts, IdlePhase
    DEF LastLease, OneLease, Grown, Shrunk, DiskShape
  <2>4. QED  BY <2>1, <2>2, <2>3 DEF LastLease
<1>3. OneLease'
  BY <1>1, <1>a, <1>u, <1>d, <1>dt, <1>rm, <1>rn, <1>r, <1>rt, <1>v, AttemptParts
  DEF OneLease, Claimed
<1>4. InOrder'
  BY <1>1, <1>a, <1>u, <1>d, <1>dt, <1>rm, <1>rn, <1>r, <1>rt, <1>v, <1>rf, GrownReports,
     AttemptParts, <1>2, DaemonFrameParts, RegistryFrameParts, IdlePhase
  DEF InOrder, OneLease, DiskShape, ReportsInOrder, IsBeginning, Says, Undisturbed, Early, Grown,
      Shrunk
<1>5. Undisturbed'
  BY <1>1, <1>2, <1>3, <1>a, <1>u, <1>d, <1>dt, <1>rm, <1>rn, <1>r, <1>rt, <1>v, AttemptParts,
     DaemonFrameParts, RegistryFrameParts, IdlePhase
  DEF Early, OneLease, DiskShape, Undisturbed, IsBeginning, Says, Grown, Shrunk, InOrder,
      ReportsInOrder
<1>6. DiscardsFirst'
  BY <1>1, <1>a, <1>u, <1>d, <1>dt, <1>rm, <1>rn, <1>r, <1>rt, <1>v, AtFirst, <1>2, <1>3,
     AttemptParts, DaemonFrameParts, RegistryFrameParts, IdlePhase
  DEF DiscardsFirst, OneLease, Undisturbed, DiskShape, DispatchIsLast, Early, Hears, Grown,
      Shrunk
<1>7. QED  BY <1>2, <1>l, <1>3, <1>4, <1>5, <1>6 DEF DiskInv

\* An attempt retains its sandbox or takes it down.
LEMMA FinishSandboxKeepsDisk ==
    ASSUME DiskInv, OneLeaseAtATime, FinishSandbox
    PROVE  DiskInv'
<1> USE DEF Idle, Finished, DiskSettled, Same
<1>1. DiskShape /\ LastLease /\ OneLease /\ InOrder /\ Undisturbed /\ DiscardsFirst
    BY DEF DiskInv
<1>a. active.phase # "idle" => active \in Attempt  BY <1>1, IdlePhase DEF DiskShape
<1>u. /\ runState' = runState /\ followUp' = followUp /\ held' = held
      /\ kinds' = kinds /\ online' = online /\ attached' = attached
      /\ reapTimer' = reapTimer /\ tracked' = tracked /\ removing' = removing
      /\ removals' = removals /\ opened' = opened /\ retainedUntil' = retainedUntil
    BY DEF FinishSandbox, hostRecord, hostTimers, hostLeases, hostAttach, discardVars,
           attachVars, linkVars
<1>d. toDaemon' = toDaemon
    BY DEF FinishSandbox, hostRecord, hostTimers, hostLeases, hostAttach, discardVars,
           attachVars, linkVars
<1>dt. (Hears("dispatch")' <=> Hears("dispatch")) /\ (Hears("discard")' <=> Hears("discard"))
    BY <1>d
    DEF Hears
<1>rm. PICK mr : mr = [type |-> "run-patch", lease |-> active.lease, status |-> Same, retained |-> TRUE]  OBVIOUS
<1>rn. mr.type = "run-patch"  BY <1>rm
<1>rf. mr \in RegistryFrames
    BY <1>rm, <1>1, <1>a, AttemptParts, DaemonFrameParts
    DEF FinishSandbox, RegistryFrames, DiskShape, OneLease, Sessions, Got
<1>r. /\ toRegistry' \in Seq(RegistryFrames)
      /\ toRegistry' = toRegistry \/ (Grown(toRegistry, toRegistry', mr))
    BY <1>1, <1>rm, <1>rf, RegistryIsTold
    DEF FinishSandbox, DiskShape, hostRecord, hostTimers, hostLeases, hostAttach,
        discardVars, attachVars, linkVars
<1>rt. /\ Says("run-patch")' => Says("run-patch") \/ mr.type = "run-patch"
       /\ Says("run-complete")' => Says("run-complete") \/ mr.type = "run-complete"
       /\ Says("run-patch") => Says("run-patch")'
       /\ Says("run-complete") => Says("run-complete")'
  <2>1. CASE toRegistry' = toRegistry  BY <2>1 DEF Says
  <2>2. CASE Grown(toRegistry, toRegistry', mr)  BY <2>2, GrownSays
  <2>3. QED  BY <1>r, <2>1, <2>2
<1>v. /\ active \in Attempt /\ active.phase = "finishing"
      /\ active' \in Attempt /\ active'.phase = "reporting" /\ active'.lease = active.lease
      /\ active'.status = active.status
    BY <1>1, <1>a, <1>u, <1>d, <1>dt, <1>rm, <1>rn, <1>r, <1>rt, AttemptParts,
       DaemonFrameParts, RegistryFrameParts, IdlePhase
    DEF FinishSandbox, hostRecord, hostTimers, hostLeases, hostAttach, discardVars,
        attachVars, linkVars, DiskShape, LastLease, OneLease, OneLeaseAtATime, Shrunk,
        Attempt
<1>2. DiskShape'
  BY <1>1, <1>a, <1>u, <1>d, <1>dt, <1>rm, <1>rn, <1>r, <1>rt, <1>v, AttemptParts,
     DaemonFrameParts, RegistryFrameParts, IdlePhase
  DEF DiskShape, OneLease
<1>l. LastLease'
  <2>1. \A i \in DOMAIN toDaemon' :
          toDaemon'[i].type = "dispatch" => toDaemon'[i].lease = Len(kinds')
    BY <1>1, <1>2, <1>a, <1>u, <1>d, <1>dt, <1>rm, <1>rn, <1>r, <1>rt, <1>v, AttemptParts,
       DaemonFrameParts, RegistryFrameParts, IdlePhase, DispatchesAreLast
    DEF OneLease, DiskShape
  <2>2. \A i \in DOMAIN toRegistry' :
          toRegistry'[i].type # "attach-over" => toRegistry'[i].lease = Len(kinds')
    BY <1>1, <1>2, <1>a, <1>u, <1>d, <1>dt, <1>rm, <1>rn, <1>r, <1>rt, <1>v, AttemptParts,
       DaemonFrameParts, RegistryFrameParts, IdlePhase, ReportsAreLast
    DEF OneLease, DiskShape
  <2>3. ~online' => toDaemon' = << >>
    BY <1>1, <1>2, <1>a, <1>u, <1>d, <1>dt, <1>rm, <1>rn, <1>r, <1>rt, <1>v, AttemptParts,
       DaemonFrameParts, RegistryFrameParts, IdlePhase
    DEF LastLease, OneLease, Grown, Shrunk, DiskShape
  <2>4. QED  BY <2>1, <2>2, <2>3 DEF LastLease
<1>3. OneLease'
  BY <1>1, <1>a, <1>u, <1>d, <1>dt, <1>rm, <1>rn, <1>r, <1>rt, <1>v, AttemptParts
  DEF OneLease, Claimed
<1>4. InOrder'
  <2>1. ReportsInOrder'
    BY <1>1, <1>a, <1>u, <1>d, <1>dt, <1>rm, <1>rn, <1>r, <1>rt, <1>v, <1>rf, GrownReports,
       AttemptParts
    DEF InOrder, OneLease, DiskShape, ReportsInOrder, IsBeginning
  <2>2. \A i \in DOMAIN toRegistry' : IsBeginning(i)' => runState' \notin DiskSettled
    <3>1. CASE toRegistry' = toRegistry  BY <3>1, <1>1, <1>u DEF InOrder, IsBeginning
    <3>2. CASE Grown(toRegistry, toRegistry', mr)
      BY <3>2, <1>1, <1>u, <1>rm DEF InOrder, IsBeginning, Grown
    <3>3. QED  BY <1>r, <3>1, <3>2
  <2>3. QED  BY <2>1, <2>2 DEF InOrder, IsBeginning
<1>5. Undisturbed'
  BY <1>1, <1>2, <1>3, <1>a, <1>u, <1>d, <1>dt, <1>rm, <1>rn, <1>r, <1>rt, <1>v, AttemptParts,
     DaemonFrameParts, RegistryFrameParts, IdlePhase
  DEF Early, OneLease, DiskShape, Undisturbed, IsBeginning, Says, Grown, Shrunk, InOrder,
      ReportsInOrder
<1>6. DiscardsFirst'
  BY <1>1, <1>a, <1>u, <1>d, <1>dt, <1>rm, <1>rn, <1>r, <1>rt, <1>v, AtFirst, <1>2, <1>3,
     AttemptParts, DaemonFrameParts, RegistryFrameParts, IdlePhase
  DEF DiscardsFirst, OneLease, Undisturbed, DiskShape, DispatchIsLast, Early, Hears, Grown,
      Shrunk
<1>7. QED  BY <1>2, <1>l, <1>3, <1>4, <1>5, <1>6 DEF DiskInv

\* An attempt reports that it is over.
LEMMA CompleteRunKeepsDisk ==
    ASSUME DiskInv, OneLeaseAtATime, CompleteRun
    PROVE  DiskInv'
<1> USE DEF Idle, Finished, DiskSettled, Same
<1>1. DiskShape /\ LastLease /\ OneLease /\ InOrder /\ Undisturbed /\ DiscardsFirst
    BY DEF DiskInv
<1>a. active.phase # "idle" => active \in Attempt  BY <1>1, IdlePhase DEF DiskShape
<1>u. /\ runState' = runState /\ followUp' = followUp /\ held' = held
      /\ kinds' = kinds /\ online' = online /\ attached' = attached
      /\ reapTimer' = reapTimer /\ tracked' = tracked /\ removing' = removing
      /\ removals' = removals /\ opened' = opened /\ retainedUntil' = retainedUntil
    BY DEF CompleteRun, hostRecord, hostTimers, hostLeases, hostAttach, discardVars,
           attachVars, linkVars
<1>d. toDaemon' = toDaemon
    BY DEF CompleteRun, hostRecord, hostTimers, hostLeases, hostAttach, discardVars,
           attachVars, linkVars
<1>dt. (Hears("dispatch")' <=> Hears("dispatch")) /\ (Hears("discard")' <=> Hears("discard"))
    BY <1>d
    DEF Hears
<1>rm. PICK mr : mr = [type |-> "run-complete", lease |-> active.lease, status |-> active.status]  OBVIOUS
<1>rn. mr.type = "run-complete"  BY <1>rm
<1>rf. mr \in RegistryFrames
    BY <1>rm, <1>1, <1>a, AttemptParts, DaemonFrameParts
    DEF CompleteRun, RegistryFrames, DiskShape, OneLease, Sessions, Got
<1>r. toRegistry' \in Seq(RegistryFrames) /\ Grown(toRegistry, toRegistry', mr)
    BY <1>1, <1>rm, <1>rf, RegistryIsTold DEF CompleteRun, DiskShape
<1>rt. /\ Says("run-patch")' <=> Says("run-patch") \/ mr.type = "run-patch"
       /\ Says("run-complete")' <=> Says("run-complete") \/ mr.type = "run-complete"
    BY <1>r, GrownSays
<1>v. active \in Attempt /\ active.phase = "reporting" /\ active' = Idle
    BY <1>1, <1>a, <1>u, <1>d, <1>dt, <1>rm, <1>rn, <1>r, <1>rt, AttemptParts,
       DaemonFrameParts, RegistryFrameParts, IdlePhase
    DEF CompleteRun, hostRecord, hostTimers, hostLeases, hostAttach, discardVars,
        attachVars, linkVars, DiskShape, LastLease, OneLease, OneLeaseAtATime, Shrunk,
        Attempt
<1>2. DiskShape'
  BY <1>1, <1>a, <1>u, <1>d, <1>dt, <1>rm, <1>rn, <1>r, <1>rt, <1>v, AttemptParts,
     DaemonFrameParts, RegistryFrameParts, IdlePhase
  DEF DiskShape, OneLease
<1>l. LastLease'
  <2>1. \A i \in DOMAIN toDaemon' :
          toDaemon'[i].type = "dispatch" => toDaemon'[i].lease = Len(kinds')
    BY <1>1, <1>2, <1>a, <1>u, <1>d, <1>dt, <1>rm, <1>rn, <1>r, <1>rt, <1>v, AttemptParts,
       DaemonFrameParts, RegistryFrameParts, IdlePhase, DispatchesAreLast
    DEF OneLease, DiskShape
  <2>2. \A i \in DOMAIN toRegistry' :
          toRegistry'[i].type # "attach-over" => toRegistry'[i].lease = Len(kinds')
    BY <1>1, <1>2, <1>a, <1>u, <1>d, <1>dt, <1>rm, <1>rn, <1>r, <1>rt, <1>v, AttemptParts,
       DaemonFrameParts, RegistryFrameParts, IdlePhase, ReportsAreLast
    DEF OneLease, DiskShape
  <2>3. ~online' => toDaemon' = << >>
    BY <1>1, <1>2, <1>a, <1>u, <1>d, <1>dt, <1>rm, <1>rn, <1>r, <1>rt, <1>v, AttemptParts,
       DaemonFrameParts, RegistryFrameParts, IdlePhase
    DEF LastLease, OneLease, Grown, Shrunk, DiskShape
  <2>4. QED  BY <2>1, <2>2, <2>3 DEF LastLease
<1>3. OneLease'
  BY <1>1, <1>a, <1>u, <1>d, <1>dt, <1>rm, <1>rn, <1>r, <1>rt, <1>v, AttemptParts
  DEF OneLease, Claimed
<1>4. InOrder'
  <2>1. ReportsInOrder'
    BY <1>1, <1>a, <1>u, <1>d, <1>dt, <1>rm, <1>rn, <1>r, <1>rt, <1>v, <1>rf, GrownReports,
       AttemptParts
    DEF InOrder, OneLease, DiskShape, ReportsInOrder, IsBeginning
  <2>2. \A i \in DOMAIN toRegistry' : IsBeginning(i)' => runState' \notin DiskSettled
    BY <1>1, <1>2, <1>a, <1>u, <1>d, <1>dt, <1>rm, <1>rn, <1>r, <1>rt, <1>v, AttemptParts,
       DaemonFrameParts, RegistryFrameParts, IdlePhase
    DEF OneLease, InOrder, ReportsInOrder, IsBeginning, Says, Undisturbed, Early, Grown, Shrunk
  <2>3. QED  BY <2>1, <2>2 DEF InOrder, IsBeginning
<1>5. Undisturbed'
  BY <1>1, <1>2, <1>3, <1>a, <1>u, <1>d, <1>dt, <1>rm, <1>rn, <1>r, <1>rt, <1>v, AttemptParts,
     DaemonFrameParts, RegistryFrameParts, IdlePhase
  DEF Early, OneLease, DiskShape, Undisturbed, IsBeginning, Says, Grown, Shrunk, InOrder,
      ReportsInOrder
<1>6. DiscardsFirst'
  BY <1>1, <1>a, <1>u, <1>d, <1>dt, <1>rm, <1>rn, <1>r, <1>rt, <1>v, AtFirst, <1>2, <1>3,
     AttemptParts, DaemonFrameParts, RegistryFrameParts, IdlePhase
  DEF DiscardsFirst, OneLease, Undisturbed, DiskShape, DispatchIsLast, Early, Hears, Grown,
      Shrunk
<1>7. QED  BY <1>2, <1>l, <1>3, <1>4, <1>5, <1>6 DEF DiskInv

\* The daemon reads that a session is wanted.
LEMMA AttachOpenKeepsDisk ==
    ASSUME DiskInv, OneLeaseAtATime, AttachOpen
    PROVE  DiskInv'
<1> USE DEF Idle, Finished, DiskSettled, Same
<1>1. DiskShape /\ LastLease /\ OneLease /\ InOrder /\ Undisturbed /\ DiscardsFirst
    BY DEF DiskInv
<1>a. active.phase # "idle" => active \in Attempt  BY <1>1, IdlePhase DEF DiskShape
<1>u. /\ runState' = runState /\ followUp' = followUp /\ held' = held
      /\ kinds' = kinds /\ online' = online /\ active' = active
      /\ attached' = attached /\ reapTimer' = reapTimer /\ tracked' = tracked
      /\ removing' = removing /\ removals' = removals /\ opened' = opened
      /\ retainedUntil' = retainedUntil
    BY DEF AttachOpen, hostRecord, hostTimers, hostLeases, hostAttach, daemonVars,
           discardVars, attachVars, linkVars, Got
<1>d. /\ toDaemon' \in Seq(DaemonFrames) /\ Shrunk(toDaemon, toDaemon')
      /\ Head(toDaemon) \in DaemonFrames
    BY <1>1, DaemonReads DEF AttachOpen, Got, Report, DiskShape
<1>dt. /\ Hears("dispatch") <=> Hears("dispatch")' \/ Head(toDaemon).type = "dispatch"
       /\ Hears("discard") <=> Hears("discard")' \/ Head(toDaemon).type = "discard"
    BY <1>d, ShrunkHears
<1>rm. PICK mr : mr = [type |-> "attach-over", id |-> Head(toDaemon).id]  OBVIOUS
<1>rn. mr.type = "attach-over"  BY <1>rm
<1>rf. mr \in RegistryFrames
    BY <1>rm, <1>1, <1>a, AttemptParts, DaemonFrameParts, <1>d
    DEF AttachOpen, RegistryFrames, DiskShape, OneLease, Sessions, Got
<1>r. /\ toRegistry' \in Seq(RegistryFrames)
      /\ toRegistry' = toRegistry \/ (Grown(toRegistry, toRegistry', mr))
    BY <1>1, <1>rm, <1>rf, RegistryIsTold
    DEF AttachOpen, DiskShape, hostRecord, hostTimers, hostLeases, hostAttach, daemonVars,
        discardVars, attachVars, linkVars, Got
<1>rt. /\ Says("run-patch")' => Says("run-patch") \/ mr.type = "run-patch"
       /\ Says("run-complete")' => Says("run-complete") \/ mr.type = "run-complete"
       /\ Says("run-patch") => Says("run-patch")'
       /\ Says("run-complete") => Says("run-complete")'
  <2>1. CASE toRegistry' = toRegistry  BY <2>1 DEF Says
  <2>2. CASE Grown(toRegistry, toRegistry', mr)  BY <2>2, GrownSays
  <2>3. QED  BY <1>r, <2>1, <2>2
<1>v. Head(toDaemon).type = "attach-open"
    BY <1>1, <1>a, <1>u, <1>d, <1>dt, <1>rm, <1>rn, <1>r, <1>rt, AttemptParts,
       DaemonFrameParts, RegistryFrameParts, IdlePhase
    DEF AttachOpen, hostRecord, hostTimers, hostLeases, hostAttach, daemonVars, discardVars,
        attachVars, linkVars, Got, DiskShape, LastLease, OneLease, OneLeaseAtATime, Shrunk,
        Sessions
<1>2. DiskShape'
  BY <1>1, <1>a, <1>u, <1>d, <1>dt, <1>rm, <1>rn, <1>r, <1>rt, <1>v, AttemptParts,
     DaemonFrameParts, RegistryFrameParts, IdlePhase
  DEF DiskShape, OneLease
<1>l. LastLease'
  <2>1. \A i \in DOMAIN toDaemon' : toDaemon'[i].type = "dispatch" => toDaemon'[i].lease = Len(kinds')
    BY <1>1, <1>2, <1>a, <1>u, <1>d, <1>dt, <1>rm, <1>rn, <1>r, <1>rt, <1>v, AttemptParts,
       DaemonFrameParts, RegistryFrameParts, IdlePhase, DispatchesAreLast
    DEF OneLease, DiskShape
  <2>2. \A i \in DOMAIN toRegistry' : toRegistry'[i].type # "attach-over" => toRegistry'[i].lease = Len(kinds')
    <3>1. CASE toRegistry' = toRegistry  BY <3>1, <1>1, <1>u DEF LastLease
    <3>2. CASE Grown(toRegistry, toRegistry', mr)
      BY <3>2, <1>1, <1>u, <1>rm, <1>a, <1>v, AttemptParts DEF LastLease, OneLease, Grown
    <3>3. QED  BY <1>r, <3>1, <3>2
  <2>3. ~online' => toDaemon' = << >>
    BY <1>1, <1>a, <1>u, <1>d, <1>dt, <1>rm, <1>rn, <1>r, <1>rt, <1>v
    DEF LastLease, DiskShape, Shrunk
  <2>4. QED  BY <2>1, <2>2, <2>3 DEF LastLease
<1>3. OneLease'
  BY <1>1, <1>a, <1>u, <1>d, <1>dt, <1>rm, <1>rn, <1>r, <1>rt, <1>v, AttemptParts
  DEF OneLease, Claimed
<1>4. InOrder'
  BY <1>1, <1>a, <1>u, <1>d, <1>dt, <1>rm, <1>rn, <1>r, <1>rt, <1>v, <1>rf, GrownReports,
     AttemptParts
  DEF InOrder, OneLease, DiskShape, ReportsInOrder, IsBeginning, Grown
<1>5. Undisturbed'
  <2>1. Early' => Early
    BY <1>1, <1>2, <1>3, <1>a, <1>u, <1>d, <1>dt, <1>rm, <1>rn, <1>r, <1>rt, <1>v,
       AttemptParts, DaemonFrameParts, RegistryFrameParts, IdlePhase
    DEF Early, OneLease, DiskShape
  <2>2. Early' => \A i \in DOMAIN toRegistry' : toRegistry'[i].type # "attach-over" => IsBeginning(i)'
    BY <1>1, <1>2, <1>3, <2>1, <1>a, <1>u, <1>d, <1>dt, <1>rm, <1>rn, <1>r, <1>rt, <1>v,
       AttemptParts, DaemonFrameParts, RegistryFrameParts, IdlePhase
    DEF OneLease, Undisturbed, Early, IsBeginning, Says, Grown, Shrunk
  <2>3. Early' => /\ runState' \in {"queued", "active"}
                  /\ kinds'[Len(kinds')] = "follow-up" => attached' = {}
    BY <1>1, <1>2, <1>3, <2>1, <1>a, <1>u, <1>d, <1>dt, <1>rm, <1>rn, <1>r, <1>rt, <1>v,
       AttemptParts, DaemonFrameParts, RegistryFrameParts, IdlePhase
    DEF DiskShape, OneLease, Undisturbed, Early, IsBeginning, Says, Grown, Shrunk
  <2>4. Early' /\ active' = Idle => runState' = "queued"
    BY <1>1, <1>2, <1>3, <2>1, <1>a, <1>u, <1>d, <1>dt, <1>rm, <1>rn, <1>r, <1>rt, <1>v,
       AttemptParts, DaemonFrameParts, RegistryFrameParts, IdlePhase
    DEF DiskShape, OneLease, Undisturbed, Early, Says, Grown, Shrunk
  <2>5. /\ active' # Idle /\ active'.phase = "accepted" => ~Says("run-patch")'
        /\ runState' \notin DiskSettled => reapTimer' = "none" /\ followUp' # "checking"
        /\ followUp' = "marked" => attached' = {}
    BY <1>1, <1>2, <1>3, <1>a, <1>u, <1>d, <1>dt, <1>rm, <1>rn, <1>r, <1>rt, <1>v,
       AttemptParts, DaemonFrameParts, RegistryFrameParts, IdlePhase
    DEF DiskShape, OneLease, Undisturbed, Early, InOrder, ReportsInOrder, IsBeginning, Says,
        Grown, Shrunk
  <2>6. QED  BY <2>2, <2>3, <2>4, <2>5 DEF Undisturbed, IsBeginning
<1>6. DiscardsFirst'
  BY <1>1, <1>a, <1>u, <1>d, <1>dt, <1>rm, <1>rn, <1>r, <1>rt, <1>v, ShrunkDispatch, <1>2,
     <1>3, AttemptParts, DaemonFrameParts, RegistryFrameParts, IdlePhase
  DEF DiscardsFirst, OneLease, Undisturbed, DiskShape, Early, DispatchIsLast, Hears, Grown,
      Shrunk
<1>7. QED  BY <1>2, <1>l, <1>3, <1>4, <1>5, <1>6 DEF DiskInv

\* A session's sandbox is up, or failed to come up.
LEMMA AttachBootedKeepsDisk ==
    ASSUME DiskInv, OneLeaseAtATime, NEW s \in Sessions, AttachBooted(s)
    PROVE  DiskInv'
<1> USE DEF Idle, Finished, DiskSettled, Same
<1>1. DiskShape /\ LastLease /\ OneLease /\ InOrder /\ Undisturbed /\ DiscardsFirst
    BY DEF DiskInv
<1>a. active.phase # "idle" => active \in Attempt  BY <1>1, IdlePhase DEF DiskShape
<1>u. /\ runState' = runState /\ followUp' = followUp /\ held' = held
      /\ kinds' = kinds /\ online' = online /\ active' = active
      /\ attached' = attached /\ reapTimer' = reapTimer /\ tracked' = tracked
      /\ removing' = removing /\ removals' = removals /\ opened' = opened
      /\ retainedUntil' = retainedUntil
    BY DEF AttachBooted, hostRecord, hostTimers, hostLeases, hostAttach, daemonVars,
           discardVars, linkVars
<1>d. toDaemon' = toDaemon
    BY DEF AttachBooted, hostRecord, hostTimers, hostLeases, hostAttach, daemonVars,
           discardVars, linkVars
<1>dt. (Hears("dispatch")' <=> Hears("dispatch")) /\ (Hears("discard")' <=> Hears("discard"))
    BY <1>d
    DEF Hears
<1>rm. PICK mr : mr = [type |-> "attach-over", id |-> s]  OBVIOUS
<1>rn. mr.type = "attach-over"  BY <1>rm
<1>rf. mr \in RegistryFrames
    BY <1>rm, <1>1, <1>a, AttemptParts, DaemonFrameParts
    DEF AttachBooted, RegistryFrames, DiskShape, OneLease, Sessions, Got
<1>r. /\ toRegistry' \in Seq(RegistryFrames)
      /\ toRegistry' = toRegistry \/ (Grown(toRegistry, toRegistry', mr))
    BY <1>1, <1>rm, <1>rf, RegistryIsTold
    DEF AttachBooted, DiskShape, hostRecord, hostTimers, hostLeases, hostAttach, daemonVars,
        discardVars, linkVars
<1>rt. /\ Says("run-patch")' => Says("run-patch") \/ mr.type = "run-patch"
       /\ Says("run-complete")' => Says("run-complete") \/ mr.type = "run-complete"
       /\ Says("run-patch") => Says("run-patch")'
       /\ Says("run-complete") => Says("run-complete")'
  <2>1. CASE toRegistry' = toRegistry  BY <2>1 DEF Says
  <2>2. CASE Grown(toRegistry, toRegistry', mr)  BY <2>2, GrownSays
  <2>3. QED  BY <1>r, <2>1, <2>2
<1>2. DiskShape'
  BY <1>1, <1>a, <1>u, <1>d, <1>dt, <1>rm, <1>rn, <1>r, <1>rt, AttemptParts,
     DaemonFrameParts, RegistryFrameParts, IdlePhase
  DEF DiskShape, OneLease
<1>l. LastLease'
  <2>1. \A i \in DOMAIN toDaemon' :
          toDaemon'[i].type = "dispatch" => toDaemon'[i].lease = Len(kinds')
    BY <1>1, <1>2, <1>a, <1>u, <1>d, <1>dt, <1>rm, <1>rn, <1>r, <1>rt, AttemptParts,
       DaemonFrameParts, RegistryFrameParts, IdlePhase, DispatchesAreLast
    DEF OneLease, DiskShape
  <2>2. \A i \in DOMAIN toRegistry' :
          toRegistry'[i].type # "attach-over" => toRegistry'[i].lease = Len(kinds')
    BY <1>1, <1>u, <1>rn, <1>r, ReportsAreLast DEF OneLease, DiskShape
  <2>3. ~online' => toDaemon' = << >>
    BY <1>1, <1>2, <1>a, <1>u, <1>d, <1>dt, <1>rm, <1>rn, <1>r, <1>rt, AttemptParts,
       DaemonFrameParts, RegistryFrameParts, IdlePhase
    DEF LastLease, OneLease, Grown, Shrunk, DiskShape
  <2>4. QED  BY <2>1, <2>2, <2>3 DEF LastLease
<1>3. OneLease'
  BY <1>1, <1>a, <1>u, <1>d, <1>dt, <1>rm, <1>rn, <1>r, <1>rt, AttemptParts
  DEF OneLease, Claimed
<1>4. InOrder'
  BY <1>1, <1>a, <1>u, <1>d, <1>dt, <1>rm, <1>rn, <1>r, <1>rt, <1>rf, GrownReports,
     AttemptParts
  DEF InOrder, OneLease, DiskShape, ReportsInOrder, IsBeginning, Grown
<1>5. Undisturbed'
  BY <1>1, <1>2, <1>3, <1>a, <1>u, <1>d, <1>dt, <1>rm, <1>rn, <1>r, <1>rt, AttemptParts,
     DaemonFrameParts, RegistryFrameParts, IdlePhase
  DEF Early, OneLease, DiskShape, Undisturbed, IsBeginning, Says, Grown, Shrunk, InOrder,
      ReportsInOrder
<1>6. DiscardsFirst'
  BY <1>1, <1>a, <1>u, <1>d, <1>dt, <1>rm, <1>rn, <1>r, <1>rt, AtFirst, <1>2, <1>3,
     AttemptParts, DaemonFrameParts, RegistryFrameParts, IdlePhase
  DEF DiscardsFirst, OneLease, Undisturbed, DiskShape, DispatchIsLast, Early, Hears, Grown,
      Shrunk
<1>7. QED  BY <1>2, <1>l, <1>3, <1>4, <1>5, <1>6 DEF DiskInv

\* A session's command ends.
LEMMA AttachExitKeepsDisk ==
    ASSUME DiskInv, OneLeaseAtATime, NEW s \in Sessions, AttachExit(s)
    PROVE  DiskInv'
<1> USE DEF Idle, Finished, DiskSettled, Same
<1>1. DiskShape /\ LastLease /\ OneLease /\ InOrder /\ Undisturbed /\ DiscardsFirst
    BY DEF DiskInv
<1>a. active.phase # "idle" => active \in Attempt  BY <1>1, IdlePhase DEF DiskShape
<1>u. /\ runState' = runState /\ followUp' = followUp /\ held' = held
      /\ kinds' = kinds /\ online' = online /\ active' = active
      /\ attached' = attached /\ reapTimer' = reapTimer /\ tracked' = tracked
      /\ removing' = removing /\ removals' = removals /\ opened' = opened
      /\ retainedUntil' = retainedUntil
    BY DEF AttachExit, hostRecord, hostTimers, hostLeases, hostAttach, daemonVars,
           discardVars, linkVars
<1>d. toDaemon' = toDaemon
    BY DEF AttachExit, hostRecord, hostTimers, hostLeases, hostAttach, daemonVars,
           discardVars, linkVars
<1>dt. (Hears("dispatch")' <=> Hears("dispatch")) /\ (Hears("discard")' <=> Hears("discard"))
    BY <1>d
    DEF Hears
<1>rm. PICK mr : mr = [type |-> "attach-over", id |-> s]  OBVIOUS
<1>rn. mr.type = "attach-over"  BY <1>rm
<1>rf. mr \in RegistryFrames
    BY <1>rm, <1>1, <1>a, AttemptParts, DaemonFrameParts
    DEF AttachExit, RegistryFrames, DiskShape, OneLease, Sessions, Got
<1>r. toRegistry' \in Seq(RegistryFrames) /\ Grown(toRegistry, toRegistry', mr)
    BY <1>1, <1>rm, <1>rf, RegistryIsTold DEF AttachExit, DiskShape
<1>rt. /\ Says("run-patch")' <=> Says("run-patch") \/ mr.type = "run-patch"
       /\ Says("run-complete")' <=> Says("run-complete") \/ mr.type = "run-complete"
    BY <1>r, GrownSays
<1>2. DiskShape'
  BY <1>1, <1>a, <1>u, <1>d, <1>dt, <1>rm, <1>rn, <1>r, <1>rt, AttemptParts,
     DaemonFrameParts, RegistryFrameParts, IdlePhase
  DEF DiskShape, OneLease
<1>l. LastLease'
  <2>1. \A i \in DOMAIN toDaemon' : toDaemon'[i].type = "dispatch" => toDaemon'[i].lease = Len(kinds')
    BY <1>1, <1>2, <1>a, <1>u, <1>d, <1>dt, <1>rm, <1>rn, <1>r, <1>rt, AttemptParts,
       DaemonFrameParts, RegistryFrameParts, IdlePhase, DispatchesAreLast
    DEF OneLease, DiskShape
  <2>2. \A i \in DOMAIN toRegistry' : toRegistry'[i].type # "attach-over" => toRegistry'[i].lease = Len(kinds')
    BY <1>1, <1>u, <1>rn, <1>r, ReportsAreLast DEF OneLease, DiskShape
  <2>3. ~online' => toDaemon' = << >>
    BY <1>1, <1>a, <1>u, <1>d, <1>dt, <1>rm, <1>rn, <1>r, <1>rt DEF LastLease, DiskShape, Shrunk
  <2>4. QED  BY <2>1, <2>2, <2>3 DEF LastLease
<1>3. OneLease'
  BY <1>1, <1>a, <1>u, <1>d, <1>dt, <1>rm, <1>rn, <1>r, <1>rt, AttemptParts
  DEF OneLease, Claimed
<1>4. InOrder'
  <2>1. ReportsInOrder'
    BY <1>1, <1>a, <1>u, <1>d, <1>dt, <1>rm, <1>rn, <1>r, <1>rt, <1>rf, GrownReports,
       AttemptParts
    DEF InOrder, OneLease, DiskShape, ReportsInOrder, IsBeginning
  <2>2. \A i \in DOMAIN toRegistry' : IsBeginning(i)' => runState' \notin DiskSettled
    BY <1>1, <1>2, <1>a, <1>u, <1>d, <1>dt, <1>rm, <1>rn, <1>r, <1>rt, AttemptParts,
       DaemonFrameParts, RegistryFrameParts, IdlePhase
    DEF OneLease, InOrder, ReportsInOrder, IsBeginning, Says, Undisturbed, Early, Grown, Shrunk
  <2>3. QED  BY <2>1, <2>2 DEF InOrder, IsBeginning
<1>5. Undisturbed'
  BY <1>1, <1>2, <1>3, <1>a, <1>u, <1>d, <1>dt, <1>rm, <1>rn, <1>r, <1>rt, AttemptParts,
     DaemonFrameParts, RegistryFrameParts, IdlePhase
  DEF Early, OneLease, DiskShape, Undisturbed, IsBeginning, Says, Grown, Shrunk, InOrder,
      ReportsInOrder
<1>6. DiscardsFirst'
  BY <1>1, <1>a, <1>u, <1>d, <1>dt, <1>rm, <1>rn, <1>r, <1>rt, AtFirst, <1>2, <1>3,
     AttemptParts, DaemonFrameParts, RegistryFrameParts, IdlePhase
  DEF DiscardsFirst, OneLease, Undisturbed, DiskShape, DispatchIsLast, Early, Hears, Grown,
      Shrunk
<1>7. QED  BY <1>2, <1>l, <1>3, <1>4, <1>5, <1>6 DEF DiskInv

\* The daemon reads that a session is to close.
LEMMA AttachCloseKeepsDisk ==
    ASSUME DiskInv, OneLeaseAtATime, AttachClose
    PROVE  DiskInv'
<1> USE DEF Idle, Finished, DiskSettled, Same
<1>1. DiskShape /\ LastLease /\ OneLease /\ InOrder /\ Undisturbed /\ DiscardsFirst
    BY DEF DiskInv
<1>a. active.phase # "idle" => active \in Attempt  BY <1>1, IdlePhase DEF DiskShape
<1>u. /\ runState' = runState /\ followUp' = followUp /\ held' = held
      /\ kinds' = kinds /\ online' = online /\ active' = active
      /\ attached' = attached /\ reapTimer' = reapTimer /\ tracked' = tracked
      /\ removing' = removing /\ removals' = removals /\ opened' = opened
      /\ retainedUntil' = retainedUntil
    BY DEF AttachClose, hostRecord, hostTimers, hostLeases, hostAttach, daemonVars,
           discardVars, attachVars, linkVars, Got
<1>d. /\ toDaemon' \in Seq(DaemonFrames) /\ Shrunk(toDaemon, toDaemon')
      /\ Head(toDaemon) \in DaemonFrames
    BY <1>1, DaemonReads DEF AttachClose, Got, Report, DiskShape
<1>dt. /\ Hears("dispatch") <=> Hears("dispatch")' \/ Head(toDaemon).type = "dispatch"
       /\ Hears("discard") <=> Hears("discard")' \/ Head(toDaemon).type = "discard"
    BY <1>d, ShrunkHears
<1>r. toRegistry' = toRegistry
    BY DEF AttachClose, hostRecord, hostTimers, hostLeases, hostAttach, daemonVars,
           discardVars, attachVars, linkVars, Got
<1>rt. (Says("run-patch")' <=> Says("run-patch")) /\ (Says("run-complete")' <=> Says("run-complete"))
    BY <1>r
    DEF Says
<1>v. Head(toDaemon).type = "attach-close"
    BY <1>1, <1>a, <1>u, <1>d, <1>dt, <1>r, <1>rt, AttemptParts, DaemonFrameParts,
       RegistryFrameParts, IdlePhase
    DEF AttachClose, hostRecord, hostTimers, hostLeases, hostAttach, daemonVars,
        discardVars, attachVars, linkVars, Got, DiskShape, LastLease, OneLease,
        OneLeaseAtATime, Shrunk, Sessions
<1>2. DiskShape'
  BY <1>1, <1>a, <1>u, <1>d, <1>dt, <1>r, <1>rt, <1>v, AttemptParts, DaemonFrameParts,
     RegistryFrameParts, IdlePhase
  DEF DiskShape, OneLease
<1>l. LastLease'
  <2>1. \A i \in DOMAIN toDaemon' :
          toDaemon'[i].type = "dispatch" => toDaemon'[i].lease = Len(kinds')
    BY <1>1, <1>2, <1>a, <1>u, <1>d, <1>dt, <1>r, <1>rt, <1>v, AttemptParts,
       DaemonFrameParts, RegistryFrameParts, IdlePhase, DispatchesAreLast
    DEF OneLease, DiskShape
  <2>2. \A i \in DOMAIN toRegistry' :
          toRegistry'[i].type # "attach-over" => toRegistry'[i].lease = Len(kinds')
    BY <1>1, <1>2, <1>a, <1>u, <1>d, <1>dt, <1>r, <1>rt, <1>v, AttemptParts,
       DaemonFrameParts, RegistryFrameParts, IdlePhase, ReportsAreLast
    DEF OneLease, DiskShape
  <2>3. ~online' => toDaemon' = << >>
    BY <1>1, <1>2, <1>a, <1>u, <1>d, <1>dt, <1>r, <1>rt, <1>v, AttemptParts,
       DaemonFrameParts, RegistryFrameParts, IdlePhase
    DEF LastLease, OneLease, Grown, Shrunk, DiskShape
  <2>4. QED  BY <2>1, <2>2, <2>3 DEF LastLease
<1>3. OneLease'
  BY <1>1, <1>a, <1>u, <1>d, <1>dt, <1>r, <1>rt, <1>v, AttemptParts
  DEF OneLease, Claimed
<1>4. InOrder'
  BY <1>1, <1>a, <1>u, <1>d, <1>dt, <1>r, <1>rt, <1>v, IdlePhase, <1>2, AttemptParts,
     DaemonFrameParts, RegistryFrameParts
  DEF InOrder, OneLease, DiskShape, ReportsInOrder, IsBeginning, Says, Undisturbed, Early, Grown,
      Shrunk
<1>5. Undisturbed'
  BY <1>1, <1>2, <1>3, <1>a, <1>u, <1>d, <1>dt, <1>r, <1>rt, <1>v, AttemptParts,
     DaemonFrameParts, RegistryFrameParts, IdlePhase
  DEF Early, OneLease, DiskShape, Undisturbed, IsBeginning, Says, Grown, Shrunk, InOrder,
      ReportsInOrder
<1>6. DiscardsFirst'
  BY <1>1, <1>a, <1>u, <1>d, <1>dt, <1>r, <1>rt, <1>v, ShrunkDispatch, <1>2, <1>3,
     AttemptParts, DaemonFrameParts, RegistryFrameParts, IdlePhase
  DEF DiscardsFirst, OneLease, Undisturbed, DiskShape, Early, DispatchIsLast, Hears, Grown,
      Shrunk
<1>7. QED  BY <1>2, <1>l, <1>3, <1>4, <1>5, <1>6 DEF DiskInv

\* A worker is back and its sessions are over.
LEMMA ReconnectKeepsDisk ==
    ASSUME DiskInv, OneLeaseAtATime, Reconnect
    PROVE  DiskInv'
<1> USE DEF Idle, Finished, DiskSettled, Same
<1>1. DiskShape /\ LastLease /\ OneLease /\ InOrder /\ Undisturbed /\ DiscardsFirst
    BY DEF DiskInv
<1>a. active.phase # "idle" => active \in Attempt  BY <1>1, IdlePhase DEF DiskShape
<1>u. /\ kinds' = kinds /\ active' = active /\ attached' = attached
      /\ tracked' = tracked /\ removing' = removing /\ removals' = removals
      /\ opened' = opened
    BY DEF Reconnect, hostRecord, hostTimers, hostAttach, daemonVars, discardVars,
           attachVars, Enqueued, Claimed
<1>dm. PICK md : md = [type |-> "discard"]  OBVIOUS
<1>dn. md.type = "discard"  BY <1>dm
<1>df. md \in DaemonFrames
    BY <1>dm, <1>1, <1>a, AttemptParts, DaemonFrameParts
    DEF Reconnect, DaemonFrames, DiskShape, OneLease, Sessions, Got
<1>d. /\ toDaemon' \in Seq(DaemonFrames)
      /\ toDaemon' = toDaemon \/ Grown(toDaemon, toDaemon', md)
  <2>1. Append(toDaemon, md) \in Seq(DaemonFrames) /\ Grown(toDaemon, Append(toDaemon, md), md)
    BY <1>1, <1>df, AppendGrows DEF DiskShape
  <2>2. toDaemon' = toDaemon \/ toDaemon' = Append(toDaemon, md)
      BY <1>dm
      DEF Reconnect, hostRecord, hostTimers, hostAttach, daemonVars, discardVars,
          attachVars, Enqueued, Claimed
  <2>3. QED  BY <1>1, <2>1, <2>2 DEF DiskShape
<1>dt. /\ Hears("dispatch")' => Hears("dispatch") \/ md.type = "dispatch"
       /\ Hears("discard")' => Hears("discard") \/ md.type = "discard"
       /\ Hears("dispatch") => Hears("dispatch")'
       /\ Hears("discard") => Hears("discard")'
  <2>1. CASE toDaemon' = toDaemon  BY <2>1 DEF Hears
  <2>2. CASE Grown(toDaemon, toDaemon', md)  BY <2>2, GrownHears
  <2>3. QED  BY <1>d, <2>1, <2>2
<1>r. toRegistry' = toRegistry
    BY DEF Reconnect, hostRecord, hostTimers, hostAttach, daemonVars, discardVars,
           attachVars, Enqueued, Claimed
<1>rt. (Says("run-patch")' <=> Says("run-patch")) /\ (Says("run-complete")' <=> Says("run-complete"))
    BY <1>r
    DEF Says
<1>v. /\ ~online /\ online' = TRUE /\ held' = held \cap Claimed /\ toDaemon = << >>
      /\ \/ /\ toDaemon' = toDaemon /\ runState' = runState /\ reapTimer' = reapTimer
            /\ retainedUntil' = retainedUntil /\ followUp' = followUp
            /\ held \subseteq Claimed \/ runState \in Finished
         \/ /\ held = {Len(kinds)} /\ Len(kinds) \notin Claimed
            /\ runState' = "queued" /\ reapTimer' = "none" /\ retainedUntil' = FALSE
            /\ followUp' \in {followUp, "marked"}
            /\ followUp' = "marked" => followUp = "marked" \/ kinds[Len(kinds)] = "follow-up"
    BY <1>1, <1>a, <1>u, <1>dm, <1>dn, <1>d, <1>dt, <1>r, <1>rt, AttemptParts,
       DaemonFrameParts, RegistryFrameParts, IdlePhase
    DEF Reconnect, hostRecord, hostTimers, hostAttach, daemonVars, discardVars, attachVars,
        Enqueued, Claimed, DiskShape, LastLease, OneLease, OneLeaseAtATime, Shrunk
<1>w. /\ ~Hears("dispatch") /\ ~Hears("discard")
      /\ active # Idle \/ Says("run-complete") => Len(kinds) \in Claimed
  <2>1. DOMAIN toDaemon = {}  BY <1>v
  <2>2. active # Idle => active.lease \in Claimed  BY DEF Claimed
  <2>3. ASSUME NEW i \in DOMAIN toRegistry, toRegistry[i].type = "run-complete"
        PROVE  Len(kinds) \in Claimed
    BY <1>1, <2>3 DEF Claimed, LastLease
  <2>4. QED  BY <1>1, <2>1, <2>2, <2>3 DEF Hears, Says, OneLease
<1>2. DiskShape'
  BY <1>1, <1>a, <1>u, <1>dm, <1>dn, <1>d, <1>dt, <1>r, <1>rt, <1>v, <1>w, AttemptParts,
     DaemonFrameParts, RegistryFrameParts, IdlePhase
  DEF DiskShape, OneLease
<1>l. LastLease'
  <2>1. \A i \in DOMAIN toDaemon' :
          toDaemon'[i].type = "dispatch" => toDaemon'[i].lease = Len(kinds')
    BY <1>1, <1>u, <1>dn, <1>d, <1>v, <1>w, DispatchesAreLast DEF OneLease, DiskShape
  <2>2. \A i \in DOMAIN toRegistry' :
          toRegistry'[i].type # "attach-over" => toRegistry'[i].lease = Len(kinds')
    BY <1>1, <1>2, <1>a, <1>u, <1>dm, <1>dn, <1>d, <1>dt, <1>r, <1>rt, <1>v, <1>w,
       AttemptParts, DaemonFrameParts, RegistryFrameParts, IdlePhase, ReportsAreLast
    DEF OneLease, DiskShape
  <2>3. ~online' => toDaemon' = << >>
    BY <1>1, <1>2, <1>a, <1>u, <1>dm, <1>dn, <1>d, <1>dt, <1>r, <1>rt, <1>v, <1>w,
       AttemptParts, DaemonFrameParts, RegistryFrameParts, IdlePhase
    DEF LastLease, OneLease, Grown, Shrunk, DiskShape
  <2>4. QED  BY <2>1, <2>2, <2>3 DEF LastLease
<1>3. OneLease'
  BY <1>1, <1>a, <1>u, <1>dm, <1>dn, <1>d, <1>dt, <1>r, <1>rt, <1>v, <1>w, AttemptParts
  DEF OneLease, Claimed
<1>4. InOrder'
  BY <1>1, <1>a, <1>u, <1>dm, <1>dn, <1>d, <1>dt, <1>r, <1>rt, <1>v, <1>w, IdlePhase, <1>2,
     AttemptParts, DaemonFrameParts, RegistryFrameParts
  DEF InOrder, OneLease, DiskShape, ReportsInOrder, IsBeginning, Says, Undisturbed, Early, Grown,
      Shrunk
<1>5. Undisturbed'
  BY <1>1, <1>2, <1>3, <1>a, <1>u, <1>dm, <1>dn, <1>d, <1>dt, <1>r, <1>rt, <1>v, <1>w,
     AttemptParts, DaemonFrameParts, RegistryFrameParts, IdlePhase
  DEF Early, OneLease, DiskShape, Undisturbed, IsBeginning, Says, Grown, Shrunk, InOrder,
      ReportsInOrder
<1>6. DiscardsFirst'
  BY <1>1, <1>a, <1>u, <1>dm, <1>dn, <1>d, <1>dt, <1>r, <1>rt, <1>v, <1>w, GrownDispatch,
     AtFirst, IdlePhase, <1>2, <1>3, AttemptParts, DaemonFrameParts, RegistryFrameParts
  DEF DiscardsFirst, OneLease, Undisturbed, DiskShape, DispatchIsLast, Hears, Early, Grown,
      Shrunk
<1>7. QED  BY <1>2, <1>l, <1>3, <1>4, <1>5, <1>6 DEF DiskInv

\* A dispatch: nothing is left of an earlier lease.
LEMMA DispatchQueuedKeepsDisk ==
    ASSUME DiskInv, OneLeaseAtATime, DispatchQueued
    PROVE  DiskInv'
<1> USE DEF Idle, Finished, DiskSettled, Same
<1> DEFINE Kinds == {"follow-up", "implementation"}
<1>1. DiskShape /\ LastLease /\ OneLease /\ InOrder /\ Undisturbed /\ DiscardsFirst
    BY DEF DiskInv
<1>u. /\ runState' = runState /\ online' = online /\ active' = active
      /\ attached' = attached /\ reapTimer' = reapTimer /\ tracked' = tracked
      /\ removing' = removing /\ removals' = removals /\ opened' = opened
      /\ retainedUntil' = retainedUntil /\ toRegistry' = toRegistry /\ online
    BY DEF DispatchQueued, hostTimers, hostAttach, daemonVars, discardVars, linkVars
<1>2. CASE runState # "queued"
  <2>1. kinds' = kinds /\ held' = held /\ followUp' = followUp /\ toDaemon' = toDaemon
    BY <1>2 DEF DispatchQueued
  <2>2. DiskShape' /\ LastLease' /\ OneLease' /\ InOrder' /\ Undisturbed' /\ DiscardsFirst'
    BY <1>1, <1>u, <2>1
    DEF DiskShape, LastLease, OneLease, InOrder, ReportsInOrder, Undisturbed, Early,
        DiscardsFirst, DispatchIsLast, IsBeginning, Says, Hears
  <2>3. QED  BY <2>2 DEF DiskInv
<1>3. CASE runState = "queued"
  <2>1. PICK k \in Seq(Kinds), z \in Kinds :
          k = kinds /\ kinds' = Append(k, z) /\ (z = "follow-up" => followUp # "no")
    <3>1. PICK k \in Seq(Kinds) : k = kinds  BY <1>1 DEF DiskShape
    <3>2. QED  BY <1>3, <3>1 DEF DispatchQueued
  <2>2. PICK n : n = Append(k, z)  OBVIOUS
  <2>3. n \in Seq(Kinds) /\ Len(n) = Len(k) + 1 /\ Len(k) \in Nat /\ n[Len(n)] = z /\ n # << >>
    BY <2>2
  <2>4. kinds' = n  BY <2>1, <2>2
  <2>5. held' = held \cup {Len(n)}  BY <1>3, <2>4 DEF DispatchQueued
  <2>6. held = {}
    <3>1. CASE Capacity > 1
      BY <1>1, <2>1, <2>3, <2>5, <3>1 DEF OneLease, OneLeaseAtATime
    <3>2. CASE ~(Capacity > 1)
      <4>1. Cardinality(held) < Capacity /\ Capacity \in Nat
        BY <1>3, RetainedAssumption DEF DispatchQueued
      <4>2. Cardinality({Len(kinds)}) = 1  BY FS_Singleton
      <4>3. QED  BY <1>1, <3>2, <4>1, <4>2 DEF OneLease
    <3>3. QED  BY <3>1, <3>2
  <2>7. /\ active = Idle /\ ~Hears("dispatch") /\ ~Says("run-patch") /\ ~Says("run-complete")
        /\ held' = {Len(n)}
    BY <1>1, <2>5, <2>6 DEF OneLease
  <2>8. /\ followUp # "checking" /\ reapTimer = "none" /\ followUp' \in {"no", followUp}
        /\ followUp = "marked" => attached = {}
        /\ followUp' = "marked" => followUp = "marked"
    BY <1>1, <1>3 DEF Undisturbed, DispatchQueued
  <2>9. z = "follow-up" => attached = {}
    BY <1>1, <2>1, <2>8 DEF DiskShape
  <2>10. PICK md : md = [type |-> "dispatch", lease |-> Len(n), retained |-> retainedUntil]
    OBVIOUS
  <2>11. md \in DaemonFrames /\ md.type = "dispatch" /\ md.lease = Len(n)
    BY <1>1, <2>3, <2>10 DEF DiskShape, DaemonFrames
  <2>12. toDaemon' \in Seq(DaemonFrames) /\ Grown(toDaemon, toDaemon', md)
    <3>1. ToDaemon(md)  BY <1>3, <2>4, <2>10 DEF DispatchQueued
    <3>2. QED  BY <1>1, <1>u, <2>11, <3>1, DaemonIsTold DEF DiskShape
  <2>13. DiskShape'
    BY <1>1, <1>u, <2>3, <2>4, <2>8, <2>12 DEF DiskShape
  <2>14. \A i \in DOMAIN toRegistry : toRegistry[i].type \notin {"run-patch", "run-complete"}
    BY <2>7 DEF Says
  <2>15. \A i \in DOMAIN toRegistry : toRegistry[i].type = "attach-over"
    BY <1>1, <2>14, RegistryFrameParts DEF DiskShape
  <2>16. LastLease'
    BY <1>1, <1>u, <2>4, <2>7, <2>11, <2>12, <2>15 DEF LastLease, Hears, Grown
  <2>17. ~Says("run-patch")' /\ ~Says("run-complete")'
    BY <1>u, <2>15 DEF Says
  <2>18. OneLease'
    BY <1>u, <2>3, <2>4, <2>7, <2>17 DEF OneLease
  <2>19. InOrder'
    BY <1>u, <2>15 DEF InOrder, ReportsInOrder, IsBeginning
  <2>20. Undisturbed'
    BY <1>u, <1>3, <2>3, <2>4, <2>7, <2>8, <2>9, <2>15 DEF Undisturbed, IsBeginning, Early
  <2>21. DispatchIsLast'
    BY <1>1, <2>7, <2>12, GrownDispatch DEF DiscardsFirst
  <2>22. DiscardsFirst'
    BY <1>u, <2>7, <2>21 DEF DiscardsFirst
  <2>23. QED  BY <2>13, <2>16, <2>18, <2>19, <2>20, <2>22 DEF DiskInv
<1>4. QED  BY <1>2, <1>3

\* Nothing is refused: no dispatch meets an attempt.
LEMMA OnRunRejectedKeepsDisk ==
    ASSUME DiskInv, OnRunRejected
    PROVE  FALSE
<1>1. toRegistry \in Seq(RegistryFrames) /\ toRegistry # << >>
    BY DEF DiskInv, DiskShape, OnRunRejected, Report
<1>2. Head(toRegistry) \in RegistryFrames  BY <1>1, TailShrinks
<1>3. QED  BY <1>2, RegistryFrameParts DEF OnRunRejected, Report

\* What moves neither a frame, a lease nor the attempt: timers, windows, the lookup a
\* follow-up waits for, and a removal that ends.
LEMMA QuietKeepsDisk ==
    ASSUME DiskInv,
           kinds' = kinds, held' = held, toDaemon' = toDaemon, toRegistry' = toRegistry,
           active' = active, online' = online, opened' = opened, attached' = attached,
           removals' = removals, removing' \subseteq removing,
           tracked' \in removing' \cup {0}, tracked' \in {0, tracked}, retainedUntil' \in BOOLEAN,
           runState' = runState \/ (runState \in Finished /\ runState' = "queued"),
           followUp' \in {"no", "checking", "marked"},
           runState' \notin DiskSettled => reapTimer' = "none" /\ followUp' # "checking",
           followUp' = "marked" => attached = {}
    PROVE  DiskInv'
<1> USE DEF Idle, Finished, DiskSettled, Same
<1>1. DiskShape /\ LastLease /\ OneLease /\ InOrder /\ Undisturbed /\ DiscardsFirst
    BY DEF DiskInv
<1>2. DiskShape'  BY <1>1 DEF DiskShape
<1>3. LastLease'  BY <1>1 DEF LastLease
<1>4. OneLease'  BY <1>1 DEF OneLease, Says, Hears
<1>5. InOrder'  BY <1>1 DEF InOrder, ReportsInOrder, IsBeginning
<1>6. Undisturbed'
  <2>1. Early' => Early  BY DEF Early, Says
  <2>2. Early => runState' = runState  BY <1>1 DEF Undisturbed
  <2>3. QED  BY <1>1, <2>1, <2>2 DEF Undisturbed, Early, IsBeginning, Says
<1>7. DiscardsFirst'  BY <1>1 DEF DiscardsFirst, DispatchIsLast, Hears
<1>8. QED  BY <1>2, <1>3, <1>4, <1>5, <1>6, <1>7 DEF DiskInv

\* Timers that only mark that their time is up.
LEMMA TimersKeepsDisk ==
    ASSUME DiskInv, ResumeFires \/ Lapse
    PROVE  DiskInv'
<1>1. DiskShape /\ Undisturbed  BY DEF DiskInv
<1>2. /\ kinds' = kinds /\ held' = held /\ toDaemon' = toDaemon /\ toRegistry' = toRegistry
      /\ active' = active /\ online' = online /\ opened' = opened /\ attached' = attached
      /\ removals' = removals /\ removing' = removing /\ tracked' = tracked
      /\ retainedUntil' = retainedUntil /\ runState' = runState /\ followUp' = followUp
      /\ reapTimer' = reapTimer
    BY DEF ResumeFires, Lapse, hostRecord, hostTimers, hostLeases, hostAttach, daemonVars,
           discardVars, linkVars
<1>3. QED  BY <1>1, <1>2, QuietKeepsDisk DEF DiskShape, Undisturbed

\* A follow-up is asked for, and the lookup it waited for answers.
LEMMA FollowUpsKeepsDisk ==
    ASSUME DiskInv, FollowUpRun \/ \E open \in BOOLEAN : FollowUpChecked(open)
    PROVE  DiskInv'
<1> USE DEF Finished, DiskSettled
<1>1. DiskShape /\ Undisturbed  BY DEF DiskInv
<1>2. /\ kinds' = kinds /\ held' = held /\ toDaemon' = toDaemon /\ toRegistry' = toRegistry
      /\ active' = active /\ online' = online /\ opened' = opened /\ attached' = attached
      /\ removals' = removals /\ removing' = removing /\ tracked' = tracked
      /\ retainedUntil' = retainedUntil
    BY DEF FollowUpRun, FollowUpChecked, hostRecord, hostTimers, hostLeases, hostAttach,
           daemonVars, discardVars, linkVars
<1>3. CASE FollowUpRun
  <2>1. runState \in Finished /\ runState' = runState /\ followUp' = "checking"
    BY <1>3 DEF FollowUpRun
  <2>2. QED  BY <1>1, <1>2, <2>1, QuietKeepsDisk DEF DiskShape
<1>4. ASSUME NEW open \in BOOLEAN, FollowUpChecked(open)  PROVE DiskInv'
  <2>1. /\ followUp = "checking" /\ followUp' \in {"no", "marked"}
        /\ followUp' = "marked" => attached = {}
        /\ \/ runState' = runState
           \/ runState \in Finished /\ runState' = "queued" /\ reapTimer' = "none"
    BY <1>4 DEF FollowUpChecked, DiskIsFree, Enqueued
  <2>2. runState \in DiskSettled  BY <1>1, <2>1 DEF Undisturbed
  <2>3. QED  BY <1>1, <1>2, <2>1, <2>2, QuietKeepsDisk DEF DiskShape
<1>5. QED  BY <1>3, <1>4

\* A removal ends.
LEMMA RemovedKeepsDisk ==
    ASSUME DiskInv, NEW d \in removing, Removed(d)
    PROVE  DiskInv'
<1>1. DiskShape /\ Undisturbed  BY DEF DiskInv
<1>2. /\ kinds' = kinds /\ held' = held /\ toDaemon' = toDaemon /\ toRegistry' = toRegistry
      /\ active' = active /\ online' = online /\ opened' = opened /\ attached' = attached
      /\ removals' = removals /\ retainedUntil' = retainedUntil /\ runState' = runState
      /\ followUp' = followUp /\ reapTimer' = reapTimer
    BY DEF Removed, hostRecord, hostTimers, hostLeases, hostAttach, daemonVars, linkVars
<1>3. /\ removing' \subseteq removing /\ tracked' \in removing' \cup {0} /\ tracked' \in {0, tracked}
    BY <1>1 DEF Removed, DiskShape
<1>4. QED  BY <1>1, <1>2, <1>3, QuietKeepsDisk DEF DiskShape, Undisturbed

\* A run begins without a lease, an attempt or a disk.
LEMMA InitDisk == DiskInit => DiskInv
<1> SUFFICES ASSUME DiskInit  PROVE DiskInv
    OBVIOUS
<1> USE DEF DiskInit, Idle, Finished, DiskSettled, Same
<1>1. DiskShape
  <2>1. /\ kinds \in Seq({"follow-up", "implementation"})
        /\ toDaemon \in Seq(DaemonFrames) /\ toRegistry \in Seq(RegistryFrames)
    OBVIOUS
  <2>2. removing \subseteq 1 .. removals /\ tracked \in removing \cup {0} /\ removals \in Nat
    OBVIOUS
  <2>3. QED  BY <2>1, <2>2 DEF DiskShape
<1>2. LastLease  BY DEF LastLease
<1>3. ~Hears("dispatch") /\ ~Hears("discard") /\ ~Says("run-patch") /\ ~Says("run-complete")
    BY DEF Hears, Says
<1>4. OneLease  BY <1>3 DEF OneLease
<1>5. InOrder  BY DEF InOrder, ReportsInOrder, IsBeginning
<1>6. Undisturbed  BY <1>3 DEF Undisturbed, Early
<1>7. DiscardsFirst  BY <1>3 DEF DiscardsFirst, DispatchIsLast
<1>8. QED  BY <1>1, <1>2, <1>4, <1>5, <1>6, <1>7 DEF DiskInv

\* A non-empty set of numbers has a least one.
LEMMA LeastOf ==
    ASSUME NEW T, T \subseteq Nat, T # {}
    PROVE  \E m \in T : \A k \in T : m <= k
<1> DEFINE Less == OpToRel(<, Nat)
<1>1. IsWellFoundedOn(Less, Nat)  BY NatLessThanWellFounded
<1>2. \A x, y \in Nat : y < x => <<y, x>> \in Less  BY DEF OpToRel
<1> HIDE DEF Less
<1>3. PICK m \in T : \A y \in T : ~(<<y, m>> \in Less)  BY <1>1, WFMin
<1>4. \A y \in T : ~(y < m) /\ y \in Nat /\ m \in Nat  BY <1>2, <1>3
<1>5. QED  BY <1>3, <1>4

\* What holds of the first number, and of each number's next, holds of all.
LEMMA UpTo ==
    ASSUME NEW n \in Nat, NEW S, 0 \in S, \A i \in 0 .. n : i + 1 <= n /\ i \in S => i + 1 \in S
    PROVE  0 .. n \subseteq S
<1> SUFFICES ASSUME ~(0 .. n \subseteq S)  PROVE FALSE
    OBVIOUS
<1> DEFINE T == {i \in 0 .. n : i \notin S}
<1>1. T \subseteq Nat /\ T # {}  OBVIOUS
<1>2. PICK m \in T : \A k \in T : m <= k  BY <1>1, LeastOf
<1>3. m \in 0 .. n /\ m # 0 /\ m \notin S  BY <1>2
<1>4. m - 1 \in 0 .. n /\ m - 1 \notin T  BY <1>2, <1>3
<1>5. m - 1 \in S  BY <1>4
<1>6. QED  BY <1>3, <1>4, <1>5

\* t is what was kept of the first n of s: nothing else, in the order it was in, and
\* all that is durable.
Thinned(t, s, n) ==
    /\ \A k \in DOMAIN t : \E i \in 1 .. n : t[k] = s[i]
    /\ \A k, l \in DOMAIN t : k < l => \E i, j \in 1 .. n : i < j /\ t[k] = s[i] /\ t[l] = s[j]
    /\ \A i \in 1 .. n : Durable(s[i]) => \E k \in DOMAIN t : t[k] = s[i]

\* What was kept of the first n, and the next one if it is durable, is what is kept of
\* the first n + 1.
LEMMA ThinnedByOne ==
    ASSUME NEW s \in Seq(RegistryFrames), NEW n \in 0 .. Len(s), n + 1 <= Len(s),
           NEW t \in Seq(RegistryFrames), Thinned(t, s, n), NEW u,
           u = IF Durable(s[n + 1]) THEN Append(t, s[n + 1]) ELSE t
    PROVE  u \in Seq(RegistryFrames) /\ Thinned(u, s, n + 1)
<1>1. PICK e \in RegistryFrames : e = s[n + 1]  OBVIOUS
<1>2. n + 1 \in 1 .. n + 1 /\ \A i \in 1 .. n + 1 : i \in 1 .. n \/ i = n + 1
    OBVIOUS
<1>3. \A i \in 1 .. n : i \in 1 .. n + 1 /\ i < n + 1
    OBVIOUS
<1>4. CASE Durable(s[n + 1])
  <2>1. u \in Seq(RegistryFrames) /\ Grown(t, u, e)
    BY <1>1, <1>4, AppendGrows
  <2>2. ASSUME NEW k \in DOMAIN u  PROVE \E i \in 1 .. n + 1 : u[k] = s[i]
    <3>1. CASE k \in DOMAIN t
      <4>1. PICK i \in 1 .. n : t[k] = s[i]  BY <3>1 DEF Thinned
      <4>2. QED  BY <1>3, <2>1, <3>1, <4>1 DEF Grown
    <3>2. CASE k \notin DOMAIN t
      <4>1. u[k] = s[n + 1]  BY <1>1, <2>1, <3>2 DEF Grown
      <4>2. QED  BY <1>2, <4>1
    <3>3. QED  BY <3>1, <3>2
  <2>3. ASSUME NEW k \in DOMAIN u, NEW l \in DOMAIN u, k < l
        PROVE  \E i, j \in 1 .. n + 1 : i < j /\ u[k] = s[i] /\ u[l] = s[j]
    <3>1. k \in DOMAIN t /\ u[k] = t[k]  BY <2>1, <2>3 DEF Grown
    <3>2. CASE l \in DOMAIN t
      <4>1. u[l] = t[l]  BY <2>1, <3>2 DEF Grown
      <4>2. PICK i, j \in 1 .. n : i < j /\ t[k] = s[i] /\ t[l] = s[j]
        BY <2>3, <3>1, <3>2 DEF Thinned
      <4>3. QED  BY <1>3, <3>1, <4>1, <4>2
    <3>3. CASE l \notin DOMAIN t
      <4>1. u[l] = s[n + 1]  BY <1>1, <2>1, <3>3 DEF Grown
      <4>2. PICK i \in 1 .. n : t[k] = s[i]  BY <3>1 DEF Thinned
      <4>3. QED  BY <1>2, <1>3, <3>1, <4>1, <4>2
    <3>4. QED  BY <3>2, <3>3
  <2>4. ASSUME NEW i \in 1 .. n + 1, Durable(s[i])  PROVE \E k \in DOMAIN u : u[k] = s[i]
    <3>1. CASE i \in 1 .. n
      <4>1. PICK k \in DOMAIN t : t[k] = s[i]  BY <2>4, <3>1 DEF Thinned
      <4>2. QED  BY <2>1, <4>1 DEF Grown
    <3>2. CASE i = n + 1  BY <1>1, <2>1, <3>2 DEF Grown
    <3>3. QED  BY <1>2, <3>1, <3>2
  <2>5. QED  BY <2>1, <2>2, <2>3, <2>4 DEF Thinned
<1>5. CASE ~Durable(s[n + 1])
  <2>1. u = t  BY <1>5
  <2>2. QED  BY <1>2, <1>3, <1>5, <2>1 DEF Thinned
<1>6. QED  BY <1>4, <1>5

\* The recursive function behind Durables, up to n.
Keeping(f, s, n) ==
    f = [i \in 0 .. n |->
            IF i = 0 THEN << >>
            ELSE IF Durable(s[i]) THEN Append(f[i - 1], s[i]) ELSE f[i - 1]]

\* There is such a function, for every n.
LEMMA KeepingExists ==
    ASSUME NEW s, NEW n \in Nat
    PROVE  \E f : Keeping(f, s, n)
<1> DEFINE S == {m \in 0 .. n : \E f : Keeping(f, s, m)}
<1>1. 0 \in S
  <2>1. Keeping([i \in 0 .. 0 |-> << >>], s, 0)
    BY DEF Keeping
  <2>2. QED  BY <2>1
<1>2. ASSUME NEW m \in 0 .. n, m + 1 <= n, m \in S  PROVE m + 1 \in S
  <2>1. PICK f : Keeping(f, s, m)  BY <1>2
  <2>2. PICK g : g = [i \in 0 .. m + 1 |->
                        IF i = m + 1
                        THEN IF Durable(s[i]) THEN Append(f[m], s[i]) ELSE f[m]
                        ELSE f[i]]
    OBVIOUS
  <2>3. \A i \in 0 .. m : g[i] = f[i]  BY <2>2
  <2>4. ASSUME NEW i \in 0 .. m + 1
        PROVE  g[i] = IF i = 0 THEN << >>
                      ELSE IF Durable(s[i]) THEN Append(g[i - 1], s[i]) ELSE g[i - 1]
    <3>1. CASE i = m + 1
      <4>1. i # 0 /\ i - 1 = m /\ m \in 0 .. m  BY <3>1
      <4>2. g[i] = IF Durable(s[i]) THEN Append(f[m], s[i]) ELSE f[m]  BY <2>2, <3>1
      <4>3. g[i - 1] = f[m]  BY <2>3, <4>1
      <4>4. QED  BY <4>1, <4>2, <4>3
    <3>2. CASE i = 0
      <4>1. g[0] = f[0] /\ f[0] = << >>  BY <2>1, <2>3 DEF Keeping
      <4>2. QED  BY <3>2, <4>1
    <3>3. CASE i # m + 1 /\ i # 0
      <4>1. i \in 0 .. m /\ i - 1 \in 0 .. m  BY <3>3
      <4>2. f[i] = IF Durable(s[i]) THEN Append(f[i - 1], s[i]) ELSE f[i - 1]
        BY <2>1, <3>3, <4>1 DEF Keeping
      <4>3. QED  BY <2>3, <3>3, <4>1, <4>2
    <3>4. QED  BY <3>1, <3>2, <3>3
  <2>5. g = [i \in 0 .. m + 1 |-> g[i]]  BY <2>2
  <2>6. Keeping(g, s, m + 1)  BY <2>4, <2>5 DEF Keeping
  <2>7. QED  BY <1>2, <2>6
<1> HIDE DEF S
<1>3. 0 .. n \subseteq S  BY <1>1, <1>2, UpTo
<1>4. QED  BY <1>3 DEF S

\* What a worker still has to say once its socket is gone is what it had to say, in order.
LEMMA DurablesThin ==
    ASSUME NEW s \in Seq(RegistryFrames)
    PROVE  Durables(s) \in Seq(RegistryFrames) /\ Thinned(Durables(s), s, Len(s))
<1> DEFINE durable == CHOOSE f : Keeping(f, s, Len(s))
<1>1. Durables(s) = durable[Len(s)]
    BY DEF Durables, Keeping
<1>2. Len(s) \in Nat  OBVIOUS
<1>3. Keeping(durable, s, Len(s))  BY <1>2, KeepingExists
<1> HIDE DEF durable
<1>a. \A i \in 0 .. Len(s) :
        durable[i] = IF i = 0 THEN << >>
                     ELSE IF Durable(s[i]) THEN Append(durable[i - 1], s[i]) ELSE durable[i - 1]
    BY <1>3 DEF Keeping
<1> DEFINE S == {n \in 0 .. Len(s) : durable[n] \in Seq(RegistryFrames) /\ Thinned(durable[n], s, n)}
<1>4. 0 \in S
  <2>1. PICK t : t = << >>  OBVIOUS
  <2>a. t \in Seq(RegistryFrames) /\ DOMAIN t = {} /\ durable[0] = t  BY <1>2, <1>a, <2>1
  <2>2. Thinned(t, s, 0)
    <3>1. DOMAIN t = {}  BY <2>a
    <3>2. 1 .. 0 = {}  OBVIOUS
    <3>3. QED  BY <3>1, <3>2 DEF Thinned
  <2>3. 0 \in 0 .. Len(s) /\ durable[0] \in Seq(RegistryFrames) /\ Thinned(durable[0], s, 0)
    BY <1>2, <2>2, <2>a
  <2>4. QED  BY <2>3
<1>5. ASSUME NEW n \in 0 .. Len(s), n + 1 <= Len(s), n \in S  PROVE n + 1 \in S
  <2>1. durable[n + 1] = IF Durable(s[n + 1]) THEN Append(durable[n], s[n + 1]) ELSE durable[n]
    <3>1. n + 1 \in 0 .. Len(s) /\ n + 1 # 0 /\ n + 1 - 1 = n  BY <1>2, <1>5
    <3>2. durable[n + 1] = IF Durable(s[n + 1]) THEN Append(durable[n + 1 - 1], s[n + 1])
                           ELSE durable[n + 1 - 1]
      BY <1>a, <3>1
    <3>3. QED  BY <3>1, <3>2
  <2>2. PICK t \in Seq(RegistryFrames) : t = durable[n] /\ Thinned(t, s, n)  BY <1>5
  <2>3. PICK u : u = durable[n + 1]  OBVIOUS
  <2>4. u \in Seq(RegistryFrames) /\ Thinned(u, s, n + 1)
    <3> HIDE DEF S
    <3>1. u = IF Durable(s[n + 1]) THEN Append(t, s[n + 1]) ELSE t  BY <2>1, <2>2, <2>3
    <3>2. QED  BY <1>5, <2>2, <3>1, ThinnedByOne
  <2>5. n + 1 \in 0 .. Len(s)  BY <1>2, <1>5
  <2>6. QED  BY <2>3, <2>4, <2>5
<1> HIDE DEF S
<1>6. Len(s) \in S
  <2>1. 0 .. Len(s) \subseteq S  BY <1>2, <1>4, <1>5, UpTo
  <2>2. QED  BY <1>2, <2>1
<1>7. QED  BY <1>1, <1>6 DEF S

\* A socket that dies takes what was on its way with it, but for the reports of attempts.
LEMMA BreakKeepsDisk ==
    ASSUME DiskInv, Break
    PROVE  DiskInv'
<1> USE DEF Idle, Finished, DiskSettled, Same
<1>1. DiskShape /\ LastLease /\ OneLease /\ InOrder /\ Undisturbed /\ DiscardsFirst
    BY DEF DiskInv
<1>u. /\ runState' = runState /\ followUp' = followUp /\ held' = held /\ kinds' = kinds
      /\ active' = active /\ attached' = attached /\ reapTimer' = reapTimer
      /\ tracked' = tracked /\ removing' = removing /\ removals' = removals
      /\ opened' = opened /\ retainedUntil' = retainedUntil
      /\ online' = FALSE /\ toDaemon' = << >>
    BY DEF Break, hostRecord, hostTimers, hostLeases, hostAttach, daemonVars, discardVars
<1>2. PICK s \in Seq(RegistryFrames) : s = toRegistry  BY <1>1 DEF DiskShape
<1>3. PICK t \in Seq(RegistryFrames) : t = toRegistry' /\ Thinned(t, s, Len(s))
    BY <1>2, DurablesThin DEF Break
<1>4. DOMAIN s = 1 .. Len(s)  BY <1>2
<1>5. /\ \A k \in DOMAIN toRegistry' : \E i \in DOMAIN toRegistry : toRegistry'[k] = toRegistry[i]
      /\ \A k, l \in DOMAIN toRegistry' : k < l =>
           \E i, j \in DOMAIN toRegistry : i < j /\ toRegistry'[k] = toRegistry[i] /\ toRegistry'[l] = toRegistry[j]
      /\ \A i \in DOMAIN toRegistry : Durable(toRegistry[i]) =>
           \E k \in DOMAIN toRegistry' : toRegistry'[k] = toRegistry[i]
  <2>1. PICK r : r = toRegistry'  OBVIOUS
  <2>2. r = t  BY <1>3, <2>1
  <2>b. Thinned(r, s, Len(s))  BY <1>3, <2>2
  <2>3. /\ \A k \in DOMAIN r : \E i \in DOMAIN s : r[k] = s[i]
        /\ \A k, l \in DOMAIN r : k < l => \E i, j \in DOMAIN s : i < j /\ r[k] = s[i] /\ r[l] = s[j]
        /\ \A i \in DOMAIN s : Durable(s[i]) => \E k \in DOMAIN r : r[k] = s[i]
    <3>1. \A x : x \in DOMAIN s <=> x \in 1 .. Len(s)  BY <1>4
    <3>2. \A k \in DOMAIN r : \E i \in DOMAIN s : r[k] = s[i]
      BY <2>b, <3>1 DEF Thinned
    <3>3. ASSUME NEW k \in DOMAIN r, NEW l \in DOMAIN r, k < l
          PROVE  \E i, j \in DOMAIN s : i < j /\ r[k] = s[i] /\ r[l] = s[j]
      <4>1. PICK i, j \in 1 .. Len(s) : i < j /\ r[k] = s[i] /\ r[l] = s[j]
        BY <2>b, <3>3 DEF Thinned
      <4>2. QED  BY <3>1, <4>1
    <3>4. \A i \in DOMAIN s : Durable(s[i]) => \E k \in DOMAIN r : r[k] = s[i]
      BY <2>b, <3>1 DEF Thinned
    <3>5. QED  BY <3>2, <3>3, <3>4
  <2>4. QED  BY <1>2, <2>1, <2>3
<1>6. /\ Says("run-patch")' <=> Says("run-patch")
      /\ Says("run-complete")' <=> Says("run-complete")
    BY <1>5 DEF Says, Durable
<1>7. ~Hears("dispatch")' /\ ~Hears("discard")'
  <2>1. DOMAIN toDaemon' = {}  BY <1>u
  <2>2. QED  BY <2>1 DEF Hears
<1>8. DiskShape'
  <2>1. toDaemon' \in Seq(DaemonFrames)  BY <1>u
  <2>2. QED  BY <1>1, <1>3, <1>u, <2>1 DEF DiskShape
<1>9. LastLease'
  <2>1. DOMAIN toDaemon' = {}  BY <1>u
  <2>2. \A k \in DOMAIN toRegistry' : toRegistry'[k].type # "attach-over" => toRegistry'[k].lease = Len(kinds')
    BY <1>1, <1>5, <1>u DEF LastLease
  <2>3. QED  BY <1>u, <2>1, <2>2 DEF LastLease
<1>10. OneLease'  BY <1>1, <1>6, <1>7, <1>u DEF OneLease
<1>11. InOrder'
  <2>1. ReportsInOrder'  BY <1>1, <1>5 DEF InOrder, ReportsInOrder, IsBeginning
  <2>2. \A k \in DOMAIN toRegistry' : IsBeginning(k)' => runState' \notin DiskSettled
    BY <1>1, <1>5, <1>u DEF InOrder, IsBeginning
  <2>3. QED  BY <2>1, <2>2 DEF InOrder, IsBeginning
<1>12. Undisturbed'
  <2>1. Early' <=> Early  BY <1>6, <1>u DEF Early
  <2>2. Early' => \A k \in DOMAIN toRegistry' : toRegistry'[k].type # "attach-over" => IsBeginning(k)'
    BY <1>1, <1>5, <2>1 DEF Undisturbed, IsBeginning
  <2>3. QED  BY <1>1, <1>6, <1>u, <2>1, <2>2 DEF Undisturbed, IsBeginning
<1>13. DiscardsFirst'
  <2>1. DispatchIsLast'
    <3>1. DOMAIN toDaemon' = {}  BY <1>u
    <3>2. QED  BY <3>1 DEF DispatchIsLast
  <2>2. QED  BY <1>1, <1>7, <1>u, <2>1 DEF DiscardsFirst
<1>14. QED  BY <1>8, <1>9, <1>10, <1>11, <1>12, <1>13 DEF DiskInv

\* Every step keeps the invariant of a retained disk.
LEMMA NextKeepsDisk == DiskInv /\ [DiskNext /\ OneLeaseAtATime]_diskVars => DiskInv'
<1> SUFFICES ASSUME DiskInv, [DiskNext /\ OneLeaseAtATime]_diskVars  PROVE DiskInv'
    OBVIOUS
<1>1. CASE UNCHANGED diskVars
  <2>1. /\ kinds' = kinds /\ held' = held /\ toDaemon' = toDaemon /\ toRegistry' = toRegistry
        /\ active' = active /\ online' = online /\ opened' = opened /\ attached' = attached
        /\ removals' = removals /\ removing' = removing /\ tracked' = tracked
        /\ retainedUntil' = retainedUntil /\ runState' = runState /\ followUp' = followUp
        /\ reapTimer' = reapTimer
    BY <1>1 DEF diskVars, hostRecord, hostTimers, hostLeases, hostAttach, daemonVars,
                discardVars, linkVars
  <2>2. DiskShape /\ Undisturbed  BY DEF DiskInv
  <2>3. QED  BY <2>1, <2>2, QuietKeepsDisk DEF DiskShape, Undisturbed
<1>2. ASSUME DiskNext, OneLeaseAtATime  PROVE DiskInv'
    BY <1>2, RetryRunKeepsDisk, ProbedKeepsDisk, TimersKeepsDisk, FollowUpsKeepsDisk, MaybeReapKeepsDisk, DispatchQueuedKeepsDisk,
       ApplyRunPatchKeepsDisk, ApplyRunCompleteKeepsDisk, OnRunRejectedKeepsDisk, OpenAttachKeepsDisk, CloseAttachKeepsDisk,
       ReceiveAttachFrameKeepsDisk, HandleDispatchKeepsDisk, BeginRunKeepsDisk, ConcludeKeepsDisk, FinishSandboxKeepsDisk,
       CompleteRunKeepsDisk, HandleDiscardKeepsDisk, RemovedKeepsDisk, AttachOpenKeepsDisk, AttachBootedKeepsDisk, AttachExitKeepsDisk,
       AttachCloseKeepsDisk, BreakKeepsDisk, ReconnectKeepsDisk
    DEF DiskNext
<1>3. QED  BY <1>1, <1>2

\* An attempt at work has its disk to itself.
LEMMA DiskHasOneUser == DiskInv => RetainedDiskHasOneUser
<1> SUFFICES ASSUME DiskInv  PROVE RetainedDiskHasOneUser
    OBVIOUS
<1>1. OneLease /\ Undisturbed /\ DiscardsFirst  BY DEF DiskInv
<1>2. ASSUME active.phase = "working"
      PROVE  tracked = 0 /\ (kinds[active.lease] = "follow-up" => attached = {})
  <2>1. active # Idle  BY <1>2 DEF Idle
  <2>2. Early  BY <1>1, <1>2, <2>1, AtFirst
  <2>3. QED  BY <1>1, <1>2, <2>1, <2>2 DEF OneLease, Undisturbed, DiscardsFirst
<1>3. QED  BY <1>2 DEF RetainedDiskHasOneUser, NoDiscardUnderWork, FollowUpsRespectSessions

-----------------------------------------------------------------------------
(* The execution *)

USE DEF Goto, Throws, Onward, Fails, Fixed, recordVars, boxVars, remoteVars,
        treeVars, sessionVars, Human, NoBranch, FollowsUp, Awaited, Samples, Passes

\* An attempt begins with nothing running and, for a follow-up, at most the disk
\* its run retained.
LEMMA InitExec == ExecInit => ExecInv
BY DEF ExecInit, ExecInv, ProcessesInv, BoxInv, RetentionInv, FollowUpInv,
       DeliveryInv, RetainedDiskIsThere, Booted, Unbooted, OwesReply, Setups

\* The preparation of an attempt: nothing runs, and what was retained stays on
\* its record for as long as its disk is there.
LEMMA PreparingKeepsExec ==
    ASSUME ExecInv,
           Begin \/ Gather \/ Checkout \/ Rehydrate \/ Sync \/ Boot
           \/ Provision \/ Rebase
    PROVE  ExecInv'
<1> USE DEF ExecInv, ProcessesInv, BoxInv, RetentionInv, FollowUpInv, DeliveryInv,
            RetainedDiskIsThere, CompletedIsDelivered, OwesReply, Booted, Unbooted
<1>1. CASE Begin  BY <1>1 DEF Begin
<1>2. CASE Gather  BY <1>2 DEF Gather
<1>3. CASE Checkout  BY <1>3 DEF Checkout
<1>4. CASE Rehydrate  BY <1>4 DEF Rehydrate
<1>5. CASE Sync
  <2>1. CASE Goto("provision") /\ UNCHANGED <<box, disk, retained>>
    BY <1>5, <2>1 DEF Sync
  <2>2. CASE Goto("boot") /\ box' = "none" /\ disk' = FALSE /\ Retract
    BY <1>5, <2>2 DEF Sync, Retract
  <2>3. CASE Fails(<<>>) /\ box' = "none" /\ disk' = FALSE /\ Retract
    BY <1>5, <2>3 DEF Sync, Retract
  <2>4. QED  BY <1>5, <2>1, <2>2, <2>3 DEF Sync
<1>6. CASE Boot  BY <1>6 DEF Boot
<1>7. CASE Provision  BY <1>7 DEF Provision
<1>8. CASE Rebase  BY <1>8 DEF Rebase
<1>9. QED
    BY <1>1, <1>2, <1>3, <1>4, <1>5, <1>6, <1>7, <1>8

\* The agent and the review: whoever they start is waited for at the step it was
\* started for, whatever its outcome.
LEMMA AgentKeepsExec ==
    ASSUME ExecInv,
           StartAgent \/ AgentReturns \/ AgentBreaks \/ Checkpoint
           \/ StartReview \/ Synthesize \/ ReviewReturns
    PROVE  ExecInv'
<1> USE DEF ExecInv, ProcessesInv, BoxInv, RetentionInv, FollowUpInv, DeliveryInv,
            RetainedDiskIsThere, CompletedIsDelivered, OwesReply, Booted, Unbooted
<1>1. CASE StartAgent  BY <1>1 DEF StartAgent
<1>2. CASE AgentReturns  BY <1>2 DEF AgentReturns, Reaped
<1>3. CASE AgentBreaks  BY <1>3 DEF AgentBreaks
<1>4. CASE Checkpoint  BY <1>4 DEF Checkpoint, Pushed
<1>5. CASE StartReview  BY <1>5 DEF StartReview
<1>6. CASE Synthesize  BY <1>6 DEF Synthesize, ReviewersDone
<1>7. CASE ReviewReturns  BY <1>7 DEF ReviewReturns
<1>8. QED
    BY <1>1, <1>2, <1>3, <1>4, <1>5, <1>6, <1>7

\* The last steps: what a completed run owes is done in the order Close relies on.
LEMMA FinalizingKeepsExec ==
    ASSUME ExecInv,
           Finalize \/ PushRun \/ PushFollowUp \/ Announce \/ Close \/ Catch
           \/ Finish
    PROVE  ExecInv'
<1> USE DEF ExecInv, ProcessesInv, BoxInv, RetentionInv, FollowUpInv, DeliveryInv,
            RetainedDiskIsThere, CompletedIsDelivered, OwesReply, Booted, Unbooted
<1>1. CASE Finalize  BY <1>1 DEF Finalize
<1>2. CASE PushRun  BY <1>2 DEF PushRun
<1>3. CASE PushFollowUp  BY <1>3 DEF PushFollowUp, LeaseHolds
<1>4. CASE Announce  BY <1>4 DEF Announce
<1>5. CASE Close  BY <1>5 DEF Close
<1>6. CASE Catch  BY <1>6 DEF Catch, Verdict, MayWait
<1>7. CASE Finish  BY <1>7 DEF Finish, Retains, LeftAlive
<1>8. QED
    BY <1>1, <1>2, <1>3, <1>4, <1>5, <1>6, <1>7

\* What goes on beside the pipeline: a process ends or works, a usage sample, the
\* abort signal, a person's push.
LEMMA WorldKeepsExec ==
    ASSUME ExecInv,
           Exits \/ Killed \/ Sampled \/ AgentWorks \/ Abort \/ SomebodyPushes
    PROVE  ExecInv'
<1> USE DEF ExecInv, ProcessesInv, BoxInv, RetentionInv, FollowUpInv, DeliveryInv,
            RetainedDiskIsThere, CompletedIsDelivered, OwesReply, Booted, Unbooted
<1>1. CASE Exits \/ Killed
  <2>1. PICK p \in procs : Ends(p)  BY <1>1 DEF Exits, Killed
  <2>2. QED  BY <2>1 DEF Ends
<1>2. CASE Sampled  BY <1>2 DEF Sampled
<1>3. CASE AgentWorks  BY <1>3 DEF AgentWorks
<1>4. CASE Abort  BY <1>4 DEF Abort
<1>5. CASE SomebodyPushes  BY <1>5 DEF SomebodyPushes
<1>6. QED
    BY <1>1, <1>2, <1>3, <1>4, <1>5

\* So every step keeps it, and it holds in every state.
LEMMA ExecStays == ExecInv /\ (ExecNext \/ UNCHANGED execVars) => ExecInv'
<1>1. ExecInv /\ ExecNext => ExecInv'
    BY PreparingKeepsExec, AgentKeepsExec, FinalizingKeepsExec, WorldKeepsExec
    DEF ExecNext, ExecStep
<1>2. ExecInv /\ UNCHANGED execVars => ExecInv'
    BY DEF execVars, ExecInv, ProcessesInv, BoxInv, RetentionInv, FollowUpInv,
           DeliveryInv, RetainedDiskIsThere, CompletedIsDelivered, OwesReply, Booted,
           Unbooted
<1>3. QED  BY <1>1, <1>2

\* So it holds in every state of an execution.
THEOREM ExecInvariant == ExecSpec => []ExecInv
<1>1. ExecInv /\ [ExecNext]_execVars => ExecInv'
    BY ExecStays
<1>2. QED  BY InitExec, <1>1, PTL DEF ExecSpec

-----------------------------------------------------------------------------
(* The properties *)

\* The agent, the reviewers and the synthesis of an attempt are gone before its
\* sandbox is released or destroyed, on every path to its end and for any number of
\* reviewers (runner.ts runAgent: "awaiting it ... guarantees nothing is still
\* running when the sandbox is destroyed"). Of usage samples it says nothing, and
\* nothing of the kind is true: they are not awaited.
THEOREM NoWorkIsLeftRunning == ExecSpec => []NoWorkOutlivesItsSandbox
<1>1. ExecInv => NoWorkOutlivesItsSandbox
    BY DEF ExecInv, ProcessesInv, BoxInv, Booted, NoWorkOutlivesItsSandbox
<1>2. QED  BY <1>1, ExecInvariant, PTL

\* A run that says it completed has delivered: its branch, its pull request, its
\* recorded spend and the comment it owed (runner.ts executeRun, followup.ts
\* executeFollowUp).
THEOREM CompletedMeansDelivered == ExecSpec => []CompletedIsDelivered
<1>1. ExecInv => CompletedIsDelivered
    BY DEF ExecInv, DeliveryInv, CompletedIsDelivered
<1>2. QED  BY <1>1, ExecInvariant, PTL

\* A sandbox that is on a finished run's record as retained is there to be booted,
\* and nothing but usage samples runs in it (runner.ts finishRunSandbox, followup.ts syncRehydrated).
THEOREM RetainedMeansThere == ExecSpec => []RetainedDiskIsThere
<1>1. ExecInv => RetainedDiskIsThere
    BY DEF ExecInv
<1>2. QED  BY <1>1, ExecInvariant, PTL

\* The one push a follow-up makes is refused by the lease it was gathered at, and
\* none of the steps that push without one is a follow-up's (followup.ts
\* pushFollowUp, github.ts commitAndPush).
THEOREM FollowUpsYieldToPeople == ExecSpec => HumanPushesStand
<1> DEFINE Stands == FollowsUp /\ head = Human /\ gathered # Human => head' = Human
<1>1. ExecInv /\ ExecNext => Stands
  <2> SUFFICES ASSUME ExecInv, ExecNext PROVE Stands  OBVIOUS
  <2>1. CASE Checkpoint
    BY <2>1 DEF Checkpoint, ExecInv, FollowUpInv
  <2>2. CASE PushRun
    BY <2>2 DEF PushRun
  <2>3. CASE PushFollowUp
    BY <2>3 DEF PushFollowUp, LeaseHolds
  <2>4. CASE SomebodyPushes
    BY <2>4 DEF SomebodyPushes
  <2>5. CASE head' = head
    BY <2>5
  <2>6. \/ Checkpoint \/ PushRun \/ PushFollowUp \/ SomebodyPushes
        \/ head' = head
    BY DEF ExecNext, ExecStep, Begin, Gather, Checkout, Rehydrate, Sync, Boot,
           Provision, Rebase, StartAgent, AgentReturns, AgentBreaks, StartReview,
           Synthesize, ReviewReturns, Finalize, Announce, Close, Catch, Finish, Ends,
           Exits, Killed, Sampled, AgentWorks, Abort
  <2>7. QED  BY <2>1, <2>2, <2>3, <2>4, <2>5, <2>6
<1>2. ExecInv /\ [ExecNext]_execVars => [Stands]_execVars
    BY <1>1
<1>3. QED  BY ExecInvariant, <1>2, PTL DEF ExecSpec, HumanPushesStand

-----------------------------------------------------------------------------
(* How a worker stops (WorkerShutdown)                                     *)

\* A worker starts with no execution and nothing owed.
LEMMA InitStop == StopInit => StopInv
BY DEF StopInit, StopInv, StopShapes, StagesReached, Running, StillOwed

\* Executions that come and go: none comes once the worker stops.
LEMMA ExecutionsKeepStop ==
    ASSUME StopInv, NEW r \in Executions, TakesDispatch(r) \/ DiscardEnds(r)
    PROVE  StopInv'
<1>1. /\ UNCHANGED <<process, shuttingDown, sequences, gaveUp, toldToStop, completion>>
      /\ exec' \in [Executions -> {"none", "discarding", "running", "done"}]
      /\ exec[r] # "done" /\ exec'[r] # "done" /\ \A q \in Executions : q # r => exec'[q] = exec[q]
    BY DEF TakesDispatch, DiscardEnds, StopInv, StopShapes
<1>2. StopShapes'
    BY <1>1 DEF StopInv, StopShapes
<1>3. StillOwed' <=> StillOwed
    BY <1>1 DEF StillOwed
<1>4. CASE TakesDispatch(r)
    BY <1>1, <1>2, <1>3, <1>4 DEF TakesDispatch, StopInv, StagesReached
<1>5. CASE DiscardEnds(r)
  <2>1. Running' = Running
    BY <1>1, <1>5 DEF DiscardEnds, Running, StopInv, StopShapes
  <2>2. QED  BY <1>1, <1>2, <1>3, <2>1 DEF StopInv, StagesReached
<1>6. QED  BY <1>4, <1>5

\* Reports that are owed, acknowledged and given up.
LEMMA ReportsKeepStop ==
    ASSUME StopInv, NEW r \in Executions, ExecutionEnds(r) \/ Acknowledged(r) \/ LosesLease(r)
    PROVE  StopInv'
<1>1. UNCHANGED <<process, shuttingDown, sequences, gaveUp>>
    BY DEF ExecutionEnds, Acknowledged, LosesLease
<1>2. StopShapes'
    BY <1>1 DEF ExecutionEnds, Acknowledged, LosesLease, StopInv, StopShapes
<1>3. Running' \subseteq Running /\ toldToStop \subseteq toldToStop'
    BY DEF ExecutionEnds, Acknowledged, LosesLease, StopInv, StopShapes, Running
<1>4. StillOwed' => StillOwed \/ r \in Running
    BY DEF ExecutionEnds, Acknowledged, LosesLease, StopInv, StopShapes, Running, StillOwed
<1>5. QED  BY <1>1, <1>2, <1>3, <1>4 DEF StopInv, StagesReached

\* The connection, the session and what the host says change nothing of a stop.
LEMMA SocketsKeepStop ==
    ASSUME StopInv,
           Connects \/ AttachOpens \/ SessionBoots \/ SocketCloses \/ SocketOpens
             \/ HostRevokes \/ HostRefuses
    PROVE  StopInv'
<1>1. /\ UNCHANGED <<shuttingDown, sequences, gaveUp, exec, toldToStop, completion>>
      /\ process' = process \/ process' = "up"
    BY DEF Connects, AttachOpens, SessionBoots, SocketCloses, SocketOpens, HostRevokes, HostRefuses
<1>2. Running' = Running /\ (StillOwed' <=> StillOwed)
    BY <1>1 DEF Running, StillOwed
<1>3. QED  BY <1>1, <1>2 DEF StopInv, StopShapes, StagesReached

\* A new sequence awaits what runs, and no dispatch is taken from here.
LEMMA BeginningKeepsStop ==
    ASSUME StopInv, NEW why, Begins(why), UNCHANGED <<process, gaveUp, exec, completion>>
    PROVE  StopInv'
<1>1. Running' = Running /\ (StillOwed' <=> StillOwed)
    BY DEF Running, StillOwed
<1>2. \A s \in sequences' : s \in sequences
                             \/ s = [why |-> why, at |-> "settling", awaits |-> Running]
    BY DEF Begins
<1>3. StopShapes'
    BY <1>2 DEF StopInv, StopShapes
<1>4. QED  BY <1>1, <1>2, <1>3 DEF Begins, StopInv, StagesReached

\* Whoever asks the worker to stop.
LEMMA AskingKeepsStop ==
    ASSUME StopInv, Signal \/ SupervisorGone \/ Forgotten
    PROVE  StopInv'
<1>1. UNCHANGED <<gaveUp, exec, completion>>
    BY DEF Signal, SupervisorGone, Forgotten
<1>2. CASE UNCHANGED process /\ \E why : Begins(why)
    BY <1>1, <1>2, BeginningKeepsStop
<1>3. CASE /\ process' \in {process, "exited"}
           /\ UNCHANGED <<shuttingDown, toldToStop, sequences>>
  <2>1. Running' = Running /\ (StillOwed' <=> StillOwed)
    BY <1>1 DEF Running, StillOwed
  <2>2. QED  BY <1>1, <1>3, <2>1 DEF StopInv, StopShapes, StagesReached
<1>4. QED  BY <1>2, <1>3 DEF Signal, SupervisorGone, Forgotten, ProcessExits

\* A sequence goes on, or gives up.
LEMMA SequencesKeepStop ==
    ASSUME StopInv, NEW s \in sequences, ExecutionsSettle(s) \/ Finishes(s)
    PROVE  StopInv'
<1>1. UNCHANGED <<shuttingDown, exec, toldToStop, completion>> /\ (gaveUp => gaveUp')
    BY DEF ExecutionsSettle, Finishes
<1>2. Running' = Running /\ (StillOwed' <=> StillOwed) /\ shuttingDown
    BY <1>1 DEF Running, StillOwed, StopInv, StagesReached
<1>3. CASE ExecutionsSettle(s)
  <2> DEFINE t == [s EXCEPT !.at = "draining"]
  <2>1. s = [why |-> s.why, at |-> s.at, awaits |-> s.awaits] /\ s.at = "settling"
        /\ Running \subseteq s.awaits
    BY <1>3 DEF ExecutionsSettle, StopInv, StopShapes, StagesReached
  <2>2. t.at = "draining" /\ t = [why |-> t.why, at |-> t.at, awaits |-> t.awaits]
    BY <2>1
  <2>3. UNCHANGED process /\ sequences' = (sequences \ {s}) \cup {t}
        /\ (~gaveUp' => Running = {})
    BY <1>3, <2>1 DEF ExecutionsSettle, Moves
  <2>4. StopShapes'
    BY <1>1, <2>2, <2>3 DEF StopInv, StopShapes
  <2>5. QED  BY <1>1, <1>2, <2>2, <2>3, <2>4 DEF StopInv, StagesReached
<1>4. CASE Finishes(s)
  <2>1. sequences' \subseteq sequences /\ process' \in {process, "failed", "resolved"}
        /\ s.at = "draining" /\ (~gaveUp' => ~StillOwed /\ ~gaveUp)
    BY <1>4 DEF Finishes
  <2>2. QED  BY <1>1, <1>2, <2>1 DEF StopInv, StopShapes, StagesReached
<1>5. QED  BY <1>3, <1>4

\* Every step keeps the invariant of a stop.
LEMMA NextStop == StopInv /\ [StopNext]_stopVars => StopInv'
<1> SUFFICES ASSUME StopInv, [StopNext]_stopVars PROVE StopInv'
    OBVIOUS
<1>1. CASE Work
    BY <1>1, ExecutionsKeepStop, ReportsKeepStop, SocketsKeepStop DEF Work
<1>2. CASE Stop
    BY <1>2, SocketsKeepStop, AskingKeepsStop, SequencesKeepStop DEF Stop
<1>3. CASE UNCHANGED stopVars
    BY <1>3 DEF stopVars, StopInv, StopShapes, StagesReached, Running, StillOwed
<1>4. QED  BY <1>1, <1>2, <1>3 DEF StopNext

\* Whatever still runs while a worker stops was told to stop, and a worker that ended
\* without a complaint left no execution running and no run-complete unanswered, however
\* many sequences stopped it at once (daemon.ts shutdown, onRevoked, connection.ts drain).
THEOREM StopsAreWhole == StopSpec => []CleanStopsAreWhole
<1>1. StopInv => CleanStopsAreWhole
    BY DEF StopInv, StopShapes, StagesReached, CleanStopsAreWhole, StillOwed
<1>2. QED  BY <1>1, InitStop, NextStop, PTL DEF StopSpec

-----------------------------------------------------------------------------
(* A run after its work (PullWatch)                                        *)

\* A run begins without a pull request, in the queue.
LEMMA InitWatch == WatchInit => WatchInv
<1> SUFFICES ASSUME WatchInit PROVE WatchInv
    OBVIOUS
<1>1. pulls = << >> /\ Len(<< >>) = 0 /\ << >> \in Seq(PrStates \ {"none"})
    BY DEF WatchInit
<1>2. Len(pulls) = 0 /\ 0 \in 0 .. Len(pulls) /\ pulls \in Seq(PrStates \ {"none"})
    BY <1>1
<1>3. QED
    BY <1>2 DEF WatchInit, WatchInv, WatchShapes, PullsKnown, ArchivedIsOver, NoWork, NoRefresh,
                NoPull, PrStates, Over, Dates

\* The pull requests of the branch, when one is opened or another found live.
LEMMA OpenedPulls ==
    ASSUME pulls \in Seq(PrStates \ {"none"}), NEW state \in PrStates \ {"none"},
           OpensPull(state)
    PROVE  /\ pulls' \in Seq(PrStates \ {"none"}) /\ Len(pulls') \in Nat
           /\ Len(pulls) \in Nat /\ Len(pulls) <= Len(pulls')
           /\ DOMAIN pulls' = 1 .. Len(pulls')
<1>1. CASE UNCHANGED pulls
    BY <1>1
<1>2. CASE pulls' = Append(pulls, state)
    BY <1>2
<1>3. QED  BY <1>1, <1>2 DEF OpensPull

\* A worker at work is at something.
LEMMA NobodyWorks == NoWork.kind = "none" /\ NoWork.result = FALSE
BY DEF NoWork

\* What stays true of the run, its copy and its lookup when the branch has more pull
\* requests.
LEMMA MorePulls ==
    ASSUME WatchShapes, pulls' \in Seq(PrStates \ {"none"}), Len(pulls) <= Len(pulls')
    PROVE  0 .. Len(pulls) \subseteq 0 .. Len(pulls')
<1>1. Len(pulls) \in Nat /\ Len(pulls') \in Nat
    BY DEF WatchShapes
<1>2. QED  BY <1>1

\* The attempts: a run that is handed out was in the queue, so not in the archive.
LEMMA AttemptsKeepWatch ==
    ASSUME WatchInv, HandedOut \/ DraftOpened \/ Completes \/ AttemptFails \/ Interrupted
    PROVE  WatchInv'
<1> USE DEF NoPull
<1>0. WatchShapes /\ PullsKnown /\ ArchivedIsOver /\ Len(pulls) \in Nat
      /\ pulls \in Seq(PrStates \ {"none"}) /\ DOMAIN pulls = 1 .. Len(pulls)
    BY DEF WatchInv, WatchShapes
<1>1. CASE HandedOut
  <2>1. UNCHANGED <<pulls, aged, refresh>> /\ run.status = "queued" /\ ~run.archived
    BY <1>0, <1>1 DEF HandedOut, ArchivedIsOver, Over
  <2>2. run' = [run EXCEPT !.status = "active", !.again = FALSE]
    BY <1>1 DEF HandedOut
  <2>3. work' = [kind |-> IF run.again THEN "followUp" ELSE "implementation",
                 pr |-> run.pr, prState |-> run.prState, since |-> Len(pulls),
                 drafted |-> FALSE, result |-> run.result]
    BY <1>1 DEF HandedOut
  <2>4. Len(pulls) \in 0 .. Len(pulls)
    BY <1>0
  <2>5. WatchShapes'
    BY <1>0, <2>1, <2>2, <2>3, <2>4 DEF WatchShapes
  <2>6. QED  BY <1>0, <2>1, <2>2, <2>3, <2>5 DEF WatchInv, WatchShapes, PullsKnown, ArchivedIsOver
<1>2. CASE DraftOpened
  <2>1. "draft" \in PrStates \ {"none"} /\ OpensPull("draft")
    BY <1>2 DEF DraftOpened, PrStates
  <2>2. /\ pulls' \in Seq(PrStates \ {"none"}) /\ Len(pulls') \in Nat /\ Len(pulls) <= Len(pulls')
        /\ DOMAIN pulls' = 1 .. Len(pulls')
    BY <1>0, <2>1, OpenedPulls
  <2>3. 0 .. Len(pulls) \subseteq 0 .. Len(pulls')
    BY <1>0, <2>2, MorePulls
  <2>4. PICK p \in DOMAIN pulls' :
             /\ work' = [work EXCEPT !.pr = p, !.prState = "draft", !.drafted = TRUE]
             /\ run' = [run EXCEPT !.pr = p, !.prState = "draft"]
    BY <1>2 DEF DraftOpened
  <2>5. p \in 0 .. Len(pulls') /\ p # 0
    BY <2>2, <2>4
  <2>6. UNCHANGED <<aged, refresh>> /\ work.kind = "implementation"
    BY <1>2 DEF DraftOpened
  <2>7. work # NoWork
    BY <2>6, NobodyWorks
  <2>8. WatchShapes'
    BY <1>0, <2>1, <2>2, <2>3, <2>4, <2>5, <2>6 DEF WatchShapes
  <2>9. QED
    BY <1>0, <2>4, <2>5, <2>6, <2>7, <2>8 DEF WatchInv, WatchShapes, PullsKnown, ArchivedIsOver
<1>3. ASSUME NEW status \in Over, NEW p \in 0 .. Len(pulls'), NEW prState \in PrStates,
             NEW keeps \in BOOLEAN, RunOver(status, p, prState, keeps),
             p = 0 <=> prState = "none", keeps \/ run.pr # 0 => p # 0,
             pulls' \in Seq(PrStates \ {"none"}), Len(pulls) <= Len(pulls'),
             UNCHANGED refresh
      PROVE  WatchInv'
  <2>1. 0 .. Len(pulls) \subseteq 0 .. Len(pulls')
    BY <1>0, <1>3, MorePulls
  <2>2. /\ run' = [run EXCEPT !.status = status, !.pr = p, !.prState = prState,
                              !.result = keeps, !.dates = @ \cup {"finished"}]
        /\ work' = NoWork /\ aged' \subseteq aged
    BY <1>3 DEF RunOver, Dated
  <2>3. NoWork \in [kind : {"none", "implementation", "followUp"}, pr : 0 .. Len(pulls'),
                    prState : PrStates, since : 0 .. Len(pulls'), drafted : BOOLEAN,
                    result : BOOLEAN]
    BY <1>0, <2>1 DEF NoWork, PrStates
  <2>4. WatchShapes'
    BY <1>0, <1>3, <2>1, <2>2, <2>3 DEF WatchShapes, Dates
  <2>5. QED
    BY <1>0, <1>3, <2>2, <2>4 DEF WatchInv, WatchShapes, PullsKnown, ArchivedIsOver
<1>4. CASE Completes
  <2>1. "open" \in PrStates \ {"none"} /\ "completed" \in Over
    BY DEF PrStates, Over
  <2>2. CASE /\ work.kind = "followUp" /\ work.result /\ UNCHANGED pulls
             /\ RunOver("completed", work.pr, "open", TRUE)
    <3>1. work # NoWork
      BY <2>2, NobodyWorks
    <3>2. work.pr \in 0 .. Len(pulls') /\ work.pr # 0
      BY <1>0, <2>2, <3>1 DEF WatchShapes, PullsKnown
    <3>3. /\ UNCHANGED refresh /\ Len(pulls) <= Len(pulls')
          /\ pulls' \in Seq(PrStates \ {"none"})
      BY <1>0, <1>4, <2>2 DEF Completes
    <3>4. "open" \in PrStates /\ (work.pr = 0 <=> "open" = "none") /\ TRUE \in BOOLEAN
      BY <2>1, <3>2
    <3>5. QED  BY <1>3, <2>1, <2>2, <3>2, <3>3, <3>4
  <2>3. CASE /\ OpensPull("open")
             /\ \E p \in DOMAIN pulls' : RunOver("completed", p, "open", TRUE)
    <3>1. /\ pulls' \in Seq(PrStates \ {"none"}) /\ Len(pulls') \in Nat
          /\ Len(pulls) <= Len(pulls') /\ DOMAIN pulls' = 1 .. Len(pulls')
      BY <1>0, <2>1, <2>3, OpenedPulls
    <3>2. PICK p \in DOMAIN pulls' : RunOver("completed", p, "open", TRUE)
      BY <2>3
    <3>3. p \in 0 .. Len(pulls') /\ p # 0
      BY <3>1, <3>2
    <3>4. QED  BY <1>3, <1>4, <2>1, <3>1, <3>2, <3>3 DEF Completes
  <2>4. QED  BY <1>4, <2>2, <2>3 DEF Completes
<1>5. CASE AttemptFails
  <2>1. /\ work # NoWork /\ RunOver("failed", work.pr, work.prState, work.result)
        /\ UNCHANGED <<pulls, refresh>>
    BY <1>5 DEF AttemptFails
  <2>2. /\ work.pr \in 0 .. Len(pulls') /\ work.prState \in PrStates /\ work.result \in BOOLEAN
        /\ "failed" \in Over
    BY <1>0, <2>1 DEF WatchShapes, Over
  <2>3. (work.pr = 0 <=> work.prState = "none") /\ (work.result \/ run.pr # 0 => work.pr # 0)
    BY <1>0, <2>1 DEF PullsKnown
  <2>4. QED  BY <1>0, <1>3, <2>1, <2>2, <2>3
<1>6. CASE Interrupted
  <2>1. CASE \E p \in work.since + 1 .. Len(pulls) :
                /\ p = Len(pulls) /\ pulls[p] # "closed"
                /\ RunOver("completed", p, pulls[p], TRUE)
    <3>1. PICK p \in work.since + 1 .. Len(pulls) : RunOver("completed", p, pulls[p], TRUE)
      BY <2>1
    <3>2. work.since \in Nat
      BY <1>0 DEF WatchShapes
    <3>3. p \in 1 .. Len(pulls)
      BY <1>0, <3>1, <3>2
    <3>4. pulls[p] \in PrStates \ {"none"}
      BY <1>0, <3>3
    <3>5. p \in 0 .. Len(pulls) /\ p # 0
      BY <1>0, <3>3
    <3>6. UNCHANGED <<pulls, refresh>>
      BY <1>6 DEF Interrupted
    <3>7. /\ p \in 0 .. Len(pulls') /\ Len(pulls) <= Len(pulls')
          /\ pulls' \in Seq(PrStates \ {"none"})
      BY <1>0, <3>5, <3>6
    <3>8. "completed" \in Over /\ TRUE \in BOOLEAN /\ pulls[p] \in PrStates
          /\ (p = 0 <=> pulls[p] = "none")
      BY <3>4, <3>5 DEF Over
    <3>9. QED  BY <1>3, <3>1, <3>5, <3>6, <3>7, <3>8
  <2>2. CASE work' = NoWork /\ run' = Revived(FALSE, work.kind) /\ UNCHANGED aged
    <3>1. NoWork \in [kind : {"none", "implementation", "followUp"}, pr : 0 .. Len(pulls),
                      prState : PrStates, since : 0 .. Len(pulls), drafted : BOOLEAN,
                      result : BOOLEAN]
      BY <1>0 DEF NoWork, PrStates
    <3>2. UNCHANGED <<pulls, refresh>>
      BY <1>6 DEF Interrupted
    <3>3. WatchShapes'
      BY <1>0, <2>2, <3>1, <3>2 DEF WatchShapes, Revived
    <3>4. QED
      BY <1>0, <2>2, <3>2, <3>3 DEF WatchInv, WatchShapes, PullsKnown, ArchivedIsOver, Revived
  <2>3. QED  BY <1>6, <2>1, <2>2 DEF Interrupted
<1>7. QED  BY <1>1, <1>2, <1>4, <1>5, <1>6

\* Commands: what goes back to the queue leaves the archive.
LEMMA CommandsKeepWatch ==
    ASSUME WatchInv, Retry \/ Retried \/ FollowUp \/ PullChecked \/ Archive \/ Unarchive
    PROVE  WatchInv'
<1>0. UNCHANGED <<pulls, aged, refresh, work>>
    BY DEF Retry, Retried, FollowUp, PullChecked, Archive, Unarchive
<1>1. \/ run' = run
      \/ \E kind : run' = Revived(FALSE, kind)
      \/ \E kind : run' = Revived(TRUE, kind) /\ Live(StateOf(run.pr))
      \/ run' = [run EXCEPT !.archived = TRUE] /\ run.status \in Over
      \/ run' = [run EXCEPT !.archived = FALSE]
    BY DEF Retry, Retried, FollowUp, PullChecked, Archive, Unarchive
<1>2. Live(StateOf(run.pr)) => run.pr # NoPull
    BY DEF Live, StateOf
<1>3. run' \in [status : {"queued", "active"} \cup Over, pr : 0 .. Len(pulls),
                prState : PrStates, result : BOOLEAN, again : BOOLEAN,
                dates : SUBSET Dates, archived : BOOLEAN]
  <2>1. run \in [status : {"queued", "active"} \cup Over, pr : 0 .. Len(pulls),
                 prState : PrStates, result : BOOLEAN, again : BOOLEAN,
                 dates : SUBSET Dates, archived : BOOLEAN]
    BY DEF WatchInv, WatchShapes
  <2>2. \A kind : (kind = "followUp") \in BOOLEAN
    OBVIOUS
  <2>3. QED  BY ZenonT(60), <1>1, <2>1, <2>2 DEF Revived
<1>4. WatchShapes'
    BY <1>0, <1>3 DEF WatchInv, WatchShapes
<1>5. /\ run'.pr = run.pr /\ run'.prState = run.prState
      /\ run'.result => run.result \/ run.pr # NoPull
      /\ run'.archived => run'.status \in Over
    BY <1>1, <1>2 DEF WatchInv, WatchShapes, ArchivedIsOver, Revived
<1>6. QED  BY <1>0, <1>4, <1>5 DEF WatchInv, PullsKnown, ArchivedIsOver

\* A lookup is of a pull request the run has, and its answer goes to a run that has one.
LEMMA LookupsKeepWatch ==
    ASSUME WatchInv,
           Refresh \/ RefreshAnswered \/ RefreshLands \/ RefreshFails \/ Backfill
    PROVE  WatchInv'
<1>0. /\ WatchShapes /\ PullsKnown /\ ArchivedIsOver /\ Len(pulls) \in Nat
      /\ pulls \in Seq(PrStates \ {"none"}) /\ DOMAIN pulls = 1 .. Len(pulls)
    BY DEF WatchInv, WatchShapes
<1>1. UNCHANGED <<pulls, work>>
    BY DEF Refresh, RefreshAnswered, RefreshLands, RefreshFails, Backfill
<1>2. 0 \in 0 .. Len(pulls) /\ "none" \in PrStates
    BY <1>0 DEF PrStates
<1>3. CASE Refresh \/ RefreshFails \/ Backfill
  <2>1. UNCHANGED <<run, aged>> /\ \/ refresh' = refresh
                                   \/ refresh' = NoRefresh
                                   \/ /\ refresh' = [at |-> "asked", pr |-> run.pr, state |-> "none"]
                                      /\ run.pr # NoPull
    BY <1>3 DEF Refresh, RefreshFails, Backfill, Looked
  <2>2. WatchShapes'
    BY <1>0, <1>1, <1>2, <2>1 DEF WatchShapes, NoRefresh, NoPull
  <2>3. QED
    BY <1>0, <1>1, <2>1, <2>2 DEF WatchInv, WatchShapes, PullsKnown, ArchivedIsOver, NoRefresh
<1>4. CASE RefreshAnswered
  <2>1. /\ refresh.at = "asked" /\ UNCHANGED <<run, aged>>
        /\ refresh' = [refresh EXCEPT !.at = "answered", !.state = pulls[refresh.pr]]
    BY <1>4 DEF RefreshAnswered
  <2>2. refresh # NoRefresh /\ refresh.pr \in 0 .. Len(pulls) /\ refresh.pr # NoPull
    BY <1>0, <2>1 DEF NoRefresh, WatchShapes, PullsKnown
  <2>3. refresh.pr \in 1 .. Len(pulls)
    BY <1>0, <2>2 DEF NoPull
  <2>4. pulls[refresh.pr] \in PrStates \ {"none"}
    BY <1>0, <2>3
  <2>5. WatchShapes'
    BY <1>0, <1>1, <2>1, <2>4 DEF WatchShapes
  <2>6. refresh'.at = "answered" /\ refresh'.pr = refresh.pr /\ refresh'.state # "none"
    BY <1>0, <2>1, <2>4 DEF WatchShapes
  <2>7. QED
    BY <1>0, <1>1, <2>1, <2>2, <2>5, <2>6 DEF WatchInv, PullsKnown, ArchivedIsOver
<1>5. CASE RefreshLands
  <2>1. /\ refresh.at = "answered" /\ refresh' = NoRefresh /\ aged' \subseteq aged
        /\ run' = [run EXCEPT !.prState = refresh.state,
                     !.dates = IF refresh.state = "merged" THEN @ \cup {"merged"} ELSE @]
    BY <1>5 DEF RefreshLands, PrObserved, Dated
  <2>2. /\ run.pr # NoPull /\ refresh.state # "none" /\ refresh.state \in PrStates
    BY <1>0, <2>1 DEF NoRefresh, WatchShapes, PullsKnown
  <2>3. WatchShapes'
    BY <1>0, <1>1, <1>2, <2>1, <2>2 DEF WatchShapes, NoRefresh, NoPull, Dates
  <2>4. QED
    BY <1>0, <1>1, <2>1, <2>2, <2>3
       DEF WatchInv, WatchShapes, PullsKnown, ArchivedIsOver, NoRefresh
<1>6. QED  BY <1>3, <1>4, <1>5

\* The sweep reads the run again before it archives it.
LEMMA SweepKeepsWatch ==
    ASSUME WatchInv, BeginSweep \/ ClosuresAnswered \/ Backfilled \/ Decide \/ HostRestarts
    PROVE  WatchInv'
<1>0. UNCHANGED <<pulls, aged, work>> /\ refresh' \in {refresh, NoRefresh}
    BY DEF BeginSweep, ClosuresAnswered, Backfilled, Decide, HostRestarts
<1>1. \/ run' = run
      \/ run' = [run EXCEPT !.dates = @ \cup {"ticketClosed"}]
      \/ run' = [run EXCEPT !.archived = TRUE] /\ run.status \in Over
      \/ run' = [run EXCEPT !.again = FALSE]
    BY DEF BeginSweep, ClosuresAnswered, Backfilled, Decide, HostRestarts, ReasonNow, Candidate
<1>2. 0 \in 0 .. Len(pulls) /\ "none" \in PrStates
    BY DEF PrStates, WatchInv, WatchShapes
<1>3. run' \in [status : {"queued", "active"} \cup Over, pr : 0 .. Len(pulls),
                prState : PrStates, result : BOOLEAN, again : BOOLEAN,
                dates : SUBSET Dates, archived : BOOLEAN]
  <2>1. run \in [status : {"queued", "active"} \cup Over, pr : 0 .. Len(pulls),
                 prState : PrStates, result : BOOLEAN, again : BOOLEAN,
                 dates : SUBSET Dates, archived : BOOLEAN]
    BY DEF WatchInv, WatchShapes
  <2>2. run.dates \cup {"ticketClosed"} \in SUBSET Dates
    BY <2>1 DEF Dates
  <2>3. CASE run' = [run EXCEPT !.dates = @ \cup {"ticketClosed"}]
    BY <2>1, <2>2, <2>3
  <2>4. CASE run' \in {run, [run EXCEPT !.archived = TRUE], [run EXCEPT !.again = FALSE]}
    BY <2>1, <2>4
  <2>5. QED  BY <1>1, <2>3, <2>4
<1>4. refresh' \in [at : {"idle", "asked", "answered"}, pr : 0 .. Len(pulls),
                    state : PrStates]
    BY <1>0, <1>2 DEF WatchInv, WatchShapes, NoRefresh, NoPull
<1>5. WatchShapes'
    BY <1>0, <1>3, <1>4 DEF WatchInv, WatchShapes
<1>6. QED
    BY <1>0, <1>1, <1>5 DEF WatchInv, WatchShapes, PullsKnown, ArchivedIsOver, NoRefresh

\* Time, colleagues on GitHub and in Linear.
LEMMA OthersKeepWatch ==
    ASSUME WatchInv, Days \/ OnGithub \/ OnLinear
    PROVE  WatchInv'
<1>0. UNCHANGED <<run, work, refresh>> /\ aged' \subseteq aged \cup run.dates
    BY DEF Days, OnGithub, OnLinear
<1>1. pulls' \in Seq(PrStates \ {"none"}) /\ Len(pulls') = Len(pulls)
  <2>1. CASE UNCHANGED pulls
    BY <2>1 DEF WatchInv, WatchShapes
  <2>2. CASE \E p \in DOMAIN pulls, s \in {"open", "merged", "closed"} :
                pulls' = [pulls EXCEPT ![p] = s]
    BY <2>2 DEF WatchInv, WatchShapes, PrStates
  <2>3. QED  BY <2>1, <2>2 DEF Days, OnGithub, OnLinear
<1>2. WatchShapes'
    BY <1>0, <1>1 DEF WatchInv, WatchShapes
<1>3. QED  BY <1>0, <1>2 DEF WatchInv, PullsKnown, ArchivedIsOver

\* Every step keeps the invariant of a watched run.
LEMMA NextWatch == WatchInv /\ [WatchNext]_watchVars => WatchInv'
<1> SUFFICES ASSUME WatchInv, [WatchNext]_watchVars PROVE WatchInv'
    OBVIOUS
<1>1. CASE UNCHANGED watchVars
    BY <1>1 DEF watchVars, WatchInv, WatchShapes, PullsKnown, ArchivedIsOver
<1>2. CASE WatchNext
    BY <1>2, AttemptsKeepWatch, CommandsKeepWatch, LookupsKeepWatch, SweepKeepsWatch,
       OthersKeepWatch DEF WatchNext
<1>3. QED  BY <1>1, <1>2

\* Only what is over is in the archive, however a sweep, a lookup, a command and an
\* attempt overlap and however often the host restarts (scheduler.ts #autoArchive, which
\* awaits GitHub and Linear without the run's lock and reads the run again before it archives it).
THEOREM ArchiveIsOfTheOver == WatchSpec => []ArchivedIsOver
<1>1. WatchInv => ArchivedIsOver
    BY DEF WatchInv
<1>2. QED  BY <1>1, InitWatch, NextWatch, PTL DEF WatchSpec

\* What the run says of its pull request is of one GitHub has (PullWatch's types).
THEOREM WatchTypes == WatchSpec => []WatchTypeOK
<1>1. WatchInv => WatchTypeOK
    BY DEF WatchInv, WatchShapes, PullsKnown, WatchTypeOK
<1>2. QED  BY <1>1, InitWatch, NextWatch, PTL DEF WatchSpec

-----------------------------------------------------------------------------
(* The page of a pull request (PullPage)                                   *)

\* A page begins with what it loaded.
LEMMA InitPage == PageInit => PageInv
BY DEF PageInit, PageInv, PageShapes, ReadSince, Queries, Answer, NoFetch

\* A fetch of a query goes on: asked for, read, landed or failed.
LEMMA FetchesKeepPage ==
    ASSUME PageInv,
           (\E q \in Queries : Refetch(q) \/ GithubReads(q) \/ AnswerLands(q) \/ FetchFails(q))
             \/ RepoFails
    PROVE  PageInv'
<1>1. /\ UNCHANGED <<pull, rev, done, acts>> /\ PageShapes
      /\ query \in [Queries -> [shown : SUBSET Pulls, rev : Nat, error : BOOLEAN, fetch : Answer]]
    BY DEF Refetch, GithubReads, AnswerLands, FetchFails, RepoFails, PageInv, PageShapes
<1>2. PICK q \in Queries : \/ Refetch(q) \/ GithubReads(q) \/ AnswerLands(q) \/ FetchFails(q)
                           \/ RepoFails /\ q = "list"
    BY DEF Queries
<1>3. PICK n : query' = [query EXCEPT ![q] = n]
    BY <1>2 DEF Refetch, GithubReads, AnswerLands, FetchFails, RepoFails
<1>4. /\ n \in [shown : SUBSET Pulls, rev : Nat, error : BOOLEAN, fetch : Answer]
      /\ ReadSince(q) => \/ n.fetch.stage = "asked"
                         \/ n.fetch.stage = "read" /\ n.fetch.rev >= done
                         \/ n.fetch.stage = "idle" /\ (n.error \/ n.rev >= done)
  <2>1. n = query'[q] /\ query[q] \in [shown : SUBSET Pulls, rev : Nat, error : BOOLEAN, fetch : Answer]
    BY <1>1, <1>3
  <2>2. rev \in Nat /\ done \in Nat /\ done <= rev /\ pull \in Pulls
    BY <1>1 DEF PageShapes
  <2>3. query[q].fetch \in Answer /\ Asked \in Answer /\ NoFetch \in Answer
        /\ Asked.stage = "asked" /\ NoFetch.stage = "idle"
    BY <2>1 DEF Answer, Asked, NoFetch
  <2>4. CASE Refetch(q)
    BY <1>1, <2>1, <2>3, <2>4 DEF Refetch
  <2>5. CASE GithubReads(q)
    BY <1>1, <2>1, <2>2, <2>3, <2>5 DEF GithubReads, Answer
  <2>6. CASE AnswerLands(q)
    BY <1>1, <2>1, <2>2, <2>3, <2>6 DEF AnswerLands, Answer, ReadSince
  <2>7. CASE FetchFails(q)
    BY <1>1, <2>1, <2>2, <2>3, <2>7 DEF FetchFails, Answer, Asked, NoFetch
  <2>8. CASE RepoFails /\ q = "list"
    BY <1>1, <2>1, <2>2, <2>3, <2>8 DEF RepoFails
  <2>9. QED  BY <1>2, <2>4, <2>5, <2>6, <2>7, <2>8
<1>5. PageShapes'
    BY <1>1, <1>3, <1>4 DEF PageShapes
<1>6. ASSUME NEW p \in Queries, ReadSince(p) PROVE ReadSince(p)'
  <2>1. CASE p = q
    BY <1>1, <1>3, <1>4, <1>6, <2>1 DEF ReadSince
  <2>2. CASE p # q
    BY <1>1, <1>3, <1>6, <2>2 DEF ReadSince
  <2>3. QED  BY <2>1, <2>2
<1>7. "detail" \in Queries /\ "list" \in Queries
    BY DEF Queries
<1>8. QED  BY <1>1, <1>5, <1>6, <1>7 DEF PageInv

\* An action is clicked, taken by GitHub, refused or lost: nothing is shown or owed yet.
LEMMA ActingKeepsPage ==
    ASSUME PageInv,
           (\E key \in Keys : Click(key)) \/ Write \/ Colleague \/ Reconfigure
             \/ \E a \in acts : GithubActs(a) \/ ActRefused(a) \/ ActFails(a) \/ ActEnds(a)
    PROVE  PageInv'
<1>1. UNCHANGED <<query, done>> /\ PageShapes
    BY DEF Click, Write, Colleague, Reconfigure, GithubActs, ActRefused, ActFails, ActEnds, PageInv
<1>2. ReadSince("detail")' = ReadSince("detail") /\ ReadSince("list")' = ReadSince("list")
    BY <1>1 DEF ReadSince
<1>3. \A a \in acts : a.stage = "detail" => a \in acts'
    BY DEF Click, Write, Colleague, Reconfigure, GithubActs, ActRefused, ActFails, ActEnds, Moved
<1>4. \A a \in acts' : /\ a = [id |-> a.id, key |-> a.key, stage |-> a.stage, text |-> a.text]
                       /\ a.key \in Keys
    BY <1>1 DEF Click, Write, Colleague, Reconfigure, GithubActs, ActRefused, ActFails, ActEnds,
                Moved, PageShapes
<1>5. pull' \in Pulls /\ rev' \in Nat /\ done <= rev'
  <2>1. CASE \E a \in acts : GithubActs(a)
    <3>1. PICK a \in acts : GithubActs(a)
      BY <2>1
    <3>2. After(a) \in Pulls
      BY <1>1, <3>1 DEF After, PageShapes, Keys, Pulls
    <3>3. QED  BY <1>1, <3>1, <3>2 DEF GithubActs, PageShapes
  <2>2. CASE Colleague
    BY <1>1, <2>2 DEF Colleague, PageShapes
  <2>3. CASE UNCHANGED <<pull, rev>>
    BY <1>1, <2>3 DEF PageShapes
  <2>4. QED
    BY <2>1, <2>2, <2>3 DEF Click, Write, Reconfigure, ActRefused, ActFails, ActEnds
<1>6. PageShapes'
    BY <1>1, <1>4, <1>5 DEF PageShapes
<1>7. QED  BY <1>2, <1>3, <1>6 DEF PageInv

\* An action that succeeded has the detail read anew, and then the list.
LEMMA SucceedingKeepsPage ==
    ASSUME PageInv, NEW a \in acts, ActSucceeds(a) \/ DetailDone(a)
    PROVE  PageInv'
<1>0. PICK to : /\ Moved(a, to) /\ UNCHANGED <<pull, rev>> /\ PageShapes
                /\ \/ to = "detail" /\ query' = Invalidated("detail") /\ done' = rev
                   \/ to = "list" /\ query' = Invalidated("list") /\ done' = done
    BY DEF ActSucceeds, DetailDone, PageInv
<1> DEFINE moved == [a EXCEPT !.stage = to]
<1>1. /\ a = [id |-> a.id, key |-> a.key, stage |-> a.stage, text |-> a.text] /\ a.key \in Keys
      /\ acts' = (acts \ {a}) \cup {moved}
    BY <1>0 DEF PageShapes, Moved
<1>2. /\ moved = [id |-> moved.id, key |-> moved.key, stage |-> moved.stage, text |-> moved.text]
      /\ moved.stage = to /\ moved.key \in Keys
    BY <1>1
<1>3. /\ query \in [Queries -> [shown : SUBSET Pulls, rev : Nat, error : BOOLEAN, fetch : Answer]]
      /\ Asked \in Answer /\ Asked.stage = "asked"
      /\ "detail" \in Queries /\ "list" \in Queries
    BY <1>0 DEF PageShapes, Asked, NoFetch, Answer, Queries
<1>4. query' \in [Queries -> [shown : SUBSET Pulls, rev : Nat, error : BOOLEAN, fetch : Answer]]
    BY <1>0, <1>3 DEF Invalidated
<1>5. PageShapes'
    BY <1>0, <1>1, <1>2, <1>4 DEF PageShapes
<1>6. CASE to = "detail"
  <2>1. query'["detail"].fetch.stage = "asked"
    BY <1>0, <1>3, <1>6 DEF Invalidated
  <2>2. ReadSince("detail")'
    BY <2>1 DEF ReadSince
  <2>3. QED  BY <1>1, <1>2, <1>5, <1>6, <2>2 DEF PageInv
<1>7. CASE to = "list"
  <2>1. query'["list"].fetch.stage = "asked" /\ query'["detail"] = query["detail"] /\ done' = done
    BY <1>0, <1>3, <1>7 DEF Invalidated
  <2>2. ReadSince("list")' /\ ReadSince("detail")'
    BY <2>1 DEF ReadSince, PageInv
  <2>3. QED  BY <1>5, <2>2 DEF PageInv
<1>8. QED  BY <1>0, <1>6, <1>7

\* Every step keeps the invariant of the page.
LEMMA NextPage == PageInv /\ [PageNext]_pageVars => PageInv'
<1> SUFFICES ASSUME PageInv, [PageNext]_pageVars PROVE PageInv'
    OBVIOUS
<1>1. CASE UNCHANGED pageVars
    BY <1>1 DEF pageVars, PageInv, PageShapes, ReadSince
<1>2. CASE PageNext
    BY <1>2, FetchesKeepPage, ActingKeepsPage, SucceedingKeepsPage DEF PageNext
<1>3. QED  BY <1>1, <1>2

\* When nothing is under way on the page of a pull request, its two queries were read after
\* every action it was told had succeeded, or say that they could not be, whatever fetch was
\* under way at the click (PullRequestDetail.tsx act(), which invalidates the detail and then
\* the list).
THEOREM PageShowsWhatWasDone == PageSpec => []WhatWasDoneIsShown
<1>1. PageInv => WhatWasDoneIsShown
    BY DEF PageInv, PageShapes, ReadSince, WhatWasDoneIsShown, AtRest, Queries
<1>2. QED  BY <1>1, InitPage, NextPage, PTL DEF PageSpec

-----------------------------------------------------------------------------
(* What the host counts on *)

\* Both invariants hold of the composition: each behaviour moves one part of it.
LEMMA WorkInvariants ==
    ExecInv /\ DiskInv /\ [WorkNext]_workVars /\ [OneLeaseAtATime]_diskVars
        => ExecInv' /\ DiskInv'
<1> SUFFICES ASSUME ExecInv, DiskInv, [WorkNext]_workVars, [OneLeaseAtATime]_diskVars
             PROVE  ExecInv' /\ DiskInv'
    OBVIOUS
<1>1. /\ ExecNext \/ UNCHANGED execVars
      /\ DiskNext \/ UNCHANGED diskVars
    BY ZenonT(60) DEF WorkNext, workVars, Execution
<1>2. [DiskNext /\ OneLeaseAtATime]_diskVars  BY <1>1
<1>3. ExecInv'  BY <1>1, ExecStays
<1>4. DiskInv'  BY <1>2, NextKeepsDisk
<1>5. QED  BY <1>3, <1>4

\* What the host counts on is there, and it has one user at a time: no attempt works on
\* a retained disk while it is being removed or while somebody is attached to it
\* (runner.ts discardRunSandbox and executeRun, scheduler.ts startFollowUp and maybeReap).
\* Nothing is assumed of a worker that has room for one lease. Where it has more, the
\* theorem is about the behaviours in which a run is not given its next lease before the
\* last attempt's frames have all been read.
THEOREM RetainedDisksAreUsable ==
    WorkSpec /\ [][OneLeaseAtATime]_diskVars => []RetainedDiskIsUsable
<1>1. WorkInit => ExecInv /\ DiskInv
    BY InitExec, InitDisk DEF WorkInit
<1>2. ExecInv /\ DiskInv => RetainedDiskIsUsable
    BY DiskHasOneUser DEF ExecInv, RetainedDiskIsUsable
<1>3. QED  BY <1>1, <1>2, WorkInvariants, PTL DEF WorkSpec

=============================================================================
