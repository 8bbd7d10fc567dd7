-------------------------- MODULE RunDispatchProofs --------------------------
(***************************************************************************)
(* What holds of leases and their executions for every fleet, every set of *)
(* runs and every number of faults and commands. First, that nobody runs a *)
(* lease a crash of the host could lose (RecordInv: a held lease is on     *)
(* disk, and until its claim has been written its dispatch is on no        *)
(* socket). Then that a connected worker runs nothing the host has given   *)
(* up on without being told (OwnershipInv: the types, the order of a       *)
(* lease's life, and what the two ends of a socket know of each other).    *)
(* Last, that recorded cancels arrive (CancelsInv).                        *)
(***************************************************************************)
EXTENDS RunDispatch, FiniteSetTheorems, TLAPS

-----------------------------------------------------------------------------
(* Sequences *)

\* The head of a sequence, and where what follows it was.
LEMMA TakingTheHead ==
    ASSUME NEW M, NEW s \in Seq(M), s # <<>>
    PROVE  /\ Head(s) \in M /\ 1 \in DOMAIN s /\ Head(s) = s[1]
           /\ Tail(s) \in Seq(M)
           /\ \A i \in DOMAIN Tail(s) : \E j \in DOMAIN s : Tail(s)[i] = s[j]
<1>1. Len(s) \in Nat /\ Len(s) > 0 /\ DOMAIN s = 1..Len(s) /\ Head(s) = s[1] /\ s[1] \in M
    OBVIOUS
<1>2. /\ Tail(s) \in Seq(M) /\ DOMAIN Tail(s) = 1..(Len(s) - 1)
      /\ \A i \in 1..(Len(s) - 1) : Tail(s)[i] = s[i + 1]
    OBVIOUS
<1>3. \A i \in 1..(Len(s) - 1) : i + 1 \in DOMAIN s
    BY <1>1
<1>4. QED  BY <1>1, <1>2, <1>3

\* What a concatenation holds, one of its halves held.
LEMMA Concatenating ==
    ASSUME NEW M, NEW s \in Seq(M), NEW t \in Seq(M)
    PROVE  /\ s \o t \in Seq(M)
           /\ \A i \in DOMAIN (s \o t) : \/ \E j \in DOMAIN s : (s \o t)[i] = s[j]
                                         \/ \E j \in DOMAIN t : (s \o t)[i] = t[j]
<1>1. /\ s \o t \in Seq(M) /\ Len(s) \in Nat /\ Len(t) \in Nat
      /\ DOMAIN (s \o t) = 1..(Len(s) + Len(t))
      /\ DOMAIN s = 1..Len(s) /\ DOMAIN t = 1..Len(t)
    OBVIOUS
<1>2. ASSUME NEW i \in 1..(Len(s) + Len(t)), i <= Len(s)
      PROVE  i \in DOMAIN s /\ (s \o t)[i] = s[i]
    BY <1>1, <1>2
<1>3. ASSUME NEW i \in 1..(Len(s) + Len(t)), i > Len(s)
      PROVE  i - Len(s) \in DOMAIN t /\ (s \o t)[i] = t[i - Len(s)]
    BY <1>1, <1>3
<1>4. ASSUME NEW i \in DOMAIN (s \o t)
      PROVE  \/ \E j \in DOMAIN s : (s \o t)[i] = s[j]
             \/ \E j \in DOMAIN t : (s \o t)[i] = t[j]
  <2>1. CASE i <= Len(s)  BY <1>1, <1>2, <2>1
  <2>2. CASE i > Len(s)   BY <1>1, <1>3, <2>2
  <2>3. QED  BY <1>1, <2>1, <2>2
<1>5. QED  BY <1>1, <1>4

\* SetToSeq lists the members of a finite set.
LEMMA Listing ==
    ASSUME NEW M, NEW S \in SUBSET M, IsFiniteSet(S)
    PROVE  SetToSeq(S) \in Seq(S) /\ SetToSeq(S) \in Seq(M)
<1>1. Cardinality(S) \in Nat /\ ExistsBijection(1..Cardinality(S), S)
    BY FS_CardinalityType
<1>2. PICK f \in Bijection(1..Cardinality(S), S) : TRUE
    BY <1>1 DEF ExistsBijection
<1>3. f \in [1..Cardinality(S) -> S] /\ IsInjective(f)
    BY <1>2 DEF Bijection, Injection
<1>4. SetToSeq(S) \in [1..Cardinality(S) -> S]
    BY <1>3 DEF SetToSeq
<1>5. QED  BY <1>1, <1>4

-----------------------------------------------------------------------------
(* Frames *)

\* The host's frames are well formed, and only a dispatch looks like one.
LEMMA HostMessages ==
    /\ \A l \in Leases, t \in {"dispatch", "cancel", "lease-lost", "run-complete-ack"} :
          Msg(t, l) \in HostFrames
    /\ \A l, m, t : t # "dispatch" => Msg(t, l) # Msg("dispatch", m)
    /\ \A l, m : Msg("dispatch", l) = Msg("dispatch", m) => l = m
    /\ \A l, t : Msg(t, l).type = t /\ Msg(t, l).lease = l
BY DEF Msg, HostFrames

\* So are the workers'.
LEMMA WorkerMessages ==
    /\ \A C \in SUBSET Leases : RegisterMsg(C) \in WorkerFrames /\ RegisterMsg(C).leases = C
    /\ \A l \in Leases : Msg("dispatch-rejected", l) \in WorkerFrames
BY DEF Msg, RegisterMsg, WorkerFrames

\* Frames of a type other than dispatch, listed in any order.
LEMMA Listed ==
    ASSUME NEW t \in {"cancel", "lease-lost"}, NEW S \in SUBSET Leases
    PROVE  LET fs == SetToSeq({Msg(t, l) : l \in S}) IN
           /\ fs \in Seq(HostFrames)
           /\ \A m : \A i \in DOMAIN fs : fs[i] # Msg("dispatch", m)
<1> DEFINE F == {Msg(t, l) : l \in S}
<1>1. F \in SUBSET HostFrames
    BY HostMessages
<1>2. IsFiniteSet(F)
  <2>1. IsFiniteSet(S)
    BY DispatchAssumption, FS_Subset
  <2>2. [l \in S |-> Msg(t, l)] \in Surjection(S, F)
    BY DEF Surjection
  <2>3. QED  BY <2>1, <2>2, FS_Surjection
<1> HIDE DEF F
<1>3. SetToSeq(F) \in Seq(F) /\ SetToSeq(F) \in Seq(HostFrames)
    BY <1>1, <1>2, Listing
<1>4. \A i \in DOMAIN SetToSeq(F) : SetToSeq(F)[i] \in F
    BY <1>3
<1>5. \A m : Msg("dispatch", m) \notin F
    BY HostMessages DEF F
<1>6. QED  BY <1>3, <1>4, <1>5 DEF F

-----------------------------------------------------------------------------
(* Steps that move a part of the invariant *)

recordVars == <<held, stored, leaseByRun, claiming, running, claimed, sock, toHost,
                toWorker>>

\* A step that moves none of it.
LEMMA RecordStays ==
    ASSUME RecordInv, UNCHANGED recordVars PROVE RecordInv'
BY DEF RecordInv, SocketsOK, Unsent, recordVars

\* The sockets are as they were.
LEMMA SocketsStay ==
    ASSUME UNCHANGED <<sock, toHost, toWorker>>
    PROVE  /\ SocketsOK => SocketsOK'
           /\ \A l : Unsent(l) => Unsent(l)'
BY DEF SocketsOK, Unsent

\* The host sends a worker frames: what they do not dispatch stays unsent.
LEMMA Sending ==
    ASSUME SocketsOK, NEW w, NEW msgs \in Seq(HostFrames), Send(w, msgs),
           UNCHANGED <<sock, toHost>>
    PROVE  /\ SocketsOK'
           /\ \A l : Unsent(l) /\ (\A i \in DOMAIN msgs : msgs[i] # Msg("dispatch", l))
                        => Unsent(l)'
<1>1. /\ toWorker \in [Workers -> Seq(HostFrames)]
      /\ toWorker' = [toWorker EXCEPT ![w] = IF sock[w] = "live" THEN toWorker[w] \o msgs
                                              ELSE toWorker[w]]
    BY DEF SocketsOK, Send
<1>2. ASSUME NEW v \in Workers
      PROVE  \/ toWorker'[v] = toWorker[v]
             \/ sock[v] = "live" /\ toWorker'[v] = toWorker[v] \o msgs
    BY <1>1
<1>3. \A v \in Workers : toWorker[v] \o msgs \in Seq(HostFrames)
    BY <1>1, Concatenating
<1>4. toWorker' \in [Workers -> Seq(HostFrames)]
    BY <1>1, <1>3
<1>5. SocketsOK'
    BY <1>2, <1>4 DEF SocketsOK
<1>6. ASSUME NEW l, Unsent(l), \A i \in DOMAIN msgs : msgs[i] # Msg("dispatch", l),
             NEW v \in Workers, NEW i \in DOMAIN toWorker'[v]
      PROVE  toWorker'[v][i] # Msg("dispatch", l)
  <2>1. CASE toWorker'[v] = toWorker[v]
    BY <1>6, <2>1 DEF Unsent
  <2>2. CASE toWorker'[v] = toWorker[v] \o msgs
    <3>1. toWorker[v] \in Seq(HostFrames)
      BY <1>1
    <3>2. \/ \E j \in DOMAIN toWorker[v] : toWorker'[v][i] = toWorker[v][j]
          \/ \E j \in DOMAIN msgs : toWorker'[v][i] = msgs[j]
      BY SMTT(30), <2>2, <3>1, Concatenating
    <3>3. QED  BY <1>6, <3>2 DEF Unsent
  <2>3. QED  BY <1>2, <2>1, <2>2
<1>7. QED  BY <1>5, <1>6 DEF Unsent

\* The same for one frame.
LEMMA SendingOne ==
    ASSUME SocketsOK, NEW w, NEW m \in HostFrames, Send(w, <<m>>), UNCHANGED <<sock, toHost>>
    PROVE  SocketsOK' /\ \A l : Unsent(l) /\ m # Msg("dispatch", l) => Unsent(l)'
<1>1. <<m>> \in Seq(HostFrames) /\ \A i \in DOMAIN <<m>> : <<m>>[i] = m
    OBVIOUS
<1>2. SocketsOK' /\ \A l : Unsent(l) /\ (\A i \in DOMAIN <<m>> : <<m>>[i] # Msg("dispatch", l))
                              => Unsent(l)'
    BY <1>1, Sending
<1>3. \A l : m # Msg("dispatch", l) => \A i \in DOMAIN <<m>> : <<m>>[i] # Msg("dispatch", l)
    BY <1>1
<1>4. QED  BY <1>2, <1>3

\* A worker takes a frame off its socket; its own frames may follow.
LEMMA Receiving ==
    ASSUME SocketsOK, NEW w \in Workers, NEW type, Receives(w, type)
    PROVE  /\ Head(toWorker[w]).lease \in Leases
           /\ type = "dispatch" => ~Unsent(Head(toWorker[w]).lease)
           /\ sock[w] = "live"
           /\ UNCHANGED <<held, stored, leaseByRun, claiming, sock>>
           /\ toHost' = toHost => SocketsOK'
           /\ toHost' = [toHost EXCEPT ![w] = Append(@, Msg("dispatch-rejected",
                                                 Head(toWorker[w]).lease))] => SocketsOK'
           /\ \A l : Unsent(l) => Unsent(l)'
<1> DEFINE f == Head(toWorker[w])
<1>1. /\ toWorker \in [Workers -> Seq(HostFrames)] /\ toWorker[w] # <<>>
      /\ toWorker' = [toWorker EXCEPT ![w] = Tail(toWorker[w])] /\ f.type = type
      /\ UNCHANGED <<held, stored, leaseByRun, claiming, sock>>
    BY DEF SocketsOK, Receives, bookVars
<1>2. /\ f \in HostFrames /\ 1 \in DOMAIN toWorker[w] /\ f = toWorker[w][1]
      /\ Tail(toWorker[w]) \in Seq(HostFrames)
      /\ \A i \in DOMAIN Tail(toWorker[w]) :
            \E j \in DOMAIN toWorker[w] : Tail(toWorker[w])[i] = toWorker[w][j]
    BY <1>1, TakingTheHead
<1>3. f.lease \in Leases /\ f = Msg(f.type, f.lease)
    BY <1>2 DEF HostFrames, Msg
<1>4. type = "dispatch" => ~Unsent(f.lease)
    BY <1>1, <1>2, <1>3 DEF Unsent
<1>5. sock[w] = "live"
    BY <1>1 DEF SocketsOK
<1>6. /\ toWorker' \in [Workers -> Seq(HostFrames)]
      /\ \A v \in Workers : toWorker'[v] = IF v = w THEN Tail(toWorker[w]) ELSE toWorker[v]
    BY <1>1, <1>2
<1>7. ASSUME NEW l, Unsent(l), NEW v \in Workers, NEW i \in DOMAIN toWorker'[v]
      PROVE  toWorker'[v][i] # Msg("dispatch", l)
  <2>1. \E j \in DOMAIN toWorker[v] : toWorker'[v][i] = toWorker[v][j]
    BY SMTT(30), <1>2, <1>6, <1>7
  <2>2. QED  BY <1>7, <2>1 DEF Unsent
<1>8. ASSUME toHost' = toHost PROVE SocketsOK'
    BY <1>1, <1>5, <1>6, <1>8 DEF SocketsOK
<1>9. ASSUME toHost' = [toHost EXCEPT ![w] = Append(@, Msg("dispatch-rejected", f.lease))]
      PROVE  SocketsOK'
  <2>1. /\ toHost \in [Workers -> Seq(WorkerFrames)]
        /\ Append(toHost[w], Msg("dispatch-rejected", f.lease)) \in Seq(WorkerFrames)
    BY <1>3, WorkerMessages DEF SocketsOK
  <2>2. /\ toHost' \in [Workers -> Seq(WorkerFrames)]
        /\ \A v \in Workers : v # w => toHost'[v] = toHost[v]
    BY <1>9, <2>1
  <2>3. QED  BY ZenonT(60), <1>1, <1>5, <1>6, <2>2 DEF SocketsOK
<1>10. \A l : Unsent(l) => Unsent(l)'
    BY <1>7 DEF Unsent
<1>11. QED  BY <1>1, <1>3, <1>4, <1>5, <1>8, <1>9, <1>10

\* Settling takes leases out of the books and out of the store together.
LEMMA Settling ==
    ASSUME NEW S, RecordInv, Settle(S)
    PROVE  /\ held' \subseteq stored' /\ held' \subseteq held /\ stored' \subseteq stored
           /\ leaseByRun' \in [Runs -> Leases \cup {None}]
BY DEF Settle, RecordInv

-----------------------------------------------------------------------------
(* The steps *)

\* Before the first step nothing is held and nothing is on a socket.
LEMMA InitRecord == Init => RecordInv
<1> SUFFICES ASSUME Init PROVE RecordInv  OBVIOUS
<1>1. /\ sock = [w \in Workers |-> "none"] /\ toHost = [w \in Workers |-> <<>>]
      /\ toWorker = [w \in Workers |-> <<>>]
      /\ held = {} /\ claiming = {} /\ stored = {} /\ running = {} /\ claimed = {}
      /\ leaseByRun = [r \in Runs |-> None]
    BY DEF Init
<1>2. SocketsOK
    BY <1>1 DEF SocketsOK
<1>3. QED  BY <1>1, <1>2 DEF RecordInv

\* The scheduler's own steps, the commands but one, and what happens inside an
\* execution: none of them moves a lease or a frame.
LEMMA QuietKeepsRecord ==
    ASSUME RecordInv,
           \/ Redrive
           \/ \E x \in lost : BeginInterrupt(x)
           \/ \E r \in Runs : SchedulerStep(r) \/ Retry(r) \/ FollowUp(r)
           \/ \E l \in Leases : \/ AdmitReport(l) \/ ApplyRunComplete(l)
                                \/ BeginAttempt(l) \/ Checkpoint(l) \/ FinalizePr(l)
                                \/ \E o \in Statuses : Conclude(l, o)
           \/ \E w \in Workers : HandleDisconnect(w)
    PROVE  RecordInv'
<1>1. CASE Redrive
    BY <1>1, RecordStays DEF Redrive, recordVars, bookVars, workerVars, wireVars
<1>2. CASE \E x \in lost : BeginInterrupt(x)
    BY <1>2, RecordStays DEF BeginInterrupt, recordVars, bookVars, workerVars, wireVars
<1>3. ASSUME NEW r \in Runs, SchedulerStep(r) PROVE RecordInv'
  <2>1. UNCHANGED recordVars
    BY <1>3 DEF SchedulerStep, Enqueue, Adopt, Requeue, JoinQueue, FollowUpGranted,
                FollowUpRefused, Resume, StartOver, recordVars, bookVars, workerVars,
                wireVars
  <2>2. QED  BY <2>1, RecordStays
<1>4. ASSUME NEW r \in Runs, Retry(r) \/ FollowUp(r) PROVE RecordInv'
  <2>1. UNCHANGED recordVars
    BY <1>4 DEF Retry, FollowUp, StartOver, recordVars, bookVars, workerVars, wireVars
  <2>2. QED  BY <2>1, RecordStays
<1>5. ASSUME NEW l \in Leases, AdmitReport(l) \/ ApplyRunComplete(l) PROVE RecordInv'
  <2>1. UNCHANGED recordVars
    BY <1>5 DEF AdmitReport, ApplyRunComplete, recordVars, bookVars, workerVars, wireVars
  <2>2. QED  BY <2>1, RecordStays
<1>6. ASSUME NEW l \in Leases,
             \/ BeginAttempt(l) \/ Checkpoint(l) \/ FinalizePr(l)
             \/ \E o \in Statuses : Conclude(l, o)
      PROVE  RecordInv'
  <2>1. UNCHANGED recordVars
    BY <1>6 DEF BeginAttempt, Checkpoint, FinalizePr, Conclude, recordVars, bookVars,
                wireVars
  <2>2. QED  BY <2>1, RecordStays
<1>7. ASSUME NEW w \in Workers, HandleDisconnect(w) PROVE RecordInv'
  <2>1. UNCHANGED recordVars
    BY <1>7 DEF HandleDisconnect, recordVars, bookVars, workerVars
  <2>2. QED  BY <2>1, RecordStays
<1>8. QED  BY <1>1, <1>2, <1>3, <1>4, <1>5, <1>6, <1>7

\* A lease is issued under an id nothing refers to, and stored at once.
LEMMA IssueKeepsRecord ==
    ASSUME RecordInv, NEW l \in Unused, NEW w, NEW r, Issue(l, w, r),
           UNCHANGED <<running, claimed, sock, toHost, toWorker>>
    PROVE  RecordInv'
<1>1. /\ held' = held \cup {l} /\ claiming' = claiming \cup {l}
      /\ stored' = stored \cup {l} /\ leaseByRun' = [leaseByRun EXCEPT ![r] = l]
    BY DEF Issue
<1>2. l \in Leases /\ l \notin running
    BY DEF Unused
<1>3. ASSUME NEW v \in Workers, NEW i \in DOMAIN toWorker[v]
      PROVE  toWorker[v][i] # Msg("dispatch", l)
  <2>1. toWorker[v][i].lease # l
    BY <1>3 DEF Unused
  <2>2. QED  BY <2>1, HostMessages
<1>4. Unsent(l)
    BY <1>3 DEF Unsent
<1>5. SocketsOK' /\ \A m : Unsent(m) => Unsent(m)'
    BY SocketsStay DEF RecordInv
<1>6. QED  BY <1>1, <1>2, <1>4, <1>5 DEF RecordInv

\* A lease is stored as it is issued, and its id is on no socket.
LEMMA DispatchKeepsRecord == RecordInv /\ DispatchQueued => RecordInv'
<1> SUFFICES ASSUME RecordInv, DispatchQueued PROVE RecordInv'  OBVIOUS
<1>1. UNCHANGED <<running, claimed, sock, toHost, toWorker>>
    BY DEF DispatchQueued, workerVars, wireVars
<1>2. \/ UNCHANGED bookVars
      \/ \E l \in Unused, w \in Placements : Issue(l, w, Head(queue))
    BY DEF DispatchQueued, DispatchHead, DispatchBlocked
<1>3. CASE UNCHANGED bookVars
    BY <1>1, <1>3, RecordStays DEF bookVars, recordVars
<1>4. CASE \E l \in Unused, w \in Placements : Issue(l, w, Head(queue))
    BY <1>1, <1>4, IssueKeepsRecord
<1>5. QED  BY <1>2, <1>3, <1>4

\* A cancel sends no dispatch.
LEMMA CancelKeepsRecord ==
    ASSUME RecordInv, NEW r \in Runs, Cancel(r) PROVE RecordInv'
<1>1. UNCHANGED <<held, claiming, stored, leaseByRun, running, claimed, sock, toHost>>
    BY DEF Cancel, workerVars
<1>2. \/ toWorker' = toWorker
      \/ /\ leaseByRun[r] # None
         /\ Send(WorkerOf(leaseByRun[r]), <<Msg("cancel", leaseByRun[r])>>)
    BY DEF Cancel, CancelHere, CancelOnWorker
<1>3. CASE toWorker' = toWorker
    BY <1>1, <1>3, RecordStays DEF recordVars
<1>4. CASE /\ leaseByRun[r] # None
           /\ Send(WorkerOf(leaseByRun[r]), <<Msg("cancel", leaseByRun[r])>>)
  <2>1. Msg("cancel", leaseByRun[r]) \in HostFrames
    BY <1>4, HostMessages DEF RecordInv
  <2>2. SocketsOK' /\ \A l : Unsent(l) => Unsent(l)'
    BY <1>1, <1>4, <2>1, SendingOne, HostMessages DEF RecordInv
  <2>3. QED  BY <1>1, <2>2 DEF RecordInv
<1>5. QED  BY <1>2, <1>3, <1>4

\* The claim is on disk: only now does its dispatch go out.
LEMMA ClaimLandsKeepsRecord ==
    ASSUME RecordInv, NEW l \in Leases, ClaimLands(l) PROVE RecordInv'
<1>1. /\ UNCHANGED <<held, stored, leaseByRun, running, claimed, sock, toHost>>
      /\ claiming' = claiming \ {l}
      /\ toWorker' = toWorker \/ Send(WorkerOf(l), <<Msg("dispatch", l)>>)
    BY DEF ClaimLands, workerVars
<1>2. SocketsOK' /\ \A m \in claiming' : Unsent(m) => Unsent(m)'
  <2>1. CASE toWorker' = toWorker
    BY <1>1, <2>1, SocketsStay DEF RecordInv
  <2>2. CASE Send(WorkerOf(l), <<Msg("dispatch", l)>>)
    <3>1. Msg("dispatch", l) \in HostFrames
      BY HostMessages
    <3>2. \A m \in claiming' : Msg("dispatch", l) # Msg("dispatch", m)
      BY <1>1, HostMessages
    <3>3. QED  BY <1>1, <2>2, <3>1, <3>2, SendingOne DEF RecordInv
  <2>3. QED  BY <1>1, <2>1, <2>2
<1>3. QED  BY <1>1, <1>2 DEF RecordInv

\* What a settled lease takes with it.
LEMMA SettlingKeepsRecord ==
    ASSUME RecordInv, NEW S, Settle(S), claiming' \subseteq claiming,
           UNCHANGED <<running, claimed, sock, toHost, toWorker>>
    PROVE  RecordInv'
<1>1. /\ held' \subseteq stored' /\ stored' \subseteq stored
      /\ leaseByRun' \in [Runs -> Leases \cup {None}]
    BY Settling
<1>2. SocketsOK' /\ \A l : Unsent(l) => Unsent(l)'
    BY SocketsStay DEF RecordInv
<1>3. QED  BY <1>1, <1>2 DEF RecordInv

\* A claim that failed takes its lease along.
LEMMA ClaimFailsKeepsRecord ==
    ASSUME RecordInv, NEW l \in Leases, ClaimFails(l) PROVE RecordInv'
<1>1. /\ claiming' \subseteq claiming /\ Settle({l})
      /\ UNCHANGED <<running, claimed, sock, toHost, toWorker>>
    BY DEF ClaimFails, workerVars, wireVars
<1>2. QED  BY <1>1, SettlingKeepsRecord

\* A lease that expires leaves the books and the store together.
LEMMA ExpireLeaseKeepsRecord ==
    ASSUME RecordInv, NEW l \in Leases, ExpireLease(l) PROVE RecordInv'
<1>1. /\ claiming' \subseteq claiming /\ Settle({l})
      /\ UNCHANGED <<running, claimed, sock, toHost, toWorker>>
    BY DEF ExpireLease, workerVars, wireVars
<1>2. QED  BY <1>1, SettlingKeepsRecord

\* The host takes a worker's frame off its socket.
LEMMA HandleRejectedKeepsRecord ==
    ASSUME RecordInv, NEW w \in Workers, HandleRejected(w) PROVE RecordInv'
<1>1. /\ UNCHANGED <<claiming, running, claimed, sock, toWorker>> /\ sock[w] = "live"
      /\ toHost[w] # <<>> /\ toHost' = [toHost EXCEPT ![w] = Tail(toHost[w])]
    BY DEF HandleRejected, workerVars
<1>2. /\ held' \subseteq stored' /\ stored' \subseteq stored
      /\ leaseByRun' \in [Runs -> Leases \cup {None}]
  <2>1. \/ Settle({Head(toHost[w]).lease})
        \/ UNCHANGED <<held, leaseByRun, stored>>
    BY DEF HandleRejected
  <2>2. QED  BY <2>1, Settling DEF RecordInv
<1>3. /\ toHost' \in [Workers -> Seq(WorkerFrames)]
      /\ \A v \in Workers : v # w => toHost'[v] = toHost[v]
  <2>1. toHost \in [Workers -> Seq(WorkerFrames)] /\ Tail(toHost[w]) \in Seq(WorkerFrames)
    BY <1>1, TakingTheHead DEF RecordInv, SocketsOK
  <2>2. QED  BY <1>1, <2>1
<1>4. SocketsOK' /\ \A l : Unsent(l) => Unsent(l)'
    BY <1>1, <1>3 DEF RecordInv, SocketsOK, Unsent
<1>5. QED  BY <1>1, <1>2, <1>4 DEF RecordInv

\* A registration is answered with what the host no longer holds and with the
\* recorded cancels; it dispatches nothing.
LEMMA HandleRegisterKeepsRecord ==
    ASSUME RecordInv, NEW w \in Workers, HandleRegister(w) PROVE RecordInv'
<1> DEFINE C     == Head(toHost[w]).leases
           gone  == Unclaimed(w, C)
           lostOnes == SetToSeq({Msg("lease-lost", l) : l \in Disowned(C)})
           replays  == SetToSeq({Msg("cancel", l) : l \in Replayed(HeldBy(w) \ gone)})
<1>1. /\ UNCHANGED <<claiming, running, claimed>> /\ sock[w] = "dialed" /\ Settle(gone)
      /\ toWorker' = [toWorker EXCEPT ![w] = lostOnes \o replays]
      /\ toHost' = [toHost EXCEPT ![w] = Tail(toHost[w])]
      /\ sock' = [sock EXCEPT ![w] = "live"]
    BY DEF HandleRegister, workerVars
<1>2. PICK D \in SUBSET Leases : toHost[w] = <<RegisterMsg(D)>>
    BY <1>1 DEF RecordInv, SocketsOK
<1>3. C = D /\ Tail(toHost[w]) = <<>>
    BY <1>2, WorkerMessages
<1>4. Disowned(C) \in SUBSET Leases /\ Replayed(HeldBy(w) \ gone) \in SUBSET Leases
    BY <1>2, <1>3 DEF Disowned, Replayed, HeldBy, RecordInv
<1> DEFINE A == Disowned(C)
           B == Replayed(HeldBy(w) \ gone)
<1>5. /\ lostOnes \in Seq(HostFrames)
      /\ \A m : \A i \in DOMAIN lostOnes : lostOnes[i] # Msg("dispatch", m)
  <2>1. A \in SUBSET Leases /\ lostOnes = SetToSeq({Msg("lease-lost", l) : l \in A})
    BY <1>4
  <2> HIDE DEF A, lostOnes
  <2>2. QED  BY <2>1, Listed
<1>6. /\ replays \in Seq(HostFrames)
      /\ \A m : \A i \in DOMAIN replays : replays[i] # Msg("dispatch", m)
  <2>1. B \in SUBSET Leases /\ replays = SetToSeq({Msg("cancel", l) : l \in B})
    BY <1>4
  <2> HIDE DEF B, replays
  <2>2. QED  BY <2>1, Listed
<1> HIDE DEF lostOnes, replays
<1>7. /\ lostOnes \o replays \in Seq(HostFrames)
      /\ \A m : \A i \in DOMAIN (lostOnes \o replays) :
                    (lostOnes \o replays)[i] # Msg("dispatch", m)
    BY <1>5, <1>6, Concatenating
<1>8. SocketsOK'
  <2>1. /\ toWorker \in [Workers -> Seq(HostFrames)] /\ toHost \in [Workers -> Seq(WorkerFrames)]
        /\ sock \in [Workers -> {"none", "dialed", "live"}]
    BY DEF RecordInv, SocketsOK
  <2>2. /\ toWorker' \in [Workers -> Seq(HostFrames)]
        /\ sock' \in [Workers -> {"none", "dialed", "live"}] /\ sock'[w] = "live"
        /\ \A v \in Workers : v # w => /\ toWorker'[v] = toWorker[v]
                                       /\ toHost'[v] = toHost[v] /\ sock'[v] = sock[v]
    BY <1>1, <1>7, <2>1
  <2>3. toHost' \in [Workers -> Seq(WorkerFrames)]
    <3>1. toHost[w] \in Seq(WorkerFrames) /\ toHost[w] # <<>>
      BY <2>1 DEF HandleRegister
    <3>2. Tail(toHost[w]) \in Seq(WorkerFrames)
      BY <3>1, TakingTheHead
    <3>3. QED  BY <1>1, <2>1, <3>2
  <2>4. QED  BY <2>2, <2>3 DEF RecordInv, SocketsOK
<1>9. \A l : Unsent(l) => Unsent(l)'
  <2>1. \A v \in Workers : toWorker'[v] = IF v = w THEN lostOnes \o replays ELSE toWorker[v]
    BY <1>1 DEF RecordInv, SocketsOK
  <2>2. QED  BY <1>7, <2>1 DEF Unsent
<1>10. /\ held' \subseteq stored' /\ stored' \subseteq stored
       /\ leaseByRun' \in [Runs -> Leases \cup {None}]
    BY <1>1, Settling
<1>11. QED  BY <1>1, <1>8, <1>9, <1>10 DEF RecordInv

\* A patch has landed: its lease's watermark goes to the store.
LEMMA ApplyPatchKeepsRecord ==
    ASSUME RecordInv, NEW l \in Leases, ApplyPatch(l) PROVE RecordInv'
<1>1. /\ UNCHANGED <<held, leaseByRun, claiming, running, claimed, sock, toHost, toWorker>>
      /\ stored' = stored \cup {l}
    BY DEF ApplyPatch, wireVars
<1>2. SocketsOK' /\ \A m : Unsent(m) => Unsent(m)'
    BY <1>1, SocketsStay DEF RecordInv
<1>3. QED  BY <1>1, <1>2 DEF RecordInv

\* So does a completed one; markApplied only adds to the store.
LEMMA FinishCompletionKeepsRecord ==
    ASSUME RecordInv, NEW l \in Leases, FinishCompletion(l) PROVE RecordInv'
<1>1. /\ UNCHANGED <<claiming, running, claimed, sock, toHost>>
      /\ \/ toWorker' = toWorker
         \/ Send(WorkerOf(l), <<Msg("run-complete-ack", l)>>)
    BY DEF FinishCompletion
<1>2. /\ held' \subseteq stored' /\ stored' \subseteq Leases
      /\ leaseByRun' \in [Runs -> Leases \cup {None}]
  <2>1. CASE l \in held
    <3>1. Settle({l})
      BY <2>1 DEF FinishCompletion
    <3>2. QED  BY <3>1, Settling DEF RecordInv
  <2>2. CASE l \notin held
    <3>1. stored' = stored \cup {l} /\ UNCHANGED <<held, leaseByRun>>
      BY <2>2 DEF FinishCompletion
    <3>2. QED  BY <3>1 DEF RecordInv
  <2>3. QED  BY <2>1, <2>2
<1>3. SocketsOK' /\ \A m : Unsent(m) => Unsent(m)'
  <2>1. CASE toWorker' = toWorker
    BY <1>1, <2>1, SocketsStay DEF RecordInv
  <2>2. CASE Send(WorkerOf(l), <<Msg("run-complete-ack", l)>>)
    <3>1. /\ Msg("run-complete-ack", l) \in HostFrames
          /\ \A m : Msg("run-complete-ack", l) # Msg("dispatch", m)
      BY HostMessages
    <3>2. QED  BY <1>1, <2>2, <3>1, SendingOne DEF RecordInv
  <2>3. QED  BY <1>1, <2>1, <2>2
<1>4. QED  BY <1>1, <1>2, <1>3 DEF RecordInv

\* A dispatch that is read was sent, so its claim is not being written.
LEMMA HandleDispatchKeepsRecord ==
    ASSUME RecordInv, NEW w \in Workers, HandleDispatch(w) PROVE RecordInv'
<1> DEFINE l == Head(toWorker[w]).lease
<1>1. /\ l \in Leases /\ ~Unsent(l) /\ UNCHANGED <<held, stored, leaseByRun, claiming>>
      /\ toHost' = toHost => SocketsOK'
      /\ toHost' = [toHost EXCEPT ![w] = Append(@, Msg("dispatch-rejected", l))] => SocketsOK'
      /\ \A m : Unsent(m) => Unsent(m)'
    BY Receiving DEF HandleDispatch, RecordInv
<1>2. \/ /\ toHost' = [toHost EXCEPT ![w] = Append(@, Msg("dispatch-rejected", l))]
         /\ UNCHANGED <<running, claimed>>
      \/ running' = running \cup {l} /\ claimed' = claimed \cup {l} /\ toHost' = toHost
    BY DEF HandleDispatch, workerVars
<1> HIDE DEF l
<1>3. SocketsOK'
    BY <1>1, <1>2
<1>4. running' \cup claimed' \subseteq Leases /\ running' \subseteq running \cup {l}
    BY <1>1, <1>2 DEF RecordInv
<1>5. QED  BY <1>1, <1>3, <1>4 DEF RecordInv

\* The other frames a worker reads start nothing.
LEMMA OtherFramesKeepRecord ==
    ASSUME RecordInv, NEW w \in Workers,
           HandleCancel(w) \/ HandleLeaseLost(w) \/ HandleRunCompleteAck(w)
    PROVE  RecordInv'
<1>1. PICK type : Receives(w, type)
    BY DEF HandleCancel, HandleLeaseLost, HandleRunCompleteAck
<1>2. toHost' = toHost /\ running' = running /\ claimed' \subseteq claimed
    BY DEF HandleCancel, HandleLeaseLost, HandleRunCompleteAck, Abandon
<1>3. /\ UNCHANGED <<held, stored, leaseByRun, claiming>>
      /\ SocketsOK' /\ \A m : Unsent(m) => Unsent(m)'
    BY <1>1, <1>2, Receiving DEF RecordInv
<1>4. QED  BY <1>2, <1>3 DEF RecordInv

\* An execution or a claim that ends.
LEMMA FewerKeepRecord ==
    ASSUME RecordInv, running' \subseteq running, claimed' \subseteq claimed,
           UNCHANGED <<held, stored, leaseByRun, claiming, sock, toHost, toWorker>>
    PROVE  RecordInv'
<1>1. SocketsOK' /\ \A m : Unsent(m) => Unsent(m)'
  BY SocketsStay DEF RecordInv
<1>2. QED  BY <1>1 DEF RecordInv

\* An execution that ends frees its slot.
LEMMA SendCompleteKeepsRecord ==
    ASSUME RecordInv, NEW l \in Leases, SendComplete(l) PROVE RecordInv'
<1>1. /\ running' \subseteq running /\ claimed' = claimed
      /\ UNCHANGED <<held, stored, leaseByRun, claiming, sock, toHost, toWorker>>
    BY DEF SendComplete, bookVars, wireVars
<1>2. QED  BY <1>1, FewerKeepRecord

\* A worker that fences itself claims less.
LEMMA FenceSelfKeepsRecord ==
    ASSUME RecordInv, NEW l \in Leases, FenceSelf(l) PROVE RecordInv'
<1>1. /\ running' = running /\ claimed' \subseteq claimed
      /\ UNCHANGED <<held, stored, leaseByRun, claiming, sock, toHost, toWorker>>
    BY DEF FenceSelf, Abandon, bookVars, wireVars
<1>2. QED  BY <1>1, FewerKeepRecord

\* A register frame lists leases, and is alone on its socket.
LEMMA DialKeepsRecord ==
    ASSUME RecordInv, NEW w \in Workers, Dial(w) PROVE RecordInv'
<1>1. /\ UNCHANGED <<held, stored, leaseByRun, claiming, running, claimed, toWorker>>
      /\ sock[w] = "none" /\ sock' = [sock EXCEPT ![w] = "dialed"]
      /\ toHost' = [toHost EXCEPT ![w] = <<RegisterMsg(ClaimedBy(w))>>]
    BY DEF Dial, bookVars, workerVars
<1>2. ClaimedBy(w) \in SUBSET Leases
    BY DEF ClaimedBy, RecordInv
<1>3. <<RegisterMsg(ClaimedBy(w))>> \in Seq(WorkerFrames)
    BY <1>2, WorkerMessages
<1>4. /\ sock' \in [Workers -> {"none", "dialed", "live"}]
      /\ toHost' \in [Workers -> Seq(WorkerFrames)]
      /\ \A v \in Workers : v # w => sock'[v] = sock[v] /\ toHost'[v] = toHost[v]
      /\ sock'[w] = "dialed" /\ toHost'[w] = <<RegisterMsg(ClaimedBy(w))>>
    BY <1>1, <1>3 DEF RecordInv, SocketsOK
<1>5. SocketsOK'
    BY <1>1, <1>2, <1>4 DEF RecordInv, SocketsOK
<1>6. \A m : Unsent(m) => Unsent(m)'
    BY <1>1 DEF Unsent
<1>7. QED  BY <1>1, <1>5, <1>6 DEF RecordInv

\* A socket that dies takes everything on it.
LEMMA Cutting ==
    ASSUME RecordInv, NEW w \in Workers, Cut(w), running' \subseteq running,
           claimed' \subseteq claimed, UNCHANGED <<held, stored, leaseByRun, claiming>>
    PROVE  RecordInv'
<1>1. /\ sock \in [Workers -> {"none", "dialed", "live"}]
      /\ toHost \in [Workers -> Seq(WorkerFrames)]
      /\ toWorker \in [Workers -> Seq(HostFrames)]
    BY DEF RecordInv, SocketsOK
<1>2. /\ sock' \in [Workers -> {"none", "dialed", "live"}]
      /\ toHost' \in [Workers -> Seq(WorkerFrames)]
      /\ toWorker' \in [Workers -> Seq(HostFrames)]
      /\ \A v \in Workers : v # w => /\ sock'[v] = sock[v] /\ toHost'[v] = toHost[v]
                                     /\ toWorker'[v] = toWorker[v]
      /\ sock'[w] = "none" /\ toWorker'[w] = <<>>
    BY <1>1 DEF Cut
<1>3. SocketsOK'
    BY <1>2 DEF RecordInv, SocketsOK
<1>4. \A m : Unsent(m) => Unsent(m)'
  <2>1. \A v \in Workers : toWorker'[v] = toWorker[v] \/ toWorker'[v] = <<>>
    BY <1>2
  <2>2. QED  BY <2>1 DEF Unsent
<1>5. QED  BY <1>3, <1>4 DEF RecordInv

\* A socket that dies carries nothing any more.
LEMMA BreakSocketKeepsRecord ==
    ASSUME RecordInv, NEW w \in Workers, BreakSocket(w) PROVE RecordInv'
<1>1. /\ Cut(w) /\ running' = running /\ claimed' = claimed
      /\ UNCHANGED <<held, stored, leaseByRun, claiming>>
    BY DEF BreakSocket, bookVars, workerVars
<1>2. QED  BY <1>1, Cutting

\* Nor does one whose worker restarts, which runs nothing any more.
LEMMA RestartWorkerKeepsRecord ==
    ASSUME RecordInv, NEW w \in Workers, RestartWorker(w) PROVE RecordInv'
<1>1. /\ Cut(w) /\ running' \subseteq running /\ claimed' \subseteq claimed
      /\ UNCHANGED <<held, stored, leaseByRun, claiming>>
    BY DEF RestartWorker, bookVars
<1>2. QED  BY <1>1, Cutting

\* A boot holds what it finds on disk, and no claim is pending.
LEMMA RestartHostKeepsRecord == RecordInv /\ RestartHost => RecordInv'
<1> SUFFICES ASSUME RecordInv, RestartHost PROVE RecordInv'  OBVIOUS
<1>1. /\ UNCHANGED <<running, claimed>> /\ claiming' = {}
      /\ sock' = [w \in Workers |-> "none"]
      /\ toHost' = [w \in Workers |-> <<>>] /\ toWorker' = [w \in Workers |-> <<>>]
    BY DEF RestartHost
<1>2. PICK torn \in SUBSET claiming :
            LET kept == Restored(stored \ torn) IN
            /\ held' = kept /\ stored' = kept
            /\ leaseByRun' \in [Runs -> kept \cup {None}]
    BY DEF RestartHost
<1>3. Restored(stored \ torn) \subseteq Leases
    BY DEF Restored, RecordInv
<1>4. held' = stored' /\ stored' \subseteq Leases /\ leaseByRun' \in [Runs -> Leases \cup {None}]
    BY <1>2, <1>3
<1>5. SocketsOK'
    BY <1>1 DEF SocketsOK
<1>6. QED  BY <1>1, <1>4, <1>5 DEF RecordInv

-----------------------------------------------------------------------------
(* The theorem *)

\* Every step keeps the record invariant.
LEMMA StepsKeepRecord == RecordInv /\ Next => RecordInv'
<1> SUFFICES ASSUME RecordInv, Next PROVE RecordInv'  OBVIOUS
<1>1. CASE DispatchQueued
    BY <1>1, DispatchKeepsRecord
<1>2. CASE Redrive
    BY <1>2, QuietKeepsRecord
<1>3. CASE \E x \in lost : BeginInterrupt(x)
    BY <1>3, QuietKeepsRecord
<1>4. ASSUME NEW r \in Runs, SchedulerStep(r) \/ Command(r) PROVE RecordInv'
  <2>1. CASE SchedulerStep(r) \/ Retry(r) \/ FollowUp(r)
    BY <2>1, QuietKeepsRecord
  <2>2. CASE Cancel(r)
    BY <2>2, CancelKeepsRecord
  <2>3. QED  BY <1>4, <2>1, <2>2 DEF Command
<1>5. ASSUME NEW l \in Leases, HostStep(l) PROVE RecordInv'
  <2>1. CASE ClaimLands(l)  BY <2>1, ClaimLandsKeepsRecord
  <2>2. CASE ExpireLease(l)  BY <2>2, ExpireLeaseKeepsRecord
  <2>3. CASE AdmitReport(l) \/ ApplyRunComplete(l)  BY <2>3, QuietKeepsRecord
  <2>4. CASE ApplyPatch(l)  BY <2>4, ApplyPatchKeepsRecord
  <2>5. CASE FinishCompletion(l)  BY <2>5, FinishCompletionKeepsRecord
  <2>6. QED  BY <1>5, <2>1, <2>2, <2>3, <2>4, <2>5 DEF HostStep
<1>6. ASSUME NEW l \in Leases, Execution(l) PROVE RecordInv'
  <2>1. CASE \/ BeginAttempt(l) \/ Checkpoint(l) \/ FinalizePr(l)
             \/ \E o \in Statuses : Conclude(l, o)
    BY <2>1, QuietKeepsRecord
  <2>2. CASE SendComplete(l)
    BY <2>2, SendCompleteKeepsRecord
  <2>3. QED  BY <1>6, <2>1, <2>2 DEF Execution
<1>7. ASSUME NEW l \in Leases, FenceSelf(l) \/ ClaimFails(l) PROVE RecordInv'
    BY <1>7, FenceSelfKeepsRecord, ClaimFailsKeepsRecord
<1>8. ASSUME NEW w \in Workers, ConnectionStep(w) PROVE RecordInv'
  <2>1. CASE HandleRegister(w)  BY <2>1, HandleRegisterKeepsRecord
  <2>2. CASE HandleRejected(w)  BY <2>2, HandleRejectedKeepsRecord
  <2>3. CASE HandleDisconnect(w)  BY <2>3, QuietKeepsRecord
  <2>4. QED  BY <1>8, <2>1, <2>2, <2>3 DEF ConnectionStep
<1>9. ASSUME NEW w \in Workers, DaemonStep(w) PROVE RecordInv'
  <2>1. CASE Dial(w)  BY <2>1, DialKeepsRecord
  <2>2. CASE HandleDispatch(w)  BY <2>2, HandleDispatchKeepsRecord
  <2>3. CASE HandleCancel(w) \/ HandleLeaseLost(w) \/ HandleRunCompleteAck(w)
    BY <2>3, OtherFramesKeepRecord
  <2>4. QED  BY <1>9, <2>1, <2>2, <2>3 DEF DaemonStep
<1>10. ASSUME NEW w \in Workers, BreakSocket(w) \/ RestartWorker(w) PROVE RecordInv'
    BY <1>10, BreakSocketKeepsRecord, RestartWorkerKeepsRecord
<1>11. CASE RestartHost
    BY <1>11, RestartHostKeepsRecord
<1>12. QED
    BY <1>1, <1>2, <1>3, <1>4, <1>5, <1>6, <1>7, <1>8, <1>9, <1>10, <1>11 DEF Next

\* RecordInv holds in every state.
THEOREM RecordInvariant == Spec => []RecordInv
<1>1. RecordInv /\ UNCHANGED vars => RecordInv'
  <2> SUFFICES ASSUME RecordInv, UNCHANGED vars PROVE RecordInv'  OBVIOUS
  <2>1. UNCHANGED recordVars
    BY DEF vars, bookVars, workerVars, wireVars, recordVars
  <2>2. QED  BY <2>1, RecordStays
<1>2. RecordInv /\ [Next]_vars => RecordInv'
    BY <1>1, StepsKeepRecord
<1>3. QED  BY InitRecord, <1>2, PTL DEF Spec

\* No lease the host holds is executed, or on its way to be, before its claim is
\* on disk: a crash at any moment leaves a record of everything under way
\* (workers.ts dispatch, 780-802).
THEOREM NobodyRunsUnrecorded == Spec => []ExecutionsAreOnRecord
<1>1. RecordInv => ExecutionsAreOnRecord
  <2> SUFFICES ASSUME RecordInv, NEW l \in held, l \in running \/ ~Unsent(l)
               PROVE  l \in stored /\ l \notin claiming
    BY DEF ExecutionsAreOnRecord
  <2>1. l \in stored
    BY DEF RecordInv
  <2>2. QED  BY <2>1 DEF RecordInv
<1>2. QED  BY <1>1, RecordInvariant, PTL

-----------------------------------------------------------------------------
(* What is on its way *)

\* SetToSeq leaves out no member of a finite set.
LEMMA ListingAll ==
    ASSUME NEW S, IsFiniteSet(S)
    PROVE  /\ SetToSeq(S) \in Seq(S)
           /\ \A x \in S : \E i \in DOMAIN SetToSeq(S) : SetToSeq(S)[i] = x
<1> DEFINE n == Cardinality(S)
<1>1. n \in Nat /\ ExistsBijection(1..n, S)
    BY FS_CardinalityType
<1>2. PICK f \in Bijection(1..n, S) : TRUE
    BY <1>1 DEF ExistsBijection
<1>3. f \in [1..n -> S] /\ IsInjective(f)
    BY <1>2 DEF Bijection, Injection
<1>4. SetToSeq(S) \in [1..n -> S] /\ IsInjective(SetToSeq(S))
    BY <1>3 DEF SetToSeq
<1>5. SetToSeq(S) \in Injection(1..n, S)
    BY <1>4 DEF Injection
<1>6. Cardinality(1..n) = n
    BY <1>1, FS_Interval
<1>7. SetToSeq(S) \in Surjection(1..n, S)
    BY <1>5, <1>6, FS_Injection
<1>8. QED  BY <1>1, <1>4, <1>7 DEF Surjection

\* Leases listed as frames: all of them and nothing else.
LEMMA ListedAll ==
    ASSUME NEW t, NEW S \in SUBSET Leases
    PROVE  LET fs == SetToSeq({Msg(t, l) : l \in S}) IN
           /\ fs \in Seq({Msg(t, l) : l \in S})
           /\ \A l \in S : \E i \in DOMAIN fs : fs[i] = Msg(t, l)
<1> DEFINE F == {Msg(t, l) : l \in S}
<1>1. IsFiniteSet(F)
  <2>1. IsFiniteSet(S)
    BY DispatchAssumption, FS_Subset
  <2>2. [l \in S |-> Msg(t, l)] \in Surjection(S, F)
    BY DEF Surjection
  <2>3. QED  BY <2>1, <2>2, FS_Surjection
<1>2. \A l \in S : Msg(t, l) \in F
    OBVIOUS
<1> HIDE DEF F
<1>3. /\ SetToSeq(F) \in Seq(F)
      /\ \A x \in F : \E i \in DOMAIN SetToSeq(F) : SetToSeq(F)[i] = x
    BY <1>1, ListingAll
<1>4. QED  BY <1>2, <1>3 DEF F

\* Unsent, in terms of what sockets carry.
LEMMA UnsentIs == \A l : Unsent(l) <=> \A w \in Workers : ~Carries(w, Msg("dispatch", l))
BY DEF Unsent, Carries

\* What a worker is sent is a frame.
LEMMA CarriedFrames ==
    ASSUME SocketsOK, NEW w \in Workers, NEW m, Carries(w, m)
    PROVE  m \in HostFrames /\ m.lease \in Leases /\ m = Msg(m.type, m.lease) /\ sock[w] = "live"
<1>1. toWorker[w] \in Seq(HostFrames)
    BY DEF SocketsOK
<1>2. m \in HostFrames
    BY <1>1 DEF Carries
<1>3. m.lease \in Leases /\ m = Msg(m.type, m.lease)
    BY <1>2 DEF HostFrames, Msg
<1>4. ASSUME sock[w] # "live" PROVE FALSE
  <2>1. toWorker[w] = <<>>
    BY <1>4 DEF SocketsOK
  <2>2. QED  BY <2>1 DEF Carries
<1>5. QED  BY <1>2, <1>3, <1>4

\* The host sends a worker one frame.
LEMMA AfterSending ==
    ASSUME SocketsOK, NEW w \in Workers, NEW m \in HostFrames, Send(w, <<m>>)
    PROVE  /\ \A v \in Workers : \A n :
                  Carries(v, n)' <=> Carries(v, n) \/ (v = w /\ sock[w] = "live" /\ n = m)
           /\ \A v \in Workers :
                  NoRepeat(v) /\ (v = w /\ m.type = "dispatch" => ~Carries(v, m))
                    => NoRepeat(v)'
<1>1. /\ toWorker \in [Workers -> Seq(HostFrames)]
      /\ toWorker' = [toWorker EXCEPT ![w] = IF sock[w] = "live" THEN toWorker[w] \o <<m>>
                                              ELSE toWorker[w]]
    BY DEF SocketsOK, Send
<1> DEFINE s == toWorker[w]
           t == s \o <<m>>
<1>2. s \in Seq(HostFrames)
    BY <1>1
<1>3. /\ DOMAIN s = 1..Len(s) /\ Len(s) \in Nat /\ DOMAIN t = 1..(Len(s) + 1)
      /\ \A i \in 1..Len(s) : t[i] = s[i]
      /\ t[Len(s) + 1] = m
  <2>1. t = Append(s, m)
    BY <1>2
  <2>2. QED  BY <1>2, <2>1
<1>4. \A v \in Workers : toWorker'[v] = IF v = w /\ sock[w] = "live" THEN t ELSE toWorker[v]
    BY <1>1
<1>5. ASSUME NEW n
      PROVE  (\E i \in DOMAIN t : t[i] = n) <=> (\E i \in DOMAIN s : s[i] = n) \/ n = m
  <2>1. \A i \in 1..(Len(s) + 1) : i \in 1..Len(s) \/ i = Len(s) + 1
    BY <1>3
  <2>2. Len(s) + 1 \in 1..(Len(s) + 1) /\ \A i \in 1..Len(s) : i \in 1..(Len(s) + 1)
    BY <1>3
  <2>3. QED  BY <1>3, <2>1, <2>2
<1>6. ASSUME NEW v \in Workers, NEW n
      PROVE  Carries(v, n)' <=> Carries(v, n) \/ (v = w /\ sock[w] = "live" /\ n = m)
  <2>1. CASE v = w /\ sock[w] = "live"
    BY ZenonT(60), <1>4, <1>5, <2>1 DEF Carries
  <2>2. CASE ~(v = w /\ sock[w] = "live")
    BY <1>4, <2>2 DEF Carries
  <2>3. QED  BY <2>1, <2>2
<1>7. ASSUME NEW v \in Workers, NoRepeat(v), v = w /\ m.type = "dispatch" => ~Carries(v, m)
      PROVE  NoRepeat(v)'
  <2>1. CASE v = w /\ sock[w] = "live"
    <3>1. \A i \in 1..(Len(s) + 1) : i \in 1..Len(s) \/ i = Len(s) + 1
      BY <1>3
    <3>2. \A i, j \in 1..Len(s) : s[i].type = "dispatch" /\ s[i] = s[j] => i = j
      BY <1>3, <1>7, <2>1 DEF NoRepeat
    <3>3. m.type = "dispatch" => \A i \in 1..Len(s) : s[i] # m
      BY <1>3, <1>7, <2>1 DEF Carries
    <3>4. \A i, j \in 1..(Len(s) + 1) : t[i].type = "dispatch" /\ t[i] = t[j] => i = j
      BY <1>3, <3>1, <3>2, <3>3
    <3>5. toWorker'[v] = t
      BY <1>4, <2>1
    <3>6. QED  BY <1>3, <3>4, <3>5 DEF NoRepeat
  <2>2. CASE ~(v = w /\ sock[w] = "live")
    BY <1>4, <1>7, <2>2 DEF NoRepeat
  <2>3. QED  BY <2>1, <2>2
<1>8. QED  BY <1>6, <1>7

\* A worker reads a frame.
LEMMA AfterReceiving ==
    ASSUME SocketsOK, NEW w \in Workers, NEW type, Receives(w, type),
           NEW f, f = Head(toWorker[w])
    PROVE  /\ f \in HostFrames /\ f = Msg(type, f.lease) /\ f.lease \in Leases
           /\ Carries(w, f) /\ sock[w] = "live"
           /\ \A v \in Workers : \A n : /\ Carries(v, n)' => Carries(v, n)
                                        /\ Carries(v, n) => Carries(v, n)' \/ (v = w /\ n = f)
           /\ \A v \in Workers : NoRepeat(v) => NoRepeat(v)'
           /\ NoRepeat(w) /\ type = "dispatch" => ~Carries(w, f)'
<1> DEFINE s == toWorker[w]
<1>1. /\ toWorker \in [Workers -> Seq(HostFrames)] /\ s # <<>>
      /\ toWorker' = [toWorker EXCEPT ![w] = Tail(s)] /\ f.type = type
    BY DEF SocketsOK, Receives
<1>2. /\ s \in Seq(HostFrames) /\ Len(s) \in Nat /\ Len(s) > 0 /\ DOMAIN s = 1..Len(s)
      /\ f = s[1] /\ f \in HostFrames
      /\ DOMAIN Tail(s) = 1..(Len(s) - 1) /\ \A i \in 1..(Len(s) - 1) : Tail(s)[i] = s[i + 1]
    BY <1>1
<1>3. f.lease \in Leases /\ f = Msg(type, f.lease)
    BY <1>1, <1>2 DEF HostFrames, Msg
<1>4. 1 \in DOMAIN s /\ Carries(w, f)
    BY <1>2 DEF Carries
<1>5. sock[w] = "live"
  <2>1. s # <<>>
    BY <1>1
  <2>2. QED  BY <2>1 DEF SocketsOK
<1>6. \A v \in Workers : toWorker'[v] = IF v = w THEN Tail(s) ELSE toWorker[v]
    BY <1>1
<1>7. ASSUME NEW n
      PROVE  /\ (\E i \in DOMAIN Tail(s) : Tail(s)[i] = n) => \E i \in DOMAIN s : s[i] = n
             /\ (\E i \in DOMAIN s : s[i] = n) => (\E i \in DOMAIN Tail(s) : Tail(s)[i] = n) \/ n = f
  <2>1. \A i \in 1..(Len(s) - 1) : i + 1 \in 1..Len(s)
    BY <1>2
  <2>2. \A i \in 1..Len(s) : i = 1 \/ (i - 1 \in 1..(Len(s) - 1) /\ (i - 1) + 1 = i)
    BY <1>2
  <2>3. QED  BY <1>2, <2>1, <2>2
<1>8. ASSUME NEW v \in Workers, NEW n
      PROVE  /\ Carries(v, n)' => Carries(v, n)
             /\ Carries(v, n) => Carries(v, n)' \/ (v = w /\ n = f)
  <2>1. CASE v = w
    <3>1. toWorker'[v] = Tail(s) /\ toWorker[v] = s
      BY <1>6, <2>1
    <3>2. /\ Carries(v, n)' <=> \E i \in DOMAIN Tail(s) : Tail(s)[i] = n
          /\ Carries(v, n) <=> \E i \in DOMAIN s : s[i] = n
      BY <3>1 DEF Carries
    <3>3. QED  BY <1>7, <2>1, <3>2
  <2>2. CASE v # w
    <3>1. toWorker'[v] = toWorker[v]
      BY <1>6, <2>2
    <3>2. QED  BY <2>2, <3>1 DEF Carries
  <2>3. QED  BY <2>1, <2>2
<1>9. ASSUME NEW v \in Workers, NoRepeat(v) PROVE NoRepeat(v)'
  <2>1. CASE v = w
    <3>1. \A i, j \in 1..Len(s) : s[i].type = "dispatch" /\ s[i] = s[j] => i = j
      BY <1>2, <1>9, <2>1 DEF NoRepeat
    <3>2. \A i \in 1..(Len(s) - 1) : i + 1 \in 1..Len(s)
      BY <1>2
    <3>3. \A i, j \in 1..(Len(s) - 1) :
              Tail(s)[i].type = "dispatch" /\ Tail(s)[i] = Tail(s)[j] => i + 1 = j + 1
      BY <1>2, <3>1, <3>2
    <3>4. \A i, j \in 1..(Len(s) - 1) :
              Tail(s)[i].type = "dispatch" /\ Tail(s)[i] = Tail(s)[j] => i = j
      BY <1>2, <3>3
    <3>5. toWorker'[v] = Tail(s)
      BY <1>6, <2>1
    <3> HIDE DEF s
    <3>6. QED  BY <1>2, <3>4, <3>5 DEF NoRepeat
  <2>2. CASE v # w
    <3>1. toWorker'[v] = toWorker[v]
      BY <1>6, <2>2
    <3>2. QED  BY <1>9, <3>1 DEF NoRepeat
  <2>3. QED  BY <2>1, <2>2
<1>10. ASSUME NoRepeat(w), type = "dispatch", NEW i \in DOMAIN Tail(s), Tail(s)[i] = f
       PROVE  FALSE
  <2>1. i \in 1..(Len(s) - 1) /\ s[i + 1] = f
    BY <1>2, <1>10
  <2>2. i + 1 \in DOMAIN s /\ i + 1 # 1
    BY <1>2, <2>1
  <2>3. QED  BY <1>1, <1>2, <1>4, <1>10, <2>1, <2>2 DEF NoRepeat
<1>11. NoRepeat(w) /\ type = "dispatch" => ~Carries(w, f)'
    BY <1>6, <1>10 DEF Carries
<1>12. QED  BY <1>2, <1>3, <1>4, <1>5, <1>8, <1>9, <1>11

\* A socket that dies carries nothing, the others what they carried.
LEMMA AfterCutting ==
    ASSUME SocketsOK, NEW w \in Workers, Cut(w)
    PROVE  /\ \A v \in Workers : \A n : Carries(v, n)' <=> Carries(v, n) /\ v # w
           /\ \A v \in Workers : NoRepeat(v) => NoRepeat(v)'
           /\ \A l : Refused(l)' => Refused(l)
<1>1. /\ \A v \in Workers : toWorker'[v] = IF v = w THEN <<>> ELSE toWorker[v]
      /\ \A v \in Workers : toHost'[v] = IF v = w THEN <<>> ELSE toHost[v]
    BY DEF SocketsOK, Cut
<1>2. QED  BY <1>1 DEF Carries, NoRepeat, Refused

-----------------------------------------------------------------------------
(* The scheduler's types *)

\* A lease that anything names was issued, for a run and to a worker.
LEMMA Granted ==
    ASSUME BooksOK, NEW l \in held \cup claiming \cup stored \cup running \cup claimed
                                   \cup finishing
    PROVE  /\ l \in Leases /\ grant[l] \in Grants /\ grant[l] # None
           /\ RunOf(l) \in Runs /\ WorkerOf(l) \in Workers
           /\ grant[l].kind \in Kinds /\ grant[l].pr \in BOOLEAN
<1>1. l \in Leases /\ grant[l] # None /\ grant[l] \in Grants
    BY DEF BooksOK
<1>2. QED  BY <1>1 DEF Grants, RunOf, WorkerOf

\* What waits in a lease's buffer is a report on it.
LEMMA HeadReport ==
    ASSUME BuffersOK, NEW l \in Leases, reports[l] # <<>>
    PROVE  /\ Head(reports[l]) \in Reports /\ Head(reports[l]) = reports[l][1]
           /\ 1 \in DOMAIN reports[l] /\ Len(reports[l]) \in Nat /\ Len(reports[l]) > 0
           /\ Tail(reports[l]) \in Seq(Reports) /\ Len(Tail(reports[l])) = Len(reports[l]) - 1
           /\ Head(reports[l]).status \in Statuses
<1>1. reports[l] \in Seq(Reports)
    BY DEF BuffersOK
<1>2. /\ Head(reports[l]) \in Reports /\ Head(reports[l]) = reports[l][1]
      /\ 1 \in DOMAIN reports[l] /\ Len(reports[l]) \in Nat /\ Len(reports[l]) > 0
      /\ Tail(reports[l]) \in Seq(Reports) /\ Len(Tail(reports[l])) = Len(reports[l]) - 1
    BY <1>1
<1>3. QED  BY <1>2 DEF Reports, Statuses

\* A lease with admitted reports has reports.
LEMMA AdmittedAre ==
    ASSUME BooksOK, BuffersOK, NEW l \in Leases, admitted[l] > 0
    PROVE  reports[l] # <<>> /\ grant[l] # None /\ RunOf(l) \in Runs
<1>1. reports \in [Leases -> Seq(Reports)] /\ admitted \in [Leases -> Nat]
    BY DEF BuffersOK
<1>2. admitted[l] <= Len(reports[l])
    BY DEF BuffersOK
<1>3. reports[l] # <<>>
    BY <1>1, <1>2
<1>4. grant[l] # None /\ grant[l] \in Grants \cup {None}
    BY <1>3 DEF BooksOK, BuffersOK
<1>5. QED  BY <1>3, <1>4 DEF Grants, RunOf

schedulerVars == <<status, result, queue, driving, followUps, resumeTimers, busy, lost, pr,
                   prNew, sawPr>>

\* A step that leaves the scheduler's variables alone leaves their types.
LEMMA SchedulerStays == SchedulerOK /\ UNCHANGED schedulerVars => SchedulerOK'
BY DEF SchedulerOK, schedulerVars

\* The end of the queue, its start, and what is left of it.
LEMMA Queueing ==
    ASSUME queue \in Seq(Runs), NEW r \in Runs
    PROVE  /\ Append(queue, r) \in Seq(Runs) /\ <<r>> \o queue \in Seq(Runs)
           /\ queue # <<>> => Tail(queue) \in Seq(Runs) /\ Head(queue) \in Runs
           /\ Contains(queue, r) => Dequeued(r) \in Seq(Runs)
<1>1. Append(queue, r) \in Seq(Runs) /\ (queue # <<>> => Tail(queue) \in Seq(Runs) /\ Head(queue) \in Runs)
    OBVIOUS
<1>2. <<r>> \in Seq(Runs)
    OBVIOUS
<1>3. <<r>> \o queue \in Seq(Runs)
    BY <1>2
<1>4. ASSUME Contains(queue, r) PROVE Dequeued(r) \in Seq(Runs)
  <2> DEFINE k == CHOOSE i \in DOMAIN queue : queue[i] = r
  <2>1. k \in DOMAIN queue
    BY <1>4 DEF Contains
  <2> HIDE DEF k
  <2>2. k \in 1..Len(queue) /\ Len(queue) \in Nat
    BY <2>1
  <2>3. RemoveAt(queue, k) \in Seq(Runs)
    <3>1. SubSeq(queue, 1, k - 1) \in Seq(Runs)
      BY <2>2
    <3>2. SubSeq(queue, k + 1, Len(queue)) \in Seq(Runs)
      BY <2>2
    <3>3. QED  BY <3>1, <3>2 DEF RemoveAt
  <2>4. QED  BY <2>3 DEF Dequeued, k
<1>5. QED  BY <1>1, <1>3, <1>4

\* What the scheduler and its commands do by themselves.
LEMMA SchedulingKeepsScheduler ==
    ASSUME SchedulerOK,
           \/ Redrive
           \/ \E x \in lost : BeginInterrupt(x)
           \/ \E r \in Runs : SchedulerStep(r) \/ Retry(r) \/ FollowUp(r)
    PROVE  SchedulerOK'
<1>1. CASE Redrive
    BY <1>1 DEF Redrive, SchedulerOK, storeVars, forgeVars
<1>2. ASSUME NEW x \in lost, BeginInterrupt(x) PROVE SchedulerOK'
  <2>1. /\ x.run \in Runs /\ x.by \in Leases \cup {None}
        /\ UNCHANGED <<status, result, queue, resumeTimers, driving, pr, prNew, sawPr>>
        /\ lost' \subseteq lost
    BY <1>2 DEF SchedulerOK, BeginInterrupt, storeVars, forgeVars
  <2>2. \/ UNCHANGED <<followUps, busy>>
        \/ /\ followUps' \subseteq followUps \cup {x.run}
           /\ \E op \in {"adopting", "returning"} :
                  busy' = [busy EXCEPT ![x.run] = Busy(op, x.by)]
    BY <1>2 DEF BeginInterrupt
  <2>3. \A op \in {"adopting", "returning"} :
            Busy(op, x.by) \in [op : {"free", "adopting", "returning", "requeueing", "checking"},
                                by : Leases \cup {None}]
    BY <2>1 DEF Busy
  <2>4. QED  BY <2>1, <2>2, <2>3 DEF SchedulerOK
<1>3. ASSUME NEW r \in Runs, SchedulerStep(r) \/ Retry(r) \/ FollowUp(r) PROVE SchedulerOK'
  <2>1. /\ busy[r].by \in Leases \cup {None}
        /\ \A op \in {"free", "adopting", "returning", "requeueing", "checking"} :
            \A by \in Leases \cup {None} :
              Busy(op, by) \in [op : {"free", "adopting", "returning", "requeueing", "checking"},
                                by : Leases \cup {None}]
        /\ Free = Busy("free", None)
    BY DEF SchedulerOK, Busy, Free
  <2>2. /\ {"new", "queued", "active", "waiting", "completed", "failed", "cancelled"} = Statuses
        /\ Append(queue, r) \in Seq(Runs)
    BY Queueing DEF Statuses, Terminal, SchedulerOK
  <2>3. UNCHANGED <<lost, pr, prNew, sawPr>>
    BY <1>3 DEF SchedulerStep, Enqueue, Adopt, Requeue, JoinQueue, FollowUpGranted,
                FollowUpRefused, Resume, Retry, FollowUp, StartOver, forgeVars
  <2>4. status' = status \/ \E s \in {"queued", "completed"} : status' = [status EXCEPT ![r] = s]
    BY <1>3 DEF SchedulerStep, Enqueue, Adopt, Requeue, JoinQueue, FollowUpGranted,
                FollowUpRefused, Resume, Retry, FollowUp, StartOver, storeVars
  <2>5. result' = result \/ \E b \in BOOLEAN : result' = [result EXCEPT ![r] = b]
    BY <1>3 DEF SchedulerStep, Enqueue, Adopt, Requeue, JoinQueue, FollowUpGranted,
                FollowUpRefused, Resume, Retry, FollowUp, StartOver, storeVars
  <2>6. queue' = queue \/ queue' = Append(queue, r)
    BY <1>3 DEF SchedulerStep, Enqueue, Adopt, Requeue, JoinQueue, FollowUpGranted,
                FollowUpRefused, Resume, Retry, FollowUp, StartOver
  <2>7. driving' \in BOOLEAN
    BY <1>3 DEF SchedulerStep, Enqueue, Adopt, Requeue, JoinQueue, FollowUpGranted,
                FollowUpRefused, Resume, Retry, FollowUp, StartOver, Drive, SchedulerOK
  <2>8. followUps' \subseteq followUps \cup {r} /\ resumeTimers' \subseteq resumeTimers
    BY <1>3 DEF SchedulerStep, Enqueue, Adopt, Requeue, JoinQueue, FollowUpGranted,
                FollowUpRefused, Resume, Retry, FollowUp, StartOver
  <2>9. \/ busy' = busy
        \/ \E op \in {"free", "returning", "requeueing", "checking"}, by \in {busy[r].by, None} :
              busy' = [busy EXCEPT ![r] = Busy(op, by)]
    BY <1>3, <2>1 DEF SchedulerStep, Enqueue, Adopt, Requeue, JoinQueue, FollowUpGranted,
                FollowUpRefused, Resume, Retry, FollowUp, StartOver
  <2>10. status' \in [Runs -> Statuses] /\ queue' \in Seq(Runs)
    BY <2>2, <2>4, <2>6 DEF SchedulerOK
  <2>11. result' \in [Runs -> BOOLEAN]
    BY <2>5 DEF SchedulerOK
  <2>12. busy' \in [Runs -> [op : {"free", "adopting", "returning", "requeueing", "checking"},
                             by : Leases \cup {None}]]
    BY <2>1, <2>9 DEF SchedulerOK
  <2>13. QED  BY <2>3, <2>7, <2>8, <2>10, <2>11, <2>12 DEF SchedulerOK
<1>4. QED  BY <1>1, <1>2, <1>3


\* What ends a lease tells the scheduler.
LEMMA InterruptionsAre ==
    ASSUME BooksOK, NEW S \in SUBSET held
    PROVE  Interruptions(S) \subseteq [run : Runs, kind : Kinds, by : Leases \cup {None}]
<1>1. ASSUME NEW l \in S
      PROVE  [run |-> RunOf(l), kind |-> grant[l].kind, by |-> l]
                \in [run : Runs, kind : Kinds, by : Leases \cup {None}]
    BY Granted
<1>2. QED  BY <1>1 DEF Interruptions

\* A lease refused, or never recorded, gives its run back.
LEMMA RejectedKeepsScheduler ==
    ASSUME SchedulerOK, BooksOK, NEW l \in claiming \cup held, Rejected(l),
           UNCHANGED <<status, result, resumeTimers, busy, lost, driving, pr, prNew, sawPr>>
    PROVE  SchedulerOK'
<1>1. RunOf(l) \in Runs /\ <<RunOf(l)>> \o queue \in Seq(Runs)
    BY Granted, Queueing DEF SchedulerOK
<1>2. queue' \in Seq(Runs) /\ followUps' \subseteq Runs
    BY <1>1 DEF Rejected, SchedulerOK
<1>3. QED  BY <1>2 DEF SchedulerOK

\* A turn of the dispatch loop takes the head of the queue, or stops.
LEMMA DispatchKeepsScheduler == SchedulerOK /\ BooksOK /\ DispatchQueued => SchedulerOK'
<1> SUFFICES ASSUME SchedulerOK, BooksOK, DispatchQueued PROVE SchedulerOK'  OBVIOUS
<1>1. /\ UNCHANGED <<status, result, resumeTimers, busy, lost, pr, prNew>>
      /\ driving' \in BOOLEAN
      /\ queue' = queue \/ (queue # <<>> /\ queue' = Tail(queue))
      /\ followUps' \subseteq followUps
    BY DEF DispatchQueued, DispatchHead, DispatchBlocked, Drive, storeVars
<1>2. sawPr' \subseteq Leases
  <2>1. sawPr' = sawPr \/ \E l \in Unused, w \in Placements : \E r : Issue(l, w, r)
    BY DEF DispatchQueued, DispatchHead, DispatchBlocked
  <2>2. ASSUME NEW l \in Unused, NEW w \in Placements, NEW r, Issue(l, w, r)
        PROVE  sawPr' \subseteq sawPr \cup {l}
    BY <2>2 DEF Issue
  <2>3. QED  BY <2>1, <2>2 DEF SchedulerOK, Unused
<1>3. queue' \in Seq(Runs) /\ followUps' \subseteq Runs
  <2>1. queue \in Seq(Runs) /\ followUps \subseteq Runs
    BY DEF SchedulerOK
  <2>2. queue # <<>> => Tail(queue) \in Seq(Runs)
    BY <2>1
  <2>3. QED  BY <1>1, <2>1, <2>2
<1>4. UNCHANGED <<status, result, resumeTimers, busy, lost, pr, prNew>> /\ driving' \in BOOLEAN
    BY <1>1
<1>5. QED  BY <1>2, <1>3, <1>4 DEF SchedulerOK

\* A cancel takes a run out of the queue or ends it.
LEMMA CancelKeepsScheduler ==
    ASSUME SchedulerOK, NEW r \in Runs, Cancel(r) PROVE SchedulerOK'
<1>1. /\ UNCHANGED <<result, busy, lost, driving, pr, prNew, sawPr>>
      /\ status' = status \/ status' = [status EXCEPT ![r] = "cancelled"]
      /\ followUps' \subseteq followUps /\ resumeTimers' \subseteq resumeTimers
      /\ queue' = queue \/ (Contains(queue, r) /\ queue' = Dequeued(r))
  <2>1. UNCHANGED <<result, busy, lost, driving, pr, prNew, sawPr>>
    BY DEF Cancel, forgeVars
  <2>2. CASE CancelHere(r)
    BY <2>1, <2>2 DEF CancelHere
  <2>3. CASE CancelOnWorker(r)
    BY <2>1, <2>3 DEF CancelOnWorker
  <2>4. QED  BY <2>2, <2>3 DEF Cancel
<1>2. queue' \in Seq(Runs)
    BY <1>1, Queueing DEF SchedulerOK
<1>3. status' \in [Runs -> Statuses]
  <2>1. "cancelled" \in Statuses
    BY DEF Statuses, Terminal
  <2>2. QED  BY <1>1, <2>1 DEF SchedulerOK
<1>4. QED  BY <1>1, <1>2, <1>3 DEF SchedulerOK

\* A report carries a status, and its lease names a run.
LEMMA ReportsKeepScheduler ==
    ASSUME SchedulerOK, BooksOK, BuffersOK, NEW l \in Leases,
           ApplyPatch(l) \/ ApplyRunComplete(l)
    PROVE  SchedulerOK'
<1> DEFINE r == RunOf(l)
           s == Head(reports[l]).status
<1>1. r \in Runs /\ s \in Statuses /\ grant[l].kind \in Kinds /\ grant[l].pr \in BOOLEAN
  <2>1. admitted[l] > 0
    BY DEF ApplyPatch, ApplyRunComplete
  <2>2. reports[l] # <<>> /\ grant[l] # None /\ r \in Runs
    BY <2>1, AdmittedAre
  <2>3. s \in Statuses
    BY <2>2, HeadReport
  <2>4. grant[l] \in Grants
    BY <2>2 DEF BooksOK
  <2>5. QED  BY <2>2, <2>3, <2>4 DEF Grants
<1>2. /\ UNCHANGED <<queue, driving, followUps, resumeTimers, busy, lost, pr, sawPr>>
      /\ status' = [status EXCEPT ![r] = s]
    BY DEF ApplyPatch, ApplyRunComplete, schedVars, forgeVars
<1>3. status' \in [Runs -> Statuses]
    BY <1>1, <1>2 DEF SchedulerOK
<1>4. result' \in [Runs -> BOOLEAN]
  <2>1. CASE ApplyPatch(l)
    <3> DEFINE b == IF s = "active" /\ grant[l].kind = "implementation" THEN FALSE
                    ELSE result[r] \/ s = "completed"
    <3>1. result' = [result EXCEPT ![r] = b]
      BY <2>1 DEF ApplyPatch
    <3>2. b \in BOOLEAN
      BY <1>1 DEF SchedulerOK
    <3> HIDE DEF b
    <3>3. QED  BY <3>1, <3>2 DEF SchedulerOK
  <2>2. CASE ApplyRunComplete(l)
    <3> DEFINE b == s = "completed" \/ (grant[l].kind = "follow-up" /\ grant[l].pr)
    <3>1. result' = [result EXCEPT ![r] = b]
      BY <2>2 DEF ApplyRunComplete
    <3>2. b \in BOOLEAN
      BY <1>1
    <3> HIDE DEF b
    <3>3. QED  BY <3>1, <3>2 DEF SchedulerOK
  <2>3. QED  BY <2>1, <2>2
<1>5. prNew' \in [Runs -> BOOLEAN]
  <2>1. CASE ApplyPatch(l)
    <3> DEFINE b == IF s = "active" THEN pr[r] # "none" /\ l \notin sawPr ELSE prNew[r]
    <3>1. prNew' = [prNew EXCEPT ![r] = b]
      BY <2>1 DEF ApplyPatch
    <3>2. b \in BOOLEAN
      BY <1>1 DEF SchedulerOK
    <3> HIDE DEF b
    <3>3. QED  BY <3>1, <3>2 DEF SchedulerOK
  <2>2. CASE ApplyRunComplete(l)
    BY <2>2 DEF ApplyRunComplete, forgeVars, SchedulerOK
  <2>3. QED  BY <2>1, <2>2
<1> HIDE DEF r, s
<1>6. QED  BY <1>2, <1>3, <1>4, <1>5 DEF SchedulerOK

\* A lease that ends hands its run back, or leaves an interruption.
LEMMA RegistryKeepsScheduler ==
    ASSUME SchedulerOK, BooksOK, NEW l \in Leases,
           ClaimFails(l) \/ ExpireLease(l) \/ FinishCompletion(l)
    PROVE  SchedulerOK'
<1>1. CASE ClaimFails(l)
    BY <1>1, RejectedKeepsScheduler DEF ClaimFails, storeVars, forgeVars
<1>2. CASE ExpireLease(l)
  <2>1. l \in held /\ lost' = lost \cup Interruptions({l})
    BY <1>2 DEF ExpireLease
  <2>2. lost' \subseteq [run : Runs, kind : Kinds, by : Leases \cup {None}]
    BY <2>1, InterruptionsAre DEF SchedulerOK
  <2>3. UNCHANGED <<status, result, queue, driving, followUps, resumeTimers, busy, pr, prNew, sawPr>>
    BY <1>2 DEF ExpireLease, storeVars, forgeVars
  <2>4. QED  BY <2>2, <2>3 DEF SchedulerOK
<1>3. CASE FinishCompletion(l)
  <2>1. l \in finishing
    BY <1>3 DEF FinishCompletion
  <2>2. RunOf(l) \in Runs
    BY <2>1, Granted
  <2>3. /\ UNCHANGED <<status, result, queue, followUps, busy, lost, pr, prNew, sawPr>>
        /\ driving' \in BOOLEAN /\ resumeTimers' \subseteq resumeTimers \cup {RunOf(l)}
    BY <1>3 DEF FinishCompletion, storeVars, forgeVars, Drive
  <2>4. QED  BY <2>2, <2>3 DEF SchedulerOK
<1>4. QED  BY <1>1, <1>2, <1>3

\* So do a registration, a refusal and a lost connection.
LEMMA ConnectionsKeepScheduler ==
    ASSUME SchedulerOK, BooksOK, NEW w \in Workers, ConnectionStep(w) PROVE SchedulerOK'
<1>1. CASE HandleRegister(w)
  <2> DEFINE gone == Unclaimed(w, Head(toHost[w]).leases)
  <2>1. gone \in SUBSET held
    BY DEF Unclaimed, HeldBy
  <2>2. /\ UNCHANGED <<status, result, queue, followUps, resumeTimers, busy, pr, prNew, sawPr>>
        /\ driving' \in BOOLEAN /\ lost' = lost \cup Interruptions(gone)
    BY <1>1 DEF HandleRegister, storeVars, forgeVars, Drive
  <2>3. Interruptions(gone) \subseteq [run : Runs, kind : Kinds, by : Leases \cup {None}]
    BY <2>1, InterruptionsAre
  <2> HIDE DEF gone
  <2>4. QED  BY <2>2, <2>3 DEF SchedulerOK
<1>2. CASE HandleRejected(w)
  <2>1. UNCHANGED <<status, result, driving, resumeTimers, busy, lost, pr, prNew, sawPr>>
    BY <1>2 DEF HandleRejected, storeVars, forgeVars
  <2>2. UNCHANGED <<queue, followUps>> \/ \E l \in HeldBy(w) : Rejected(l)
    BY <1>2 DEF HandleRejected
  <2>3. CASE UNCHANGED <<queue, followUps>>
    BY <2>1, <2>3 DEF SchedulerOK
  <2>4. ASSUME NEW l \in HeldBy(w), Rejected(l) PROVE SchedulerOK'
    BY <2>1, <2>4, RejectedKeepsScheduler DEF HeldBy
  <2>5. QED  BY <2>2, <2>3, <2>4
<1>3. CASE HandleDisconnect(w)
    BY <1>3 DEF HandleDisconnect, SchedulerOK, storeVars, forgeVars, Drive
<1>4. QED  BY <1>1, <1>2, <1>3 DEF ConnectionStep

\* An execution opens pull requests; the host hears of it by its reports.
LEMMA ExecutionsKeepScheduler ==
    ASSUME SchedulerOK, BooksOK, NEW l \in Leases, Execution(l) PROVE SchedulerOK'
<1>1. CASE BeginAttempt(l)
  <2>1. /\ UNCHANGED <<status, result, queue, driving, followUps, resumeTimers, busy, lost, pr, prNew>>
        /\ sawPr' \subseteq sawPr \cup {l}
    BY <1>1 DEF BeginAttempt, storeVars, schedVars
  <2>2. QED  BY <2>1 DEF SchedulerOK
<1>2. CASE Checkpoint(l) \/ FinalizePr(l)
  <2>1. /\ UNCHANGED <<status, result, queue, driving, followUps, resumeTimers, busy, lost, sawPr>>
        /\ OpensPr(l, "draft") \/ OpensPr(l, "ready")
        /\ l \in running
    BY <1>2 DEF Checkpoint, FinalizePr, storeVars, schedVars, Executing
  <2>2. RunOf(l) \in Runs
    BY <2>1, Granted
  <2>3. pr' \in [Runs -> {"none", "draft", "ready"}]
    BY <2>1, <2>2 DEF OpensPr, SchedulerOK
  <2>4. prNew' \in [Runs -> BOOLEAN]
    <3> DEFINE b == prNew[RunOf(l)] \/ pr[RunOf(l)] = "none"
    <3>1. prNew' = [prNew EXCEPT ![RunOf(l)] = b]
      BY <2>1 DEF OpensPr
    <3>2. b \in BOOLEAN
      BY <2>2 DEF SchedulerOK
    <3> HIDE DEF b
    <3>3. QED  BY <3>1, <3>2 DEF SchedulerOK
  <2>5. QED  BY <2>1, <2>3, <2>4 DEF SchedulerOK
<1>3. CASE (\E o \in Statuses : Conclude(l, o)) \/ SendComplete(l)
  <2>1. UNCHANGED schedulerVars
    BY <1>3 DEF Conclude, SendComplete, storeVars, schedVars, forgeVars, schedulerVars
  <2>2. QED  BY <2>1, SchedulerStays
<1>4. QED  BY <1>1, <1>2, <1>3 DEF Execution


\* A boot builds the queue and the interruptions from the runs' records.
LEMMA BootKeepsScheduler == SchedulerOK /\ BooksOK /\ RestartHost => SchedulerOK'
<1> SUFFICES ASSUME SchedulerOK, BooksOK, RestartHost PROVE SchedulerOK'  OBVIOUS
<1>1. PICK torn \in SUBSET claiming :
        LET kept == Restored(stored \ torn)
            open == {r \in Runs : status[r] \notin Terminal \cup {"new", "waiting"}}
            free == Unleased(open, kept)
        IN
        /\ followUps' = {RunOf(l) : l \in {m \in kept : /\ RunOf(m) \in open
                                                        /\ grant[m].kind = "follow-up"}}
        /\ queue' \in SetToSeqs({r \in free : status[r] = "queued"})
        /\ lost' = {[run |-> r, kind |-> "implementation", by |-> None] :
                        r \in {q \in free : status[q] # "queued"}}
    BY DEF RestartHost
<1> DEFINE kept == Restored(stored \ torn)
           open == {r \in Runs : status[r] \notin Terminal \cup {"new", "waiting"}}
           free == Unleased(open, kept)
           Q    == {r \in free : status[r] = "queued"}
<1>2. free \subseteq Runs
    BY DEF Unleased
<1>3. followUps' \subseteq Runs
    BY <1>1
<1>4. lost' \subseteq [run : Runs, kind : Kinds, by : Leases \cup {None}]
  <2>1. "implementation" \in Kinds
    BY DEF Kinds
  <2> HIDE DEF free
  <2>2. lost' = {[run |-> r, kind |-> "implementation", by |-> None] :
                    r \in {q \in free : status[q] # "queued"}}
    BY <1>1 DEF free
  <2>3. QED  BY <1>2, <2>1, <2>2
<1>5. queue' \in Seq(Runs)
  <2>1. Q \subseteq Runs /\ queue' \in SetToSeqs(Q)
    BY <1>1, <1>2
  <2> HIDE DEF Q
  <2>2. queue' \in [1..Cardinality(Q) -> Q]
    BY <2>1 DEF SetToSeqs
  <2>3. IsFiniteSet(Q)
    BY <2>1, DispatchAssumption, FS_Subset
  <2>4. Cardinality(Q) \in Nat
    BY <2>3, FS_CardinalityType
  <2>5. queue' \in [1..Cardinality(Q) -> Runs]
    BY <2>1, <2>2
  <2>6. QED  BY <2>4, <2>5
<1>6. /\ UNCHANGED <<status, result, pr, prNew, sawPr>> /\ driving' \in BOOLEAN
      /\ resumeTimers' \subseteq Runs /\ busy' = [r \in Runs |-> Free]
    BY DEF RestartHost, storeVars, forgeVars, Drive
<1>7. Free \in [op : {"free", "adopting", "returning", "requeueing", "checking"},
               by : Leases \cup {None}]
    BY DEF Free
<1>8. QED  BY <1>3, <1>4, <1>5, <1>6, <1>7 DEF SchedulerOK

\* No step takes the scheduler out of its types.
LEMMA StepsKeepScheduler == SchedulerOK /\ BooksOK /\ BuffersOK /\ Next => SchedulerOK'
<1> SUFFICES ASSUME SchedulerOK, BooksOK, BuffersOK, Next PROVE SchedulerOK'  OBVIOUS
<1>1. CASE DispatchQueued  BY <1>1, DispatchKeepsScheduler
<1>2. CASE Redrive \/ \E x \in lost : BeginInterrupt(x)
    BY <1>2, SchedulingKeepsScheduler
<1>3. ASSUME NEW r \in Runs, SchedulerStep(r) \/ Command(r) PROVE SchedulerOK'
    BY <1>3, SchedulingKeepsScheduler, CancelKeepsScheduler DEF Command
<1>4. ASSUME NEW l \in Leases, HostStep(l) \/ ClaimFails(l) PROVE SchedulerOK'
  <2>1. CASE ClaimLands(l) \/ AdmitReport(l)
    <3>1. UNCHANGED schedulerVars
      BY <2>1 DEF ClaimLands, AdmitReport, storeVars, schedVars, forgeVars, schedulerVars
    <3>2. QED  BY <3>1, SchedulerStays
  <2>2. CASE ApplyPatch(l) \/ ApplyRunComplete(l)
    BY <2>2, ReportsKeepScheduler
  <2>3. CASE ClaimFails(l) \/ ExpireLease(l) \/ FinishCompletion(l)
    BY <2>3, RegistryKeepsScheduler
  <2>4. QED  BY <1>4, <2>1, <2>2, <2>3 DEF HostStep
<1>5. ASSUME NEW l \in Leases, Execution(l) PROVE SchedulerOK'
    BY <1>5, ExecutionsKeepScheduler
<1>6. ASSUME NEW l \in Leases, FenceSelf(l) PROVE SchedulerOK'
  <2>1. UNCHANGED schedulerVars
    BY <1>6 DEF FenceSelf, storeVars, schedVars, forgeVars, schedulerVars
  <2>2. QED  BY <2>1, SchedulerStays
<1>7. ASSUME NEW w \in Workers, ConnectionStep(w) PROVE SchedulerOK'
    BY <1>7, ConnectionsKeepScheduler
<1>8. ASSUME NEW w \in Workers, DaemonStep(w) \/ BreakSocket(w) \/ RestartWorker(w)
      PROVE  SchedulerOK'
  <2>1. UNCHANGED schedulerVars
    BY <1>8 DEF DaemonStep, Dial, HandleDispatch, HandleCancel, HandleLeaseLost,
                HandleRunCompleteAck, Receives, BreakSocket, RestartWorker, storeVars,
                schedVars, forgeVars, schedulerVars
  <2>2. QED  BY <2>1, SchedulerStays
<1>9. CASE RestartHost  BY <1>9, BootKeepsScheduler
<1>10. QED
    BY <1>1, <1>2, <1>3, <1>4, <1>5, <1>6, <1>7, <1>8, <1>9 DEF Next

-----------------------------------------------------------------------------
(* The books *)

booksVars == <<grant, held, leaseByRun, cancelIntents, claiming, stored, finishing, running,
               aborted, claimed>>

\* A step that leaves the books alone leaves them in order.
LEMMA BooksStay == BooksOK /\ UNCHANGED booksVars => BooksOK'
BY DEF BooksOK, RunOf, booksVars

\* The host's leases stay, and what else names a lease names one that was issued.
LEMMA BooksHold ==
    ASSUME BooksOK, UNCHANGED <<grant, held, leaseByRun, cancelIntents>>,
           claiming' \cup stored' \cup running' \cup claimed' \cup finishing'
                \subseteq {l \in Leases : grant[l] # None},
           aborted' \subseteq running'
    PROVE  BooksOK'
BY DEF BooksOK, RunOf

\* Leases are settled.
LEMMA BooksSettle ==
    ASSUME BooksOK, NEW S, Settle(S), UNCHANGED <<grant, running, aborted, claimed>>,
           claiming' \subseteq claiming, finishing' \subseteq finishing
    PROVE  BooksOK'
<1>1. /\ held' = held \ S /\ cancelIntents' = cancelIntents \ S /\ stored' \subseteq stored
      /\ leaseByRun' = [r \in Runs |-> IF leaseByRun[r] \in S \cap held THEN None
                                       ELSE leaseByRun[r]]
    BY DEF Settle
<1>2. /\ grant' \in [Leases -> Grants \cup {None}]
      /\ held' \cup claiming' \cup stored' \cup running' \cup claimed' \cup finishing'
            \subseteq {l \in Leases : grant'[l] # None}
      /\ cancelIntents' \subseteq held' /\ aborted' \subseteq running'
    BY <1>1 DEF BooksOK
<1>3. ASSUME NEW r \in Runs, leaseByRun'[r] # None
      PROVE  leaseByRun'[r] \in held' /\ RunOf(leaseByRun[r])' = r /\ leaseByRun'[r] = leaseByRun[r]
  <2>1. leaseByRun'[r] = leaseByRun[r] /\ leaseByRun[r] \notin S \cap held
    BY <1>1, <1>3
  <2>2. leaseByRun[r] \in held /\ RunOf(leaseByRun[r]) = r
    BY <1>3, <2>1 DEF BooksOK
  <2>3. QED  BY <1>1, <2>1, <2>2 DEF RunOf
<1>4. QED  BY <1>2, <1>3 DEF BooksOK, RunOf

\* A lease is issued under an id that nothing names, for one worker and one run.
LEMMA IssueKeepsBooks ==
    ASSUME BooksOK, SchedulerOK, NEW l \in Unused, NEW w \in Placements, NEW r \in Runs,
           Issue(l, w, r), UNCHANGED <<finishing, running, aborted, claimed>>
    PROVE  /\ BooksOK' /\ l \in Leases /\ grant'[l] # None /\ WorkerOf(l)' = w /\ RunOf(l)' = r
           /\ \A m \in Leases : m # l => grant'[m] = grant[m]
<1> DEFINE g == [run |-> r, worker |-> w, pr |-> result[r],
                 kind |-> IF r \in followUps THEN "follow-up" ELSE "implementation"]
<1>1. /\ l \in Leases /\ l \notin held
      /\ grant' = [grant EXCEPT ![l] = g]
      /\ held' = held \cup {l} /\ leaseByRun' = [leaseByRun EXCEPT ![r] = l]
      /\ claiming' = claiming \cup {l} /\ stored' = stored \cup {l} /\ cancelIntents' = cancelIntents
    BY DEF Issue, Unused
<1>2. g \in Grants /\ g # None /\ g.worker = w /\ g.run = r
  <2>1. g \in Grants
    BY DEF Grants, Kinds, Placements, SchedulerOK
  <2>2. QED  BY <2>1, DispatchAssumption
<1> HIDE DEF g
<1>3. grant \in [Leases -> Grants \cup {None}]
    BY DEF BooksOK
<1>4. /\ grant' \in [Leases -> Grants \cup {None}] /\ grant'[l] = g
      /\ \A m \in Leases : m # l => grant'[m] = grant[m]
    BY <1>1, <1>2, <1>3
<1>5. /\ held' \cup claiming' \cup stored' \cup running' \cup claimed' \cup finishing'
            \subseteq {m \in Leases : grant'[m] # None}
      /\ cancelIntents' \subseteq held' /\ aborted' \subseteq running'
    BY <1>1, <1>2, <1>4 DEF BooksOK
<1>6. ASSUME NEW q \in Runs, leaseByRun'[q] # None
      PROVE  leaseByRun'[q] \in held' /\ grant'[leaseByRun'[q]].run = q
  <2>1. CASE leaseByRun'[q] = l /\ q = r
    BY <1>1, <1>2, <1>4, <2>1
  <2>2. CASE leaseByRun'[q] = leaseByRun[q] /\ leaseByRun[q] # l
    <3>1. leaseByRun[q] \in held /\ RunOf(leaseByRun[q]) = q
      BY <1>6, <2>2 DEF BooksOK
    <3>2. leaseByRun[q] \in Leases
      BY <3>1 DEF BooksOK
    <3>3. QED  BY <1>1, <1>4, <2>2, <3>1, <3>2 DEF RunOf
  <2>3. leaseByRun'[q] = leaseByRun[q] \/ (leaseByRun'[q] = l /\ q = r)
    BY <1>1
  <2>4. leaseByRun'[q] = leaseByRun[q] => leaseByRun[q] # l
    BY <1>1, <1>6 DEF BooksOK
  <2>5. QED  BY <2>1, <2>2, <2>3, <2>4
<1>7. QED  BY <1>1, <1>2, <1>4, <1>5, <1>6 DEF BooksOK, RunOf, WorkerOf

\* A turn of the dispatch loop issues a lease or leaves the books alone.
LEMMA DispatchIs ==
    ASSUME SchedulerOK, DispatchQueued
    PROVE  \/ UNCHANGED <<bookVars, asked>>
           \/ \E l \in Unused, w \in Placements, r \in Runs : Issue(l, w, r)
<1>1. queue # <<>> => Head(queue) \in Runs
    BY DEF SchedulerOK
<1>2. CASE DispatchHead
    BY <1>1, <1>2 DEF DispatchHead, histVars
<1>3. CASE DispatchBlocked
    BY <1>3 DEF DispatchBlocked, histVars
<1>4. QED  BY <1>2, <1>3 DEF DispatchQueued

\* Claims, expiries, reports and completions keep the books in order.
LEMMA HostKeepsBooks ==
    ASSUME BooksOK, BuffersOK, NEW l \in Leases, HostStep(l) \/ ClaimFails(l)
    PROVE  BooksOK'
<1>1. CASE ClaimLands(l) \/ AdmitReport(l)
  <2>1. /\ UNCHANGED <<grant, held, leaseByRun, cancelIntents, stored, finishing, running,
                       aborted, claimed>>
        /\ claiming' \subseteq claiming
    BY <1>1 DEF ClaimLands, AdmitReport, bookVars, reportVars, workerVars
  <2>2. QED  BY <2>1, BooksHold DEF BooksOK
<1>2. CASE ApplyPatch(l) \/ ApplyRunComplete(l)
  <2>1. grant[l] # None
    BY <1>2, AdmittedAre DEF ApplyPatch, ApplyRunComplete
  <2>2. /\ UNCHANGED <<grant, held, leaseByRun, cancelIntents, claiming, running, aborted,
                       claimed>>
        /\ stored' \cup finishing' \subseteq stored \cup finishing \cup {l}
    BY <1>2 DEF ApplyPatch, ApplyRunComplete, bookVars, workerVars
  <2>3. QED  BY <2>1, <2>2, BooksHold DEF BooksOK
<1>3. CASE ExpireLease(l) \/ ClaimFails(l)
  <2>1. /\ Settle({l}) /\ claiming' \subseteq claiming
        /\ UNCHANGED <<grant, running, aborted, claimed, finishing>>
    BY <1>3 DEF ExpireLease, ClaimFails, reportVars, workerVars
  <2>2. QED  BY <2>1, BooksSettle
<1>4. CASE FinishCompletion(l)
  <2>1. /\ UNCHANGED <<grant, claiming, running, aborted, claimed>>
        /\ finishing' \subseteq finishing /\ l \in finishing
    BY <1>4 DEF FinishCompletion
  <2>2. CASE l \in held
    BY <1>4, <2>1, <2>2, BooksSettle DEF FinishCompletion
  <2>3. CASE l \notin held
    <3>1. stored' = stored \cup {l} /\ UNCHANGED <<held, leaseByRun, cancelIntents>>
      BY <1>4, <2>3 DEF FinishCompletion
    <3>2. QED  BY <2>1, <3>1, BooksHold DEF BooksOK
  <2>4. QED  BY <2>2, <2>3
<1>5. QED  BY <1>1, <1>2, <1>3, <1>4 DEF HostStep

\* So do registrations, refusals and lost connections.
LEMMA ConnectionsKeepBooks ==
    ASSUME BooksOK, NEW w \in Workers, ConnectionStep(w) PROVE BooksOK'
<1>1. CASE HandleRegister(w)
  <2>1. /\ \E S : Settle(S)
        /\ UNCHANGED <<grant, claiming, finishing, running, aborted, claimed>>
    BY <1>1 DEF HandleRegister, reportVars, workerVars
  <2>2. QED  BY <2>1, BooksSettle
<1>2. CASE HandleRejected(w)
  <2>1. UNCHANGED <<grant, claiming, finishing, running, aborted, claimed>>
    BY <1>2 DEF HandleRejected, reportVars, workerVars
  <2>2. (\E S : Settle(S)) \/ UNCHANGED <<held, leaseByRun, cancelIntents, stored>>
    BY <1>2 DEF HandleRejected
  <2>3. CASE \E S : Settle(S)
    BY <2>1, <2>3, BooksSettle
  <2>4. CASE UNCHANGED <<held, leaseByRun, cancelIntents, stored>>
    BY <2>1, <2>4, BooksStay DEF booksVars
  <2>5. QED  BY <2>2, <2>3, <2>4
<1>3. CASE HandleDisconnect(w)
    BY <1>3, BooksStay DEF HandleDisconnect, bookVars, reportVars, workerVars, booksVars
<1>4. QED  BY <1>1, <1>2, <1>3 DEF ConnectionStep

\* A worker claims what it is sent, which was issued to it.
LEMMA DaemonsKeepBooks ==
    ASSUME BooksOK, LinesOK, SocketsOK, NEW w \in Workers, DaemonStep(w) PROVE BooksOK'
<1>1. CASE HandleDispatch(w)
  <2>1. PICK f : f = Head(toWorker[w])
    OBVIOUS
  <2>2. f \in HostFrames /\ f.lease \in Leases /\ Carries(w, f)
    BY <1>1, <2>1, AfterReceiving DEF HandleDispatch
  <2>3. grant[f.lease] # None
    BY <2>2 DEF LinesOK
  <2>4. /\ UNCHANGED <<grant, held, leaseByRun, cancelIntents, claiming, stored, finishing,
                       aborted>>
        /\ running' \in {running, running \cup {f.lease}}
        /\ claimed' \in {claimed, claimed \cup {f.lease}}
    BY <1>1, <2>1 DEF HandleDispatch, Receives, bookVars, reportVars, workerVars
  <2>5. QED  BY <2>2, <2>3, <2>4, BooksHold DEF BooksOK
<1>2. CASE HandleCancel(w) \/ HandleLeaseLost(w) \/ HandleRunCompleteAck(w)
  <2>1. /\ UNCHANGED <<grant, held, leaseByRun, cancelIntents, claiming, stored, finishing,
                       running>>
        /\ claimed' \subseteq claimed /\ aborted' \subseteq aborted \cup running
    BY <1>2 DEF HandleCancel, HandleLeaseLost, HandleRunCompleteAck, Abandon, Receives,
                bookVars, reportVars
  <2>2. QED  BY <2>1, BooksHold DEF BooksOK
<1>3. CASE Dial(w)
    BY <1>3, BooksStay DEF Dial, bookVars, reportVars, workerVars, booksVars
<1>4. QED  BY <1>1, <1>2, <1>3 DEF DaemonStep

\* So does a boot, from the leases on disk.
LEMMA BootKeepsBooks == BooksOK /\ RestartHost => BooksOK'
<1> SUFFICES ASSUME BooksOK, RestartHost PROVE BooksOK'  OBVIOUS
<1>1. PICK torn, byRun :
        LET kept == Restored(stored \ torn) IN
        /\ held' = kept /\ stored' = kept /\ leaseByRun' = byRun
        /\ byRun \in [Runs -> kept \cup {None}]
        /\ \A r \in Runs : IF \E l \in kept : RunOf(l) = r
                           THEN byRun[r] \in kept /\ RunOf(byRun[r]) = r
                           ELSE byRun[r] = None
    BY DEF RestartHost
<1>2. /\ UNCHANGED <<grant, running, aborted, claimed>>
      /\ cancelIntents' = {} /\ claiming' = {} /\ finishing' = {}
    BY DEF RestartHost
<1>3. held' \subseteq stored /\ stored' \subseteq stored
    BY <1>1 DEF Restored
<1>4. \A r \in Runs : leaseByRun'[r] # None => leaseByRun'[r] \in held' /\ RunOf(leaseByRun'[r]) = r
    BY <1>1
<1>5. QED  BY <1>2, <1>3, <1>4 DEF BooksOK, RunOf

\* No step spoils the books.
LEMMA StepsKeepBooks ==
    SocketsOK /\ SchedulerOK /\ BooksOK /\ BuffersOK /\ LinesOK /\ Next => BooksOK'
<1> SUFFICES ASSUME SocketsOK, SchedulerOK, BooksOK, BuffersOK, LinesOK, Next PROVE BooksOK'
    OBVIOUS
<1>1. CASE DispatchQueued
  <2>1. UNCHANGED <<finishing, running, aborted, claimed>>
    BY <1>1 DEF DispatchQueued, reportVars, workerVars
  <2>2. CASE UNCHANGED <<bookVars, asked>>
    BY <2>1, <2>2, BooksStay DEF bookVars, booksVars
  <2>3. QED  BY <1>1, <2>1, <2>2, DispatchIs, IssueKeepsBooks
<1>2. CASE Redrive \/ \E x \in lost : BeginInterrupt(x)
    BY <1>2, BooksStay DEF Redrive, BeginInterrupt, bookVars, reportVars, workerVars, booksVars
<1>3. ASSUME NEW r \in Runs, SchedulerStep(r) \/ Command(r) PROVE BooksOK'
  <2>1. CASE Cancel(r)
    <3>1. /\ UNCHANGED <<grant, held, leaseByRun, claiming, stored, finishing, running, aborted,
                         claimed>>
          /\ cancelIntents' = cancelIntents
                \/ (leaseByRun[r] # None /\ cancelIntents' = cancelIntents \cup {leaseByRun[r]})
      BY <2>1 DEF Cancel, CancelHere, CancelOnWorker, reportVars, workerVars
    <3>2. cancelIntents' \subseteq held
      BY <3>1 DEF BooksOK
    <3>3. QED  BY <3>1, <3>2 DEF BooksOK, RunOf
  <2>2. CASE SchedulerStep(r) \/ Retry(r) \/ FollowUp(r)
    <3>1. UNCHANGED booksVars
      BY <2>2 DEF SchedulerStep, Enqueue, Adopt, Requeue, JoinQueue, FollowUpGranted,
                  FollowUpRefused, Resume, Retry, FollowUp, StartOver, bookVars, reportVars,
                  workerVars, booksVars
    <3>2. QED  BY <3>1, BooksStay
  <2>3. QED  BY <1>3, <2>1, <2>2 DEF Command
<1>4. ASSUME NEW l \in Leases, HostStep(l) \/ ClaimFails(l) PROVE BooksOK'
    BY <1>4, HostKeepsBooks
<1>5. ASSUME NEW l \in Leases, Execution(l) \/ FenceSelf(l) PROVE BooksOK'
  <2>1. /\ UNCHANGED <<grant, held, leaseByRun, cancelIntents, claiming, stored, finishing>>
        /\ running' \subseteq running /\ claimed' \subseteq claimed
        /\ aborted \subseteq running => aborted' \subseteq running'
    BY <1>5 DEF Execution, BeginAttempt, Checkpoint, FinalizePr, Conclude, SendComplete,
                FenceSelf, Abandon, bookVars, reportVars
  <2>2. QED  BY <2>1, BooksHold DEF BooksOK
<1>6. ASSUME NEW w \in Workers, ConnectionStep(w) PROVE BooksOK'
    BY <1>6, ConnectionsKeepBooks
<1>7. ASSUME NEW w \in Workers, DaemonStep(w) PROVE BooksOK'
    BY <1>7, DaemonsKeepBooks
<1>8. ASSUME NEW w \in Workers, BreakSocket(w) PROVE BooksOK'
    BY <1>8, BooksStay DEF BreakSocket, bookVars, reportVars, workerVars, booksVars
<1>9. ASSUME NEW w \in Workers, RestartWorker(w) PROVE BooksOK'
  <2>1. /\ UNCHANGED <<grant, held, leaseByRun, cancelIntents, claiming, stored, finishing>>
        /\ running' \subseteq running /\ claimed' \subseteq claimed
        /\ aborted \subseteq running => aborted' \subseteq running'
    BY <1>9 DEF RestartWorker, bookVars, reportVars
  <2>2. QED  BY <2>1, BooksHold DEF BooksOK
<1>10. CASE RestartHost  BY <1>10, BootKeepsBooks
<1>11. QED
    BY <1>1, <1>2, <1>3, <1>4, <1>5, <1>6, <1>7, <1>8, <1>9, <1>10 DEF Next

-----------------------------------------------------------------------------
(* The buffers *)

\* What a step does to the buffer of m: nothing, a frame taken over, a frame
\* landed, a report of its execution, the rest forgotten, or a boot.
BufferStep(m) ==
    \/ reports'[m] = reports[m] /\ admitted'[m] = admitted[m]
    \/ reports'[m] = reports[m] /\ admitted'[m] = admitted[m] + 1 /\ admitted[m] < Len(reports[m])
    \/ /\ reports'[m] = Tail(reports[m]) /\ admitted'[m] = admitted[m] - 1 /\ admitted[m] > 0
       /\ m \notin finishing'
    \/ /\ m \in running /\ admitted'[m] = admitted[m]
       /\ \E rep \in Reports : /\ reports'[m] = Append(reports[m], rep)
                               /\ rep.type = "run-complete" => m \notin running'
    \/ reports'[m] = Forgotten(m) /\ admitted'[m] = admitted[m]
    \/ reports'[m] \in {reports[m], <<>>} /\ admitted'[m] = 0 /\ finishing' = {}

bufferVars == <<reports, admitted>>

\* The buffers are as they were but for that of l.
BufferOf(l) ==
    /\ reports' \in {[reports EXCEPT ![l] = reports'[l]], reports}
    /\ admitted' \in {[admitted EXCEPT ![l] = admitted'[l]], admitted}
    /\ BufferStep(l)

\* Then every buffer takes a step.
LEMMA BuffersElsewhere ==
    ASSUME BuffersOK, NEW l \in Leases, BufferOf(l)
    PROVE  /\ reports' = [k \in Leases |-> reports'[k]] /\ admitted' = [k \in Leases |-> admitted'[k]]
           /\ \A m \in Leases : BufferStep(m)
<1>1. reports \in [Leases -> Seq(Reports)] /\ admitted \in [Leases -> Nat]
    BY DEF BuffersOK
<1>2. \A m \in Leases : m # l => reports'[m] = reports[m] /\ admitted'[m] = admitted[m]
    BY <1>1 DEF BufferOf
<1>3. \A m \in Leases : BufferStep(m)
    BY <1>2 DEF BufferOf, BufferStep
<1>4. reports' = [k \in Leases |-> reports'[k]] /\ admitted' = [k \in Leases |-> admitted'[k]]
    BY <1>1 DEF BufferOf
<1>5. QED  BY <1>3, <1>4

\* What the host takes over, and what it has written.
LEMMA TakingOver ==
    ASSUME BuffersOK, LastWords, NEW l \in Leases,
           AdmitReport(l) \/ ApplyPatch(l) \/ FinishCompletion(l)
    PROVE  BufferOf(l)
<1>1. reports \in [Leases -> Seq(Reports)] /\ admitted \in [Leases -> Nat]
    BY DEF BuffersOK
<1>2. CASE AdmitReport(l)
    BY <1>1, <1>2 DEF AdmitReport, workerVars, BufferOf, BufferStep
<1>3. CASE ApplyPatch(l) \/ FinishCompletion(l)
  <2>1. Landed(l) /\ admitted[l] > 0 /\ l \notin finishing'
    BY <1>3 DEF ApplyPatch, FinishCompletion, LastWords
  <2>2. /\ reports' = [reports EXCEPT ![l] = Tail(reports[l])] /\ reports'[l] = Tail(reports[l])
        /\ admitted' = [admitted EXCEPT ![l] = admitted[l] - 1] /\ admitted'[l] = admitted[l] - 1
    BY <1>1, <2>1 DEF Landed
  <2>3. QED  BY <2>1, <2>2 DEF BufferOf, BufferStep
<1>4. QED  BY <1>2, <1>3

\* A running execution reports.
LEMMA Reporting ==
    ASSUME BuffersOK, NEW l \in Leases, l \in running, NEW rep \in Reports, Report(l, rep),
           admitted' = admitted, rep.type = "run-complete" => l \notin running'
    PROVE  BufferOf(l)
<1>1. reports \in [Leases -> Seq(Reports)] /\ admitted \in [Leases -> Nat]
    BY DEF BuffersOK
<1>2. CASE reports' = reports
    BY <1>2 DEF BufferOf, BufferStep
<1>3. CASE reports' = [reports EXCEPT ![l] = Append(reports[l], rep)]
  <2>1. reports'[l] = Append(reports[l], rep)
    BY <1>1, <1>3
  <2>2. QED  BY <1>3, <2>1 DEF BufferOf, BufferStep
<1>4. QED  BY <1>2, <1>3 DEF Report

\* How an execution may end.
LEMMA EndingsAre == \A l : Endings(l) \subseteq {"waiting"} \cup Terminal
BY DispatchAssumption DEF Endings, Terminal

\* What executions do to the buffers.
LEMMA ExecutionsReport ==
    ASSUME BuffersOK, NEW l \in Leases, Execution(l) PROVE BufferOf(l)
<1>1. l \in running /\ admitted' = admitted
    BY DEF Execution, BeginAttempt, Checkpoint, FinalizePr, Conclude, SendComplete, Executing,
           reportVars
<1>2. CASE BeginAttempt(l)
  <2>1. Report(l, PatchReport("active")) /\ PatchReport("active") \in Reports
        /\ PatchReport("active").type # "run-complete"
    BY <1>2 DEF BeginAttempt, PatchReport, Reports
  <2>2. QED  BY <1>1, <2>1, Reporting
<1>3. CASE Checkpoint(l) \/ FinalizePr(l)
    BY <1>1, <1>3 DEF Checkpoint, FinalizePr, BufferOf, BufferStep
<1>4. ASSUME NEW o \in Statuses, Conclude(l, o) PROVE BufferOf(l)
  <2>1. Report(l, PatchReport(o)) /\ o \in Endings(l)
    BY <1>4 DEF Conclude
  <2>2. PatchReport(o) \in Reports /\ PatchReport(o).type # "run-complete"
    BY <2>1, EndingsAre DEF PatchReport, Reports
  <2>3. QED  BY <1>1, <2>1, <2>2, Reporting
<1>5. CASE SendComplete(l)
  <2>1. /\ Report(l, CompleteReport(stage[l])) /\ stage[l] \in Terminal \cup {"waiting"}
        /\ l \notin running'
    BY <1>5 DEF SendComplete, Executing
  <2>2. CompleteReport(stage[l]) \in Reports
    BY <2>1 DEF CompleteReport, Reports
  <2>3. QED  BY <1>1, <2>1, <2>2, Reporting
<1>6. QED  BY <1>2, <1>3, <1>4, <1>5 DEF Execution

\* What becomes of a buffer whose lease is given up.
LEMMA Abandoning ==
    ASSUME BuffersOK, NEW l \in Leases, Abandon(l), admitted' = admitted PROVE BufferOf(l)
<1>1. reports \in [Leases -> Seq(Reports)]
    BY DEF BuffersOK
<1>2. reports' = [reports EXCEPT ![l] = Forgotten(l)] /\ reports'[l] = Forgotten(l)
    BY <1>1 DEF Abandon
<1>3. QED  BY <1>2 DEF BufferOf, BufferStep

\* Restarts shorten buffers or leave them alone.
LEMMA RestartingBuffers ==
    ASSUME BuffersOK, RestartHost \/ \E w \in Workers : RestartWorker(w)
    PROVE  /\ reports' = [k \in Leases |-> reports'[k]] /\ admitted' = [k \in Leases |-> admitted'[k]]
           /\ \A m \in Leases : BufferStep(m)
<1>1. reports \in [Leases -> Seq(Reports)] /\ admitted \in [Leases -> Nat]
    BY DEF BuffersOK
<1>2. CASE RestartHost
  <2>1. /\ admitted' = [l \in Leases |-> 0]
        /\ reports' = [l \in Leases |-> IF l \in claimed THEN reports[l] ELSE <<>>]
    BY <1>2 DEF RestartHost
  <2>2. /\ \A m \in Leases : reports'[m] \in {reports[m], <<>>} /\ admitted'[m] = 0
        /\ finishing' = {}
    BY <1>2, <2>1 DEF RestartHost
  <2>3. QED  BY <2>1, <2>2 DEF BufferStep
<1>3. ASSUME NEW w \in Workers, RestartWorker(w)
      PROVE  /\ reports' = [k \in Leases |-> reports'[k]] /\ admitted' = [k \in Leases |-> admitted'[k]]
             /\ \A m \in Leases : BufferStep(m)
  <2>1. /\ admitted' = admitted
        /\ reports' = [l \in Leases |-> IF l \in RunningOn(w) \cup ClaimedBy(w) THEN Forgotten(l)
                                        ELSE reports[l]]
    BY <1>3 DEF RestartWorker, reportVars
  <2>2. \A m \in Leases : reports'[m] \in {reports[m], Forgotten(m)} /\ admitted'[m] = admitted[m]
    BY <2>1
  <2>3. reports' = [k \in Leases |-> reports'[k]] /\ admitted' = [k \in Leases |-> admitted'[k]]
    BY <1>1, <2>1
  <2>4. QED  BY <2>2, <2>3 DEF BufferStep
<1>4. QED  BY <1>2, <1>3

\* Every step is one of these to every buffer.
LEMMA WhatBuffersDo ==
    ASSUME SocketsOK, BuffersOK, LastWords, Next
    PROVE  /\ reports' = [k \in Leases |-> reports'[k]] /\ admitted' = [k \in Leases |-> admitted'[k]]
           /\ \A m \in Leases : BufferStep(m)
<1> DEFINE P == /\ reports' = [k \in Leases |-> reports'[k]]
                /\ admitted' = [k \in Leases |-> admitted'[k]]
                /\ \A m \in Leases : BufferStep(m)
<1>1. ASSUME UNCHANGED bufferVars PROVE P
  <2>1. reports \in [Leases -> Seq(Reports)] /\ admitted \in [Leases -> Nat]
    BY DEF BuffersOK
  <2>2. reports' = reports /\ admitted' = admitted
    BY <1>1 DEF bufferVars
  <2>3. QED  BY <2>1, <2>2 DEF BufferStep
<1>2. ASSUME NEW l \in Leases, BufferOf(l) PROVE P
    BY <1>2, BuffersElsewhere
<1>3. ASSUME DispatchQueued \/ Redrive \/ \E x \in lost : BeginInterrupt(x) PROVE P
  <2>1. UNCHANGED bufferVars
    BY <1>3 DEF DispatchQueued, Redrive, BeginInterrupt, reportVars, workerVars, bufferVars
  <2>2. QED  BY <1>1, <2>1
<1>4. ASSUME NEW r \in Runs, SchedulerStep(r) \/ Command(r) PROVE P
  <2>1. UNCHANGED bufferVars
    BY <1>4 DEF SchedulerStep, Command, Enqueue, Adopt, Requeue, JoinQueue, FollowUpGranted,
                FollowUpRefused, Resume, Cancel, Retry, FollowUp, StartOver, reportVars, workerVars,
                bufferVars
  <2>2. QED  BY <1>1, <2>1
<1>5. ASSUME NEW l \in Leases, HostStep(l) \/ ClaimFails(l) PROVE P
  <2>1. CASE AdmitReport(l) \/ ApplyPatch(l) \/ FinishCompletion(l)
    BY <1>2, <2>1, TakingOver
  <2>2. CASE ClaimLands(l) \/ ExpireLease(l) \/ ApplyRunComplete(l) \/ ClaimFails(l)
    <3>1. UNCHANGED bufferVars
      BY <2>2 DEF ClaimLands, ExpireLease, ApplyRunComplete, ClaimFails, reportVars, workerVars,
                  bufferVars
    <3>2. QED  BY <1>1, <3>1
  <2>3. QED  BY <1>5, <2>1, <2>2 DEF HostStep
<1>6. ASSUME NEW l \in Leases, Execution(l) PROVE P
    BY <1>2, <1>6, ExecutionsReport
<1>7. ASSUME NEW l \in Leases, FenceSelf(l) PROVE P
    BY <1>2, <1>7, Abandoning DEF FenceSelf, reportVars
<1>8. ASSUME NEW w \in Workers, ConnectionStep(w) PROVE P
  <2>1. UNCHANGED bufferVars
    BY <1>8 DEF ConnectionStep, HandleRegister, HandleRejected, HandleDisconnect, reportVars,
                workerVars, bufferVars
  <2>2. QED  BY <1>1, <2>1
<1>9. ASSUME NEW w \in Workers, DaemonStep(w) PROVE P
  <2>1. CASE HandleLeaseLost(w)
    <3>1. PICK f : f = Head(toWorker[w])
      OBVIOUS
    <3>2. f.lease \in Leases
      BY <2>1, <3>1, AfterReceiving DEF HandleLeaseLost
    <3>3. Abandon(f.lease) /\ admitted' = admitted
      BY <2>1, <3>1 DEF HandleLeaseLost, Receives, reportVars
    <3>4. QED  BY <1>2, <3>2, <3>3, Abandoning
  <2>2. CASE Dial(w) \/ HandleDispatch(w) \/ HandleCancel(w) \/ HandleRunCompleteAck(w)
    <3>1. UNCHANGED bufferVars
      BY <2>2 DEF Dial, HandleDispatch, HandleCancel, HandleRunCompleteAck, Receives, reportVars,
                  workerVars, bufferVars
    <3>2. QED  BY <1>1, <3>1
  <2>3. QED  BY <1>9, <2>1, <2>2 DEF DaemonStep
<1>10. ASSUME NEW w \in Workers, BreakSocket(w) PROVE P
  <2>1. UNCHANGED bufferVars
    BY <1>10 DEF BreakSocket, reportVars, workerVars, bufferVars
  <2>2. QED  BY <1>1, <2>1
<1>11. ASSUME RestartHost \/ \E w \in Workers : RestartWorker(w) PROVE P
    BY <1>11, RestartingBuffers
<1> HIDE DEF P
<1>12. P
    BY <1>3, <1>4, <1>5, <1>6, <1>7, <1>8, <1>9, <1>10, <1>11 DEF Next
<1>13. QED  BY <1>12 DEF P

\* What is forgotten of a buffer is what the host has not taken over.
LEMMA ForgottenIs ==
    ASSUME BuffersOK, NEW l \in Leases
    PROVE  /\ Forgotten(l) \in Seq(Reports) /\ Len(Forgotten(l)) = admitted[l]
           /\ admitted[l] <= Len(reports[l]) /\ Len(reports[l]) \in Nat /\ admitted[l] \in Nat
           /\ \A i \in 1..admitted[l] : Forgotten(l)[i] = reports[l][i]
<1>1. reports[l] \in Seq(Reports) /\ admitted[l] \in Nat /\ admitted[l] <= Len(reports[l])
    BY DEF BuffersOK
<1>2. Len(reports[l]) \in Nat
    BY <1>1
<1>3. Forgotten(l) \in Seq(Reports)
    BY <1>1, <1>2 DEF Forgotten
<1>4. Len(Forgotten(l)) = admitted[l] /\ \A i \in 1..admitted[l] : Forgotten(l)[i] = reports[l][i]
    BY <1>1, <1>2 DEF Forgotten
<1>5. QED  BY <1>1, <1>2, <1>3, <1>4

\* A buffer that takes a step still holds reports, and what was taken over.
LEMMA BufferStaysSound ==
    ASSUME BuffersOK, BooksOK, NEW m \in Leases, BufferStep(m), grant[m] # None => grant'[m] # None
    PROVE  /\ reports'[m] \in Seq(Reports) /\ admitted'[m] \in Nat
           /\ admitted'[m] <= Len(reports'[m])
           /\ reports'[m] # <<>> => grant'[m] # None
<1> DEFINE s == reports[m]
           a == admitted[m]
<1>1. s \in Seq(Reports) /\ a \in Nat /\ a <= Len(s)
    BY DEF BuffersOK
<1>2. s # <<>> \/ m \in running => grant[m] # None
    BY DEF BuffersOK, BooksOK
<1>3. Len(s) \in Nat /\ (Len(s) > 0 => s # <<>>)
    BY <1>1
<1>4. CASE s' = s /\ admitted'[m] = a
    BY <1>1, <1>2, <1>4
<1>5. CASE s' = s /\ admitted'[m] = a + 1 /\ a < Len(s)
    BY <1>1, <1>2, <1>3, <1>5
<1>6. CASE s' = Tail(s) /\ admitted'[m] = a - 1 /\ a > 0
  <2>1. s # <<>>
    BY <1>1, <1>3, <1>6
  <2>2. Tail(s) \in Seq(Reports) /\ Len(Tail(s)) = Len(s) - 1
    BY <1>1, <2>1
  <2>3. QED  BY <1>1, <1>2, <1>3, <1>6, <2>1, <2>2
<1>7. ASSUME m \in running, NEW rep \in Reports, s' = Append(s, rep), admitted'[m] = a
      PROVE  /\ reports'[m] \in Seq(Reports) /\ admitted'[m] \in Nat
             /\ admitted'[m] <= Len(reports'[m])
             /\ reports'[m] # <<>> => grant'[m] # None
  <2>1. Append(s, rep) \in Seq(Reports) /\ Len(Append(s, rep)) = Len(s) + 1
    BY <1>1
  <2>2. QED  BY <1>1, <1>2, <1>3, <1>7, <2>1
<1>8. CASE s' = Forgotten(m) /\ admitted'[m] = a
  <2>1. Forgotten(m) \in Seq(Reports) /\ Len(Forgotten(m)) = a
    BY ForgottenIs
  <2>2. ASSUME NEW t \in Seq(Reports), t # <<>> PROVE Len(t) > 0
    BY <2>2
  <2>3. ASSUME s = <<>> PROVE Len(s) = 0
    BY <2>3
  <2>4. a > 0 => s # <<>>
    BY <1>1, <2>3
  <2>5. Forgotten(m) # <<>> => a > 0
    BY <2>1, <2>2
  <2>6. QED  BY <1>1, <1>2, <1>8, <2>1, <2>4, <2>5
<1>9. CASE s' \in {s, <<>>} /\ admitted'[m] = 0
  <2>1. <<>> \in Seq(Reports)
    OBVIOUS
  <2>2. Len(<<>>) = 0
    OBVIOUS
  <2>3. reports'[m] \in Seq(Reports)
    BY <1>1, <1>9, <2>1
  <2>4. Len(reports'[m]) \in Nat
    BY <2>3
  <2>5. reports'[m] # <<>> => reports'[m] = s
    BY <1>9
  <2> HIDE DEF s
  <2>6. QED  BY <1>2, <1>9, <2>3, <2>4, <2>5
<1>10. QED
    BY <1>4, <1>5, <1>6, <1>7, <1>8, <1>9 DEF BufferStep

Stages == {"none", "started", "begun", "drafted", "finalized", "waiting"} \cup Terminal

\* What is issued changes when a lease is, and then alone.
LEMMA GrantedAtIssue == Next /\ ~DispatchQueued => UNCHANGED grant
BY ZenonT(60) DEF Next, Redrive, BeginInterrupt, SchedulerStep, Command, Enqueue, Adopt, Requeue,
       JoinQueue, FollowUpGranted, FollowUpRefused, Resume, Cancel, Retry, FollowUp, StartOver,
       HostStep, ClaimLands, ExpireLease, AdmitReport, ApplyPatch, ApplyRunComplete,
       FinishCompletion, ClaimFails, Execution, BeginAttempt, Checkpoint, FinalizePr, Conclude,
       SendComplete, FenceSelf, ConnectionStep, HandleRegister, HandleRejected,
       HandleDisconnect, DaemonStep, Dial, HandleDispatch, HandleCancel, HandleLeaseLost,
       HandleRunCompleteAck, Receives, BreakSocket, RestartWorker, RestartHost, bookVars

\* An issued lease stays issued: only a new lease changes what is issued.
LEMMA IssuedStaysIssued ==
    ASSUME BooksOK, SchedulerOK, Next, NEW m \in Leases, grant[m] # None
    PROVE  grant'[m] # None
<1>1. CASE DispatchQueued
  <2>1. CASE UNCHANGED <<bookVars, asked>>
    BY <2>1 DEF bookVars
  <2>2. ASSUME NEW l \in Unused, NEW w \in Placements, NEW r \in Runs, Issue(l, w, r)
        PROVE  grant'[m] # None
    <3>1. UNCHANGED <<finishing, running, aborted, claimed>>
      BY <1>1 DEF DispatchQueued, reportVars, workerVars
    <3>2. QED  BY <2>2, <3>1, IssueKeepsBooks
  <2>3. QED  BY <1>1, <2>1, <2>2, DispatchIs
<1>2. CASE ~DispatchQueued
  <2>1. UNCHANGED grant
    BY <1>2, GrantedAtIssue
  <2>2. QED  BY <2>1
<1>3. QED  BY <1>1, <1>2

\* An execution is in one of its stages.
LEMMA StagesStay ==
    ASSUME BuffersOK, SocketsOK, Next PROVE stage' \in [Leases -> Stages]
<1>1. stage \in [Leases -> Stages]
    BY DEF BuffersOK, Stages
<1>2. ASSUME NEW l \in Leases, Execution(l) PROVE stage' \in [Leases -> Stages]
  <2>1. \E x \in Stages : stage' = [stage EXCEPT ![l] = x]
    <3>1. CASE \E o \in Statuses : Conclude(l, o)
      BY <3>1, EndingsAre DEF Conclude, Stages, Terminal
    <3>2. CASE BeginAttempt(l) \/ Checkpoint(l) \/ FinalizePr(l) \/ SendComplete(l)
      BY <3>2 DEF BeginAttempt, Checkpoint, FinalizePr, SendComplete, Stages
    <3>3. QED  BY <1>2, <3>1, <3>2 DEF Execution
  <2>2. QED  BY <1>1, <2>1
<1>3. ASSUME NEW w \in Workers, HandleDispatch(w) PROVE stage' \in [Leases -> Stages]
  <2>1. stage' = stage \/ stage' = [stage EXCEPT ![Head(toWorker[w]).lease] = "started"]
    BY <1>3 DEF HandleDispatch, workerVars
  <2>2. "started" \in Stages
    BY DEF Stages
  <2>3. QED  BY <1>1, <2>1, <2>2
<1>4. ASSUME NEW w \in Workers, RestartWorker(w) PROVE stage' \in [Leases -> Stages]
  <2>1. stage' = [l \in Leases |-> IF l \in RunningOn(w) THEN "none" ELSE stage[l]]
    BY <1>4 DEF RestartWorker
  <2>2. "none" \in Stages
    BY DEF Stages
  <2>3. QED  BY <1>1, <2>1, <2>2
<1>5. ASSUME \A l \in Leases : ~Execution(l),
             \A w \in Workers : ~HandleDispatch(w) /\ ~RestartWorker(w)
      PROVE  stage' = stage
    BY ZenonT(60), <1>5 DEF Next, DispatchQueued, Redrive, BeginInterrupt, SchedulerStep, Command, Enqueue,
                Adopt, Requeue, JoinQueue, FollowUpGranted, FollowUpRefused, Resume, Cancel, Retry,
                FollowUp, StartOver, HostStep, ClaimLands, ExpireLease, AdmitReport, ApplyPatch,
                ApplyRunComplete, FinishCompletion, ClaimFails, FenceSelf, Abandon, ConnectionStep,
                HandleRegister, HandleRejected, HandleDisconnect, DaemonStep, Dial, HandleCancel,
                HandleLeaseLost, HandleRunCompleteAck, Receives, BreakSocket, RestartHost,
                workerVars
<1>6. QED  BY <1>1, <1>2, <1>3, <1>4, <1>5

\* No step puts anything but reports on issued leases into the buffers.
LEMMA StepsKeepBuffers ==
    SocketsOK /\ SchedulerOK /\ BooksOK /\ BuffersOK /\ LastWords /\ Next => BuffersOK'
<1> SUFFICES ASSUME SocketsOK, SchedulerOK, BooksOK, BuffersOK, LastWords, Next
             PROVE  BuffersOK'
    OBVIOUS
<1>1. /\ reports' = [k \in Leases |-> reports'[k]] /\ admitted' = [k \in Leases |-> admitted'[k]]
      /\ \A m \in Leases : BufferStep(m)
    BY WhatBuffersDo
<1>2. ASSUME NEW m \in Leases
      PROVE  /\ reports'[m] \in Seq(Reports) /\ admitted'[m] \in Nat
             /\ admitted'[m] <= Len(reports'[m])
             /\ reports'[m] # <<>> => grant'[m] # None
    BY <1>1, BufferStaysSound, IssuedStaysIssued
<1>3. reports' \in [Leases -> Seq(Reports)] /\ admitted' \in [Leases -> Nat]
    BY <1>1, <1>2
<1>4. stage' \in [Leases -> Stages]
    BY StagesStay
<1>5. QED  BY <1>2, <1>3, <1>4 DEF BuffersOK, Stages

-----------------------------------------------------------------------------
(* Last words *)

\* Only ApplyRunComplete puts a lease among the finishing, and only a dispatch
\* that arrives puts one among the running.
LEMMA WhoBegins ==
    ASSUME SocketsOK, Next
    PROVE  /\ \A m \in finishing' \ finishing : ApplyRunComplete(m) /\ m \in Leases
           /\ \A m \in (running' \ running) \cup (claimed' \ claimed) :
                  \E w \in Workers : HandleDispatch(w) /\ m = Head(toWorker[w]).lease
<1>1. CASE \E l \in Leases : ApplyRunComplete(l)
    BY <1>1 DEF ApplyRunComplete, workerVars
<1>2. CASE \E w \in Workers : HandleDispatch(w)
    BY <1>2 DEF HandleDispatch, Receives, reportVars, workerVars
<1>3. ASSUME \A l \in Leases : ~ApplyRunComplete(l), \A w \in Workers : ~HandleDispatch(w)
      PROVE  finishing' \subseteq finishing /\ running' \subseteq running /\ claimed' \subseteq claimed
    BY ZenonT(60), <1>3 DEF Next, DispatchQueued, Redrive, BeginInterrupt, SchedulerStep, Command, Enqueue,
                Adopt, Requeue, JoinQueue, FollowUpGranted, FollowUpRefused, Resume, Cancel, Retry,
                FollowUp, StartOver, HostStep, ClaimLands, ExpireLease, AdmitReport, ApplyPatch,
                FinishCompletion, ClaimFails, Execution, BeginAttempt, Checkpoint, FinalizePr,
                Conclude, SendComplete, FenceSelf, Abandon, ConnectionStep, HandleRegister,
                HandleRejected, HandleDisconnect, DaemonStep, Dial, HandleCancel, HandleLeaseLost,
                HandleRunCompleteAck, Receives, BreakSocket, RestartWorker, RestartHost,
                reportVars, workerVars
<1>4. QED  BY <1>1, <1>2, <1>3

\* What begins was nobody's: it is dispatched once.
LEMMA BegunFresh ==
    ASSUME SocketsOK, BegunOnce, Next, NEW m \in (running' \ running) \cup (claimed' \ claimed)
    PROVE  Fresh(m) /\ m \in held /\ m \in Leases /\ ~Unsent(m)
<1>1. PICK w \in Workers : HandleDispatch(w) /\ m = Head(toWorker[w]).lease
    BY WhoBegins
<1>2. PICK f : f = Head(toWorker[w])
    OBVIOUS
<1>3. f = Msg("dispatch", m) /\ m \in Leases /\ Carries(w, f)
    BY <1>1, <1>2, AfterReceiving DEF HandleDispatch
<1>4. ~Unsent(m)
    BY <1>3, UnsentIs
<1>5. QED  BY <1>3, <1>4 DEF BegunOnce

\* A run-complete is the end of the buffer it is in, whatever the step does to
\* the buffer.
LEMMA CompletionsEnd ==
    ASSUME BuffersOK, LastWords, NEW m \in Leases, BufferStep(m),
           m \in running' => m \in running \/ reports'[m] = <<>>,
           NEW i \in DOMAIN reports'[m], reports'[m][i].type = "run-complete"
    PROVE  i = Len(reports'[m]) /\ m \notin running'
<1> DEFINE s == reports[m]
           a == admitted[m]
<1>1. s \in Seq(Reports) /\ Len(s) \in Nat /\ DOMAIN s = 1..Len(s) /\ a \in Nat /\ a <= Len(s)
  <2>1. s \in Seq(Reports) /\ a \in Nat /\ a <= Len(s)
    BY DEF BuffersOK
  <2>2. QED  BY <2>1
<1>2. \A k \in 1..Len(s) : s[k].type = "run-complete" => k = Len(s) /\ m \notin running
    BY <1>1 DEF LastWords
<1>3. reports'[m] # <<>>
  <2>1. DOMAIN <<>> = {}
    OBVIOUS
  <2>2. QED  BY <2>1
<1>4. m \in running' => m \in running
    BY <1>3
<1>5. CASE reports'[m] = s
    BY <1>1, <1>2, <1>4, <1>5
<1>6. CASE reports'[m] = Tail(s) /\ a > 0
  <2>1. s # <<>>
    BY <1>1, <1>6
  <2>2. /\ Len(Tail(s)) = Len(s) - 1 /\ DOMAIN Tail(s) = 1..(Len(s) - 1)
        /\ \A k \in 1..(Len(s) - 1) : Tail(s)[k] = s[k + 1]
    BY <1>1, <2>1
  <2>3. i \in 1..(Len(s) - 1) /\ s[i + 1].type = "run-complete"
    BY <1>6, <2>2
  <2>4. i + 1 \in 1..Len(s)
    BY <1>1, <2>3
  <2>5. i + 1 = Len(s) /\ m \notin running
    BY <1>2, <2>3, <2>4
  <2>6. QED  BY <1>1, <1>4, <1>6, <2>2, <2>3, <2>5
<1>7. ASSUME m \in running, NEW rep \in Reports, reports'[m] = Append(s, rep),
             rep.type = "run-complete" => m \notin running'
      PROVE  i = Len(reports'[m]) /\ m \notin running'
  <2>1. /\ Len(Append(s, rep)) = Len(s) + 1 /\ DOMAIN Append(s, rep) = 1..(Len(s) + 1)
        /\ \A k \in 1..Len(s) : Append(s, rep)[k] = s[k]
        /\ Append(s, rep)[Len(s) + 1] = rep
    BY <1>1
  <2>2. \A k \in 1..(Len(s) + 1) : k \in 1..Len(s) \/ k = Len(s) + 1
    BY <1>1
  <2>3. i = Len(s) + 1
    BY <1>2, <1>7, <2>1, <2>2
  <2>4. QED  BY <1>7, <2>1, <2>3
<1>8. CASE reports'[m] = Forgotten(m)
  <2>1. /\ Forgotten(m) \in Seq(Reports) /\ Len(Forgotten(m)) = a
        /\ \A k \in 1..a : Forgotten(m)[k] = s[k]
    BY ForgottenIs
  <2>2. i \in 1..a
    BY <1>8, <2>1
  <2>3. i \in 1..Len(s)
    BY <1>1, <2>2
  <2>4. i = Len(s) /\ m \notin running
    BY <1>2, <1>8, <2>1, <2>2, <2>3
  <2>5. i <= a
    BY <1>1, <2>2
  <2>6. QED  BY <1>1, <1>4, <1>8, <2>1, <2>4, <2>5
<1>9. QED  BY <1>3, <1>5, <1>6, <1>7, <1>8 DEF BufferStep

\* A completion that is being finished stays at the start of its buffer.
LEMMA FinishingStays ==
    ASSUME BooksOK, BuffersOK, LastWords, NEW m \in Leases, BufferStep(m), m \in finishing,
           m \in finishing'
    PROVE  admitted'[m] > 0 /\ Head(reports'[m]).type = "run-complete"
<1> DEFINE s == reports[m]
           a == admitted[m]
<1>1. /\ s \in Seq(Reports) /\ a \in Nat /\ a <= Len(s)
      /\ a > 0 /\ Head(s).type = "run-complete"
    BY DEF BuffersOK, LastWords
<1>2. Len(s) \in Nat /\ 1 \in DOMAIN s /\ Head(s) = s[1]
    BY <1>1
<1>3. m \notin running
    BY <1>1, <1>2 DEF LastWords
<1>4. CASE s' = s /\ admitted'[m] \in {a, a + 1}
    BY <1>1, <1>4
<1>5. CASE s' = Forgotten(m) /\ admitted'[m] = a
  <2>1. /\ Forgotten(m) \in Seq(Reports) /\ Len(Forgotten(m)) = a
        /\ \A k \in 1..a : Forgotten(m)[k] = s[k]
    BY ForgottenIs
  <2>2. 1 \in 1..a
    BY <1>1
  <2>3. Forgotten(m)[1] = s[1]
    BY <2>1, <2>2
  <2>4. \A t \in Seq(Reports) : Len(t) > 0 => Head(t) = t[1]
    OBVIOUS
  <2>5. Head(Forgotten(m)) = Forgotten(m)[1]
    BY <1>1, <2>1, <2>4
  <2>6. QED  BY <1>1, <1>2, <1>5, <2>3, <2>5
<1>6. QED  BY <1>3, <1>4, <1>5 DEF BufferStep

\* No step puts a word behind the last one.
LEMMA StepsKeepLastWords ==
    SocketsOK /\ BooksOK /\ BuffersOK /\ BegunOnce /\ LastWords /\ Next => LastWords'
<1> SUFFICES ASSUME SocketsOK, BooksOK, BuffersOK, BegunOnce, LastWords, Next
             PROVE  LastWords'
    OBVIOUS
<1>1. \A m \in Leases : BufferStep(m)
    BY WhatBuffersDo
<1>2. ASSUME NEW m \in Leases, NEW i \in DOMAIN reports'[m],
             reports'[m][i].type = "run-complete"
      PROVE  i = Len(reports'[m]) /\ m \notin running'
  <2>1. ASSUME m \in running' PROVE m \in running \/ reports'[m] = <<>>
    <3>1. CASE m \notin running
      <4>1. Fresh(m)
        BY <2>1, <3>1, BegunFresh
      <4>2. reports[m] = <<>> /\ m \notin running
        BY <4>1 DEF Fresh
      <4>3. admitted[m] = 0
        <5>1. admitted[m] \in Nat /\ admitted[m] <= Len(reports[m])
          BY DEF BuffersOK
        <5>2. Len(<<>>) = 0
          OBVIOUS
        <5>3. QED  BY <4>2, <5>1, <5>2
      <4>4. Forgotten(m) = <<>>
        <5>1. Forgotten(m) \in Seq(Reports) /\ Len(Forgotten(m)) = 0
          BY <4>3, ForgottenIs
        <5>2. QED  BY <5>1
      <4>5. QED  BY <1>1, <4>2, <4>3, <4>4 DEF BufferStep
    <3>2. QED  BY <3>1
  <2>2. QED  BY <1>1, <1>2, <2>1, CompletionsEnd
<1>3. ASSUME NEW m \in finishing'
      PROVE  admitted'[m] > 0 /\ Head(reports'[m]).type = "run-complete"
  <2>1. CASE m \in finishing
    <3>1. m \in Leases
      BY <2>1 DEF BooksOK
    <3>2. QED  BY <1>1, <1>3, <2>1, <3>1, FinishingStays
  <2>2. CASE m \notin finishing
    BY <1>3, <2>2, WhoBegins DEF ApplyRunComplete, workerVars
  <2>3. QED  BY <2>1, <2>2
<1>4. QED  BY <1>2, <1>3 DEF LastWords

-----------------------------------------------------------------------------
(* The lines *)

\* The sockets and what is known of them stay, and what is sent is sent about a
\* worker's own leases.
LEMMA LinesHold ==
    ASSUME LinesOK, UNCHANGED <<seen, sock, grant>>, claiming' \subseteq claiming,
           \A w \in Workers : toHost'[w] = toHost[w] \/ sock[w] = "live",
           \A l \in claimed' \ claimed : sock[WorkerOf(l)] = "live",
           \A w \in Workers, m \in HostFrames : Carries(w, m)' =>
               Carries(w, m) \/ (grant[m.lease] # None /\ WorkerOf(m.lease) = w)
    PROVE  LinesOK'
<1>1. \A l : WorkerOf(l)' = WorkerOf(l)
    BY DEF WorkerOf
<1>2. seen' \in [Workers -> BOOLEAN]
    BY DEF LinesOK
<1>3. ASSUME NEW w \in Workers
      PROVE  /\ sock'[w] = "live" => seen'[w]
             /\ sock'[w] = "none" => toHost'[w] = <<>>
             /\ \A m \in HostFrames : Carries(w, m)' =>
                  grant'[m.lease] # None /\ WorkerOf(m.lease)' = w
    BY <1>1 DEF LinesOK
<1>4. ASSUME NEW w \in Workers, sock'[w] = "dialed"
      PROVE  /\ ClaimedBy(w)' \subseteq Head(toHost[w])'.leases
             /\ \A l \in Head(toHost[w])'.leases :
                  l \notin claiming' /\ grant'[l] # None /\ WorkerOf(l)' = w
  <2>1. toHost'[w] = toHost[w] /\ sock[w] = "dialed"
    BY <1>4
  <2>2. ClaimedBy(w)' \subseteq ClaimedBy(w)
    BY <1>1, <2>1 DEF ClaimedBy
  <2>3. QED  BY <1>1, <2>1, <2>2 DEF LinesOK
<1>5. QED  BY <1>2, <1>3, <1>4 DEF LinesOK

\* The host sends one frame, about a lease it was given, to that lease's worker.
LEMMA SendingKeepsLines ==
    ASSUME SocketsOK, LinesOK, BooksOK, NEW l \in Leases, grant[l] # None,
           NEW t \in {"dispatch", "cancel", "lease-lost", "run-complete-ack"},
           Send(WorkerOf(l), <<Msg(t, l)>>) \/ UNCHANGED toWorker,
           UNCHANGED <<seen, sock, grant, toHost>>,
           claiming' \subseteq claiming, claimed' \subseteq claimed
    PROVE  LinesOK'
<1>1. WorkerOf(l) \in Workers
    BY DEF BooksOK, Grants, WorkerOf
<1>2. Msg(t, l) \in HostFrames /\ Msg(t, l).lease = l
    BY DEF Msg, HostFrames
<1>3. ASSUME NEW w \in Workers, NEW m \in HostFrames, Carries(w, m)'
      PROVE  Carries(w, m) \/ (grant[m.lease] # None /\ WorkerOf(m.lease) = w)
  <2>1. CASE UNCHANGED toWorker
    BY <1>3, <2>1 DEF Carries
  <2>2. CASE Send(WorkerOf(l), <<Msg(t, l)>>)
    BY <1>1, <1>2, <1>3, <2>2, AfterSending
  <2>3. QED  BY <2>1, <2>2
<1>4. QED  BY <1>3, LinesHold

linesVars == <<seen, sock, grant, toHost, toWorker, claimed, claiming>>

\* Nothing of it changes but that claims end.
LEMMA LinesStay ==
    ASSUME LinesOK, UNCHANGED <<seen, sock, grant, toHost, toWorker>>, claimed' \subseteq claimed,
           claiming' \subseteq claiming
    PROVE  LinesOK'
<1>1. \A w \in Workers, m \in HostFrames : Carries(w, m)' => Carries(w, m)
    BY DEF Carries
<1>2. QED  BY <1>1, LinesHold

\* What a socket that was just dialed carries to the host.
LEMMA Dialing ==
    ASSUME SocketsOK, NEW w \in Workers, sock[w] = "dialed"
    PROVE  /\ Head(toHost[w]).leases \in SUBSET Leases
           /\ toHost[w] = <<RegisterMsg(Head(toHost[w]).leases)>>
           /\ toHost[w] # <<>> /\ Tail(toHost[w]) = <<>>
           /\ 1 \in DOMAIN toHost[w] /\ toHost[w][1] = Head(toHost[w])
           /\ toHost[w][1].type = "register"
           /\ toWorker[w] = <<>>
<1>1. PICK C \in SUBSET Leases : toHost[w] = <<RegisterMsg(C)>>
    BY DEF SocketsOK
<1>2. toWorker[w] = <<>>
    BY DEF SocketsOK
<1> DEFINE m == RegisterMsg(C)
<1>3. m.leases = C /\ m.type = "register"
    BY DEF RegisterMsg
<1> HIDE DEF m
<1>4. /\ Head(<<m>>) = m /\ <<m>> # <<>> /\ Tail(<<m>>) = <<>> /\ 1 \in DOMAIN <<m>>
      /\ <<m>>[1] = m
    OBVIOUS
<1>5. toHost[w] = <<m>>
    BY <1>1 DEF m
<1>6. QED  BY <1>2, <1>3, <1>4, <1>5 DEF m

\* A new lease is on no line.
LEMMA UnusedIsNowhere ==
    ASSUME SocketsOK, NEW l \in Unused
    PROVE  /\ l \in Leases /\ Fresh(l) /\ l \notin held \cup claiming \cup stored \cup finishing
           /\ \A w \in Workers : \A m : Carries(w, m) => m.lease # l
           /\ \A w \in Workers : sock[w] = "dialed" => l \notin Head(toHost[w]).leases
           /\ ~Refused(l) /\ Unsent(l)
<1>1. /\ l \in Leases /\ l \notin held \cup claiming \cup stored \cup running \cup claimed \cup finishing
      /\ reports[l] = <<>>
    BY DEF Unused
<1>2. ASSUME NEW w \in Workers, NEW m, Carries(w, m) PROVE m.lease # l
    BY <1>2 DEF Unused, Carries
<1>3. ASSUME NEW w \in Workers, sock[w] = "dialed" PROVE l \notin Head(toHost[w]).leases
  <2>1. 1 \in DOMAIN toHost[w] /\ toHost[w][1] = Head(toHost[w]) /\ toHost[w][1].type = "register"
    BY <1>3, Dialing
  <2>2. QED  BY <2>1 DEF Unused
<1>4. ~Refused(l)
  <2>1. SUFFICES ASSUME NEW w \in Workers, NEW i \in DOMAIN toHost[w],
                        toHost[w][i] = Msg("dispatch-rejected", l)
                 PROVE  FALSE
    BY DEF Refused
  <2>2. toHost[w][i].type # "register" /\ toHost[w][i].lease = l
    BY <2>1 DEF Msg
  <2>3. QED  BY <2>2 DEF Unused
<1>5. Unsent(l)
  <2>1. \A w \in Workers : ~Carries(w, Msg("dispatch", l))
    BY <1>2 DEF Msg
  <2>2. QED  BY <2>1, UnsentIs
<1>6. QED  BY <1>1, <1>2, <1>3, <1>4, <1>5 DEF Fresh

\* A new lease is on no socket yet.
LEMMA IssueKeepsLines ==
    ASSUME SocketsOK, SchedulerOK, BooksOK, LinesOK, NEW l \in Unused, NEW w \in Placements,
           NEW r \in Runs, Issue(l, w, r),
           UNCHANGED <<finishing, running, aborted, claimed, seen, sock, toHost, toWorker>>
    PROVE  LinesOK'
<1>1. \A m \in Leases : m # l => grant'[m] = grant[m] /\ WorkerOf(m)' = WorkerOf(m)
    BY IssueKeepsBooks DEF WorkerOf
<1>2. claiming' = claiming \cup {l}
    BY DEF Issue
<1>3. ASSUME NEW v \in Workers, NEW m \in HostFrames, Carries(v, m)'
      PROVE  grant'[m.lease] # None /\ WorkerOf(m.lease)' = v
  <2>1. Carries(v, m)
    BY <1>3 DEF Carries
  <2>2. m.lease # l /\ m.lease \in Leases
    BY <2>1, UnusedIsNowhere, CarriedFrames
  <2>3. QED  BY <1>1, <2>1, <2>2 DEF LinesOK
<1>4. ASSUME NEW v \in Workers, sock[v] = "dialed"
      PROVE  /\ ClaimedBy(v)' \subseteq Head(toHost[v]).leases
             /\ \A m \in Head(toHost[v]).leases :
                  m \notin claiming' /\ grant'[m] # None /\ WorkerOf(m)' = v
  <2>1. l \notin Head(toHost[v]).leases /\ l \notin claimed /\ Head(toHost[v]).leases \subseteq Leases
    BY <1>4, UnusedIsNowhere, Dialing DEF Fresh
  <2>2. ClaimedBy(v)' \subseteq ClaimedBy(v)
    BY <1>1, <2>1 DEF ClaimedBy, BooksOK
  <2>3. QED  BY <1>1, <1>2, <1>4, <2>1, <2>2 DEF LinesOK
<1>5. QED  BY <1>3, <1>4 DEF LinesOK

\* A dial registers what the worker claims.
LEMMA DialKeepsLines ==
    ASSUME SocketsOK, BooksOK, LinesOK, BegunOnce, NEW w \in Workers, Dial(w) PROVE LinesOK'
<1>1. /\ sock' = [sock EXCEPT ![w] = "dialed"] /\ sock[w] = "none"
      /\ toHost' = [toHost EXCEPT ![w] = <<RegisterMsg(ClaimedBy(w))>>]
      /\ UNCHANGED <<seen, grant, claimed, claiming, toWorker>>
    BY DEF Dial, bookVars, workerVars
<1>2. /\ \A v \in Workers : v # w => sock'[v] = sock[v] /\ toHost'[v] = toHost[v]
      /\ sock'[w] = "dialed" /\ toHost'[w] = <<RegisterMsg(ClaimedBy(w))>>
    BY <1>1 DEF SocketsOK
<1>3. Head(<<RegisterMsg(ClaimedBy(w))>>).leases = ClaimedBy(w)
    BY DEF RegisterMsg
<1>4. \A l : WorkerOf(l)' = WorkerOf(l)
    BY <1>1 DEF WorkerOf
<1>5. \A l \in ClaimedBy(w) : l \notin claiming /\ grant[l] # None /\ WorkerOf(l) = w
    BY DEF ClaimedBy, BooksOK, BegunOnce, Fresh
<1>6. \A v \in Workers : \A m : Carries(v, m)' <=> Carries(v, m)
    BY <1>1 DEF Carries
<1>7. \A v \in Workers : ClaimedBy(v)' = ClaimedBy(v)
    BY <1>1, <1>4 DEF ClaimedBy
<1>8. ASSUME NEW v \in Workers
      PROVE  /\ sock'[v] = "live" => seen'[v]
             /\ sock'[v] = "none" => toHost'[v] = <<>>
             /\ \A m \in HostFrames : Carries(v, m)' =>
                  grant'[m.lease] # None /\ WorkerOf(m.lease)' = v
    BY <1>1, <1>2, <1>4, <1>6 DEF LinesOK
<1>9. ASSUME NEW v \in Workers, sock'[v] = "dialed"
      PROVE  /\ ClaimedBy(v)' \subseteq Head(toHost[v])'.leases
             /\ \A l \in Head(toHost[v])'.leases :
                  l \notin claiming' /\ grant'[l] # None /\ WorkerOf(l)' = v
  <2>1. CASE v = w
    BY <1>1, <1>2, <1>3, <1>4, <1>5, <1>7, <2>1
  <2>2. CASE v # w
    BY <1>1, <1>2, <1>4, <1>7, <1>9, <2>2 DEF LinesOK
  <2>3. QED  BY <2>1, <2>2
<1>10. QED  BY <1>1, <1>8, <1>9 DEF LinesOK

\* A concatenation holds what its halves hold.
LEMMA ConcatenationHolds ==
    ASSUME NEW M, NEW s \in Seq(M), NEW t \in Seq(M)
    PROVE  ToSet(s \o t) = ToSet(s) \cup ToSet(t)
<1>1. /\ Len(s) \in Nat /\ Len(t) \in Nat /\ DOMAIN s = 1..Len(s) /\ DOMAIN t = 1..Len(t)
      /\ DOMAIN (s \o t) = 1..(Len(s) + Len(t))
    OBVIOUS
<1>2. ASSUME NEW i \in DOMAIN s PROVE i \in DOMAIN (s \o t) /\ (s \o t)[i] = s[i]
    BY <1>1
<1>3. ASSUME NEW i \in DOMAIN t PROVE Len(s) + i \in DOMAIN (s \o t) /\ (s \o t)[Len(s) + i] = t[i]
  <2>1. Len(s) + i \in 1..(Len(s) + Len(t)) /\ Len(s) + i > Len(s) /\ (Len(s) + i) - Len(s) = i
    BY <1>1
  <2>2. QED  BY <1>1, <2>1
<1>4. \A i \in DOMAIN (s \o t) : \/ \E j \in DOMAIN s : (s \o t)[i] = s[j]
                                 \/ \E j \in DOMAIN t : (s \o t)[i] = t[j]
    BY Concatenating
<1> DEFINE u == s \o t
<1>5. /\ \A i \in DOMAIN s : \E k \in DOMAIN u : u[k] = s[i]
      /\ \A i \in DOMAIN t : \E k \in DOMAIN u : u[k] = t[i]
      /\ \A i \in DOMAIN u : \/ \E j \in DOMAIN s : u[i] = s[j]
                             \/ \E j \in DOMAIN t : u[i] = t[j]
    BY <1>2, <1>3, <1>4
<1> HIDE DEF u
<1>6. ToSet(u) = ToSet(s) \cup ToSet(t)
    BY <1>5 DEF ToSet
<1>7. QED  BY <1>6 DEF u

\* A socket is installed, and answered with what its worker is to drop and to
\* cancel.
Registered(w, C) ==
    /\ C \in SUBSET Leases /\ sock[w] = "dialed"
    /\ \A v \in Workers : v # w =>
        /\ toWorker'[v] = toWorker[v] /\ toHost'[v] = toHost[v]
        /\ sock'[v] = sock[v] /\ seen'[v] = seen[v]
    /\ toHost'[w] = <<>> /\ sock'[w] = "live" /\ seen' = [seen EXCEPT ![w] = TRUE]
    /\ \A n : Carries(w, n)' <=>
        \/ \E l \in Disowned(C) : n = Msg("lease-lost", l)
        \/ \E l \in Replayed(HeldBy(w) \ Unclaimed(w, C)) : n = Msg("cancel", l)

\* That is what a registration comes to.
LEMMA AfterRegistering ==
    ASSUME SocketsOK, BooksOK, NEW w \in Workers, HandleRegister(w),
           NEW C, C = Head(toHost[w]).leases
    PROVE  Registered(w, C)
<1>1. C \in SUBSET Leases /\ Tail(toHost[w]) = <<>> /\ sock[w] = "dialed"
    BY Dialing DEF HandleRegister
<1> DEFINE D == Disowned(C)
           R == Replayed(HeldBy(w) \ Unclaimed(w, C))
           s == SetToSeq({Msg("lease-lost", l) : l \in D})
           t == SetToSeq({Msg("cancel", l) : l \in R})
<1>2. D \in SUBSET Leases /\ R \in SUBSET Leases
    BY <1>1 DEF Disowned, Replayed, HeldBy, BooksOK
<1>3. /\ toWorker' = [toWorker EXCEPT ![w] = s \o t] /\ toHost' = [toHost EXCEPT ![w] = Tail(@)]
      /\ sock' = [sock EXCEPT ![w] = "live"] /\ seen' = [seen EXCEPT ![w] = TRUE]
    BY DEF HandleRegister
<1>4. /\ toWorker'[w] = s \o t /\ toHost'[w] = <<>> /\ sock'[w] = "live"
      /\ \A v \in Workers : v # w =>
            /\ toWorker'[v] = toWorker[v] /\ toHost'[v] = toHost[v]
            /\ sock'[v] = sock[v] /\ seen'[v] = seen[v]
  <2> HIDE DEF s, t
  <2>1. QED  BY <1>1, <1>3 DEF SocketsOK
<1> HIDE DEF D, R
<1>5. /\ s \in Seq({Msg("lease-lost", l) : l \in D})
      /\ \A l \in D : \E i \in DOMAIN s : s[i] = Msg("lease-lost", l)
    BY <1>2, ListedAll
<1>6. /\ t \in Seq({Msg("cancel", l) : l \in R})
      /\ \A l \in R : \E i \in DOMAIN t : t[i] = Msg("cancel", l)
    BY <1>2, ListedAll
<1> HIDE DEF s, t
<1>7. ASSUME NEW n
      PROVE  /\ (\E i \in DOMAIN s : s[i] = n) <=> \E l \in D : n = Msg("lease-lost", l)
             /\ (\E i \in DOMAIN t : t[i] = n) <=> \E l \in R : n = Msg("cancel", l)
  <2>1. \A i \in DOMAIN s : \E l \in D : s[i] = Msg("lease-lost", l)
    BY <1>5
  <2>2. \A i \in DOMAIN t : \E l \in R : t[i] = Msg("cancel", l)
    BY <1>6
  <2>3. QED  BY <1>5, <1>6, <2>1, <2>2
<1>8. ASSUME NEW n
      PROVE  Carries(w, n)' <=> (\E l \in D : n = Msg("lease-lost", l))
                                \/ (\E l \in R : n = Msg("cancel", l))
  <2>1. s \in Seq(HostFrames) /\ t \in Seq(HostFrames)
    <3>1. /\ {Msg("lease-lost", l) : l \in D} \subseteq HostFrames
          /\ {Msg("cancel", l) : l \in R} \subseteq HostFrames
      BY <1>2, HostMessages
    <3>2. QED  BY <1>5, <1>6, <3>1
  <2>2. ToSet(s \o t) = ToSet(s) \cup ToSet(t)
    BY <2>1, ConcatenationHolds
  <2>3. /\ n \in ToSet(s) <=> \E i \in DOMAIN s : s[i] = n
        /\ n \in ToSet(t) <=> \E i \in DOMAIN t : t[i] = n
        /\ n \in ToSet(toWorker'[w]) <=> \E i \in DOMAIN toWorker'[w] : toWorker'[w][i] = n
    BY DEF ToSet
  <2>4. Carries(w, n)' <=> n \in ToSet(s \o t)
    BY <1>4, <2>3 DEF Carries
  <2>5. QED  BY <1>7, <2>2, <2>3, <2>4
<1>9. \A n : Carries(w, n)' <=> (\E l \in D : n = Msg("lease-lost", l))
                                \/ (\E l \in R : n = Msg("cancel", l))
    BY <1>8
<1>10. seen' = [seen EXCEPT ![w] = TRUE]
    BY <1>3
<1> USE DEF D, R
<1>11. QED  BY <1>1, <1>4, <1>9, <1>10 DEF Registered

\* A registration is answered on the socket it came by.
LEMMA RegisterKeepsLines ==
    ASSUME SocketsOK, BooksOK, LinesOK, NEW w \in Workers, HandleRegister(w) PROVE LinesOK'
<1>1. PICK C : C = Head(toHost[w]).leases
    OBVIOUS
<1>2. Registered(w, C)
    BY <1>1, AfterRegistering
<1> USE DEF Registered
<1>3. UNCHANGED <<grant, claimed, claiming>>
    BY DEF HandleRegister, workerVars
<1>4. \A l : WorkerOf(l)' = WorkerOf(l)
    BY <1>3 DEF WorkerOf
<1>5. seen' \in [Workers -> BOOLEAN] /\ seen'[w]
    BY <1>2 DEF LinesOK
<1>6. ASSUME NEW m \in HostFrames, Carries(w, m)'
      PROVE  grant[m.lease] # None /\ WorkerOf(m.lease) = w
  <2>1. CASE \E l \in Disowned(C) : m = Msg("lease-lost", l)
    <3>1. PICK l \in C : m = Msg("lease-lost", l)
      BY <2>1 DEF Disowned
    <3>2. m.lease = l
      BY <3>1 DEF Msg
    <3>3. sock[w] = "dialed" /\ l \in Head(toHost[w]).leases
      BY <1>1, <1>2, <3>1
    <3>4. QED  BY <3>2, <3>3 DEF LinesOK
  <2>2. CASE \E l \in Replayed(HeldBy(w) \ Unclaimed(w, C)) : m = Msg("cancel", l)
    <3>1. PICK l \in HeldBy(w) : m = Msg("cancel", l)
      BY <2>2 DEF Replayed
    <3>2. m.lease = l
      BY <3>1 DEF Msg
    <3>3. QED  BY <3>1, <3>2 DEF HeldBy, BooksOK
  <2>3. QED  BY <1>2, <1>6, <2>1, <2>2
<1>7. ASSUME NEW v \in Workers
      PROVE  /\ sock'[v] = "live" => seen'[v]
             /\ sock'[v] = "none" => toHost'[v] = <<>>
             /\ \A m \in HostFrames : Carries(v, m)' =>
                  grant'[m.lease] # None /\ WorkerOf(m.lease)' = v
  <2>1. CASE v = w
    BY <1>2, <1>3, <1>4, <1>5, <1>6, <2>1
  <2>2. CASE v # w
    BY <1>2, <1>3, <1>4, <2>2 DEF LinesOK, Carries
  <2>3. QED  BY <2>1, <2>2
<1>8. ASSUME NEW v \in Workers, sock'[v] = "dialed"
      PROVE  /\ ClaimedBy(v)' \subseteq Head(toHost[v])'.leases
             /\ \A l \in Head(toHost[v])'.leases :
                  l \notin claiming' /\ grant'[l] # None /\ WorkerOf(l)' = v
  <2>1. v # w /\ sock[v] = "dialed" /\ toHost'[v] = toHost[v]
    BY <1>2, <1>8
  <2>2. ClaimedBy(v)' = ClaimedBy(v)
    BY <1>3, <1>4 DEF ClaimedBy
  <2>3. QED  BY <1>3, <1>4, <2>1, <2>2 DEF LinesOK
<1>9. QED  BY <1>5, <1>7, <1>8 DEF LinesOK

\* A socket that dies carries nothing, the others what they carried.
LEMMA CutKeepsLines ==
    ASSUME SocketsOK, LinesOK, NEW w \in Workers, Cut(w), UNCHANGED <<seen, grant, claiming>>,
           claimed' \subseteq claimed
    PROVE  LinesOK'
<1>1. /\ \A v \in Workers : v # w => sock'[v] = sock[v] /\ toHost'[v] = toHost[v]
      /\ sock'[w] = "none" /\ toHost'[w] = <<>>
    BY DEF Cut, SocketsOK
<1>2. \A v \in Workers : \A n : Carries(v, n)' => Carries(v, n)
    BY AfterCutting
<1>3. \A l : WorkerOf(l)' = WorkerOf(l)
    BY DEF WorkerOf
<1>4. \A v \in Workers : ClaimedBy(v)' \subseteq ClaimedBy(v)
    BY <1>3 DEF ClaimedBy
<1>5. \A v \in Workers : sock'[v] # "none" => v # w
    BY <1>1
<1>6. ASSUME NEW v \in Workers
      PROVE  /\ sock'[v] = "live" => seen'[v]
             /\ sock'[v] = "none" => toHost'[v] = <<>>
             /\ \A m \in HostFrames : Carries(v, m)' =>
                  grant'[m.lease] # None /\ WorkerOf(m.lease)' = v
    BY <1>1, <1>2, <1>3 DEF LinesOK
<1>7. ASSUME NEW v \in Workers, sock'[v] = "dialed"
      PROVE  /\ ClaimedBy(v)' \subseteq Head(toHost[v])'.leases
             /\ \A l \in Head(toHost[v])'.leases :
                  l \notin claiming' /\ grant'[l] # None /\ WorkerOf(l)' = v
  <2>1. sock[v] = "dialed" /\ toHost'[v] = toHost[v]
    BY <1>1, <1>7
  <2>2. QED  BY <1>3, <1>4, <2>1 DEF LinesOK
<1>8. QED  BY <1>6, <1>7 DEF LinesOK

\* The host forgets who was connected, or every line it had.
LEMMA LostLinesAreLost ==
    ASSUME SocketsOK, LinesOK, RestartHost \/ \E w \in Workers : HandleDisconnect(w)
    PROVE  LinesOK'
<1>1. CASE RestartHost
  <2>1. /\ seen' = [w \in Workers |-> FALSE] /\ sock' = [w \in Workers |-> "none"]
        /\ toHost' = [w \in Workers |-> <<>>] /\ toWorker' = [w \in Workers |-> <<>>]
    BY <1>1 DEF RestartHost
  <2>2. \A w \in Workers : \A n : ~Carries(w, n)'
    BY <2>1 DEF Carries
  <2>3. QED  BY <2>1, <2>2 DEF LinesOK
<1>2. ASSUME NEW w \in Workers, HandleDisconnect(w) PROVE LinesOK'
  <2>1. /\ seen' = [seen EXCEPT ![w] = FALSE] /\ sock[w] # "live"
        /\ UNCHANGED <<sock, grant, toHost, toWorker, claimed, claiming>>
    BY <1>2 DEF HandleDisconnect, bookVars, workerVars
  <2>2. seen' \in [Workers -> BOOLEAN] /\ \A v \in Workers : sock'[v] = "live" => seen'[v]
    BY <2>1 DEF LinesOK
  <2>3. /\ \A v \in Workers : \A n : Carries(v, n)' <=> Carries(v, n)
        /\ \A l : WorkerOf(l)' = WorkerOf(l)
        /\ \A v \in Workers : ClaimedBy(v)' = ClaimedBy(v)
    BY <2>1 DEF Carries, WorkerOf, ClaimedBy
  <2>4. QED  BY <2>1, <2>2, <2>3 DEF LinesOK
<1>3. QED  BY <1>1, <1>2

\* A worker reads a frame: it claims only what it is sent, and only then writes
\* to the host.
LEMMA ReadingKeepsLines ==
    ASSUME SocketsOK, LinesOK, NEW w \in Workers,
           \/ HandleDispatch(w) \/ HandleCancel(w) \/ HandleLeaseLost(w)
           \/ HandleRunCompleteAck(w)
    PROVE  LinesOK'
<1>1. PICK f : f = Head(toWorker[w])
    OBVIOUS
<1>2. PICK t \in {"dispatch", "cancel", "lease-lost", "run-complete-ack"} : Receives(w, t)
    BY DEF HandleDispatch, HandleCancel, HandleLeaseLost, HandleRunCompleteAck
<1>3. /\ f \in HostFrames /\ Carries(w, f) /\ sock[w] = "live" /\ f.lease \in Leases
      /\ \A v \in Workers : \A n : Carries(v, n)' => Carries(v, n)
    BY <1>1, <1>2, AfterReceiving
<1>4. WorkerOf(f.lease) = w
    BY <1>3 DEF LinesOK
<1>5. UNCHANGED <<seen, sock, grant, claiming>>
    BY <1>2 DEF Receives, bookVars
<1>6. claimed' \subseteq claimed \cup {f.lease}
    BY <1>1 DEF HandleDispatch, HandleCancel, HandleLeaseLost, HandleRunCompleteAck, Abandon,
                workerVars
<1>7. \A v \in Workers : toHost'[v] = toHost[v] \/ v = w
  <2>1. toHost \in [Workers -> Seq(WorkerFrames)]
    BY DEF SocketsOK
  <2>2. UNCHANGED toHost \/ \E m : toHost' = [toHost EXCEPT ![w] = m]
    BY DEF HandleDispatch, HandleCancel, HandleLeaseLost, HandleRunCompleteAck
  <2>3. QED  BY <2>1, <2>2
<1>8. \A v \in Workers : toHost'[v] = toHost[v] \/ sock[v] = "live"
    BY <1>3, <1>7
<1>9. \A l \in claimed' \ claimed : sock[WorkerOf(l)] = "live"
    BY <1>3, <1>4, <1>6
<1>10. \A v \in Workers, m \in HostFrames : Carries(v, m)' => Carries(v, m)
    BY <1>3
<1>11. QED  BY <1>5, <1>8, <1>9, <1>10, LinesHold

\* No step puts a frame on the wrong line.
LEMMA StepsKeepLines ==
    SocketsOK /\ SchedulerOK /\ BooksOK /\ BuffersOK /\ LinesOK /\ BegunOnce /\ Next => LinesOK'
<1> SUFFICES ASSUME SocketsOK, SchedulerOK, BooksOK, BuffersOK, LinesOK, BegunOnce, Next
             PROVE  LinesOK'
    OBVIOUS
<1>1. CASE DispatchQueued
  <2>1. UNCHANGED <<finishing, running, aborted, claimed, seen, sock, toHost, toWorker>>
    BY <1>1 DEF DispatchQueued, reportVars, workerVars, wireVars
  <2>2. CASE UNCHANGED <<bookVars, asked>>
    BY <2>1, <2>2, LinesStay DEF bookVars
  <2>3. QED  BY <1>1, <2>1, <2>2, DispatchIs, IssueKeepsLines
<1>2. CASE Redrive \/ \E x \in lost : BeginInterrupt(x)
    BY <1>2, LinesStay DEF Redrive, BeginInterrupt, bookVars, workerVars, wireVars
<1>3. ASSUME NEW r \in Runs, SchedulerStep(r) \/ Command(r) PROVE LinesOK'
  <2>1. CASE Cancel(r)
    <3>1. UNCHANGED <<seen, sock, grant, toHost, claiming, claimed>>
      BY <2>1 DEF Cancel, workerVars
    <3>2. CASE CancelHere(r)
      BY <3>1, <3>2, LinesStay DEF CancelHere
    <3>3. CASE CancelOnWorker(r)
      <4> DEFINE l == leaseByRun[r]
      <4>1. l \in Leases /\ grant[l] # None
        BY <3>3 DEF CancelOnWorker, BooksOK
      <4>2. Send(WorkerOf(l), <<Msg("cancel", l)>>) \/ UNCHANGED toWorker
        BY <3>3 DEF CancelOnWorker
      <4> HIDE DEF l
      <4>3. QED  BY <3>1, <4>1, <4>2, SendingKeepsLines
    <3>4. QED  BY <2>1, <3>2, <3>3 DEF Cancel
  <2>2. CASE SchedulerStep(r) \/ Retry(r) \/ FollowUp(r)
    BY <2>2, LinesStay DEF SchedulerStep, Enqueue, Adopt, Requeue, JoinQueue, FollowUpGranted,
        FollowUpRefused, Resume, Retry, FollowUp, StartOver, bookVars, workerVars, wireVars
  <2>3. QED  BY <1>3, <2>1, <2>2 DEF Command
<1>4. ASSUME NEW l \in Leases, HostStep(l) \/ ClaimFails(l) PROVE LinesOK'
  <2>1. CASE ClaimLands(l) \/ FinishCompletion(l)
    <3>1. /\ UNCHANGED <<seen, sock, grant, toHost>>
          /\ claiming' \subseteq claiming /\ claimed' \subseteq claimed
          /\ l \in claiming \cup finishing
          /\ \/ Send(WorkerOf(l), <<Msg("dispatch", l)>>) \/ UNCHANGED toWorker
             \/ Send(WorkerOf(l), <<Msg("run-complete-ack", l)>>)
      BY <2>1 DEF ClaimLands, FinishCompletion, workerVars
    <3>2. grant[l] # None
      BY <3>1, Granted
    <3>3. QED  BY <3>1, <3>2, SendingKeepsLines
  <2>2. CASE ExpireLease(l) \/ AdmitReport(l) \/ ApplyPatch(l) \/ ApplyRunComplete(l) \/ ClaimFails(l)
    BY <2>2, LinesStay DEF ExpireLease, AdmitReport, ApplyPatch, ApplyRunComplete, ClaimFails,
        bookVars, workerVars, wireVars
  <2>3. QED  BY <1>4, <2>1, <2>2 DEF HostStep
<1>5. ASSUME NEW l \in Leases, Execution(l) \/ FenceSelf(l) PROVE LinesOK'
    BY <1>5, LinesStay DEF Execution, BeginAttempt, Checkpoint, FinalizePr, Conclude, SendComplete,
        FenceSelf, Abandon, bookVars, wireVars
<1>6. ASSUME NEW w \in Workers, ConnectionStep(w) PROVE LinesOK'
  <2>1. CASE HandleRegister(w)  BY <2>1, RegisterKeepsLines
  <2>2. CASE HandleDisconnect(w)  BY <2>2, LostLinesAreLost
  <2>3. CASE HandleRejected(w)
    <3>1. /\ UNCHANGED <<seen, sock, grant, toWorker, claimed, claiming>>
          /\ toHost' = [toHost EXCEPT ![w] = Tail(@)] /\ sock[w] = "live"
      BY <2>3 DEF HandleRejected, workerVars
    <3>2. \A v \in Workers : toHost'[v] = toHost[v] \/ sock[v] = "live"
      BY <3>1 DEF SocketsOK
    <3>3. \A v \in Workers, m \in HostFrames : Carries(v, m)' => Carries(v, m)
      BY <3>1 DEF Carries
    <3>4. QED  BY <3>1, <3>2, <3>3, LinesHold
  <2>4. QED  BY <1>6, <2>1, <2>2, <2>3 DEF ConnectionStep
<1>7. ASSUME NEW w \in Workers, DaemonStep(w) PROVE LinesOK'
    BY <1>7, DialKeepsLines, ReadingKeepsLines DEF DaemonStep
<1>8. ASSUME NEW w \in Workers, BreakSocket(w) \/ RestartWorker(w) PROVE LinesOK'
    BY <1>8, CutKeepsLines DEF BreakSocket, RestartWorker, bookVars, workerVars
<1>9. CASE RestartHost  BY <1>9, LostLinesAreLost
<1>10. QED
    BY <1>1, <1>2, <1>3, <1>4, <1>5, <1>6, <1>7, <1>8, <1>9 DEF Next

-----------------------------------------------------------------------------
(* A lease is begun once *)

\* What a step does to what the workers are sent.
LEMMA WhatIsSent ==
    ASSUME BooksOK, Next
    PROVE  \/ UNCHANGED toWorker
           \/ \E l \in Leases, t \in {"dispatch", "cancel", "run-complete-ack"} :
                /\ Send(WorkerOf(l), <<Msg(t, l)>>) /\ WorkerOf(l) \in Workers
                /\ t = "dispatch" => ClaimLands(l) /\ l \in held
           \/ \E w \in Workers, t \in {"dispatch", "cancel", "lease-lost", "run-complete-ack"} :
                /\ Receives(w, t) /\ (t = "dispatch" => HandleDispatch(w))
                /\ t = "cancel" => HandleCancel(w)
                /\ t = "lease-lost" => HandleLeaseLost(w)
           \/ \E w \in Workers : Cut(w) \/ HandleRegister(w)
           \/ RestartHost
<1> DEFINE P == \/ UNCHANGED toWorker
                \/ \E l \in Leases, t \in {"dispatch", "cancel", "run-complete-ack"} :
                    /\ Send(WorkerOf(l), <<Msg(t, l)>>) /\ WorkerOf(l) \in Workers
                    /\ t = "dispatch" => ClaimLands(l) /\ l \in held
                \/ \E w \in Workers, t \in {"dispatch", "cancel", "lease-lost", "run-complete-ack"} :
                    /\ Receives(w, t) /\ (t = "dispatch" => HandleDispatch(w))
                    /\ t = "cancel" => HandleCancel(w)
                    /\ t = "lease-lost" => HandleLeaseLost(w)
                \/ \E w \in Workers : Cut(w) \/ HandleRegister(w)
                \/ RestartHost
<1>1. ASSUME NEW r \in Runs, Cancel(r) PROVE P
  <2>1. CASE CancelHere(r)
    BY <2>1 DEF CancelHere
  <2>2. CASE CancelOnWorker(r)
    <3>1. leaseByRun[r] \in held
      BY <2>2 DEF CancelOnWorker, BooksOK
    <3>2. leaseByRun[r] \in Leases /\ WorkerOf(leaseByRun[r]) \in Workers
      BY <3>1, Granted
    <3>3. UNCHANGED toWorker \/ Send(WorkerOf(leaseByRun[r]), <<Msg("cancel", leaseByRun[r])>>)
      BY <2>2 DEF CancelOnWorker
    <3>4. QED  BY <3>2, <3>3
  <2>3. QED  BY <1>1, <2>1, <2>2 DEF Cancel
<1>2. ASSUME NEW l \in Leases, FinishCompletion(l) PROVE P
  <2>1. WorkerOf(l) \in Workers
    BY <1>2, Granted DEF FinishCompletion
  <2>2. UNCHANGED toWorker \/ Send(WorkerOf(l), <<Msg("run-complete-ack", l)>>)
    BY <1>2 DEF FinishCompletion
  <2>3. QED  BY <2>1, <2>2
<1>3. ASSUME NEW l \in Leases, ClaimLands(l) PROVE P
  <2>1. WorkerOf(l) \in Workers
    BY <1>3, Granted DEF ClaimLands
  <2>2. UNCHANGED toWorker \/ (l \in held /\ Send(WorkerOf(l), <<Msg("dispatch", l)>>))
    BY <1>3 DEF ClaimLands
  <2>3. QED  BY <1>3, <2>1, <2>2
<1>4. ASSUME NEW w \in Workers,
             \/ HandleDispatch(w) \/ HandleCancel(w) \/ HandleLeaseLost(w)
             \/ HandleRunCompleteAck(w)
      PROVE  P
    BY <1>4 DEF HandleDispatch, HandleCancel, HandleLeaseLost, HandleRunCompleteAck
<1>5. ASSUME NEW w \in Workers, BreakSocket(w) \/ RestartWorker(w) \/ HandleRegister(w) PROVE P
    BY <1>5 DEF BreakSocket, RestartWorker
<1>6. ASSUME \A r \in Runs : ~Cancel(r), \A l \in Leases : ~FinishCompletion(l) /\ ~ClaimLands(l),
             \A w \in Workers : /\ ~HandleDispatch(w) /\ ~HandleCancel(w) /\ ~HandleLeaseLost(w)
                                /\ ~HandleRunCompleteAck(w) /\ ~BreakSocket(w) /\ ~RestartWorker(w)
                                /\ ~HandleRegister(w),
             ~RestartHost
      PROVE  UNCHANGED toWorker
    BY ZenonT(60), <1>6 DEF Next, DispatchQueued, Redrive, BeginInterrupt, SchedulerStep, Command, Enqueue,
                Adopt, Requeue, JoinQueue, FollowUpGranted, FollowUpRefused, Resume, Retry,
                FollowUp, StartOver, HostStep, ExpireLease, AdmitReport, ApplyPatch,
                ApplyRunComplete, ClaimFails, Execution, BeginAttempt, Checkpoint, FinalizePr,
                Conclude, SendComplete, FenceSelf, ConnectionStep, HandleRejected, HandleDisconnect,
                DaemonStep, Dial, wireVars
<1> HIDE DEF P
<1>7. P
  <2>1. CASE RestartHost
    BY <2>1 DEF P
  <2>2. CASE UNCHANGED toWorker
    BY <2>2 DEF P
  <2>3. QED  BY <1>1, <1>2, <1>3, <1>4, <1>5, <1>6, <2>1, <2>2
<1>8. QED  BY <1>7 DEF P

\* A boot leaves nothing on its way.
LEMMA NothingAtBoot ==
    ASSUME RestartHost
    PROVE  /\ \A w \in Workers : \A n : ~Carries(w, n)'
           /\ \A w \in Workers : NoRepeat(w)'
           /\ \A l : Unsent(l)' /\ ~Refused(l)'
<1>1. toHost' = [w \in Workers |-> <<>>] /\ toWorker' = [w \in Workers |-> <<>>]
    BY DEF RestartHost
<1>2. QED  BY <1>1 DEF Carries, NoRepeat, Unsent, Refused

\* A registration sends no dispatch.
LEMMA NoDispatchAtRegistration ==
    ASSUME SocketsOK, BooksOK, NEW w \in Workers, HandleRegister(w)
    PROVE  /\ \A v \in Workers : \A l : Carries(v, Msg("dispatch", l))' => Carries(v, Msg("dispatch", l))
           /\ \A v \in Workers : NoRepeat(v) => NoRepeat(v)'
<1>1. PICK C : C = Head(toHost[w]).leases
    OBVIOUS
<1>2. Registered(w, C)
    BY <1>1, AfterRegistering
<1>3. \A n : Carries(w, n)' => n.type # "dispatch"
    BY <1>2, HostMessages DEF Registered, Msg
<1>4. \A v \in Workers : v # w => toWorker'[v] = toWorker[v]
    BY <1>2 DEF Registered
<1>5. \A v \in Workers : \A l : Carries(v, Msg("dispatch", l))' => Carries(v, Msg("dispatch", l))
  <2>1. \A l : Msg("dispatch", l).type = "dispatch"
    BY DEF Msg
  <2>2. QED  BY <1>3, <1>4, <2>1 DEF Carries
<1>6. NoRepeat(w)'
    BY <1>3 DEF NoRepeat, Carries
<1>7. \A v \in Workers : v # w => (NoRepeat(v) => NoRepeat(v)')
    BY <1>4 DEF NoRepeat
<1>8. QED  BY <1>5, <1>6, <1>7

\* A dispatch goes out when its claim lands, and no other way; none is repeated.
LEMMA DispatchesGoOutOnce ==
    ASSUME RecordInv, BooksOK, Next
    PROVE  /\ \A w \in Workers : \A l : Carries(w, Msg("dispatch", l))' =>
                Carries(w, Msg("dispatch", l)) \/ (l \in Leases /\ ClaimLands(l) /\ l \in held)
           /\ \A w \in Workers : NoRepeat(w) => NoRepeat(w)'
<1> DEFINE P == /\ \A w \in Workers : \A l : Carries(w, Msg("dispatch", l))' =>
                    Carries(w, Msg("dispatch", l)) \/ (l \in Leases /\ ClaimLands(l) /\ l \in held)
                /\ \A w \in Workers : NoRepeat(w) => NoRepeat(w)'
<1>0. SocketsOK
    BY DEF RecordInv
<1>1. ASSUME UNCHANGED toWorker PROVE P
    BY <1>1 DEF Carries, NoRepeat
<1>2. ASSUME NEW l \in Leases, NEW t \in {"dispatch", "cancel", "run-complete-ack"},
             Send(WorkerOf(l), <<Msg(t, l)>>), WorkerOf(l) \in Workers,
             t = "dispatch" => ClaimLands(l) /\ l \in held
      PROVE  P
  <2> DEFINE v == WorkerOf(l)
             m == Msg(t, l)
  <2>1. m \in HostFrames /\ m.type = t /\ m.lease = l
    BY HostMessages
  <2>2. t = "dispatch" => ~Carries(v, m)
    <3>1. SUFFICES ASSUME t = "dispatch" PROVE ~Carries(v, m)
      OBVIOUS
    <3>2. Unsent(l)
      BY <1>2, <3>1 DEF ClaimLands, RecordInv
    <3>3. QED  BY <1>2, <3>1, <3>2, UnsentIs
  <2>3. ASSUME NEW w \in Workers, NEW k, Carries(w, Msg("dispatch", k))'
        PROVE  Carries(w, Msg("dispatch", k)) \/ (k \in Leases /\ ClaimLands(k) /\ k \in held)
    <3>1. Carries(w, Msg("dispatch", k)) \/ Msg("dispatch", k) = m
      BY <1>0, <1>2, <2>1, <2>3, AfterSending
    <3>2. Msg("dispatch", k) = m => k = l /\ t = "dispatch"
      BY DEF Msg
    <3>3. QED  BY <1>2, <3>1, <3>2
  <2>4. ASSUME NEW w \in Workers, NoRepeat(w) PROVE NoRepeat(w)'
    BY <1>0, <1>2, <2>1, <2>2, <2>4, AfterSending
  <2>5. QED  BY <2>3, <2>4
<1>3. ASSUME NEW v \in Workers, NEW t \in {"dispatch", "cancel", "lease-lost", "run-complete-ack"},
             Receives(v, t)
      PROVE  P
  <2>1. PICK f : f = Head(toWorker[v])
    OBVIOUS
  <2>2. /\ \A w \in Workers : \A n : Carries(w, n)' => Carries(w, n)
        /\ \A w \in Workers : NoRepeat(w) => NoRepeat(w)'
    BY <1>0, <1>3, <2>1, AfterReceiving
  <2>3. QED  BY <2>2
<1>4. ASSUME NEW v \in Workers, Cut(v) PROVE P
    BY <1>0, <1>4, AfterCutting
<1>5. ASSUME NEW v \in Workers, HandleRegister(v) PROVE P
    BY <1>0, <1>5, NoDispatchAtRegistration
<1>6. ASSUME RestartHost PROVE P
    BY <1>6, NothingAtBoot
<1> HIDE DEF P
<1>7. P
    BY <1>1, <1>2, <1>3, <1>4, <1>5, <1>6, WhatIsSent
<1>8. QED  BY <1>7 DEF P

\* A refusal is what becomes of a dispatch that arrives.
LEMMA RefusalsAreOfDispatches ==
    ASSUME SocketsOK, Next, NEW l, Refused(l)'
    PROVE  Refused(l) \/ \E w \in Workers : /\ HandleDispatch(w) /\ l = Head(toWorker[w]).lease
                                            /\ UNCHANGED workerVars
<1>0. toHost \in [Workers -> Seq(WorkerFrames)]
    BY DEF SocketsOK
<1>1. ASSUME UNCHANGED toHost PROVE Refused(l)
    BY <1>1 DEF Refused
<1>2. ASSUME NEW w \in Workers, HandleRejected(w) \/ HandleRegister(w) PROVE Refused(l)
  <2> DEFINE s == toHost[w]
  <2>1. s # <<>> /\ toHost' = [toHost EXCEPT ![w] = Tail(s)]
    BY <1>2 DEF HandleRejected, HandleRegister
  <2>2. s \in Seq(WorkerFrames)
    BY <1>0
  <2>3. \A i \in DOMAIN Tail(s) : \E j \in DOMAIN s : Tail(s)[i] = s[j]
    BY <2>1, <2>2, TakingTheHead
  <2>4. \A v \in Workers : toHost'[v] = IF v = w THEN Tail(s) ELSE toHost[v]
    BY <1>0, <2>1
  <2>5. PICK v, i : v \in Workers /\ i \in DOMAIN toHost'[v] /\ toHost'[v][i] = Msg("dispatch-rejected", l)
    BY DEF Refused
  <2>6. CASE v = w
    BY ZenonT(60), <2>3, <2>4, <2>5, <2>6 DEF Refused
  <2>7. CASE v # w
    BY <2>4, <2>5, <2>7 DEF Refused
  <2>8. QED  BY <2>6, <2>7
<1>3. ASSUME NEW w \in Workers, Dial(w) PROVE Refused(l)
  <2>1. \A v \in Workers : toHost'[v] = IF v = w THEN <<RegisterMsg(ClaimedBy(w))>> ELSE toHost[v]
    BY <1>0, <1>3 DEF Dial
  <2>2. RegisterMsg(ClaimedBy(w)) # Msg("dispatch-rejected", l)
    BY DEF RegisterMsg, Msg
  <2>3. \A m : \A i \in DOMAIN <<m>> : <<m>>[i] = m
    OBVIOUS
  <2>4. PICK v, i : v \in Workers /\ i \in DOMAIN toHost'[v] /\ toHost'[v][i] = Msg("dispatch-rejected", l)
    BY DEF Refused
  <2>5. v # w
    BY <2>1, <2>2, <2>3, <2>4
  <2>6. QED  BY <2>1, <2>4, <2>5 DEF Refused
<1>4. ASSUME NEW w \in Workers, HandleDispatch(w), toHost' # toHost, ~Refused(l)
      PROVE  l = Head(toWorker[w]).lease /\ UNCHANGED workerVars
  <2> DEFINE s == toHost[w]
             k == Head(toWorker[w]).lease
             m == Msg("dispatch-rejected", k)
  <2>1. toHost' = [toHost EXCEPT ![w] = Append(s, m)] /\ UNCHANGED workerVars
    BY <1>4 DEF HandleDispatch
  <2>2. s \in Seq(WorkerFrames)
    BY <1>0
  <2>3. PICK v, i : v \in Workers /\ i \in DOMAIN toHost'[v] /\ toHost'[v][i] = Msg("dispatch-rejected", l)
    BY DEF Refused
  <2>4. \A u \in Workers : toHost'[u] = IF u = w THEN Append(s, m) ELSE toHost[u]
    BY <1>0, <2>1
  <2>5. v = w
    BY <1>4, <2>3, <2>4 DEF Refused
  <2> HIDE DEF m
  <2>6. /\ Len(s) \in Nat /\ DOMAIN s = 1..Len(s) /\ DOMAIN Append(s, m) = 1..(Len(s) + 1)
        /\ \A j \in 1..Len(s) : Append(s, m)[j] = s[j]
        /\ Append(s, m)[Len(s) + 1] = m
    BY <2>2
  <2>7. \A j \in 1..(Len(s) + 1) : j \in 1..Len(s) \/ j = Len(s) + 1
    BY <2>6
  <2>8. \A j \in 1..Len(s) : s[j] # Msg("dispatch-rejected", l)
    BY <1>4, <2>6 DEF Refused
  <2>9. toHost'[v] = Append(s, m)
    BY <2>4, <2>5
  <2> HIDE DEF s
  <2>10. m = Msg("dispatch-rejected", l)
    BY <2>3, <2>6, <2>7, <2>8, <2>9
  <2>11. k = l
    BY <2>10 DEF m, Msg
  <2>12. QED  BY <2>1, <2>11
<1>5. ASSUME NEW w \in Workers, Cut(w) PROVE Refused(l)
    BY <1>5, AfterCutting
<1>6. ASSUME RestartHost PROVE FALSE
    BY <1>6, NothingAtBoot
<1>7. ASSUME \A w \in Workers : /\ ~HandleRejected(w) /\ ~HandleRegister(w) /\ ~Dial(w)
                                /\ ~HandleDispatch(w) /\ ~BreakSocket(w) /\ ~RestartWorker(w),
             ~RestartHost
      PROVE  UNCHANGED toHost
    BY ZenonT(60), <1>7 DEF Next, DispatchQueued, Redrive, BeginInterrupt, SchedulerStep, Command, Enqueue,
                Adopt, Requeue, JoinQueue, FollowUpGranted, FollowUpRefused, Resume, Cancel, Retry,
                FollowUp, StartOver, HostStep, ClaimLands, ExpireLease, AdmitReport, ApplyPatch,
                ApplyRunComplete, FinishCompletion, ClaimFails, Execution, BeginAttempt, Checkpoint,
                FinalizePr, Conclude, SendComplete, FenceSelf, ConnectionStep, HandleDisconnect,
                DaemonStep, HandleCancel, HandleLeaseLost, HandleRunCompleteAck, wireVars
<1>8. ASSUME NEW w \in Workers, BreakSocket(w) \/ RestartWorker(w) PROVE Refused(l)
    BY <1>5, <1>8 DEF BreakSocket, RestartWorker
<1>9. QED  BY <1>1, <1>2, <1>3, <1>4, <1>6, <1>7, <1>8

\* What nobody has begun stays so until its dispatch arrives.
LEMMA FreshStays ==
    ASSUME SocketsOK, BuffersOK, LastWords, Next, NEW l \in Leases, Fresh(l),
           ~\E w \in Workers : HandleDispatch(w) /\ l = Head(toWorker[w]).lease
    PROVE  Fresh(l)'
<1>1. l \notin running' \cup claimed'
    BY WhoBegins DEF Fresh
<1>2. reports[l] = <<>> /\ l \notin running
    BY DEF Fresh
<1>3. admitted[l] = 0
  <2>1. admitted[l] \in Nat /\ admitted[l] <= Len(reports[l])
    BY DEF BuffersOK
  <2>2. Len(<<>>) = 0
    OBVIOUS
  <2>3. QED  BY <1>2, <2>1, <2>2
<1>4. Forgotten(l) = <<>>
  <2>1. Forgotten(l) \in Seq(Reports) /\ Len(Forgotten(l)) = 0
    BY <1>3, ForgottenIs
  <2>2. QED  BY <2>1
<1>5. reports'[l] = <<>>
    BY <1>2, <1>3, <1>4, WhatBuffersDo DEF BufferStep
<1>6. QED  BY <1>1, <1>5 DEF Fresh

\* A lease whose worker is connected is not settled, unless its claim fails, it
\* is refused or it completes.
LEMMA ConnectedStaysHeld ==
    ASSUME SocketsOK, SchedulerOK, BooksOK, LinesOK, Next, ~RestartHost, NEW l \in held,
           l \notin claiming, l \notin finishing, ~Refused(l), sock[WorkerOf(l)] = "live"
    PROVE  l \in held'
<1> DEFINE w == WorkerOf(l)
<1>1. l \in held /\ ~Refused(l) /\ l \notin claiming /\ SocketsOK
    OBVIOUS
<1>2. w \in Workers /\ l \in Leases
    BY Granted
<1>3. WorkerOf(l) = w /\ sock[w] = "live" /\ seen[w]
    BY <1>2 DEF LinesOK
<1>4. l \notin finishing
    OBVIOUS
<1> HIDE DEF w
<1>6. ASSUME NEW S, Settle(S), l \notin S PROVE l \in held'
    BY <1>1, <1>6 DEF Settle
<1>7. ASSUME NEW k \in Leases, ClaimFails(k) \/ ExpireLease(k) \/ FinishCompletion(k)
      PROVE  l \in held'
  <2>1. k # l
    BY <1>1, <1>3, <1>4, <1>7 DEF ClaimFails, ExpireLease, FinishCompletion
  <2>2. Settle({k}) \/ UNCHANGED held
    BY <1>7 DEF ClaimFails, ExpireLease, FinishCompletion
  <2>3. QED  BY <1>1, <1>6, <2>1, <2>2
<1>8. ASSUME NEW v \in Workers, HandleRejected(v) PROVE l \in held'
  <2>1. /\ toHost[v] # <<>> /\ Head(toHost[v]).type = "dispatch-rejected"
        /\ UNCHANGED held \/ Settle({Head(toHost[v]).lease})
    BY <1>8 DEF HandleRejected
  <2>2. toHost[v] \in Seq(WorkerFrames)
    BY <1>1 DEF SocketsOK
  <2>3. Head(toHost[v]) \in WorkerFrames /\ 1 \in DOMAIN toHost[v] /\ Head(toHost[v]) = toHost[v][1]
    BY <2>1, <2>2, TakingTheHead
  <2>4. Head(toHost[v]) = Msg("dispatch-rejected", Head(toHost[v]).lease)
    BY <2>1, <2>3 DEF WorkerFrames, Msg
  <2>5. Refused(Head(toHost[v]).lease)
    BY <2>3, <2>4 DEF Refused
  <2>6. QED  BY <1>1, <1>6, <2>1, <2>5
<1>9. ASSUME NEW v \in Workers, HandleRegister(v) PROVE l \in held'
  <2>1. sock[v] = "dialed"
    BY <1>9 DEF HandleRegister
  <2>2. v # w
    BY <1>3, <2>1
  <2>3. Settle(Unclaimed(v, Head(toHost[v]).leases))
    BY <1>9 DEF HandleRegister
  <2>4. l \notin Unclaimed(v, Head(toHost[v]).leases)
    BY <1>3, <2>2 DEF Unclaimed, HeldBy
  <2>5. QED  BY <1>6, <2>3, <2>4
<1>10. CASE DispatchQueued
  <2>1. held \subseteq held'
    BY <1>10, DispatchIs DEF bookVars, Issue
  <2>2. QED  BY <1>1, <2>1
<1>11. ASSUME \A k \in Leases : ~ClaimFails(k) /\ ~ExpireLease(k) /\ ~FinishCompletion(k),
              \A v \in Workers : ~HandleRejected(v) /\ ~HandleRegister(v),
              ~DispatchQueued
       PROVE  UNCHANGED held
    BY ZenonT(60), <1>11 DEF Next, Redrive, BeginInterrupt, SchedulerStep, Command, Enqueue, Adopt,
                Requeue, JoinQueue, FollowUpGranted, FollowUpRefused, Resume, Cancel, Retry, FollowUp,
                StartOver, HostStep, ClaimLands, AdmitReport, ApplyPatch, ApplyRunComplete,
                Execution, BeginAttempt, Checkpoint, FinalizePr, Conclude, SendComplete, FenceSelf,
                ConnectionStep, HandleDisconnect, DaemonStep, Dial, HandleDispatch, HandleCancel,
                HandleLeaseLost, HandleRunCompleteAck, Receives, BreakSocket, RestartWorker,
                bookVars
<1>12. QED
    BY <1>1, <1>7, <1>8, <1>9, <1>10, <1>11

\* A lease whose dispatch is on its way is not settled.
LEMMA DispatchedStaysHeld ==
    ASSUME RecordInv, SchedulerOK, BooksOK, BuffersOK, LinesOK, BegunOnce, LastWords, Next,
           NEW l \in Leases, ~Unsent(l), ~Unsent(l)'
    PROVE  l \in held'
<1>1. /\ l \in held /\ Fresh(l) /\ ~Refused(l) /\ l \notin claiming /\ SocketsOK
    BY DEF BegunOnce, RecordInv
<1>2. PICK w \in Workers : Carries(w, Msg("dispatch", l))
    BY UnsentIs
<1>3. WorkerOf(l) = w /\ sock[w] = "live" /\ seen[w]
  <2>1. Msg("dispatch", l) \in HostFrames /\ Msg("dispatch", l).lease = l
    BY HostMessages
  <2>2. QED  BY <1>1, <1>2, <2>1, CarriedFrames DEF LinesOK
<1>4. l \notin finishing
  <2>1. ASSUME l \in finishing PROVE FALSE
    <3>1. admitted[l] > 0
      BY <2>1 DEF LastWords
    <3>2. reports[l] # <<>>
      BY <3>1, AdmittedAre
    <3>3. QED  BY <1>1, <3>2 DEF Fresh
  <2>2. QED  BY <2>1
<1>5. CASE RestartHost
    BY <1>5, NothingAtBoot
<1>6. QED  BY <1>1, <1>3, <1>4, <1>5, ConnectedStaysHeld

\* A lease is claimed when it is issued.
LEMMA ClaimedAtIssue ==
    ASSUME SchedulerOK, Next, NEW l \in claiming' \ claiming
    PROVE  /\ l \in Unused
           /\ UNCHANGED <<running, claimed, aborted, stage, reports, toHost, toWorker, sock, seen>>
           /\ \E w \in Placements, r \in Runs : Issue(l, w, r)
<1>1. CASE DispatchQueued
  <2>1. PICK m \in Unused, w \in Placements, r \in Runs : Issue(m, w, r)
    BY <1>1, DispatchIs DEF bookVars
  <2>2. m = l
    BY <2>1 DEF Issue
  <2>3. UNCHANGED <<running, claimed, aborted, stage, reports, toHost, toWorker, sock, seen>>
    BY <1>1 DEF DispatchQueued, workerVars, wireVars
  <2>4. QED  BY <2>1, <2>2, <2>3
<1>2. CASE ~DispatchQueued
  <2>1. claiming' \subseteq claiming
    BY ZenonT(60), <1>2 DEF Next, Redrive, BeginInterrupt, SchedulerStep, Command, Enqueue, Adopt, Requeue,
                JoinQueue, FollowUpGranted, FollowUpRefused, Resume, Cancel, Retry, FollowUp,
                StartOver, HostStep, ClaimLands, ExpireLease, AdmitReport, ApplyPatch,
                ApplyRunComplete, FinishCompletion, ClaimFails, Execution, BeginAttempt, Checkpoint,
                FinalizePr, Conclude, SendComplete, FenceSelf, ConnectionStep, HandleRegister,
                HandleRejected, HandleDisconnect, DaemonStep, Dial, HandleDispatch, HandleCancel,
                HandleLeaseLost, HandleRunCompleteAck, Receives, BreakSocket, RestartWorker,
                RestartHost, bookVars
  <2>2. QED  BY <2>1
<1>3. QED  BY <1>1, <1>2

\* A dispatch that arrives was on its way, and is no longer.
LEMMA ArrivalsAreOver ==
    ASSUME SocketsOK, LinesOK, BegunOnce, NEW w \in Workers, HandleDispatch(w),
           NEW l, l = Head(toWorker[w]).lease
    PROVE  ~Unsent(l) /\ Unsent(l)' /\ l \in Leases
<1>1. PICK f : f = Head(toWorker[w])
    OBVIOUS
<1>2. /\ f \in HostFrames /\ f = Msg("dispatch", l) /\ l \in Leases /\ Carries(w, f)
      /\ \A v \in Workers : \A n : Carries(v, n)' => Carries(v, n)
      /\ NoRepeat(w) => ~Carries(w, f)'
    BY <1>1, AfterReceiving DEF HandleDispatch
<1>3. ~Unsent(l)
    BY <1>2, UnsentIs
<1>4. NoRepeat(w)
    BY DEF BegunOnce
<1>5. ASSUME NEW v \in Workers, Carries(v, f)' PROVE FALSE
  <2>1. Carries(v, f)
    BY <1>2, <1>5
  <2>2. f.lease = l
    BY <1>2 DEF Msg
  <2>3. v = w
    BY <1>2, <2>1, <2>2 DEF LinesOK
  <2>4. QED  BY <1>2, <1>4, <1>5, <2>3
<1>6. \A v \in Workers : ~Carries(v, Msg("dispatch", l))'
    BY <1>2, <1>5
<1>7. Unsent(l)'
    BY <1>6 DEF Unsent, Carries
<1>8. QED  BY <1>2, <1>3, <1>7

\* No step begins a lease twice, or dispatches it again.
LEMMA StepsKeepBegunOnce ==
    ASSUME RecordInv, SchedulerOK, BooksOK, BuffersOK, LinesOK, BegunOnce, LastWords, Next
    PROVE  BegunOnce'
<1>0. SocketsOK
    BY DEF RecordInv
<1> DEFINE Arrives(l) == \E w \in Workers : HandleDispatch(w) /\ l = Head(toWorker[w]).lease
<1>1. ASSUME NEW l, Arrives(l)
      PROVE  ~Unsent(l) /\ Unsent(l)' /\ l \in Leases
    BY <1>0, <1>1, ArrivalsAreOver
<1>2. ASSUME NEW l \in Leases, Fresh(l), ~Refused(l), ~Arrives(l)
      PROVE  Fresh(l)' /\ ~Refused(l)'
    BY <1>0, <1>2, FreshStays, RefusalsAreOfDispatches
<1>3. ASSUME NEW l \in claiming' PROVE Fresh(l)' /\ ~Refused(l)'
  <2>1. CASE l \in claiming
    <3>1. Fresh(l) /\ ~Refused(l) /\ Unsent(l) /\ l \in Leases
      BY <2>1 DEF BegunOnce, RecordInv
    <3>2. ~Arrives(l)
      BY <1>1, <3>1
    <3>3. QED  BY <1>2, <3>1, <3>2
  <2>2. CASE l \notin claiming
    <3>1. /\ l \in Unused
          /\ UNCHANGED <<running, claimed, reports, toHost>>
      BY <1>3, <2>2, ClaimedAtIssue
    <3>2. Fresh(l) /\ ~Refused(l)
      BY <1>0, <3>1, UnusedIsNowhere
    <3>3. QED  BY <3>1, <3>2 DEF Fresh, Refused
  <2>3. QED  BY <2>1, <2>2
<1>4. ASSUME NEW l \in Leases, ~Unsent(l)' PROVE l \in held' /\ Fresh(l)' /\ ~Refused(l)'
  <2>1. CASE ~Unsent(l)
    <3>1. Fresh(l) /\ ~Refused(l)
      BY <2>1 DEF BegunOnce
    <3>2. ~Arrives(l)
      BY <1>1, <1>4
    <3>3. QED  BY <1>2, <1>4, <2>1, <3>1, <3>2, DispatchedStaysHeld
  <2>2. CASE Unsent(l)
    <3>1. PICK w \in Workers : Carries(w, Msg("dispatch", l))'
      BY <1>4 DEF Unsent, Carries
    <3>2. ~Carries(w, Msg("dispatch", l))
      BY <2>2, UnsentIs
    <3>3. ClaimLands(l) /\ l \in held
      BY <3>1, <3>2, DispatchesGoOutOnce
    <3>4. Fresh(l) /\ ~Refused(l)
      BY <3>3 DEF BegunOnce, ClaimLands
    <3>5. UNCHANGED <<held, running, claimed, reports, toHost>>
      BY <3>3 DEF ClaimLands, workerVars
    <3>6. QED  BY <3>3, <3>4, <3>5 DEF Fresh, Refused
  <2>3. QED  BY <2>1, <2>2
<1>5. ASSUME NEW l \in Leases, Refused(l)' PROVE Fresh(l)'
  <2>1. CASE Refused(l)
    <3>1. Fresh(l) /\ Unsent(l)
      BY <2>1 DEF BegunOnce
    <3>2. ~Arrives(l)
      BY <1>1, <3>1
    <3>3. QED  BY <1>0, <3>1, <3>2, FreshStays
  <2>2. CASE ~Refused(l)
    <3>1. Arrives(l) /\ UNCHANGED workerVars
      BY <1>0, <1>5, <2>2, RefusalsAreOfDispatches
    <3>2. Fresh(l)
      BY <1>1, <3>1 DEF BegunOnce
    <3>3. QED  BY <3>1, <3>2 DEF Fresh, workerVars
  <2>3. QED  BY <2>1, <2>2
<1>6. \A w \in Workers : NoRepeat(w)'
    BY DispatchesGoOutOnce DEF BegunOnce
<1>7. QED  BY <1>3, <1>4, <1>5, <1>6 DEF BegunOnce

-----------------------------------------------------------------------------
(* Connected executions are owned *)

\* A socket is live once its registration was handled.
LEMMA LiveByRegistration ==
    ASSUME SocketsOK, Next, NEW w \in Workers, sock'[w] = "live"
    PROVE  (sock[w] = "live" /\ ~RestartHost /\ ~Cut(w)) \/ HandleRegister(w)
<1>1. sock \in [Workers -> {"none", "dialed", "live"}]
    BY DEF SocketsOK
<1>2. ASSUME RestartHost \/ Cut(w) PROVE FALSE
  <2>1. sock'[w] = "none"
    BY <1>1, <1>2 DEF RestartHost, Cut
  <2>2. QED  BY <2>1
<1>3. ASSUME NEW v \in Workers, HandleRegister(v), v # w PROVE sock[w] = "live"
    BY <1>1, <1>3 DEF HandleRegister
<1>4. ASSUME NEW v \in Workers, Dial(v) \/ Cut(v) PROVE sock[w] = "live"
  <2>1. sock' = [sock EXCEPT ![v] = "dialed"] \/ sock' = [sock EXCEPT ![v] = "none"]
    BY <1>4 DEF Dial, Cut
  <2>2. QED  BY <1>1, <2>1
<1>5. ASSUME \A v \in Workers : ~HandleRegister(v) /\ ~Dial(v) /\ ~BreakSocket(v) /\ ~RestartWorker(v),
             ~RestartHost
      PROVE  UNCHANGED sock
    BY ZenonT(60), <1>5 DEF Next, DispatchQueued, Redrive, BeginInterrupt, SchedulerStep, Command, Enqueue,
                Adopt, Requeue, JoinQueue, FollowUpGranted, FollowUpRefused, Resume, Cancel, Retry,
                FollowUp, StartOver, HostStep, ClaimLands, ExpireLease, AdmitReport, ApplyPatch,
                ApplyRunComplete, FinishCompletion, ClaimFails, Execution, BeginAttempt, Checkpoint,
                FinalizePr, Conclude, SendComplete, FenceSelf, ConnectionStep, HandleRejected,
                HandleDisconnect, DaemonStep, HandleDispatch, HandleCancel, HandleLeaseLost,
                HandleRunCompleteAck, Receives, wireVars
<1>6. \A v \in Workers : BreakSocket(v) \/ RestartWorker(v) => Cut(v)
    BY DEF BreakSocket, RestartWorker
<1>7. QED  BY <1>2, <1>3, <1>4, <1>5, <1>6

\* What is on its way stays so until it is read or its socket dies.
LEMMA OnItsWay ==
    ASSUME RecordInv, BooksOK, Next, NEW w \in Workers, NEW n, Carries(w, n), sock'[w] = "live"
    PROVE  \/ Carries(w, n)'
           \/ \E t \in {"dispatch", "cancel", "lease-lost", "run-complete-ack"} :
                /\ Receives(w, t) /\ n = Head(toWorker[w]) /\ n.type = t
                /\ t = "cancel" => HandleCancel(w)
                /\ t = "lease-lost" => HandleLeaseLost(w)
<1>0. SocketsOK
    BY DEF RecordInv
<1>1. sock[w] = "live"
    BY <1>0, CarriedFrames
<1>2. ~RestartHost /\ ~Cut(w) /\ ~HandleRegister(w)
  <2>1. ~HandleRegister(w)
    BY <1>1 DEF HandleRegister
  <2>2. QED  BY <1>0, <2>1, LiveByRegistration
<1>3. CASE UNCHANGED toWorker
    BY <1>3 DEF Carries
<1>4. ASSUME NEW l \in Leases, NEW t \in {"dispatch", "cancel", "run-complete-ack"},
             Send(WorkerOf(l), <<Msg(t, l)>>), WorkerOf(l) \in Workers
      PROVE  Carries(w, n)'
  <2>1. Msg(t, l) \in HostFrames
    BY HostMessages
  <2>2. QED  BY <1>0, <1>4, <2>1, AfterSending
<1>5. ASSUME NEW v \in Workers, NEW t \in {"dispatch", "cancel", "lease-lost", "run-complete-ack"},
             Receives(v, t), ~Carries(w, n)'
      PROVE  v = w /\ n = Head(toWorker[w]) /\ n.type = t
  <2>1. PICK f : f = Head(toWorker[v])
    OBVIOUS
  <2>2. v = w /\ n = f
    BY <1>0, <1>5, <2>1, AfterReceiving
  <2>3. QED  BY <1>5, <2>1, <2>2 DEF Receives
<1>6. ASSUME NEW v \in Workers, Cut(v) PROVE Carries(w, n)'
    BY <1>0, <1>2, <1>6, AfterCutting
<1>7. ASSUME NEW v \in Workers, HandleRegister(v) PROVE Carries(w, n)'
  <2>1. PICK C : C = Head(toHost[v]).leases
    OBVIOUS
  <2>2. toWorker'[w] = toWorker[w]
    BY <1>0, <1>2, <1>7, <2>1, AfterRegistering DEF Registered
  <2>3. QED  BY <2>2 DEF Carries
<1>8. QED  BY <1>2, <1>3, <1>4, <1>5, <1>6, <1>7, WhatIsSent

\* What names a lease keeps naming the same one: only an unused id is issued.
LEMMA WorkersStay ==
    ASSUME SchedulerOK, BooksOK, Next,
           NEW l \in held \cup claiming \cup stored \cup running \cup claimed \cup finishing
    PROVE  /\ grant'[l] = grant[l]
           /\ WorkerOf(l)' = WorkerOf(l) /\ RunOf(l)' = RunOf(l)
<1>1. CASE DispatchQueued
  <2>1. ASSUME UNCHANGED <<bookVars, asked>> PROVE grant'[l] = grant[l]
    BY <2>1 DEF bookVars
  <2>2. ASSUME NEW m \in Unused, NEW w \in Placements, NEW r \in Runs, Issue(m, w, r)
        PROVE  grant'[l] = grant[l]
    <3>1. UNCHANGED <<finishing, running, aborted, claimed>>
      BY <1>1 DEF DispatchQueued, reportVars, workerVars
    <3>2. l \in Leases /\ l # m
      BY DEF BooksOK, Unused
    <3>3. QED  BY <2>2, <3>1, <3>2, IssueKeepsBooks
  <2>3. grant'[l] = grant[l]
    BY <1>1, <2>1, <2>2, DispatchIs
  <2>4. QED  BY <2>3 DEF WorkerOf, RunOf
<1>2. CASE ~DispatchQueued
  <2>1. UNCHANGED grant
    BY <1>2, GrantedAtIssue
  <2>2. QED  BY <2>1 DEF WorkerOf, RunOf
<1>3. QED  BY <1>1, <1>2

\* An execution told to stop is told to stop until it has.
LEMMA AbortsStay ==
    ASSUME Next PROVE aborted \cap running' \subseteq aborted'
<1>1. ASSUME NEW w \in Workers,
             \/ HandleDispatch(w) \/ HandleCancel(w) \/ HandleLeaseLost(w) \/ RestartWorker(w)
      PROVE  aborted \cap running' \subseteq aborted'
    BY <1>1 DEF HandleDispatch, HandleCancel, HandleLeaseLost, RestartWorker, Abandon, workerVars
<1>2. ASSUME NEW l \in Leases, FenceSelf(l) \/ SendComplete(l)
      PROVE  aborted \cap running' \subseteq aborted'
    BY <1>2 DEF FenceSelf, SendComplete, Abandon
<1>3. ASSUME \A w \in Workers : /\ ~HandleDispatch(w) /\ ~HandleCancel(w) /\ ~HandleLeaseLost(w)
                                /\ ~RestartWorker(w),
             \A l \in Leases : ~FenceSelf(l) /\ ~SendComplete(l)
      PROVE  aborted' = aborted
    BY ZenonT(60), <1>3 DEF Next, DispatchQueued, Redrive, BeginInterrupt, SchedulerStep, Command, Enqueue,
                Adopt, Requeue, JoinQueue, FollowUpGranted, FollowUpRefused, Resume, Cancel, Retry,
                FollowUp, StartOver, HostStep, ClaimLands, ExpireLease, AdmitReport, ApplyPatch,
                ApplyRunComplete, FinishCompletion, ClaimFails, Execution, BeginAttempt, Checkpoint,
                FinalizePr, Conclude, ConnectionStep, HandleRegister, HandleRejected,
                HandleDisconnect, DaemonStep, Dial, HandleRunCompleteAck, Receives, BreakSocket,
                RestartHost, workerVars
<1>4. QED  BY <1>1, <1>2, <1>3

\* What is held, or told to stop, stays so while its worker is connected.
LEMMA StepsKeepOwned ==
    ASSUME OwnershipInv, Next PROVE ConnectedExecutionsAreOwned'
<1>0. /\ RecordInv /\ SocketsOK /\ SchedulerOK /\ BooksOK /\ BuffersOK /\ LinesOK
      /\ BegunOnce /\ LastWords /\ ConnectedExecutionsAreOwned
    BY DEF OwnershipInv, RecordInv
<1> SUFFICES ASSUME NEW l \in running' \cap claimed', sock'[WorkerOf(l)'] = "live", l \notin aborted'
             PROVE  l \in held' \/ \E i \in DOMAIN toWorker'[WorkerOf(l)'] :
                                        toWorker'[WorkerOf(l)'][i] = Msg("lease-lost", l)
    BY DEF ConnectedExecutionsAreOwned, Carries
<1>1. CASE l \notin running \cap claimed
  <2>1. PICK w \in Workers : HandleDispatch(w) /\ l = Head(toWorker[w]).lease
    BY <1>0, <1>1, WhoBegins
  <2>2. l \in held
    BY <1>0, <1>1, BegunFresh
  <2>3. UNCHANGED held
    BY <2>1 DEF HandleDispatch, Receives, bookVars
  <2>4. QED  BY <2>2, <2>3
<1>2. CASE l \in running \cap claimed
  <2>0. PICK w : w = WorkerOf(l)
    OBVIOUS
  <2>1. w \in Workers /\ l \in Leases
    BY <1>0, <1>2, <2>0, Granted
  <2>2. WorkerOf(l)' = w
    BY <1>0, <1>2, <2>0, WorkersStay
  <2>3. CASE HandleRegister(w)
    <3>1. PICK C : C = Head(toHost[w]).leases
      OBVIOUS
    <3>2. Registered(w, C)
      BY <1>0, <2>1, <2>3, <3>1, AfterRegistering
    <3>3. l \in C
      BY <1>0, <1>2, <2>1, <3>1, <3>2, <2>0 DEF Registered, LinesOK, ClaimedBy
    <3>4. CASE l \in held
      BY <2>3, <3>1, <3>3, <3>4 DEF HandleRegister, Settle, Unclaimed
    <3>5. CASE l \notin held
      <4>1. l \in Disowned(C)
        BY <3>3, <3>5 DEF Disowned
      <4>2. Carries(w, Msg("lease-lost", l))'
        BY <3>2, <4>1 DEF Registered
      <4>3. QED  BY <2>2, <4>2 DEF Carries
    <3>6. QED  BY <3>4, <3>5
  <2>4. CASE ~HandleRegister(w)
    <3>1. sock[w] = "live" /\ ~RestartHost
      BY <1>0, <2>1, <2>2, <2>4, LiveByRegistration
    <3>2. l \notin aborted
      BY <1>0, AbortsStay
    <3>3. CASE l \in held
      <4>1. l \notin claiming /\ ~Refused(l)
        BY <1>0, <1>2, <2>1 DEF BegunOnce, Fresh
      <4>2. l \notin finishing
        <5>1. ASSUME l \in finishing PROVE FALSE
          <6>1. admitted[l] > 0 /\ Head(reports[l]).type = "run-complete"
            BY <1>0, <5>1 DEF LastWords
          <6>2. reports[l] # <<>>
            BY <1>0, <2>1, <6>1, AdmittedAre
          <6>3. 1 \in DOMAIN reports[l] /\ reports[l][1].type = "run-complete"
            BY <1>0, <2>1, <6>1, <6>2, HeadReport
          <6>4. QED  BY <1>0, <1>2, <2>1, <6>3 DEF LastWords
        <5>2. QED  BY <5>1
      <4>3. QED  BY <1>0, <3>1, <3>3, <4>1, <4>2, <2>0, ConnectedStaysHeld
    <3>4. CASE l \notin held
      <4>1. Carries(w, Msg("lease-lost", l))
        BY <1>0, <1>2, <2>0, <3>1, <3>2, <3>4 DEF ConnectedExecutionsAreOwned
      <4>2. CASE Carries(w, Msg("lease-lost", l))'
        BY <2>2, <4>2 DEF Carries
      <4>3. CASE HandleLeaseLost(w) /\ Msg("lease-lost", l) = Head(toWorker[w])
        <5>1. Head(toWorker[w]).lease = l
          BY <4>3 DEF Msg
        <5>2. l \in aborted'
          BY <1>2, <4>3, <5>1 DEF HandleLeaseLost, Abandon
        <5>3. QED  BY <5>2
      <4>4. sock'[w] = "live" /\ Msg("lease-lost", l).type = "lease-lost"
        BY <2>2 DEF Msg
      <4>5. QED  BY <1>0, <2>1, <4>1, <4>2, <4>3, <4>4, OnItsWay
    <3>5. QED  BY <3>3, <3>4
  <2>5. QED  BY <2>3, <2>4
<1>3. QED  BY <1>1, <1>2

-----------------------------------------------------------------------------
(* The invariant of every behaviour *)

\* Nothing is out, and nobody is connected, at first.
LEMMA InitOwnership == Init => OwnershipInv
<1> SUFFICES ASSUME Init PROVE OwnershipInv  OBVIOUS
<1>1. RecordInv
    BY InitRecord
<1>2. SchedulerOK
  <2>1. /\ status \in [Runs -> Statuses] /\ result \in [Runs -> BOOLEAN] /\ driving \in BOOLEAN
        /\ followUps \subseteq Runs /\ resumeTimers \subseteq Runs
        /\ lost \subseteq [run : Runs, kind : Kinds, by : Leases \cup {None}]
        /\ pr \in [Runs -> {"none", "draft", "ready"}] /\ prNew \in [Runs -> BOOLEAN]
        /\ sawPr \subseteq Leases
    BY DEF Init, Statuses
  <2>2. busy \in [Runs -> [op : {"free", "adopting", "returning", "requeueing", "checking"},
                           by : Leases \cup {None}]]
    BY DEF Init, Free
  <2>3. queue \in Seq(Runs)
    BY DEF Init
  <2>4. QED  BY <2>1, <2>2, <2>3 DEF SchedulerOK
<1>3. BooksOK
    BY DEF Init, BooksOK
<1>4. BuffersOK
  <2>1. \A l \in Leases : reports[l] = <<>> /\ admitted[l] = 0
    BY DEF Init
  <2>2. <<>> \in Seq(Reports)
    OBVIOUS
  <2>3. reports \in [Leases -> Seq(Reports)]
    BY <2>2 DEF Init
  <2>4. Len(<<>>) = 0
    OBVIOUS
  <2>5. QED  BY <2>1, <2>3, <2>4 DEF Init, BuffersOK
<1>5. /\ \A w \in Workers : sock[w] = "none" /\ ~seen[w] /\ toHost[w] = <<>> /\ toWorker[w] = <<>>
      /\ seen \in [Workers -> BOOLEAN]
    BY DEF Init
<1>6. DOMAIN <<>> = {}
    OBVIOUS
<1>7. LinesOK
    BY <1>5, <1>6 DEF LinesOK, Carries
<1>8. BegunOnce
    BY <1>5, <1>6 DEF Init, BegunOnce, Unsent, Refused, NoRepeat
<1>9. LastWords
    BY <1>6 DEF Init, LastWords
<1>10. ConnectedExecutionsAreOwned
    BY DEF Init, ConnectedExecutionsAreOwned
<1>11. QED  BY <1>1, <1>2, <1>3, <1>4, <1>7, <1>8, <1>9, <1>10 DEF OwnershipInv

\* Every step keeps the invariant, its parts needing one another.
LEMMA StepsKeepOwnership == OwnershipInv /\ [Next]_vars => OwnershipInv'
<1> SUFFICES ASSUME OwnershipInv, [Next]_vars PROVE OwnershipInv'  OBVIOUS
<1>0. /\ RecordInv /\ SocketsOK /\ SchedulerOK /\ BooksOK /\ BuffersOK /\ LinesOK
      /\ BegunOnce /\ LastWords /\ ConnectedExecutionsAreOwned
    BY DEF OwnershipInv, RecordInv
<1>1. CASE Next
  <2>1. RecordInv'
    BY <1>0, <1>1, StepsKeepRecord
  <2>2. SchedulerOK' /\ BooksOK' /\ BuffersOK' /\ LinesOK'
    BY <1>0, <1>1, StepsKeepScheduler, StepsKeepBooks, StepsKeepBuffers, StepsKeepLines
  <2>3. BegunOnce' /\ LastWords'
    BY <1>0, <1>1, StepsKeepBegunOnce, StepsKeepLastWords
  <2>4. ConnectedExecutionsAreOwned'
    BY <1>1, StepsKeepOwned
  <2>5. QED  BY <2>1, <2>2, <2>3, <2>4 DEF OwnershipInv
<1>2. CASE UNCHANGED vars
  <2>1. /\ UNCHANGED <<status, result, queue, followUps, resumeTimers, busy, lost, driving>>
        /\ UNCHANGED <<grant, held, leaseByRun, cancelIntents, claiming, stored>>
        /\ UNCHANGED <<admitted, finishing, running, aborted, claimed, stage, reports>>
        /\ UNCHANGED <<seen, sock, toHost, toWorker, pr, prNew, sawPr>>
    BY <1>2 DEF vars, storeVars, schedVars, bookVars, reportVars, workerVars, wireVars, forgeVars
  <2>2. RecordInv'
    BY <1>0, <2>1 DEF RecordInv, SocketsOK, Unsent
  <2>3. SchedulerOK' /\ BooksOK' /\ BuffersOK'
    BY <1>0, <2>1 DEF SchedulerOK, BooksOK, BuffersOK, RunOf
  <2>4. LinesOK'
    BY <1>0, <2>1 DEF LinesOK, Carries, WorkerOf, ClaimedBy
  <2>5. BegunOnce' /\ LastWords'
    BY <1>0, <2>1 DEF BegunOnce, LastWords, Unsent, Refused, Fresh, NoRepeat
  <2>6. ConnectedExecutionsAreOwned'
    BY <1>0, <2>1 DEF ConnectedExecutionsAreOwned, Carries, WorkerOf
  <2>7. QED  BY <2>2, <2>3, <2>4, <2>5, <2>6 DEF OwnershipInv
<1>3. QED  BY <1>1, <1>2

\* The registry, the sockets, the workers' buffers and the scheduler fit
\* together in every state of every behaviour.
THEOREM OwnershipInvariant == Spec => []OwnershipInv
<1>1. QED  BY InitOwnership, StepsKeepOwnership, PTL DEF Spec

\* A connected worker executes nothing the host has given up on without being
\* told, whatever sockets break and whichever side restarts (workers.ts
\* #handleRegister, #expireLease, #settleLease).
THEOREM NobodyExecutesUnowned == Spec => []ConnectedExecutionsAreOwned
<1>1. OwnershipInv => ConnectedExecutionsAreOwned
    BY DEF OwnershipInv
<1>2. QED  BY <1>1, OwnershipInvariant, PTL

\* Every variable keeps its type, the registry's two maps agree, and a socket
\* carries nothing to a worker but what is about that worker's leases.
THEOREM DispatchTypes == Spec => []TypeOK
<1>1. OwnershipInv => TypeOK
  <2> SUFFICES ASSUME OwnershipInv PROVE TypeOK  OBVIOUS
  <2>0. RecordInv /\ SocketsOK /\ SchedulerOK /\ BooksOK /\ BuffersOK /\ LinesOK
    BY DEF OwnershipInv, RecordInv
  <2>1. \A l \in Leases : reports[l] \in Seq(Reports) /\ admitted[l] \in 0..Len(reports[l])
    <3> SUFFICES ASSUME NEW l \in Leases
                 PROVE  reports[l] \in Seq(Reports) /\ admitted[l] \in 0..Len(reports[l])
      OBVIOUS
    <3>1. reports[l] \in Seq(Reports) /\ admitted[l] \in Nat /\ admitted[l] <= Len(reports[l])
      BY <2>0 DEF BuffersOK
    <3>2. Len(reports[l]) \in Nat
      BY <3>1
    <3>3. QED  BY <3>1, <3>2
  <2>2. \A w \in Workers : \A i \in DOMAIN toWorker[w] : WorkerOf(toWorker[w][i].lease) = w
    <3> SUFFICES ASSUME NEW w \in Workers, NEW i \in DOMAIN toWorker[w]
                 PROVE  WorkerOf(toWorker[w][i].lease) = w
      OBVIOUS
    <3>1. toWorker[w] \in Seq(HostFrames)
      BY <2>0 DEF SocketsOK
    <3>2. toWorker[w][i] \in HostFrames
      BY <3>1
    <3>3. QED  BY <2>0, <3>2 DEF LinesOK, Carries
  <2>3. \A w \in Workers : sock[w] = "none" => toWorker[w] = <<>> /\ toHost[w] = <<>>
    BY <2>0 DEF SocketsOK, LinesOK
  <2>4. sock \in [Workers -> {"none", "dialed", "live"}] /\ seen \in [Workers -> BOOLEAN]
        /\ \A w \in Workers : sock[w] = "live" => seen[w]
    BY <2>0 DEF SocketsOK, LinesOK
  <2>5. QED  BY <2>0, <2>1, <2>2, <2>3, <2>4 DEF TypeOK, SchedulerOK, BooksOK, BuffersOK
<1>2. QED  BY <1>1, OwnershipInvariant, PTL

-----------------------------------------------------------------------------
(* Cancels recorded for an absent worker *)

\* A cancel is recorded, or one recorded before is kept while its lease is held.
LEMMA PendingStays ==
    ASSUME SocketsOK, SchedulerOK, BooksOK, LinesOK, Next, ~RestartHost,
           asked \in [Leases -> {"no", "sent", "pending"}]
    PROVE  /\ asked' \in [Leases -> {"no", "sent", "pending"}]
           /\ \A l \in Leases : asked'[l] = "pending" =>
                \/ /\ l \in held /\ ~seen[WorkerOf(l)] /\ l \in cancelIntents'
                   /\ UNCHANGED <<grant, seen, sock, toWorker>>
                \/ /\ asked[l] = "pending" /\ (l \in held' => l \in held)
                   /\ l \in claiming' => l \in claiming
                   /\ l \in cancelIntents \cap held' => l \in cancelIntents'
<1> DEFINE Kept(l) == /\ asked[l] = "pending" /\ (l \in held' => l \in held)
                      /\ l \in claiming' => l \in claiming
                      /\ l \in cancelIntents \cap held' => l \in cancelIntents'
           Recorded(l) == /\ l \in held /\ ~seen[WorkerOf(l)] /\ l \in cancelIntents'
                          /\ UNCHANGED <<grant, seen, sock, toWorker>>
           P == /\ asked' \in [Leases -> {"no", "sent", "pending"}]
                /\ \A l \in Leases : asked'[l] = "pending" => Recorded(l) \/ Kept(l)
<1>1. CASE DispatchQueued
  <2>1. ASSUME UNCHANGED <<bookVars, asked>> PROVE P
    BY <2>1 DEF bookVars
  <2>2. ASSUME NEW m \in Unused, NEW w \in Placements, NEW r \in Runs, Issue(m, w, r) PROVE P
    <3>1. m \in Leases
      BY DEF Unused
    <3>2. asked' = [asked EXCEPT ![m] = "no"] /\ held' = held \cup {m}
          /\ claiming' = claiming \cup {m} /\ cancelIntents' = cancelIntents
      BY <2>2 DEF Issue
    <3>3. QED  BY <3>1, <3>2
  <2>3. QED  BY <1>1, <2>1, <2>2, DispatchIs
<1>2. ASSUME NEW r \in Runs, Cancel(r) PROVE P
  <2>1. UNCHANGED <<grant, held, claiming, seen, sock>>
    BY <1>2 DEF Cancel
  <2>2. CASE CancelHere(r)
    BY <2>1, <2>2 DEF CancelHere
  <2>3. CASE CancelOnWorker(r)
    <3>1. PICK m : m = leaseByRun[r]
      OBVIOUS
    <3>2. m \in held /\ m \in Leases
      BY <2>3, <3>1, Granted DEF CancelOnWorker, BooksOK
    <3>3. /\ cancelIntents' = cancelIntents \cup {m}
          /\ asked' = [asked EXCEPT ![m] = IF seen[WorkerOf(m)] THEN "sent" ELSE "pending"]
          /\ seen[WorkerOf(m)] \/ UNCHANGED toWorker
      BY <2>3, <3>1 DEF CancelOnWorker
    <3>4. \A l \in Leases : l # m => asked'[l] = asked[l]
      BY <3>3
    <3>5. asked' \in [Leases -> {"no", "sent", "pending"}]
      BY <3>3
    <3>6. asked'[m] = "pending" => Recorded(m)
      BY <2>1, <3>2, <3>3
    <3>7. ASSUME NEW l \in Leases, l # m, asked'[l] = "pending" PROVE Kept(l)
      BY <2>1, <3>3, <3>4, <3>7
    <3>8. QED  BY <3>5, <3>6, <3>7
  <2>4. QED  BY <1>2, <2>2, <2>3 DEF Cancel
<1>3. ASSUME ~DispatchQueued, \A r \in Runs : ~Cancel(r)
      PROVE  /\ UNCHANGED asked /\ held' \subseteq held /\ claiming' \subseteq claiming
             /\ cancelIntents \cap held' \subseteq cancelIntents'
  <2> DEFINE Q == /\ UNCHANGED asked /\ held' \subseteq held /\ claiming' \subseteq claiming
                  /\ cancelIntents \cap held' \subseteq cancelIntents'
  <2>1. ASSUME NEW S, Settle(S), UNCHANGED asked, claiming' \subseteq claiming PROVE Q
    BY <2>1 DEF Settle
  <2>2. ASSUME NEW l \in Leases, ClaimFails(l) \/ ExpireLease(l) \/ FinishCompletion(l) PROVE Q
    <3>1. UNCHANGED <<held, cancelIntents>> \/ Settle({l})
      BY <2>2 DEF ClaimFails, ExpireLease, FinishCompletion
    <3>2. UNCHANGED asked /\ claiming' \subseteq claiming
      BY <2>2 DEF ClaimFails, ExpireLease, FinishCompletion, histVars
    <3>3. QED  BY <2>1, <3>1, <3>2
  <2>3. ASSUME NEW w \in Workers, HandleRegister(w) \/ HandleRejected(w) PROVE Q
    <3>1. UNCHANGED <<held, cancelIntents>> \/ \E S : Settle(S)
      BY <2>3 DEF HandleRegister, HandleRejected
    <3>2. UNCHANGED <<asked, claiming>>
      BY <2>3 DEF HandleRegister, HandleRejected, histVars
    <3>3. QED  BY <2>1, <3>1, <3>2
  <2>4. ASSUME \A l \in Leases : ~ClaimFails(l) /\ ~ExpireLease(l) /\ ~FinishCompletion(l),
               \A w \in Workers : ~HandleRegister(w) /\ ~HandleRejected(w)
        PROVE  UNCHANGED <<asked, held, cancelIntents>> /\ claiming' \subseteq claiming
    BY ZenonT(60), <1>3, <2>4 DEF Next, Redrive, BeginInterrupt, SchedulerStep, Command, Enqueue,
                Adopt, Requeue, JoinQueue, FollowUpGranted, FollowUpRefused, Resume, Retry,
                FollowUp, StartOver, HostStep, ClaimLands, AdmitReport, ApplyPatch,
                ApplyRunComplete, Execution, BeginAttempt,
                Checkpoint, FinalizePr, Conclude, SendComplete, FenceSelf, ConnectionStep,
                HandleDisconnect, DaemonStep, Dial,
                HandleDispatch, HandleCancel, HandleLeaseLost, HandleRunCompleteAck, Receives,
                BreakSocket, RestartWorker, bookVars, histVars
  <2>5. QED  BY <2>2, <2>3, <2>4
<1>4. P
    BY <1>1, <1>2, <1>3
<1>5. QED  BY <1>4

\* A connection appears with its registration.
LEMMA SeenByRegistration ==
    ASSUME SocketsOK, LinesOK, Next, NEW w \in Workers, seen'[w]
    PROVE  seen[w] \/ HandleRegister(w)
<1>1. seen \in [Workers -> BOOLEAN]
    BY DEF LinesOK
<1>2. ASSUME NEW v \in Workers, HandleRegister(v), v # w PROVE seen[w]
    BY <1>1, <1>2 DEF HandleRegister
<1>3. ASSUME NEW v \in Workers, HandleDisconnect(v) PROVE seen[w]
  <2>1. seen' = [seen EXCEPT ![v] = FALSE]
    BY <1>3 DEF HandleDisconnect
  <2>2. QED  BY <1>1, <2>1
<1>4. CASE RestartHost
  <2>1. seen' = [v \in Workers |-> FALSE]
    BY <1>4 DEF RestartHost
  <2>2. QED  BY <2>1
<1>5. ASSUME \A v \in Workers : ~HandleRegister(v) /\ ~HandleDisconnect(v), ~RestartHost
      PROVE  UNCHANGED seen
    BY ZenonT(60), <1>5 DEF Next, DispatchQueued, Redrive, BeginInterrupt, SchedulerStep, Command, Enqueue,
                Adopt, Requeue, JoinQueue, FollowUpGranted, FollowUpRefused, Resume, Cancel, Retry,
                FollowUp, StartOver, HostStep, ClaimLands, ExpireLease, AdmitReport, ApplyPatch,
                ApplyRunComplete, FinishCompletion, ClaimFails, Execution, BeginAttempt, Checkpoint,
                FinalizePr, Conclude, SendComplete, FenceSelf, ConnectionStep, HandleRejected,
                DaemonStep, Dial, HandleDispatch, HandleCancel, HandleLeaseLost,
                HandleRunCompleteAck, Receives, BreakSocket, RestartWorker, wireVars
<1>6. QED  BY <1>2, <1>3, <1>4, <1>5

\* An execution that has ended stays ended for as long as it runs.
LEMMA EndedStays ==
    ASSUME SocketsOK, BuffersOK, BegunOnce, Next, NEW l \in Leases, l \in running, l \in running',
           stage[l] \in Terminal \cup {"waiting"}
    PROVE  stage'[l] = stage[l]
<1>1. stage \in [Leases -> Stages]
    BY DEF BuffersOK, Stages
<1>2. ASSUME NEW m \in Leases, Execution(m) PROVE stage'[l] = stage[l]
  <2>1. m # l
    <3>1. ASSUME \/ BeginAttempt(l) \/ Checkpoint(l) \/ FinalizePr(l)
                 \/ \E o \in Statuses : Conclude(l, o)
          PROVE  FALSE
      BY <3>1 DEF BeginAttempt, Checkpoint, FinalizePr, Conclude, Executing, Terminal
    <3>2. ASSUME SendComplete(l) PROVE FALSE
      BY <3>2 DEF SendComplete
    <3>3. QED  BY <1>2, <3>1, <3>2 DEF Execution
  <2>2. \E x : stage' = [stage EXCEPT ![m] = x]
    <3>1. CASE \E o \in Statuses : Conclude(m, o)
      BY <3>1 DEF Conclude
    <3>2. CASE BeginAttempt(m) \/ Checkpoint(m) \/ FinalizePr(m) \/ SendComplete(m)
      BY <3>2 DEF BeginAttempt, Checkpoint, FinalizePr, SendComplete
    <3>3. QED  BY <1>2, <3>1, <3>2 DEF Execution
  <2>3. QED  BY <1>1, <2>1, <2>2
<1>3. ASSUME NEW w \in Workers, HandleDispatch(w) PROVE stage'[l] = stage[l]
  <2>1. PICK f : f = Head(toWorker[w])
    OBVIOUS
  <2>2. Carries(w, f) /\ f \in HostFrames /\ f.type = "dispatch"
    BY <1>3, <2>1, AfterReceiving DEF HandleDispatch, Receives
  <2>3. f = Msg("dispatch", f.lease) /\ f.lease \in Leases
    BY <2>2 DEF HostFrames, Msg
  <2>4. ~Unsent(f.lease)
    BY <1>3, <2>2, <2>3, UnsentIs
  <2>5. f.lease # l
    BY <2>3, <2>4 DEF BegunOnce, Fresh
  <2>6. stage' = stage \/ stage' = [stage EXCEPT ![f.lease] = "started"]
    BY <1>3, <2>1 DEF HandleDispatch, workerVars
  <2>7. QED  BY <1>1, <2>5, <2>6
<1>4. ASSUME NEW w \in Workers, RestartWorker(w) PROVE stage'[l] = stage[l]
  <2>1. /\ stage' = [k \in Leases |-> IF k \in RunningOn(w) THEN "none" ELSE stage[k]]
        /\ l \notin RunningOn(w)
    BY <1>4 DEF RestartWorker
  <2>2. QED  BY <2>1
<1>5. ASSUME \A m \in Leases : ~Execution(m),
             \A w \in Workers : ~HandleDispatch(w) /\ ~RestartWorker(w)
      PROVE  stage' = stage
    BY ZenonT(60), <1>5 DEF Next, DispatchQueued, Redrive, BeginInterrupt, SchedulerStep, Command, Enqueue,
                Adopt, Requeue, JoinQueue, FollowUpGranted, FollowUpRefused, Resume, Cancel, Retry,
                FollowUp, StartOver, HostStep, ClaimLands, ExpireLease, AdmitReport, ApplyPatch,
                ApplyRunComplete, FinishCompletion, ClaimFails, FenceSelf, Abandon, ConnectionStep,
                HandleRegister, HandleRejected, HandleDisconnect, DaemonStep, Dial, HandleCancel,
                HandleLeaseLost, HandleRunCompleteAck, Receives, BreakSocket, RestartHost,
                workerVars
<1>6. QED  BY <1>2, <1>3, <1>4, <1>5

\* Short of a restart of the host, a step keeps what PendingCancelsArrive needs.
LEMMA StepsKeepCancels ==
    ASSUME OwnershipInv, CancelsInv, Next, ~RestartHost PROVE CancelsInv'
<1>0. /\ RecordInv /\ SocketsOK /\ SchedulerOK /\ BooksOK /\ BuffersOK /\ LinesOK
      /\ BegunOnce /\ LastWords
    BY DEF OwnershipInv, RecordInv
<1>1. asked \in [Leases -> {"no", "sent", "pending"}]
    BY DEF CancelsInv
<1>2. asked' \in [Leases -> {"no", "sent", "pending"}]
    BY <1>0, <1>1, PendingStays
<1>3. ASSUME NEW l \in Leases, asked'[l] = "pending",
             l \in held, ~seen[WorkerOf(l)], l \in cancelIntents',
             UNCHANGED <<grant, seen, sock, toWorker>>
      PROVE  /\ Unsent(l)'
             /\ l \in cancelIntents' /\ ~seen'[WorkerOf(l)'] /\ sock'[WorkerOf(l)'] # "live"
  <2>1. WorkerOf(l) \in Workers /\ WorkerOf(l)' = WorkerOf(l)
    BY <1>0, <1>3, Granted DEF WorkerOf
  <2>2. sock[WorkerOf(l)] # "live"
    BY <1>0, <1>3, <2>1 DEF LinesOK
  <2>3. Unsent(l)
    <3>1. SUFFICES ASSUME NEW w \in Workers, Carries(w, Msg("dispatch", l)) PROVE FALSE
      BY UnsentIs
    <3>2. Msg("dispatch", l) \in HostFrames /\ Msg("dispatch", l).lease = l
      BY HostMessages DEF Msg
    <3>3. w = WorkerOf(l)
      BY <1>0, <3>1, <3>2 DEF LinesOK
    <3>4. sock[w] = "live"
      BY <1>0, <3>1, CarriedFrames
    <3>5. QED  BY <2>2, <3>3, <3>4
  <2>4. Unsent(l)'
    BY <1>3, <2>3 DEF Unsent
  <2>5. QED  BY <1>3, <2>1, <2>2, <2>4
<1>4. ASSUME NEW l \in Leases, asked[l] = "pending", l \in claiming' => l \in claiming
      PROVE  Unsent(l)'
  <2>1. Unsent(l)
    BY <1>4 DEF CancelsInv
  <2>2. ASSUME NEW w \in Workers, Carries(w, Msg("dispatch", l))' PROVE FALSE
    <3>1. ClaimLands(l) /\ l \in held
      BY <1>0, <2>1, <2>2, DispatchesGoOutOnce, UnsentIs
    <3>2. l \in claiming
      BY <3>1 DEF ClaimLands
    <3>3. ~seen[WorkerOf(l)] /\ WorkerOf(l) \in Workers
      BY <1>0, <1>4, <3>1, <3>2, Granted DEF CancelsInv
    <3>4. sock[WorkerOf(l)] # "live"
      BY <1>0, <3>3 DEF LinesOK
    <3>5. toWorker' = toWorker
      BY <1>0, <3>1, <3>3, <3>4 DEF ClaimLands, Send, SocketsOK
    <3>6. QED  BY <2>1, <2>2, <3>5, UnsentIs DEF Carries
  <2>3. Unsent(l)'
    BY <2>2 DEF Unsent, Carries
  <2>4. QED  BY <2>3
<1>5. ASSUME NEW l \in held, l \in held', asked[l] = "pending",
             l \in claiming' => l \in claiming, l \in cancelIntents'
      PROVE  /\ l \in claiming' => ~seen'[WorkerOf(l)']
             /\ l \in running' /\ sock'[WorkerOf(l)'] = "live" =>
                  \/ l \in aborted' \/ stage'[l] \in Terminal \cup {"waiting"}
                  \/ Carries(WorkerOf(l), Msg("cancel", l))'
  <2>0. PICK w : w = WorkerOf(l)
    OBVIOUS
  <2>1. w \in Workers /\ l \in Leases
    BY <1>0, <2>0, Granted
  <2>2. WorkerOf(l)' = w
    BY <1>0, <2>0, WorkersStay
  <2>3. l \in cancelIntents
    BY <1>5 DEF CancelsInv
  <2>4. ASSUME HandleRegister(w) PROVE l \notin claiming /\ Carries(w, Msg("cancel", l))'
    <3>1. PICK C : C = Head(toHost[w]).leases
      OBVIOUS
    <3>2. Registered(w, C)
      BY <1>0, <2>1, <2>4, <3>1, AfterRegistering
    <3>3. l \in HeldBy(w)
      BY <2>0 DEF HeldBy
    <3>4. l \notin Unclaimed(w, C)
      BY <1>5, <2>4, <3>1 DEF HandleRegister, Settle
    <3>5. l \in C
      BY <3>3, <3>4 DEF Unclaimed
    <3>6. l \notin claiming
      BY <1>0, <2>1, <3>1, <3>2, <3>5 DEF Registered, LinesOK
    <3>7. l \in Replayed(HeldBy(w) \ Unclaimed(w, C))
      BY <2>3, <3>3, <3>4 DEF Replayed
    <3>8. QED  BY <3>2, <3>6, <3>7 DEF Registered
  <2>5. l \in claiming' => ~seen'[w]
    <3>1. ASSUME l \in claiming', seen'[w] PROVE FALSE
      <4>1. seen[w] \/ HandleRegister(w)
        BY <1>0, <2>1, <3>1, SeenByRegistration
      <4>2. QED  BY <1>5, <2>0, <2>4, <3>1, <4>1 DEF CancelsInv
    <3>2. QED  BY <3>1
  <2>6. ASSUME l \in running', sock'[w] = "live", l \notin aborted',
               stage'[l] \notin Terminal \cup {"waiting"}, ~HandleRegister(w)
        PROVE  Carries(w, Msg("cancel", l))'
    <3>1. sock[w] = "live"
      BY <1>0, <2>1, <2>6, LiveByRegistration
    <3>2. l \in running
      <4>1. Unsent(l)
        BY <1>5, <2>1 DEF CancelsInv
      <4>2. QED  BY <1>0, <2>6, <4>1, BegunFresh
    <3>3. l \notin aborted
      BY <2>6, AbortsStay
    <3>4. stage[l] \notin Terminal \cup {"waiting"}
      BY <1>0, <2>1, <2>6, <3>2, EndedStays
    <3>5. Carries(w, Msg("cancel", l))
      BY <1>5, <2>0, <3>1, <3>2, <3>3, <3>4 DEF CancelsInv
    <3>6. ASSUME HandleCancel(w), Msg("cancel", l) = Head(toWorker[w]) PROVE FALSE
      <4>1. Head(toWorker[w]).lease = l
        BY <3>6 DEF Msg
      <4>2. l \in aborted'
        BY <3>2, <3>6, <4>1 DEF HandleCancel
      <4>3. QED  BY <2>6, <4>2
    <3>7. Msg("cancel", l).type = "cancel"
      BY DEF Msg
    <3>8. QED  BY <1>0, <2>1, <2>6, <3>5, <3>6, <3>7, OnItsWay
  <2>7. l \in running' /\ sock'[w] = "live" =>
            \/ l \in aborted' \/ stage'[l] \in Terminal \cup {"waiting"}
            \/ Carries(w, Msg("cancel", l))'
    BY <2>4, <2>6
  <2>8. QED  BY <2>0, <2>2, <2>5, <2>7 DEF Carries
<1>6. \A l \in Leases : asked'[l] = "pending" => Unsent(l)'
    BY <1>0, <1>1, <1>3, <1>4, PendingStays
<1>7. ASSUME NEW l \in held', asked'[l] = "pending"
      PROVE  /\ l \in cancelIntents'
             /\ l \in claiming' => ~seen'[WorkerOf(l)']
             /\ l \in running' /\ sock'[WorkerOf(l)'] = "live" =>
                  \/ l \in aborted' \/ stage'[l] \in Terminal \cup {"waiting"}
                  \/ \E i \in DOMAIN toWorker'[WorkerOf(l)'] :
                        toWorker'[WorkerOf(l)'][i] = Msg("cancel", l)
  <2>1. l \in Leases
    <3>1. RecordInv'
      BY <1>0, StepsKeepRecord
    <3>2. QED  BY <3>1 DEF RecordInv
  <2>2. CASE asked[l] = "pending" /\ l \in held /\ (l \in claiming' => l \in claiming)
             /\ (l \in cancelIntents \cap held' => l \in cancelIntents')
    <3>1. l \in cancelIntents'
      BY <1>7, <2>2 DEF CancelsInv
    <3>2. WorkerOf(l)' = WorkerOf(l)
      BY <1>0, <2>2, WorkersStay
    <3>3. QED  BY <1>5, <1>7, <2>2, <3>1, <3>2 DEF Carries
  <2>3. QED  BY <1>0, <1>1, <1>3, <1>7, <2>1, <2>2, PendingStays
<1>8. QED  BY <1>2, <1>6, <1>7 DEF CancelsInv, Carries

\* For as long as the host does not restart, every cancel it recorded for an
\* absent worker is delivered (workers.ts cancel and #handleRegister: the intent
\* lives in memory, and restore brings the lease back without it).
THEOREM RecordedCancelsArrive == Spec /\ [][~RestartHost]_vars => []PendingCancelsArrive
<1> DEFINE Inv == OwnershipInv /\ CancelsInv
<1>1. Init => Inv
    BY InitOwnership DEF Init, CancelsInv
<1>2. Inv /\ [Next]_vars /\ [~RestartHost]_vars => Inv'
  <2> SUFFICES ASSUME Inv, [Next]_vars, [~RestartHost]_vars PROVE Inv'
    OBVIOUS
  <2>1. OwnershipInv'
    BY StepsKeepOwnership
  <2>2. CASE Next /\ ~RestartHost
    BY <2>1, <2>2, StepsKeepCancels
  <2>3. CASE UNCHANGED vars
    <3>1. UNCHANGED <<asked, held, cancelIntents, claiming, seen, sock, toWorker, grant,
                      running, aborted, stage>>
      BY <2>3 DEF vars, bookVars, workerVars, wireVars, histVars
    <3>2. CancelsInv'
      BY <3>1 DEF CancelsInv, Carries, Unsent, WorkerOf
    <3>3. QED  BY <2>1, <3>2
  <2>4. QED  BY <2>2, <2>3
<1>3. Inv => PendingCancelsArrive
  <2> SUFFICES ASSUME Inv, NEW l \in held \cap running, asked[l] = "pending",
                      sock[WorkerOf(l)] = "live", toWorker[WorkerOf(l)] = <<>>
               PROVE  l \in aborted \/ stage[l] \in Terminal \cup {"waiting"}
    BY DEF PendingCancelsArrive, CancelsArrive
  <2>1. ~Carries(WorkerOf(l), Msg("cancel", l))
    <3>1. DOMAIN <<>> = {}
      OBVIOUS
    <3>2. QED  BY <3>1 DEF Carries
  <2>2. QED  BY <2>1 DEF CancelsInv
<1>4. QED  BY <1>1, <1>2, <1>3, PTL DEF Spec

=============================================================================
