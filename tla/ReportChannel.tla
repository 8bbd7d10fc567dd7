---------------------------- MODULE ReportChannel ----------------------------
(***************************************************************************)
(* The reporting stream of one lease, end to end: the worker's replay      *)
(* buffer (packages/worker/src/connection.ts), the socket it is flushed    *)
(* through, and the host's admission, write chain, applied watermark and   *)
(* parked completion (packages/orchestrator/src/workers.ts), with the      *)
(* watermark's debounced copy on disk (leases.ts).                         *)
(*                                                                         *)
(* A behaviour starts when the worker has just received the dispatch and   *)
(* ends when it has been told to forget the lease. Expiry, which ends the  *)
(* stream for every reason other than its completion, belongs to the       *)
(* registry.                                                               *)
(***************************************************************************)
EXTENDS Integers, Sequences, FiniteSets, Functions

CONSTANTS
    Script,        \* the frame types one execution reports; run-complete last
    Droppable,     \* DROPPABLE_TYPES, cheapest first
    BufferLimit,   \* WORKER_REPLAY_BUFFER_LIMIT
    MaxDrops,      \* bound: how often the socket may die
    MaxRestarts,   \* bound: how often the host may stop and boot again
    HardCrash,     \* whether a host may die without stop()'s flush
    MaxFailures    \* bound: how many host writes may fail

Last == Len(Script)
Frames == 1..Last
DroppableTypes == {Droppable[i] : i \in DOMAIN Droppable}

ASSUME ChannelAssumption ==
    /\ Script \in Seq(STRING)
    /\ Len(Script) > 0
    /\ Droppable \in Seq(STRING)
    /\ Script[Len(Script)] \notin {Droppable[i] : i \in DOMAIN Droppable}
    /\ BufferLimit \in Nat \ {0}
    /\ MaxDrops \in Nat /\ MaxRestarts \in Nat /\ MaxFailures \in Nat
    /\ HardCrash \in BOOLEAN

VARIABLES
    \* the worker's LeaseBuffer
    seq, held, delivered, awaitingAck, lastAckedSeq, gapThrough, open,
    dropped,       \* history: every frame the buffer's cap ever gave up
    \* the connection
    conn,          \* the worker's view: "down", "registering" or "up"
    installed,     \* the host's worker entry points at the current socket
    toHost, toWorker,
    \* the host's in-memory lease
    leased, appliedSeq, appliedAhead, inFlight, chain, completion, ackOwed,
    \* the host's disk
    durableSeq,    \* appliedSeq as leases.json last had it
    applied,       \* per frame, how often its effect has been written
    runDone,       \* the run's terminal status is on disk
    \* bound counters
    drops, restarts, failures

bufferVars == <<seq, held, delivered, awaitingAck, lastAckedSeq, gapThrough,
                open, dropped>>
wireVars   == <<conn, installed, toHost, toWorker>>
leaseVars  == <<leased, appliedSeq, appliedAhead, inFlight, chain, completion,
                ackOwed>>
diskVars   == <<durableSeq, applied, runDone>>
boundVars  == <<drops, restarts, failures>>
vars == <<bufferVars, wireVars, leaseVars, diskVars, boundVars>>

-----------------------------------------------------------------------------
(* Slips a change to the code could make. Nothing below uses them: each    *)
(* stands in for the definition named with it, to show that the property   *)
(* named with it would notice (README, "Mutants").                         *)

\* AckMsg, counting from the frame before: leaves the domain (TypeOK).
AckFromBelow(n) == [type |-> "lease-ack", seq |-> n - 1]

\* AckMsg, naming the next frame expected (NoSilentLoss).
AckNextExpected(n) == [type |-> "lease-ack", seq |-> n + 1]

\* EndOfRun, taking the highest frame applied so far (WatermarkHonest).
HighestApplied(from, ahead, w) ==
    /\ w \in ahead \cup {from}
    /\ \A s \in ahead : s <= w

\* ContiguousBelow, one short (CompletionIsWhole).
AlmostContiguousBelow(w) == w >= Last - 2

\* Admits, without looking at what is still being written (AppliedOncePerBoot).
AdmitsInFlight(s) == s > appliedSeq /\ s \notin appliedAhead

\* JustBelow, naming the oldest frame still held (GapsAreGone).
OldestHeld(n, h, numbered) ==
    IF h = {} THEN n = numbered ELSE n \in h /\ \A t \in h : n <= t

\* Victims, whatever the oldest frame's type is (LogSpec).
OldestVictim(h) ==
    {s \in h : Cardinality(h) > BufferLimit /\ \A t \in h : s <= t}

\* DeliveredBy, forgetting that a waiting lease sends nothing (FirstWritesInOrder).
DeliveredUnsent(h, d, waiting) == IF conn = "up" THEN h ELSE d

\* WriteFails, leaving the frame marked in flight (StreamSettles).
WriteFailsStuck ==
    /\ chain # <<>> /\ failures < MaxFailures
    /\ failures' = failures + 1
    /\ chain' = Tail(chain)
    /\ UNCHANGED <<inFlight, leased, appliedSeq, appliedAhead, completion, ackOwed>>
    /\ UNCHANGED <<bufferVars, wireVars, diskVars, drops, restarts>>

-----------------------------------------------------------------------------
(* Messages. A flush hands the socket a batch of frames at once, and the   *)
(* host takes a batch apart lowest sequence number first.                  *)

FramesMsg(S)  == [type |-> "frames", seqs |-> S]
GapMsg(n)     == [type |-> "lease-gap", throughSeq |-> n]
HeartbeatMsg  == [type |-> "heartbeat"]
RegisterMsg   == [type |-> "register"]
RegisteredMsg == [type |-> "registered"]
AckMsg(n)     == [type |-> "lease-ack", seq |-> n]
CompleteAck   == [type |-> "run-complete-ack"]
LeaseLost     == [type |-> "lease-lost"]

WorkerMsg == [type : {"frames"}, seqs : SUBSET Frames]
             \cup [type : {"lease-gap"}, throughSeq : Frames]
             \cup [type : {"heartbeat", "register"}]
HostMsg   == [type : {"lease-ack"}, seq : 0..Last]
             \cup [type : {"registered", "run-complete-ack", "lease-lost"}]

-----------------------------------------------------------------------------
(* The worker *)

\* capLeaseBuffer's choice in a buffer over its limit: the oldest frame of the
\* first droppable type that has one, or nothing. One frame is all its loop
\* ever removes, since a buffer past the limit before this frame was added
\* holds nothing droppable.
Victims(h) ==
    {s \in h :
        /\ Cardinality(h) > BufferLimit
        /\ \E i \in DOMAIN Droppable :
            /\ Script[s] = Droppable[i]
            /\ \A t \in h : Script[t] = Droppable[i] => s <= t
            /\ \A j \in 1..(i - 1), t \in h : Script[t] # Droppable[j]}

\* n is just below the oldest frame of h, of n frames numbered so far if none.
JustBelow(n, h, numbered) ==
    /\ \A t \in h : n < t
    /\ n = numbered \/ n + 1 \in h

\* reportLeaseGap, through the generic queue. While the socket is down the
\* queued reports are left out: registering restates the furthest of them.
GapReport(n) == IF conn = "up" /\ n > 0 THEN <<GapMsg(n)>> ELSE <<>>

\* flushLease: whatever this socket has not been handed yet, unless the lease
\* is waiting to be told where the host got to.
Flush(h, d, waiting) ==
    IF conn = "up" /\ ~waiting /\ h \ d # {} THEN <<FramesMsg(h \ d)>> ELSE <<>>
DeliveredBy(h, d, waiting) == IF conn = "up" /\ ~waiting THEN h ELSE d

\* sendReporting: the execution's next frame is numbered, buffered, the buffer
\* capped (announcing a gap if that dropped something) and flushed.
Report ==
    /\ open /\ seq < Last
    /\ seq' = seq + 1
    /\ LET added == held \cup {seq'}
           kept  == added \ Victims(added)
           live  == delivered \ Victims(added)
       IN /\ held' = kept
          /\ dropped' = dropped \cup Victims(added)
          /\ delivered' = DeliveredBy(kept, live, awaitingAck)
          /\ \/ /\ Victims(added) = {}
                /\ gapThrough' = gapThrough
                /\ toHost' = toHost \o Flush(kept, live, awaitingAck)
             \/ /\ Victims(added) # {}
                /\ \E n \in 0..seq' :
                      /\ JustBelow(n, kept, seq')
                      /\ gapThrough' = IF n > gapThrough THEN n ELSE gapThrough
                /\ toHost' = toHost \o GapReport(gapThrough')
                                    \o Flush(kept, live, awaitingAck)
    /\ UNCHANGED <<awaitingAck, lastAckedSeq, open, conn, installed, toWorker>>
    /\ UNCHANGED <<leaseVars, diskVars, boundVars>>

\* Bound: one heartbeat or its answer under way at a time (the interval, 15s,
\* is long against a round trip; the answer is what the worker acts on).
BeatUnderWay ==
    \/ \E m \in Range(toHost) : m.type = "heartbeat"
    \/ \E m \in Range(toWorker) : m.type = "lease-ack"

Heartbeat ==
    /\ open /\ conn = "up" /\ ~BeatUnderWay
    /\ toHost' = Append(toHost, HeartbeatMsg)
    /\ UNCHANGED <<bufferVars, conn, installed, toWorker>>
    /\ UNCHANGED <<leaseVars, diskVars, boundVars>>

\* connect: a fresh socket, nothing delivered on it, and the register frame.
Connect ==
    /\ open /\ conn = "down"
    /\ conn' = "registering"
    /\ delivered' = {}
    /\ toHost' = Append(toHost, RegisterMsg)
    /\ UNCHANGED <<seq, held, awaitingAck, lastAckedSeq, gapThrough, open, dropped>>
    /\ UNCHANGED <<installed, toWorker, leaseVars, diskVars, boundVars>>

\* onRegistered restates what this lease has given up on; no frame goes out
\* until the lease-ack, or the backstop, ends the wait.
ReceiveRegistered ==
    /\ conn = "registering" /\ toWorker # <<>>
    /\ Head(toWorker).type = "registered"
    /\ conn' = "up"
    /\ toWorker' = Tail(toWorker)
    /\ toHost' = IF open /\ gapThrough > 0 THEN Append(toHost, GapMsg(gapThrough))
                                           ELSE toHost
    /\ UNCHANGED <<bufferVars, installed, leaseVars, diskVars, boundVars>>

\* The replay backstop's timer, armed by every registration.
ReplayBackstop ==
    /\ open /\ conn = "up" /\ awaitingAck
    /\ awaitingAck' = FALSE
    /\ delivered' = DeliveredBy(held, delivered, FALSE)
    /\ toHost' = toHost \o Flush(held, delivered, FALSE)
    /\ UNCHANGED <<seq, held, lastAckedSeq, gapThrough, open, dropped>>
    /\ UNCHANGED <<conn, installed, toWorker, leaseVars, diskVars, boundVars>>

\* A lease-ack trims the buffer; one that repeats the previous watermark makes
\* everything still held eligible again; then whatever is eligible goes out.
ReceiveLeaseAck ==
    /\ toWorker # <<>> /\ Head(toWorker).type = "lease-ack"
    /\ toWorker' = Tail(toWorker)
    /\ \/ /\ open
          /\ LET acked == Head(toWorker).seq
                 kept  == {s \in held : s > acked}
                 live  == IF acked = lastAckedSeq THEN {} ELSE delivered \cap kept
             IN /\ held' = kept
                /\ lastAckedSeq' = acked
                /\ awaitingAck' = FALSE
                /\ delivered' = DeliveredBy(kept, live, FALSE)
                /\ toHost' = toHost \o Flush(kept, live, FALSE)
       \/ /\ ~open
          /\ UNCHANGED <<held, lastAckedSeq, awaitingAck, delivered, toHost>>
    /\ UNCHANGED <<seq, gapThrough, open, dropped, conn, installed>>
    /\ UNCHANGED <<leaseVars, diskVars, boundVars>>

\* run-complete-ack, and lease-lost for a lease the host no longer has:
\* forgetLease drops the buffer with everything in it.
ReceiveRelease ==
    /\ toWorker # <<>>
    /\ Head(toWorker).type \in {"run-complete-ack", "lease-lost"}
    /\ toWorker' = Tail(toWorker)
    /\ open' = FALSE
    /\ held' = {}
    /\ delivered' = {}
    /\ UNCHANGED <<seq, awaitingAck, lastAckedSeq, gapThrough, dropped>>
    /\ UNCHANGED <<conn, installed, toHost, leaseVars, diskVars, boundVars>>

-----------------------------------------------------------------------------
(* The socket *)

\* The worker sees its socket die. What the host had already received of it is
\* still handled; the rest, and everything the host sent, is gone.
Disconnect ==
    /\ conn # "down" /\ drops < MaxDrops
    /\ drops' = drops + 1
    /\ conn' = "down" /\ installed' = FALSE
    /\ awaitingAck' = TRUE
    /\ ackOwed' = FALSE
    /\ toWorker' = <<>>
    /\ \E n \in 0..Len(toHost) :
          /\ toHost' = SubSeq(toHost, 1, n)
          /\ \A m \in Range(toHost') : m.type # "register"
    /\ UNCHANGED <<seq, held, delivered, lastAckedSeq, gapThrough, open, dropped>>
    /\ UNCHANGED <<leased, appliedSeq, appliedAhead, inFlight, chain, completion>>
    /\ UNCHANGED <<diskVars, restarts, failures>>

-----------------------------------------------------------------------------
(* The host *)

\* #send: a frame for a socket that is no longer the worker's goes nowhere.
HostSends(msgs) == toWorker' = IF installed THEN toWorker \o msgs ELSE toWorker

\* w is the end of the unbroken run of applied frames above from.
EndOfRun(from, ahead, w) ==
    /\ w \in from..Last
    /\ (from + 1)..w \subseteq ahead
    /\ w + 1 \notin ahead

\* #contiguousBelow: everything below the completion is accounted for.
ContiguousBelow(w) == w >= Last - 1

\* Moving the watermark up to from and over whatever is unbroken above it.
\* #maybeFinishPendingCompletion: a completion parked behind the gap proceeds.
RaiseWatermark(from, ahead) ==
    \E w \in from..Last :
        /\ EndOfRun(from, ahead, w)
        /\ appliedSeq' = w
        /\ appliedAhead' = {s \in ahead : s > w}
        /\ completion' = IF completion = "parked" /\ ContiguousBelow(w)
                         THEN "finishing" ELSE completion

\* #admitFrame
Admits(s) == s > appliedSeq /\ s \notin appliedAhead /\ s \notin inFlight

\* The next frame of the batch at the head of the socket: admitted onto the
\* lease's write chain, or, for the run-complete, handed to #completeRun; one
\* already accounted for, or of a settled lease, is refused.
HandleFrame ==
    /\ toHost # <<>> /\ Head(toHost).type = "frames"
    /\ \E s \in Head(toHost).seqs :
          /\ \A t \in Head(toHost).seqs : s <= t
          /\ toHost' = IF Head(toHost).seqs = {s} THEN Tail(toHost)
                       ELSE <<FramesMsg(Head(toHost).seqs \ {s})>> \o Tail(toHost)
          /\ \/ /\ leased /\ Admits(s) /\ s # Last
                /\ inFlight' = inFlight \cup {s}
                /\ chain' = Append(chain, s)
                /\ UNCHANGED completion
             \/ /\ leased /\ Admits(s) /\ s = Last
                /\ inFlight' = inFlight \cup {s}
                /\ completion' = IF completion = "none" THEN "draining" ELSE completion
                /\ UNCHANGED chain
             \/ /\ ~(leased /\ Admits(s))
                /\ UNCHANGED <<inFlight, chain, completion>>
    /\ UNCHANGED <<conn, installed, toWorker, leased, appliedSeq, appliedAhead, ackOwed>>
    /\ UNCHANGED <<bufferVars, diskVars, boundVars>>

\* The heartbeat handler: the lease is renewed and its watermark acked.
HandleHeartbeat ==
    /\ toHost # <<>> /\ Head(toHost).type = "heartbeat"
    /\ toHost' = Tail(toHost)
    /\ HostSends(IF leased THEN <<AckMsg(appliedSeq)>> ELSE <<>>)
    /\ UNCHANGED <<conn, installed, bufferVars, leaseVars, diskVars, boundVars>>

\* #skipLeaseGap
HandleLeaseGap ==
    /\ toHost # <<>> /\ Head(toHost).type = "lease-gap"
    /\ toHost' = Tail(toHost)
    /\ LET through == Head(toHost).throughSeq IN
          \/ /\ leased /\ through > appliedSeq
             /\ RaiseWatermark(through, {s \in appliedAhead : s > through})
          \/ /\ ~(leased /\ through > appliedSeq)
             /\ UNCHANGED <<appliedSeq, appliedAhead, completion>>
    /\ UNCHANGED <<conn, installed, toWorker, leased, inFlight, chain, ackOwed>>
    /\ UNCHANGED <<bufferVars, diskVars, boundVars>>

\* #handleRegister: the entry points at this socket, registered goes out, and
\* a claim on a lease the host no longer has is answered with lease-lost. The
\* lease-ack waits for the lease's writes.
HandleRegister ==
    /\ toHost # <<>> /\ Head(toHost).type = "register"
    /\ toHost' = Tail(toHost)
    /\ installed' = TRUE
    /\ toWorker' = IF leased THEN <<RegisteredMsg>> ELSE <<RegisteredMsg, LeaseLost>>
    /\ ackOwed' = leased
    /\ UNCHANGED <<conn, leased, appliedSeq, appliedAhead, inFlight, chain, completion>>
    /\ UNCHANGED <<bufferVars, diskVars, boundVars>>

\* The registration's tail, once #drainLeaseWrites has seen the chain empty.
AckRegistration ==
    /\ ackOwed /\ chain = <<>>
    /\ ackOwed' = FALSE
    /\ HostSends(IF leased THEN <<AckMsg(appliedSeq)>> ELSE <<>>)
    /\ UNCHANGED <<conn, installed, toHost, bufferVars, diskVars, boundVars>>
    /\ UNCHANGED <<leased, appliedSeq, appliedAhead, inFlight, chain, completion>>

\* #applyReported: the write at the head of the chain lands, and only then is
\* the frame marked applied (unless a gap stepped over it meanwhile).
WriteLands ==
    /\ chain # <<>>
    /\ chain' = Tail(chain)
    /\ inFlight' = inFlight \ {Head(chain)}
    /\ applied' = [applied EXCEPT ![Head(chain)] = @ + 1]
    /\ \/ /\ Head(chain) > appliedSeq
          /\ RaiseWatermark(appliedSeq, appliedAhead \cup {Head(chain)})
       \/ /\ Head(chain) <= appliedSeq
          /\ UNCHANGED <<appliedSeq, appliedAhead, completion>>
    /\ UNCHANGED <<leased, ackOwed, durableSeq, runDone>>
    /\ UNCHANGED <<bufferVars, wireVars, boundVars>>

\* A write rejects: the frame becomes admissible again, nothing is recorded.
WriteFails ==
    /\ chain # <<>> /\ failures < MaxFailures
    /\ failures' = failures + 1
    /\ chain' = Tail(chain)
    /\ inFlight' = inFlight \ {Head(chain)}
    /\ UNCHANGED <<leased, appliedSeq, appliedAhead, completion, ackOwed>>
    /\ UNCHANGED <<bufferVars, wireVars, diskVars, drops, restarts>>

\* #completeRun after its drain: finish, or park behind the gap.
DrainEnds ==
    /\ completion = "draining" /\ chain = <<>>
    /\ completion' = IF ContiguousBelow(appliedSeq) THEN "finishing" ELSE "parked"
    /\ UNCHANGED <<leased, appliedSeq, appliedAhead, inFlight, chain, ackOwed>>
    /\ UNCHANGED <<bufferVars, wireVars, diskVars, boundVars>>

\* #finishCompletion: the run's status is written, the worker acked, the lease
\* settled (and deleted from disk).
CompletionLands ==
    /\ completion = "finishing"
    /\ runDone' = TRUE
    /\ applied' = [applied EXCEPT ![Last] = @ + 1]
    /\ HostSends(<<CompleteAck>>)
    /\ leased' = FALSE /\ completion' = "none"
    /\ appliedSeq' = Last /\ appliedAhead' = {} /\ inFlight' = {}
    /\ UNCHANGED <<chain, ackOwed, durableSeq, conn, installed, toHost>>
    /\ UNCHANGED <<bufferVars, boundVars>>

\* Its status write rejects: unsettled, unacked, and admissible again.
CompletionFails ==
    /\ completion = "finishing" /\ failures < MaxFailures
    /\ failures' = failures + 1
    /\ completion' = "none"
    /\ inFlight' = inFlight \ {Last}
    /\ UNCHANGED <<leased, appliedSeq, appliedAhead, chain, ackOwed>>
    /\ UNCHANGED <<bufferVars, wireVars, diskVars, drops, restarts>>

\* The lease store's debounce fires.
PersistWatermark ==
    /\ leased /\ durableSeq # appliedSeq
    /\ durableSeq' = appliedSeq
    /\ UNCHANGED <<applied, runDone, bufferVars, wireVars, leaseVars, boundVars>>

\* The host process ends and boots again: through stop(), which flushes the
\* lease store, or without it. restore() re-adopts the lease from disk unless
\* its run is terminal; nothing else of it survives.
HostRestart ==
    /\ restarts < MaxRestarts
    /\ restarts' = restarts + 1
    /\ \/ durableSeq' = appliedSeq
       \/ HardCrash /\ durableSeq' = durableSeq
    /\ appliedSeq' = durableSeq'
    /\ appliedAhead' = {} /\ inFlight' = {} /\ chain' = <<>>
    /\ completion' = "none" /\ ackOwed' = FALSE
    /\ leased' = ~runDone
    /\ conn' = "down" /\ installed' = FALSE
    /\ toHost' = <<>> /\ toWorker' = <<>>
    /\ awaitingAck' = TRUE
    /\ UNCHANGED <<seq, held, delivered, lastAckedSeq, gapThrough, open, dropped>>
    /\ UNCHANGED <<applied, runDone, drops, failures>>

-----------------------------------------------------------------------------
Init ==
    /\ seq = 0 /\ held = {} /\ delivered = {} /\ dropped = {}
    /\ awaitingAck = FALSE /\ lastAckedSeq = -1 /\ gapThrough = 0 /\ open = TRUE
    /\ conn = "up" /\ installed = TRUE /\ toHost = <<>> /\ toWorker = <<>>
    /\ leased = TRUE /\ appliedSeq = 0 /\ appliedAhead = {} /\ inFlight = {}
    /\ chain = <<>> /\ completion = "none" /\ ackOwed = FALSE
    /\ durableSeq = 0 /\ applied = [s \in Frames |-> 0] /\ runDone = FALSE
    /\ drops = 0 /\ restarts = 0 /\ failures = 0

WorkerStep == \/ Report \/ Heartbeat \/ Connect \/ ReceiveRegistered
              \/ ReplayBackstop \/ ReceiveLeaseAck \/ ReceiveRelease
HostStep   == \/ HandleFrame \/ HandleHeartbeat \/ HandleLeaseGap \/ HandleRegister
              \/ AckRegistration \/ WriteLands \/ WriteFails \/ DrainEnds
              \/ CompletionLands \/ CompletionFails \/ PersistWatermark
Fault      == Disconnect \/ HostRestart

Next == WorkerStep \/ HostStep \/ Fault

Spec == Init /\ [][Next]_vars

\* The event loops run what is ready, the sockets deliver what they hold, and
\* the heartbeat and reconnect timers fire. Faults and failing writes are
\* bounded and never obliged to happen.
Fairness ==
    /\ WF_vars(Report) /\ WF_vars(Heartbeat) /\ WF_vars(Connect)
    /\ WF_vars(ReceiveRegistered) /\ WF_vars(ReceiveLeaseAck) /\ WF_vars(ReceiveRelease)
    /\ WF_vars(HandleFrame) /\ WF_vars(HandleHeartbeat) /\ WF_vars(HandleLeaseGap)
    /\ WF_vars(HandleRegister) /\ WF_vars(AckRegistration)
    /\ WF_vars(WriteLands \/ WriteFails) /\ WF_vars(DrainEnds)
    /\ WF_vars(CompletionLands \/ CompletionFails)

FairSpec == Spec /\ Fairness

-----------------------------------------------------------------------------
(* Correctness *)

\* The type invariant: every variable of the worker, the socket, the host's
\* lease and its disk stays within its domain.
TypeOK ==
    /\ seq \in 0..Last /\ held \subseteq Frames /\ delivered \subseteq Frames
    /\ dropped \subseteq Frames /\ awaitingAck \in BOOLEAN /\ open \in BOOLEAN
    /\ lastAckedSeq \in -1..Last /\ gapThrough \in 0..Last
    /\ conn \in {"down", "registering", "up"} /\ installed \in BOOLEAN
    /\ toHost \in Seq(WorkerMsg) /\ toWorker \in Seq(HostMsg)
    /\ leased \in BOOLEAN /\ appliedSeq \in 0..Last
    /\ appliedAhead \subseteq Frames /\ inFlight \subseteq Frames
    /\ chain \in Seq(Frames) /\ ackOwed \in BOOLEAN
    /\ completion \in {"none", "draining", "parked", "finishing"}
    /\ durableSeq \in 0..Last /\ applied \in [Frames -> Nat] /\ runDone \in BOOLEAN
    /\ drops \in Nat /\ restarts \in Nat /\ failures \in Nat

\* A frame somebody still answers for: its effect is on the host's disk, or
\* the worker's cap gave it up and said so.
Accounted(s) == applied[s] > 0 \/ s \in dropped

\* "A dead socket never loses one, only delays it" (connection.ts:66-70): a
\* reported frame the worker no longer holds has reached the host's disk or
\* was given up by the cap, whatever died, failed or was acked on the way.
NoSilentLoss == \A s \in 1..seq : s \in held \/ Accounted(s)

\* The watermark, the number that makes a worker throw frames away, never
\* runs ahead of the writes: neither the host's memory nor its disk claims a
\* frame that is not accounted for (#applyReported, workers.ts:1213-1219).
WatermarkHonest ==
    \A s \in Frames : s <= appliedSeq \/ s <= durableSeq => Accounted(s)

\* A run reaches its outcome only once everything reported below its
\* completion is accounted for, and only then does the worker let go of the
\* lease (#completeRun, workers.ts:2131-2137).
CompletionIsWhole ==
    /\ runDone => seq = Last /\ \A s \in 1..(Last - 1) : Accounted(s)
    /\ ~open => runDone

\* Admission is exact: one boot of the host applies a frame at most once,
\* through replays, retransmissions and lost acks (#admitFrame, 1182-1195).
AppliedOncePerBoot == \A s \in Frames : applied[s] <= 1 + restarts

\* "Appending here keeps a lease's writes in the order they were sent"
\* (workers.ts:376-383): as long as no write has failed, no frame's first write
\* comes after that of a frame numbered above it.
FirstWritesInOrder ==
    [][failures = 0 =>
        \A s \in Frames : applied[s] = 0 /\ applied'[s] > 0
            => \A t \in Frames : t > s => applied[t] = 0]_vars

\* A lease-gap only ever speaks of frames the worker no longer holds, so the
\* host never steps over one that could still arrive (connection.ts:302-311).
GapsAreGone ==
    \A m \in Range(toHost) : m.type = "lease-gap"
        => \A s \in 1..m.throughSeq : s \notin held /\ Accounted(s)

\* Every lease is eventually finished with on both sides: the run has its
\* outcome and the worker has forgotten the lease, so neither a parked
\* completion nor a buffer outlives its stream.
StreamSettles == <>(runDone /\ ~open)

\* The stream implements what ReportLog promises.
Log == INSTANCE ReportLog WITH
           Droppable <- DroppableTypes,
           reported  <- seq,
           recorded  <- {s \in Frames : applied[s] > 0},
           lost      <- dropped,
           settled   <- runDone
LogSpec == Log!Spec

-----------------------------------------------------------------------------
(* What makes the invariants above inductive: the same accounting carried  *)
(* by every message under way and every step the host has half taken.      *)

\* Nothing exists beyond the last frame reported.
NothingAhead ==
    /\ held \subseteq 1..seq /\ delivered \subseteq 1..seq /\ dropped \subseteq 1..seq
    /\ gapThrough <= seq
    /\ inFlight \subseteq 1..seq /\ Range(chain) \subseteq 1..seq
    /\ \A s \in Frames : applied[s] > 0 => s <= seq
    /\ \A m \in Range(toHost) :
          /\ m.type = "frames" => m.seqs # {} /\ m.seqs \subseteq 1..seq
          /\ m.type = "lease-gap" => m.throughSeq <= seq

\* Frames applied out of order are applied; the completion is never among
\* them, nor on the write chain.
AheadIsApplied ==
    /\ \A s \in appliedAhead : applied[s] > 0
    /\ Last \notin Range(chain)
    /\ applied[Last] > 0 <=> runDone

\* A lease-ack under way names a watermark that is honest already.
AcksAreHonest ==
    \A m \in Range(toWorker) :
        m.type = "lease-ack" => \A s \in Frames : s <= m.seq => Accounted(s)

\* The worker's own idea of the gap is as honest as the one it announces.
GapIsGone == \A s \in 1..gapThrough : s \notin held

\* A completion being applied is the last frame, with nothing missing below.
CompletionSafe ==
    /\ completion # "none" => leased /\ seq = Last
    /\ completion = "finishing" => \A s \in 1..(Last - 1) : Accounted(s)

\* Only a run with its outcome releases its lease, or makes a host say so.
ReleaseIsEarned ==
    /\ ~leased => runDone
    /\ \A m \in Range(toWorker) :
          m.type \in {"run-complete-ack", "lease-lost"} => runDone
    /\ Last \notin dropped

IInv ==
    /\ TypeOK /\ NoSilentLoss /\ WatermarkHonest /\ CompletionIsWhole /\ GapsAreGone
    /\ NothingAhead /\ AheadIsApplied /\ AcksAreHonest /\ GapIsGone
    /\ CompletionSafe /\ ReleaseIsEarned

\* What AppliedOncePerBoot needs besides: a frame still admissible, or still on
\* the write chain, has not been applied since this boot; no frame is on the
\* chain twice; and while the lease lasts, what is on it is in flight.
OnceInv ==
    /\ AppliedOncePerBoot
    /\ leased <=> ~runDone
    /\ \A s \in Frames :
          (s > appliedSeq /\ s \notin appliedAhead) \/ s \in Range(chain)
              => applied[s] <= restarts
    /\ \A s \in Range(chain) : s \notin appliedAhead
    /\ \A i, j \in DOMAIN chain : chain[i] = chain[j] => i = j
    /\ leased => Range(chain) \subseteq inFlight

\* What FirstWritesInOrder needs besides, while no write has failed. A frame that may
\* still be written for the first time: held, or on its way to the host's write chain, or
\* on it.
Carried(i, s) == toHost[i].type = "frames" /\ s \in toHost[i].seqs
Awaited(s) ==
    /\ applied[s] = 0
    /\ \/ s \in held \/ s \in Range(chain)
       \/ leased /\ s > appliedSeq /\ \E i \in DOMAIN toHost : Carried(i, s)

\* Wherever a frame is, those awaited below it are at least as far.
WrittenInOrder == \A s, t \in Frames : s < t /\ Awaited(s) => applied[t] = 0
ChainInOrder ==
    \A j \in DOMAIN chain, s \in Frames :
        s < chain[j] /\ Awaited(s) => \E i \in DOMAIN chain : i < j /\ chain[i] = s
WireInOrder ==
    \A j \in DOMAIN toHost, s, t \in Frames :
        Carried(j, t) /\ s < t /\ Awaited(s)
            => s \in Range(chain) \/ \E i \in DOMAIN toHost : i <= j /\ Carried(i, s)
DeliveredIsUnderWay ==
    conn # "down" =>
        \A s \in held \cap delivered : s < Last /\ applied[s] = 0
            => s \in Range(chain) \/ \E i \in DOMAIN toHost : Carried(i, s)
CompletionIsLast ==
    completion # "none" =>
        \A s \in Frames : s < Last /\ Awaited(s) => s \in Range(chain) /\ completion = "draining"

InFlightIsOnChain == leased => inFlight \subseteq Range(chain) \cup {Last}

StreamInOrder ==
    /\ WrittenInOrder /\ ChainInOrder /\ WireInOrder /\ DeliveredIsUnderWay
    /\ CompletionIsLast /\ InFlightIsOnChain
OrderInv ==
    /\ held \cap dropped = {}
    /\ failures = 0 => StreamInOrder

=============================================================================
