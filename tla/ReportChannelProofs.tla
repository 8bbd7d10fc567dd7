------------------------- MODULE ReportChannelProofs -------------------------
(***************************************************************************)
(* ReportChannel's type invariant and safety invariants, and that it       *)
(* implements ReportLog, for every script, buffer limit and fault bound.   *)
(* The argument is one inductive invariant, IInv: the accounting NoSilent- *)
(* Loss speaks of, carried by every message under way (a lease-ack names   *)
(* an honest watermark, a lease-gap only frames the worker let go of) and  *)
(* by every step the host has half taken.  OnceInv and OrderInv, on top    *)
(* of it, say which frames were applied, and in which order they can be.   *)
(***************************************************************************)
EXTENDS ReportChannel, SequenceTheorems, TLAPS

-----------------------------------------------------------------------------
(* Sequences of messages and the sets of messages in them *)

\* What a sequence holds after its head is taken, and where the head was.
LEMMA TakingTheHead ==
    ASSUME NEW M, NEW s \in Seq(M), s # <<>>
    PROVE  /\ Head(s) \in M /\ Head(s) \in Range(s)
           /\ Tail(s) \in Seq(M) /\ Range(Tail(s)) \subseteq Range(s)
<1>1. /\ Len(s) \in Nat /\ Len(s) > 0 /\ s[1] = Head(s) /\ s[1] \in M
      /\ DOMAIN s = 1..Len(s)
    OBVIOUS
<1>2. /\ Tail(s) \in Seq(M) /\ Len(Tail(s)) = Len(s) - 1
      /\ \A i \in 1..(Len(s) - 1) : Tail(s)[i] = s[i + 1]
    OBVIOUS
<1>3. Range(Tail(s)) \subseteq Range(s)
    BY <1>1, <1>2 DEF Range
<1>4. QED  BY <1>1, <1>2, <1>3 DEF Range

\* A prefix holds nothing the sequence did not.
LEMMA TakingAPrefix ==
    ASSUME NEW M, NEW s \in Seq(M), NEW n \in 0..Len(s)
    PROVE  SubSeq(s, 1, n) \in Seq(M) /\ Range(SubSeq(s, 1, n)) \subseteq Range(s)
<1>1. /\ SubSeq(s, 1, n) \in Seq(M) /\ Len(SubSeq(s, 1, n)) = n
      /\ \A i \in 1..n : SubSeq(s, 1, n)[i] = s[i]
    OBVIOUS
<1>2. QED  BY <1>1 DEF Range

\* Short sequences and what they hold.
LEMMA ShortSequences ==
    ASSUME NEW M
    PROVE  /\ <<>> \in Seq(M) /\ Range(<<>>) = {}
           /\ \A m \in M : <<m>> \in Seq(M) /\ Range(<<m>>) = {m}
           /\ \A a, b \in M : <<a, b>> \in Seq(M) /\ Range(<<a, b>>) = {a, b}
BY DEF Range

\* Appending is concatenating one message.
LEMMA Appending ==
    ASSUME NEW M, NEW s \in Seq(M), NEW m \in M
    PROVE  Append(s, m) \in Seq(M) /\ Range(Append(s, m)) = Range(s) \cup {m}
<1>1. Append(s, m) = s \o <<m>> OBVIOUS
<1>2. <<m>> \in Seq(M) /\ Range(<<m>>) = {m}  BY ShortSequences
<1>3. Range(s \o <<m>>) = Range(s) \cup Range(<<m>>)  BY ZenonT(60), <1>2, RangeConcatenation
<1>4. QED  BY <1>1, <1>2, <1>3

\* Concatenating within one message type.
LEMMA Concatenating ==
    ASSUME NEW M, NEW s \in Seq(M), NEW t \in Seq(M)
    PROVE  s \o t \in Seq(M) /\ Range(s \o t) = Range(s) \cup Range(t)
BY RangeConcatenation

\* The same, once for each wire.
LEMMA WireConcatenating ==
    /\ \A s, t \in Seq(WorkerMsg) :
          s \o t \in Seq(WorkerMsg) /\ Range(s \o t) = Range(s) \cup Range(t)
    /\ \A s, t \in Seq(HostMsg) :
          s \o t \in Seq(HostMsg) /\ Range(s \o t) = Range(s) \cup Range(t)
<1>1. ASSUME NEW s \in Seq(WorkerMsg), NEW t \in Seq(WorkerMsg)
      PROVE  s \o t \in Seq(WorkerMsg) /\ Range(s \o t) = Range(s) \cup Range(t)
    BY Concatenating
<1>2. ASSUME NEW s \in Seq(HostMsg), NEW t \in Seq(HostMsg)
      PROVE  s \o t \in Seq(HostMsg) /\ Range(s \o t) = Range(s) \cup Range(t)
    BY Concatenating
<1>3. QED  BY <1>1, <1>2

-----------------------------------------------------------------------------
(* Messages *)

\* The constants, as the steps below need them.
LEMMA Constants == Last \in Nat /\ Last > 0 /\ Frames = 1..Last
BY ChannelAssumption DEF Last, Frames

\* The cap never gives up a run-complete.
LEMMA CompletionIsKept == Script[Last] \notin DroppableTypes
BY ChannelAssumption DEF Last, DroppableTypes

\* The worker's messages are well formed and told apart by their type.
LEMMA WorkerMessages ==
    /\ \A S \in SUBSET Frames : FramesMsg(S) \in WorkerMsg
    /\ \A n \in Frames : GapMsg(n) \in WorkerMsg
    /\ HeartbeatMsg \in WorkerMsg /\ RegisterMsg \in WorkerMsg
    /\ \A S : FramesMsg(S).type = "frames" /\ FramesMsg(S).seqs = S
    /\ \A n : GapMsg(n).type = "lease-gap" /\ GapMsg(n).throughSeq = n
    /\ HeartbeatMsg.type = "heartbeat" /\ RegisterMsg.type = "register"
BY DEF FramesMsg, GapMsg, HeartbeatMsg, RegisterMsg, WorkerMsg

\* So are the host's.
LEMMA HostMessages ==
    /\ \A n \in 0..Last : AckMsg(n) \in HostMsg
    /\ RegisteredMsg \in HostMsg /\ CompleteAck \in HostMsg /\ LeaseLost \in HostMsg
    /\ \A n : AckMsg(n).type = "lease-ack" /\ AckMsg(n).seq = n
    /\ RegisteredMsg.type = "registered" /\ CompleteAck.type = "run-complete-ack"
    /\ LeaseLost.type = "lease-lost"
BY DEF AckMsg, RegisteredMsg, CompleteAck, LeaseLost, HostMsg

\* A frame batch taken off the wire is a set of frames; a gap and an ack name
\* a sequence number.
LEMMA TakenApart ==
    /\ \A m \in WorkerMsg : m.type = "frames" => m.seqs \in SUBSET Frames
    /\ \A m \in WorkerMsg : m.type = "lease-gap" => m.throughSeq \in Frames
    /\ \A m \in HostMsg : m.type = "lease-ack" => m.seq \in 0..Last
BY DEF WorkerMsg, HostMsg

\* What a flush puts on the wire: at most one batch, of held frames.
LEMMA Flushing ==
    ASSUME NEW h \in SUBSET Frames, NEW d, NEW w
    PROVE  /\ Flush(h, d, w) \in Seq(WorkerMsg)
           /\ \A m \in Range(Flush(h, d, w)) :
                 m.type = "frames" /\ m.seqs # {} /\ m.seqs \subseteq h
<1>1. CASE conn = "up" /\ ~w /\ h \ d # {}
    <2>1. Flush(h, d, w) = <<FramesMsg(h \ d)>>  BY <1>1 DEF Flush
    <2>2. FramesMsg(h \ d) \in WorkerMsg  BY WorkerMessages
    <2>3. QED  BY <2>1, <2>2, <1>1, ShortSequences, WorkerMessages
<1>2. CASE ~(conn = "up" /\ ~w /\ h \ d # {})
    <2>1. Flush(h, d, w) = <<>>  BY <1>2 DEF Flush
    <2>2. QED  BY <2>1, ShortSequences
<1>3. QED  BY <1>1, <1>2

\* What a gap report puts on the wire.
LEMMA Reporting ==
    ASSUME NEW n \in 0..Last
    PROVE  /\ GapReport(n) \in Seq(WorkerMsg)
           /\ \A m \in Range(GapReport(n)) :
                 m.type = "lease-gap" /\ m.throughSeq = n
<1>1. CASE conn = "up" /\ n > 0
    <2>1. GapReport(n) = <<GapMsg(n)>>  BY <1>1 DEF GapReport
    <2>2. GapMsg(n) \in WorkerMsg  BY <1>1, WorkerMessages, Constants
    <2>3. QED  BY <2>1, <2>2, ShortSequences, WorkerMessages
<1>2. CASE ~(conn = "up" /\ n > 0)
    <2>1. GapReport(n) = <<>>  BY <1>2 DEF GapReport
    <2>2. QED  BY <2>1, ShortSequences
<1>3. QED  BY <1>1, <1>2

\* What the host sends reaches the wire whole or not at all.
LEMMA HostSending ==
    ASSUME TypeOK, NEW msgs \in Seq(HostMsg), HostSends(msgs)
    PROVE  /\ toWorker' \in Seq(HostMsg)
           /\ Range(toWorker') \subseteq Range(toWorker) \cup Range(msgs)
BY Concatenating DEF HostSends, TypeOK

\* Taking a message off either wire.
LEMMA WorkerTakes ==
    ASSUME TypeOK, toWorker # <<>>, toWorker' = Tail(toWorker)
    PROVE  /\ Head(toWorker) \in HostMsg /\ Head(toWorker) \in Range(toWorker)
           /\ toWorker' \in Seq(HostMsg) /\ Range(toWorker') \subseteq Range(toWorker)
BY TakingTheHead DEF TypeOK

\* So is the host's.
LEMMA HostTakes ==
    ASSUME TypeOK, toHost # <<>>, toHost' = Tail(toHost)
    PROVE  /\ Head(toHost) \in WorkerMsg /\ Head(toHost) \in Range(toHost)
           /\ toHost' \in Seq(WorkerMsg) /\ Range(toHost') \subseteq Range(toHost)
BY TakingTheHead DEF TypeOK

-----------------------------------------------------------------------------
(* The invariant holds initially, and each step keeps it. *)

\* At dispatch nothing has been reported and the invariant holds.
LEMMA InitIInv == Init => IInv
<1> SUFFICES ASSUME Init PROVE IInv  OBVIOUS
<1>1. Range(toHost) = {} /\ Range(toWorker) = {} /\ Range(chain) = {}
    BY ShortSequences DEF Init
<1> USE Constants DEF Init
<1>2. TypeOK
    <2>1. /\ <<>> \in Seq(WorkerMsg) /\ <<>> \in Seq(HostMsg) /\ <<>> \in Seq(Frames)
        BY ShortSequences
    <2>2. lastAckedSeq \in -1..Last  OBVIOUS
    <2>3. applied \in [Frames -> Nat]  OBVIOUS
    <2>4. held \subseteq Frames /\ delivered \subseteq Frames /\ dropped \subseteq Frames
        OBVIOUS
    <2>5. appliedAhead \subseteq Frames /\ inFlight \subseteq Frames
        OBVIOUS
    <2>6. seq \in 0..Last /\ appliedSeq \in 0..Last /\ gapThrough \in 0..Last /\ durableSeq \in 0..Last
        OBVIOUS
    <2> HIDE Constants
    <2>7. QED  BY <2>1, <2>2, <2>3, <2>4, <2>5, <2>6 DEF TypeOK
<1>3. NoSilentLoss /\ WatermarkHonest
    BY DEF NoSilentLoss, WatermarkHonest, Frames
<1>4. CompletionIsWhole /\ GapsAreGone /\ AcksAreHonest /\ GapIsGone
    BY <1>1 DEF CompletionIsWhole, GapsAreGone, AcksAreHonest, GapIsGone
<1>5. NothingAhead
    BY <1>1 DEF NothingAhead
<1>6. AheadIsApplied /\ CompletionSafe /\ ReleaseIsEarned
    BY <1>1 DEF AheadIsApplied, CompletionSafe, ReleaseIsEarned
<1>7. QED  BY <1>2, <1>3, <1>4, <1>5, <1>6 DEF IInv

\* Only held frames of a droppable type are ever given up.
LEMMA VictimsAreDroppable ==
    ASSUME NEW h \in SUBSET Frames
    PROVE  /\ Victims(h) \subseteq h
           /\ \A s \in Victims(h) : Script[s] \in DroppableTypes
           /\ Last \notin Victims(h)
BY Constants, CompletionIsKept DEF Victims, DroppableTypes

\* A report keeps the invariant: the frame it adds is held, the frame it drops
\* is accounted for, and a gap it announces lies below everything held.
LEMMA ReportKeepsIInv == IInv /\ Report => IInv'
<1> SUFFICES ASSUME IInv, Report PROVE IInv'  OBVIOUS
<1> DEFINE added == held \cup {seq'}
           kept  == added \ Victims(added)
           live  == delivered \ Victims(added)
           flush == Flush(kept, live, awaitingAck)
           report == IF Victims(added) = {} THEN <<>> ELSE GapReport(gapThrough')
<1>1. /\ seq \in Nat /\ seq' = seq + 1 /\ seq' \in Frames /\ seq' <= Last
      /\ added \in SUBSET (1..seq') /\ added \in SUBSET Frames
    BY Constants DEF Report, IInv, TypeOK, NothingAhead
<1>2. /\ Victims(added) \subseteq added /\ Last \notin Victims(added)
      /\ kept \in SUBSET Frames /\ live \in SUBSET Frames
      /\ kept \subseteq added /\ kept \subseteq 1..seq' /\ live \subseteq 1..seq'
      /\ dropped \subseteq 1..seq'
    <2>1. Victims(added) \subseteq added /\ Last \notin Victims(added)
        BY <1>1, VictimsAreDroppable
    <2>2. delivered \subseteq Frames /\ delivered \subseteq 1..seq /\ dropped \subseteq 1..seq
        BY DEF IInv, TypeOK, NothingAhead
    <2>3. 1..seq \subseteq 1..seq'  BY <1>1
    <2>4. QED  BY <1>1, <2>1, <2>2, <2>3
<1>3. /\ gapThrough' \in 0..Last /\ gapThrough' <= seq'
      /\ \A s \in 1..gapThrough' : s \notin kept
    <2>1. /\ gapThrough \in Nat /\ gapThrough <= seq
          /\ \A s \in 1..gapThrough : s \notin added
        BY <1>1 DEF IInv, TypeOK, GapIsGone, NothingAhead
    <2>2. CASE Victims(added) = {}
        <3>1. gapThrough' = gapThrough  BY <2>2 DEF Report
        <3> HIDE DEF added, kept
        <3>2. QED  BY <1>1, <1>2, <2>1, <3>1, Constants
    <2>3. CASE Victims(added) # {}
        <3>1. PICK n \in 0..seq' :
                  /\ JustBelow(n, kept, seq')
                  /\ gapThrough' = IF n > gapThrough THEN n ELSE gapThrough
            BY <2>3 DEF Report
        <3>2. \A t \in kept : n < t  BY <3>1 DEF JustBelow
        <3> HIDE DEF added, kept
        <3>3. \A s \in 1..n : s \notin kept
            BY <1>1, <3>1, <3>2
        <3>4. \A s \in 1..gapThrough : s \notin kept
            BY <1>2, <2>1
        <3>5. QED  BY <1>1, <2>1, <3>1, <3>3, <3>4, Constants
    <2>4. QED  BY <2>2, <2>3
<1>4. /\ flush \in Seq(WorkerMsg)
      /\ \A m \in Range(flush) : m.type = "frames" /\ m.seqs # {} /\ m.seqs \subseteq kept
    BY <1>2, Flushing
<1>5. /\ report \in Seq(WorkerMsg)
      /\ \A m \in Range(report) : m.type = "lease-gap" /\ m.throughSeq = gapThrough'
    BY <1>3, Reporting, ShortSequences
<1>6. toHost \in Seq(WorkerMsg)  BY DEF IInv, TypeOK
<1>61.
      /\ Victims(added) = {} => toHost' = toHost \o flush /\ Range(report) = {}
      /\ Victims(added) # {} => toHost' = (toHost \o report) \o flush
    BY ShortSequences DEF Report
<1> HIDE DEF added, kept, live, flush, report
<1>62. toHost' \in Seq(WorkerMsg) /\ Range(toHost') = Range(toHost) \cup Range(report) \cup Range(flush)
    <2>1. CASE Victims(added) = {}
        <3>1. toHost' = toHost \o flush /\ Range(report) = {}  BY <2>1, <1>61
        <3>2. Range(toHost \o flush) = Range(toHost) \cup Range(flush)
            BY <1>4, <1>6, WireConcatenating
        <3>3. toHost \o flush \in Seq(WorkerMsg)
            BY <1>4, <1>6, WireConcatenating
        <3>4. QED  BY <3>1, <3>2, <3>3
    <2>2. CASE Victims(added) # {}
        <3>1. toHost \o report \in Seq(WorkerMsg) /\ Range(toHost \o report) = Range(toHost) \cup Range(report)
            BY <1>5, <1>6, WireConcatenating
        <3>2. QED  BY ZenonT(60), <2>2, <3>1, <1>4, <1>61, WireConcatenating
    <2>3. QED  BY <2>1, <2>2
<1>7. /\ held' = kept /\ dropped' = dropped \cup Victims(added)
      /\ delivered' = DeliveredBy(kept, live, awaitingAck)
      /\ UNCHANGED <<awaitingAck, lastAckedSeq, open, conn, installed, toWorker>>
      /\ UNCHANGED <<leaseVars, diskVars, boundVars>>
      /\ open /\ seq < Last
    BY DEF Report, added, kept, live
<1>8. \A s \in Frames : Accounted(s) => Accounted(s)'
    BY <1>7 DEF Accounted, diskVars
<1>9. TypeOK'
    <2>1. held' \subseteq Frames /\ delivered' \subseteq Frames /\ dropped' \subseteq Frames
        BY <1>1, <1>2, <1>7 DEF IInv, TypeOK, DeliveredBy
    <2>2. QED
        BY SMTT(30), <1>1, <1>3, <1>62, <1>7, <2>1, Constants
        DEF IInv, TypeOK, leaseVars, diskVars, boundVars
<1>10. NoSilentLoss'
    BY <1>1, <1>2, <1>7, <1>8, Constants DEF IInv, NoSilentLoss, Accounted, added, kept, diskVars
<1>11. WatermarkHonest'
    BY <1>7, <1>8 DEF IInv, WatermarkHonest, leaseVars, diskVars
<1>12. \A s \in 1..gapThrough' : s \notin held' /\ Accounted(s)'
    BY <1>1, <1>3, <1>7, <1>10 DEF NoSilentLoss
<1>13. GapsAreGone'
    <2> SUFFICES ASSUME NEW m \in Range(toHost'), m.type = "lease-gap"
                 PROVE  \A s \in 1..m.throughSeq : s \notin held' /\ Accounted(s)'
        BY DEF GapsAreGone
    <2>1. CASE m \in Range(toHost)
        <3>1. m \in WorkerMsg /\ m.throughSeq \in Frames /\ m.throughSeq <= seq
            BY <2>1, RangeOfSeq, TakenApart DEF IInv, TypeOK, NothingAhead
        <3>2. QED
            BY <1>1, <1>2, <1>7, <1>8, <2>1, <3>1, Constants DEF IInv, GapsAreGone, added, kept
    <2>2. CASE m \in Range(report)
        BY <2>2, <1>5, <1>12
    <2>3. m \notin Range(flush)  BY <1>4
    <2>4. QED  BY <1>62, <2>1, <2>2, <2>3
<1>14. CompletionIsWhole'
    BY <1>7, <1>8, Constants DEF IInv, TypeOK, CompletionIsWhole, leaseVars, diskVars
<1>15. NothingAhead'
    <2>1. \A m \in Range(toHost') :
              /\ m.type = "frames" => m.seqs # {} /\ m.seqs \subseteq 1..seq'
              /\ m.type = "lease-gap" => m.throughSeq <= seq'
        <3> SUFFICES ASSUME NEW m \in Range(toHost')
                     PROVE  /\ m.type = "frames" => m.seqs # {} /\ m.seqs \subseteq 1..seq'
                            /\ m.type = "lease-gap" => m.throughSeq <= seq'
            OBVIOUS
        <3>1. CASE m \in Range(toHost)
            <4>1. m \in WorkerMsg  BY <3>1, RangeOfSeq DEF IInv, TypeOK
            <4>2. QED  BY <1>1, <3>1, <4>1, TakenApart, Constants DEF IInv, NothingAhead
        <3>2. CASE m \in Range(report)  BY <3>2, <1>3, <1>5
        <3>3. CASE m \in Range(flush)  BY <3>3, <1>1, <1>4 DEF kept
        <3>4. QED  BY <1>62, <3>1, <3>2, <3>3
    <2>2. delivered' \subseteq 1..seq'
        BY <1>2, <1>7 DEF DeliveredBy
    <2>3. dropped' \subseteq 1..seq'
        BY <1>1, <1>2, <1>7
    <2>4. UNCHANGED <<inFlight, chain, applied>>
        BY <1>7 DEF leaseVars, diskVars
    <2>5. /\ inFlight' \subseteq 1..seq' /\ Range(chain)' \subseteq 1..seq'
          /\ \A s \in Frames : applied[s]' > 0 => s <= seq'
        BY <1>1, <2>4, Constants DEF IInv, NothingAhead
    <2>6. QED  BY <1>2, <1>3, <1>7, <2>1, <2>2, <2>3, <2>5 DEF NothingAhead
<1>16. AheadIsApplied'
    BY <1>7 DEF IInv, AheadIsApplied, leaseVars, diskVars
<1>17. AcksAreHonest'
    BY <1>7, <1>8 DEF IInv, AcksAreHonest
<1>18. GapIsGone'
    BY <1>12 DEF GapIsGone
<1>19. CompletionSafe'
    BY <1>7, <1>8 DEF IInv, CompletionSafe, TypeOK, leaseVars
<1>20. ReleaseIsEarned'
    BY <1>2, <1>7 DEF IInv, ReleaseIsEarned, leaseVars, diskVars
<1>21. QED
    BY <1>9, <1>10, <1>11, <1>13, <1>14, <1>15, <1>16, <1>17, <1>18, <1>19, <1>20 DEF IInv

-----------------------------------------------------------------------------
(* Every other step of the worker and the socket numbers no frame and      *)
(* writes nothing: what has to be shown of it is little.                   *)

\* What a worker step other than Report owes for IInv: the lease and the disk
\* stay as they are, frames leave the buffer only when accounted for, and only
\* honest messages go out.
LEMMA WorkerSide ==
    ASSUME IInv,
           UNCHANGED <<seq, gapThrough, dropped>>, UNCHANGED diskVars,
           UNCHANGED <<leased, appliedSeq, appliedAhead, inFlight, chain, completion>>,
           held' \subseteq held, \A s \in held : s \in held' \/ Accounted(s),
           delivered' \subseteq held \cup delivered,
           toHost' \in Seq(WorkerMsg),
           \A m \in Range(toHost') :
              \/ m \in Range(toHost)
              \/ m.type = "frames" /\ m.seqs # {} /\ m.seqs \subseteq held
              \/ m.type = "lease-gap" /\ m.throughSeq = gapThrough
              \/ m.type \in {"heartbeat", "register"},
           toWorker' \in Seq(HostMsg), Range(toWorker') \subseteq Range(toWorker),
           open' \in BOOLEAN, ~open' => ~open \/ runDone,
           awaitingAck' \in BOOLEAN, installed' \in BOOLEAN, ackOwed' \in BOOLEAN,
           conn' \in {"down", "registering", "up"}, lastAckedSeq' \in -1..Last,
           drops' \in Nat, restarts' \in Nat, failures' \in Nat
    PROVE  IInv'
<1>1. \A s \in Frames : Accounted(s)' = Accounted(s)
    BY DEF Accounted, diskVars
<1>2. \A s : s \in 1..seq => s \in Frames
    BY Constants DEF IInv, TypeOK
<1>3. TypeOK'
    BY DEF IInv, TypeOK, diskVars
<1>4. NoSilentLoss'
    BY <1>1, <1>2 DEF IInv, NoSilentLoss
<1>5. WatermarkHonest' /\ AheadIsApplied'
    BY <1>1 DEF IInv, WatermarkHonest, AheadIsApplied, diskVars
<1>6. CompletionIsWhole' /\ CompletionSafe'
    BY <1>1, Constants DEF IInv, CompletionIsWhole, CompletionSafe, diskVars
<1>7. \A s \in 1..gapThrough : s \notin held /\ Accounted(s)
    BY <1>2 DEF IInv, TypeOK, GapIsGone, NoSilentLoss, NothingAhead
<1>8. GapsAreGone'
    <2> SUFFICES ASSUME NEW m \in Range(toHost'), m.type = "lease-gap"
                 PROVE  \A s \in 1..m.throughSeq : s \notin held' /\ Accounted(s)'
        BY DEF GapsAreGone
    <2>1. CASE m \in Range(toHost)
        <3>1. m.throughSeq \in Frames  BY <2>1, RangeOfSeq, TakenApart DEF IInv, TypeOK
        <3>2. \A s \in 1..m.throughSeq : s \notin held /\ Accounted(s)
            BY <2>1 DEF IInv, GapsAreGone
        <3>3. \A s \in 1..m.throughSeq : s \in Frames  BY <3>1, Constants
        <3>4. QED  BY <1>1, <3>2, <3>3
    <2>2. CASE m.throughSeq = gapThrough
        <3>1. \A s \in 1..gapThrough : s \in Frames
            BY Constants DEF IInv, TypeOK
        <3>2. QED  BY <1>1, <1>7, <2>2, <3>1
    <2>3. QED  BY <2>1, <2>2
<1>9. NothingAhead'
    <2>1. \A m \in Range(toHost') :
              /\ m.type = "frames" => m.seqs # {} /\ m.seqs \subseteq 1..seq
              /\ m.type = "lease-gap" => m.throughSeq <= seq
        BY DEF IInv, NothingAhead
    <2>2. QED  BY <2>1 DEF IInv, NothingAhead, diskVars
<1>10. AcksAreHonest' /\ GapIsGone' /\ ReleaseIsEarned'
    BY <1>1 DEF IInv, AcksAreHonest, GapIsGone, ReleaseIsEarned, diskVars
<1>11. QED
    BY <1>3, <1>4, <1>5, <1>6, <1>8, <1>9, <1>10 DEF IInv

\* A heartbeat keeps the invariant.
LEMMA HeartbeatKeepsIInv == IInv /\ Heartbeat => IInv'
<1> SUFFICES ASSUME IInv, Heartbeat PROVE IInv'  OBVIOUS
<1>1. toHost' = Append(toHost, HeartbeatMsg) /\ toHost \in Seq(WorkerMsg)
      /\ HeartbeatMsg \in WorkerMsg /\ HeartbeatMsg.type = "heartbeat"
    BY WorkerMessages DEF Heartbeat, IInv, TypeOK
<1>2. toHost' \in Seq(WorkerMsg) /\ Range(toHost') = Range(toHost) \cup {HeartbeatMsg}
    BY <1>1, Appending
<1>3. QED
    BY <1>1, <1>2, WorkerSide
    DEF Heartbeat, IInv, TypeOK, bufferVars, leaseVars, boundVars

\* So does a new socket.
LEMMA ConnectKeepsIInv == IInv /\ Connect => IInv'
<1> SUFFICES ASSUME IInv, Connect PROVE IInv'  OBVIOUS
<1>1. toHost' = Append(toHost, RegisterMsg) /\ toHost \in Seq(WorkerMsg)
      /\ RegisterMsg \in WorkerMsg /\ RegisterMsg.type = "register"
    BY WorkerMessages DEF Connect, IInv, TypeOK
<1>2. toHost' \in Seq(WorkerMsg) /\ Range(toHost') = Range(toHost) \cup {RegisterMsg}
    BY <1>1, Appending
<1>3. QED
    BY <1>1, <1>2, WorkerSide
    DEF Connect, IInv, TypeOK, bufferVars, leaseVars, boundVars

\* So does the answer to it, and the gap restated then.
LEMMA ReceiveRegisteredKeepsIInv == IInv /\ ReceiveRegistered => IInv'
<1> SUFFICES ASSUME IInv, ReceiveRegistered PROVE IInv'  OBVIOUS
<1>1. toWorker' \in Seq(HostMsg) /\ Range(toWorker') \subseteq Range(toWorker)
    BY WorkerTakes DEF ReceiveRegistered, IInv
<1>2. toHost \in Seq(WorkerMsg) /\ gapThrough \in 0..Last
    BY DEF IInv, TypeOK
<1>3. /\ toHost' \in Seq(WorkerMsg)
      /\ \A m \in Range(toHost') :
            \/ m \in Range(toHost)
            \/ m.type = "lease-gap" /\ m.throughSeq = gapThrough
    <2>1. CASE open /\ gapThrough > 0
        <3>1. GapMsg(gapThrough) \in WorkerMsg
            BY <1>2, <2>1, WorkerMessages, Constants
        <3>2. toHost' = Append(toHost, GapMsg(gapThrough))
            BY <2>1 DEF ReceiveRegistered
        <3>3. /\ Append(toHost, GapMsg(gapThrough)) \in Seq(WorkerMsg)
              /\ Range(Append(toHost, GapMsg(gapThrough)))
                    = Range(toHost) \cup {GapMsg(gapThrough)}
            BY <1>2, <3>1, Appending
        <3>4. /\ GapMsg(gapThrough).type = "lease-gap"
              /\ GapMsg(gapThrough).throughSeq = gapThrough
            BY WorkerMessages
        <3>5. QED  BY <3>2, <3>3, <3>4
    <2>2. CASE ~(open /\ gapThrough > 0)
        <3>1. toHost' = toHost  BY <2>2 DEF ReceiveRegistered
        <3>2. QED  BY <1>2, <3>1
    <2>3. QED  BY <2>1, <2>2
<1>4. QED
    BY <1>1, <1>3, WorkerSide
    DEF ReceiveRegistered, IInv, TypeOK, bufferVars, leaseVars, boundVars

\* So does the backstop, which sends only what is held.
LEMMA ReplayBackstopKeepsIInv == IInv /\ ReplayBackstop => IInv'
<1> SUFFICES ASSUME IInv, ReplayBackstop PROVE IInv'  OBVIOUS
<1> DEFINE flush == Flush(held, delivered, FALSE)
<1>1. flush \in Seq(WorkerMsg)
      /\ \A m \in Range(flush) : m.type = "frames" /\ m.seqs # {} /\ m.seqs \subseteq held
    BY Flushing DEF IInv, TypeOK
<1>2. toHost' = toHost \o flush /\ toHost \in Seq(WorkerMsg)
    BY DEF ReplayBackstop, IInv, TypeOK
<1> HIDE DEF flush
<1>3. toHost' \in Seq(WorkerMsg) /\ Range(toHost') = Range(toHost) \cup Range(flush)
    BY <1>1, <1>2, WireConcatenating
<1>4. delivered' \subseteq held \cup delivered
    BY DEF ReplayBackstop, DeliveredBy
<1>5. toWorker' \in Seq(HostMsg) /\ Range(toWorker') = Range(toWorker)
    BY DEF ReplayBackstop, IInv, TypeOK
<1>6. QED
    BY <1>1, <1>3, <1>4, <1>5, WorkerSide
    DEF ReplayBackstop, IInv, TypeOK, bufferVars, leaseVars, boundVars

\* So does a lease-ack: what it trims is under an honest watermark.
LEMMA ReceiveLeaseAckKeepsIInv == IInv /\ ReceiveLeaseAck => IInv'
<1> SUFFICES ASSUME IInv, ReceiveLeaseAck PROVE IInv'  OBVIOUS
<1> DEFINE acked == Head(toWorker).seq
           kept  == {s \in held : s > acked}
           live  == IF acked = lastAckedSeq THEN {} ELSE delivered \cap kept
           flush == Flush(kept, live, FALSE)
<1>1. /\ Head(toWorker) \in Range(toWorker) /\ acked \in 0..Last
      /\ toWorker' \in Seq(HostMsg) /\ Range(toWorker') \subseteq Range(toWorker)
    BY WorkerTakes, TakenApart DEF ReceiveLeaseAck, IInv
<1>2. \A s \in held : s \in kept \/ Accounted(s)
    BY <1>1, Constants DEF ReceiveLeaseAck, IInv, TypeOK, AcksAreHonest
<1>3. toHost \in Seq(WorkerMsg) /\ kept \in SUBSET Frames /\ held \subseteq Frames
    BY DEF IInv, TypeOK
<1>4. flush \in Seq(WorkerMsg)
      /\ \A m \in Range(flush) : m.type = "frames" /\ m.seqs # {} /\ m.seqs \subseteq kept
    BY <1>3, Flushing
<1>5. CASE open
    <2>1. /\ held' = kept /\ lastAckedSeq' = acked /\ awaitingAck' = FALSE
          /\ delivered' = DeliveredBy(kept, live, FALSE)
          /\ toHost' = toHost \o flush
        BY <1>5 DEF ReceiveLeaseAck
    <2>2. delivered' \subseteq held \cup delivered
        BY <2>1 DEF DeliveredBy
    <2>3. kept \subseteq held  OBVIOUS
    <2> HIDE DEF acked, kept, live, flush
    <2>4. toHost' \in Seq(WorkerMsg) /\ Range(toHost') = Range(toHost) \cup Range(flush)
        BY <1>3, <1>4, <2>1, WireConcatenating
    <2>5. lastAckedSeq' \in -1..Last  BY <1>1, <2>1
    <2>6. QED
        BY <1>1, <1>2, <1>4, <2>1, <2>2, <2>3, <2>4, <2>5, WorkerSide
        DEF ReceiveLeaseAck, IInv, TypeOK, leaseVars, boundVars
<1>6. CASE ~open
    BY <1>1, <1>6, WorkerSide
    DEF ReceiveLeaseAck, IInv, TypeOK, leaseVars, boundVars
<1>7. QED  BY <1>5, <1>6

\* So does a release, which only a run with its outcome causes.
LEMMA ReceiveReleaseKeepsIInv == IInv /\ ReceiveRelease => IInv'
<1> SUFFICES ASSUME IInv, ReceiveRelease PROVE IInv'  OBVIOUS
<1>1. /\ Head(toWorker) \in Range(toWorker)
      /\ toWorker' \in Seq(HostMsg) /\ Range(toWorker') \subseteq Range(toWorker)
    BY WorkerTakes DEF ReceiveRelease, IInv
<1>2. runDone
    BY <1>1 DEF ReceiveRelease, IInv, ReleaseIsEarned
<1>3. \A s \in held : Accounted(s)
    BY <1>2, Constants
    DEF IInv, TypeOK, CompletionIsWhole, AheadIsApplied, Accounted
<1>4. QED
    BY <1>1, <1>2, <1>3, WorkerSide
    DEF ReceiveRelease, IInv, TypeOK, leaseVars, boundVars

\* So does a dying socket, which only takes messages away.
LEMMA DisconnectKeepsIInv == IInv /\ Disconnect => IInv'
<1> SUFFICES ASSUME IInv, Disconnect PROVE IInv'  OBVIOUS
<1>1. toHost' \in Seq(WorkerMsg) /\ Range(toHost') \subseteq Range(toHost)
    <2>1. PICK n \in 0..Len(toHost) : toHost' = SubSeq(toHost, 1, n)
        BY DEF Disconnect
    <2>2. QED  BY <2>1, TakingAPrefix DEF IInv, TypeOK
<1>2. toWorker' \in Seq(HostMsg) /\ Range(toWorker') = {}
    BY ShortSequences DEF Disconnect
<1>3. /\ UNCHANGED <<seq, held, delivered, lastAckedSeq, gapThrough, open, dropped>>
      /\ UNCHANGED <<leased, appliedSeq, appliedAhead, inFlight, chain, completion>>
      /\ UNCHANGED diskVars
      /\ conn' = "down" /\ installed' = FALSE /\ awaitingAck' = TRUE /\ ackOwed' = FALSE
      /\ drops' = drops + 1 /\ restarts' = restarts /\ failures' = failures
    BY DEF Disconnect
<1>4. /\ open' \in BOOLEAN /\ lastAckedSeq' \in -1..Last
      /\ drops' \in Nat /\ restarts' \in Nat /\ failures' \in Nat
    BY <1>3 DEF IInv, TypeOK
<1>5. QED  BY <1>1, <1>2, <1>3, <1>4, WorkerSide

-----------------------------------------------------------------------------
(* The host's steps touch nothing of the buffer. *)

\* What a host step owes for IInv: the worker stays as it is, the disk only
\* gains, and watermark, chain, completion and messages stay honest.
LEMMA HostSide ==
    ASSUME IInv,
           UNCHANGED <<seq, held, delivered, dropped, gapThrough, open, lastAckedSeq>>,
           awaitingAck' \in BOOLEAN, installed' \in BOOLEAN, ackOwed' \in BOOLEAN,
           conn' \in {"down", "registering", "up"},
           drops' \in Nat, restarts' \in Nat, failures' \in Nat,
           applied' \in [Frames -> Nat], \A s \in Frames : applied'[s] >= applied[s],
           \A s \in Frames : applied'[s] > 0 => s <= seq,
           runDone' \in BOOLEAN, applied'[Last] > 0 <=> runDone', runDone => runDone',
           runDone' => seq = Last /\ \A s \in 1..(Last - 1) : Accounted(s)',
           toHost' \in Seq(WorkerMsg),
           \A m \in Range(toHost') :
              \/ m \in Range(toHost)
              \/ m.type = "frames" /\ m.seqs # {} /\ m.seqs \subseteq 1..seq,
           toWorker' \in Seq(HostMsg),
           \A m \in Range(toWorker') :
              \/ m \in Range(toWorker)
              \/ m.type = "lease-ack" /\ m.seq = appliedSeq
              \/ m.type = "registered"
              \/ m.type \in {"run-complete-ack", "lease-lost"} /\ runDone',
           leased' \in BOOLEAN, ~leased' => runDone',
           appliedSeq' \in 0..Last, durableSeq' \in 0..Last, WatermarkHonest',
           appliedAhead' \subseteq Frames, \A s \in appliedAhead' : applied'[s] > 0,
           inFlight' \subseteq 1..seq,
           chain' \in Seq(Frames), Range(chain') \subseteq 1..seq, Last \notin Range(chain'),
           completion' \in {"none", "draining", "parked", "finishing"}, CompletionSafe'
    PROVE  IInv'
<1>0. /\ seq \in 0..Last /\ \A s \in Frames : applied[s] \in Nat /\ applied'[s] \in Nat
      /\ dropped' = dropped
    BY DEF IInv, TypeOK
<1>1. \A s \in Frames : Accounted(s) => Accounted(s)'
    BY <1>0 DEF Accounted
<1>2. \A s : s \in 1..seq => s \in Frames
    BY <1>0, Constants
<1>3. TypeOK'
    <2>1. inFlight' \subseteq Frames  BY <1>2
    <2>2. QED  BY <2>1 DEF IInv, TypeOK
<1>4. NoSilentLoss'
    BY <1>1, <1>2 DEF IInv, NoSilentLoss
<1>5. CompletionIsWhole'
    BY DEF IInv, CompletionIsWhole
<1>6. GapsAreGone'
    <2> SUFFICES ASSUME NEW m \in Range(toHost'), m.type = "lease-gap"
                 PROVE  \A s \in 1..m.throughSeq : s \notin held' /\ Accounted(s)'
        BY DEF GapsAreGone
    <2>1. m \in Range(toHost)  OBVIOUS
    <2>2. m.throughSeq \in Frames  BY <2>1, RangeOfSeq, TakenApart DEF IInv, TypeOK
    <2>3. \A s \in 1..m.throughSeq : s \in Frames  BY SMTT(30), <2>2, Constants
    <2>4. QED  BY <1>1, <2>1, <2>3 DEF IInv, GapsAreGone
<1>7. NothingAhead'
    <2>1. \A m \in Range(toHost') :
              /\ m.type = "frames" => m.seqs # {} /\ m.seqs \subseteq 1..seq
              /\ m.type = "lease-gap" => m.throughSeq <= seq
        BY DEF IInv, NothingAhead
    <2>2. QED  BY <2>1 DEF IInv, NothingAhead
<1>8. AheadIsApplied' /\ GapIsGone'
    BY DEF IInv, AheadIsApplied, GapIsGone
<1>9. AcksAreHonest'
    <2> SUFFICES ASSUME NEW m \in Range(toWorker'), m.type = "lease-ack",
                        NEW s \in Frames, s <= m.seq
                 PROVE  Accounted(s)'
        BY DEF AcksAreHonest
    <2>1. m \in Range(toWorker) \/ m.seq = appliedSeq  OBVIOUS
    <2>2. Accounted(s)  BY <2>1 DEF IInv, AcksAreHonest, WatermarkHonest
    <2>3. QED  BY <1>1, <2>2
<1>10. ReleaseIsEarned'
    BY DEF IInv, ReleaseIsEarned
<1>11. QED
    BY <1>3, <1>4, <1>5, <1>6, <1>7, <1>8, <1>9, <1>10 DEF IInv

\* Raising the watermark over applied frames keeps it honest, and releases a
\* parked completion only when nothing is missing below it.
LEMMA Raising ==
    ASSUME completion \in {"none", "draining", "parked", "finishing"},
           NEW from \in 0..Last, NEW ahead \in SUBSET Frames,
           \A s \in Frames : s <= from => Accounted(s)',
           \A s \in ahead : applied'[s] > 0,
           RaiseWatermark(from, ahead)
    PROVE  /\ appliedSeq' \in 0..Last
           /\ \A s \in Frames : s <= appliedSeq' => Accounted(s)'
           /\ appliedAhead' \subseteq ahead
           /\ completion' \in {"none", "draining", "parked", "finishing"}
           /\ completion' # "none" => completion # "none"
           /\ completion' = "finishing" =>
                completion = "finishing" \/ \A s \in 1..(Last - 1) : Accounted(s)'
<1>1. PICK w \in from..Last :
          /\ EndOfRun(from, ahead, w)
          /\ appliedSeq' = w
          /\ appliedAhead' = {s \in ahead : s > w}
          /\ completion' = IF completion = "parked" /\ ContiguousBelow(w)
                           THEN "finishing" ELSE completion
    BY DEF RaiseWatermark
<1>2. \A s \in Frames : s <= w => Accounted(s)'
    <2>1. \A s \in Frames : s > from /\ s <= w => s \in ahead
        BY <1>1, Constants DEF EndOfRun
    <2>2. \A s \in ahead : Accounted(s)'
        BY DEF Accounted
    <2>3. QED  BY <1>1, <2>1, <2>2, Constants
<1>3. ContiguousBelow(w) => \A s \in 1..(Last - 1) : Accounted(s)'
    BY <1>1, <1>2, Constants DEF ContiguousBelow
<1>4. QED  BY <1>1, <1>2, <1>3, Constants

\* Admitting or refusing a frame keeps the invariant: only reported frames
\* reach the chain, and the completion never does.
LEMMA HandleFrameKeepsIInv == IInv /\ HandleFrame => IInv'
<1> SUFFICES ASSUME IInv, HandleFrame PROVE IInv'  OBVIOUS
<1> DEFINE batch == Head(toHost).seqs
<1>1. PICK s \in batch :
          /\ \A t \in batch : s <= t
          /\ toHost' = IF batch = {s} THEN Tail(toHost)
                       ELSE <<FramesMsg(batch \ {s})>> \o Tail(toHost)
          /\ \/ /\ leased /\ Admits(s) /\ s # Last
                /\ inFlight' = inFlight \cup {s}
                /\ chain' = Append(chain, s)
                /\ UNCHANGED completion
             \/ /\ leased /\ Admits(s) /\ s = Last
                /\ inFlight' = inFlight \cup {s}
                /\ completion' = IF completion = "none" THEN "draining" ELSE completion
                /\ UNCHANGED chain
             \/ /\ ~(leased /\ Admits(s))
                /\ UNCHANGED <<inFlight, chain, completion>>
    BY DEF HandleFrame
<1>2. /\ Head(toHost) \in WorkerMsg /\ Head(toHost) \in Range(toHost)
      /\ Tail(toHost) \in Seq(WorkerMsg) /\ Range(Tail(toHost)) \subseteq Range(toHost)
    BY TakingTheHead DEF HandleFrame, IInv, TypeOK
<1>3. batch \in SUBSET Frames /\ batch \subseteq 1..seq
    BY <1>2, TakenApart DEF HandleFrame, IInv, NothingAhead
<1> HIDE DEF batch
<1>4. /\ toHost' \in Seq(WorkerMsg)
      /\ \A m \in Range(toHost') :
            \/ m \in Range(toHost)
            \/ m.type = "frames" /\ m.seqs # {} /\ m.seqs \subseteq 1..seq
    <2>1. CASE batch = {s}
        BY <1>1, <1>2, <2>1
    <2>2. CASE batch # {s}
        <3>1. /\ FramesMsg(batch \ {s}) \in WorkerMsg
              /\ FramesMsg(batch \ {s}).type = "frames"
              /\ FramesMsg(batch \ {s}).seqs = batch \ {s}
            BY <1>3, WorkerMessages
        <3>2. /\ <<FramesMsg(batch \ {s})>> \in Seq(WorkerMsg)
              /\ Range(<<FramesMsg(batch \ {s})>>) = {FramesMsg(batch \ {s})}
            BY <3>1, ShortSequences
        <3>3. toHost' = <<FramesMsg(batch \ {s})>> \o Tail(toHost)
            BY <1>1, <2>2
        <3>4. /\ toHost' \in Seq(WorkerMsg)
              /\ Range(toHost') = {FramesMsg(batch \ {s})} \cup Range(Tail(toHost))
            BY <1>2, <3>2, <3>3, WireConcatenating
        <3>5. batch \ {s} # {} /\ batch \ {s} \subseteq 1..seq
            BY <1>1, <1>3, <2>2
        <3>6. QED  BY <1>2, <3>1, <3>4, <3>5
    <2>3. QED  BY <2>1, <2>2
<1>5. /\ UNCHANGED <<seq, held, delivered, dropped, gapThrough, open, lastAckedSeq, awaitingAck>>
      /\ UNCHANGED <<conn, installed, toWorker, leased, appliedSeq, appliedAhead, ackOwed>>
      /\ UNCHANGED <<durableSeq, applied, runDone, drops, restarts, failures>>
    BY DEF HandleFrame, bufferVars, diskVars, boundVars
<1>6. s \in Frames /\ s \in 1..seq /\ seq \in 0..Last
    BY <1>1, <1>3 DEF IInv, TypeOK
<1>7. inFlight' \subseteq 1..seq
    BY <1>1, <1>6 DEF IInv, NothingAhead
<1>8. /\ chain' \in Seq(Frames) /\ Range(chain') \subseteq 1..seq /\ Last \notin Range(chain')
    <2>1. /\ chain \in Seq(Frames) /\ Range(chain) \subseteq 1..seq /\ Last \notin Range(chain)
        BY DEF IInv, TypeOK, NothingAhead, AheadIsApplied
    <2>2. CASE chain' = Append(chain, s) /\ s # Last
        <3>1. chain' \in Seq(Frames) /\ Range(chain') = Range(chain) \cup {s}
            BY <1>6, <2>1, <2>2, Appending
        <3>2. QED  BY <1>6, <2>1, <2>2, <3>1
    <2>3. CASE chain' = chain  BY <2>1, <2>3
    <2>4. QED  BY <1>1, <2>2, <2>3
<1>9. completion' \in {"none", "draining", "parked", "finishing"} /\ CompletionSafe'
    <2>1. CASE completion' = completion
        BY <1>5, <2>1 DEF IInv, TypeOK, CompletionSafe, Accounted
    <2>2. CASE leased /\ s = Last /\ completion = "none" /\ completion' = "draining"
        BY <1>5, <1>6, <2>2, Constants DEF CompletionSafe
    <2>3. QED  BY <1>1, <2>1, <2>2
<1>10. /\ \A t \in Frames : Accounted(t)' = Accounted(t)
       /\ WatermarkHonest'
    BY <1>5 DEF IInv, WatermarkHonest, Accounted
<1>11. /\ runDone' => seq = Last /\ \A t \in 1..(Last - 1) : Accounted(t)'
    BY <1>5, <1>10, Constants DEF IInv, CompletionIsWhole
<1>12. /\ applied' \in [Frames -> Nat] /\ \A t \in Frames : applied'[t] >= applied[t]
       /\ \A t \in Frames : applied'[t] > 0 => t <= seq
       /\ \A t \in appliedAhead' : applied'[t] > 0
       /\ applied'[Last] > 0 <=> runDone'
    BY <1>5 DEF IInv, TypeOK, NothingAhead, AheadIsApplied
<1>13. /\ toWorker' \in Seq(HostMsg) /\ Range(toWorker') = Range(toWorker)
       /\ ~leased' => runDone'
    BY <1>5 DEF IInv, TypeOK, ReleaseIsEarned
<1>14. /\ awaitingAck' \in BOOLEAN /\ installed' \in BOOLEAN /\ ackOwed' \in BOOLEAN
       /\ conn' \in {"down", "registering", "up"} /\ leased' \in BOOLEAN /\ runDone' \in BOOLEAN
       /\ drops' \in Nat /\ restarts' \in Nat /\ failures' \in Nat
       /\ appliedSeq' \in 0..Last /\ durableSeq' \in 0..Last /\ appliedAhead' \subseteq Frames
    BY <1>5 DEF IInv, TypeOK
<1>15. QED
    BY <1>4, <1>5, <1>7, <1>8, <1>9, <1>10, <1>11, <1>12, <1>13, <1>14, HostSide

\* HostSide's assumptions, gathered by the part of the state they speak of.
WorkerUntouched ==
    UNCHANGED <<seq, held, delivered, dropped, gapThrough, open, lastAckedSeq>>
DiskStep ==
    /\ applied' \in [Frames -> Nat] /\ \A s \in Frames : applied'[s] >= applied[s]
    /\ \A s \in Frames : applied'[s] > 0 => s <= seq
    /\ runDone' \in BOOLEAN /\ (applied'[Last] > 0 <=> runDone') /\ (runDone => runDone')
    /\ runDone' => seq = Last /\ \A s \in 1..(Last - 1) : Accounted(s)'
ChainStep ==
    /\ inFlight' \subseteq 1..seq
    /\ chain' \in Seq(Frames) /\ Range(chain') \subseteq 1..seq /\ Last \notin Range(chain')
WatermarkStep ==
    /\ appliedSeq' \in 0..Last /\ durableSeq' \in 0..Last /\ WatermarkHonest'
    /\ appliedAhead' \subseteq Frames /\ \A s \in appliedAhead' : applied'[s] > 0
ToHostStep ==
    /\ toHost' \in Seq(WorkerMsg)
    /\ \A m \in Range(toHost') :
          \/ m \in Range(toHost)
          \/ m.type = "frames" /\ m.seqs # {} /\ m.seqs \subseteq 1..seq
ToWorkerStep ==
    /\ toWorker' \in Seq(HostMsg)
    /\ \A m \in Range(toWorker') :
          \/ m \in Range(toWorker)
          \/ m.type = "lease-ack" /\ m.seq = appliedSeq
          \/ m.type = "registered"
          \/ m.type \in {"run-complete-ack", "lease-lost"} /\ runDone'
CompletionStep ==
    /\ completion' \in {"none", "draining", "parked", "finishing"} /\ CompletionSafe'
    /\ leased' \in BOOLEAN /\ (~leased' => runDone')
FlagsStep ==
    /\ awaitingAck' \in BOOLEAN /\ installed' \in BOOLEAN /\ ackOwed' \in BOOLEAN
    /\ conn' \in {"down", "registering", "up"}
    /\ drops' \in Nat /\ restarts' \in Nat /\ failures' \in Nat

\* HostSide, in those terms.
LEMMA HostStepKeepsIInv ==
    ASSUME IInv, WorkerUntouched, DiskStep, ChainStep, WatermarkStep, ToHostStep,
           ToWorkerStep, CompletionStep, FlagsStep
    PROVE  IInv'
<1>1. UNCHANGED <<seq, held, delivered, dropped, gapThrough, open, lastAckedSeq>>
    BY DEF WorkerUntouched
<1>2. /\ applied' \in [Frames -> Nat] /\ \A s \in Frames : applied'[s] >= applied[s]
      /\ \A s \in Frames : applied'[s] > 0 => s <= seq
      /\ runDone' \in BOOLEAN /\ (applied'[Last] > 0 <=> runDone') /\ (runDone => runDone')
      /\ runDone' => seq = Last /\ \A s \in 1..(Last - 1) : Accounted(s)'
    BY DEF DiskStep
<1>3. /\ inFlight' \subseteq 1..seq
      /\ chain' \in Seq(Frames) /\ Range(chain') \subseteq 1..seq /\ Last \notin Range(chain')
    BY DEF ChainStep
<1>4. /\ appliedSeq' \in 0..Last /\ durableSeq' \in 0..Last /\ WatermarkHonest'
      /\ appliedAhead' \subseteq Frames /\ \A s \in appliedAhead' : applied'[s] > 0
    BY DEF WatermarkStep
<1>5. /\ toHost' \in Seq(WorkerMsg)
      /\ \A m \in Range(toHost') :
            \/ m \in Range(toHost)
            \/ m.type = "frames" /\ m.seqs # {} /\ m.seqs \subseteq 1..seq
    BY DEF ToHostStep
<1>6. /\ toWorker' \in Seq(HostMsg)
      /\ \A m \in Range(toWorker') :
            \/ m \in Range(toWorker)
            \/ m.type = "lease-ack" /\ m.seq = appliedSeq
            \/ m.type = "registered"
            \/ m.type \in {"run-complete-ack", "lease-lost"} /\ runDone'
    BY DEF ToWorkerStep
<1>7. /\ completion' \in {"none", "draining", "parked", "finishing"} /\ CompletionSafe'
      /\ leased' \in BOOLEAN /\ (~leased' => runDone')
    BY DEF CompletionStep
<1>8. /\ awaitingAck' \in BOOLEAN /\ installed' \in BOOLEAN /\ ackOwed' \in BOOLEAN
      /\ conn' \in {"down", "registering", "up"}
      /\ drops' \in Nat /\ restarts' \in Nat /\ failures' \in Nat
    BY DEF FlagsStep
<1>9. QED
    BY <1>1, <1>2, <1>3, <1>4, <1>5, <1>6, <1>7, <1>8, HostSide

-----------------------------------------------------------------------------
(* What a host step that leaves a part alone owes for it: nothing *)

\* The disk.
LEMMA DiskStays ==
    ASSUME IInv, UNCHANGED <<seq, dropped, applied, runDone>>
    PROVE  DiskStep /\ \A s \in Frames : Accounted(s)' = Accounted(s)
<1>1. \A s \in Frames : Accounted(s)' = Accounted(s)
    BY DEF Accounted
<1>2. runDone' => seq = Last /\ \A s \in 1..(Last - 1) : Accounted(s)'
    BY <1>1, Constants DEF IInv, CompletionIsWhole
<1>3. /\ applied' = applied /\ runDone' = runDone
      /\ applied \in [Frames -> Nat] /\ \A s \in Frames : applied[s] > 0 => s <= seq
      /\ runDone \in BOOLEAN /\ (applied[Last] > 0 <=> runDone)
    BY DEF IInv, TypeOK, NothingAhead, AheadIsApplied
<1>4. \A s \in Frames : applied'[s] >= applied[s]
    BY <1>3
<1>5. QED  BY <1>1, <1>2, <1>3, <1>4 DEF DiskStep

\* The write chain.
LEMMA ChainStays ==
    ASSUME IInv, UNCHANGED <<seq, inFlight, chain>>
    PROVE  ChainStep
BY DEF ChainStep, IInv, TypeOK, NothingAhead, AheadIsApplied

\* The watermark and its copy on disk.
LEMMA WatermarkStays ==
    ASSUME IInv, UNCHANGED <<dropped, applied, appliedSeq, appliedAhead, durableSeq>>
    PROVE  WatermarkStep
<1>1. WatermarkHonest'
    BY DEF IInv, WatermarkHonest, Accounted
<1>2. QED  BY <1>1 DEF WatermarkStep, IInv, TypeOK, AheadIsApplied

\* The two directions of the wire.
LEMMA ToHostStays ==
    ASSUME IInv, UNCHANGED toHost
    PROVE  ToHostStep
BY DEF ToHostStep, IInv, TypeOK

\* The host taking a message off the wire.
LEMMA ToHostTaken ==
    ASSUME IInv, toHost # <<>>, toHost' = Tail(toHost)
    PROVE  ToHostStep
<1>1. toHost' \in Seq(WorkerMsg) /\ Range(toHost') \subseteq Range(toHost)
    BY HostTakes DEF IInv
<1>2. QED  BY <1>1 DEF ToHostStep

\* The wire to the worker.
LEMMA ToWorkerStays ==
    ASSUME IInv, UNCHANGED toWorker
    PROVE  ToWorkerStep
BY DEF ToWorkerStep, IInv, TypeOK

\* The completion and the lease.
LEMMA CompletionStays ==
    ASSUME IInv, UNCHANGED <<seq, dropped, applied, runDone, leased, completion>>
    PROVE  CompletionStep
<1>1. CompletionSafe'
    BY DEF IInv, CompletionSafe, Accounted
<1>2. QED  BY <1>1 DEF CompletionStep, IInv, TypeOK, ReleaseIsEarned

\* The flags and the bound counters.
LEMMA FlagsStay ==
    ASSUME IInv, UNCHANGED <<awaitingAck, installed, ackOwed, conn, boundVars>>
    PROVE  FlagsStep
BY DEF FlagsStep, IInv, TypeOK, boundVars

\* The two places an ack goes out.
LEMMA SendingAnAck ==
    ASSUME IInv, HostSends(IF leased THEN <<AckMsg(appliedSeq)>> ELSE <<>>)
    PROVE  ToWorkerStep
<1> DEFINE msgs == IF leased THEN <<AckMsg(appliedSeq)>> ELSE <<>>
<1>1. /\ AckMsg(appliedSeq) \in HostMsg
      /\ AckMsg(appliedSeq).type = "lease-ack" /\ AckMsg(appliedSeq).seq = appliedSeq
    BY HostMessages DEF IInv, TypeOK
<1>2. msgs \in Seq(HostMsg) /\ Range(msgs) \subseteq {AckMsg(appliedSeq)}
    BY <1>1, ShortSequences
<1>3. HostSends(msgs)  OBVIOUS
<1> HIDE DEF msgs
<1>4. toWorker' \in Seq(HostMsg) /\ Range(toWorker') \subseteq Range(toWorker) \cup Range(msgs)
    BY <1>2, <1>3, HostSending DEF IInv
<1>5. \A m \in Range(toWorker') : m \in Range(toWorker) \/ m = AckMsg(appliedSeq)
    BY <1>2, <1>4
<1>6. QED  BY <1>1, <1>4, <1>5 DEF ToWorkerStep

-----------------------------------------------------------------------------
(* The host's steps *)

\* A heartbeat answered keeps the invariant.
LEMMA HandleHeartbeatKeepsIInv == IInv /\ HandleHeartbeat => IInv'
<1> SUFFICES ASSUME IInv, HandleHeartbeat PROVE IInv'  OBVIOUS
<1>1. /\ WorkerUntouched
      /\ UNCHANGED <<seq, dropped, applied, runDone, inFlight, chain>>
      /\ UNCHANGED <<appliedSeq, appliedAhead, durableSeq, leased, completion>>
      /\ UNCHANGED <<awaitingAck, installed, ackOwed, conn, boundVars>>
      /\ toHost # <<>> /\ toHost' = Tail(toHost)
      /\ HostSends(IF leased THEN <<AckMsg(appliedSeq)>> ELSE <<>>)
    BY DEF HandleHeartbeat, WorkerUntouched, bufferVars, leaseVars, diskVars
<1>2. DiskStep  BY <1>1, DiskStays
<1>3. ChainStep  BY <1>1, ChainStays
<1>4. WatermarkStep  BY <1>1, WatermarkStays
<1>5. ToHostStep  BY <1>1, ToHostTaken
<1>6. ToWorkerStep  BY <1>1, SendingAnAck
<1>7. CompletionStep  BY <1>1, CompletionStays
<1>8. FlagsStep  BY <1>1, FlagsStay
<1>9. QED
    BY <1>1, <1>2, <1>3, <1>4, <1>5, <1>6, <1>7, <1>8, HostStepKeepsIInv

\* So does the lease-ack at a registration's tail.
LEMMA AckRegistrationKeepsIInv == IInv /\ AckRegistration => IInv'
<1> SUFFICES ASSUME IInv, AckRegistration PROVE IInv'  OBVIOUS
<1>1. /\ WorkerUntouched
      /\ UNCHANGED <<seq, dropped, applied, runDone, inFlight, chain, toHost>>
      /\ UNCHANGED <<appliedSeq, appliedAhead, durableSeq, leased, completion>>
      /\ UNCHANGED <<awaitingAck, installed, conn, boundVars>> /\ ackOwed' = FALSE
      /\ HostSends(IF leased THEN <<AckMsg(appliedSeq)>> ELSE <<>>)
    BY DEF AckRegistration, WorkerUntouched, bufferVars, diskVars
<1>2. DiskStep  BY <1>1, DiskStays
<1>3. ChainStep  BY <1>1, ChainStays
<1>4. WatermarkStep  BY <1>1, WatermarkStays
<1>5. ToHostStep  BY <1>1, ToHostStays
<1>6. ToWorkerStep  BY <1>1, SendingAnAck
<1>7. CompletionStep  BY <1>1, CompletionStays
<1>8. FlagsStep  BY <1>1 DEF FlagsStep, IInv, TypeOK, boundVars
<1>9. QED
    BY <1>1, <1>2, <1>3, <1>4, <1>5, <1>6, <1>7, <1>8, HostStepKeepsIInv

\* So does a registration: lease-lost goes out only for a settled run.
LEMMA HandleRegisterKeepsIInv == IInv /\ HandleRegister => IInv'
<1> SUFFICES ASSUME IInv, HandleRegister PROVE IInv'  OBVIOUS
<1>1. /\ WorkerUntouched
      /\ UNCHANGED <<seq, dropped, applied, runDone, inFlight, chain>>
      /\ UNCHANGED <<appliedSeq, appliedAhead, durableSeq, leased, completion>>
      /\ UNCHANGED <<awaitingAck, conn, boundVars>>
      /\ toHost # <<>> /\ toHost' = Tail(toHost)
      /\ installed' = TRUE /\ ackOwed' = leased
      /\ toWorker' = IF leased THEN <<RegisteredMsg>> ELSE <<RegisteredMsg, LeaseLost>>
    BY DEF HandleRegister, WorkerUntouched, bufferVars, diskVars
<1>2. ~leased => runDone'
    BY <1>1 DEF IInv, ReleaseIsEarned
<1>3. /\ RegisteredMsg \in HostMsg /\ LeaseLost \in HostMsg
      /\ RegisteredMsg.type = "registered" /\ LeaseLost.type = "lease-lost"
    BY HostMessages
<1>4. ToWorkerStep
    <2>1. CASE leased
        <3>1. toWorker' \in Seq(HostMsg) /\ Range(toWorker') = {RegisteredMsg}
            BY <1>1, <1>3, <2>1, ShortSequences
        <3>2. QED  BY <1>3, <3>1 DEF ToWorkerStep
    <2>2. CASE ~leased
        <3>1. toWorker' \in Seq(HostMsg) /\ Range(toWorker') = {RegisteredMsg, LeaseLost}
            BY <1>1, <1>3, <2>2, ShortSequences
        <3>2. QED  BY <1>2, <1>3, <2>2, <3>1 DEF ToWorkerStep
    <2>3. QED  BY <2>1, <2>2
<1>5. DiskStep  BY <1>1, DiskStays
<1>6. ChainStep  BY <1>1, ChainStays
<1>7. WatermarkStep  BY <1>1, WatermarkStays
<1>8. ToHostStep  BY <1>1, ToHostTaken
<1>9. CompletionStep  BY <1>1, CompletionStays
<1>10. FlagsStep  BY <1>1 DEF FlagsStep, IInv, TypeOK, boundVars
<1>11. QED
    BY <1>1, <1>4, <1>5, <1>6, <1>7, <1>8, <1>9, <1>10, HostStepKeepsIInv

\* Raising the watermark over frames all accounted for, from a worker's state
\* that has not moved, leaves the watermark and the completion in order.
LEMMA RaisingKeepsThem ==
    ASSUME IInv, WorkerUntouched, UNCHANGED <<durableSeq, runDone, leased>>,
           NEW from \in 0..Last, NEW ahead \in SUBSET Frames,
           \A s \in Frames : Accounted(s) => Accounted(s)',
           \A s \in Frames : s <= from => Accounted(s)',
           \A s \in ahead : applied'[s] > 0,
           RaiseWatermark(from, ahead)
    PROVE  WatermarkStep /\ CompletionStep
<1>1. completion \in {"none", "draining", "parked", "finishing"}
    BY DEF IInv, TypeOK
<1>2. /\ appliedSeq' \in 0..Last
      /\ \A s \in Frames : s <= appliedSeq' => Accounted(s)'
      /\ appliedAhead' \subseteq ahead
      /\ completion' \in {"none", "draining", "parked", "finishing"}
      /\ completion' # "none" => completion # "none"
      /\ completion' = "finishing" =>
           completion = "finishing" \/ \A s \in 1..(Last - 1) : Accounted(s)'
    BY <1>1, Raising
<1>3. WatermarkHonest'
    <2>1. \A s \in Frames : s <= durableSeq' => Accounted(s)'
        BY DEF IInv, WatermarkHonest
    <2>2. QED  BY <1>2, <2>1 DEF WatermarkHonest
<1>4. WatermarkStep
    BY <1>2, <1>3 DEF WatermarkStep, IInv, TypeOK
<1>5. CompletionSafe'
    <2>1. completion' # "none" => leased' /\ seq' = Last
        BY <1>2 DEF IInv, CompletionSafe, WorkerUntouched
    <2>2. completion = "finishing" => \A s \in 1..(Last - 1) : Accounted(s)'
        BY Constants DEF IInv, CompletionSafe
    <2>3. QED  BY <1>2, <2>1, <2>2 DEF CompletionSafe
<1>6. CompletionStep
    BY <1>2, <1>5 DEF CompletionStep, IInv, TypeOK, ReleaseIsEarned
<1>7. QED  BY <1>4, <1>6

\* Stepping over a gap keeps the invariant: everything up to it is accounted
\* for, since the report says so of frames the worker no longer holds.
LEMMA HandleLeaseGapKeepsIInv == IInv /\ HandleLeaseGap => IInv'
<1> SUFFICES ASSUME IInv, HandleLeaseGap PROVE IInv'  OBVIOUS
<1> DEFINE through == Head(toHost).throughSeq
           ahead == {s \in appliedAhead : s > through}
<1>1. /\ WorkerUntouched
      /\ UNCHANGED <<seq, dropped, applied, runDone, inFlight, chain>>
      /\ UNCHANGED <<durableSeq, leased, toWorker>>
      /\ UNCHANGED <<awaitingAck, installed, ackOwed, conn, boundVars>>
      /\ toHost # <<>> /\ toHost' = Tail(toHost) /\ Head(toHost).type = "lease-gap"
      /\ RaiseWatermark(through, ahead) \/ UNCHANGED <<appliedSeq, appliedAhead, completion>>
    BY DEF HandleLeaseGap, WorkerUntouched, bufferVars, diskVars
<1>2. Head(toHost) \in WorkerMsg /\ Head(toHost) \in Range(toHost)
    BY <1>1, HostTakes DEF IInv
<1>3. DiskStep /\ \A s \in Frames : Accounted(s)' = Accounted(s)
    BY <1>1, DiskStays
<1>4. WatermarkStep /\ CompletionStep
    <2>1. through \in Frames
        BY <1>1, <1>2, TakenApart
    <2>2. \A s \in 1..through : Accounted(s)
        BY <1>1, <1>2 DEF IInv, GapsAreGone
    <2>3. ahead \in SUBSET Frames /\ \A s \in ahead : applied'[s] > 0
        BY <1>1 DEF IInv, TypeOK, AheadIsApplied
    <2>4. CASE UNCHANGED <<appliedSeq, appliedAhead, completion>>
        <3>1. WatermarkStep  BY <1>1, <2>4, WatermarkStays
        <3>2. CompletionStep  BY <1>1, <2>4, CompletionStays
        <3>3. QED  BY <3>1, <3>2
    <2>5. CASE RaiseWatermark(through, ahead)
        <3> HIDE DEF through, ahead
        <3>1. through \in 0..Last /\ \A s \in Frames : s <= through => Accounted(s)'
            BY <1>3, <2>1, <2>2, Constants
        <3>2. QED  BY <1>1, <1>3, <2>3, <2>5, <3>1, RaisingKeepsThem
    <2>6. QED  BY <1>1, <2>4, <2>5
<1>5. ChainStep  BY <1>1, ChainStays
<1>6. ToHostStep  BY <1>1, ToHostTaken
<1>7. ToWorkerStep  BY <1>1, ToWorkerStays
<1>8. FlagsStep  BY <1>1, FlagsStay
<1>9. QED
    BY <1>1, <1>3, <1>4, <1>5, <1>6, <1>7, <1>8, HostStepKeepsIInv

\* A frame above zero writes stays so: a landed write only adds to the disk.
LEMMA WritingAFrame ==
    ASSUME IInv, NEW f \in Frames, dropped' = dropped,
           applied' = [applied EXCEPT ![f] = @ + 1]
    PROVE  /\ applied' \in [Frames -> Nat] /\ applied'[f] > 0
           /\ \A s \in Frames : applied'[s] >= applied[s]
           /\ \A s \in Frames : s # f => applied'[s] = applied[s]
           /\ \A s \in Frames : Accounted(s) => Accounted(s)'
<1>1. applied \in [Frames -> Nat]
    BY DEF IInv, TypeOK
<1>2. /\ applied' \in [Frames -> Nat] /\ applied'[f] > 0
      /\ \A s \in Frames : applied'[s] >= applied[s]
      /\ \A s \in Frames : s # f => applied'[s] = applied[s]
    BY <1>1
<1>3. \A s \in Frames : Accounted(s) => Accounted(s)'
    BY <1>1, <1>2 DEF Accounted
<1>4. QED  BY <1>2, <1>3

\* What is on the write chain, and what is left when its head comes off.
LEMMA ChainTakes ==
    ASSUME IInv, chain # <<>>, chain' = Tail(chain), seq' = seq,
           inFlight' = inFlight \ {Head(chain)}
    PROVE  ChainStep /\ Head(chain) \in Frames /\ Head(chain) <= seq /\ Head(chain) # Last
<1>1. /\ chain \in Seq(Frames) /\ Range(chain) \subseteq 1..seq /\ Last \notin Range(chain)
      /\ inFlight \subseteq 1..seq /\ seq \in 0..Last
    BY DEF IInv, TypeOK, NothingAhead, AheadIsApplied
<1>2. /\ Head(chain) \in Frames /\ Head(chain) \in Range(chain)
      /\ chain' \in Seq(Frames) /\ Range(chain') \subseteq Range(chain)
    BY <1>1, TakingTheHead
<1>3. inFlight' \subseteq 1..seq /\ Range(chain') \subseteq 1..seq /\ Last \notin Range(chain')
    BY <1>1, <1>2
<1>4. Head(chain) \in 1..seq /\ Head(chain) # Last
    BY <1>1, <1>2
<1>5. Head(chain) <= seq
    BY <1>1, <1>4
<1>6. QED  BY <1>2, <1>3, <1>4, <1>5 DEF ChainStep

\* A landed write keeps the invariant: the frame is on disk before the
\* watermark moves over it.
LEMMA WriteLandsKeepsIInv == IInv /\ WriteLands => IInv'
<1> SUFFICES ASSUME IInv, WriteLands PROVE IInv'  OBVIOUS
<1> DEFINE f == Head(chain)
           ahead == appliedAhead \cup {f}
<1>1. /\ WorkerUntouched
      /\ UNCHANGED <<seq, dropped, runDone, durableSeq, leased, toHost, toWorker>>
      /\ UNCHANGED <<awaitingAck, installed, ackOwed, conn, boundVars>>
      /\ chain # <<>> /\ chain' = Tail(chain) /\ inFlight' = inFlight \ {f}
      /\ applied' = [applied EXCEPT ![f] = @ + 1]
      /\ RaiseWatermark(appliedSeq, ahead) \/ UNCHANGED <<appliedSeq, appliedAhead, completion>>
    BY DEF WriteLands, WorkerUntouched, bufferVars, wireVars
<1>2. ChainStep /\ f \in Frames /\ f <= seq /\ f # Last
    BY <1>1, ChainTakes
<1> HIDE DEF f
<1>3. /\ applied' \in [Frames -> Nat] /\ applied'[f] > 0
      /\ \A s \in Frames : applied'[s] >= applied[s]
      /\ \A s \in Frames : s # f => applied'[s] = applied[s]
      /\ \A s \in Frames : Accounted(s) => Accounted(s)'
    BY <1>1, <1>2, WritingAFrame
<1>4. DiskStep
    <2>1. runDone' => seq = Last /\ \A s \in 1..(Last - 1) : Accounted(s)'
        BY <1>1, <1>3, Constants DEF IInv, CompletionIsWhole
    <2>2. \A s \in Frames : applied'[s] > 0 => s <= seq
        BY <1>2, <1>3 DEF IInv, NothingAhead
    <2>3. Last \in Frames /\ applied'[Last] = applied[Last]
        BY <1>2, <1>3, Constants
    <2>4. runDone' \in BOOLEAN /\ (applied'[Last] > 0 <=> runDone') /\ (runDone => runDone')
        BY <1>1, <2>3 DEF IInv, TypeOK, AheadIsApplied
    <2>5. QED  BY <1>3, <2>1, <2>2, <2>4 DEF DiskStep
<1>5. WatermarkStep /\ CompletionStep
    <2>1. /\ appliedSeq \in 0..Last /\ appliedAhead \subseteq Frames
          /\ \A s \in Frames : s <= appliedSeq => Accounted(s)'
          /\ \A s \in appliedAhead : applied'[s] > 0
        <3>1. \A s \in appliedAhead : applied'[s] >= applied[s] /\ applied[s] \in Nat
                                      /\ applied'[s] \in Nat /\ applied[s] > 0
            BY <1>3 DEF IInv, TypeOK, AheadIsApplied
        <3>2. \A s \in appliedAhead : applied'[s] > 0
            BY <3>1
        <3>3. QED  BY <1>3, <3>2 DEF IInv, TypeOK, WatermarkHonest
    <2>2. ahead \in SUBSET Frames /\ \A s \in ahead : applied'[s] > 0
        BY <1>2, <1>3, <2>1
    <2>3. CASE RaiseWatermark(appliedSeq, ahead)
        <3> HIDE DEF ahead
        <3>1. QED  BY <1>1, <1>3, <2>1, <2>2, <2>3, RaisingKeepsThem
    <2>4. CASE UNCHANGED <<appliedSeq, appliedAhead, completion>>
        <3>1. WatermarkHonest'
            BY <1>1, <1>3, <2>4 DEF IInv, WatermarkHonest
        <3>2. WatermarkStep
            BY <1>1, <2>1, <2>4, <3>1 DEF WatermarkStep, IInv, TypeOK
        <3>3. CompletionSafe'
            BY <1>1, <1>3, <2>4, Constants DEF IInv, CompletionSafe
        <3>4. CompletionStep
            BY <1>1, <2>4, <3>3 DEF CompletionStep, IInv, TypeOK, ReleaseIsEarned
        <3>5. QED  BY <3>2, <3>4
    <2>5. QED  BY <1>1, <2>3, <2>4
<1>6. ToHostStep  BY <1>1, ToHostStays
<1>7. ToWorkerStep  BY <1>1, ToWorkerStays
<1>8. FlagsStep  BY <1>1, FlagsStay
<1>9. QED
    BY <1>1, <1>2, <1>4, <1>5, <1>6, <1>7, <1>8, HostStepKeepsIInv

\* So does one that fails, which records nothing.
LEMMA WriteFailsKeepsIInv == IInv /\ WriteFails => IInv'
<1> SUFFICES ASSUME IInv, WriteFails PROVE IInv'  OBVIOUS
<1>1. /\ WorkerUntouched
      /\ UNCHANGED <<seq, dropped, applied, runDone, toHost, toWorker>>
      /\ UNCHANGED <<appliedSeq, appliedAhead, durableSeq, leased, completion>>
      /\ UNCHANGED <<awaitingAck, installed, ackOwed, conn, drops, restarts>>
      /\ failures' = failures + 1
      /\ chain # <<>> /\ chain' = Tail(chain) /\ inFlight' = inFlight \ {Head(chain)}
    BY DEF WriteFails, WorkerUntouched, bufferVars, wireVars, diskVars
<1>2. ChainStep  BY <1>1, ChainTakes
<1>3. DiskStep  BY <1>1, DiskStays
<1>4. WatermarkStep  BY <1>1, WatermarkStays
<1>5. CompletionStep  BY <1>1, CompletionStays
<1>6. ToHostStep  BY <1>1, ToHostStays
<1>7. ToWorkerStep  BY <1>1, ToWorkerStays
<1>8. FlagsStep  BY <1>1 DEF FlagsStep, IInv, TypeOK
<1>9. QED
    BY <1>1, <1>2, <1>3, <1>4, <1>5, <1>6, <1>7, <1>8, HostStepKeepsIInv

\* So does the end of a drain: the completion proceeds only if everything
\* below it is under the watermark.
LEMMA DrainEndsKeepsIInv == IInv /\ DrainEnds => IInv'
<1> SUFFICES ASSUME IInv, DrainEnds PROVE IInv'  OBVIOUS
<1>1. /\ WorkerUntouched
      /\ UNCHANGED <<seq, dropped, applied, runDone, toHost, toWorker, inFlight, chain>>
      /\ UNCHANGED <<appliedSeq, appliedAhead, durableSeq, leased>>
      /\ UNCHANGED <<awaitingAck, installed, ackOwed, conn, boundVars>>
      /\ completion = "draining"
      /\ completion' = IF ContiguousBelow(appliedSeq) THEN "finishing" ELSE "parked"
    BY DEF DrainEnds, WorkerUntouched, bufferVars, wireVars, diskVars
<1>2. DiskStep /\ \A s \in Frames : Accounted(s)' = Accounted(s)
    BY <1>1, DiskStays
<1>3. CompletionStep
    <2>1. completion' = "finishing" => \A s \in 1..(Last - 1) : Accounted(s)'
        BY <1>1, <1>2, Constants DEF IInv, TypeOK, WatermarkHonest, ContiguousBelow
    <2>2. CompletionSafe'
        BY <1>1, <2>1 DEF IInv, CompletionSafe
    <2>3. QED  BY <1>1, <2>2 DEF CompletionStep, IInv, TypeOK, ReleaseIsEarned
<1>4. ChainStep  BY <1>1, ChainStays
<1>5. WatermarkStep  BY <1>1, WatermarkStays
<1>6. ToHostStep  BY <1>1, ToHostStays
<1>7. ToWorkerStep  BY <1>1, ToWorkerStays
<1>8. FlagsStep  BY <1>1, FlagsStay
<1>9. QED
    BY <1>1, <1>2, <1>3, <1>4, <1>5, <1>6, <1>7, <1>8, HostStepKeepsIInv

\* So does the completion itself, which settles the lease and says so.
LEMMA CompletionLandsKeepsIInv == IInv /\ CompletionLands => IInv'
<1> SUFFICES ASSUME IInv, CompletionLands PROVE IInv'  OBVIOUS
<1>1. /\ WorkerUntouched
      /\ UNCHANGED <<seq, dropped, toHost, chain, durableSeq>>
      /\ UNCHANGED <<awaitingAck, installed, ackOwed, conn, boundVars>>
      /\ completion = "finishing" /\ completion' = "none"
      /\ runDone' = TRUE /\ leased' = FALSE
      /\ applied' = [applied EXCEPT ![Last] = @ + 1]
      /\ appliedSeq' = Last /\ appliedAhead' = {} /\ inFlight' = {}
      /\ HostSends(<<CompleteAck>>)
    BY DEF CompletionLands, WorkerUntouched, bufferVars
<1>2. Last \in Frames /\ seq = Last /\ \A s \in 1..(Last - 1) : Accounted(s)
    BY <1>1, Constants DEF IInv, CompletionSafe
<1>3. /\ applied' \in [Frames -> Nat] /\ applied'[Last] > 0
      /\ \A s \in Frames : applied'[s] >= applied[s]
      /\ \A s \in Frames : s # Last => applied'[s] = applied[s]
      /\ \A s \in Frames : Accounted(s) => Accounted(s)'
    BY <1>1, <1>2, WritingAFrame
<1>4. DiskStep
    <2>1. \A s \in 1..(Last - 1) : Accounted(s)'
        BY <1>2, <1>3, Constants
    <2>2. \A s \in Frames : s <= seq
        BY <1>2, Constants
    <2>3. QED  BY <1>1, <1>2, <1>3, <2>1, <2>2 DEF DiskStep
<1>5. ChainStep
    <2>1. chain \in Seq(Frames) /\ Range(chain) \subseteq 1..seq /\ Last \notin Range(chain)
        BY DEF IInv, TypeOK, NothingAhead, AheadIsApplied
    <2>2. QED  BY <1>1, <2>1 DEF ChainStep
<1>6. WatermarkStep
    <2>1. \A s \in Frames : Accounted(s)'
        <3>1. Accounted(Last)'  BY <1>3 DEF Accounted
        <3>2. \A s \in Frames : s = Last \/ s \in 1..(Last - 1)  BY Constants
        <3>3. QED  BY <1>2, <1>3, <3>1, <3>2
    <2>2. WatermarkHonest'
        BY <2>1 DEF WatermarkHonest
    <2>3. QED  BY <1>1, <2>2, Constants DEF WatermarkStep, IInv, TypeOK
<1>7. ToWorkerStep
    <2>1. CompleteAck \in HostMsg /\ CompleteAck.type = "run-complete-ack"
        BY HostMessages
    <2>2. <<CompleteAck>> \in Seq(HostMsg) /\ Range(<<CompleteAck>>) = {CompleteAck}
        BY <2>1, ShortSequences
    <2>3. /\ toWorker' \in Seq(HostMsg)
          /\ Range(toWorker') \subseteq Range(toWorker) \cup Range(<<CompleteAck>>)
        BY <1>1, <2>2, HostSending DEF IInv
    <2>4. \A m \in Range(toWorker') : m \in Range(toWorker) \/ m = CompleteAck
        BY <2>2, <2>3
    <2>5. QED  BY <1>1, <2>1, <2>3, <2>4 DEF ToWorkerStep
<1>8. ToHostStep  BY <1>1, ToHostStays
<1>9. CompletionStep
    BY <1>1 DEF CompletionStep, CompletionSafe
<1>10. FlagsStep  BY <1>1, FlagsStay
<1>11. QED
    BY <1>1, <1>4, <1>5, <1>6, <1>7, <1>8, <1>9, <1>10, HostStepKeepsIInv

\* So does a completion whose status write fails.
LEMMA CompletionFailsKeepsIInv == IInv /\ CompletionFails => IInv'
<1> SUFFICES ASSUME IInv, CompletionFails PROVE IInv'  OBVIOUS
<1>1. /\ WorkerUntouched
      /\ UNCHANGED <<seq, dropped, applied, runDone, toHost, toWorker, chain>>
      /\ UNCHANGED <<appliedSeq, appliedAhead, durableSeq, leased>>
      /\ UNCHANGED <<awaitingAck, installed, ackOwed, conn, drops, restarts>>
      /\ failures' = failures + 1
      /\ completion' = "none" /\ inFlight' = inFlight \ {Last}
    BY DEF CompletionFails, WorkerUntouched, bufferVars, wireVars, diskVars
<1>2. ChainStep
    <2>1. /\ chain \in Seq(Frames) /\ Range(chain) \subseteq 1..seq /\ Last \notin Range(chain)
          /\ inFlight \subseteq 1..seq
        BY DEF IInv, TypeOK, NothingAhead, AheadIsApplied
    <2>2. QED  BY <1>1, <2>1 DEF ChainStep
<1>3. DiskStep  BY <1>1, DiskStays
<1>4. WatermarkStep  BY <1>1, WatermarkStays
<1>5. CompletionStep
    BY <1>1 DEF CompletionStep, CompletionSafe, IInv, TypeOK, ReleaseIsEarned
<1>6. ToHostStep  BY <1>1, ToHostStays
<1>7. ToWorkerStep  BY <1>1, ToWorkerStays
<1>8. FlagsStep  BY <1>1 DEF FlagsStep, IInv, TypeOK
<1>9. QED
    BY <1>1, <1>2, <1>3, <1>4, <1>5, <1>6, <1>7, <1>8, HostStepKeepsIInv

\* So does the store's debounced write: what it copies to disk is honest.
LEMMA PersistWatermarkKeepsIInv == IInv /\ PersistWatermark => IInv'
<1> SUFFICES ASSUME IInv, PersistWatermark PROVE IInv'  OBVIOUS
<1>1. /\ WorkerUntouched
      /\ UNCHANGED <<seq, dropped, applied, runDone, toHost, toWorker, inFlight, chain>>
      /\ UNCHANGED <<appliedSeq, appliedAhead, leased, completion>>
      /\ UNCHANGED <<awaitingAck, installed, ackOwed, conn, boundVars>>
      /\ durableSeq' = appliedSeq
    BY DEF PersistWatermark, WorkerUntouched, bufferVars, wireVars, leaseVars
<1>2. DiskStep /\ \A s \in Frames : Accounted(s)' = Accounted(s)
    BY <1>1, DiskStays
<1>3. WatermarkStep
    <2>1. WatermarkHonest'
        BY <1>1, <1>2 DEF IInv, WatermarkHonest
    <2>2. QED  BY <1>1, <2>1 DEF WatermarkStep, IInv, TypeOK, AheadIsApplied
<1>4. ChainStep  BY <1>1, ChainStays
<1>5. CompletionStep  BY <1>1, CompletionStays
<1>6. ToHostStep  BY <1>1, ToHostStays
<1>7. ToWorkerStep  BY <1>1, ToWorkerStays
<1>8. FlagsStep  BY <1>1, FlagsStay
<1>9. QED
    BY <1>1, <1>2, <1>3, <1>4, <1>5, <1>6, <1>7, <1>8, HostStepKeepsIInv

\* So does a host that dies, flushed or not: the watermark it comes back with
\* is the honest one its disk held, and a settled run stays settled.
LEMMA HostRestartKeepsIInv == IInv /\ HostRestart => IInv'
<1> SUFFICES ASSUME IInv, HostRestart PROVE IInv'  OBVIOUS
<1>1. /\ WorkerUntouched
      /\ UNCHANGED <<seq, dropped, applied, runDone, drops, failures>>
      /\ appliedSeq' = durableSeq' /\ durableSeq' \in {appliedSeq, durableSeq}
      /\ appliedAhead' = {} /\ inFlight' = {} /\ chain' = <<>>
      /\ completion' = "none" /\ ackOwed' = FALSE /\ leased' = ~runDone
      /\ conn' = "down" /\ installed' = FALSE /\ awaitingAck' = TRUE
      /\ toHost' = <<>> /\ toWorker' = <<>> /\ restarts' = restarts + 1
    BY DEF HostRestart, WorkerUntouched
<1>2. DiskStep /\ \A s \in Frames : Accounted(s)' = Accounted(s)
    BY <1>1, DiskStays
<1>3. /\ <<>> \in Seq(WorkerMsg) /\ <<>> \in Seq(HostMsg) /\ <<>> \in Seq(Frames)
      /\ Range(<<>>) = {}
    BY ShortSequences
<1>4. ChainStep
    BY <1>1, <1>3 DEF ChainStep
<1>5. WatermarkStep
    <2>1. WatermarkHonest'
        BY <1>1, <1>2 DEF IInv, WatermarkHonest
    <2>2. QED  BY <1>1, <2>1 DEF WatermarkStep, IInv, TypeOK
<1>6. ToHostStep  BY <1>1, <1>3 DEF ToHostStep
<1>7. ToWorkerStep  BY <1>1, <1>3 DEF ToWorkerStep
<1>8. CompletionStep
    <2>1. runDone \in BOOLEAN  BY DEF IInv, TypeOK
    <2>2. leased' \in BOOLEAN /\ (~leased' => runDone')  BY <1>1, <2>1
    <2>3. QED  BY <1>1, <2>2 DEF CompletionStep, CompletionSafe
<1>9. FlagsStep
    <2>1. restarts' \in Nat /\ drops' \in Nat /\ failures' \in Nat
        BY <1>1 DEF IInv, TypeOK
    <2>2. QED  BY <1>1, <2>1 DEF FlagsStep
<1>10. QED
    BY <1>1, <1>2, <1>4, <1>5, <1>6, <1>7, <1>8, <1>9, HostStepKeepsIInv

-----------------------------------------------------------------------------
(* The theorems *)

\* A stuttering step changes nothing IInv speaks of.
LEMMA StutterKeepsIInv == IInv /\ UNCHANGED vars => IInv'
<1> SUFFICES ASSUME IInv, UNCHANGED vars PROVE IInv'  OBVIOUS
<1>1. UNCHANGED <<seq, held, delivered, awaitingAck, lastAckedSeq, gapThrough, open, dropped>>
    BY DEF vars, bufferVars
<1>2. UNCHANGED <<conn, installed, toHost, toWorker>>
    BY DEF vars, wireVars
<1>3. UNCHANGED <<leased, appliedSeq, appliedAhead, inFlight, chain, completion, ackOwed>>
    BY DEF vars, leaseVars
<1>4. UNCHANGED <<durableSeq, applied, runDone>> /\ UNCHANGED boundVars
    BY DEF vars, diskVars
<1>5. WorkerUntouched  BY <1>1 DEF WorkerUntouched
<1>6. DiskStep  BY <1>1, <1>4, DiskStays
<1>7. ChainStep  BY <1>1, <1>3, ChainStays
<1>8. WatermarkStep  BY <1>1, <1>3, <1>4, WatermarkStays
<1>9. ToHostStep  BY <1>2, ToHostStays
<1>10. ToWorkerStep  BY <1>2, ToWorkerStays
<1>11. CompletionStep  BY <1>1, <1>3, <1>4, CompletionStays
<1>12. FlagsStep  BY <1>1, <1>2, <1>3, <1>4, FlagsStay
<1>13. QED
    BY <1>5, <1>6, <1>7, <1>8, <1>9, <1>10, <1>11, <1>12, HostStepKeepsIInv

\* Every step keeps the inductive invariant.
LEMMA NextKeepsIInv == IInv /\ [Next]_vars => IInv'
<1> SUFFICES ASSUME IInv, [Next]_vars PROVE IInv'  OBVIOUS
<1>1. CASE WorkerStep
    BY <1>1, ReportKeepsIInv, HeartbeatKeepsIInv, ConnectKeepsIInv,
       ReceiveRegisteredKeepsIInv, ReplayBackstopKeepsIInv, ReceiveLeaseAckKeepsIInv,
       ReceiveReleaseKeepsIInv DEF WorkerStep
<1>2. CASE HostStep
    BY <1>2, HandleFrameKeepsIInv, HandleHeartbeatKeepsIInv, HandleLeaseGapKeepsIInv,
       HandleRegisterKeepsIInv, AckRegistrationKeepsIInv, WriteLandsKeepsIInv,
       WriteFailsKeepsIInv, DrainEndsKeepsIInv, CompletionLandsKeepsIInv,
       CompletionFailsKeepsIInv, PersistWatermarkKeepsIInv DEF HostStep
<1>3. CASE Fault
    BY <1>3, DisconnectKeepsIInv, HostRestartKeepsIInv DEF Fault
<1>4. CASE UNCHANGED vars
    BY <1>4, StutterKeepsIInv
<1>5. QED  BY <1>1, <1>2, <1>3, <1>4 DEF Next

\* The inductive invariant holds throughout.
THEOREM InductiveInvariant == Spec => []IInv
BY InitIInv, NextKeepsIInv, PTL DEF Spec

\* Every variable of the worker, the socket, the host's lease and its disk
\* stays within its domain.
THEOREM TypeCorrect == Spec => []TypeOK
<1>1. IInv => TypeOK  BY DEF IInv
<1>2. QED  BY <1>1, InductiveInvariant, PTL

\* A dead socket, a crashed host or a failed write loses no reported frame:
\* the worker holds it until it is on the host's disk or given up by the cap.
THEOREM NothingIsSilentlyLost == Spec => []NoSilentLoss
<1>1. IInv => NoSilentLoss  BY DEF IInv
<1>2. QED  BY <1>1, InductiveInvariant, PTL

\* The watermark the host acks and persists claims only frames on its disk,
\* or ones the worker said it gave up.
THEOREM WatermarkIsHonest == Spec => []WatermarkHonest
<1>1. IInv => WatermarkHonest  BY DEF IInv
<1>2. QED  BY <1>1, InductiveInvariant, PTL

\* No run gets its outcome ahead of a frame reported before its completion,
\* and no worker forgets a lease whose run has none.
THEOREM CompletionsAreWhole == Spec => []CompletionIsWhole
<1>1. IInv => CompletionIsWhole  BY DEF IInv
<1>2. QED  BY <1>1, InductiveInvariant, PTL

\* No lease-gap on the wire covers a frame the worker could still send.
THEOREM GapsAreOfGoneFrames == Spec => []GapsAreGone
<1>1. IInv => GapsAreGone  BY DEF IInv
<1>2. QED  BY <1>1, InductiveInvariant, PTL

-----------------------------------------------------------------------------
(* The stream implements ReportLog *)

\* The cap gives up at most one frame per report, and one it was given.
LEMMA AtMostOneVictim ==
    ASSUME NEW h \in SUBSET Frames, Victims(h) # {}
    PROVE  \E s \in h : Victims(h) = {s} /\ Script[s] \in DroppableTypes
<1>1. PICK s \in Victims(h) : TRUE
    OBVIOUS
<1>2. s \in h /\ Script[s] \in DroppableTypes
    BY <1>1, VictimsAreDroppable
<1>3. ASSUME NEW t \in Victims(h) PROVE t = s
    <2>1. PICK i \in DOMAIN Droppable :
              /\ Script[s] = Droppable[i]
              /\ \A u \in h : Script[u] = Droppable[i] => s <= u
              /\ \A j \in 1..(i - 1), u \in h : Script[u] # Droppable[j]
        BY DEF Victims
    <2>2. PICK k \in DOMAIN Droppable :
              /\ Script[t] = Droppable[k]
              /\ \A u \in h : Script[u] = Droppable[k] => t <= u
              /\ \A j \in 1..(k - 1), u \in h : Script[u] # Droppable[j]
        BY DEF Victims
    <2>3. s \in h /\ t \in h /\ s \in Nat /\ t \in Nat
        BY Constants DEF Victims
    <2>4. i \in Nat /\ k \in Nat /\ i >= 1 /\ k >= 1
        BY ChannelAssumption
    <2>5. i = k
        BY <2>1, <2>2, <2>3, <2>4
    <2>6. QED  BY <2>1, <2>2, <2>3, <2>5
<1>4. QED  BY <1>1, <1>2, <1>3

\* The last frame and the frames below it, as ReportLog counts them.
LEMMA SameLast == Log!Last = Last
BY DEF Log!Last, Last

\* Nothing has been reported, recorded, given up or settled at first.
LEMMA InitImplements == Init => Log!Init
BY DEF Init, Log!Init

\* A report is ReportLog's, with the frame the cap gave up for it, if any.
LEMMA ReportImplements == IInv /\ Report => Log!Report
<1> SUFFICES ASSUME IInv, Report PROVE Log!Report  OBVIOUS
<1> DEFINE added == held \cup {seq + 1}
<1>1. /\ seq < Last /\ seq' = seq + 1
      /\ dropped' = dropped \cup Victims(added)
      /\ UNCHANGED <<applied, runDone>>
    BY DEF Report, diskVars
<1>2. /\ seq \in 0..Last /\ held \subseteq 1..seq
    BY DEF IInv, TypeOK, NothingAhead
<1>3. added \in SUBSET Frames /\ added \subseteq 1..seq'
    BY <1>1, <1>2, Constants
<1> HIDE DEF added
<1>4. \/ dropped' = dropped
      \/ \E s \in 1..seq' : Script[s] \in DroppableTypes /\ dropped' = dropped \cup {s}
    <2>1. CASE Victims(added) = {}
        BY <1>1, <2>1
    <2>2. CASE Victims(added) # {}
        <3>1. PICK s \in added : Victims(added) = {s} /\ Script[s] \in DroppableTypes
            BY <1>3, <2>2, AtMostOneVictim
        <3>2. QED  BY <1>1, <1>3, <3>1
    <2>3. QED  BY <2>1, <2>2
<1>5. QED  BY <1>1, <1>4, SameLast DEF Log!Report

\* A landed write records its frame.
LEMMA WriteLandsImplements == IInv /\ WriteLands => Log!Record
<1> SUFFICES ASSUME IInv, WriteLands PROVE Log!Record  OBVIOUS
<1> DEFINE f == Head(chain)
           recorded == {s \in Frames : applied[s] > 0}
<1>1. /\ UNCHANGED <<seq, dropped, runDone>>
      /\ chain # <<>> /\ chain' = Tail(chain) /\ inFlight' = inFlight \ {f}
      /\ applied' = [applied EXCEPT ![f] = @ + 1]
    BY DEF WriteLands, bufferVars
<1>2. f \in Frames /\ f <= seq /\ f # Last
    BY <1>1, ChainTakes
<1> HIDE DEF f
<1>3. /\ applied' \in [Frames -> Nat] /\ applied'[f] > 0
      /\ \A s \in Frames : s # f => applied'[s] = applied[s]
    BY <1>1, <1>2, WritingAFrame
<1>4. recorded' = recorded \cup {f}
    BY <1>2, <1>3
<1>5. f \in 1..seq /\ f < Last
    BY <1>2, Constants DEF IInv, TypeOK
<1>6. QED  BY <1>1, <1>4, <1>5, SameLast DEF Log!Record

\* A landed completion settles the log.
LEMMA CompletionLandsImplements == IInv /\ CompletionLands => Log!Settle
<1> SUFFICES ASSUME IInv, CompletionLands PROVE Log!Settle  OBVIOUS
<1> DEFINE recorded == {s \in Frames : applied[s] > 0}
<1>1. /\ UNCHANGED <<seq, dropped>> /\ runDone' = TRUE /\ completion = "finishing"
      /\ applied' = [applied EXCEPT ![Last] = @ + 1]
    BY DEF CompletionLands, bufferVars
<1>2. Last \in Frames /\ seq = Last /\ \A s \in 1..(Last - 1) : Accounted(s)
    BY <1>1, Constants DEF IInv, CompletionSafe
<1>3. /\ applied' \in [Frames -> Nat] /\ applied'[Last] > 0
      /\ \A s \in Frames : s # Last => applied'[s] = applied[s]
    BY <1>1, <1>2, WritingAFrame
<1>4. recorded' = recorded \cup {Last}
    BY <1>2, <1>3
<1>5. 1..(Last - 1) \subseteq recorded \cup dropped
    BY <1>2, Constants DEF Accounted
<1>6. QED  BY <1>1, <1>2, <1>4, <1>5, SameLast DEF Log!Settle

\* Every other step is invisible to the log.
LEMMA OtherwiseStutters ==
    UNCHANGED <<seq, dropped, applied, runDone>> => UNCHANGED Log!vars
BY DEF Log!vars

\* The stream implements what ReportLog promises: frames recorded, given up
\* only if droppable, and settled only with nothing below unaccounted for.
THEOREM ImplementsReportLog == Spec => LogSpec
<1>1. IInv /\ [Next]_vars => [Log!Next]_(Log!vars)
    <2> SUFFICES ASSUME IInv, [Next]_vars PROVE [Log!Next]_(Log!vars)  OBVIOUS
    <2>1. CASE Report
        BY <2>1, ReportImplements DEF Log!Next
    <2>2. CASE WriteLands
        BY <2>2, WriteLandsImplements DEF Log!Next
    <2>3. CASE CompletionLands
        BY <2>3, CompletionLandsImplements DEF Log!Next
    <2>4. CASE \/ Heartbeat \/ Connect \/ ReceiveRegistered \/ ReplayBackstop
               \/ ReceiveLeaseAck \/ ReceiveRelease
        <3>1. UNCHANGED <<seq, dropped, applied, runDone>>
            BY <2>4 DEF Heartbeat, Connect, ReceiveRegistered, ReplayBackstop,
               ReceiveLeaseAck, ReceiveRelease, bufferVars, diskVars
        <3>2. QED  BY <3>1, OtherwiseStutters
    <2>5. CASE \/ HandleFrame \/ HandleHeartbeat \/ HandleLeaseGap \/ HandleRegister
               \/ AckRegistration \/ WriteFails \/ DrainEnds \/ CompletionFails
               \/ PersistWatermark
        <3>1. UNCHANGED <<seq, dropped, applied, runDone>>
            BY <2>5 DEF HandleFrame, HandleHeartbeat, HandleLeaseGap, HandleRegister,
               AckRegistration, WriteFails, DrainEnds, CompletionFails,
               PersistWatermark, bufferVars, diskVars
        <3>2. QED  BY <3>1, OtherwiseStutters
    <2>6. CASE Fault
        <3>1. UNCHANGED <<seq, dropped, applied, runDone>>
            BY <2>6 DEF Fault, Disconnect, HostRestart, diskVars
        <3>2. QED  BY <3>1, OtherwiseStutters
    <2>7. CASE UNCHANGED vars
        BY <2>7, OtherwiseStutters DEF vars, bufferVars, diskVars
    <2>8. QED
        BY <2>1, <2>2, <2>3, <2>4, <2>5, <2>6, <2>7 DEF Next, WorkerStep, HostStep
<1>2. QED
    BY <1>1, InitImplements, InductiveInvariant, PTL DEF Spec, LogSpec, Log!Spec

-----------------------------------------------------------------------------
(* A frame is applied once per boot: OnceInv, on top of IInv *)

\* A frame that came off the chain is not on it any more.
LEMMA HeadOffTheChain ==
    ASSUME NEW c \in Seq(Frames), c # <<>>, \A i, j \in DOMAIN c : c[i] = c[j] => i = j
    PROVE  /\ Range(Tail(c)) \subseteq Range(c) \ {Head(c)}
           /\ \A i, j \in DOMAIN Tail(c) : Tail(c)[i] = Tail(c)[j] => i = j
<1>1. /\ Len(c) \in Nat /\ Len(c) > 0 /\ c[1] = Head(c) /\ DOMAIN c = 1..Len(c)
      /\ DOMAIN Tail(c) = 1..(Len(c) - 1)
      /\ \A i \in 1..(Len(c) - 1) : Tail(c)[i] = c[i + 1]
    OBVIOUS
<1>2. \A i \in 1..(Len(c) - 1) : Tail(c)[i] # Head(c) /\ Tail(c)[i] \in Range(c)
    BY <1>1 DEF Range
<1>3. Range(Tail(c)) \subseteq Range(c) \ {Head(c)}
    BY <1>1, <1>2 DEF Range
<1>4. \A i, j \in 1..(Len(c) - 1) : Tail(c)[i] = Tail(c)[j] => i = j
    BY <1>1
<1>5. QED  BY <1>1, <1>3, <1>4

\* A frame not yet on the chain can be appended to it.
LEMMA OneMoreOnTheChain ==
    ASSUME NEW c \in Seq(Frames), NEW f \in Frames, f \notin Range(c),
           \A i, j \in DOMAIN c : c[i] = c[j] => i = j
    PROVE  \A i, j \in DOMAIN Append(c, f) : Append(c, f)[i] = Append(c, f)[j] => i = j
<1>1. /\ Len(c) \in Nat /\ DOMAIN c = 1..Len(c)
      /\ DOMAIN Append(c, f) = 1..(Len(c) + 1)
      /\ \A i \in 1..Len(c) : Append(c, f)[i] = c[i]
      /\ Append(c, f)[Len(c) + 1] = f
    OBVIOUS
<1>2. \A i \in 1..Len(c) : c[i] # f
    BY <1>1 DEF Range
<1>3. QED  BY <1>1, <1>2

\* Nothing applied, nothing on the chain.
LEMMA InitOnce == Init => OnceInv
<1> SUFFICES ASSUME Init PROVE OnceInv  OBVIOUS
<1>1. /\ chain = <<>> /\ applied = [s \in Frames |-> 0] /\ restarts = 0
      /\ leased = TRUE /\ runDone = FALSE
    BY DEF Init
<1>2. Range(<<>>) = {} /\ DOMAIN <<>> = {}
    BY DEF Range
<1>3. QED  BY <1>1, <1>2 DEF OnceInv, AppliedOncePerBoot

\* A step that moves no frame onto or off the disk, the chain or out of the
\* watermark's reach keeps OnceInv; the watermark may rise.
LEMMA OnceStays ==
    ASSUME OnceInv, UNCHANGED <<applied, runDone, restarts, leased, chain, inFlight>>,
           \A s \in Frames : s > appliedSeq' /\ s \notin appliedAhead'
                                => s > appliedSeq /\ s \notin appliedAhead,
           appliedAhead' \subseteq appliedAhead
    PROVE  OnceInv'
BY DEF OnceInv, AppliedOncePerBoot

\* Admission puts a frame on the chain that is neither there nor applied.
LEMMA HandleFrameOnce == IInv /\ OnceInv /\ HandleFrame => OnceInv'
<1> SUFFICES ASSUME IInv, OnceInv, HandleFrame PROVE OnceInv'  OBVIOUS
<1>1. UNCHANGED <<applied, runDone, restarts, leased, appliedSeq, appliedAhead>>
    BY DEF HandleFrame, diskVars, boundVars
<1>2. chain \in Seq(Frames) /\ inFlight \subseteq Frames
    BY DEF IInv, TypeOK
<1>3. PICK s \in Head(toHost).seqs :
          \/ /\ leased /\ Admits(s) /\ inFlight' = inFlight \cup {s}
             /\ chain' = Append(chain, s) \/ UNCHANGED chain
          \/ UNCHANGED <<inFlight, chain>>
    BY DEF HandleFrame
<1>4. s \in Frames
    <2>1. toHost # <<>> /\ Head(toHost).type = "frames"
        BY DEF HandleFrame
    <2>2. Head(toHost) \in WorkerMsg
        BY <2>1, TakingTheHead DEF IInv, TypeOK
    <2>3. QED  BY <1>3, <2>1, <2>2, TakenApart
<1>5. CASE chain' = chain /\ inFlight \subseteq inFlight'
    BY <1>1, <1>5 DEF OnceInv, AppliedOncePerBoot
<1>6. CASE leased /\ Admits(s) /\ inFlight' = inFlight \cup {s} /\ chain' = Append(chain, s)
    <2>1. s \notin Range(chain) /\ s > appliedSeq /\ s \notin appliedAhead
        BY <1>6 DEF OnceInv, Admits
    <2>2. Range(chain') = Range(chain) \cup {s}
        BY <1>2, <1>4, <1>6, Appending
    <2>3. \A i, j \in DOMAIN chain : chain[i] = chain[j] => i = j
        BY DEF OnceInv
    <2>4. \A i, j \in DOMAIN chain' : chain'[i] = chain'[j] => i = j
        BY <1>2, <1>4, <1>6, <2>1, <2>3, OneMoreOnTheChain
    <2>5. \A t \in Frames : (t > appliedSeq /\ t \notin appliedAhead) \/ t \in Range(chain)
              => applied[t] <= restarts
        BY DEF OnceInv
    <2>6. \A t \in Frames : (t > appliedSeq' /\ t \notin appliedAhead') \/ t \in Range(chain')
              => applied'[t] <= restarts'
        BY <1>1, <2>1, <2>2, <2>5
    <2>7. QED
        BY <1>1, <1>6, <2>1, <2>2, <2>4, <2>6 DEF OnceInv, AppliedOncePerBoot
<1>7. QED  BY <1>3, <1>5, <1>6

\* A gap only moves the watermark up.
LEMMA HandleLeaseGapOnce == IInv /\ OnceInv /\ HandleLeaseGap => OnceInv'
<1> SUFFICES ASSUME IInv, OnceInv, HandleLeaseGap PROVE OnceInv'  OBVIOUS
<1> DEFINE through == Head(toHost).throughSeq
           ahead == {s \in appliedAhead : s > through}
<1>1. /\ UNCHANGED <<applied, runDone, restarts, leased, chain, inFlight>>
      /\ toHost # <<>> /\ Head(toHost).type = "lease-gap"
      /\ \/ through > appliedSeq /\ RaiseWatermark(through, ahead)
         \/ UNCHANGED <<appliedSeq, appliedAhead>>
    BY DEF HandleLeaseGap, diskVars, boundVars
<1>2. through \in Frames /\ appliedSeq \in 0..Last
    BY <1>1, HostTakes, TakenApart DEF IInv, TypeOK
<1>3. CASE through > appliedSeq /\ RaiseWatermark(through, ahead)
    <2>1. PICK w \in through..Last :
              appliedSeq' = w /\ appliedAhead' = {s \in ahead : s > w}
        BY <1>3 DEF RaiseWatermark
    <2>2. \A s \in Frames : s > appliedSeq' /\ s \notin appliedAhead'
              => s > appliedSeq /\ s \notin appliedAhead
        BY <1>2, <1>3, <2>1, Constants
    <2>3. QED  BY <1>1, <2>1, <2>2, OnceStays
<1>4. CASE UNCHANGED <<appliedSeq, appliedAhead>>
    BY <1>1, <1>4, OnceStays
<1>5. QED  BY <1>1, <1>3, <1>4 DEF through, ahead

\* The write that lands was admissible once, and is not again.
LEMMA WriteLandsOnce == IInv /\ OnceInv /\ WriteLands => OnceInv'
<1> SUFFICES ASSUME IInv, OnceInv, WriteLands PROVE OnceInv'  OBVIOUS
<1> DEFINE f == Head(chain)
           ahead == appliedAhead \cup {f}
<1>1. /\ UNCHANGED <<runDone, restarts, leased>>
      /\ chain # <<>> /\ chain' = Tail(chain) /\ inFlight' = inFlight \ {f}
      /\ applied' = [applied EXCEPT ![f] = @ + 1]
      /\ \/ f > appliedSeq /\ RaiseWatermark(appliedSeq, ahead)
         \/ f <= appliedSeq /\ UNCHANGED <<appliedSeq, appliedAhead>>
    BY DEF WriteLands, boundVars
<1>2. /\ chain \in Seq(Frames) /\ appliedSeq \in 0..Last /\ appliedAhead \subseteq Frames
      /\ applied \in [Frames -> Nat] /\ restarts \in Nat
    BY DEF IInv, TypeOK
<1>3. f \in Frames /\ f \in Range(chain)
    BY <1>1, <1>2, TakingTheHead
<1>4. /\ Range(chain') \subseteq Range(chain) \ {f}
      /\ \A i, j \in DOMAIN chain' : chain'[i] = chain'[j] => i = j
    BY <1>1, <1>2, HeadOffTheChain DEF OnceInv
<1> HIDE DEF f
<1>5. applied'[f] = applied[f] + 1 /\ \A s \in Frames : s # f => applied'[s] = applied[s]
    BY <1>1, <1>2, <1>3
<1>6. \A s \in Frames : applied'[s] <= 1 + restarts
    <2>1. applied[f] <= restarts /\ \A s \in Frames : applied[s] <= 1 + restarts
        BY <1>3 DEF OnceInv, AppliedOncePerBoot
    <2>2. QED  BY SMTT(30), <1>2, <1>3, <1>5, <2>1
<1>7. /\ appliedAhead' \subseteq appliedAhead \cup {f}
      /\ \A s \in Frames : s > appliedSeq' /\ s \notin appliedAhead'
              => s > appliedSeq /\ s \notin appliedAhead /\ s # f
    <2>1. CASE f > appliedSeq /\ RaiseWatermark(appliedSeq, ahead)
        <3>1. PICK w \in appliedSeq..Last :
                  appliedSeq' = w /\ appliedAhead' = {s \in ahead : s > w}
            BY <2>1 DEF RaiseWatermark
        <3>2. QED  BY <1>2, <3>1, Constants
    <2>2. CASE f <= appliedSeq /\ UNCHANGED <<appliedSeq, appliedAhead>>
        BY <1>2, <1>3, <2>2, Constants
    <2>3. QED  BY <1>1, <2>1, <2>2
<1>8. \A s \in Frames : (s > appliedSeq' /\ s \notin appliedAhead') \/ s \in Range(chain')
          => applied'[s] <= restarts
    <2>1. \A s \in Frames : (s > appliedSeq /\ s \notin appliedAhead) \/ s \in Range(chain)
              => applied[s] <= restarts
        BY DEF OnceInv
    <2>2. QED  BY <1>4, <1>5, <1>7, <2>1
<1>9. \A s \in Range(chain') : s \notin appliedAhead'
    BY <1>4, <1>7 DEF OnceInv
<1>10. leased' => Range(chain') \subseteq inFlight'
    BY <1>1, <1>4 DEF OnceInv
<1>11. leased' <=> ~runDone'
    BY <1>1 DEF OnceInv
<1>12. QED
    BY <1>1, <1>4, <1>6, <1>8, <1>9, <1>10, <1>11 DEF OnceInv, AppliedOncePerBoot

\* One that fails comes off the chain and stays admissible.
LEMMA WriteFailsOnce == IInv /\ OnceInv /\ WriteFails => OnceInv'
<1> SUFFICES ASSUME IInv, OnceInv, WriteFails PROVE OnceInv'  OBVIOUS
<1>1. /\ UNCHANGED <<runDone, restarts, leased, applied, appliedSeq, appliedAhead>>
      /\ chain # <<>> /\ chain' = Tail(chain) /\ inFlight' = inFlight \ {Head(chain)}
    BY DEF WriteFails, diskVars
<1>2. /\ Range(chain') \subseteq Range(chain) \ {Head(chain)}
      /\ \A i, j \in DOMAIN chain' : chain'[i] = chain'[j] => i = j
    BY <1>1, HeadOffTheChain DEF OnceInv, IInv, TypeOK
<1>3. leased' => Range(chain') \subseteq inFlight'
    BY <1>1, <1>2 DEF OnceInv
<1>4. QED  BY <1>1, <1>2, <1>3 DEF OnceInv, AppliedOncePerBoot

\* The completion is applied once, since the lease goes with it.
LEMMA CompletionLandsOnce == IInv /\ OnceInv /\ CompletionLands => OnceInv'
<1> SUFFICES ASSUME IInv, OnceInv, CompletionLands PROVE OnceInv'  OBVIOUS
<1>1. /\ UNCHANGED <<restarts, chain>> /\ completion = "finishing"
      /\ runDone' = TRUE /\ leased' = FALSE
      /\ applied' = [applied EXCEPT ![Last] = @ + 1]
      /\ appliedSeq' = Last /\ appliedAhead' = {}
    BY DEF CompletionLands, boundVars
<1>2. /\ applied \in [Frames -> Nat] /\ restarts \in Nat /\ Last \in Frames
      /\ Last \notin Range(chain) /\ chain \in Seq(Frames)
    BY Constants DEF IInv, TypeOK, AheadIsApplied
<1>3. applied[Last] = 0
    <2>1. leased  BY <1>1 DEF IInv, CompletionSafe
    <2>2. ~(applied[Last] > 0)
        BY <2>1 DEF OnceInv, IInv, AheadIsApplied
    <2>3. applied[Last] \in Nat  BY <1>2
    <2>4. QED  BY <2>2, <2>3
<1>4. /\ applied'[Last] = 1
      /\ \A s \in Frames : s # Last => applied'[s] = applied[s]
    BY <1>1, <1>2, <1>3
<1>5. \A s \in Frames : applied'[s] <= 1 + restarts
    BY <1>2, <1>4 DEF OnceInv, AppliedOncePerBoot
<1>6. \A s \in Frames : (s > appliedSeq' /\ s \notin appliedAhead') \/ s \in Range(chain')
          => applied'[s] <= restarts
    <2>1. \A s \in Frames : ~(s > Last)  BY Constants
    <2>2. \A s \in Frames : s \in Range(chain) => applied[s] <= restarts  BY DEF OnceInv
    <2>3. QED  BY <1>1, <1>2, <1>4, <2>1, <2>2
<1>7. \A i, j \in DOMAIN chain' : chain'[i] = chain'[j] => i = j
    BY <1>1 DEF OnceInv
<1>8. QED  BY <1>1, <1>5, <1>6, <1>7 DEF OnceInv, AppliedOncePerBoot

\* A completion that fails leaves the chain alone, and is not on it.
LEMMA CompletionFailsOnce == IInv /\ OnceInv /\ CompletionFails => OnceInv'
<1> SUFFICES ASSUME IInv, OnceInv, CompletionFails PROVE OnceInv'  OBVIOUS
<1>1. /\ UNCHANGED <<runDone, restarts, leased, applied, appliedSeq, appliedAhead, chain>>
      /\ inFlight' = inFlight \ {Last}
    BY DEF CompletionFails, diskVars
<1>2. Last \notin Range(chain)
    BY DEF IInv, AheadIsApplied
<1>3. leased' => Range(chain') \subseteq inFlight'
    BY <1>1, <1>2 DEF OnceInv
<1>4. QED  BY <1>1, <1>3 DEF OnceInv, AppliedOncePerBoot

\* A new boot grants every frame one more application, and starts with an
\* empty chain.
LEMMA HostRestartOnce == IInv /\ OnceInv /\ HostRestart => OnceInv'
<1> SUFFICES ASSUME IInv, OnceInv, HostRestart PROVE OnceInv'  OBVIOUS
<1>1. /\ UNCHANGED <<applied, runDone>> /\ restarts' = restarts + 1
      /\ appliedAhead' = {} /\ inFlight' = {} /\ chain' = <<>> /\ leased' = ~runDone
    BY DEF HostRestart
<1>2. Range(<<>>) = {} /\ DOMAIN <<>> = {}
    BY DEF Range
<1>3. restarts \in Nat /\ applied \in [Frames -> Nat] /\ runDone \in BOOLEAN
    BY DEF IInv, TypeOK
<1>4. \A s \in Frames : applied'[s] <= restarts' /\ applied'[s] <= 1 + restarts'
    BY <1>1, <1>3 DEF OnceInv, AppliedOncePerBoot
<1>5. leased' <=> ~runDone'
    BY <1>1, <1>3
<1>6. QED  BY <1>1, <1>2, <1>4, <1>5 DEF OnceInv, AppliedOncePerBoot

\* Every step keeps OnceInv.
LEMMA NextKeepsOnce == IInv /\ OnceInv /\ [Next]_vars => OnceInv'
<1> SUFFICES ASSUME IInv, OnceInv, [Next]_vars PROVE OnceInv'  OBVIOUS
<1>1. CASE \/ Report \/ Heartbeat \/ Connect \/ ReceiveRegistered \/ ReplayBackstop
           \/ ReceiveLeaseAck \/ ReceiveRelease
    <2>1. UNCHANGED <<leaseVars, diskVars, boundVars>>
        BY <1>1 DEF Report, Heartbeat, Connect, ReceiveRegistered, ReplayBackstop,
           ReceiveLeaseAck, ReceiveRelease
    <2>2. QED  BY <2>1, OnceStays DEF leaseVars, diskVars, boundVars
<1>2. CASE \/ HandleHeartbeat \/ HandleRegister \/ AckRegistration \/ DrainEnds
           \/ PersistWatermark \/ Disconnect
    <2>1. /\ UNCHANGED <<applied, runDone, restarts, leased, chain, inFlight>>
          /\ UNCHANGED <<appliedSeq, appliedAhead>>
        BY <1>2 DEF HandleHeartbeat, HandleRegister, AckRegistration, DrainEnds,
           PersistWatermark, Disconnect, leaseVars, diskVars, boundVars
    <2>2. QED  BY <2>1, OnceStays
<1>3. CASE UNCHANGED vars
    <2>1. UNCHANGED <<leaseVars, diskVars, boundVars>>  BY <1>3 DEF vars
    <2>2. QED  BY <2>1, OnceStays DEF leaseVars, diskVars, boundVars
<1>4. QED
    BY <1>1, <1>2, <1>3, HandleFrameOnce, HandleLeaseGapOnce, WriteLandsOnce,
       WriteFailsOnce, CompletionLandsOnce, CompletionFailsOnce, HostRestartOnce
       DEF Next, WorkerStep, HostStep, Fault

\* One boot of the host applies a frame at most once, through replays,
\* retransmissions, lost acks and gaps that step over a write under way.
THEOREM FramesApplyOncePerBoot == Spec => []AppliedOncePerBoot
<1>1. Spec => []OnceInv
    BY InductiveInvariant, InitOnce, NextKeepsOnce, PTL DEF Spec
<1>2. OnceInv => AppliedOncePerBoot  BY DEF OnceInv
<1>3. QED  BY <1>1, <1>2, PTL


-----------------------------------------------------------------------------
(* First writes are in order: OrderInv, on top of IInv *)

\* The sequence u is s with something behind it, which carries the frames of F, all in
\* each message that carries any.
Holds(m, f) == m.type = "frames" /\ f \in m.seqs
Extension(s, u, F) ==
    /\ u \in Seq(WorkerMsg) /\ Len(s) \in 0..Len(u)
    /\ \A i \in 1..Len(s) : u[i] = s[i]
    /\ \A i \in (Len(s) + 1)..Len(u), f \in Frames :
          Holds(u[i], f) => f \in F /\ \A g \in F : Holds(u[i], g)
    /\ \A f \in F : \E i \in (Len(s) + 1)..Len(u) : Holds(u[i], f)

\* What is where in a concatenation.
LEMMA Positions ==
    ASSUME NEW M, NEW s \in Seq(M), NEW e \in Seq(M)
    PROVE  /\ s \o e \in Seq(M) /\ Len(s \o e) = Len(s) + Len(e)
           /\ Len(s) \in Nat /\ Len(e) \in Nat
           /\ \A i \in 1..Len(s) : (s \o e)[i] = s[i]
           /\ \A i \in 1..Len(e) : (s \o e)[Len(s) + i] = e[i]
           /\ \A i \in (Len(s) + 1)..Len(s \o e) :
                 i - Len(s) \in 1..Len(e) /\ (s \o e)[i] = e[i - Len(s)]
OBVIOUS

\* Whatever carries no frame.
LEMMA PlainExtension ==
    ASSUME NEW s \in Seq(WorkerMsg), NEW e \in Seq(WorkerMsg),
           \A m \in Range(e) : m.type # "frames"
    PROVE  Extension(s, s \o e, {})
<1>1. \A i \in 1..Len(e) : e[i].type # "frames"
    BY DEF Range
<1>2. PICK u : u = s \o e  OBVIOUS
<1>3. /\ u \in Seq(WorkerMsg) /\ Len(u) = Len(s) + Len(e)
      /\ Len(s) \in Nat /\ Len(e) \in Nat
      /\ \A i \in 1..Len(s) : u[i] = s[i]
      /\ \A i \in (Len(s) + 1)..Len(u) : i - Len(s) \in 1..Len(e) /\ u[i] = e[i - Len(s)]
    BY <1>2, Positions
<1>4. \A i \in (Len(s) + 1)..Len(u) : u[i].type # "frames"
    BY <1>1, <1>3
<1>5. Extension(s, u, {})
    BY <1>3, <1>4 DEF Extension, Holds
<1>6. QED  BY <1>2, <1>5

\* What a flush puts on the wire.
Sent(h, d, w) == IF conn = "up" /\ ~w THEN h \ d ELSE {}

\* A flush carries what it has to, at once.
LEMMA FlushExtension ==
    ASSUME NEW s \in Seq(WorkerMsg), NEW h \in SUBSET Frames, NEW d, NEW w
    PROVE  Extension(s, s \o Flush(h, d, w), Sent(h, d, w))
<1>1. CASE conn = "up" /\ ~w /\ h \ d # {}
  <2>1. PICK m \in WorkerMsg : m = FramesMsg(h \ d) /\ m.type = "frames" /\ m.seqs = h \ d
      BY WorkerMessages
  <2>2. PICK e : e = <<m>>  OBVIOUS
  <2>a. e \in Seq(WorkerMsg) /\ Len(e) = 1 /\ e[1] = m
      BY <2>1, <2>2
  <2>3. PICK u : u = s \o e  OBVIOUS
  <2>4. /\ u \in Seq(WorkerMsg) /\ Len(u) = Len(s) + 1 /\ Len(s) \in Nat
        /\ \A i \in 1..Len(s) : u[i] = s[i]
        /\ u[Len(s) + 1] = m
    <3>1. /\ s \o e \in Seq(WorkerMsg) /\ Len(s \o e) = Len(s) + Len(e) /\ Len(s) \in Nat
          /\ \A i \in 1..Len(s) : (s \o e)[i] = s[i]
          /\ \A i \in 1..Len(e) : (s \o e)[Len(s) + i] = e[i]
      BY <2>a, Positions
    <3>2. 1 \in 1..Len(e)  BY <2>a
    <3>3. (s \o e)[Len(s) + 1] = e[1]  BY <3>1, <3>2
    <3>4. QED  BY <2>a, <2>3, <3>1, <3>3
  <2>b. \A i \in (Len(s) + 1)..Len(u) : i = Len(s) + 1
      BY <2>4
  <2>c. \A f \in Frames : Holds(m, f) <=> f \in h \ d
      BY <2>1 DEF Holds
  <2>d. Len(s) \in 0..Len(u) /\ Len(s) + 1 \in (Len(s) + 1)..Len(u)
      BY <2>4
  <2>5. Extension(s, u, h \ d)
      BY <2>4, <2>b, <2>c, <2>d DEF Extension
  <2>6. Flush(h, d, w) = e /\ Sent(h, d, w) = h \ d
      BY <1>1, <2>1, <2>2 DEF Flush, Sent
  <2>7. QED  BY <2>3, <2>5, <2>6
<1>2. CASE ~(conn = "up" /\ ~w /\ h \ d # {})
  <2>1. Flush(h, d, w) = << >> /\ Sent(h, d, w) = {}
      BY <1>2 DEF Flush, Sent
  <2>2. << >> \in Seq(WorkerMsg) /\ Range(<< >>) = {}
      BY ShortSequences
  <2>3. QED  BY <2>1, <2>2, PlainExtension
<1>3. QED  BY <1>1, <1>2

\* A plain message may come before the frames.
LEMMA ExtensionOfAnExtension ==
    ASSUME NEW s \in Seq(WorkerMsg), NEW t, NEW u, NEW F,
           Extension(s, t, {}), Extension(t, u, F)
    PROVE  Extension(s, u, F)
<1>1. Len(s) \in Nat  OBVIOUS
<1>2. /\ t \in Seq(WorkerMsg) /\ u \in Seq(WorkerMsg)
      /\ Len(s) \in 0..Len(t) /\ Len(t) \in 0..Len(u) /\ Len(t) \in Nat /\ Len(u) \in Nat
    BY DEF Extension
<1>3. \A i \in 1..Len(s) : u[i] = s[i]
    BY <1>1, <1>2 DEF Extension
<1>4. \A i \in (Len(s) + 1)..Len(u) : i \in (Len(s) + 1)..Len(t) \/ i \in (Len(t) + 1)..Len(u)
    BY <1>1, <1>2
<1>5. \A i \in (Len(s) + 1)..Len(t) : u[i] = t[i] /\ \A f \in Frames : ~Holds(t[i], f)
    BY <1>1, <1>2 DEF Extension
<1>6. \A i \in (Len(t) + 1)..Len(u) : i \in (Len(s) + 1)..Len(u)
    BY <1>1, <1>2
<1>7. ASSUME NEW i \in (Len(s) + 1)..Len(u), NEW f \in Frames, Holds(u[i], f)
      PROVE  f \in F /\ \A g \in F : Holds(u[i], g)
  <2>1. i \in (Len(t) + 1)..Len(u)  BY <1>4, <1>5, <1>7
  <2>2. QED  BY <1>7, <2>1 DEF Extension
<1>8. \A f \in F : \E i \in (Len(s) + 1)..Len(u) : Holds(u[i], f)
    BY <1>6 DEF Extension
<1>9. Len(s) \in 0..Len(u)  BY <1>1, <1>2
<1>10. QED  BY <1>2, <1>3, <1>7, <1>8, <1>9 DEF Extension


\* What is carried where, after an extension of the wire.
LEMMA WireExtends ==
    ASSUME toHost \in Seq(WorkerMsg), NEW F, Extension(toHost, toHost', F)
    PROVE  /\ \A i \in DOMAIN toHost : i \in DOMAIN toHost' /\ \A f : Carried(i, f)' <=> Carried(i, f)
           /\ \A j \in DOMAIN toHost' : j \notin DOMAIN toHost =>
                 /\ \A i \in DOMAIN toHost : i <= j
                 /\ \A f \in Frames : Carried(j, f)' => f \in F /\ \A g \in F : Carried(j, g)'
           /\ \A f \in F : \E i \in DOMAIN toHost' : Carried(i, f)'
<1>1. PICK s \in Seq(WorkerMsg) : s = toHost  OBVIOUS
<1>2. PICK u : u = toHost'  OBVIOUS
<1>3. /\ u \in Seq(WorkerMsg) /\ Len(s) \in Nat /\ Len(u) \in Nat /\ Len(s) <= Len(u)
      /\ DOMAIN s = 1..Len(s) /\ DOMAIN u = 1..Len(u)
    BY <1>1, <1>2 DEF Extension
<1>4. \A i \in DOMAIN s : i \in DOMAIN u /\ u[i] = s[i]
    BY <1>1, <1>2, <1>3 DEF Extension
<1>5. \A j \in DOMAIN u : j \notin DOMAIN s => j \in (Len(s) + 1)..Len(u) /\ \A i \in DOMAIN s : i <= j
    BY <1>3
<1>6. \A j \in (Len(s) + 1)..Len(u) : j \in DOMAIN u
    BY <1>3
<1>7. \A i, f : Carried(i, f)' <=> Holds(u[i], f)
    BY <1>2 DEF Carried, Holds
<1>8. \A i, f : Carried(i, f) <=> Holds(s[i], f)
    BY <1>1 DEF Carried, Holds
<1>9. /\ \A j \in (Len(s) + 1)..Len(u), f \in Frames :
            Holds(u[j], f) => f \in F /\ \A g \in F : Holds(u[j], g)
      /\ \A f \in F : \E i \in (Len(s) + 1)..Len(u) : Holds(u[i], f)
    BY <1>1, <1>2 DEF Extension
<1>10. \A f \in F : \E i \in DOMAIN u : Holds(u[i], f)
    BY <1>6, <1>9
<1>11. QED
  <2>1. \A i \in DOMAIN s : i \in DOMAIN u /\ \A f : Carried(i, f)' <=> Carried(i, f)
      BY <1>4, <1>7, <1>8
  <2>2. \A j \in DOMAIN u : j \notin DOMAIN s =>
                 /\ \A i \in DOMAIN s : i <= j
                 /\ \A f \in Frames : Carried(j, f)' => f \in F /\ \A g \in F : Carried(j, g)'
      BY <1>5, <1>7, <1>9
  <2>3. \A f \in F : \E i \in DOMAIN u : Carried(i, f)'
      BY <1>7, <1>10
  <2>4. QED  BY <1>1, <1>2, <2>1, <2>2, <2>3

\* A step of the worker: it numbers the frames of N, lets go of some, and sends those of F.
LEMMA WorkerKeepsOrder ==
    ASSUME IInv, StreamInOrder, NEW F \in SUBSET Frames, NEW N \in SUBSET Frames,
           Extension(toHost, toHost', F),
           UNCHANGED <<leased, appliedSeq, inFlight, chain, completion, applied>>,
           held' \subseteq held \cup N, F \subseteq held',
           \A n \in N, t \in Frames : t > n =>
               /\ applied[t] = 0 /\ t \notin Range(chain) /\ t \notin held'
               /\ \A i \in DOMAIN toHost : ~Carried(i, t),
           completion # "none" => N = {},
           F # {} => \A s \in held' : s \in F \/ (conn # "down" /\ s \in held \cap delivered),
           conn' # "down" =>
               \A s \in held' \cap delivered' :
                   s \in F \/ (conn # "down" /\ s \in held \cap delivered)
    PROVE  StreamInOrder'
<1>1. /\ WrittenInOrder /\ ChainInOrder /\ WireInOrder /\ DeliveredIsUnderWay
      /\ CompletionIsLast /\ InFlightIsOnChain
    BY DEF StreamInOrder
<1>t. toHost \in Seq(WorkerMsg) /\ chain \in Seq(Frames)
    BY DEF IInv, TypeOK
<1>2. /\ \A i \in DOMAIN toHost : i \in DOMAIN toHost' /\ \A f : Carried(i, f)' <=> Carried(i, f)
      /\ \A j \in DOMAIN toHost' : j \notin DOMAIN toHost =>
            /\ \A i \in DOMAIN toHost : i <= j
            /\ \A f \in Frames : Carried(j, f)' => f \in F /\ \A g \in F : Carried(j, g)'
      /\ \A f \in F : \E i \in DOMAIN toHost' : Carried(i, f)'
    BY <1>t, WireExtends
<1>3. \A s \in Frames : Awaited(s)' => Awaited(s) \/ s \in N
  <2> SUFFICES ASSUME NEW s \in Frames, Awaited(s)', s \notin N  PROVE Awaited(s)
      OBVIOUS
  <2>1. CASE s \in held'  BY <2>1 DEF Awaited
  <2>2. CASE s \in Range(chain)  BY <2>2 DEF Awaited
  <2>3. CASE leased /\ s > appliedSeq /\ \E i \in DOMAIN toHost' : Carried(i, s)'
    <3>1. PICK i \in DOMAIN toHost' : Carried(i, s)'  BY <2>3
    <3>2. CASE i \in DOMAIN toHost  BY <1>2, <2>3, <3>1, <3>2 DEF Awaited
    <3>3. CASE i \notin DOMAIN toHost
      <4>1. s \in held'  BY <1>2, <3>1, <3>3
      <4>2. QED  BY <4>1 DEF Awaited
    <3>4. QED  BY <3>2, <3>3
  <2>4. QED  BY <2>1, <2>2, <2>3 DEF Awaited
<1>4. WrittenInOrder'
    BY <1>1, <1>3 DEF WrittenInOrder
<1>5. ChainInOrder'
  <2>1. \A j \in DOMAIN chain : chain[j] \in Range(chain) /\ chain[j] \in Frames
      BY <1>t DEF Range
  <2>2. QED  BY <1>1, <1>3, <2>1, Constants DEF ChainInOrder
<1>6. \A s \in held' : F # {} /\ s \in Frames /\ s < Last /\ applied[s] = 0 =>
          s \in F \/ s \in Range(chain) \/ \E i \in DOMAIN toHost : Carried(i, s)
    BY <1>1 DEF DeliveredIsUnderWay
<1>7. WireInOrder'
  <2> SUFFICES ASSUME NEW j \in DOMAIN toHost', NEW s \in Frames, NEW t \in Frames,
                      Carried(j, t)', s < t, Awaited(s)', s \notin Range(chain)
               PROVE  \E i \in DOMAIN toHost' : i <= j /\ Carried(i, s)'
      BY DEF WireInOrder
  <2>1. CASE j \in DOMAIN toHost
    <3>1. Carried(j, t)  BY <1>2, <2>1
    <3>2. s \notin N  BY <2>1, <3>1, Constants
    <3>3. Awaited(s)  BY <1>3, <3>2
    <3>4. PICK i \in DOMAIN toHost : i <= j /\ Carried(i, s)
        BY <1>1, <2>1, <3>1, <3>3 DEF WireInOrder
    <3>5. QED  BY <1>2, <3>4
  <2>2. CASE j \notin DOMAIN toHost
    <3>1. t \in F /\ \A g \in F : Carried(j, g)'  BY <1>2, <2>2
    <3>2. t \in held' /\ F # {} /\ s < Last /\ j <= j  BY <1>2, <2>2, <3>1, <1>t, Constants DEF Extension
    <3>3. CASE s \in held'
      <4>1. applied[s] = 0  BY DEF Awaited
      <4>2. CASE s \in F  BY <3>1, <3>2, <4>2
      <4>3. CASE s \notin F
        <5>1. PICK i \in DOMAIN toHost : Carried(i, s)  BY <1>6, <3>2, <3>3, <4>1, <4>3
        <5>2. QED  BY <1>2, <2>2, <5>1
      <4>4. QED  BY <4>2, <4>3
    <3>4. CASE s \notin held'
      <4>1. PICK i \in DOMAIN toHost' : Carried(i, s)'  BY <3>4 DEF Awaited
      <4>2. i \in DOMAIN toHost  BY <1>2, <3>4, <4>1
      <4>3. QED  BY <1>2, <2>2, <4>1, <4>2
    <3>5. QED  BY <3>3, <3>4
  <2>3. QED  BY <2>1, <2>2
<1>8. DeliveredIsUnderWay'
  <2> SUFFICES ASSUME conn' # "down", NEW s \in held' \cap delivered', s < Last, applied[s] = 0,
                      s \notin Range(chain)
               PROVE  \E i \in DOMAIN toHost' : Carried(i, s)'
      BY DEF DeliveredIsUnderWay
  <2>1. CASE s \in F  BY <1>2, <2>1
  <2>2. CASE s \notin F
    <3>1. PICK i \in DOMAIN toHost : Carried(i, s)  BY <1>1, <2>2 DEF DeliveredIsUnderWay
    <3>2. QED  BY <1>2, <3>1
  <2>3. QED  BY <2>1, <2>2
<1>9. CompletionIsLast' /\ InFlightIsOnChain'
    BY <1>1, <1>3 DEF CompletionIsLast, InFlightIsOnChain
<1>10. QED  BY <1>4, <1>5, <1>7, <1>8, <1>9 DEF StreamInOrder


\* The wire as it was, and with one message more that carries no frame.
LEMMA QuietWire ==
    ASSUME toHost \in Seq(WorkerMsg)
    PROVE  /\ toHost' = toHost => Extension(toHost, toHost', {})
           /\ \A m \in WorkerMsg : m.type # "frames" /\ toHost' = Append(toHost, m)
                => Extension(toHost, toHost', {})
<1>1. ASSUME NEW m \in WorkerMsg, m.type # "frames", toHost' = Append(toHost, m)
      PROVE  Extension(toHost, toHost', {})
  <2>1. Append(toHost, m) = toHost \o <<m>>  BY <1>1
  <2>2. <<m>> \in Seq(WorkerMsg) /\ Range(<<m>>) = {m}  BY ShortSequences
  <2>3. Extension(toHost, toHost \o <<m>>, {})  BY <1>1, <2>2, PlainExtension
  <2>4. QED  BY <1>1, <2>1, <2>3
<1>2. ASSUME toHost' = toHost  PROVE Extension(toHost, toHost', {})
  <2>1. PICK s \in Seq(WorkerMsg) : s = toHost  OBVIOUS
  <2>2. Len(s) \in Nat  OBVIOUS
  <2>3. Len(s) \in 0..Len(s) /\ (Len(s) + 1)..Len(s) = {}  BY <2>2
  <2>4. Extension(s, s, {})  BY <2>3 DEF Extension
  <2>5. QED  BY <1>2, <2>1, <2>4
<1>3. QED  BY <1>1, <1>2

\* The worker's steps but for Report: nothing is numbered.
LEMMA WorkerStepsKeepOrder ==
    ASSUME IInv, StreamInOrder,
           Heartbeat \/ Connect \/ ReceiveRegistered \/ ReplayBackstop \/ ReceiveLeaseAck
             \/ ReceiveRelease
    PROVE  StreamInOrder'
<1>1. UNCHANGED <<leased, appliedSeq, inFlight, chain, completion, applied>>
    BY DEF Heartbeat, Connect, ReceiveRegistered, ReplayBackstop, ReceiveLeaseAck,
           ReceiveRelease, leaseVars, diskVars
<1>2. /\ toHost \in Seq(WorkerMsg) /\ held \in SUBSET Frames /\ delivered \in SUBSET Frames
      /\ gapThrough \in 0..Last
    BY DEF IInv, TypeOK
<1>3. ASSUME Extension(toHost, toHost', {}), held' \subseteq held,
             conn' # "down" =>
               \A s \in held' \cap delivered' : conn # "down" /\ s \in held \cap delivered
      PROVE  StreamInOrder'
    BY <1>1, <1>3, WorkerKeepsOrder
<1>4. ASSUME NEW h \in SUBSET held, NEW d \in SUBSET delivered,
             toHost' = toHost \o Flush(h, d, FALSE), held' = h,
             delivered' = DeliveredBy(h, d, FALSE), conn' = conn
      PROVE  StreamInOrder'
  <2>1. Extension(toHost, toHost', Sent(h, d, FALSE))
      BY <1>2, <1>4, FlushExtension
  <2>2. CASE conn = "up"
    <3>1. Sent(h, d, FALSE) = h \ d /\ delivered' = h
        BY <1>4, <2>2 DEF Sent, DeliveredBy
    <3>2. PICK F \in SUBSET Frames : F = h \ d  BY <1>2
    <3>3. Extension(toHost, toHost', F)  BY <2>1, <3>1, <3>2
    <3>4. \A s \in held' : s \in F \/ (conn # "down" /\ s \in held \cap delivered)
        BY <1>4, <2>2, <3>2
    <3>5. F \subseteq held' /\ held' \subseteq held \cup {}  BY <1>4, <3>2
    <3>6. PICK N \in SUBSET Frames : N = {}  BY <1>2
    <3>7. \A n \in N, t \in Frames : FALSE  BY <3>6
    <3>8. held' \subseteq held \cup N /\ F \subseteq held'  BY <3>5, <3>6
    <3>9. QED  BY <1>1, <3>3, <3>4, <3>6, <3>7, <3>8, WorkerKeepsOrder
  <2>3. CASE conn # "up"
    <3>1. Sent(h, d, FALSE) = {} /\ delivered' = d
        BY <1>4, <2>3 DEF Sent, DeliveredBy
    <3>2. QED  BY <1>3, <1>4, <2>1, <3>1
  <2>4. QED  BY <2>2, <2>3
<1>5. CASE Heartbeat
  <2>1. /\ toHost' = Append(toHost, HeartbeatMsg) /\ UNCHANGED <<held, delivered, conn>>
      BY <1>5 DEF Heartbeat, bufferVars
  <2>2. Extension(toHost, toHost', {})  BY <1>2, <2>1, QuietWire, WorkerMessages
  <2>3. QED  BY <1>3, <2>1, <2>2
<1>6. CASE Connect
  <2>1. toHost' = Append(toHost, RegisterMsg) /\ held' = held /\ delivered' = {}
      BY <1>6 DEF Connect
  <2>2. Extension(toHost, toHost', {})  BY <1>2, <2>1, QuietWire, WorkerMessages
  <2>3. QED  BY <1>3, <2>1, <2>2
<1>7. CASE ReceiveRegistered
  <2>1. /\ UNCHANGED <<held, delivered>> /\ conn = "registering"
        /\ \/ toHost' = toHost
           \/ gapThrough > 0 /\ toHost' = Append(toHost, GapMsg(gapThrough))
      BY <1>7 DEF ReceiveRegistered, bufferVars
  <2>2. CASE toHost' = toHost
      BY <1>2, <1>3, <2>1, <2>2, QuietWire
  <2>3. CASE gapThrough > 0 /\ toHost' = Append(toHost, GapMsg(gapThrough))
    <3>1. GapMsg(gapThrough) \in WorkerMsg /\ GapMsg(gapThrough).type = "lease-gap"
        BY <1>2, <2>3, WorkerMessages, Constants
    <3>2. Extension(toHost, toHost', {})  BY <1>2, <2>3, <3>1, QuietWire
    <3>3. QED  BY <1>3, <2>1, <3>2
  <2>4. QED  BY <2>1, <2>2, <2>3
<1>8. CASE ReplayBackstop
  <2>1. /\ toHost' = toHost \o Flush(held, delivered, FALSE) /\ held' = held
        /\ delivered' = DeliveredBy(held, delivered, FALSE) /\ conn' = conn
      BY <1>8 DEF ReplayBackstop
  <2>2. QED  BY <1>4, <2>1
<1>9. CASE ReceiveLeaseAck
  <2>1. PICK h \in SUBSET held, d \in SUBSET delivered :
          \/ /\ toHost' = toHost \o Flush(h, d, FALSE) /\ held' = h
             /\ delivered' = DeliveredBy(h, d, FALSE)
          \/ UNCHANGED <<held, delivered, toHost>>
    <3>1. CASE UNCHANGED <<held, delivered, toHost>>  BY <3>1
    <3>2. CASE ~UNCHANGED <<held, delivered, toHost>>
      <4>1. PICK acked, h, d :
              /\ acked = Head(toWorker).seq /\ h = {s \in held : s > acked}
              /\ d = IF acked = lastAckedSeq THEN {} ELSE delivered \cap h
          OBVIOUS
      <4>2. /\ toHost' = toHost \o Flush(h, d, FALSE) /\ held' = h
            /\ delivered' = DeliveredBy(h, d, FALSE)
          BY <1>9, <3>2, <4>1 DEF ReceiveLeaseAck
      <4>3. h \in SUBSET held /\ d \in SUBSET delivered  BY <4>1
      <4>4. QED  BY <4>2, <4>3
    <3>3. QED  BY <3>1, <3>2
  <2>2. conn' = conn  BY <1>9 DEF ReceiveLeaseAck
  <2>3. CASE UNCHANGED <<held, delivered, toHost>>
    <3>1. Extension(toHost, toHost', {})  BY <1>2, <2>3, QuietWire
    <3>2. QED  BY <1>3, <2>2, <2>3, <3>1
  <2>4. QED  BY <1>4, <2>1, <2>2, <2>3
<1>10. CASE ReceiveRelease
  <2>1. held' = {} /\ toHost' = toHost  BY <1>10 DEF ReceiveRelease
  <2>2. Extension(toHost, toHost', {})  BY <1>2, <2>1, QuietWire
  <2>3. QED  BY <1>3, <2>1, <2>2
<1>11. QED  BY <1>5, <1>6, <1>7, <1>8, <1>9, <1>10

\* Report numbers a frame above all there are.
LEMMA ReportKeepsOrder ==
    ASSUME IInv, StreamInOrder, Report
    PROVE  StreamInOrder'
<1> DEFINE added == held \cup {seq'}
           kept  == added \ Victims(added)
           live  == delivered \ Victims(added)
           F     == Sent(kept, live, awaitingAck)
<1>1. /\ UNCHANGED <<leased, appliedSeq, inFlight, chain, completion, applied, conn>>
      /\ held' = kept /\ delivered' = DeliveredBy(kept, live, awaitingAck)
      /\ seq' = seq + 1 /\ seq < Last
    BY DEF Report, leaseVars, diskVars
<1>2. /\ toHost \in Seq(WorkerMsg) /\ held \in SUBSET Frames /\ delivered \in SUBSET Frames
      /\ seq \in 0..Last /\ seq' \in Frames /\ Range(chain) \subseteq 1..seq
      /\ held \subseteq 1..seq /\ delivered \subseteq 1..seq
    BY <1>1, Constants DEF IInv, TypeOK, NothingAhead
<1>3. added \in SUBSET Frames /\ kept \in SUBSET Frames
    BY <1>2
<1>4. completion = "none"
    BY <1>1, <1>2 DEF IInv, CompletionSafe
<1>5. \A t \in Frames : t > seq' =>
          /\ applied[t] = 0 /\ t \notin Range(chain) /\ t \notin held'
          /\ \A i \in DOMAIN toHost : ~Carried(i, t)
  <2> SUFFICES ASSUME NEW t \in Frames, t > seq'
               PROVE  /\ applied[t] = 0 /\ t \notin Range(chain) /\ t \notin held'
                      /\ \A i \in DOMAIN toHost : ~Carried(i, t)
      OBVIOUS
  <2>1. t \notin 1..seq /\ ~(t <= seq) /\ t # seq'
      BY <1>1, <1>2, Constants
  <2>2. applied[t] \in Nat /\ ~(applied[t] > 0)
      BY <2>1 DEF IInv, TypeOK, NothingAhead
  <2>3. ASSUME NEW i \in DOMAIN toHost, Carried(i, t)  PROVE FALSE
    <3>1. toHost[i] \in Range(toHost)  BY DEF Range
    <3>2. toHost[i].seqs \subseteq 1..seq  BY <2>3, <3>1 DEF IInv, NothingAhead, Carried
    <3>3. QED  BY <2>1, <2>3, <3>2 DEF Carried
  <2>4. t \notin held'  BY <1>1, <1>2, <2>1
  <2>5. QED  BY <1>2, <2>1, <2>2, <2>3, <2>4
<1> HIDE DEF kept, live
<1>6. Extension(toHost, toHost', F)
  <2> DEFINE flush == Flush(kept, live, awaitingAck)
  <2>1. CASE Victims(added) = {}
    <3>1. toHost' = toHost \o flush  BY <2>1 DEF Report, kept, live
    <3>2. QED  BY <1>2, <1>3, <3>1, FlushExtension
  <2>2. CASE Victims(added) # {}
    <3>1. toHost' = toHost \o GapReport(gapThrough') \o flush
        BY <2>2 DEF Report, kept, live
    <3>2. gapThrough' \in 0..Last
        BY ReportKeepsIInv DEF IInv, TypeOK
    <3>3. /\ GapReport(gapThrough') \in Seq(WorkerMsg)
          /\ \A m \in Range(GapReport(gapThrough')) : m.type # "frames"
        BY <3>2, Reporting
    <3>4. PICK g \in Seq(WorkerMsg) : g = GapReport(gapThrough')  BY <3>3
    <3>5. PICK s \in Seq(WorkerMsg) : s = toHost \o g
      <4>1. toHost \o g \in Seq(WorkerMsg)  BY <1>2, WireConcatenating
      <4>2. QED  BY <4>1
    <3>6. Extension(toHost, s, {})  BY <1>2, <3>3, <3>4, <3>5, PlainExtension
    <3>7. Extension(s, s \o flush, F)  BY <1>3, FlushExtension
    <3>8. Extension(toHost, s \o flush, F)
        BY <1>2, <3>6, <3>7, ExtensionOfAnExtension
    <3>9. QED  BY <3>1, <3>4, <3>5, <3>8
  <2>3. QED  BY <2>1, <2>2
<1>7. /\ F \in SUBSET Frames /\ F \subseteq held' /\ held' \subseteq held \cup {seq'}
    BY <1>1, <1>3 DEF Sent, kept
<1>8. \A s \in kept : s \in live => s \in held \cap delivered
    BY <1>1, <1>2 DEF kept, live
<1>9. F # {} => \A s \in held' : s \in F \/ (conn # "down" /\ s \in held \cap delivered)
    BY <1>1, <1>8 DEF Sent
<1>10. conn' # "down" => \A s \in held' \cap delivered' :
          s \in F \/ (conn # "down" /\ s \in held \cap delivered)
    BY <1>1, <1>8 DEF Sent, DeliveredBy
<1>11. QED
    <2> HIDE DEF F
    <2>1. \A n \in {seq'}, t \in Frames : t > n =>
               /\ applied[t] = 0 /\ t \notin Range(chain) /\ t \notin held'
               /\ \A i \in DOMAIN toHost : ~Carried(i, t)
        BY <1>5
    <2>2. {seq'} \in SUBSET Frames  BY <1>2
    <2>3. QED  BY <1>1, <1>4, <1>6, <1>7, <1>9, <1>10, <2>1, <2>2, WorkerKeepsOrder


\* A step that lets no frame back in: what was written, on the chain and held stays so, and
\* each message is d places ahead of where it was.
LEMMA StillAwaited ==
    ASSUME NEW d \in Nat,
           \A i \in DOMAIN toHost' :
                 i + d \in DOMAIN toHost /\ \A f : Carried(i, f)' => Carried(i + d, f),
           \A f \in Frames : applied'[f] = 0 => applied[f] = 0,
           held' = held,
           \A f \in Range(chain') : applied[f] = 0 => f \in Range(chain) \/ Awaited(f),
           leased' => leased, appliedSeq \in Nat, appliedSeq' \in Nat, appliedSeq <= appliedSeq'
    PROVE  \A f \in Frames : Awaited(f)' => Awaited(f)
<1> SUFFICES ASSUME NEW f \in Frames, Awaited(f)'  PROVE Awaited(f)
    OBVIOUS
<1>1. applied[f] = 0  BY DEF Awaited
<1>2. CASE f \in held'  BY <1>1, <1>2 DEF Awaited
<1>3. CASE f \in Range(chain')  BY <1>1, <1>3 DEF Awaited
<1>4. CASE leased' /\ f > appliedSeq' /\ \E i \in DOMAIN toHost' : Carried(i, f)'
  <2>1. PICK i \in DOMAIN toHost' : Carried(i, f)'  BY <1>4
  <2>2. i + d \in DOMAIN toHost /\ Carried(i + d, f)  BY <2>1
  <2>3. f > appliedSeq /\ leased  BY <1>4, Constants
  <2>4. QED  BY <1>1, <2>2, <2>3 DEF Awaited
<1>5. QED  BY <1>2, <1>3, <1>4 DEF Awaited

\* A step that takes the frames of X from the wire and has each of them, if it is still
\* awaited, on the chain.
LEMMA WireKeepsOrder ==
    ASSUME IInv, StreamInOrder, NEW d \in Nat, NEW X, DOMAIN toHost' \subseteq Nat,
           \A i \in DOMAIN toHost' :
                 i + d \in DOMAIN toHost /\ \A f : Carried(i, f)' => Carried(i + d, f),
           \A i \in DOMAIN toHost : \A f :
               Carried(i, f) => f \in X \/ (i - d \in DOMAIN toHost' /\ Carried(i - d, f)'),
           \A x \in X : x < Last /\ Awaited(x)' => x \in Range(chain'),
           \A f \in Range(chain) : Awaited(f)' => f \in Range(chain'),
           \A f \in Frames : Awaited(f)' => Awaited(f),
           conn' = conn, held' = held, delivered' = delivered,
           \A f \in Frames : applied'[f] = 0 => applied[f] = 0,
           WrittenInOrder', ChainInOrder', CompletionIsLast', InFlightIsOnChain'
    PROVE  StreamInOrder'
<1>1. WireInOrder /\ DeliveredIsUnderWay
    BY DEF StreamInOrder
<1>2. DOMAIN toHost \subseteq Nat /\ held \in SUBSET Frames
  <2>1. toHost \in Seq(WorkerMsg) /\ held \in SUBSET Frames  BY DEF IInv, TypeOK
  <2>2. DOMAIN toHost = 1..Len(toHost) /\ Len(toHost) \in Nat  BY <2>1
  <2>3. QED  BY <2>1, <2>2
<1>3. WireInOrder'
  <2> SUFFICES ASSUME NEW j \in DOMAIN toHost', NEW s \in Frames, NEW t \in Frames,
                      Carried(j, t)', s < t, Awaited(s)', s \notin Range(chain')
               PROVE  \E i \in DOMAIN toHost' : i <= j /\ Carried(i, s)'
      BY DEF WireInOrder
  <2>1. j \in Nat /\ j + d \in DOMAIN toHost /\ Carried(j + d, t) /\ Awaited(s)
      OBVIOUS
  <2>2. s < Last  BY Constants
  <2>3. s \notin Range(chain) /\ s \notin X  BY <2>2
  <2>4. PICK i \in DOMAIN toHost : i <= j + d /\ Carried(i, s)
      BY <1>1, <2>1, <2>3 DEF WireInOrder
  <2>5. i - d \in DOMAIN toHost' /\ Carried(i - d, s)'  BY <2>3, <2>4
  <2>6. i - d <= j  BY <1>2, <2>1, <2>4
  <2>7. QED  BY <2>5, <2>6
<1>4. DeliveredIsUnderWay'
  <2> SUFFICES ASSUME conn' # "down", NEW s \in held' \cap delivered', s < Last, applied'[s] = 0,
                      s \notin Range(chain')
               PROVE  \E i \in DOMAIN toHost' : Carried(i, s)'
      BY DEF DeliveredIsUnderWay
  <2>1. s \in held \cap delivered /\ s \in Frames /\ applied[s] = 0  BY <1>2
  <2>2. Awaited(s)'  BY DEF Awaited
  <2>3. s \notin Range(chain) /\ s \notin X  BY <2>2
  <2>4. PICK i \in DOMAIN toHost : Carried(i, s)
      BY <1>1, <2>1, <2>3 DEF DeliveredIsUnderWay
  <2>5. i - d \in DOMAIN toHost' /\ Carried(i - d, s)'  BY <2>3, <2>4
  <2>6. QED  BY <2>5
<1>5. QED  BY <1>3, <1>4 DEF StreamInOrder

\* The wire as it was.
LEMMA WireStays ==
    ASSUME toHost \in Seq(WorkerMsg), toHost' = toHost
    PROVE  /\ DOMAIN toHost' \subseteq Nat
           /\ \A i \in DOMAIN toHost' :
                    i + 0 \in DOMAIN toHost /\ \A f : Carried(i, f)' => Carried(i + 0, f)
           /\ \A i \in DOMAIN toHost : \A f :
                 Carried(i, f) => i - 0 \in DOMAIN toHost' /\ Carried(i - 0, f)'
<1>1. PICK s \in Seq(WorkerMsg) : s = toHost /\ s = toHost'  OBVIOUS
<1>2. DOMAIN s = 1..Len(s) /\ Len(s) \in Nat  BY <1>1
<1>3. \A i \in DOMAIN s : i + 0 = i /\ i - 0 = i /\ i \in Nat  BY <1>2
<1>4. QED  BY <1>1, <1>3 DEF Carried

\* The host reads the message at the head of the wire.
LEMMA WireTaken ==
    ASSUME toHost \in Seq(WorkerMsg), toHost # << >>, toHost' = Tail(toHost)
    PROVE  /\ DOMAIN toHost' \subseteq Nat
           /\ \A i \in DOMAIN toHost' :
                    i + 1 \in DOMAIN toHost /\ \A f : Carried(i, f)' => Carried(i + 1, f)
           /\ \A i \in DOMAIN toHost : \A f :
                 Carried(i, f) => Holds(Head(toHost), f) \/ (i - 1 \in DOMAIN toHost' /\ Carried(i - 1, f)')
<1>1. PICK s \in Seq(WorkerMsg) : s = toHost  OBVIOUS
<1>2. PICK u : u = Tail(s)  OBVIOUS
<1>3. /\ DOMAIN s = 1..Len(s) /\ Len(s) \in Nat /\ Len(s) > 0 /\ Head(s) = s[1]
      /\ DOMAIN u = 1..(Len(s) - 1) /\ \A i \in 1..(Len(s) - 1) : u[i] = s[i + 1]
    BY <1>1, <1>2
<1>4. /\ \A i \in DOMAIN u : i + 1 \in DOMAIN s /\ u[i] = s[i + 1] /\ i \in Nat
      /\ \A i \in DOMAIN s : i = 1 \/ (i - 1 \in DOMAIN u /\ u[i - 1] = s[i])
    BY <1>3
<1>5. s = toHost /\ u = toHost' /\ Head(s) = Head(toHost)  BY <1>1, <1>2
<1>6. \A i, f : (Carried(i, f) <=> Holds(s[i], f)) /\ (Carried(i, f)' <=> Holds(u[i], f))
    BY <1>5 DEF Carried, Holds
<1>7. DOMAIN u \subseteq Nat  BY <1>3
<1>8. \A i \in DOMAIN u : i + 1 \in DOMAIN s /\ \A f : Carried(i, f)' => Carried(i + 1, f)
    BY <1>4, <1>6 DEF Holds
<1>9. ASSUME NEW i \in DOMAIN s, NEW f, Carried(i, f)
      PROVE  Holds(Head(s), f) \/ (i - 1 \in DOMAIN u /\ Carried(i - 1, f)')
  <2>1. Holds(s[i], f)  BY <1>6, <1>9
  <2>2. CASE i = 1  BY <1>3, <2>1, <2>2
  <2>3. CASE i - 1 \in DOMAIN u /\ u[i - 1] = s[i]  BY <1>6, <2>1, <2>3
  <2>4. QED  BY <1>4, <2>2, <2>3
<1>10. \A i \in DOMAIN s : \A f :
          Carried(i, f) => Holds(Head(s), f) \/ (i - 1 \in DOMAIN u /\ Carried(i - 1, f)')
    BY <1>9
<1>11. QED
  <2>1. Head(s) = Head(toHost) /\ DOMAIN s = DOMAIN toHost /\ DOMAIN u = DOMAIN toHost'  BY <1>5
  <2>2. DOMAIN toHost' \subseteq Nat  BY <1>7, <2>1
  <2>3. \A i \in DOMAIN toHost' : i + 1 \in DOMAIN toHost /\ \A f : Carried(i, f)' => Carried(i + 1, f)
      BY <1>8, <2>1
  <2>4. ASSUME NEW i \in DOMAIN toHost, NEW f, Carried(i, f)
        PROVE  Holds(Head(toHost), f) \/ (i - 1 \in DOMAIN toHost' /\ Carried(i - 1, f)')
      BY <1>10, <2>1, <2>4
  <2>5. QED  BY <2>2, <2>3, <2>4

\* The host reads the lowest frame of a batch, which stays at the head of the wire.
LEMMA WireTakenApart ==
    ASSUME toHost \in Seq(WorkerMsg), toHost # << >>, NEW x, NEW F \in SUBSET Frames,
           \A f : Holds(Head(toHost), f) <=> f \in F \/ f = x,
           toHost' = <<FramesMsg(F)>> \o Tail(toHost)
    PROVE  /\ DOMAIN toHost' \subseteq Nat
           /\ \A i \in DOMAIN toHost' :
                    i + 0 \in DOMAIN toHost /\ \A f : Carried(i, f)' => Carried(i + 0, f)
           /\ \A i \in DOMAIN toHost : \A f :
                 Carried(i, f) => f = x \/ (i - 0 \in DOMAIN toHost' /\ Carried(i - 0, f)')
<1>1. PICK s \in Seq(WorkerMsg) : s = toHost  OBVIOUS
<1>2. PICK m \in WorkerMsg : m = FramesMsg(F) /\ m.type = "frames" /\ m.seqs = F
    BY WorkerMessages
<1>3. PICK e \in Seq(WorkerMsg) : e = <<m>> /\ Len(e) = 1 /\ e[1] = m
  <2>1. PICK e : e = <<m>>  OBVIOUS
  <2>2. e \in Seq(WorkerMsg) /\ Len(e) = 1 /\ e[1] = m  BY <2>1
  <2>3. QED  BY <2>1, <2>2
<1>4. PICK t \in Seq(WorkerMsg) : t = Tail(s)
  <2>1. s # << >>  BY <1>1
  <2>2. Tail(s) \in Seq(WorkerMsg)  BY <2>1, TakingTheHead
  <2>3. QED  BY <2>2
<1>5. /\ DOMAIN s = 1..Len(s) /\ Len(s) \in Nat /\ Len(s) > 0 /\ Head(s) = s[1]
      /\ Len(t) = Len(s) - 1 /\ \A i \in 1..(Len(s) - 1) : t[i] = s[i + 1]
    BY <1>1, <1>4
<1>6. PICK u : u = e \o t  OBVIOUS
<1>7. /\ u \in Seq(WorkerMsg) /\ Len(u) = 1 + Len(t)
      /\ \A i \in 1..1 : u[i] = e[i]
      /\ \A i \in 1..Len(t) : u[1 + i] = t[i]
    BY <1>3, <1>6, Positions
<1>8. /\ DOMAIN u = DOMAIN s /\ u[1] = m
      /\ \A i \in DOMAIN s : i = 1 \/ u[i] = s[i]
  <2>1. DOMAIN u = 1..Len(s)  BY <1>5, <1>7
  <2>2. u[1] = m  BY <1>3, <1>7
  <2>3. ASSUME NEW i \in 1..Len(s), i # 1  PROVE u[i] = s[i]
    <3>1. i - 1 \in 1..Len(t) /\ 1 + (i - 1) = i /\ i - 1 + 1 = i /\ i - 1 \in 1..(Len(s) - 1)
        BY <1>5, <2>3
    <3>2. u[i] = t[i - 1]  BY <1>7, <3>1
    <3>3. t[i - 1] = s[i]  BY <1>5, <3>1
    <3>4. QED  BY <3>2, <3>3
  <2>4. QED  BY <1>5, <2>1, <2>2, <2>3
<1>9. s = toHost /\ u = toHost' /\ Head(s) = Head(toHost)  BY <1>1, <1>2, <1>3, <1>4, <1>6
<1>10. \A i, f : (Carried(i, f) <=> Holds(s[i], f)) /\ (Carried(i, f)' <=> Holds(u[i], f))
    BY <1>9 DEF Carried, Holds
<1>11. \A i \in DOMAIN s : i + 0 = i /\ i - 0 = i /\ i \in Nat  BY <1>5
<1>12. \A f : (Holds(s[1], f) <=> f \in F \/ f = x) /\ (Holds(u[1], f) <=> f \in F)
    BY <1>2, <1>5, <1>8, <1>9 DEF Holds
<1>13. \A i \in DOMAIN u : i \in DOMAIN s /\ i \in Nat /\ \A f : Carried(i, f)' => Carried(i, f)
    BY <1>8, <1>10, <1>11, <1>12
<1>14. \A i \in DOMAIN s : \A f : Carried(i, f) => f = x \/ (i \in DOMAIN u /\ Carried(i, f)')
    BY <1>8, <1>10, <1>12
<1>15. QED
  <2>1. \A i \in DOMAIN u : i + 0 \in DOMAIN s /\ \A f : Carried(i, f)' => Carried(i + 0, f)
      BY <1>11, <1>13
  <2>2. \A i \in DOMAIN s : \A f : Carried(i, f) => f = x \/ (i - 0 \in DOMAIN u /\ Carried(i - 0, f)')
      BY <1>11, <1>14
  <2>3. QED  BY <1>9, <1>13, <2>1, <2>2


\* A step that leaves the chain and the writes alone and reads at most a message that
\* carries no frame.
LEMMA QuietKeepsOrder ==
    ASSUME IInv, StreamInOrder,
           toHost' = toHost \/ (toHost # << >> /\ Head(toHost).type # "frames" /\ toHost' = Tail(toHost)),
           UNCHANGED <<conn, held, delivered, chain, applied, inFlight, leased>>,
           appliedSeq' \in 0..Last, appliedSeq <= appliedSeq',
           completion' # "none" =>
             \/ completion' = completion
             \/ completion \in {"parked", "finishing"}
             \/ completion = "draining" /\ chain = << >>
    PROVE  StreamInOrder'
<1>1. /\ WrittenInOrder /\ ChainInOrder /\ CompletionIsLast /\ InFlightIsOnChain
    BY DEF StreamInOrder
<1>2. /\ toHost \in Seq(WorkerMsg) /\ chain \in Seq(Frames) /\ appliedSeq \in Nat /\ appliedSeq' \in Nat
    BY Constants DEF IInv, TypeOK
<1>3. PICK d \in Nat :
        /\ DOMAIN toHost' \subseteq Nat
        /\ \A i \in DOMAIN toHost' :
                 i + d \in DOMAIN toHost /\ \A f : Carried(i, f)' => Carried(i + d, f)
        /\ \A i \in DOMAIN toHost : \A f : Carried(i, f) => i - d \in DOMAIN toHost' /\ Carried(i - d, f)'
  <2>1. CASE toHost' = toHost  BY <1>2, <2>1, WireStays
  <2>2. CASE toHost # << >> /\ Head(toHost).type # "frames" /\ toHost' = Tail(toHost)
    <3>1. \A f : ~Holds(Head(toHost), f)  BY <2>2 DEF Holds
    <3>2. QED  BY <1>2, <2>2, <3>1, WireTaken
  <2>3. QED  BY <2>1, <2>2
<1>4. \A f \in Frames : Awaited(f)' => Awaited(f)
  <2>1. \A f \in Range(chain') : applied[f] = 0 => f \in Range(chain) \/ Awaited(f)
      OBVIOUS
  <2>2. QED  BY <1>2, <1>3, <2>1, StillAwaited
<1>5. WrittenInOrder'  BY <1>1, <1>4 DEF WrittenInOrder
<1>6. ChainInOrder'
  <2>1. \A j \in DOMAIN chain : chain[j] \in Frames  BY <1>2
  <2>2. QED  BY <1>1, <1>4, <2>1 DEF ChainInOrder
<1>7. CompletionIsLast'
  <2>1. chain = << >> => \A f : f \notin Range(chain)
    <3>1. << >> \in Seq(Frames) /\ Range(<< >>) = {}  BY ShortSequences
    <3>2. QED  BY <3>1
  <2>2. QED  BY <1>1, <1>4, <2>1 DEF CompletionIsLast
<1>8. InFlightIsOnChain'  BY <1>1 DEF InFlightIsOnChain
<1>9. PICK X : X = {}  OBVIOUS
<1>10. /\ \A i \in DOMAIN toHost : \A f :
             Carried(i, f) => f \in X \/ (i - d \in DOMAIN toHost' /\ Carried(i - d, f)')
       /\ \A x \in X : x < Last /\ Awaited(x)' => x \in Range(chain')
       /\ \A f \in Range(chain) : Awaited(f)' => f \in Range(chain')
    BY <1>3, <1>9
<1>11. QED  BY <1>3, <1>4, <1>5, <1>6, <1>7, <1>8, <1>10, WireKeepsOrder

\* The watermark moves forward, and a completion moves on only once it is parked.
LEMMA RaisingForward ==
    ASSUME NEW from \in 0..Last, NEW ahead, RaiseWatermark(from, ahead)
    PROVE  /\ appliedSeq' \in 0..Last /\ from <= appliedSeq'
           /\ completion' = completion \/ (completion = "parked" /\ completion' = "finishing")
<1>1. PICK w \in from..Last :
          /\ appliedSeq' = w
          /\ completion' = IF completion = "parked" /\ ContiguousBelow(w)
                           THEN "finishing" ELSE completion
    BY DEF RaiseWatermark
<1>2. QED  BY <1>1, Constants

\* The host's steps that write nothing and admit nothing.
LEMMA HostStepsKeepOrder ==
    ASSUME IInv, StreamInOrder,
           HandleHeartbeat \/ HandleLeaseGap \/ HandleRegister \/ AckRegistration
             \/ DrainEnds \/ PersistWatermark \/ UNCHANGED vars
    PROVE  StreamInOrder'
<1>1. /\ appliedSeq \in 0..Last /\ toHost \in Seq(WorkerMsg)
      /\ completion \in {"none", "draining", "parked", "finishing"}
    BY DEF IInv, TypeOK
<1>2. CASE HandleHeartbeat
  <2>1. /\ toHost # << >> /\ Head(toHost).type # "frames" /\ toHost' = Tail(toHost)
        /\ UNCHANGED <<conn, held, delivered, chain, applied, inFlight, leased>>
        /\ appliedSeq' = appliedSeq /\ completion' = completion
    BY <1>2 DEF HandleHeartbeat, bufferVars, leaseVars, diskVars
  <2>2. QED  BY <1>1, <2>1, QuietKeepsOrder, Constants
<1>3. CASE HandleLeaseGap
  <2>1. /\ toHost # << >> /\ Head(toHost).type = "lease-gap" /\ toHost' = Tail(toHost)
        /\ UNCHANGED <<conn, held, delivered, chain, applied, inFlight, leased>>
    BY <1>3 DEF HandleLeaseGap, bufferVars, diskVars
  <2>2. Head(toHost).throughSeq \in Frames
      BY <1>1, <2>1, TakingTheHead, TakenApart
  <2>3. CASE UNCHANGED <<appliedSeq, appliedAhead, completion>>
      BY <1>1, <2>1, <2>3, QuietKeepsOrder, Constants
  <2>4. CASE \E ahead : /\ Head(toHost).throughSeq > appliedSeq
                        /\ RaiseWatermark(Head(toHost).throughSeq, ahead)
    <3>1. PICK through \in 0..Last : through = Head(toHost).throughSeq  BY <2>2, Constants
    <3>2. PICK ahead : RaiseWatermark(through, ahead)  BY <2>4, <3>1
    <3>3. /\ appliedSeq' \in 0..Last /\ through <= appliedSeq'
          /\ completion' = completion \/ (completion = "parked" /\ completion' = "finishing")
        BY <3>2, RaisingForward
    <3>4. appliedSeq <= appliedSeq'  BY <1>1, <2>4, <3>1, <3>3, Constants
    <3>5. QED  BY <2>1, <3>3, <3>4, QuietKeepsOrder
  <2>5. QED  BY <1>3, <2>3, <2>4 DEF HandleLeaseGap
<1>4. CASE HandleRegister
  <2>1. /\ toHost # << >> /\ Head(toHost).type # "frames" /\ toHost' = Tail(toHost)
        /\ UNCHANGED <<conn, held, delivered, chain, applied, inFlight, leased>>
        /\ appliedSeq' = appliedSeq /\ completion' = completion
    BY <1>4 DEF HandleRegister, bufferVars, diskVars
  <2>2. QED  BY <1>1, <2>1, QuietKeepsOrder, Constants
<1>5. CASE AckRegistration \/ PersistWatermark \/ UNCHANGED vars
  <2>1. /\ toHost' = toHost
        /\ UNCHANGED <<conn, held, delivered, chain, applied, inFlight, leased>>
        /\ appliedSeq' = appliedSeq /\ completion' = completion
    BY <1>5 DEF AckRegistration, PersistWatermark, vars, bufferVars, wireVars, leaseVars, diskVars
  <2>2. QED  BY <1>1, <2>1, QuietKeepsOrder, Constants
<1>6. CASE DrainEnds
  <2>1. /\ toHost' = toHost /\ completion = "draining" /\ chain = << >>
        /\ UNCHANGED <<conn, held, delivered, chain, applied, inFlight, leased>>
        /\ appliedSeq' = appliedSeq
    BY <1>6 DEF DrainEnds, bufferVars, wireVars, diskVars
  <2>2. QED  BY <1>1, <2>1, QuietKeepsOrder, Constants
<1>7. QED  BY <1>2, <1>3, <1>4, <1>5, <1>6


\* The host takes the next frame of a batch: it is below all others of the batch, and those
\* awaited below it are on the chain already.
LEMMA HandleFrameKeepsOrder ==
    ASSUME IInv, StreamInOrder, held \cap dropped = {}, HandleFrame
    PROVE  StreamInOrder'
<1>1. /\ WrittenInOrder /\ ChainInOrder /\ WireInOrder /\ CompletionIsLast /\ InFlightIsOnChain
    BY DEF StreamInOrder
<1>2. /\ toHost \in Seq(WorkerMsg) /\ chain \in Seq(Frames) /\ inFlight \in SUBSET Frames
      /\ appliedSeq \in 0..Last /\ appliedSeq' = appliedSeq /\ applied' = applied
      /\ applied \in [Frames -> Nat] /\ leased' = leased
      /\ toHost # << >> /\ Head(toHost).type = "frames"
      /\ conn' = conn /\ held' = held /\ delivered' = delivered
    BY DEF IInv, TypeOK, HandleFrame, bufferVars, diskVars
<1>3. PICK s \in Head(toHost).seqs :
          /\ \A t \in Head(toHost).seqs : s <= t
          /\ toHost' = IF Head(toHost).seqs = {s} THEN Tail(toHost)
                       ELSE <<FramesMsg(Head(toHost).seqs \ {s})>> \o Tail(toHost)
          /\ \/ /\ leased /\ Admits(s) /\ s # Last
                /\ inFlight' = inFlight \cup {s}
                /\ chain' = Append(chain, s)
                /\ UNCHANGED completion
             \/ /\ leased /\ Admits(s) /\ s = Last
                /\ inFlight' = inFlight \cup {s}
                /\ completion' = IF completion = "none" THEN "draining" ELSE completion
                /\ UNCHANGED chain
             \/ /\ ~(leased /\ Admits(s))
                /\ UNCHANGED <<inFlight, chain, completion>>
    BY DEF HandleFrame
<1>4. /\ 1 \in DOMAIN toHost /\ toHost[1] = Head(toHost)
      /\ Head(toHost) \in WorkerMsg
  <2>1. DOMAIN toHost = 1..Len(toHost) /\ Len(toHost) \in Nat /\ Len(toHost) > 0  BY <1>2
  <2>2. QED  BY <1>2, <2>1, TakingTheHead
<1>5. Head(toHost).seqs \in SUBSET Frames /\ s \in Frames
    BY <1>2, <1>3, <1>4, TakenApart
<1>6. \A f : Carried(1, f) <=> f \in Head(toHost).seqs
    BY <1>2, <1>4 DEF Carried
<1>7. \A t \in Frames : t < s /\ Awaited(t) => t \in Range(chain)
  <2> SUFFICES ASSUME NEW t \in Frames, t < s, Awaited(t), t \notin Range(chain)  PROVE FALSE
      OBVIOUS
  <2>1. Carried(1, s)  BY <1>3, <1>6
  <2>2. PICK i \in DOMAIN toHost : i <= 1 /\ Carried(i, t)
      BY <1>1, <1>4, <1>5, <2>1 DEF WireInOrder
  <2>3. i = 1
    <3>1. DOMAIN toHost = 1..Len(toHost) /\ Len(toHost) \in Nat  BY <1>2
    <3>2. QED  BY <2>2, <3>1
  <2>4. t \in Head(toHost).seqs  BY <1>6, <2>2, <2>3
  <2>5. s <= t  BY <1>3, <2>4
  <2>6. QED  BY <1>5, <2>5, Constants
<1>8. PICK d \in Nat :
        /\ DOMAIN toHost' \subseteq Nat
        /\ \A i \in DOMAIN toHost' :
                 i + d \in DOMAIN toHost /\ \A f : Carried(i, f)' => Carried(i + d, f)
        /\ \A i \in DOMAIN toHost : \A f :
             Carried(i, f) => f \in {s} \/ (i - d \in DOMAIN toHost' /\ Carried(i - d, f)')
  <2>1. CASE Head(toHost).seqs = {s}
    <3>1. toHost' = Tail(toHost)  BY <1>3, <2>1
    <3>2. \A f : Holds(Head(toHost), f) => f \in {s}  BY <2>1 DEF Holds
    <3>3. QED  BY <1>2, <3>1, <3>2, WireTaken
  <2>2. CASE Head(toHost).seqs # {s}
    <3>1. PICK F \in SUBSET Frames : F = Head(toHost).seqs \ {s}  BY <1>5
    <3>2. toHost' = <<FramesMsg(F)>> \o Tail(toHost)  BY <1>3, <2>2, <3>1
    <3>3. \A f : Holds(Head(toHost), f) <=> f \in F \/ f = s
        BY <1>2, <1>3, <3>1 DEF Holds
    <3>4. QED  BY <1>2, <3>2, <3>3, WireTakenApart
  <2>3. QED  BY <2>1, <2>2
<1>9. leased /\ Admits(s) /\ applied[s] = 0 => Awaited(s)
  <2>1. Carried(1, s)  BY <1>3, <1>6
  <2>2. QED  BY <1>4, <2>1 DEF Awaited, Admits
<1>10. \A f \in Range(chain) : f \in Range(chain')
  <2>1. CASE chain' = chain  BY <2>1
  <2>2. CASE chain' = Append(chain, s)
    <3>1. Range(Append(chain, s)) = Range(chain) \cup {s}  BY <1>2, <1>5, Appending
    <3>2. QED  BY <2>2, <3>1
  <2>3. QED  BY <1>3, <2>1, <2>2
<1>11. \A f \in Frames : Awaited(f)' => Awaited(f)
  <2>1. \A f \in Range(chain') : applied[f] = 0 => f \in Range(chain) \/ Awaited(f)
    <3>1. CASE chain' = chain  BY <3>1
    <3>2. CASE chain' = Append(chain, s) /\ leased /\ Admits(s)
      <4>1. Range(Append(chain, s)) = Range(chain) \cup {s}  BY <1>2, <1>5, Appending
      <4>2. QED  BY <1>9, <3>2, <4>1
    <3>3. QED  BY <1>3, <3>1, <3>2
  <2>2. appliedSeq \in Nat /\ appliedSeq' \in Nat /\ appliedSeq <= appliedSeq'  BY <1>2, Constants
  <2>3. \A f \in Frames : applied'[f] = 0 => applied[f] = 0  BY <1>2
  <2>4. QED  BY <1>2, <1>8, <2>1, <2>2, <2>3, StillAwaited
<1>12. \A x \in {s} : x < Last /\ Awaited(x)' => x \in Range(chain')
  <2> SUFFICES ASSUME s < Last, Awaited(s)', s \notin Range(chain')  PROVE FALSE
      OBVIOUS
  <2>1. Awaited(s) /\ applied[s] = 0 /\ s \notin Range(chain)  BY <1>5, <1>10, <1>11 DEF Awaited
  <2>2. ~(leased /\ Admits(s))
    <3>1. CASE leased /\ Admits(s)
      <4>1. s # Last  BY <1>5, Constants
      <4>2. chain' = Append(chain, s)  BY <1>3, <3>1, <4>1
      <4>3. Range(Append(chain, s)) = Range(chain) \cup {s}  BY <1>2, <1>5, Appending
      <4>4. QED  BY <4>2, <4>3
    <3>2. QED  BY <3>1
  <2>3. ~(s \in inFlight /\ leased)
      BY <1>1, <1>5, <2>1, Constants DEF InFlightIsOnChain
  <2>4. s \notin appliedAhead  BY <1>2, <1>5, <2>1 DEF IInv, AheadIsApplied
  <2>5. s <= appliedSeq \/ ~leased  BY <1>2, <1>5, <2>2, <2>3, <2>4, Constants DEF Admits
  <2>6. ~(applied[s] > 0)  BY <1>2, <1>5, <2>1
  <2>7. s \in held  BY <1>2, <1>5, <2>1, <2>5, Constants DEF Awaited
  <2>8. ~Accounted(s)  BY <2>6, <2>7 DEF Accounted
  <2>9. s <= appliedSeq => Accounted(s)  BY <1>5 DEF IInv, WatermarkHonest
  <2>10. ~leased => Accounted(s)
    <3>1. s \in 1..(Last - 1)  BY <1>5, Constants
    <3>2. QED  BY <3>1 DEF IInv, ReleaseIsEarned, CompletionIsWhole
  <2>11. QED  BY <2>5, <2>8, <2>9, <2>10
<1>13. WrittenInOrder'  BY <1>1, <1>2, <1>11 DEF WrittenInOrder
<1>14. ChainInOrder'
  <2>0. \A j \in DOMAIN chain : chain[j] \in Frames  BY <1>2
  <2>1. CASE chain' = chain  BY <1>1, <1>11, <2>0, <2>1 DEF ChainInOrder
  <2>2. CASE chain' = Append(chain, s)
    <3>1. PICK c \in Seq(Frames) : c = chain  BY <1>2
    <3>2. PICK u : u = chain'  OBVIOUS
    <3>3. /\ Len(c) \in Nat /\ DOMAIN c = 1..Len(c) /\ DOMAIN u = 1..(Len(c) + 1)
          /\ \A i \in 1..Len(c) : u[i] = c[i]
          /\ u[Len(c) + 1] = s
        BY <1>5, <2>2, <3>1, <3>2
    <3>4. /\ DOMAIN u \subseteq Nat
          /\ \A i \in DOMAIN c : i \in DOMAIN u /\ u[i] = c[i] /\ i < Len(c) + 1
          /\ \A i \in DOMAIN u : i \in DOMAIN c \/ i = Len(c) + 1
        BY <3>3
    <3>5. ASSUME NEW j \in DOMAIN u, NEW t \in Frames, t < u[j], Awaited(t)'
          PROVE  \E i \in DOMAIN u : i < j /\ u[i] = t
      <4>1. Awaited(t)  BY <1>11, <3>5
      <4>2. CASE j \in DOMAIN c
        <5>1. PICK i \in DOMAIN c : i < j /\ c[i] = t
            BY <1>1, <3>1, <3>4, <3>5, <4>1, <4>2 DEF ChainInOrder
        <5>2. QED  BY <3>4, <5>1
      <4>3. CASE j = Len(c) + 1
        <5>1. t \in Range(chain)  BY <1>7, <3>3, <3>5, <4>1, <4>3
        <5>2. PICK i \in DOMAIN c : c[i] = t  BY <3>1, <5>1 DEF Range
        <5>3. QED  BY <3>4, <4>3, <5>2
      <4>4. QED  BY <3>4, <4>2, <4>3
    <3>6. QED  BY <3>2, <3>5 DEF ChainInOrder
  <2>3. QED  BY <1>3, <2>1, <2>2
<1>15. CompletionIsLast'
  <2>1. CASE completion' = completion  BY <1>1, <1>10, <1>11, <2>1 DEF CompletionIsLast
  <2>2. CASE completion = "none" /\ completion' = "draining" /\ s = Last
      BY <1>7, <1>10, <1>11, <2>2 DEF CompletionIsLast
  <2>3. QED  BY <1>3, <2>1, <2>2
<1>16. InFlightIsOnChain'
  <2>1. CASE inFlight' = inFlight
      BY <1>1, <1>2, <1>10, <2>1 DEF InFlightIsOnChain
  <2>2. CASE inFlight' = inFlight \cup {s} /\ s = Last
      BY <1>1, <1>2, <1>10, <2>2 DEF InFlightIsOnChain
  <2>3. CASE inFlight' = inFlight \cup {s} /\ chain' = Append(chain, s)
    <3>1. Range(Append(chain, s)) = Range(chain) \cup {s}  BY <1>2, <1>5, Appending
    <3>2. QED  BY <1>1, <1>2, <2>3, <3>1 DEF InFlightIsOnChain
  <2>4. QED  BY <1>3, <2>1, <2>2, <2>3
<1>17. \A f \in Frames : applied'[f] = 0 => applied[f] = 0  BY <1>2
<1>18. \A f \in Range(chain) : Awaited(f)' => f \in Range(chain')  BY <1>10
<1>19. PICK X : X = {s}  OBVIOUS
<1>20. /\ \A i \in DOMAIN toHost : \A f :
              Carried(i, f) => f \in X \/ (i - d \in DOMAIN toHost' /\ Carried(i - d, f)')
       /\ \A x \in X : x < Last /\ Awaited(x)' => x \in Range(chain')
    BY <1>8, <1>12, <1>19
<1>21. QED
    BY <1>2, <1>8, <1>11, <1>13, <1>14, <1>15, <1>16, <1>17, <1>18, <1>20, WireKeepsOrder


\* The head of the chain is written: nothing awaited is below it.
LEMMA WriteLandsKeepsOrder ==
    ASSUME IInv, StreamInOrder, WriteLands
    PROVE  StreamInOrder'
<1>1. /\ WrittenInOrder /\ ChainInOrder /\ CompletionIsLast /\ InFlightIsOnChain
    BY DEF StreamInOrder
<1>2. /\ toHost \in Seq(WorkerMsg) /\ chain \in Seq(Frames) /\ chain # << >>
      /\ appliedSeq \in 0..Last /\ applied \in [Frames -> Nat]
      /\ completion \in {"none", "draining", "parked", "finishing"}
      /\ toHost' = toHost /\ conn' = conn /\ held' = held /\ delivered' = delivered
      /\ leased' = leased /\ chain' = Tail(chain)
      /\ inFlight' = inFlight \ {Head(chain)}
      /\ applied' = [applied EXCEPT ![Head(chain)] = @ + 1]
    BY DEF IInv, TypeOK, WriteLands, bufferVars, wireVars
<1>3. PICK h \in Frames : h = Head(chain)
    BY <1>2, TakingTheHead
<1>4. /\ appliedSeq' \in 0..Last /\ appliedSeq <= appliedSeq'
      /\ completion' = completion \/ (completion = "parked" /\ completion' = "finishing")
  <2>1. CASE UNCHANGED <<appliedSeq, appliedAhead, completion>>
      BY <1>2, <2>1, Constants
  <2>2. CASE RaiseWatermark(appliedSeq, appliedAhead \cup {Head(chain)})
      BY <1>2, <2>2, RaisingForward
  <2>3. QED  BY <2>1, <2>2 DEF WriteLands
<1>5. /\ \A f \in Frames : applied'[f] = 0 => applied[f] = 0 /\ f # h
      /\ \A f \in Frames : f # h => applied'[f] = applied[f]
    BY <1>2, <1>3
<1>6. PICK c \in Seq(Frames) : c = chain  BY <1>2
<1>7. PICK u : u = chain'  OBVIOUS
<1>8. /\ DOMAIN c \subseteq Nat /\ 1 \in DOMAIN c /\ c[1] = h
      /\ \A i \in DOMAIN u : i + 1 \in DOMAIN c /\ u[i] = c[i + 1]
      /\ \A i \in DOMAIN c : i = 1 \/ (i - 1 \in DOMAIN u /\ u[i - 1] = c[i])
      /\ \A i \in DOMAIN c : i >= 1 /\ c[i] \in Frames
  <2>1. u = Tail(c) /\ c # << >> /\ h = Head(c)  BY <1>2, <1>3, <1>6, <1>7
  <2>2. /\ DOMAIN c = 1..Len(c) /\ Len(c) \in Nat /\ Len(c) > 0 /\ Head(c) = c[1]
        /\ DOMAIN u = 1..(Len(c) - 1) /\ \A i \in 1..(Len(c) - 1) : u[i] = c[i + 1]
      BY <2>1
  <2>3. QED  BY <2>1, <2>2
<1>9. \A f \in Range(chain) : f # h => f \in Range(chain')
    BY <1>6, <1>7, <1>8 DEF Range
<1>10. \A f \in Range(chain') : f \in Range(chain)
    BY <1>6, <1>7, <1>8 DEF Range
<1>11. /\ DOMAIN toHost' \subseteq Nat
       /\ \A i \in DOMAIN toHost' :
                i + 0 \in DOMAIN toHost /\ \A f : Carried(i, f)' => Carried(i + 0, f)
       /\ \A i \in DOMAIN toHost : \A f : Carried(i, f) => i - 0 \in DOMAIN toHost' /\ Carried(i - 0, f)'
    BY <1>2, WireStays
<1>12. \A f \in Frames : Awaited(f)' => Awaited(f) /\ f # h
  <2>1. \A f \in Range(chain') : applied[f] = 0 => f \in Range(chain) \/ Awaited(f)  BY <1>10
  <2>2. appliedSeq \in Nat /\ appliedSeq' \in Nat  BY <1>2, <1>4, Constants
  <2>3. \A f \in Frames : applied'[f] = 0 => applied[f] = 0  BY <1>5
  <2>4. \A f \in Frames : Awaited(f)' => Awaited(f)
      BY <1>2, <1>4, <1>11, <2>1, <2>2, <2>3, StillAwaited
  <2>5. QED  BY <1>5, <2>4 DEF Awaited
<1>13. WrittenInOrder'
  <2> SUFFICES ASSUME NEW s \in Frames, NEW t \in Frames, s < t, Awaited(s)'
               PROVE  applied'[t] = 0
      BY DEF WrittenInOrder
  <2>1. Awaited(s) /\ s # h  BY <1>12
  <2>2. t # h
    <3>1. SUFFICES ASSUME t = h  PROVE FALSE  OBVIOUS
    <3>2. PICK i \in DOMAIN c : i < 1  BY <1>1, <1>6, <1>8, <2>1, <3>1 DEF ChainInOrder
    <3>3. QED  BY <1>8, <3>2
  <2>3. QED  BY <1>1, <1>5, <2>1, <2>2 DEF WrittenInOrder
<1>14. ChainInOrder'
  <2> SUFFICES ASSUME NEW j \in DOMAIN u, NEW s \in Frames, s < u[j], Awaited(s)'
               PROVE  \E i \in DOMAIN u : i < j /\ u[i] = s
      BY <1>7 DEF ChainInOrder
  <2>1. Awaited(s) /\ s # h  BY <1>12
  <2>2. j + 1 \in DOMAIN c /\ u[j] = c[j + 1]  BY <1>8
  <2>3. PICK i \in DOMAIN c : i < j + 1 /\ c[i] = s
      BY <1>1, <1>6, <2>1, <2>2 DEF ChainInOrder
  <2>4. i - 1 \in DOMAIN u /\ u[i - 1] = s  BY <1>8, <2>1, <2>3
  <2>5. j \in Int
    <3>1. u = Tail(c) /\ c # << >>  BY <1>2, <1>6, <1>7
    <3>2. u \in Seq(Frames)  BY <3>1
    <3>3. QED  BY <3>2
  <2>6. i - 1 < j  BY <1>8, <2>3, <2>5
  <2>7. QED  BY <2>4, <2>6
<1>15. CompletionIsLast'
    BY <1>1, <1>4, <1>9, <1>12 DEF CompletionIsLast
<1>16. InFlightIsOnChain'
    BY <1>1, <1>2, <1>3, <1>9 DEF InFlightIsOnChain
<1>17. PICK X : X = {}  OBVIOUS
<1>18. /\ \A i \in DOMAIN toHost : \A f :
              Carried(i, f) => f \in X \/ (i - 0 \in DOMAIN toHost' /\ Carried(i - 0, f)')
       /\ \A x \in X : x < Last /\ Awaited(x)' => x \in Range(chain')
    BY <1>11, <1>17
<1>19. \A f \in Range(chain) : Awaited(f)' => f \in Range(chain')
  <2>1. \A f \in Range(chain) : f \in Frames  BY <1>6, <1>8 DEF Range
  <2>2. QED  BY <1>9, <1>12, <2>1
<1>20. \A f \in Frames : applied'[f] = 0 => applied[f] = 0  BY <1>5
<1>21. QED
    BY <1>2, <1>11, <1>12, <1>13, <1>14, <1>15, <1>16, <1>18, <1>19, <1>20, WireKeepsOrder

\* The completion is written last.
LEMMA CompletionLandsKeepsOrder ==
    ASSUME IInv, StreamInOrder, CompletionLands
    PROVE  StreamInOrder'
<1>1. /\ WrittenInOrder /\ ChainInOrder /\ CompletionIsLast
    BY DEF StreamInOrder
<1>2. /\ toHost \in Seq(WorkerMsg) /\ chain \in Seq(Frames) /\ appliedSeq \in 0..Last
      /\ applied \in [Frames -> Nat] /\ Last \in Frames
      /\ toHost' = toHost /\ conn' = conn /\ held' = held /\ delivered' = delivered
      /\ leased' = FALSE /\ chain' = chain /\ inFlight' = {} /\ completion' = "none"
      /\ completion = "finishing" /\ appliedSeq' = Last
      /\ applied' = [applied EXCEPT ![Last] = @ + 1]
    BY Constants DEF IInv, TypeOK, CompletionLands, bufferVars
<1>3. /\ \A f \in Frames : applied'[f] = 0 => applied[f] = 0
      /\ \A f \in Frames : f # Last => applied'[f] = applied[f]
    BY <1>2
<1>4. /\ DOMAIN toHost' \subseteq Nat
      /\ \A i \in DOMAIN toHost' : i + 0 \in DOMAIN toHost /\ \A f : Carried(i, f)' => Carried(i + 0, f)
      /\ \A i \in DOMAIN toHost : \A f : Carried(i, f) => i - 0 \in DOMAIN toHost' /\ Carried(i - 0, f)'
    BY <1>2, WireStays
<1>5. \A f \in Frames : Awaited(f)' => Awaited(f)
    BY <1>2, <1>3 DEF Awaited
<1>6. WrittenInOrder'
  <2> SUFFICES ASSUME NEW s \in Frames, NEW t \in Frames, s < t, Awaited(s)'
               PROVE  applied'[t] = 0
      BY DEF WrittenInOrder
  <2>1. Awaited(s) /\ s < Last  BY <1>5, Constants
  <2>2. FALSE  BY <1>1, <1>2, <2>1 DEF CompletionIsLast
  <2>3. QED  BY <2>2
<1>7. ChainInOrder'
  <2>1. \A j \in DOMAIN chain : chain[j] \in Frames  BY <1>2
  <2>2. QED  BY <1>1, <1>2, <1>5, <2>1 DEF ChainInOrder
<1>8. CompletionIsLast' /\ InFlightIsOnChain'
    BY <1>2 DEF CompletionIsLast, InFlightIsOnChain
<1>9. PICK X : X = {}  OBVIOUS
<1>10. /\ \A i \in DOMAIN toHost : \A f :
              Carried(i, f) => f \in X \/ (i - 0 \in DOMAIN toHost' /\ Carried(i - 0, f)')
       /\ \A x \in X : x < Last /\ Awaited(x)' => x \in Range(chain')
       /\ \A f \in Range(chain) : Awaited(f)' => f \in Range(chain')
    BY <1>2, <1>4, <1>9
<1>11. QED
    BY <1>2, <1>3, <1>4, <1>5, <1>6, <1>7, <1>8, <1>10, WireKeepsOrder

\* A socket that dies keeps a prefix of its wire, in which what comes first came first.
LEMMA DisconnectKeepsOrder ==
    ASSUME IInv, StreamInOrder, Disconnect
    PROVE  StreamInOrder'
<1>1. /\ WrittenInOrder /\ ChainInOrder /\ WireInOrder /\ CompletionIsLast /\ InFlightIsOnChain
    BY DEF StreamInOrder
<1>2. /\ toHost \in Seq(WorkerMsg) /\ chain \in Seq(Frames) /\ appliedSeq \in 0..Last
      /\ conn' = "down" /\ held' = held /\ leased' = leased /\ chain' = chain
      /\ inFlight' = inFlight /\ completion' = completion /\ appliedSeq' = appliedSeq
      /\ applied' = applied
    BY DEF IInv, TypeOK, Disconnect, diskVars
<1>3. PICK n \in 0..Len(toHost) : toHost' = SubSeq(toHost, 1, n)
    BY DEF Disconnect
<1>4. /\ DOMAIN toHost' \subseteq Nat /\ DOMAIN toHost \subseteq Nat
      /\ \A i \in DOMAIN toHost' : i \in DOMAIN toHost /\ \A f : Carried(i, f)' => Carried(i, f)
      /\ \A i \in DOMAIN toHost, j \in DOMAIN toHost' : i <= j => i \in DOMAIN toHost'
      /\ \A i \in DOMAIN toHost' : \A f : Carried(i, f) => Carried(i, f)'
  <2>1. PICK s \in Seq(WorkerMsg) : s = toHost  BY <1>2
  <2>2. PICK u : u = SubSeq(s, 1, n)  OBVIOUS
  <2>3. /\ DOMAIN s = 1..Len(s) /\ Len(s) \in Nat /\ n \in 0..Len(s) /\ DOMAIN u = 1..n
        /\ \A i \in 1..n : u[i] = s[i]
      BY <2>1, <2>2
  <2>4. /\ DOMAIN u \subseteq Nat /\ DOMAIN s \subseteq Nat
        /\ \A i \in DOMAIN u : i \in DOMAIN s /\ u[i] = s[i]
        /\ \A i \in DOMAIN s, j \in DOMAIN u : i <= j => i \in DOMAIN u
      BY <2>3
  <2>5. s = toHost /\ u = toHost'  BY <1>3, <2>1, <2>2
  <2>6. QED  BY <2>4, <2>5 DEF Carried
<1>5. \A f \in Frames : Awaited(f)' => Awaited(f)
    BY <1>2, <1>4 DEF Awaited
<1>6. WrittenInOrder'  BY <1>1, <1>2, <1>5 DEF WrittenInOrder
<1>7. ChainInOrder'
  <2>1. \A j \in DOMAIN chain : chain[j] \in Frames  BY <1>2
  <2>2. QED  BY <1>1, <1>2, <1>5, <2>1 DEF ChainInOrder
<1>8. WireInOrder'
  <2> SUFFICES ASSUME NEW j \in DOMAIN toHost', NEW s \in Frames, NEW t \in Frames,
                      Carried(j, t)', s < t, Awaited(s)', s \notin Range(chain')
               PROVE  \E i \in DOMAIN toHost' : i <= j /\ Carried(i, s)'
      BY DEF WireInOrder
  <2>1. j \in DOMAIN toHost /\ Carried(j, t) /\ Awaited(s) /\ s \notin Range(chain)
      BY <1>2, <1>4, <1>5
  <2>2. PICK i \in DOMAIN toHost : i <= j /\ Carried(i, s)
      BY <1>1, <2>1 DEF WireInOrder
  <2>3. QED  BY <1>4, <2>2
<1>9. DeliveredIsUnderWay' /\ InFlightIsOnChain'
    BY <1>1, <1>2 DEF DeliveredIsUnderWay, InFlightIsOnChain
<1>10. CompletionIsLast'
    BY <1>1, <1>2, <1>5 DEF CompletionIsLast
<1>11. QED  BY <1>6, <1>7, <1>8, <1>9, <1>10 DEF StreamInOrder

\* A host that boots again has nothing under way.
LEMMA HostRestartKeepsOrder ==
    ASSUME IInv, StreamInOrder, HostRestart
    PROVE  StreamInOrder'
<1>1. WrittenInOrder  BY DEF StreamInOrder
<1>2. /\ conn' = "down" /\ held' = held /\ inFlight' = {} /\ completion' = "none"
      /\ applied' = applied /\ toHost' = << >> /\ chain' = << >>
    BY DEF HostRestart
<1>3. DOMAIN toHost' = {} /\ DOMAIN chain' = {} /\ \A f : f \notin Range(chain')
  <2>1. PICK e : e = << >>  OBVIOUS
  <2>2. DOMAIN e = {}  BY <2>1
  <2>3. e = toHost' /\ e = chain'  BY <1>2, <2>1
  <2>4. QED  BY <2>2, <2>3 DEF Range
<1>4. \A f \in Frames : Awaited(f)' => Awaited(f)
    BY <1>2, <1>3 DEF Awaited
<1>5. WrittenInOrder'  BY <1>1, <1>2, <1>4 DEF WrittenInOrder
<1>6. ChainInOrder' /\ WireInOrder'  BY <1>3 DEF ChainInOrder, WireInOrder
<1>7. DeliveredIsUnderWay' /\ CompletionIsLast' /\ InFlightIsOnChain'
    BY <1>2 DEF DeliveredIsUnderWay, CompletionIsLast, InFlightIsOnChain
<1>8. QED  BY <1>5, <1>6, <1>7 DEF StreamInOrder

\* The stream begins empty.
LEMMA InitOrder == Init => OrderInv
<1> SUFFICES ASSUME Init  PROVE OrderInv
    OBVIOUS
<1>1. /\ held = {} /\ toHost = << >> /\ chain = << >> /\ inFlight = {} /\ completion = "none"
      /\ \A f \in Frames : applied[f] = 0
    BY DEF Init
<1>2. DOMAIN toHost = {} /\ DOMAIN chain = {}
  <2>1. PICK e : e = << >>  OBVIOUS
  <2>2. DOMAIN e = {} /\ e = toHost /\ e = chain  BY <1>1, <2>1
  <2>3. QED  BY <2>2
<1>3. WrittenInOrder  BY <1>1 DEF WrittenInOrder
<1>4. ChainInOrder /\ WireInOrder  BY <1>2 DEF ChainInOrder, WireInOrder
<1>5. DeliveredIsUnderWay /\ CompletionIsLast /\ InFlightIsOnChain
    BY <1>1 DEF DeliveredIsUnderWay, CompletionIsLast, InFlightIsOnChain
<1>6. QED  BY <1>1, <1>3, <1>4, <1>5 DEF OrderInv, StreamInOrder

\* What the cap gave up is not held again.
LEMMA GivenUpForGood ==
    ASSUME IInv, held \cap dropped = {}, [Next]_vars
    PROVE  (held \cap dropped = {})'
<1>1. CASE Report
  <2>1. PICK V : V = Victims(held \cup {seq'})  OBVIOUS
  <2>2. held' = (held \cup {seq'}) \ V /\ dropped' = dropped \cup V /\ seq' = seq + 1
      BY <1>1, <2>1 DEF Report
  <2>3. seq' \notin dropped
    <3>1. dropped \subseteq 1..seq /\ seq \in 0..Last  BY DEF IInv, NothingAhead, TypeOK
    <3>2. QED  BY <2>2, <3>1, Constants
  <2>4. QED  BY <2>2, <2>3
<1>2. CASE held' \subseteq held /\ dropped' = dropped
    BY <1>2
<1>3. CASE ReceiveLeaseAck
    BY <1>2, <1>3 DEF ReceiveLeaseAck
<1>4. CASE \/ Heartbeat \/ Connect \/ ReceiveRegistered \/ ReplayBackstop
           \/ ReceiveRelease \/ HostStep \/ Fault \/ UNCHANGED vars
  <2>1. held' \subseteq held /\ dropped' = dropped
    BY ZenonT(60), <1>4
    DEF Heartbeat, Connect, ReceiveRegistered, ReplayBackstop, ReceiveRelease, HostStep, HandleFrame,
        HandleHeartbeat, HandleLeaseGap, HandleRegister, AckRegistration, WriteLands,
        WriteFails, DrainEnds, CompletionLands, CompletionFails, PersistWatermark, Fault,
        Disconnect, HostRestart, vars, bufferVars
  <2>2. QED  BY <1>2, <2>1
<1>5. QED  BY <1>1, <1>3, <1>4 DEF Next, WorkerStep

\* Every step keeps the order; a write that fails ends it.
LEMMA NextKeepsOrder == IInv /\ OrderInv /\ [Next]_vars => OrderInv'
<1> SUFFICES ASSUME IInv, OrderInv, [Next]_vars  PROVE OrderInv'
    OBVIOUS
<1>1. (held \cap dropped = {})'  BY GivenUpForGood DEF OrderInv
<1>2. ASSUME failures' = 0  PROVE StreamInOrder'
  <2>1. failures \in Nat  BY DEF IInv, TypeOK
  <2>2. CASE WriteFails \/ CompletionFails
    <3>1. failures' = failures + 1  BY <2>2 DEF WriteFails, CompletionFails
    <3>2. QED  BY <1>2, <2>1, <3>1
  <2>3. CASE ~(WriteFails \/ CompletionFails)
    <3>1. failures' = failures
      BY ZenonT(60), <2>3
      DEF Next, WorkerStep, HostStep, Report, Heartbeat, Connect, ReceiveRegistered,
          ReplayBackstop, ReceiveLeaseAck, ReceiveRelease, HandleFrame, HandleHeartbeat,
          HandleLeaseGap, HandleRegister, AckRegistration, WriteLands, DrainEnds,
          CompletionLands, PersistWatermark, Fault, Disconnect, HostRestart, vars, boundVars
    <3>2. StreamInOrder /\ held \cap dropped = {}  BY <1>2, <3>1 DEF OrderInv
    <3>3. QED
      BY <2>3, <3>2, ReportKeepsOrder, WorkerStepsKeepOrder, HandleFrameKeepsOrder,
         HostStepsKeepOrder, WriteLandsKeepsOrder, CompletionLandsKeepsOrder,
         DisconnectKeepsOrder, HostRestartKeepsOrder
      DEF Next, WorkerStep, HostStep, Fault
  <2>4. QED  BY <2>2, <2>3
<1>3. QED  BY <1>1, <1>2 DEF OrderInv

\* "Appending here keeps a lease's writes in the order they were sent" (workers.ts
\* #applyRunFrame and #admitFrame): while no write has failed, no frame is written for the
\* first time after one that was numbered above it, whatever is dropped, replayed, lost with
\* a socket or a host, or stepped over.
THEOREM WritesComeInOrder == Spec => FirstWritesInOrder
<1> DEFINE InOrderNow ==
        failures = 0 =>
            \A s \in Frames : applied[s] = 0 /\ applied'[s] > 0
                => \A t \in Frames : t > s => applied[t] = 0
<1>1. IInv /\ OrderInv /\ [Next]_vars => [InOrderNow]_vars
  <2> SUFFICES ASSUME IInv, OrderInv, [Next]_vars, failures = 0,
                      NEW s \in Frames, applied[s] = 0, applied'[s] > 0,
                      NEW t \in Frames, t > s
               PROVE  applied[t] = 0
      OBVIOUS
  <2>1. WrittenInOrder /\ applied \in [Frames -> Nat] /\ chain \in Seq(Frames)
      BY DEF OrderInv, StreamInOrder, IInv, TypeOK
  <2>2. CASE WriteLands
    <3>1. /\ chain # << >> /\ applied' = [applied EXCEPT ![Head(chain)] = @ + 1]
        BY <2>2 DEF WriteLands
    <3>2. s = Head(chain)  BY <2>1, <3>1
    <3>3. Awaited(s)  BY <2>1, <3>1, <3>2, TakingTheHead DEF Awaited
    <3>4. s < t  BY Constants
    <3>5. QED  BY <2>1, <3>3, <3>4 DEF WrittenInOrder
  <2>3. CASE CompletionLands
    <3>1. applied' = [applied EXCEPT ![Last] = @ + 1]  BY <2>3 DEF CompletionLands
    <3>2. s = Last  BY <2>1, <3>1
    <3>3. QED  BY <3>2, Constants
  <2>4. CASE ~(WriteLands \/ CompletionLands)
    <3>1. applied' = applied
      BY ZenonT(60), <2>4
      DEF Next, WorkerStep, HostStep, Report, Heartbeat, Connect, ReceiveRegistered,
          ReplayBackstop, ReceiveLeaseAck, ReceiveRelease, HandleFrame, HandleHeartbeat,
          HandleLeaseGap, HandleRegister, AckRegistration, WriteFails, DrainEnds,
          CompletionFails, PersistWatermark, Fault, Disconnect, HostRestart, vars, diskVars
    <3>2. QED  BY <2>1, <3>1
  <2>5. QED  BY <2>2, <2>3, <2>4
<1>2. IInv /\ OrderInv /\ [Next]_vars => OrderInv'  BY NextKeepsOrder
<1>3. QED
    BY <1>1, <1>2, InitOrder, InductiveInvariant, PTL DEF Spec, FirstWritesInOrder

=============================================================================
