--------------------------- MODULE FleetGateProofs ---------------------------
(***************************************************************************)
(* That revoking and pairing are exact, for every number of machines,      *)
(* tokens, connections, heartbeats, revocations and faults.                *)
(*                                                                         *)
(* The argument runs through the gate and the write queue together: only   *)
(* the head of the gate is under way and it waits for the one write it     *)
(* asked for (OneAtATime), so that while nobody is being taken out every   *)
(* enrollment a machine could present is on record or was revoked          *)
(* (HoldersKnown). That a crash leaves it so is durability                 *)
(* (HoldersDurable): what was announced is on disk and in every write      *)
(* asked for since.                                                        *)
(***************************************************************************)
EXTENDS FleetGate, SequenceTheorems, TLAPS

-----------------------------------------------------------------------------
(* The two queues *)

\* A write asked for comes last, and moves no other.
LEMMA WriteAsked ==
    ASSUME writes \in Seq(Writes), NEW w \in Writes, writes' = Append(writes, w)
    PROVE  /\ writes' \in Seq(Writes) /\ Len(writes) \in Nat /\ Len(writes') = Len(writes) + 1
           /\ DOMAIN writes = 1..Len(writes) /\ DOMAIN writes' = 1..(Len(writes) + 1)
           /\ \A k \in DOMAIN writes : k \in DOMAIN writes' /\ writes'[k] = writes[k]
                                       /\ k \in Nat /\ k < Len(writes) + 1
           /\ writes'[Len(writes) + 1] = w /\ Len(writes) + 1 \in DOMAIN writes'
           /\ \A k \in DOMAIN writes' : k \in DOMAIN writes \/ k = Len(writes) + 1
<1>1. /\ writes' \in Seq(Writes) /\ Len(writes) \in Nat /\ Len(writes') = Len(writes) + 1
      /\ \A k \in 1..Len(writes) : writes'[k] = writes[k]
      /\ writes'[Len(writes) + 1] = w
    BY AppendProperties
<1>2. DOMAIN writes = 1..Len(writes) /\ DOMAIN writes' = 1..(Len(writes) + 1)
    BY <1>1
<1>3. QED  BY <1>1, <1>2

\* The write at the head done, every other is one place nearer to it.
LEMMA WriteDone ==
    ASSUME writes \in Seq(Writes), writes # <<>>, writes' = Tail(writes)
    PROVE  /\ writes' \in Seq(Writes) /\ Len(writes) \in Nat /\ Len(writes') = Len(writes) - 1
           /\ DOMAIN writes = 1..Len(writes) /\ DOMAIN writes' = 1..(Len(writes) - 1)
           /\ Head(writes) = writes[1] /\ 1 \in DOMAIN writes /\ Head(writes) \in Writes
           /\ \A k \in DOMAIN writes' : /\ k + 1 \in DOMAIN writes /\ writes'[k] = writes[k + 1]
                                        /\ k \in Nat /\ k >= 1 /\ k + 1 # 1
           /\ \A k \in DOMAIN writes : k # 1 => k - 1 \in DOMAIN writes' /\ writes'[k - 1] = writes[k]
<1>1. /\ writes' \in Seq(Writes) /\ Len(writes) \in Nat /\ Len(writes') = Len(writes) - 1
      /\ Head(writes) \in Writes /\ \A k \in 1..Len(writes') : writes'[k] = writes[k + 1]
    BY HeadTailProperties
<1>2. DOMAIN writes = 1..Len(writes) /\ DOMAIN writes' = 1..(Len(writes) - 1)
    BY <1>1
<1>3. Len(writes) > 0
    BY <1>1
<1>4. 1 \in DOMAIN writes
    BY <1>1, <1>2, <1>3
<1>5. Head(writes) = writes[1]
    OBVIOUS
<1>6. \A k \in DOMAIN writes' : /\ k + 1 \in DOMAIN writes /\ writes'[k] = writes[k + 1]
                                /\ k \in Nat /\ k >= 1 /\ k + 1 # 1
    BY <1>1, <1>2
<1>7. ASSUME NEW k \in DOMAIN writes, k # 1
      PROVE  k - 1 \in DOMAIN writes' /\ writes'[k - 1] = writes[k]
  <2>1. k - 1 \in DOMAIN writes' /\ (k - 1) + 1 = k
    BY <1>1, <1>2, <1>7
  <2>2. QED  BY <1>6, <2>1
<1>8. QED  BY <1>1, <1>2, <1>4, <1>5, <1>6, <1>7

\* A task that joins the gate comes last, and moves no other.
LEMMA TaskJoins ==
    ASSUME gate \in Seq(Tasks), NEW t \in Tasks, gate' = Append(gate, t)
    PROVE  /\ gate' \in Seq(Tasks) /\ Len(gate) \in Nat /\ Len(gate') = Len(gate) + 1
           /\ DOMAIN gate = 1..Len(gate) /\ DOMAIN gate' = 1..(Len(gate) + 1)
           /\ \A n \in DOMAIN gate : n \in DOMAIN gate' /\ gate'[n] = gate[n]
                                     /\ n \in Nat /\ n # Len(gate) + 1
           /\ gate'[Len(gate) + 1] = t /\ Len(gate) + 1 \in DOMAIN gate'
           /\ \A n \in DOMAIN gate' : n \in DOMAIN gate \/ n = Len(gate) + 1
<1>1. /\ gate' \in Seq(Tasks) /\ Len(gate) \in Nat /\ Len(gate') = Len(gate) + 1
      /\ \A n \in 1..Len(gate) : gate'[n] = gate[n]
      /\ gate'[Len(gate) + 1] = t
    BY AppendProperties
<1>2. DOMAIN gate = 1..Len(gate) /\ DOMAIN gate' = 1..(Len(gate) + 1)
    BY <1>1
<1>3. QED  BY <1>1, <1>2

\* The head of the gate done, every other task is one place nearer to it.
LEMMA TaskDone ==
    ASSUME gate \in Seq(Tasks), 1 \in DOMAIN gate, gate' = RemoveAt(gate, 1)
    PROVE  /\ gate' \in Seq(Tasks) /\ Len(gate) \in Nat /\ Len(gate') = Len(gate) - 1
           /\ DOMAIN gate = 1..Len(gate) /\ DOMAIN gate' = 1..(Len(gate) - 1)
           /\ \A n \in DOMAIN gate' : /\ n + 1 \in DOMAIN gate /\ gate'[n] = gate[n + 1]
                                      /\ n \in Nat /\ n >= 1 /\ n + 1 # 1
           /\ \A n \in DOMAIN gate : n # 1 => n - 1 \in DOMAIN gate' /\ gate'[n - 1] = gate[n]
<1> DEFINE a == SubSeq(gate, 1, 1 - 1)
           b == SubSeq(gate, 1 + 1, Len(gate))
<1>1. Len(gate) \in Nat /\ Len(gate) >= 1 /\ DOMAIN gate = 1..Len(gate)
    OBVIOUS
<1>2. a \in Seq(Tasks) /\ Len(a) = 0
    OBVIOUS
<1>3. b \in Seq(Tasks) /\ Len(b) = Len(gate) - 1 /\ \A n \in 1..(Len(gate) - 1) : b[n] = gate[n + 1]
  <2>1. PICK k \in 1..Len(gate) : k = 1
    BY <1>1
  <2> DEFINE c == SubSeq(gate, k + 1, Len(gate))
  <2>2. c \in Seq(Tasks) /\ Len(c) = Len(gate) - k /\ \A n \in 1..(Len(gate) - k) : c[n] = gate[k + n]
    OBVIOUS
  <2>3. c = b
    BY <2>1
  <2> HIDE DEF b, c
  <2>4. \A n \in 1..(Len(gate) - 1) : 1 + n = n + 1
    BY <1>1
  <2>5. QED  BY <2>1, <2>2, <2>3, <2>4
<1>4. gate' = a \o b
    BY DEF RemoveAt
<1> HIDE DEF a, b
<1>5. /\ a \o b \in Seq(Tasks) /\ Len(a \o b) = Len(a) + Len(b)
      /\ \A n \in 1..(Len(a) + Len(b)) : (a \o b)[n] = IF n <= Len(a) THEN a[n] ELSE b[n - Len(a)]
    BY <1>2, <1>3, ConcatProperties
<1>6. gate' \in Seq(Tasks) /\ Len(gate') = Len(gate) - 1
  <2>1. gate' \in Seq(Tasks) /\ Len(gate') = Len(a) + Len(b)
    BY <1>4, <1>5
  <2>2. Len(a) = 0 /\ Len(b) = Len(gate) - 1
    BY <1>2, <1>3
  <2>3. 0 + (Len(gate) - 1) = Len(gate) - 1
    BY <1>1
  <2>4. QED  BY <2>1, <2>2, <2>3
<1>7. \A n \in 1..(Len(gate) - 1) : gate'[n] = gate[n + 1]
  <2> SUFFICES ASSUME NEW n \in 1..(Len(gate) - 1) PROVE gate'[n] = gate[n + 1]
    OBVIOUS
  <2>1. n \in 1..(Len(a) + Len(b)) /\ ~(n <= Len(a)) /\ n - Len(a) = n
    BY <1>1, <1>2, <1>3
  <2>2. gate'[n] = b[n]
    BY <1>4, <1>5, <2>1
  <2>3. QED  BY <1>3, <2>2
<1>8. DOMAIN gate' = 1..(Len(gate) - 1)
    BY <1>6
<1>9. \A n \in DOMAIN gate' : /\ n + 1 \in DOMAIN gate /\ gate'[n] = gate[n + 1]
                              /\ n \in Nat /\ n >= 1 /\ n + 1 # 1
    BY <1>1, <1>7, <1>8
<1>10. ASSUME NEW n \in DOMAIN gate, n # 1
       PROVE  n - 1 \in DOMAIN gate' /\ gate'[n - 1] = gate[n]
  <2>1. n - 1 \in DOMAIN gate' /\ (n - 1) + 1 = n
    BY <1>1, <1>8, <1>10
  <2>2. QED  BY <1>9, <2>1
<1>11. QED  BY <1>1, <1>6, <1>8, <1>9, <1>10

-----------------------------------------------------------------------------
(* The wire *)

\* Both ends of every connection are who they were.
SameEnds(w, v) ==
    \A r \in Sockets : /\ v[r].of = w[r].of /\ v[r].auth = w[r].auth /\ v[r].mine = w[r].mine
                       /\ v[r].id = w[r].id
\* Nothing more is under way to a machine, but f on s.
HearsOnly(w, v, s, f) ==
    \A r \in Sockets : ToSet(v[r].says) \subseteq ToSet(w[r].says) \cup (IF r = s THEN {f} ELSE {})
HearsNoMore(w, v) == \A r \in Sockets : ToSet(v[r].says) \subseteq ToSet(w[r].says)
\* The host is no further with any connection, s aside.
SameHost(w, v, s) == \A r \in Sockets : r # s => v[r].host = w[r].host

\* A connection changed in one respect is one still.
LEMMA Changed ==
    ASSUME NEW c \in Conns
    PROVE  /\ \A h \in {"shut", "fresh", "queued", "in", "closing"}, i \in Nat :
                  [c EXCEPT !.host = h] \in Conns /\ [c EXCEPT !.id = i, !.host = h] \in Conns
           /\ \A q \in Seq(Frames) : [c EXCEPT !.open = FALSE, !.says = q] \in Conns
           /\ \A q \in Seq(Frames), b \in BOOLEAN :
                  (b => c.mine) => [c EXCEPT !.says = q, !.mine = b] \in Conns
<1> DEFINE R == [of : Machines \cup {"nobody"}, auth : Auths,
                 host : {"shut", "fresh", "queued", "in", "closing"}, id : Nat,
                 says : Seq(Frames), open : BOOLEAN, mine : BOOLEAN]
<1>1. c \in R /\ (c.mine => c.of \in Machines) /\ Conns = {d \in R : d.mine => d.of \in Machines}
    BY DEF Conns
<1>2. ASSUME NEW h \in {"shut", "fresh", "queued", "in", "closing"}, NEW i \in Nat
      PROVE  [c EXCEPT !.host = h] \in Conns /\ [c EXCEPT !.id = i, !.host = h] \in Conns
    BY <1>1
<1>3. ASSUME NEW q \in Seq(Frames) PROVE [c EXCEPT !.open = FALSE, !.says = q] \in Conns
    BY <1>1
<1>4. ASSUME NEW q \in Seq(Frames), NEW b \in BOOLEAN, b => c.mine
      PROVE  [c EXCEPT !.says = q, !.mine = b] \in Conns
    BY <1>1, <1>4
<1>5. QED  BY <1>2, <1>3, <1>4

\* A frame told to one end of a connection changes nothing but what it has to hear.
LEMMA Telling ==
    ASSUME NEW w \in [Sockets -> Conns], NEW s \in Sockets, NEW f \in Frames
    PROVE  /\ Told(w, s, f) \in [Sockets -> Conns]
           /\ SameEnds(w, Told(w, s, f)) /\ HearsOnly(w, Told(w, s, f), s, f)
           /\ \A r \in Sockets : Told(w, s, f)[r].host = w[r].host
<1>1. w[s].says \in Seq(Frames)
    BY DEF Conns
<1>2. /\ Append(w[s].says, f) \in Seq(Frames)
      /\ ToSet(Append(w[s].says, f)) \subseteq ToSet(w[s].says) \cup {f}
  <2>1. /\ Append(w[s].says, f) \in Seq(Frames) /\ Len(w[s].says) \in Nat
        /\ Len(Append(w[s].says, f)) = Len(w[s].says) + 1
        /\ \A n \in 1..Len(w[s].says) : Append(w[s].says, f)[n] = w[s].says[n]
        /\ Append(w[s].says, f)[Len(w[s].says) + 1] = f
    BY <1>1, AppendProperties
  <2>2. \A n \in 1..(Len(w[s].says) + 1) : n \in 1..Len(w[s].says) \/ n = Len(w[s].says) + 1
    BY <2>1
  <2>3. DOMAIN w[s].says = 1..Len(w[s].says)
        /\ DOMAIN Append(w[s].says, f) = 1..(Len(w[s].says) + 1)
    BY <1>1, <2>1
  <2>4. QED  BY <2>1, <2>2, <2>3 DEF ToSet
<1> DEFINE says == Append(w[s].says, f)
           v == [w EXCEPT ![s].says = says]
<1>3. says \in Seq(Frames) /\ ToSet(says) \subseteq ToSet(w[s].says) \cup {f}
    BY <1>2
<1>4. Told(w, s, f) = IF w[s].open THEN v ELSE w
    BY DEF Told
<1> HIDE DEF says
<1>5. v \in [Sockets -> Conns]
    BY <1>3 DEF Conns
<1>6. \A r \in Sockets : /\ v[r].of = w[r].of /\ v[r].auth = w[r].auth /\ v[r].mine = w[r].mine
                         /\ v[r].id = w[r].id /\ v[r].host = w[r].host /\ v[r].says = IF r = s THEN says ELSE w[r].says
    BY DEF Conns
<1> HIDE DEF v
<1>7. CASE ~w[s].open
    BY <1>4, <1>7 DEF SameEnds, HearsOnly
<1>8. CASE w[s].open
    BY <1>3, <1>4, <1>5, <1>6, <1>8 DEF SameEnds, HearsOnly
<1>9. QED  BY <1>7, <1>8

\* close() lets what was said be heard; the host is done with the connection.
LEMMA Closing ==
    ASSUME NEW w \in [Sockets -> Conns], NEW s \in Sockets
    PROVE  /\ Shutting(w, s) \in [Sockets -> Conns]
           /\ SameEnds(w, Shutting(w, s)) /\ HearsNoMore(w, Shutting(w, s))
           /\ SameHost(w, Shutting(w, s), s)
BY DEF Shutting, Conns, SameEnds, HearsNoMore, SameHost

\* terminate() loses what was under way.
LEMMA Cutting ==
    ASSUME NEW w \in [Sockets -> Conns], NEW s \in Sockets
    PROVE  /\ CutOff(w, s) \in [Sockets -> Conns]
           /\ SameEnds(w, CutOff(w, s)) /\ HearsNoMore(w, CutOff(w, s))
           /\ \A r \in Sockets : CutOff(w, s)[r].host = w[r].host
<1> DEFINE v == CutOff(w, s)
<1>1. v \in [Sockets -> Conns]
  <2>1. <<>> \in Seq(Frames)
    OBVIOUS
  <2>2. [w[s] EXCEPT !.open = FALSE, !.says = <<>>] \in Conns
    BY <2>1, Changed
  <2>3. v = [w EXCEPT ![s] = [w[s] EXCEPT !.open = FALSE, !.says = <<>>]]
    BY DEF CutOff
  <2>4. QED  BY <2>2, <2>3
<1>2. \A r \in Sockets : /\ v[r].of = w[r].of /\ v[r].auth = w[r].auth /\ v[r].mine = w[r].mine
                         /\ v[r].id = w[r].id /\ v[r].host = w[r].host /\ v[r].says = IF r = s THEN <<>> ELSE w[r].says
    BY DEF CutOff, Conns
<1> HIDE DEF v
<1>3. ToSet(<<>>) = {}
    BY DEF ToSet
<1>4. \A r \in Sockets : ToSet(v[r].says) \subseteq ToSet(w[r].says)
    BY <1>2, <1>3
<1>5. SameEnds(w, v) /\ HearsNoMore(w, v) /\ \A r \in Sockets : v[r].host = w[r].host
    BY <1>2, <1>4 DEF SameEnds, HearsNoMore
<1>6. QED  BY <1>1, <1>5 DEF v

-----------------------------------------------------------------------------
(* Who is at the gate *)

\* What the assumptions and the shapes say, one by one.
LEMMA ShapesAre ==
    /\ None = 0 /\ Tokens \subseteq Nat /\ Sockets \subseteq Nat
    /\ None \notin Tokens /\ None \notin Sockets
    /\ \A c \in Conns : /\ c.auth \in Auths /\ c.says \in Seq(Frames) /\ c.id \in Nat
                        /\ c.auth.kind = "pairing" => c.auth.of \in Tokens
                        /\ c.auth.kind # "pairing" => c.auth.of \in Nat
                        /\ c.auth.kind = "credential" => c.auth = Credential(c.auth.of)
    /\ \A t \in Tasks : t.task.socket \in Nat /\ t.task.id \in Nat
                        /\ t.task.what \in {"register", "revoke"} /\ t.begun \in BOOLEAN
    /\ \A w \in Writes : w.id \in Nat /\ w.ids \in SUBSET Nat
                         /\ w.op \in {"redeem", "touch", "revoke", "beat"}
BY GateAssumption DEF None, Conns, Tasks, Writes, Auths, Credential

\* The task that starts is the head's, and nothing waits for a write meanwhile.
LEMMA AtTheGate ==
    ASSUME RecordsInv, NEW n \in DOMAIN gate, Starting(n)
    PROVE  /\ n = 1 /\ 1 \in DOMAIN gate /\ ~gate[1].begun /\ gate[1] \in Tasks
           /\ \A k \in DOMAIN writes : ~Awaited(k)
           /\ gate[1].task.what = "register" =>
                  /\ gate[1].task.socket \in Sockets
                  /\ wire[gate[1].task.socket].host = "queued"
                  /\ wire[gate[1].task.socket] \in Conns
<1>1. n = 1 /\ 1 \in DOMAIN gate /\ ~gate[1].begun
    BY DEF Starting, MayRun
<1>2. gate[1] \in Tasks
    BY <1>1 DEF RecordsInv, Shapes
<1>3. \A k \in DOMAIN writes : ~Awaited(k)
    BY <1>1 DEF RecordsInv, OneAtATime
<1>4. gate[1].task.what = "register" =>
          /\ gate[1].task.socket \in Sockets
          /\ wire[gate[1].task.socket].host = "queued"
          /\ wire[gate[1].task.socket] \in Conns
    BY <1>1 DEF RecordsInv, Line, Shapes
<1>5. QED  BY <1>1, <1>2, <1>3, <1>4

\* Whoever waits for the write at the head is the head of the gate, and nobody
\* waits for another.
LEMMA AtTheHead ==
    ASSUME RecordsInv, writes # <<>>
    PROVE  /\ 1 \in DOMAIN writes /\ Head(writes) = writes[1] /\ writes[1] \in Writes
           /\ Waited = Awaited(1) /\ writes[1].id \in Minted
           /\ Waited => /\ 1 \in DOMAIN gate /\ gate[1] \in Tasks /\ gate[1].begun
                        /\ gate[1].task.id = writes[1].id
                        /\ (writes[1].op = "revoke") = (gate[1].task.what = "revoke")
                        /\ \A k \in DOMAIN writes : k # 1 => ~Awaited(k)
                        /\ gate[1].task.what = "register" =>
                               /\ gate[1].task.socket \in Sockets
                               /\ wire[gate[1].task.socket].host = "queued"
                               /\ wire[gate[1].task.socket] \in Conns
           /\ \A n \in Waiting(Head(writes).op, Head(writes).id) : n = 1
<1>1. 1 \in DOMAIN writes /\ Head(writes) = writes[1] /\ writes[1] \in Writes
  <2>1. writes \in Seq(Writes)
    BY DEF RecordsInv, Shapes
  <2>2. QED  BY <2>1
<1>2. Waited = Awaited(1) /\ writes[1].id \in Minted
    BY <1>1 DEF Waited, Awaited, RecordsInv, Spent
<1>3. ASSUME Waited
      PROVE  /\ 1 \in DOMAIN gate /\ gate[1] \in Tasks /\ gate[1].begun
             /\ gate[1].task.id = writes[1].id
             /\ (writes[1].op = "revoke") = (gate[1].task.what = "revoke")
             /\ \A k \in DOMAIN writes : k # 1 => ~Awaited(k)
             /\ gate[1].task.what = "register" =>
                    /\ gate[1].task.socket \in Sockets
                    /\ wire[gate[1].task.socket].host = "queued"
                    /\ wire[gate[1].task.socket] \in Conns
  <2>1. /\ 1 \in DOMAIN gate /\ gate[1].begun /\ gate[1].task.id = writes[1].id
        /\ (writes[1].op = "revoke") = (gate[1].task.what = "revoke")
        /\ \A k \in DOMAIN writes : k # 1 => ~Awaited(k)
    BY <1>1, <1>2, <1>3 DEF RecordsInv, OneAtATime
  <2>2. gate[1] \in Tasks
    BY <2>1 DEF RecordsInv, Shapes
  <2>3. gate[1].task.what = "register" =>
            /\ gate[1].task.socket \in Sockets
            /\ wire[gate[1].task.socket].host = "queued"
            /\ wire[gate[1].task.socket] \in Conns
    BY <2>1 DEF RecordsInv, Line, Shapes
  <2>4. QED  BY <2>1, <2>2, <2>3
<1>4. \A n \in Waiting(Head(writes).op, Head(writes).id) : n = 1
    BY DEF Waiting, RecordsInv, OneAtATime
<1>5. QED  BY <1>1, <1>2, <1>3, <1>4

-----------------------------------------------------------------------------
(* Shapes *)

\* A free slot is a connection.
LEMMA FreeIs == Free \in Conns
<1>1. NoAuth \in Auths
    BY DEF NoAuth, Auths, None
<1>2. <<>> \in Seq(Frames) /\ 0 \in Nat
    OBVIOUS
<1>3. QED  BY <1>1, <1>2 DEF Free, Conns, None

\* A host just started, with nobody enrolled and no machine running.
LEMMA InitRecords == GateInit => RecordsInv
<1> SUFFICES ASSUME GateInit PROVE RecordsInv  OBVIOUS
<1>1. /\ DOMAIN writes = {} /\ DOMAIN gate = {} /\ Minted = {} /\ DOMAIN bought = {}
      /\ mem = {} /\ disk = {} /\ revoked = {}
  <2>1. Len(<<>>) = 0 /\ DOMAIN <<>> = {} /\ 1..0 = {}
    OBVIOUS
  <2>2. QED  BY <2>1 DEF GateInit, Minted
<1>2. Free \in Conns  BY FreeIs
<1>3. Shapes
  <2>1. bought \in Seq(Tokens) /\ writes \in Seq(Writes) /\ gate \in Seq(Tasks)
    BY DEF GateInit
  <2>2. QED  BY <1>2, <2>1 DEF GateInit, Shapes, Procs, None
<1>4. OneAtATime /\ Line /\ InTouch /\ UnderWay /\ Out
    BY <1>1 DEF GateInit, OneAtATime, Line, InTouch, UnderWay, Out
<1>5. Spent
    BY <1>1 DEF GateInit, Spent, IsInjective, Free
<1>6. QED  BY <1>3, <1>4, <1>5 DEF RecordsInv

\* What is told to a worker that is turned away, revoked or let in is a frame.
LEMMA FramesAre ==
    /\ \A code \in {"unauthorized", "invalid-token", "expired-token", "malformed"} :
           Denied(code) \in Frames
    /\ RevokedFrame \in Frames
    /\ \A i \in Nat, b \in BOOLEAN : Registered(i, b) \in Frames
BY DEF Denied, RevokedFrame, Registered, Frames, FrameKinds, None

\* A refusal closes the connection after the word.
LEMMA Refusing ==
    ASSUME wire \in [Sockets -> Conns], NEW s \in Sockets,
           NEW code \in {"unauthorized", "invalid-token", "expired-token", "malformed"}
    PROVE  /\ Refused(s, code) \in [Sockets -> Conns]
           /\ SameEnds(wire, Refused(s, code)) /\ HearsOnly(wire, Refused(s, code), s, Denied(code))
           /\ SameHost(wire, Refused(s, code), s)
<1> DEFINE w == Told(wire, s, Denied(code))
           v == Shutting(w, s)
<1>1. /\ w \in [Sockets -> Conns] /\ SameEnds(wire, w) /\ HearsOnly(wire, w, s, Denied(code))
      /\ \A r \in Sockets : w[r].host = wire[r].host
  <2>1. Denied(code) \in Frames
    BY FramesAre
  <2>2. QED  BY <2>1, Telling
<1> HIDE DEF w
<1>2. v \in [Sockets -> Conns] /\ SameEnds(w, v) /\ HearsNoMore(w, v) /\ SameHost(w, v, s)
    BY <1>1, Closing
<1> HIDE DEF v
<1>3. v \in [Sockets -> Conns] /\ SameEnds(wire, v) /\ HearsOnly(wire, v, s, Denied(code))
      /\ SameHost(wire, v, s)
    BY <1>1, <1>2 DEF SameEnds, HearsOnly, HearsNoMore, SameHost
<1>4. Refused(s, code) = v
    BY DEF Refused, v, w
<1>5. QED  BY <1>3, <1>4

\* A write asked for is one.
LEMMA AskingIs ==
    ASSUME NEW ids \in SUBSET Nat, NEW op \in {"redeem", "touch", "revoke", "beat"}, NEW i \in Nat,
           writes \in Seq(Writes)
    PROVE  /\ [ids |-> ids, op |-> op, id |-> i] \in Writes
           /\ Persisted(ids, op, i) = Append(writes, [ids |-> ids, op |-> op, id |-> i])
           /\ Persisted(ids, op, i) \in Seq(Writes)
<1>1. [ids |-> ids, op |-> op, id |-> i] \in Writes
    BY DEF Writes
<1>2. QED  BY <1>1 DEF Persisted

\* The task under way is one still.
LEMMA BeginningIs ==
    ASSUME gate \in Seq(Tasks), 1 \in DOMAIN gate
    PROVE  /\ Begun(1) \in Seq(Tasks) /\ DOMAIN Begun(1) = DOMAIN gate
           /\ Begun(1)[1].begun /\ Begun(1)[1].task = gate[1].task
           /\ \A n \in DOMAIN gate : n # 1 => Begun(1)[n] = gate[n]
           /\ \A i \in Nat :
                  /\ [Begun(1) EXCEPT ![1].task.id = i] \in Seq(Tasks)
                  /\ DOMAIN [Begun(1) EXCEPT ![1].task.id = i] = DOMAIN gate
                  /\ [Begun(1) EXCEPT ![1].task.id = i][1].begun
                  /\ [Begun(1) EXCEPT ![1].task.id = i][1].task = [gate[1].task EXCEPT !.id = i]
                  /\ \A n \in DOMAIN gate : n # 1 => [Begun(1) EXCEPT ![1].task.id = i][n] = gate[n]
<1> DEFINE t == [gate[1] EXCEPT !.begun = TRUE]
           u(i) == [t EXCEPT !.task.id = i]
<1>1. gate[1] \in Tasks
    OBVIOUS
<1>2. t \in Tasks /\ t.begun /\ t.task = gate[1].task
    BY <1>1 DEF Tasks
<1>3. \A i \in Nat : u(i) \in Tasks /\ u(i).begun /\ u(i).task = [gate[1].task EXCEPT !.id = i]
    BY <1>1 DEF Tasks
<1>4. Begun(1) = [gate EXCEPT ![1] = t]
    BY DEF Begun
<1> HIDE DEF t
<1>5. /\ Begun(1) \in Seq(Tasks) /\ DOMAIN Begun(1) = DOMAIN gate /\ Begun(1)[1] = t
      /\ \A n \in DOMAIN gate : n # 1 => Begun(1)[n] = gate[n]
    BY <1>2, <1>4
<1>6. ASSUME NEW i \in Nat
      PROVE  [Begun(1) EXCEPT ![1].task.id = i] = [gate EXCEPT ![1] = u(i)]
    BY <1>4
<1> HIDE DEF u
<1>7. ASSUME NEW i \in Nat, NEW g, g = [gate EXCEPT ![1] = u(i)]
      PROVE  /\ g \in Seq(Tasks) /\ DOMAIN g = DOMAIN gate /\ g[1] = u(i)
             /\ \A n \in DOMAIN gate : n # 1 => g[n] = gate[n]
  <2>1. u(i) \in Tasks
    BY <1>3
  <2> DEFINE v == u(i)
  <2> HIDE DEF v
  <2>2. g = [gate EXCEPT ![1] = v] /\ v \in Tasks
    BY <1>7, <2>1 DEF v
  <2>3. /\ g \in Seq(Tasks) /\ DOMAIN g = DOMAIN gate /\ g[1] = v
        /\ \A n \in DOMAIN gate : n # 1 => g[n] = gate[n]
    BY <2>2
  <2>4. QED  BY <2>3 DEF v
<1>8. ASSUME NEW i \in Nat
      PROVE  /\ [Begun(1) EXCEPT ![1].task.id = i] \in Seq(Tasks)
             /\ DOMAIN [Begun(1) EXCEPT ![1].task.id = i] = DOMAIN gate
             /\ [Begun(1) EXCEPT ![1].task.id = i][1].begun
             /\ [Begun(1) EXCEPT ![1].task.id = i][1].task = [gate[1].task EXCEPT !.id = i]
             /\ \A n \in DOMAIN gate : n # 1 => [Begun(1) EXCEPT ![1].task.id = i][n] = gate[n]
  <2> DEFINE g == [Begun(1) EXCEPT ![1].task.id = i]
  <2>1. g = [gate EXCEPT ![1] = u(i)]
    BY <1>6
  <2> HIDE DEF g
  <2>2. /\ g \in Seq(Tasks) /\ DOMAIN g = DOMAIN gate /\ g[1] = u(i)
        /\ \A n \in DOMAIN gate : n # 1 => g[n] = gate[n]
    BY <1>7, <2>1
  <2>3. g[1].begun /\ g[1].task = [gate[1].task EXCEPT !.id = i]
    BY <1>3, <2>2
  <2>4. QED  BY <2>2, <2>3 DEF g
<1>9. QED  BY <1>2, <1>5, <1>8

\* Every operation leaves the fleet, the gate and the wire in shape.
LEMMA ShapesKept ==
    ASSUME RecordsInv, [GateNext]_gateVars
    PROVE  Shapes'
<1>1. /\ Shapes /\ bought \in Seq(Tokens) /\ writes \in Seq(Writes) /\ gate \in Seq(Tasks)
      /\ wire \in [Sockets -> Conns] /\ machine \in [Machines -> Procs]
      /\ mem \subseteq Minted /\ Minted \subseteq Nat /\ mem \in SUBSET Nat /\ Len(bought) \in Nat
    BY DEF RecordsInv, Shapes, Spent, Minted
<1>2. CASE Mint  BY <1>1, <1>2 DEF Mint, Shapes
<1>3. CASE Lapse  BY <1>1, <1>3 DEF Lapse, Shapes
<1>4. ASSUME NEW n \in DOMAIN gate, RegisterByToken(n) PROVE Shapes'
  <2> DEFINE s == gate[1].task.socket
             t == wire[s].auth.of
             i == Len(bought) + 1
  <2>1. /\ n = 1 /\ 1 \in DOMAIN gate /\ s \in Sockets /\ t \in Tokens /\ i \in Nat
    BY SMTT(60), <1>1, <1>4, AtTheGate, ShapesAre DEF RegisterByToken
  <2>2. pairing' \in [Tokens -> {"unminted", "live", "lapsed", "gone"}]
    BY <1>1, <1>4, <2>1 DEF RegisterByToken, Spend, Shapes
  <2>3. CASE pairing[t] = "live" /\ i \in Ids
    <3>1. /\ bought' = Append(bought, t) /\ mem' = mem \cup {i}
          /\ writes' = Persisted(mem', "redeem", i)
          /\ gate' = [Begun(1) EXCEPT ![1].task.id = i] /\ wire' = wire
      BY <1>4, <2>1, <2>3 DEF RegisterByToken, Announced
    <3>2. bought' \in Seq(Tokens)
      BY <1>1, <2>1, <3>1
    <3>3. writes' \in Seq(Writes)
      <4>1. mem \cup {i} \in SUBSET Nat
        BY <1>1, <2>1
      <4>2. Persisted(mem \cup {i}, "redeem", i) \in Seq(Writes)
        BY <1>1, <2>1, <4>1, AskingIs
      <4>3. QED  BY <3>1, <4>2
    <3>4. gate' \in Seq(Tasks)
      BY <1>1, <2>1, <3>1, BeginningIs
    <3>5. QED  BY <1>1, <1>4, <2>2, <3>1, <3>2, <3>3, <3>4 DEF RegisterByToken, Shapes
  <2>4. CASE ~(pairing[t] = "live" /\ i \in Ids)
    <3>1. /\ wire' = Refused(s, IF pairing[t] = "lapsed" THEN "expired-token" ELSE "invalid-token")
          /\ gate' = RemoveAt(gate, 1) /\ bought' = bought /\ writes' = writes
      BY <1>4, <2>1, <2>4 DEF RegisterByToken
    <3>2. wire' \in [Sockets -> Conns]
      BY <1>1, <2>1, <3>1, Refusing
    <3>3. gate' \in Seq(Tasks)
      BY <1>1, <2>1, <3>1, TaskDone
    <3>4. QED  BY <1>1, <1>4, <2>2, <3>1, <3>2, <3>3 DEF RegisterByToken, Shapes
  <2>5. QED  BY <2>3, <2>4
<1>5. ASSUME NEW n \in DOMAIN gate, RegisterByCredential(n) PROVE Shapes'
  <2> DEFINE s == gate[1].task.socket
             i == wire[s].auth.of
  <2>1. /\ n = 1 /\ 1 \in DOMAIN gate /\ s \in Sockets /\ i \in Nat
    BY <1>1, <1>5, AtTheGate, ShapesAre DEF RegisterByCredential
  <2>2. CASE i \in mem
    <3>1. /\ writes' = Persisted(mem, "touch", i)
          /\ gate' = [Begun(1) EXCEPT ![1].task.id = i] /\ wire' = wire
      BY <1>5, <2>1, <2>2 DEF RegisterByCredential
    <3>2. writes' \in Seq(Writes)
      BY <1>1, <2>1, <3>1, AskingIs
    <3>3. gate' \in Seq(Tasks)
      BY <1>1, <2>1, <3>1, BeginningIs
    <3>4. QED  BY <1>1, <1>5, <3>1, <3>2, <3>3 DEF RegisterByCredential, Shapes
  <2>3. CASE i \notin mem
    <3>1. wire' = Refused(s, "unauthorized") /\ gate' = RemoveAt(gate, 1) /\ writes' = writes
      BY <1>5, <2>1, <2>3 DEF RegisterByCredential
    <3>2. wire' \in [Sockets -> Conns]
      BY <1>1, <2>1, <3>1, Refusing
    <3>3. gate' \in Seq(Tasks)
      BY <1>1, <2>1, <3>1, TaskDone
    <3>4. QED  BY <1>1, <1>5, <3>1, <3>2, <3>3 DEF RegisterByCredential, Shapes
  <2>4. QED  BY <2>2, <2>3
<1>6. ASSUME NEW i \in Ids, AskRevoke(i) PROVE Shapes'
  <2>1. [task |-> Revoking(i), begun |-> FALSE] \in Tasks
    BY <1>1, <1>6 DEF AskRevoke, Revoking, Tasks, None
  <2>2. gate' \in Seq(Tasks)
    BY <1>1, <1>6, <2>1, TaskJoins DEF AskRevoke
  <2>3. QED  BY <1>1, <1>6, <2>2 DEF AskRevoke, Shapes
<1>7. ASSUME NEW n \in DOMAIN gate, RevokeStarts(n) PROVE Shapes'
  <2> DEFINE i == gate[1].task.id
  <2>1. n = 1 /\ 1 \in DOMAIN gate /\ i \in Nat
    BY <1>7, AtTheGate, ShapesAre DEF RevokeStarts
  <2>2. CASE i \in mem
    <3>1. mem' = mem \ {i} /\ writes' = Persisted(mem', "revoke", i) /\ gate' = Begun(1)
      BY <1>7, <2>1, <2>2 DEF RevokeStarts
    <3>2. Persisted(mem \ {i}, "revoke", i) \in Seq(Writes)
      BY <1>1, <2>1, AskingIs
    <3>3. gate' \in Seq(Tasks)
      BY <1>1, <2>1, <3>1, BeginningIs
    <3>4. QED  BY <1>1, <1>7, <3>1, <3>2, <3>3 DEF RevokeStarts, Shapes
  <2>3. CASE i \notin mem
    <3>1. gate' = RemoveAt(gate, 1) /\ writes' = writes
      BY <1>7, <2>1, <2>3 DEF RevokeStarts
    <3>2. gate' \in Seq(Tasks)
      BY <1>1, <2>1, <3>1, TaskDone
    <3>3. QED  BY <1>1, <1>7, <3>1, <3>2 DEF RevokeStarts, Shapes
  <2>4. QED  BY <2>2, <2>3
<1>8. CASE WriteLands
  <2> writes # <<>> /\ writes' = Tail(writes)
    BY <1>8 DEF WriteLands
  <2>1. writes' \in Seq(Writes)
    BY <1>1, WriteDone
  <2>2. CASE ~Waited
    BY <1>1, <1>8, <2>1, <2>2 DEF WriteLands, Shapes
  <2>3. CASE Waited
    <3> DEFINE i == writes[1].id
               s == gate[1].task.socket
    <3>1. /\ RegisterLands(1) \/ RevokeLands(1)
          /\ gate' = RemoveAt(gate, 1)
      BY <1>8, <2>3, AtTheHead DEF WriteLands
    <3>2. /\ Head(writes) = writes[1] /\ 1 \in DOMAIN gate /\ i \in Ids /\ i \in Nat
          /\ gate[1].task.what = "register" => s \in Sockets
      BY <1>1, <2>3, AtTheHead DEF RecordsInv, Spent
    <3>3. gate' \in Seq(Tasks)
      BY <1>1, <3>1, <3>2, TaskDone
    <3>4. live[i] \in Sockets \cup {None}
      BY <1>1, <3>2 DEF Shapes
    <3>5. CASE RegisterLands(1)
      <4>1. s \in Sockets
        BY <3>2, <3>5 DEF RegisterLands
      <4>2. CASE i \in mem
        <5> DEFINE w == [wire EXCEPT ![s].id = i, ![s].host = "in"]
                   f == Registered(i, Head(writes).op = "redeem")
        <5>1. w \in [Sockets -> Conns]
          <6>1. [wire[s] EXCEPT !.id = i, !.host = "in"] \in Conns
            BY <1>1, <3>2, <4>1, Changed
          <6>2. w = [wire EXCEPT ![s] = [wire[s] EXCEPT !.id = i, !.host = "in"]]
            BY <1>1, <4>1
          <6>3. QED  BY <1>1, <6>1, <6>2
        <5>2. f \in Frames
          BY <3>2, FramesAre
        <5>3. wire' = IF live[i] = None THEN Told(w, s, f) ELSE CutOff(Told(w, s, f), live[i])
          BY <3>2, <3>5, <4>2 DEF RegisterLands, Installed
        <5> HIDE DEF w, f
        <5>4. Told(w, s, f) \in [Sockets -> Conns]
          BY <4>1, <5>1, <5>2, Telling
        <5>5. wire' \in [Sockets -> Conns]
          <6>1. CASE live[i] = None  BY <5>3, <5>4, <6>1
          <6>2. CASE live[i] \in Sockets /\ live[i] # None
            BY <5>3, <5>4, <6>2, Cutting
          <6>3. QED  BY <3>4, <6>1, <6>2
        <5>6. live' \in [Ids -> Sockets \cup {None}]
          BY <1>1, <3>2, <3>5, <4>1, <4>2 DEF RegisterLands, Shapes
        <5>7. QED  BY <1>1, <1>8, <2>1, <3>3, <5>5, <5>6 DEF WriteLands, Shapes
      <4>3. CASE i \notin mem
        <5>1. wire' = Refused(s, "unauthorized") /\ live' = live
          BY <3>2, <3>5, <4>3 DEF RegisterLands
        <5>2. wire' \in [Sockets -> Conns]
          BY <1>1, <4>1, <5>1, Refusing
        <5>3. QED  BY <1>1, <1>8, <2>1, <3>3, <5>1, <5>2 DEF WriteLands, Shapes
      <4>4. QED  BY <4>2, <4>3
    <3>6. CASE RevokeLands(1)
      <4>1. wire' \in [Sockets -> Conns]
        <5>1. CASE live[i] = None
          BY <1>1, <3>2, <3>6, <5>1 DEF RevokeLands
        <5>2. CASE live[i] \in Sockets /\ live[i] # None
          <6>1. wire' = Shutting(Told(wire, live[i], RevokedFrame), live[i])
            BY <3>2, <3>6, <5>2 DEF RevokeLands
          <6>2. Told(wire, live[i], RevokedFrame) \in [Sockets -> Conns]
            BY <1>1, <5>2, Telling, FramesAre
          <6>3. QED  BY <5>2, <6>1, <6>2, Closing
        <5>3. QED  BY <3>4, <5>1, <5>2
      <4>2. live' \in [Ids -> Sockets \cup {None}]
        BY <1>1, <3>2, <3>6 DEF RevokeLands, Shapes
      <4>3. QED  BY <1>1, <1>8, <2>1, <3>3, <4>1, <4>2 DEF WriteLands, Shapes
    <3>7. QED  BY <3>1, <3>5, <3>6
  <2>4. QED  BY <2>2, <2>3
<1>9. CASE WriteFails
  <2> writes # <<>> /\ writes' = Tail(writes)
    BY <1>9 DEF WriteFails
  <2>1. writes' \in Seq(Writes)
    BY <1>1, WriteDone
  <2>2. CASE ~Waited
    BY <1>1, <1>9, <2>1, <2>2 DEF WriteFails, Shapes
  <2>3. CASE Waited
    <3>1. /\ gate' = RemoveAt(gate, 1)
          /\ wire' = IF writes[1].op = "revoke" THEN wire ELSE Refused(gate[1].task.socket, "malformed")
          /\ 1 \in DOMAIN gate /\ gate[1] \in Tasks
      BY <1>9, <2>3, AtTheHead DEF WriteFails
    <3>2. gate' \in Seq(Tasks)
      BY <1>1, <3>1, TaskDone
    <3>3. wire' \in [Sockets -> Conns]
      <4>1. CASE writes[1].op = "revoke"  BY <1>1, <3>1, <4>1
      <4>2. CASE writes[1].op # "revoke"
        <5>1. gate[1].task.socket \in Sockets
          BY <2>3, <3>1, <4>2, AtTheHead, ShapesAre
        <5>2. QED  BY <1>1, <3>1, <4>2, <5>1, Refusing
      <4>3. QED  BY <4>1, <4>2
    <3>4. QED  BY <1>1, <1>9, <2>1, <3>2, <3>3 DEF WriteFails, Shapes
  <2>4. QED  BY <2>2, <2>3
<1>10. ASSUME NEW s \in Sockets, WorkerBeats(s) PROVE Shapes'
  <2> DEFINE i == wire[s].id
             c == live[i]
  <2>1. mem' = mem /\ i \in Nat /\ c # None
    BY <1>1, <1>10, ShapesAre DEF WorkerBeats, Touched
  <2>2. CASE i \in mem
    <3>1. writes' = Persisted(mem, "beat", i) /\ live' = live /\ wire' = wire
      BY <1>10, <2>1, <2>2 DEF WorkerBeats
    <3>2. writes' \in Seq(Writes)
      BY <1>1, <2>1, <3>1, AskingIs
    <3>3. QED  BY <1>1, <1>10, <3>1, <3>2 DEF WorkerBeats, Shapes
  <2>3. CASE i \notin mem
    <3>1. /\ writes' = writes /\ live' = [live EXCEPT ![i] = None]
          /\ wire' = Shutting(Told(wire, c, RevokedFrame), c)
      BY <1>10, <2>1, <2>3 DEF WorkerBeats
    <3>2. live' \in [Ids -> Sockets \cup {None}]
      BY <1>1, <3>1 DEF Shapes
    <3>3. c \in Sockets
      BY <1>1, <1>10, <2>1 DEF WorkerBeats, Shapes, RecordsInv, Spent
    <3>4. Told(wire, c, RevokedFrame) \in [Sockets -> Conns]
      BY <1>1, <3>3, Telling, FramesAre
    <3>5. wire' \in [Sockets -> Conns]
      BY <3>1, <3>3, <3>4, Closing
    <3>6. QED  BY <1>1, <1>10, <3>1, <3>2, <3>5 DEF WorkerBeats, Shapes
  <2>4. QED  BY <2>2, <2>3
<1>11. ASSUME NEW s \in Sockets, HearRegister(s) PROVE Shapes'
  <2>1. [task |-> Registering(s), begun |-> FALSE] \in Tasks
    BY ShapesAre DEF Registering, Tasks, None
  <2>2. gate' \in Seq(Tasks)
    BY <1>1, <1>11, <2>1, TaskJoins DEF HearRegister
  <2>3. wire' \in [Sockets -> Conns]
    <3>1. [wire[s] EXCEPT !.host = "queued"] \in Conns
      BY <1>1, Changed, 0 \in Nat
    <3>2. wire' = [wire EXCEPT ![s] = [wire[s] EXCEPT !.host = "queued"]]
      BY <1>1, <1>11 DEF HearRegister
    <3>3. QED  BY <1>1, <3>1, <3>2
  <2>4. QED  BY <1>1, <1>11, <2>2, <2>3 DEF HearRegister, Shapes
<1>12. ASSUME NEW s \in Sockets, HostSeesClose(s) PROVE Shapes'
  <2>1. CutOff(wire, s) \in [Sockets -> Conns]
    BY <1>1, Cutting
  <2>2. wire' \in [Sockets -> Conns]
    BY SMTT(60), <1>12, <2>1 DEF HostSeesClose, Conns
  <2>3. live' \in [Ids -> Sockets \cup {None}]
    BY <1>1, <1>12 DEF HostSeesClose, Shapes
  <2>4. QED  BY <1>1, <1>12, <2>2, <2>3 DEF HostSeesClose, Shapes
<1>13. ASSUME NEW m \in Machines, Boot(m) PROVE Shapes'
  <2>1. machine' \in [Machines -> Procs]
    BY <1>1, <1>13 DEF Boot, Procs
  <2>2. QED  BY <1>1, <1>13, <2>1 DEF Boot, gateHost, Shapes
<1>14. ASSUME NEW m \in Machines, Dial(m) PROVE Shapes'
  <2>1. PICK s \in Sockets :
            wire' = [wire EXCEPT ![s] =
               [of |-> m, host |-> "fresh", id |-> None, says |-> <<>>,
                open |-> TRUE, mine |-> TRUE,
                auth |-> IF machine[m].token # None THEN Pairing(machine[m].token)
                         ELSE Credential(machine[m].enrolled)]]
    BY <1>14 DEF Dial
  <2> DEFINE a == IF machine[m].token # None THEN Pairing(machine[m].token)
                  ELSE Credential(machine[m].enrolled)
             c == [of |-> m, host |-> "fresh", id |-> None, says |-> <<>>,
                   open |-> TRUE, mine |-> TRUE, auth |-> a]
  <2>2. a \in Auths
    BY <1>1 DEF Auths, Pairing, Credential, Procs
  <2> HIDE DEF a
  <2>3. c \in Conns
    <3>1. <<>> \in Seq(Frames) /\ None \in Nat
      BY DEF None
    <3>2. QED  BY <2>2, <3>1 DEF Conns
  <2>4. wire' = [wire EXCEPT ![s] = c]
    BY <2>1 DEF a
  <2> HIDE DEF c
  <2>5. wire' \in [Sockets -> Conns]
    BY <1>1, <2>3, <2>4
  <2>6. QED  BY <1>1, <1>14, <2>5 DEF Dial, gateHost, Shapes
<1>15. ASSUME NEW s \in Sockets, Listen(s) PROVE Shapes'
  <2>1. wire[s].says \in Seq(Frames) /\ wire[s].says # <<>>
    BY <1>1, <1>15, ShapesAre DEF Listen
  <2>2. Tail(wire[s].says) \in Seq(Frames) /\ Head(wire[s].says) \in Frames
    BY <2>1
  <2>3. machine' \in [Machines -> Procs]
    <3> DEFINE m == wire[s].of
               p == machine[m]
    <3>a. m \in Machines /\ p \in Procs
      BY <1>1, <1>15 DEF Listen, Conns
    <3>1. CASE OnRegistered(wire[s].of, Head(wire[s].says))
      <4>1. Head(wire[s].says).id \in Nat /\ None \in Nat
        BY <2>2 DEF Frames, None
      <4>2. machine' = [machine EXCEPT ![m] = [p EXCEPT
                !.token = None,
                !.enrolled = IF Head(wire[s].says).new THEN Head(wire[s].says).id ELSE p.enrolled,
                !.file = IF Head(wire[s].says).new THEN Head(wire[s].says).id ELSE p.file]]
        BY <1>1, <3>1, <3>a DEF OnRegistered
      <4>3. QED  BY <1>1, <3>a, <4>1, <4>2 DEF Procs
    <3>2. CASE OnTurnedAway(wire[s].of, Head(wire[s].says).kind)
      <4>1. \A q \in Procs : /\ [q EXCEPT !.token = None] \in Procs
                             /\ q.file \in Nat
        BY DEF Procs
      <4>2. \A n \in Nat : [up |-> FALSE, token |-> None, enrolled |-> None, file |-> n] \in Procs
        BY DEF Procs, None
      <4>3. None \in Nat
        BY DEF None
      <4>4. QED  BY <1>1, <3>2, <4>1, <4>2, <4>3 DEF OnTurnedAway
    <3>3. QED  BY <1>15, <3>1, <3>2 DEF Listen
  <2>4. wire' \in [Sockets -> Conns]
    <3>1. wire[s].of \in Machines
      BY <1>1, <1>15 DEF Listen, Conns
    <3>2. machine'[wire[s].of].up \in BOOLEAN
      BY <2>3, <3>1 DEF Procs
    <3>3. [wire[s] EXCEPT !.says = Tail(wire[s].says), !.mine = machine'[wire[s].of].up] \in Conns
      BY <1>1, <1>15, <2>2, <3>2, Changed DEF Listen
    <3>4. wire' = [wire EXCEPT ![s] = [wire[s] EXCEPT !.says = Tail(wire[s].says),
                                                      !.mine = machine'[wire[s].of].up]]
      BY <1>1, <1>15 DEF Listen
    <3>5. QED  BY <1>1, <3>3, <3>4
  <2>5. QED  BY <1>1, <1>15, <2>3, <2>4 DEF Listen, gateHost, Shapes
<1>16. ASSUME NEW s \in Sockets, MachineSeesClose(s) PROVE Shapes'
  <2>1. wire' \in [Sockets -> Conns]
    <3>1. wire[s] \in Conns
      BY <1>1
    <3>2. [wire[s] EXCEPT !.mine = FALSE] \in Conns
      BY <3>1 DEF Conns
    <3>3. wire' = [wire EXCEPT ![s] = [wire[s] EXCEPT !.mine = FALSE]]
      BY <1>16 DEF MachineSeesClose
    <3>4. QED  BY <1>1, <3>2, <3>3
  <2>2. QED  BY <1>1, <1>16, <2>1 DEF MachineSeesClose, gateHost, Shapes
<1>17. ASSUME NEW s \in Sockets, Forget(s) PROVE Shapes'
  <2>1. wire' \in [Sockets -> Conns]
    BY <1>1, <1>17, FreeIs DEF Forget
  <2>2. QED  BY <1>1, <1>17, <2>1 DEF Forget, gateHost, Shapes
<1>18. ASSUME NEW s \in Sockets, SocketDies(s) PROVE Shapes'
  <2>1. wire' \in [Sockets -> Conns]
    BY <1>1, <1>18, Cutting DEF SocketDies
  <2>2. QED  BY <1>1, <1>18, <2>1 DEF SocketDies, gateHost, Shapes
<1>19. ASSUME NEW m \in Machines, MachineCrashes(m) PROVE Shapes'
  <2>1. \A s \in Sockets : [CutOff(wire, s)[s] EXCEPT !.mine = FALSE] \in Conns
    <3> SUFFICES ASSUME NEW s \in Sockets
                 PROVE  [CutOff(wire, s)[s] EXCEPT !.mine = FALSE] \in Conns
      OBVIOUS
    <3>1. CutOff(wire, s)[s] \in Conns
      BY <1>1, Cutting
    <3>2. QED  BY <3>1 DEF Conns
  <2>2. wire' \in [Sockets -> Conns]
    BY <1>1, <1>19, <2>1 DEF MachineCrashes
  <2>3. machine' \in [Machines -> Procs]
    BY <1>1, <1>19 DEF MachineCrashes, Procs, None
  <2>4. QED  BY <1>1, <1>19, <2>2, <2>3 DEF MachineCrashes, gateHost, Shapes
<1>20. CASE HostRestarts
  <2>1. \A s \in Sockets : [CutOff(wire, s)[s] EXCEPT !.host = "shut"] \in Conns
    <3> SUFFICES ASSUME NEW s \in Sockets
                 PROVE  [CutOff(wire, s)[s] EXCEPT !.host = "shut"] \in Conns
      OBVIOUS
    <3>1. CutOff(wire, s)[s] \in Conns
      BY <1>1, Cutting
    <3>2. QED  BY <3>1 DEF Conns
  <2>2. wire' \in [Sockets -> Conns]
    BY <1>20, <2>1 DEF HostRestarts
  <2>3. writes' \in Seq(Writes) /\ gate' \in Seq(Tasks)
    BY <1>20 DEF HostRestarts
  <2>4. /\ pairing' \in [Tokens -> {"unminted", "live", "lapsed", "gone"}]
        /\ live' \in [Ids -> Sockets \cup {None}]
    BY <1>20 DEF HostRestarts
  <2>5. QED  BY <1>1, <1>20, <2>2, <2>3, <2>4 DEF HostRestarts, Shapes
<1>21. CASE UNCHANGED gateVars
  BY <1>1, <1>21 DEF gateVars, gateHost, Shapes
<1>22. QED
    BY <1>2, <1>3, <1>4, <1>5, <1>6, <1>7, <1>8, <1>9, <1>10, <1>11, <1>12, <1>13, <1>14, <1>15,
       <1>16, <1>17, <1>18, <1>19, <1>20, <1>21 DEF GateNext, GateTask, GateFault

-----------------------------------------------------------------------------
(* What a step of one queue leaves of the other *)

\* A write asked for of the records as they are now, by somebody on record, or to
\* take out somebody who no longer is.
LEMMA UnderWayAsked ==
    ASSUME RecordsInv, NEW w \in Writes, writes' = Append(writes, w), w.ids = mem',
           revoked' = revoked,
           w.op \in {"redeem", "touch"} => w.id \in mem',
           w.op = "revoke" => w.id \notin mem' /\ w.id \notin revoked,
           \A k \in DOMAIN writes : /\ writes[k].op \in {"redeem", "touch"} => writes[k].id \in mem'
                                    /\ writes[k].op = "revoke" => writes[k].id \notin mem'
    PROVE  UnderWay'
<1>1. writes \in Seq(Writes) /\ UnderWay
    BY DEF RecordsInv, Shapes
<1>2. /\ \A k \in DOMAIN writes : writes'[k] = writes[k] /\ k \in Nat /\ k < Len(writes) + 1
      /\ writes'[Len(writes) + 1] = w /\ Len(writes) \in Nat
      /\ \A k \in DOMAIN writes' : k \in DOMAIN writes \/ k = Len(writes) + 1
    BY <1>1, WriteAsked
<1>3. ASSUME NEW k \in DOMAIN writes', NEW l \in DOMAIN writes', l >= k, k = Len(writes) + 1
      PROVE  l = Len(writes) + 1
  <2>1. l \in DOMAIN writes => l \in Nat /\ l < Len(writes) + 1 /\ l >= Len(writes) + 1
    BY <1>2, <1>3
  <2>2. l \notin DOMAIN writes
    BY <1>2, <2>1
  <2>3. QED  BY <1>2, <2>2
<1>4. ASSUME NEW k \in DOMAIN writes', writes'[k].op \in {"redeem", "touch"}
      PROVE  writes'[k].id \in mem'
    BY <1>2, <1>4
<1>5. ASSUME NEW k \in DOMAIN writes', writes'[k].op = "redeem",
             NEW l \in DOMAIN writes', l >= k
      PROVE  writes'[k].id \in writes'[l].ids
  <2>1. CASE l = Len(writes) + 1
    BY <1>2, <1>4, <1>5, <2>1
  <2>2. CASE l \in DOMAIN writes /\ k \in DOMAIN writes
    BY <1>1, <1>2, <1>5, <2>2 DEF UnderWay
  <2>3. QED  BY <1>2, <1>3, <1>5, <2>1, <2>2
<1>6. ASSUME NEW k \in DOMAIN writes', writes'[k].op = "revoke"
      PROVE  writes'[k].id \notin mem' /\ writes'[k].id \notin revoked'
    BY <1>1, <1>2, <1>6 DEF UnderWay
<1>7. ASSUME NEW k \in DOMAIN writes', writes'[k].op = "revoke",
             NEW l \in DOMAIN writes', l >= k
      PROVE  writes'[k].id \notin writes'[l].ids
  <2>1. CASE l = Len(writes) + 1
    BY <1>2, <1>6, <1>7, <2>1
  <2>2. CASE l \in DOMAIN writes /\ k \in DOMAIN writes
    BY <1>1, <1>2, <1>7, <2>2 DEF UnderWay
  <2>3. QED  BY <1>2, <1>3, <1>7, <2>1, <2>2
<1>8. QED  BY <1>4, <1>5, <1>6, <1>7 DEF UnderWay

\* The write at the head is done; the others are as much under way as before.
LEMMA UnderWayDone ==
    ASSUME RecordsInv, writes # <<>>, writes' = Tail(writes),
           \A k \in DOMAIN writes : k # 1 =>
               /\ writes[k].op \in {"redeem", "touch"} => writes[k].id \in mem'
               /\ writes[k].op = "revoke" => writes[k].id \notin mem' /\ writes[k].id \notin revoked'
    PROVE  UnderWay'
<1>1. writes \in Seq(Writes) /\ UnderWay
    BY DEF RecordsInv, Shapes
<1>2. /\ \A k \in DOMAIN writes' : /\ k + 1 \in DOMAIN writes /\ writes'[k] = writes[k + 1]
                                   /\ k + 1 # 1 /\ k \in Nat
    BY <1>1, WriteDone
<1>3. \A k, l \in DOMAIN writes' : l >= k => l + 1 >= k + 1
    BY <1>2
<1>4. \A k \in DOMAIN writes' :
          /\ writes'[k].op \in {"redeem", "touch"} => writes'[k].id \in mem'
          /\ writes'[k].op = "revoke" => writes'[k].id \notin mem' /\ writes'[k].id \notin revoked'
    BY <1>2
<1>5. \A k, l \in DOMAIN writes' : l >= k =>
          /\ writes'[k].op = "redeem" => writes'[k].id \in writes'[l].ids
          /\ writes'[k].op = "revoke" => writes'[k].id \notin writes'[l].ids
    BY <1>1, <1>2, <1>3 DEF UnderWay
<1>6. QED  BY <1>4, <1>5 DEF UnderWay

\* Nobody is under way, and nobody waits.
LEMMA NobodyWaits ==
    ASSUME \A n \in DOMAIN gate' : ~gate'[n].begun,
           \A k \in DOMAIN writes' : writes'[k].op \notin {"redeem", "touch", "revoke"}
    PROVE  OneAtATime'
BY DEF OneAtATime, Awaited

\* The head of the gate has begun, and its write is the one that is awaited.
LEMMA OneWaits ==
    ASSUME RecordsInv, NEW n \in DOMAIN gate, Starting(n),
           NEW w \in Writes, writes' = Append(writes, w),
           DOMAIN gate' = DOMAIN gate, gate'[1].begun, gate'[1].task.id = w.id,
           \A o \in DOMAIN gate : o # 1 => gate'[o] = gate[o],
           (w.op = "revoke") = (gate'[1].task.what = "revoke"),
           w.op = "touch" => wire'[gate'[1].task.socket].auth = Credential(w.id)
    PROVE  OneAtATime'
<1>1. /\ writes \in Seq(Writes) /\ 1 \in DOMAIN gate
      /\ \A k \in DOMAIN writes : ~Awaited(k)
      /\ \A o \in DOMAIN gate : ~gate[o].begun
    BY AtTheGate DEF RecordsInv, Shapes, OneAtATime
<1>2. /\ \A k \in DOMAIN writes : writes'[k] = writes[k]
      /\ writes'[Len(writes) + 1] = w
      /\ \A k \in DOMAIN writes' : k \in DOMAIN writes \/ k = Len(writes) + 1
    BY <1>1, WriteAsked
<1>3. \A k \in DOMAIN writes' : writes'[k].op \in {"redeem", "touch", "revoke"} =>
          k = Len(writes) + 1 /\ writes'[k] = w
    BY <1>1, <1>2 DEF Awaited
<1>4. \A o \in DOMAIN gate' : gate'[o].begun => o = 1
    BY <1>1
<1>5. QED  BY <1>1, <1>3, <1>4 DEF OneAtATime, Awaited

\* A write nobody waits for is asked for, or the gate grows: whoever waits, waits on.
LEMMA WaitedOn ==
    ASSUME RecordsInv,
           \/ writes' = writes
           \/ \E w \in Writes : w.op = "beat" /\ writes' = Append(writes, w)
           \/ writes # <<>> /\ ~Waited /\ writes' = Tail(writes),
           \/ gate' = gate
           \/ \E t \in Tasks : ~t.begun /\ gate' = Append(gate, t),
           \A s \in Sockets : wire[s].host = "queued" => wire'[s].auth = wire[s].auth
    PROVE  OneAtATime'
<1>1. writes \in Seq(Writes) /\ gate \in Seq(Tasks) /\ OneAtATime
    BY DEF RecordsInv, Shapes
<1>2. /\ \A n \in DOMAIN gate : n \in DOMAIN gate' /\ gate'[n] = gate[n]
      /\ \A n \in DOMAIN gate' : n \in DOMAIN gate \/ ~gate'[n].begun
  <2>1. CASE gate' = gate  BY <2>1
  <2>2. ASSUME NEW t \in Tasks, ~t.begun, gate' = Append(gate, t)
        PROVE  /\ \A n \in DOMAIN gate : n \in DOMAIN gate' /\ gate'[n] = gate[n]
               /\ \A n \in DOMAIN gate' : n \in DOMAIN gate \/ ~gate'[n].begun
    BY <1>1, <2>2, TaskJoins
  <2>3. QED  BY <2>1, <2>2
<1>3. \A n \in DOMAIN gate' : gate'[n].begun => n = 1
    BY <1>1, <1>2 DEF OneAtATime
\* Every awaited write was one, at some place.
<1>4. PICK p \in [DOMAIN writes' -> Int] :
          /\ \A k \in DOMAIN writes' : writes'[k].op \in {"redeem", "touch", "revoke"} =>
                 p[k] \in DOMAIN writes /\ writes'[k] = writes[p[k]]
          /\ \A k, l \in DOMAIN writes' : p[k] = p[l] => k = l
  <2>1. CASE writes' = writes
    <3> DEFINE q == [k \in DOMAIN writes' |-> k]
    <3>1. q \in [DOMAIN writes' -> Int]
      BY <1>1, <2>1
    <3>2. QED  BY <2>1, <3>1
  <2>2. ASSUME NEW w \in Writes, w.op = "beat", writes' = Append(writes, w)
        PROVE  \E q \in [DOMAIN writes' -> Int] :
                   /\ \A k \in DOMAIN writes' : writes'[k].op \in {"redeem", "touch", "revoke"} =>
                          q[k] \in DOMAIN writes /\ writes'[k] = writes[q[k]]
                   /\ \A k, l \in DOMAIN writes' : q[k] = q[l] => k = l
    <3>1. /\ \A k \in DOMAIN writes : writes'[k] = writes[k]
          /\ writes'[Len(writes) + 1] = w
          /\ \A k \in DOMAIN writes' : k \in DOMAIN writes \/ k = Len(writes) + 1
          /\ DOMAIN writes' \subseteq Int
      BY <1>1, <2>2, WriteAsked
    <3> DEFINE q == [k \in DOMAIN writes' |-> k]
    <3>2. q \in [DOMAIN writes' -> Int]
      BY <3>1
    <3>3. QED  BY <2>2, <3>1, <3>2
  <2>3. ASSUME writes # <<>>, writes' = Tail(writes)
        PROVE  \E q \in [DOMAIN writes' -> Int] :
                   /\ \A k \in DOMAIN writes' : writes'[k].op \in {"redeem", "touch", "revoke"} =>
                          q[k] \in DOMAIN writes /\ writes'[k] = writes[q[k]]
                   /\ \A k, l \in DOMAIN writes' : q[k] = q[l] => k = l
    <3>1. \A k \in DOMAIN writes' : /\ k + 1 \in DOMAIN writes /\ writes'[k] = writes[k + 1]
                                    /\ k \in Nat
      BY <1>1, <2>3, WriteDone
    <3> DEFINE q == [k \in DOMAIN writes' |-> k + 1]
    <3>2. q \in [DOMAIN writes' -> Int] /\ \A k, l \in DOMAIN writes' : q[k] = q[l] => k = l
      BY SMTT(30), <3>1
    <3>3. QED  BY <3>1, <3>2
  <2>4. QED  BY <2>1, <2>2, <2>3
<1>5. ASSUME NEW k \in DOMAIN writes', writes'[k].op \in {"redeem", "touch", "revoke"}
      PROVE  /\ 1 \in DOMAIN gate' /\ gate'[1].begun /\ gate'[1].task.id = writes'[k].id
             /\ (writes'[k].op = "revoke") = (gate'[1].task.what = "revoke")
             /\ writes'[k].op = "touch" =>
                    wire'[gate'[1].task.socket].auth = Credential(writes'[k].id)
  <2>1. p[k] \in DOMAIN writes /\ writes'[k] = writes[p[k]] /\ Awaited(p[k])
    BY <1>4, <1>5 DEF Awaited
  <2>2. /\ 1 \in DOMAIN gate /\ gate[1].begun /\ gate[1].task.id = writes[p[k]].id
        /\ (writes[p[k]].op = "revoke") = (gate[1].task.what = "revoke")
        /\ writes[p[k]].op = "touch" =>
               wire[gate[1].task.socket].auth = Credential(writes[p[k]].id)
    BY <1>1, <2>1 DEF OneAtATime
  <2>3. gate[1].task.what # "revoke" =>
            gate[1].task.socket \in Sockets /\ wire[gate[1].task.socket].host = "queued"
    BY <1>1, <2>2, ShapesAre DEF RecordsInv, Line
  <2>4. QED  BY <1>2, <2>1, <2>2, <2>3
<1>6. ASSUME NEW k \in DOMAIN writes', NEW l \in DOMAIN writes',
             writes'[k].op \in {"redeem", "touch", "revoke"},
             writes'[l].op \in {"redeem", "touch", "revoke"}
      PROVE  k = l
  <2>1. Awaited(p[k]) /\ Awaited(p[l]) /\ p[k] \in DOMAIN writes /\ p[l] \in DOMAIN writes
    BY <1>4, <1>6 DEF Awaited
  <2>2. p[k] = p[l]
    BY <1>1, <2>1 DEF OneAtATime
  <2>3. QED  BY <1>4, <2>2
<1>7. QED  BY <1>3, <1>5, <1>6 DEF OneAtATime, Awaited

\* The line with its head gone, or with one more in it.
LEMMA LineMoves ==
    ASSUME RecordsInv, 1 \in DOMAIN gate, gate' = RemoveAt(gate, 1),
           \A s \in Sockets :
               wire[s].host = "queued" /\ (gate[1].task.what = "register" => s # gate[1].task.socket)
                 => wire'[s].host = "queued",
           Minted \subseteq Minted'
    PROVE  Line'
<1>1. gate \in Seq(Tasks) /\ Line
    BY DEF RecordsInv, Shapes
<1>2. \A n \in DOMAIN gate' : /\ n + 1 \in DOMAIN gate /\ gate'[n] = gate[n + 1]
                              /\ n + 1 # 1 /\ n \in Nat
    BY <1>1, TaskDone
<1>3. \A n, o \in DOMAIN gate' : n + 1 = o + 1 => n = o
    BY <1>2
<1>4. ASSUME NEW n \in DOMAIN gate', gate'[n].task.what = "register"
      PROVE  gate'[n].task.socket \in Sockets /\ wire'[gate'[n].task.socket].host = "queued"
    BY <1>1, <1>2, <1>4 DEF Line
<1>5. ASSUME NEW n \in DOMAIN gate', NEW o \in DOMAIN gate', gate'[n].task.what = "register",
             gate'[o].task.what = "register", gate'[n].task.socket = gate'[o].task.socket
      PROVE  n = o
    BY <1>1, <1>2, <1>3, <1>5 DEF Line
<1>6. ASSUME NEW n \in DOMAIN gate', gate'[n].task.what = "revoke"
      PROVE  gate'[n].task = Revoking(gate'[n].task.id) /\ gate'[n].task.id \in Minted'
    BY <1>1, <1>2, <1>6 DEF Line
<1>7. QED  BY <1>4, <1>5, <1>6 DEF Line

\* A task joins the end of the line.
LEMMA LineGrows ==
    ASSUME RecordsInv, NEW t \in Tasks, gate' = Append(gate, t),
           \A s \in Sockets : wire[s].host = "queued" => wire'[s].host = "queued",
           t.task.what = "register" =>
               /\ t.task.socket \in Sockets /\ wire'[t.task.socket].host = "queued"
               /\ wire[t.task.socket].host # "queued",
           t.task.what = "revoke" => t.task = Revoking(t.task.id) /\ t.task.id \in Minted,
           Minted' = Minted
    PROVE  Line'
<1>1. gate \in Seq(Tasks) /\ Line
    BY DEF RecordsInv, Shapes
<1>2. /\ \A n \in DOMAIN gate : gate'[n] = gate[n]
      /\ gate'[Len(gate) + 1] = t
      /\ \A n \in DOMAIN gate' : n \in DOMAIN gate \/ n = Len(gate) + 1
    BY <1>1, TaskJoins
<1>3. ASSUME NEW n \in DOMAIN gate', gate'[n].task.what = "register"
      PROVE  gate'[n].task.socket \in Sockets /\ wire'[gate'[n].task.socket].host = "queued"
    BY <1>1, <1>2, <1>3 DEF Line
<1>4. ASSUME NEW n \in DOMAIN gate', NEW o \in DOMAIN gate', gate'[n].task.what = "register",
             gate'[o].task.what = "register", gate'[n].task.socket = gate'[o].task.socket
      PROVE  n = o
    BY <1>1, <1>2, <1>4 DEF Line
<1>5. ASSUME NEW n \in DOMAIN gate', gate'[n].task.what = "revoke"
      PROVE  gate'[n].task = Revoking(gate'[n].task.id) /\ gate'[n].task.id \in Minted'
    BY <1>1, <1>2, <1>5 DEF Line
<1>6. QED  BY <1>3, <1>4, <1>5 DEF Line

\* The line as it was, but that its head has begun.
LEMMA LineStands ==
    ASSUME RecordsInv, DOMAIN gate' = DOMAIN gate,
           \A n \in DOMAIN gate : /\ gate'[n].task.what = gate[n].task.what
                                  /\ gate'[n].task.socket = gate[n].task.socket
                                  /\ gate[n].task.what = "revoke" => gate'[n].task = gate[n].task,
           \A s \in Sockets : wire[s].host = "queued" => wire'[s].host = "queued",
           Minted \subseteq Minted'
    PROVE  Line'
<1>a. Line /\ \A n \in DOMAIN gate' : n \in DOMAIN gate
    BY DEF RecordsInv
<1>1. ASSUME NEW n \in DOMAIN gate', gate'[n].task.what = "register"
      PROVE  gate'[n].task.socket \in Sockets /\ wire'[gate'[n].task.socket].host = "queued"
    BY <1>a, <1>1 DEF Line
<1>2. ASSUME NEW n \in DOMAIN gate', NEW o \in DOMAIN gate', gate'[n].task.what = "register",
             gate'[o].task.what = "register", gate'[n].task.socket = gate'[o].task.socket
      PROVE  n = o
    BY <1>a, <1>2 DEF Line
<1>3. ASSUME NEW n \in DOMAIN gate', gate'[n].task.what = "revoke"
      PROVE  gate'[n].task = Revoking(gate'[n].task.id) /\ gate'[n].task.id \in Minted'
    BY <1>a, <1>3 DEF Line
<1>4. QED  BY <1>1, <1>2, <1>3 DEF Line

-----------------------------------------------------------------------------
(* Records, writes and connections fit together *)

\* A step that touches neither the fleet nor the gate, and no connection the host
\* is dealing with.
LEMMA QuietRecords ==
    ASSUME RecordsInv, UNCHANGED gateHost,
           \A s \in Sockets :
               /\ wire[s].host \in {"queued", "in", "closing"} =>
                      /\ wire'[s].host = wire[s].host /\ wire'[s].auth = wire[s].auth
                      /\ wire'[s].id = wire[s].id
               /\ wire'[s].id \in {wire[s].id, None}
    PROVE  OneAtATime' /\ Line' /\ InTouch' /\ Spent' /\ UnderWay' /\ Out'
<1> USE DEF gateHost
<1>1. OneAtATime'
    BY WaitedOn
<1>2. Line'
  <2>1. Minted' = Minted
    BY DEF Minted
  <2>2. QED  BY <2>1, LineStands
<1>3. InTouch'
    BY DEF RecordsInv, Shapes, InTouch, Minted
<1>4. Spent'
    BY DEF RecordsInv, Spent, Minted
<1>5. UnderWay' /\ Out'
    BY DEF RecordsInv, UnderWay, Out
<1>6. QED  BY <1>1, <1>2, <1>3, <1>4, <1>5

\* A token minted or lapsed is not one that was spent.
LEMMA TokenRecords ==
    ASSUME RecordsInv, Mint \/ Lapse
    PROVE  OneAtATime' /\ Line' /\ InTouch' /\ Spent' /\ UnderWay' /\ Out'
<1> USE DEF Mint, Lapse
<1>1. OneAtATime'
    BY WaitedOn
<1>2. Minted' = Minted
    BY DEF Minted
<1>3. Line'
    BY <1>2, LineStands
<1>4. InTouch'
    BY <1>2 DEF RecordsInv, InTouch
<1>5. \A t \in Tokens : pairing[t] = "gone" => pairing'[t] = "gone"
    BY DEF RecordsInv, Shapes
<1>6. \A i \in Minted : bought[i] \in Tokens
    BY DEF RecordsInv, Shapes, Minted
<1>7. Spent'
    BY <1>2, <1>5, <1>6 DEF RecordsInv, Spent
<1>8. UnderWay' /\ Out'
    BY DEF RecordsInv, UnderWay, Out
<1>9. QED  BY <1>1, <1>3, <1>4, <1>7, <1>8

\* A registration refused before it asked for a write.
LEMMA RefusedRecords ==
    ASSUME RecordsInv, NEW n \in DOMAIN gate, Starting(n), gate[1].task.what = "register",
           gate' = RemoveAt(gate, 1), bought' = bought, writes' = writes, mem' = mem, disk' = disk,
           live' = live, revoked' = revoked,
           SameEnds(wire, wire'), SameHost(wire, wire', gate[1].task.socket),
           \A u \in Tokens : pairing[u] = "gone" => pairing'[u] = "gone"
    PROVE  OneAtATime' /\ Line' /\ InTouch' /\ Spent' /\ UnderWay' /\ Out'
<1> DEFINE s == gate[1].task.socket
<1>1. /\ 1 \in DOMAIN gate /\ gate \in Seq(Tasks) /\ s \in Sockets /\ wire[s].host = "queued"
      /\ \A k \in DOMAIN writes : writes[k].op \notin {"redeem", "touch", "revoke"}
      /\ \A o \in DOMAIN gate : ~gate[o].begun
    BY AtTheGate DEF Awaited, RecordsInv, Shapes, OneAtATime
<1>2. Minted' = Minted
    BY DEF Minted
<1>3. OneAtATime'
  <2>1. \A o \in DOMAIN gate' : ~gate'[o].begun
    BY <1>1, TaskDone
  <2>2. QED  BY <1>1, <2>1, NobodyWaits
<1>4. Line'
    BY <1>1, <1>2, LineMoves DEF SameHost
<1>5. InTouch'
  <2> SUFFICES ASSUME NEW i \in Ids, live[i] # None
               PROVE  /\ i \in Minted /\ wire'[live[i]].id = i
                      /\ wire'[live[i]].host \in {"in", "closing"}
    BY <1>2 DEF InTouch
  <2>1. /\ i \in Minted /\ wire[live[i]].id = i /\ wire[live[i]].host \in {"in", "closing"}
        /\ live[i] \in Sockets
    BY DEF RecordsInv, InTouch, Shapes
  <2>2. live[i] # s
    BY <1>1, <2>1
  <2>3. QED  BY <2>1, <2>2 DEF SameEnds, SameHost
<1>6. \A i \in Minted : bought[i] \in Tokens
    BY DEF RecordsInv, Shapes, Minted
<1>7. Spent'
    BY <1>2, <1>6 DEF RecordsInv, Spent, SameEnds
<1>8. UnderWay' /\ Out'
    BY DEF RecordsInv, UnderWay, Out
<1>9. QED  BY <1>3, <1>4, <1>5, <1>7, <1>8

\* A token redeemed: a new enrollment, for a token that bought none before.
LEMMA RedeemRecords ==
    ASSUME RecordsInv, NEW n \in DOMAIN gate, RegisterByToken(n)
    PROVE  OneAtATime' /\ Line' /\ InTouch' /\ Spent' /\ UnderWay' /\ Out'
<1> DEFINE s == gate[1].task.socket
           t == wire[s].auth.of
           i == Len(bought) + 1
<1>1. /\ n = 1 /\ 1 \in DOMAIN gate /\ gate[1] \in Tasks /\ ~gate[1].begun /\ s \in Sockets /\ t \in Tokens
      /\ i \in Nat /\ wire[s].host = "queued" /\ gate[1].task.what = "register" /\ Starting(n)
      /\ \A k \in DOMAIN writes : ~Awaited(k)
      /\ wire \in [Sockets -> Conns] /\ gate \in Seq(Tasks) /\ bought \in Seq(Tokens)
      /\ \A o \in DOMAIN gate : gate[o].begun => o = 1
  <2>1. /\ wire \in [Sockets -> Conns] /\ gate \in Seq(Tasks) /\ bought \in Seq(Tokens)
        /\ \A o \in DOMAIN gate : gate[o].begun => o = 1
    BY DEF RecordsInv, Shapes, OneAtATime
  <2>2. gate[n].task.what = "register" /\ Starting(n) /\ wire[gate[n].task.socket].auth.kind = "pairing"
    BY DEF RegisterByToken
  <2>3. QED  BY <2>1, <2>2, AtTheGate, ShapesAre
<1>2. \A u \in Tokens : pairing[u] = "gone" \/ u = t => pairing'[u] = "gone"
    BY <1>1 DEF RegisterByToken, Spend
<1>3. \A j \in Minted : bought[j] \in Tokens /\ pairing[bought[j]] = "gone"
    BY <1>1 DEF RecordsInv, Spent, Minted
<1>4. CASE pairing[t] = "live" /\ i \in Ids
  <2>1. /\ bought' = Append(bought, t) /\ mem' = mem \cup {i}
        /\ writes' = Persisted(mem', "redeem", i)
        /\ gate' = [Begun(1) EXCEPT ![1].task.id = i] /\ wire' = wire
        /\ disk' = disk /\ live' = live /\ revoked' = revoked
    BY <1>1, <1>4 DEF RegisterByToken, Announced
  <2>2. /\ bought' \in Seq(Tokens) /\ Minted' = Minted \cup {i} /\ i \notin Minted /\ bought'[i] = t
        /\ \A j \in Minted : bought'[j] = bought[j]
        /\ DOMAIN bought = Minted /\ DOMAIN bought' = Minted'
    <3>1. /\ bought' \in Seq(Tokens) /\ Len(bought') = Len(bought) + 1 /\ Len(bought) \in Nat
          /\ \A j \in 1..Len(bought) : bought'[j] = bought[j]
          /\ bought'[Len(bought) + 1] = t
      BY <1>1, <2>1, AppendProperties
    <3>2. 1..(Len(bought) + 1) = (1..Len(bought)) \cup {Len(bought) + 1}
          /\ (Len(bought) + 1) \notin 1..Len(bought)
      BY <3>1
    <3>3. QED  BY <1>1, <3>1, <3>2 DEF Minted
  <2> DEFINE w == [ids |-> mem \cup {i}, op |-> "redeem", id |-> i]
  <2>3. w \in Writes /\ writes' = Append(writes, w) /\ w.ids = mem' /\ w.id = i /\ w.op = "redeem"
    <3>a. mem \subseteq Minted
      BY DEF RecordsInv, Spent
    <3>b. Minted \subseteq Nat
      BY DEF RecordsInv, Shapes, Minted
    <3>1. mem \cup {i} \in SUBSET Nat
      <4>1. i \in Nat
        BY <1>1
      <4> HIDE DEF i
      <4>2. QED  BY <3>a, <3>b, <4>1
    <3>2. writes \in Seq(Writes)
      BY DEF RecordsInv, Shapes
    <3>3. w \in Writes /\ Persisted(mem \cup {i}, "redeem", i) = Append(writes, w)
      BY <1>1, <3>1, <3>2, AskingIs
    <3>4. w.ids = mem \cup {i} /\ w.id = i /\ w.op = "redeem"
      OBVIOUS
    <3>5. QED  BY <2>1, <3>3, <3>4
  <2> HIDE DEF w, i
  <2>4. /\ DOMAIN gate' = DOMAIN gate /\ gate'[1].begun
        /\ gate'[1].task = [gate[1].task EXCEPT !.id = i]
        /\ \A o \in DOMAIN gate : o # 1 => gate'[o] = gate[o]
    BY <1>1, <2>1, BeginningIs
  <2>5. gate'[1].task.id = i /\ gate'[1].task.what = "register" /\ gate'[1].task.socket = s
    BY <1>1, <2>4 DEF Tasks
  <2>6. OneAtATime'
    BY <1>1, <2>3, <2>4, <2>5, OneWaits
  <2>7. Line'
    <3>1. \A o \in DOMAIN gate : /\ gate'[o].task.what = gate[o].task.what
                                 /\ gate'[o].task.socket = gate[o].task.socket
                                 /\ gate[o].task.what = "revoke" => gate'[o].task = gate[o].task
      BY <1>1, <2>4, <2>5
    <3>2. QED  BY <2>1, <2>2, <2>4, <3>1, LineStands
  <2>8. InTouch'
    BY <2>1, <2>2 DEF RecordsInv, InTouch
  <2>9. /\ \A k \in DOMAIN writes : writes'[k] = writes[k]
        /\ writes'[Len(writes) + 1] = w
        /\ \A k \in DOMAIN writes' : k \in DOMAIN writes \/ k = Len(writes) + 1
    BY <2>3, WriteAsked DEF RecordsInv, Shapes
  <2>10. Spent'
    <3>1. IsInjective(bought')
      <4> SUFFICES ASSUME NEW j \in Minted', NEW l \in Minted', bought'[j] = bought'[l]
                   PROVE  j = l
        BY <2>2 DEF IsInjective
      <4>1. CASE j \in Minted /\ l \in Minted
        BY <2>2, <4>1 DEF RecordsInv, Spent, IsInjective
      <4>2. CASE j = i \/ l = i
        BY <1>3, <1>4, <2>2, <4>2
      <4>3. QED  BY <2>2, <4>1, <4>2
    <3>2. Minted' \subseteq Ids /\ Ids' = Ids
      BY <1>4, <2>2 DEF RecordsInv, Spent, Ids
    <3>3. \A j \in Minted' : pairing'[bought'[j]] = "gone"
      BY <1>1, <1>2, <1>3, <2>2
    <3>4. mem' \subseteq Minted' /\ disk' \subseteq Minted' /\ revoked' \subseteq Minted'
      BY <2>1, <2>2 DEF RecordsInv, Spent
    <3>5. \A k \in DOMAIN writes' : writes'[k].ids \subseteq Minted' /\ writes'[k].id \in Minted'
      BY <2>2, <2>3, <2>9, <3>4 DEF RecordsInv, Spent
    <3>6. \A r \in Sockets : wire'[r].id \in Minted' \cup {None}
      BY <2>1, <2>2 DEF RecordsInv, Spent
    <3>7. QED  BY <3>1, <3>2, <3>3, <3>4, <3>5, <3>6 DEF Spent, Ids
  <2>11. UnderWay'
    <3>1. \A k \in DOMAIN writes : /\ writes[k].op \notin {"redeem", "touch", "revoke"}
      BY <1>1 DEF Awaited
    <3>2. QED  BY <2>1, <2>3, <3>1, UnderWayAsked
  <2>12. Out'
    <3>1. \A r \in revoked : r # i
      BY <2>2 DEF RecordsInv, Spent
    <3>2. QED  BY <2>1, <2>3, <2>9, <3>1 DEF RecordsInv, Out
  <2>13. QED  BY <2>6, <2>7, <2>8, <2>10, <2>11, <2>12
<1>5. CASE ~(pairing[t] = "live" /\ i \in Ids)
  <2>1. PICK code \in {"expired-token", "invalid-token"} :
            wire' = Refused(s, code)
    BY <1>1, <1>5 DEF RegisterByToken
  <2>2. /\ gate' = RemoveAt(gate, 1) /\ bought' = bought /\ writes' = writes /\ mem' = mem
        /\ disk' = disk /\ live' = live /\ revoked' = revoked
    BY <1>1, <1>5 DEF RegisterByToken
  <2>3. SameEnds(wire, wire') /\ SameHost(wire, wire', s)
    BY <1>1, <2>1, Refusing
  <2>4. QED  BY <1>1, <1>2, <1>3, <2>2, <2>3, RefusedRecords
<1>6. QED  BY <1>4, <1>5

\* A write asked for of the records there are, or of fewer.
LEMMA AskedFor ==
    ASSUME RecordsInv, NEW w \in Writes, writes' = Append(writes, w), w.ids = mem',
           w.id \in Minted, mem' \subseteq mem, bought' = bought, pairing' = pairing, disk' = disk,
           revoked' = revoked, wire' = wire, live' = live
    PROVE  InTouch' /\ Spent' /\ Out'
<1>1. /\ \A k \in DOMAIN writes : writes'[k] = writes[k]
      /\ writes'[Len(writes) + 1] = w
      /\ \A k \in DOMAIN writes' : k \in DOMAIN writes \/ k = Len(writes) + 1
    BY WriteAsked DEF RecordsInv, Shapes
<1>2. Minted' = Minted
    BY DEF Minted
<1>3. InTouch'
    BY <1>2 DEF RecordsInv, InTouch
<1>4. mem' \subseteq Minted
    BY DEF RecordsInv, Spent
<1>5. Spent'
    BY <1>1, <1>2, <1>4 DEF RecordsInv, Spent
<1>6. Out'
    BY <1>1 DEF RecordsInv, Out
<1>7. QED  BY <1>3, <1>5, <1>6

\* The ids minted, and those on record, are numbers.
LEMMA IdsAre ==
    ASSUME RecordsInv
    PROVE  /\ Minted \subseteq Nat /\ mem \subseteq Minted /\ mem \in SUBSET Nat
           /\ disk \subseteq Minted /\ Minted \subseteq Ids /\ None \notin Ids
<1>1. Minted \subseteq Nat
    BY DEF RecordsInv, Shapes, Minted
<1>2. mem \subseteq Minted /\ disk \subseteq Minted /\ Minted \subseteq Ids
    BY DEF RecordsInv, Spent
<1>3. None \notin Ids
    BY DEF None, Ids
<1>4. QED  BY <1>1, <1>2, <1>3

\* A credential presented: its record is refreshed, or the connection refused.
LEMMA PresentRecords ==
    ASSUME RecordsInv, NEW n \in DOMAIN gate, RegisterByCredential(n)
    PROVE  OneAtATime' /\ Line' /\ InTouch' /\ Spent' /\ UnderWay' /\ Out'
<1> DEFINE s == gate[1].task.socket
           i == wire[s].auth.of
<1>1. /\ n = 1 /\ 1 \in DOMAIN gate /\ gate[1] \in Tasks /\ s \in Sockets
      /\ wire[s] \in Conns /\ gate[1].task.what = "register" /\ Starting(n)
      /\ wire[s].auth.kind = "credential" /\ gate \in Seq(Tasks) /\ writes \in Seq(Writes)
      /\ \A k \in DOMAIN writes : ~Awaited(k)
  <2>1. gate \in Seq(Tasks) /\ writes \in Seq(Writes)
    BY DEF RecordsInv, Shapes
  <2>2. /\ gate[n].task.what = "register" /\ Starting(n)
        /\ wire[gate[n].task.socket].auth.kind = "credential"
    BY DEF RegisterByCredential
  <2>3. QED  BY <2>1, <2>2, AtTheGate
<1>2. wire[s].auth = Credential(i) /\ i \in Nat
    BY <1>1, ShapesAre
<1>3. CASE i \in mem
  <2>1. /\ writes' = Persisted(mem, "touch", i) /\ gate' = [Begun(1) EXCEPT ![1].task.id = i]
        /\ wire' = wire /\ mem' = mem /\ bought' = bought /\ disk' = disk /\ pairing' = pairing
        /\ live' = live /\ revoked' = revoked
    BY <1>1, <1>3 DEF RegisterByCredential
  <2> DEFINE w == [ids |-> mem, op |-> "touch", id |-> i]
  <2>2. /\ w \in Writes /\ writes' = Append(writes, w) /\ w.ids = mem' /\ w.id = i /\ w.op = "touch"
        /\ w.id \in Minted
    <3>1. w \in Writes /\ Persisted(mem, "touch", i) = Append(writes, w)
      BY <1>1, <1>2, AskingIs, IdsAre
    <3>2. QED  BY <1>3, <2>1, <3>1, IdsAre
  <2> HIDE DEF w
  <2>3. /\ DOMAIN gate' = DOMAIN gate /\ gate'[1].begun
        /\ gate'[1].task = [gate[1].task EXCEPT !.id = i]
        /\ \A o \in DOMAIN gate : o # 1 => gate'[o] = gate[o]
    BY <1>1, <1>2, <2>1, BeginningIs
  <2>4. gate'[1].task.id = i /\ gate'[1].task.what = "register" /\ gate'[1].task.socket = s
    BY <1>1, <2>3 DEF Tasks
  <2>5. OneAtATime'
    <3>1. wire'[gate'[1].task.socket].auth = Credential(w.id)
      BY <1>2, <2>1, <2>2, <2>4
    <3>2. QED  BY <1>1, <2>2, <2>3, <2>4, <3>1, OneWaits
  <2>6. Line'
    <3>1. \A o \in DOMAIN gate : /\ gate'[o].task.what = gate[o].task.what
                                 /\ gate'[o].task.socket = gate[o].task.socket
                                 /\ gate[o].task.what = "revoke" => gate'[o].task = gate[o].task
      BY <1>1, <2>3, <2>4
    <3>2. Minted' = Minted
      BY <2>1 DEF Minted
    <3>3. QED  BY <2>1, <2>3, <3>1, <3>2, LineStands
  <2>7. InTouch' /\ Spent' /\ Out'
    BY <2>1, <2>2, AskedFor
  <2>8. UnderWay'
    <3>1. \A k \in DOMAIN writes : writes[k].op \notin {"redeem", "touch", "revoke"}
      BY <1>1 DEF Awaited
    <3>2. QED  BY <1>3, <2>1, <2>2, <3>1, UnderWayAsked
  <2>9. QED  BY <2>5, <2>6, <2>7, <2>8
<1>4. CASE i \notin mem
  <2>1. /\ wire' = Refused(s, "unauthorized") /\ gate' = RemoveAt(gate, 1)
        /\ bought' = bought /\ writes' = writes /\ mem' = mem /\ disk' = disk /\ live' = live
        /\ revoked' = revoked /\ pairing' = pairing
    BY <1>1, <1>4 DEF RegisterByCredential
  <2>2. SameEnds(wire, wire') /\ SameHost(wire, wire', s)
    BY <1>1, <2>1, Refusing DEF RecordsInv, Shapes
  <2>3. QED  BY <1>1, <2>1, <2>2, RefusedRecords
<1>5. QED  BY <1>3, <1>4

\* A revocation asked for waits its turn.
LEMMA AskRevokeRecords ==
    ASSUME RecordsInv, NEW i \in Ids, AskRevoke(i)
    PROVE  OneAtATime' /\ Line' /\ InTouch' /\ Spent' /\ UnderWay' /\ Out'
<1> USE DEF AskRevoke
<1> DEFINE t == [task |-> Revoking(i), begun |-> FALSE]
<1>1. i \in Minted /\ i \in Nat /\ Minted' = Minted
    BY IdsAre DEF Minted
<1>2. t \in Tasks /\ ~t.begun /\ t.task = Revoking(i) /\ t.task.what = "revoke" /\ t.task.id = i
    BY <1>1 DEF Revoking, Tasks, None
<1> HIDE DEF t
<1>3. gate' = Append(gate, t)
    BY DEF t
<1>4. OneAtATime'
    BY <1>2, <1>3, WaitedOn
<1>5. Line'
    BY <1>1, <1>2, <1>3, LineGrows
<1>6. InTouch'
    BY <1>1 DEF RecordsInv, InTouch
<1>7. Spent'
    BY <1>1 DEF RecordsInv, Spent
<1>8. UnderWay' /\ Out'
    BY DEF RecordsInv, UnderWay, Out
<1>9. QED  BY <1>4, <1>5, <1>6, <1>7, <1>8

\* A revocation that starts: the record is out of memory, and its removal asked for.
LEMMA RevokeStartsRecords ==
    ASSUME RecordsInv, NEW n \in DOMAIN gate, RevokeStarts(n)
    PROVE  OneAtATime' /\ Line' /\ InTouch' /\ Spent' /\ UnderWay' /\ Out'
<1> DEFINE i == gate[1].task.id
<1>1. /\ n = 1 /\ 1 \in DOMAIN gate /\ gate[1] \in Tasks /\ gate[1].task.what = "revoke"
      /\ Starting(n) /\ gate \in Seq(Tasks) /\ writes \in Seq(Writes)
      /\ \A k \in DOMAIN writes : ~Awaited(k)
      /\ \A o \in DOMAIN gate : ~gate[o].begun
  <2>1. gate \in Seq(Tasks) /\ writes \in Seq(Writes)
    BY DEF RecordsInv, Shapes
  <2>2. gate[n].task.what = "revoke" /\ Starting(n)
    BY DEF RevokeStarts
  <2>3. \A o \in DOMAIN gate : gate[o].begun => o = 1
    BY DEF RecordsInv, OneAtATime
  <2>4. QED  BY <2>1, <2>2, <2>3, AtTheGate
<1>2. i \in Nat /\ i \in Minted
    BY <1>1, ShapesAre DEF RecordsInv, Line
<1>3. Minted' = Minted /\ bought' = bought /\ disk' = disk /\ pairing' = pairing
      /\ live' = live /\ revoked' = revoked /\ wire' = wire
    BY DEF RevokeStarts, Minted
<1>4. \A k \in DOMAIN writes : writes[k].op \notin {"redeem", "touch", "revoke"}
    BY <1>1 DEF Awaited
<1>5. CASE i \in mem
  <2>1. mem' = mem \ {i} /\ writes' = Persisted(mem', "revoke", i) /\ gate' = Begun(1)
    BY <1>1, <1>5 DEF RevokeStarts
  <2> DEFINE w == [ids |-> mem \ {i}, op |-> "revoke", id |-> i]
  <2>2. /\ w \in Writes /\ writes' = Append(writes, w) /\ w.ids = mem' /\ w.id = i /\ w.op = "revoke"
        /\ w.id \in Minted
    <3>1. mem \ {i} \in SUBSET Nat
      BY IdsAre
    <3>2. w \in Writes /\ Persisted(mem \ {i}, "revoke", i) = Append(writes, w)
      BY <1>1, <1>2, <3>1, AskingIs
    <3>3. QED  BY <1>2, <2>1, <3>2
  <2> HIDE DEF w
  <2>3. /\ DOMAIN gate' = DOMAIN gate /\ gate'[1].begun /\ gate'[1].task = gate[1].task
        /\ \A o \in DOMAIN gate : o # 1 => gate'[o] = gate[o]
    BY <1>1, <2>1, BeginningIs
  <2>4. OneAtATime'
    BY <1>1, <2>2, <2>3, OneWaits
  <2>5. Line'
    <3>1. \A o \in DOMAIN gate : gate'[o].task = gate[o].task
      BY <1>1, <2>3
    <3>2. QED  BY <1>3, <2>3, <3>1, LineStands
  <2>6. InTouch' /\ Spent' /\ Out'
    BY <1>3, <2>1, <2>2, AskedFor
  <2>7. UnderWay'
    <3>1. i \notin revoked /\ i \notin mem'
      BY <1>5, <2>1 DEF RecordsInv, Out
    <3>2. QED  BY <1>3, <1>4, <2>2, <3>1, UnderWayAsked
  <2>8. QED  BY <2>4, <2>5, <2>6, <2>7
<1>6. CASE i \notin mem
  <2>1. gate' = RemoveAt(gate, 1) /\ writes' = writes /\ mem' = mem
    BY <1>1, <1>6 DEF RevokeStarts
  <2>2. OneAtATime'
    <3>1. \A o \in DOMAIN gate' : ~gate'[o].begun
      BY <1>1, <2>1, TaskDone
    <3>2. QED  BY <1>4, <2>1, <3>1, NobodyWaits
  <2>3. Line'
    BY <1>1, <1>3, <2>1, LineMoves
  <2>4. InTouch'
    BY <1>3 DEF RecordsInv, InTouch
  <2>5. Spent'
    BY <1>3, <2>1 DEF RecordsInv, Spent
  <2>6. UnderWay' /\ Out'
    BY <1>3, <2>1 DEF RecordsInv, UnderWay, Out
  <2>7. QED  BY <2>2, <2>3, <2>4, <2>5, <2>6
<1>7. QED  BY <1>5, <1>6

\* A heartbeat: its record is written again, or the worker of it is shown out.
LEMMA BeatRecords ==
    ASSUME RecordsInv, NEW s \in Sockets, WorkerBeats(s)
    PROVE  OneAtATime' /\ Line' /\ InTouch' /\ Spent' /\ UnderWay' /\ Out'
<1> DEFINE i == wire[s].id
           c == live[i]
<1>1. /\ i \in Minted /\ i \in Ids /\ i \in Nat /\ c \in Sockets /\ wire[c].id = i
      /\ wire[c].host \in {"in", "closing"} /\ wire \in [Sockets -> Conns] /\ writes \in Seq(Writes)
  <2>1. i # None /\ c # None
    BY DEF WorkerBeats
  <2>2. i \in Minted /\ wire \in [Sockets -> Conns] /\ writes \in Seq(Writes)
        /\ live \in [Ids -> Sockets \cup {None}]
    BY <2>1 DEF RecordsInv, Spent, Shapes
  <2>3. i \in Ids /\ i \in Nat
    BY <2>2, IdsAre
  <2>4. c \in Sockets
    BY <2>1, <2>2, <2>3
  <2>5. QED  BY <2>1, <2>2, <2>3, <2>4 DEF RecordsInv, InTouch
<1>2. /\ mem' = mem /\ gate' = gate /\ bought' = bought /\ disk' = disk /\ pairing' = pairing
      /\ revoked' = revoked /\ Minted' = Minted
    BY DEF WorkerBeats, Touched, Minted
<1>3. CASE i \in mem
  <2>1. writes' = Persisted(mem, "beat", i) /\ live' = live /\ wire' = wire
    BY <1>2, <1>3 DEF WorkerBeats
  <2> DEFINE w == [ids |-> mem, op |-> "beat", id |-> i]
  <2>2. /\ w \in Writes /\ writes' = Append(writes, w) /\ w.ids = mem' /\ w.id = i /\ w.op = "beat"
    <3>1. w \in Writes /\ Persisted(mem, "beat", i) = Append(writes, w)
      BY <1>1, AskingIs, IdsAre
    <3>2. QED  BY <1>2, <2>1, <3>1
  <2> HIDE DEF w
  <2>3. OneAtATime'
    BY <1>2, <2>1, <2>2, WaitedOn
  <2>4. Line'
    BY <1>2, <2>1, LineStands
  <2>5. InTouch' /\ Spent' /\ Out'
    BY <1>1, <1>2, <2>1, <2>2, AskedFor
  <2>6. UnderWay'
    <3>1. \A k \in DOMAIN writes : /\ writes[k].op \in {"redeem", "touch"} => writes[k].id \in mem'
                                   /\ writes[k].op = "revoke" => writes[k].id \notin mem'
      BY <1>2 DEF RecordsInv, UnderWay
    <3>2. QED  BY <1>2, <2>2, <3>1, UnderWayAsked
  <2>7. QED  BY <2>3, <2>4, <2>5, <2>6
<1>4. CASE i \notin mem
  <2>1. /\ writes' = writes /\ live' = [live EXCEPT ![i] = None]
        /\ wire' = Shutting(Told(wire, c, RevokedFrame), c)
    BY <1>2, <1>4 DEF WorkerBeats
  <2>2. SameEnds(wire, wire') /\ SameHost(wire, wire', c)
    <3> DEFINE v == Told(wire, c, RevokedFrame)
    <3>1. v \in [Sockets -> Conns] /\ SameEnds(wire, v) /\ \A r \in Sockets : v[r].host = wire[r].host
      BY <1>1, Telling, FramesAre
    <3> HIDE DEF v
    <3>2. SameEnds(v, Shutting(v, c)) /\ SameHost(v, Shutting(v, c), c)
      BY <1>1, <3>1, Closing
    <3>3. wire' = Shutting(v, c)
      BY <2>1 DEF v
    <3>4. QED  BY <3>1, <3>2, <3>3 DEF SameEnds, SameHost
  <2>3. \A r \in Sockets : wire[r].host = "queued" => wire'[r].host = "queued"
    BY <1>1, <2>2 DEF SameHost
  <2>4. OneAtATime'
    BY <1>2, <2>1, <2>2, WaitedOn DEF SameEnds
  <2>5. Line'
    BY <1>2, <2>3, LineStands
  <2>6. InTouch'
    <3> SUFFICES ASSUME NEW j \in Ids, live'[j] # None
                 PROVE  /\ j \in Minted /\ wire'[live'[j]].id = j
                        /\ wire'[live'[j]].host \in {"in", "closing"}
      BY <1>2 DEF InTouch, Ids
    <3>1. live'[j] = live[j] /\ j # i /\ live[j] \in Sockets
      BY <2>1 DEF RecordsInv, Shapes
    <3>2. /\ j \in Minted /\ wire[live[j]].id = j /\ wire[live[j]].host \in {"in", "closing"}
      BY <3>1 DEF RecordsInv, InTouch
    <3>3. live[j] # c
      BY <1>1, <3>1, <3>2
    <3>4. QED  BY <2>2, <3>1, <3>2, <3>3 DEF SameEnds, SameHost
  <2>7. Spent'
    BY <1>2, <2>1, <2>2 DEF RecordsInv, Spent, SameEnds
  <2>8. UnderWay'
    BY <1>2, <2>1 DEF RecordsInv, UnderWay
  <2>9. Out'
    <3>1. \A j \in revoked : j \in Ids /\ live[j] = None => live'[j] = None
      BY <2>1 DEF RecordsInv, Shapes
    <3>2. revoked \subseteq Ids
      BY IdsAre DEF RecordsInv, Spent
    <3>3. QED  BY <1>2, <2>1, <3>1, <3>2 DEF RecordsInv, Out
  <2>10. QED  BY <2>4, <2>5, <2>6, <2>7, <2>8, <2>9
<1>5. QED  BY <1>3, <1>4

\* A register frame joins the line, and its connection is in it once.
LEMMA HearRecords ==
    ASSUME RecordsInv, NEW s \in Sockets, HearRegister(s)
    PROVE  OneAtATime' /\ Line' /\ InTouch' /\ Spent' /\ UnderWay' /\ Out'
<1> DEFINE t == [task |-> Registering(s), begun |-> FALSE]
<1>1. t \in Tasks /\ ~t.begun /\ t.task.what = "register" /\ t.task.socket = s
    BY ShapesAre DEF Registering, Tasks, None
<1> HIDE DEF t
<1>2. /\ gate' = Append(gate, t) /\ wire' = [wire EXCEPT ![s].host = "queued"]
      /\ mem' = mem /\ bought' = bought /\ disk' = disk /\ writes' = writes /\ pairing' = pairing
      /\ live' = live /\ revoked' = revoked /\ wire[s].host = "fresh" /\ Minted' = Minted
    BY DEF HearRegister, t, Minted
<1>3. wire \in [Sockets -> Conns]
    BY DEF RecordsInv, Shapes
<1>4. /\ \A r \in Sockets : wire'[r].auth = wire[r].auth /\ wire'[r].id = wire[r].id
      /\ \A r \in Sockets : r # s => wire'[r].host = wire[r].host
      /\ wire'[s].host = "queued"
    BY <1>2, <1>3 DEF Conns
<1>5. OneAtATime'
    BY <1>1, <1>2, <1>4, WaitedOn
<1>6. Line'
    <2>1. \A r \in Sockets : wire[r].host = "queued" => wire'[r].host = "queued"
      BY <1>4
    <2>2. QED  BY <1>1, <1>2, <1>4, <2>1, LineGrows
<1>7. InTouch'
    BY <1>2, <1>4 DEF RecordsInv, InTouch, Shapes
<1>8. Spent'
    BY <1>2, <1>4 DEF RecordsInv, Spent
<1>9. UnderWay' /\ Out'
    BY <1>2 DEF RecordsInv, UnderWay, Out
<1>10. QED  BY <1>5, <1>6, <1>7, <1>8, <1>9

\* A connection closed leaves the worker it carried without one.
LEMMA CloseRecords ==
    ASSUME RecordsInv, NEW s \in Sockets, HostSeesClose(s)
    PROVE  OneAtATime' /\ Line' /\ InTouch' /\ Spent' /\ UnderWay' /\ Out'
<1>1. wire \in [Sockets -> Conns] /\ live \in [Ids -> Sockets \cup {None}]
    BY DEF RecordsInv, Shapes
<1>2. /\ wire' = [CutOff(wire, s) EXCEPT ![s].host = "shut"]
      /\ mem' = mem /\ bought' = bought /\ disk' = disk /\ writes' = writes /\ pairing' = pairing
      /\ gate' = gate /\ revoked' = revoked /\ wire[s].host # "queued" /\ Minted' = Minted
      /\ live' = IF wire[s].id # None /\ live[wire[s].id] = s
                 THEN [live EXCEPT ![wire[s].id] = None] ELSE live
    BY DEF HostSeesClose, Minted, Evicted
<1>3. /\ \A r \in Sockets : wire'[r].auth = wire[r].auth /\ wire'[r].id = wire[r].id
      /\ \A r \in Sockets : r # s => wire'[r].host = wire[r].host
  <2> DEFINE v == CutOff(wire, s)
  <2>1. v \in [Sockets -> Conns] /\ SameEnds(wire, v) /\ \A r \in Sockets : v[r].host = wire[r].host
    BY <1>1, Cutting
  <2>2. wire' = [v EXCEPT ![s].host = "shut"]
    BY <1>2
  <2> HIDE DEF v
  <2>3. QED  BY <2>1, <2>2 DEF SameEnds, Conns
<1>4. \A r \in Sockets : wire[r].host = "queued" => wire'[r].host = "queued"
    BY <1>2, <1>3
<1>5. OneAtATime'
    BY <1>2, <1>3, WaitedOn
<1>6. Line'
    BY <1>2, <1>4, LineStands
<1>7. InTouch'
  <2> SUFFICES ASSUME NEW j \in Ids, live'[j] # None
               PROVE  /\ j \in Minted /\ wire'[live'[j]].id = j
                      /\ wire'[live'[j]].host \in {"in", "closing"}
    BY <1>2 DEF InTouch, Ids
  <2>1. live'[j] = live[j] /\ live[j] \in Sockets
    BY <1>1, <1>2
  <2>2. /\ j \in Minted /\ wire[live[j]].id = j /\ wire[live[j]].host \in {"in", "closing"}
    BY <2>1 DEF RecordsInv, InTouch
  <2>3. live[j] # s
    BY <1>1, <1>2, <2>1, <2>2, IdsAre
  <2>4. QED  BY <1>3, <2>1, <2>2, <2>3
<1>8. Spent'
    BY <1>2, <1>3 DEF RecordsInv, Spent
<1>9. UnderWay'
    BY <1>2 DEF RecordsInv, UnderWay
<1>10. Out'
  <2>1. \A j \in revoked : j \in Ids /\ live[j] = None => live'[j] = None
    BY <1>1, <1>2
  <2>2. revoked \subseteq Ids
    BY IdsAre DEF RecordsInv, Spent
  <2>3. QED  BY <1>2, <2>1, <2>2 DEF RecordsInv, Out
<1>11. QED  BY <1>5, <1>6, <1>7, <1>8, <1>9, <1>10

\* A restart leaves the records on disk, and nobody at the gate.
LEMMA RestartRecords ==
    ASSUME RecordsInv, HostRestarts
    PROVE  OneAtATime' /\ Line' /\ InTouch' /\ Spent' /\ UnderWay' /\ Out'
<1>1. wire \in [Sockets -> Conns] /\ pairing \in [Tokens -> {"unminted", "live", "lapsed", "gone"}]
    BY DEF RecordsInv, Shapes
<1>2. /\ mem' = disk /\ bought' = bought /\ disk' = disk /\ revoked' = revoked /\ Minted' = Minted
      /\ DOMAIN writes' = {} /\ DOMAIN gate' = {}
      /\ live' = [i \in Ids |-> None]
      /\ pairing' = [t \in Tokens |-> IF pairing[t] = "unminted" THEN "unminted" ELSE "gone"]
    BY DEF HostRestarts, Minted
<1>3. \A r \in Sockets : wire'[r].id = wire[r].id
  <2> SUFFICES ASSUME NEW r \in Sockets PROVE wire'[r].id = wire[r].id
    OBVIOUS
  <2>1. wire'[r] = [CutOff(wire, r)[r] EXCEPT !.host = "shut"]
    BY DEF HostRestarts
  <2>2. CutOff(wire, r)[r].id = wire[r].id /\ CutOff(wire, r)[r] \in Conns
    BY <1>1, Cutting DEF SameEnds
  <2>3. QED  BY <2>1, <2>2 DEF Conns
<1>4. OneAtATime' /\ Line' /\ UnderWay'
    BY <1>2 DEF OneAtATime, Line, UnderWay
<1>5. InTouch'
    BY <1>2 DEF InTouch, Ids
<1>6. Spent'
  <2>1. \A i \in Minted : bought[i] \in Tokens /\ pairing[bought[i]] = "gone"
    BY DEF RecordsInv, Spent, Minted, Shapes
  <2>2. \A i \in Minted : pairing'[bought[i]] = "gone"
    BY <1>2, <2>1
  <2>3. QED  BY <1>2, <1>3, <2>2 DEF RecordsInv, Spent, Ids
<1>7. Out'
  <2>1. revoked \subseteq Ids
    BY IdsAre DEF RecordsInv, Spent
  <2>2. QED  BY <1>2, <2>1 DEF RecordsInv, Out
<1>8. QED  BY <1>4, <1>5, <1>6, <1>7

-----------------------------------------------------------------------------
(* A write done, and what waited for it *)

\* A connection let in: it has its enrollment, and no other connection is changed
\* but by what it no longer carries.
LEMMA Installing ==
    ASSUME RecordsInv, NEW s \in Sockets, NEW i \in Ids, NEW fresh \in BOOLEAN
    PROVE  /\ Installed(s, i, fresh)[s].id = i /\ Installed(s, i, fresh)[s].host = "in"
           /\ \A r \in Sockets : /\ Installed(s, i, fresh)[r].auth = wire[r].auth
                                 /\ Installed(s, i, fresh)[r].of = wire[r].of
                                 /\ Installed(s, i, fresh)[r].mine = wire[r].mine
           /\ \A r \in Sockets : r # s => /\ Installed(s, i, fresh)[r].id = wire[r].id
                                          /\ Installed(s, i, fresh)[r].host = wire[r].host
           /\ HearsOnly(wire, Installed(s, i, fresh), s, Registered(i, fresh))
<1> DEFINE w == [wire EXCEPT ![s].id = i, ![s].host = "in"]
           v == Told(w, s, Registered(i, fresh))
           u == Installed(s, i, fresh)
<1>1. wire \in [Sockets -> Conns] /\ live[i] \in Sockets \cup {None} /\ i \in Nat
    BY DEF RecordsInv, Shapes, Ids
<1>2. w \in [Sockets -> Conns]
  <2>1. [wire[s] EXCEPT !.id = i, !.host = "in"] \in Conns
    BY <1>1, Changed
  <2>2. w = [wire EXCEPT ![s] = [wire[s] EXCEPT !.id = i, !.host = "in"]]
    BY <1>1
  <2>3. QED  BY <1>1, <2>1, <2>2
<1>3. /\ w[s].id = i /\ w[s].host = "in"
      /\ \A r \in Sockets : /\ w[r].auth = wire[r].auth /\ w[r].of = wire[r].of
                            /\ w[r].mine = wire[r].mine /\ w[r].says = wire[r].says
      /\ \A r \in Sockets : r # s => w[r].id = wire[r].id /\ w[r].host = wire[r].host
    BY <1>1 DEF Conns
<1>4. u = IF live[i] = None THEN v ELSE CutOff(v, live[i])
    BY DEF Installed
<1> HIDE DEF w, u
<1>5. /\ v \in [Sockets -> Conns] /\ SameEnds(w, v) /\ HearsOnly(w, v, s, Registered(i, fresh))
      /\ \A r \in Sockets : v[r].host = w[r].host
    BY <1>1, <1>2, Telling, FramesAre
<1> HIDE DEF v
<1>6. /\ SameEnds(v, u) /\ HearsNoMore(v, u) /\ \A r \in Sockets : u[r].host = v[r].host
  <2>1. CASE live[i] = None
    BY <1>4, <2>1 DEF SameEnds, HearsNoMore
  <2>2. CASE live[i] \in Sockets /\ live[i] # None
    BY <1>4, <1>5, <2>2, Cutting
  <2>3. QED  BY <1>1, <2>1, <2>2
<1>7. HearsOnly(wire, u, s, Registered(i, fresh))
    BY <1>3, <1>5, <1>6 DEF HearsOnly, HearsNoMore
<1>8. /\ u[s].id = i /\ u[s].host = "in"
      /\ \A r \in Sockets : u[r].auth = wire[r].auth /\ u[r].of = wire[r].of /\ u[r].mine = wire[r].mine
      /\ \A r \in Sockets : r # s => u[r].id = wire[r].id /\ u[r].host = wire[r].host
    BY <1>3, <1>5, <1>6 DEF SameEnds
<1>9. QED  BY <1>7, <1>8 DEF u

\* What a write done leaves: nobody at the gate waits, and the others come nearer.
LEMMA NobodyLeft ==
    ASSUME RecordsInv, writes # <<>>, Waited, writes' = Tail(writes), gate' = RemoveAt(gate, 1)
    PROVE  /\ OneAtATime'
           /\ \A k \in DOMAIN writes' : /\ k + 1 \in DOMAIN writes /\ writes'[k] = writes[k + 1]
                                        /\ k + 1 # 1 /\ k + 1 >= 1
           /\ \A k \in DOMAIN writes : k # 1 => writes[k].op \notin {"redeem", "touch", "revoke"}
<1>1. gate \in Seq(Tasks) /\ writes \in Seq(Writes)
    BY DEF RecordsInv, Shapes
<1>2. 1 \in DOMAIN gate /\ \A k \in DOMAIN writes : k # 1 => ~Awaited(k)
    BY AtTheHead
<1>3. \A n \in DOMAIN gate : gate[n].begun => n = 1
    BY DEF RecordsInv, OneAtATime
<1>4. \A n \in DOMAIN gate' : ~gate'[n].begun
    BY <1>1, <1>2, <1>3, TaskDone
<1>5. \A k \in DOMAIN writes' : /\ k + 1 \in DOMAIN writes /\ writes'[k] = writes[k + 1]
                                /\ k \in Nat /\ k + 1 # 1
    BY <1>1, WriteDone
<1>6. \A k \in DOMAIN writes' : k + 1 >= 1
    BY <1>5
<1>7. \A k \in DOMAIN writes : k # 1 => writes[k].op \notin {"redeem", "touch", "revoke"}
    BY <1>2 DEF Awaited
<1>8. \A k \in DOMAIN writes' : writes'[k].op \notin {"redeem", "touch", "revoke"}
    BY <1>5, <1>7
<1>9. QED  BY <1>4, <1>5, <1>6, <1>7, <1>8, NobodyWaits

\* The registration that waited is let in.
LEMMA RegisterLandsRecords ==
    ASSUME RecordsInv, WriteLands, Waited, RegisterLands(1)
    PROVE  OneAtATime' /\ Line' /\ InTouch' /\ Spent' /\ UnderWay' /\ Out'
<1> DEFINE i == writes[1].id
           s == gate[1].task.socket
<1>1. /\ writes # <<>> /\ writes' = Tail(writes) /\ gate' = RemoveAt(gate, 1) /\ disk' = writes[1].ids
      /\ mem' = mem /\ bought' = bought /\ pairing' = pairing /\ Minted' = Minted
  <2>1. writes # <<>>
    BY DEF WriteLands
  <2>2. QED  BY <2>1, AtTheHead DEF WriteLands, Minted
<1>2. /\ 1 \in DOMAIN writes /\ Head(writes) = writes[1] /\ writes[1] \in Writes /\ i \in Minted
      /\ 1 \in DOMAIN gate /\ s \in Sockets /\ wire[s].host = "queued"
      /\ writes[1].op \in {"redeem", "touch"} /\ gate[1].task.what = "register"
  <2>1. gate[1].task.what = "register"
    BY DEF RegisterLands
  <2>2. writes[1].op # "revoke" /\ Awaited(1)
    BY <1>1, <2>1, AtTheHead
  <2>3. QED  BY <1>1, <2>1, <2>2, AtTheHead DEF Awaited
<1>3. i \in mem /\ i \in Ids
    BY <1>2, IdsAre DEF RecordsInv, UnderWay
<1>4. /\ wire' = Installed(s, i, Head(writes).op = "redeem")
      /\ live' = [live EXCEPT ![i] = s] /\ revoked' = revoked
    BY <1>2, <1>3 DEF RegisterLands
<1>5. /\ wire'[s].id = i /\ wire'[s].host = "in"
      /\ \A r \in Sockets : r # s => wire'[r].id = wire[r].id /\ wire'[r].host = wire[r].host
  <2> DEFINE b == Head(writes).op = "redeem"
  <2>1. b \in BOOLEAN /\ wire' = Installed(s, i, b)
    BY <1>4
  <2> HIDE DEF b, s, i
  <2>2. /\ Installed(s, i, b)[s].id = i /\ Installed(s, i, b)[s].host = "in"
        /\ \A r \in Sockets : r # s => /\ Installed(s, i, b)[r].id = wire[r].id
                                       /\ Installed(s, i, b)[r].host = wire[r].host
    BY <1>2, <1>3, <2>1, Installing
  <2>3. QED  BY <2>1, <2>2
<1>6. /\ OneAtATime'
      /\ \A k \in DOMAIN writes' : k + 1 \in DOMAIN writes /\ writes'[k] = writes[k + 1]
      /\ \A k \in DOMAIN writes : k # 1 => writes[k].op \notin {"redeem", "touch", "revoke"}
    BY <1>1, NobodyLeft
<1>7. Line'
    BY <1>1, <1>2, <1>5, LineMoves
<1>8. InTouch'
  <2> SUFFICES ASSUME NEW j \in Ids, live'[j] # None
               PROVE  /\ j \in Minted /\ wire'[live'[j]].id = j
                      /\ wire'[live'[j]].host \in {"in", "closing"}
    BY <1>1 DEF InTouch, Ids
  <2>1. live \in [Ids -> Sockets \cup {None}]
    BY DEF RecordsInv, Shapes
  <2>2. CASE j = i
    BY <1>2, <1>3, <1>4, <1>5, <2>1, <2>2
  <2>3. CASE j # i
    <3>1. live'[j] = live[j] /\ live[j] \in Sockets
      BY <1>4, <2>1, <2>3
    <3>2. /\ j \in Minted /\ wire[live[j]].id = j /\ wire[live[j]].host \in {"in", "closing"}
      BY <3>1 DEF RecordsInv, InTouch
    <3>3. live[j] # s
      BY <1>2, <3>2
    <3>4. QED  BY <1>5, <3>1, <3>2, <3>3
  <2>4. QED  BY <2>2, <2>3
<1>9. Spent'
  <2>1. disk' \subseteq Minted
    BY <1>1, <1>2 DEF RecordsInv, Spent
  <2>2. \A k \in DOMAIN writes' : writes'[k].ids \subseteq Minted /\ writes'[k].id \in Minted
    BY <1>6 DEF RecordsInv, Spent
  <2>3. \A r \in Sockets : wire'[r].id \in Minted \cup {None}
    BY <1>2, <1>5 DEF RecordsInv, Spent
  <2>4. QED  BY <1>1, <1>4, <2>1, <2>2, <2>3 DEF RecordsInv, Spent, Ids
<1>10. UnderWay'
    BY <1>1, <1>6, UnderWayDone
<1>11. Out'
  <2> SUFFICES ASSUME NEW j \in revoked
               PROVE  /\ j \notin mem /\ j \notin disk' /\ live'[j] = None
                      /\ \A k \in DOMAIN writes' : j \notin writes'[k].ids
    BY <1>1, <1>4 DEF Out
  <2>1. /\ j \notin mem /\ live[j] = None /\ \A k \in DOMAIN writes : j \notin writes[k].ids
    BY DEF RecordsInv, Out
  <2>2. j # i
    BY <1>3, <2>1
  <2>3. live'[j] = None
    BY <1>4, <2>1, <2>2 DEF RecordsInv, Shapes
  <2>4. QED  BY <1>1, <1>2, <1>6, <2>1, <2>3
<1>12. QED  BY <1>6, <1>7, <1>8, <1>9, <1>10, <1>11

\* The revocation that waited is done: reported, and nothing left of the worker.
LEMMA RevokeLandsRecords ==
    ASSUME RecordsInv, WriteLands, Waited, RevokeLands(1)
    PROVE  OneAtATime' /\ Line' /\ InTouch' /\ Spent' /\ UnderWay' /\ Out'
<1> DEFINE i == writes[1].id
           c == live[i]
<1>1. /\ writes # <<>> /\ writes' = Tail(writes) /\ gate' = RemoveAt(gate, 1) /\ disk' = writes[1].ids
      /\ mem' = mem /\ bought' = bought /\ pairing' = pairing /\ Minted' = Minted
  <2>1. writes # <<>>
    BY DEF WriteLands
  <2>2. QED  BY <2>1, AtTheHead DEF WriteLands, Minted
<1>2. /\ 1 \in DOMAIN writes /\ Head(writes) = writes[1] /\ writes[1] \in Writes /\ i \in Minted
      /\ 1 \in DOMAIN gate /\ writes[1].op = "revoke" /\ gate[1].task.what = "revoke"
  <2>1. gate[1].task.what = "revoke"
    BY DEF RevokeLands
  <2>2. QED  BY <1>1, <2>1, AtTheHead
<1>3. /\ i \in Ids /\ wire \in [Sockets -> Conns] /\ live \in [Ids -> Sockets \cup {None}]
    BY <1>2, IdsAre DEF RecordsInv, Shapes
<1>4. /\ revoked' = revoked \cup {i} /\ live' = [live EXCEPT ![i] = None]
      /\ wire' = IF c = None THEN wire ELSE Shutting(Told(wire, c, RevokedFrame), c)
    BY <1>2 DEF RevokeLands
<1>5. SameEnds(wire, wire') /\ \A r \in Sockets : r # c => wire'[r].host = wire[r].host
  <2>1. CASE c = None
    BY <1>4, <2>1 DEF SameEnds
  <2>2. CASE c \in Sockets /\ c # None
    <3> DEFINE v == Told(wire, c, RevokedFrame)
    <3>1. v \in [Sockets -> Conns] /\ SameEnds(wire, v) /\ \A r \in Sockets : v[r].host = wire[r].host
      BY <1>3, <2>2, Telling, FramesAre
    <3> HIDE DEF v
    <3>2. SameEnds(v, Shutting(v, c)) /\ SameHost(v, Shutting(v, c), c)
      BY <2>2, <3>1, Closing
    <3>3. wire' = Shutting(v, c)
      BY <1>4, <2>2 DEF v
    <3>4. QED  BY <3>1, <3>2, <3>3 DEF SameEnds, SameHost
  <2>3. QED  BY <1>3, <2>1, <2>2
<1>6. /\ OneAtATime'
      /\ \A k \in DOMAIN writes' : k + 1 \in DOMAIN writes /\ writes'[k] = writes[k + 1] /\ k + 1 >= 1
      /\ \A k \in DOMAIN writes : k # 1 => writes[k].op \notin {"redeem", "touch", "revoke"}
    BY <1>1, NobodyLeft
<1>7. Line'
  <2>1. \A r \in Sockets : wire[r].host = "queued" => wire'[r].host = "queued"
    <3>1. \A r \in Sockets : r = c => wire[r].host \in {"in", "closing"}
      BY <1>3, ShapesAre DEF RecordsInv, InTouch
    <3>2. QED  BY <1>5, <3>1
  <2>2. QED  BY <1>1, <1>2, <2>1, LineMoves
<1>8. InTouch'
  <2> SUFFICES ASSUME NEW j \in Ids, live'[j] # None
               PROVE  /\ j \in Minted /\ wire'[live'[j]].id = j
                      /\ wire'[live'[j]].host \in {"in", "closing"}
    BY <1>1 DEF InTouch, Ids
  <2>1. live'[j] = live[j] /\ live[j] \in Sockets /\ j # i
    BY <1>3, <1>4
  <2>2. /\ j \in Minted /\ wire[live[j]].id = j /\ wire[live[j]].host \in {"in", "closing"}
    BY <2>1 DEF RecordsInv, InTouch
  <2>3. live[j] # c
    <3>1. c # None => wire[c].id = i
      BY <1>3 DEF RecordsInv, InTouch
    <3>2. QED  BY <2>1, <2>2, <3>1, ShapesAre
  <2>4. QED  BY <1>5, <2>1, <2>2, <2>3 DEF SameEnds
<1>9. Spent'
  <2>1. disk' \subseteq Minted /\ revoked' \subseteq Minted
    BY <1>1, <1>2, <1>4 DEF RecordsInv, Spent
  <2>2. \A k \in DOMAIN writes' : writes'[k].ids \subseteq Minted /\ writes'[k].id \in Minted
    BY <1>6 DEF RecordsInv, Spent
  <2>3. \A r \in Sockets : wire'[r].id \in Minted \cup {None}
    BY <1>5 DEF RecordsInv, Spent, SameEnds
  <2>4. QED  BY <1>1, <2>1, <2>2, <2>3 DEF RecordsInv, Spent, Ids
<1>10. UnderWay'
    BY <1>1, <1>6, UnderWayDone
<1>11. Out'
  <2> SUFFICES ASSUME NEW j \in revoked \cup {i}
               PROVE  /\ j \notin mem /\ j \notin disk' /\ live'[j] = None
                      /\ \A k \in DOMAIN writes' : j \notin writes'[k].ids
    BY <1>1, <1>4 DEF Out
  <2>1. /\ j \notin mem /\ \A k \in DOMAIN writes : k >= 1 => j \notin writes[k].ids
        /\ j # i => live[j] = None
    <3>1. CASE j = i
      BY <1>2, <3>1 DEF RecordsInv, UnderWay
    <3>2. CASE j \in revoked
      BY <3>2 DEF RecordsInv, Out
    <3>3. QED  BY <3>1, <3>2
  <2>2. live'[j] = None
    BY <1>3, <1>4, <2>1
  <2>3. j \notin disk'
    BY <1>1, <1>2, <2>1
  <2>4. \A k \in DOMAIN writes' : j \notin writes'[k].ids
    BY <1>6, <2>1
  <2>5. QED  BY <2>1, <2>2, <2>3, <2>4
<1>12. QED  BY <1>6, <1>7, <1>8, <1>9, <1>10, <1>11

\* A write nobody waits for is on disk.
LEMMA BeatLandsRecords ==
    ASSUME RecordsInv, WriteLands, ~Waited
    PROVE  OneAtATime' /\ Line' /\ InTouch' /\ Spent' /\ UnderWay' /\ Out'
<1>1. /\ writes # <<>> /\ writes' = Tail(writes) /\ disk' = writes[1].ids /\ 1 \in DOMAIN writes
      /\ mem' = mem /\ bought' = bought /\ pairing' = pairing /\ Minted' = Minted /\ gate' = gate
      /\ live' = live /\ wire' = wire /\ revoked' = revoked
  <2>1. writes # <<>>
    BY DEF WriteLands
  <2>2. QED  BY <2>1, AtTheHead DEF WriteLands, Minted
<1>2. \A k \in DOMAIN writes' : k + 1 \in DOMAIN writes /\ writes'[k] = writes[k + 1]
  <2>1. writes \in Seq(Writes)
    BY DEF RecordsInv, Shapes
  <2>2. QED  BY <1>1, <2>1, WriteDone
<1>3. OneAtATime'
    BY <1>1, WaitedOn
<1>4. Line'
    BY <1>1, LineStands
<1>5. InTouch'
    BY <1>1 DEF RecordsInv, InTouch
<1>6. Spent'
    BY <1>1, <1>2 DEF RecordsInv, Spent
<1>7. UnderWay'
    BY <1>1, UnderWayDone DEF RecordsInv, UnderWay
<1>8. Out'
    BY <1>1, <1>2 DEF RecordsInv, Out
<1>9. QED  BY <1>3, <1>4, <1>5, <1>6, <1>7, <1>8

\* A write lands, whoever waited for it.
LEMMA WriteLandsRecords ==
    ASSUME RecordsInv, WriteLands
    PROVE  OneAtATime' /\ Line' /\ InTouch' /\ Spent' /\ UnderWay' /\ Out'
<1>1. CASE ~Waited
    BY <1>1, BeatLandsRecords
<1>2. CASE Waited
  <2>1. writes # <<>>
    BY DEF WriteLands
  <2>2. RegisterLands(1) \/ RevokeLands(1)
    BY <1>2, <2>1, AtTheHead DEF WriteLands
  <2>3. QED  BY <1>2, <2>2, RegisterLandsRecords, RevokeLandsRecords
<1>3. QED  BY <1>1, <1>2

\* A write fails: what it was for is undone in memory, and who waited is refused.
LEMMA WriteFailsRecords ==
    ASSUME RecordsInv, WriteFails
    PROVE  OneAtATime' /\ Line' /\ InTouch' /\ Spent' /\ UnderWay' /\ Out'
<1> DEFINE i == writes[1].id
           op == writes[1].op
<1>1. /\ writes # <<>> /\ writes' = Tail(writes) /\ disk' = disk /\ bought' = bought
      /\ pairing' = pairing /\ Minted' = Minted /\ live' = live /\ revoked' = revoked
    BY DEF WriteFails, Minted
<1>2. /\ 1 \in DOMAIN writes /\ Head(writes) = writes[1] /\ i \in Minted /\ writes[1] \in Writes
      /\ Waited = Awaited(1)
    BY <1>1, AtTheHead
<1>3. /\ mem' = CASE op = "redeem" -> mem \ {i}
                  [] op = "revoke" -> mem \cup {i}
                  [] OTHER -> mem
    BY <1>2 DEF WriteFails
<1>4. \A k \in DOMAIN writes' : k + 1 \in DOMAIN writes /\ writes'[k] = writes[k + 1]
  <2>1. writes \in Seq(Writes)
    BY DEF RecordsInv, Shapes
  <2>2. QED  BY <1>1, <2>1, WriteDone
<1>5. mem' \subseteq Minted
    BY <1>2, <1>3, IdsAre
<1>6. Out'
  <2>1. op = "revoke" => i \notin revoked
    BY <1>2 DEF RecordsInv, UnderWay
  <2>2. \A j \in revoked : j \notin mem'
    BY <1>3, <2>1 DEF RecordsInv, Out
  <2>3. QED  BY <1>1, <1>4, <2>2 DEF RecordsInv, Out
<1>7. CASE ~Waited
  <2>1. op \notin {"redeem", "touch", "revoke"}
    BY <1>2, <1>7 DEF Awaited
  <2>2. mem' = mem /\ gate' = gate /\ wire' = wire
    BY <1>3, <1>7, <2>1 DEF WriteFails
  <2>3. OneAtATime'
    BY <1>1, <1>7, <2>2, WaitedOn
  <2>4. Line'
    BY <1>1, <2>2, LineStands
  <2>5. InTouch'
    BY <1>1, <2>2 DEF RecordsInv, InTouch
  <2>6. Spent'
    BY <1>1, <1>4, <2>2 DEF RecordsInv, Spent
  <2>7. UnderWay'
    BY <1>1, <2>2, UnderWayDone DEF RecordsInv, UnderWay
  <2>8. QED  BY <1>6, <2>3, <2>4, <2>5, <2>6, <2>7
<1>8. CASE Waited
  <2> DEFINE s == gate[1].task.socket
  <2>1. /\ gate' = RemoveAt(gate, 1) /\ 1 \in DOMAIN gate
        /\ wire' = IF op = "revoke" THEN wire ELSE Refused(s, "malformed")
    BY <1>1, <1>2, <1>8, AtTheHead DEF WriteFails
  <2>2. op # "revoke" => /\ gate[1].task.what = "register" /\ s \in Sockets
                         /\ wire[s].host = "queued"
    BY <1>1, <1>8, AtTheHead, ShapesAre
  <2>3. /\ SameEnds(wire, wire')
        /\ \A r \in Sockets : (r = s /\ op # "revoke") \/ wire'[r].host = wire[r].host
    <3>1. CASE op = "revoke"
      BY <2>1, <3>1 DEF SameEnds
    <3>2. CASE op # "revoke"
      BY <2>1, <2>2, <3>2, Refusing DEF SameHost, RecordsInv, Shapes
    <3>3. QED  BY <3>1, <3>2
  <2>4. /\ OneAtATime'
        /\ \A k \in DOMAIN writes : k # 1 => writes[k].op \notin {"redeem", "touch", "revoke"}
    BY <1>1, <1>8, <2>1, NobodyLeft
  <2>5. Line'
    BY <1>1, <2>1, <2>2, <2>3, LineMoves
  <2>6. InTouch'
    <3> SUFFICES ASSUME NEW j \in Ids, live[j] # None
                 PROVE  /\ j \in Minted /\ wire'[live[j]].id = j
                        /\ wire'[live[j]].host \in {"in", "closing"}
      BY <1>1 DEF InTouch, Ids
    <3>1. /\ j \in Minted /\ wire[live[j]].id = j /\ wire[live[j]].host \in {"in", "closing"}
          /\ live[j] \in Sockets
      BY DEF RecordsInv, InTouch, Shapes
    <3>2. op # "revoke" => live[j] # s
      BY <2>2, <3>1
    <3>3. QED  BY <2>3, <3>1, <3>2 DEF SameEnds
  <2>7. Spent'
    <3>1. \A r \in Sockets : wire'[r].id \in Minted \cup {None}
      BY <2>3 DEF RecordsInv, Spent, SameEnds
    <3>2. QED  BY <1>1, <1>4, <1>5, <3>1 DEF RecordsInv, Spent, Ids
  <2>8. UnderWay'
    BY <1>1, <2>4, UnderWayDone
  <2>9. QED  BY <1>6, <2>4, <2>5, <2>6, <2>7, <2>8
<1>9. QED  BY <1>7, <1>8

-----------------------------------------------------------------------------
(* Every step keeps the records *)

\* A machine's own steps, and what becomes of a connection meanwhile.
LEMMA MachineRecords ==
    ASSUME RecordsInv,
           \/ \E m \in Machines : Boot(m) \/ Dial(m) \/ MachineCrashes(m)
           \/ \E s \in Sockets : Listen(s) \/ MachineSeesClose(s) \/ Forget(s) \/ SocketDies(s)
    PROVE  OneAtATime' /\ Line' /\ InTouch' /\ Spent' /\ UnderWay' /\ Out'
<1> DEFINE Quiet == \A r \in Sockets :
               /\ wire[r].host \in {"queued", "in", "closing"} =>
                      /\ wire'[r].host = wire[r].host /\ wire'[r].auth = wire[r].auth
                      /\ wire'[r].id = wire[r].id
               /\ wire'[r].id \in {wire[r].id, None}
<1>1. wire \in [Sockets -> Conns]
    BY DEF RecordsInv, Shapes
<1>2. \A s \in Sockets : /\ CutOff(wire, s)[s] \in Conns
                         /\ CutOff(wire, s)[s].host = wire[s].host
                         /\ CutOff(wire, s)[s].auth = wire[s].auth
                         /\ CutOff(wire, s)[s].id = wire[s].id
    BY <1>1, Cutting DEF SameEnds
<1>3. ASSUME NEW m \in Machines, Boot(m) PROVE UNCHANGED gateHost /\ Quiet
    BY <1>3 DEF Boot
<1>4. ASSUME NEW m \in Machines, Dial(m) PROVE UNCHANGED gateHost /\ Quiet
  <2>1. PICK s, a :
            /\ s \in Sockets /\ wire[s] = Free
            /\ wire' = [wire EXCEPT ![s] =
                  [of |-> m, host |-> "fresh", id |-> None, says |-> <<>>,
                   open |-> TRUE, mine |-> TRUE, auth |-> a]]
    BY <1>4 DEF Dial
  <2>2. wire[s].host = "shut"
    BY <2>1 DEF Free
  <2>3. wire'[s].id = None /\ \A r \in Sockets : r # s => wire'[r] = wire[r]
    BY <1>1, <2>1
  <2>4. QED  BY <1>4, <2>2, <2>3 DEF Dial
<1>5. ASSUME NEW m \in Machines, MachineCrashes(m) PROVE UNCHANGED gateHost /\ Quiet
  <2>1. \A r \in Sockets : wire'[r] \in {wire[r], [CutOff(wire, r)[r] EXCEPT !.mine = FALSE]}
    BY <1>5 DEF MachineCrashes
  <2>2. \A r \in Sockets : /\ wire'[r].host = wire[r].host /\ wire'[r].auth = wire[r].auth
                           /\ wire'[r].id = wire[r].id
    BY <1>2, <2>1 DEF Conns
  <2>3. QED  BY <1>5, <2>2 DEF MachineCrashes
<1>6. ASSUME NEW s \in Sockets, Listen(s) PROVE UNCHANGED gateHost /\ Quiet
  <2>1. wire' = [wire EXCEPT ![s] = [wire[s] EXCEPT !.says = Tail(wire[s].says),
                                                    !.mine = machine'[wire[s].of].up]]
    BY <1>1, <1>6 DEF Listen
  <2>2. \A r \in Sockets : /\ wire'[r].host = wire[r].host /\ wire'[r].auth = wire[r].auth
                           /\ wire'[r].id = wire[r].id
    BY <1>1, <2>1 DEF Conns
  <2>3. QED  BY <1>6, <2>2 DEF Listen
<1>7. ASSUME NEW s \in Sockets, MachineSeesClose(s) PROVE UNCHANGED gateHost /\ Quiet
  <2>1. \A r \in Sockets : /\ wire'[r].host = wire[r].host /\ wire'[r].auth = wire[r].auth
                           /\ wire'[r].id = wire[r].id
    BY <1>1, <1>7 DEF MachineSeesClose, Conns
  <2>2. QED  BY <1>7, <2>1 DEF MachineSeesClose
<1>8. ASSUME NEW s \in Sockets, Forget(s) PROVE UNCHANGED gateHost /\ Quiet
  <2>1. wire' = [wire EXCEPT ![s] = Free] /\ wire[s].host = "shut" /\ Free.id = None
    BY <1>8 DEF Forget, Free
  <2>2. wire'[s].id = None /\ \A r \in Sockets : r # s => wire'[r] = wire[r]
    BY <1>1, <2>1
  <2>3. QED  BY <1>8, <2>1, <2>2 DEF Forget
<1>9. ASSUME NEW s \in Sockets, SocketDies(s) PROVE UNCHANGED gateHost /\ Quiet
  <2>1. \A r \in Sockets : /\ wire'[r].host = wire[r].host /\ wire'[r].auth = wire[r].auth
                           /\ wire'[r].id = wire[r].id
    BY <1>1, <1>9, Cutting DEF SocketDies, SameEnds
  <2>2. QED  BY <1>9, <2>1 DEF SocketDies
<1>10. UNCHANGED gateHost /\ Quiet
    BY <1>3, <1>4, <1>5, <1>6, <1>7, <1>8, <1>9
<1>11. QED  BY <1>10, QuietRecords

\* No operation, fault or stutter breaks what the fleet, the writes and the gate
\* say of each other.
LEMMA RecordsKept ==
    ASSUME RecordsInv, [GateNext]_gateVars
    PROVE  RecordsInv'
<1>1. Shapes'
    BY ShapesKept
<1>2. OneAtATime' /\ Line' /\ InTouch' /\ Spent' /\ UnderWay' /\ Out'
  <2>1. CASE Mint \/ Lapse  BY <2>1, TokenRecords
  <2>2. ASSUME NEW n \in DOMAIN gate,
               RegisterByToken(n) \/ RegisterByCredential(n) \/ RevokeStarts(n)
        PROVE  OneAtATime' /\ Line' /\ InTouch' /\ Spent' /\ UnderWay' /\ Out'
    BY <2>2, RedeemRecords, PresentRecords, RevokeStartsRecords
  <2>3. CASE WriteLands  BY <2>3, WriteLandsRecords
  <2>4. CASE WriteFails  BY <2>4, WriteFailsRecords
  <2>5. CASE HostRestarts  BY <2>5, RestartRecords
  <2>6. CASE \E i \in Ids : AskRevoke(i)  BY <2>6, AskRevokeRecords
  <2>7. ASSUME NEW s \in Sockets, WorkerBeats(s) \/ HearRegister(s) \/ HostSeesClose(s)
        PROVE  OneAtATime' /\ Line' /\ InTouch' /\ Spent' /\ UnderWay' /\ Out'
    BY <2>7, BeatRecords, HearRecords, CloseRecords
  <2>8. CASE \/ \E m \in Machines : Boot(m) \/ Dial(m) \/ MachineCrashes(m)
             \/ \E s \in Sockets : Listen(s) \/ MachineSeesClose(s) \/ Forget(s) \/ SocketDies(s)
    BY <2>8, MachineRecords
  <2>9. CASE UNCHANGED gateVars
    BY <2>9, QuietRecords DEF gateVars
  <2>10. QED
    BY <2>1, <2>2, <2>3, <2>4, <2>5, <2>6, <2>7, <2>8, <2>9 DEF GateNext, GateTask, GateFault
<1>3. QED  BY <1>1, <1>2 DEF RecordsInv

\* The fleet, the writes under way, the gate and the connections always fit.
THEOREM RecordsFit == GateSpec => []RecordsInv
<1>1. GateInit => RecordsInv  BY InitRecords
<1>2. RecordsInv /\ [GateNext]_gateVars => RecordsInv'  BY RecordsKept
<1>3. QED  BY <1>1, <1>2, PTL DEF GateSpec

\* Once revoke() has reported done, nothing of the enrollment comes back: whatever
\* registrations, heartbeats, writes and failures were under way
\* (WorkerRegistry.revoke, #serialize, FleetStore.touch).
THEOREM RevocationIsFinal == GateSpec => []RevokedStayOut
<1>1. RecordsInv => RevokedStayOut
    BY DEF RecordsInv, Out, RevokedStayOut
<1>2. QED  BY <1>1, RecordsFit, PTL

\* A token buys at most one enrollment, however often and by however many machines
\* it is presented (redeemPairing).
THEOREM TokensBuyOnce == GateSpec => []TokenEnrollsOnce
<1>1. RecordsInv => TokenEnrollsOnce
    BY DEF RecordsInv, Spent, TokenEnrollsOnce
<1>2. QED  BY <1>1, RecordsFit, PTL

-----------------------------------------------------------------------------
(* Who holds a credential *)

\* Nobody holds one that nobody held before.
HeldBefore == \A i \in Nat \ {None} : Holds(i)' => Holds(i)

\* Nothing is told that a holder or the operator would mind.
Ordinary(w, v) ==
    \A r \in Sockets : /\ v[r].of = w[r].of /\ v[r].auth = w[r].auth /\ v[r].mine = w[r].mine
                       /\ \A f \in ToSet(v[r].says) :
                              f \in ToSet(w[r].says) \/ f.kind \notin {"registered", "unauthorized"}

\* What a step owes to those who hold a credential: a record, until it is revoked.
Standing ==
    HoldersKnown' /\ NotYetHeld' /\ (HoldersDurable /\ UndoneAlone => HoldersDurable')

\* A step of the host that tells nobody he is let in or unauthorized.
LEMMA OrdinaryHolders ==
    ASSUME RecordsInv, HoldersInv, machine' = machine, Ordinary(wire, wire'), revoked \subseteq revoked'
    PROVE  HeldBefore /\ Equipped' /\ RefusedOnlyOnceRevoked'
<1>1. HeldBefore
  <2> SUFFICES ASSUME NEW i \in Nat \ {None}, Holds(i)' PROVE Holds(i)
    BY DEF HeldBefore
  <2>1. CASE \E m \in Machines : machine'[m].file = i \/ machine'[m].enrolled = i
    BY <2>1 DEF Holds
  <2>2. ASSUME NEW s \in Sockets,
               wire'[s].auth = Credential(i) \/ Registered(i, TRUE) \in ToSet(wire'[s].says)
        PROVE  Holds(i)
    <3>1. Registered(i, TRUE).kind = "registered"
      BY DEF Registered
    <3>2. QED  BY <2>2, <3>1 DEF Holds, Ordinary
  <2>3. QED  BY <2>1, <2>2 DEF Holds
<1>2. Equipped'
  <2> USE DEF HoldersInv, Equipped, Ordinary
  <2>1. \A m \in Machines : machine'[m].up /\ machine'[m].token = None => machine'[m].enrolled # None
    OBVIOUS
  <2>2. \A s \in Sockets : wire'[s].mine =>
           /\ wire'[s].of \in Machines /\ machine'[wire'[s].of].up
           /\ wire'[s].auth.kind = "credential" => machine'[wire'[s].of].enrolled # None
    OBVIOUS
  <2>3. \A s, r \in Sockets : wire'[s].mine /\ wire'[r].mine /\ wire'[s].of = wire'[r].of => s = r
    OBVIOUS
  <2>4. \A s \in Sockets : wire'[s].auth.kind = "credential" => wire'[s].auth.of # None
    OBVIOUS
  <2>5. \A s \in Sockets : \A f \in ToSet(wire'[s].says) : f.kind = "registered" =>
           IF f.new THEN f.id # None ELSE wire'[s].auth.kind = "credential"
    OBVIOUS
  <2>6. QED  BY <2>1, <2>2, <2>3, <2>4, <2>5 DEF None
<1>3. RefusedOnlyOnceRevoked'
  <2>1. Denied("unauthorized").kind = "unauthorized"
    BY DEF Denied
  <2>2. QED  BY <2>1 DEF HoldersInv, RefusedOnlyOnceRevoked, Ordinary
<1>4. QED  BY <1>1, <1>2, <1>3

\* Frames that are ordinary, and steps of a connection that tell none.
LEMMA OrdinaryIs ==
    /\ \A w, v : SameEnds(w, v) /\ HearsNoMore(w, v) => Ordinary(w, v)
    /\ \A w, v, s, f : SameEnds(w, v) /\ HearsOnly(w, v, s, f)
                         /\ f.kind \notin {"registered", "unauthorized"} => Ordinary(w, v)
<1>1. ASSUME NEW w, NEW v, SameEnds(w, v), HearsNoMore(w, v) PROVE Ordinary(w, v)
    BY <1>1 DEF SameEnds, HearsNoMore, Ordinary
<1>2. ASSUME NEW w, NEW v, NEW s, NEW f, SameEnds(w, v), HearsOnly(w, v, s, f),
             f.kind \notin {"registered", "unauthorized"}
      PROVE  Ordinary(w, v)
    BY <1>2 DEF SameEnds, HearsOnly, Ordinary
<1>3. QED  BY <1>1, <1>2

\* The writes are of enrollments minted.
LEMMA WritesAre ==
    ASSUME RecordsInv
    PROVE  /\ \A i \in Minted : i \in Nat \ {None}
           /\ \A k \in DOMAIN writes : writes[k].id \in Nat \ {None}
<1>1. \A i \in Minted : i \in Nat \ {None}
    BY IdsAre
<1>2. \A k \in DOMAIN writes : writes[k].id \in Minted
    BY DEF RecordsInv, Spent
<1>3. QED  BY <1>1, <1>2

\* The records, the writes and the revocations as they were: every holder stands.
LEMMA StandingStill ==
    ASSUME RecordsInv, HoldersInv, HeldBefore, mem' = mem, bought' = bought, writes' = writes,
           disk' = disk, revoked' = revoked
    PROVE  Standing
<1>1. HoldersKnown'
    BY DEF HoldersInv, HoldersKnown, HeldBefore, Known, BeingRevoked, Minted
<1>2. HoldersDurable => HoldersDurable'
    BY DEF HoldersDurable, HeldBefore, Durable, BeingRevoked
<1>3. NotYetHeld'
    BY WritesAre DEF HoldersInv, NotYetHeld, HeldBefore
<1>4. QED  BY <1>1, <1>2, <1>3 DEF Standing

\* A write asked for of the records as they are: every holder stands, but who is
\* taken out by that very write.
LEMMA StandingAsked ==
    ASSUME RecordsInv, HoldersInv, HeldBefore, NEW w \in Writes, writes' = Append(writes, w),
           w.ids = mem', Minted \subseteq Minted', disk' = disk, revoked' = revoked,
           \A i \in mem : i \in mem' \/ (w.op = "revoke" /\ w.id = i),
           w.op = "redeem" => w.id \in Nat \ {None} /\ ~Holds(w.id)
    PROVE  Standing
<1>1. /\ \A k \in DOMAIN writes : writes'[k] = writes[k] /\ k \in DOMAIN writes' /\ k < Len(writes) + 1
                                  /\ k \in Nat
      /\ writes'[Len(writes) + 1] = w /\ Len(writes) + 1 \in DOMAIN writes'
      /\ Len(writes) \in Nat /\ Len(writes') = Len(writes) + 1
      /\ \A k \in DOMAIN writes' : k \in DOMAIN writes \/ k = Len(writes) + 1
    BY WriteAsked DEF RecordsInv, Shapes
<1>2. ASSUME NEW i, NEW n \in DOMAIN writes \cup {Len(writes)}, BeingRevoked(i, n)
      PROVE  BeingRevoked(i, n)' /\ BeingRevoked(i, Len(writes))'
  <2>1. PICK k \in DOMAIN writes : k <= n /\ writes[k].op = "revoke" /\ writes[k].id = i
    BY <1>2 DEF BeingRevoked
  <2>2. k \in DOMAIN writes' /\ writes'[k] = writes[k] /\ k <= Len(writes')
    BY <1>1, <2>1
  <2>3. QED  BY <2>1, <2>2 DEF BeingRevoked
<1>3. ASSUME NEW i \in Nat \ {None}, Holds(i)
      PROVE  i \in Minted /\ (i \in revoked \/ i \in mem' \/ BeingRevoked(i, Len(writes))')
  <2>1. i \in Minted /\ (i \in mem \/ i \in revoked \/ BeingRevoked(i, Len(writes)))
    BY <1>3 DEF HoldersInv, HoldersKnown, Known
  <2>2. CASE i \in mem
    <3>1. CASE i \in mem'  BY <2>1, <3>1
    <3>2. CASE w.op = "revoke" /\ w.id = i
      <4>1. Len(writes) + 1 <= Len(writes')
        BY <1>1
      <4>2. BeingRevoked(i, Len(writes))'
        BY <1>1, <3>2, <4>1 DEF BeingRevoked
      <4>3. QED  BY <2>1, <4>2
    <3>3. QED  BY <2>2, <3>1, <3>2
  <2>3. QED  BY <1>2, <2>1, <2>2
<1>4. HoldersKnown'
  <2> SUFFICES ASSUME NEW i \in Nat \ {None}, Holds(i)' PROVE i \in Minted' /\ Known(i)'
    BY DEF HoldersKnown, None
  <2>1. Holds(i)
    BY DEF HeldBefore
  <2>2. QED  BY <1>3, <2>1 DEF Known
<1>5. NotYetHeld'
  <2> SUFFICES ASSUME NEW k \in DOMAIN writes', writes'[k].op = "redeem", Holds(writes[k].id)'
               PROVE  FALSE
    BY DEF NotYetHeld
  <2>1. CASE k = Len(writes) + 1
    BY <1>1, <2>1 DEF HeldBefore
  <2>2. CASE k \in DOMAIN writes
    BY <1>1, <2>2, WritesAre DEF HeldBefore, HoldersInv, NotYetHeld
  <2>3. QED  BY <1>1, <2>1, <2>2
<1>6. ASSUME HoldersDurable PROVE HoldersDurable'
  <2> SUFFICES ASSUME NEW i \in Nat \ {None}, Holds(i)', i \notin revoked'
               PROVE  /\ i \in disk'
                      /\ \A k \in DOMAIN writes' : i \in writes'[k].ids \/ BeingRevoked(i, k)'
    BY DEF HoldersDurable, Durable, None
  <2>1. Holds(i)
    BY DEF HeldBefore
  <2>2. i \in disk /\ \A k \in DOMAIN writes : i \in writes[k].ids \/ BeingRevoked(i, k)
    BY <1>6, <2>1 DEF HoldersDurable, Durable
  <2>3. ASSUME NEW k \in DOMAIN writes' PROVE i \in writes'[k].ids \/ BeingRevoked(i, k)'
    <3>1. CASE k \in DOMAIN writes
      BY <1>1, <1>2, <2>2, <3>1
    <3>2. CASE k = Len(writes) + 1
      BY <1>1, <1>3, <2>1, <3>2
    <3>3. QED  BY <1>1, <3>1, <3>2
  <2>4. QED  BY <2>2, <2>3
<1>7. QED  BY <1>4, <1>5, <1>6 DEF Standing

\* A write that lands: who it enrolled may hold a credential from then on, and who
\* it took out is revoked.
LEMMA StandingLanded ==
    ASSUME RecordsInv, HoldersInv, writes # <<>>, writes' = Tail(writes), disk' = writes[1].ids,
           mem' = mem, bought' = bought, revoked \subseteq revoked',
           writes[1].op = "revoke" => writes[1].id \in revoked',
           \A i \in Nat \ {None} :
               Holds(i)' => Holds(i) \/ (writes[1].op = "redeem" /\ i = writes[1].id)
    PROVE  Standing
<1>1. /\ \A k \in DOMAIN writes' : /\ k + 1 \in DOMAIN writes /\ writes'[k] = writes[k + 1]
                                   /\ k \in Nat /\ k + 1 # 1 /\ k + 1 >= 1
      /\ \A k \in DOMAIN writes : k # 1 => k - 1 \in DOMAIN writes' /\ writes'[k - 1] = writes[k]
      /\ 1 \in DOMAIN writes /\ Len(writes) \in Nat /\ Len(writes') = Len(writes) - 1
      /\ \A k \in DOMAIN writes : k \in Nat /\ k <= Len(writes)
  <2>1. writes \in Seq(Writes)
    BY DEF RecordsInv, Shapes
  <2>2. /\ \A k \in DOMAIN writes' : /\ k + 1 \in DOMAIN writes /\ writes'[k] = writes[k + 1]
                                     /\ k \in Nat /\ k + 1 # 1
        /\ \A k \in DOMAIN writes : k # 1 => k - 1 \in DOMAIN writes' /\ writes'[k - 1] = writes[k]
        /\ 1 \in DOMAIN writes /\ Len(writes) \in Nat /\ Len(writes') = Len(writes) - 1
        /\ DOMAIN writes = 1..Len(writes)
    BY <2>1, WriteDone
  <2>3. \A k \in DOMAIN writes' : k + 1 >= 1
    BY <2>2
  <2>4. \A k \in DOMAIN writes : k \in Nat /\ k <= Len(writes)
    BY <2>2
  <2>5. QED  BY <2>2, <2>3, <2>4
<1>2. ASSUME NEW i, NEW n \in Nat, BeingRevoked(i, n), i \notin revoked'
      PROVE  BeingRevoked(i, n - 1)'
  <2>1. PICK k \in DOMAIN writes : k <= n /\ writes[k].op = "revoke" /\ writes[k].id = i
    BY <1>2 DEF BeingRevoked
  <2>2. k # 1
    BY <1>2, <2>1
  <2>3. k - 1 \in DOMAIN writes' /\ writes'[k - 1] = writes[k]
    BY <1>1, <2>2
  <2>4. k - 1 <= n - 1
    BY <1>1, <2>1
  <2>5. QED  BY <2>1, <2>3, <2>4 DEF BeingRevoked
<1>3. ASSUME NEW i, i \notin revoked', BeingRevoked(i, Len(writes))
      PROVE  BeingRevoked(i, Len(writes))'
  <2>1. PICK k \in DOMAIN writes : writes[k].op = "revoke" /\ writes[k].id = i
    BY <1>3 DEF BeingRevoked
  <2>2. k - 1 \in DOMAIN writes' /\ writes'[k - 1] = writes[k]
    BY <1>1, <1>3, <2>1
  <2>3. k - 1 <= Len(writes')
    BY <1>1, <2>1
  <2>4. QED  BY <2>1, <2>2, <2>3 DEF BeingRevoked
<1>4. HoldersKnown'
  <2> SUFFICES ASSUME NEW i \in Nat \ {None}, Holds(i)' PROVE i \in Minted' /\ Known(i)'
    BY DEF HoldersKnown, None
  <2>1. Minted' = Minted
    BY DEF Minted
  <2>2. CASE Holds(i)
    <3>1. i \in Minted /\ (i \in mem \/ i \in revoked \/ BeingRevoked(i, Len(writes)))
      BY <2>2 DEF HoldersInv, HoldersKnown, Known
    <3>2. QED  BY <1>3, <2>1, <3>1 DEF Known
  <2>3. CASE writes[1].op = "redeem" /\ i = writes[1].id
    BY <1>1, <2>1, <2>3 DEF RecordsInv, UnderWay, Spent, Known
  <2>4. QED  BY <2>2, <2>3
<1>5. NotYetHeld'
  <2> SUFFICES ASSUME NEW k \in DOMAIN writes', writes'[k].op = "redeem", Holds(writes[k].id)'
               PROVE  FALSE
    BY DEF NotYetHeld
  <2>1. /\ k + 1 \in DOMAIN writes /\ writes[k + 1].op = "redeem" /\ k + 1 # 1
        /\ writes'[k] = writes[k + 1]
    BY <1>1
  <2>2. ~Holds(writes[k + 1].id)
    BY <2>1 DEF HoldersInv, NotYetHeld
  <2>3. writes[1].op # "redeem"
    BY <1>1, <2>1 DEF RecordsInv, OneAtATime, Awaited
  <2>4. QED  BY <2>1, <2>2, <2>3, WritesAre
<1>6. ASSUME HoldersDurable PROVE HoldersDurable'
  <2> SUFFICES ASSUME NEW i \in Nat \ {None}, Holds(i)', i \notin revoked'
               PROVE  /\ i \in disk'
                      /\ \A k \in DOMAIN writes' : i \in writes'[k].ids \/ BeingRevoked(i, k)'
    BY DEF HoldersDurable, Durable, None
  <2>1. CASE Holds(i)
    <3>1. \A k \in DOMAIN writes : i \in writes[k].ids \/ BeingRevoked(i, k)
      BY <1>6, <2>1 DEF HoldersDurable, Durable
    <3>2. i \in disk'
      <4>1. BeingRevoked(i, 1) => writes[1].op = "revoke" /\ writes[1].id = i
        <5>1. \A k \in DOMAIN writes : k <= 1 => k = 1
          <6>1. writes \in Seq(Writes)
            BY DEF RecordsInv, Shapes
          <6>2. QED  BY <6>1
        <5>2. QED  BY <5>1 DEF BeingRevoked
      <4>2. QED  BY <1>1, <3>1, <4>1
    <3>3. ASSUME NEW k \in DOMAIN writes' PROVE i \in writes'[k].ids \/ BeingRevoked(i, k)'
      <4>1. /\ k + 1 \in DOMAIN writes /\ writes'[k] = writes[k + 1] /\ k + 1 \in Nat
            /\ (k + 1) - 1 = k
        BY <1>1
      <4>2. CASE BeingRevoked(i, k + 1)
        <5>1. PICK n \in Nat : n = k + 1
          BY <4>1
        <5>2. BeingRevoked(i, n - 1)'
          BY <1>2, <4>2, <5>1
        <5>3. QED  BY <4>1, <5>1, <5>2
      <4>3. CASE i \in writes[k + 1].ids
        BY <4>1, <4>3
      <4>4. QED  BY <3>1, <4>1, <4>2, <4>3
    <3>4. QED  BY <3>2, <3>3
  <2>2. CASE writes[1].op = "redeem" /\ i = writes[1].id
    <3>1. \A k \in DOMAIN writes : k >= 1 => i \in writes[k].ids
      BY <1>1, <2>2 DEF RecordsInv, UnderWay
    <3>2. QED  BY <1>1, <3>1
  <2>3. QED  BY <2>1, <2>2
<1>7. QED  BY <1>4, <1>5, <1>6 DEF Standing

\* A write that fails: whom it was to enroll nobody knows of yet, and who was being
\* revoked is on record again, on disk too if no write was asked for since.
LEMMA StandingFailed ==
    ASSUME RecordsInv, HoldersInv, HeldBefore, WriteFails
    PROVE  Standing
<1>1. /\ writes # <<>> /\ writes' = Tail(writes) /\ disk' = disk /\ revoked' = revoked
      /\ Minted' = Minted
    BY DEF WriteFails, Minted
<1>2. /\ \A k \in DOMAIN writes' : /\ k + 1 \in DOMAIN writes /\ writes'[k] = writes[k + 1]
                                   /\ k \in Nat /\ k + 1 # 1 /\ (k + 1) - 1 = k
      /\ \A k \in DOMAIN writes : k # 1 => k - 1 \in DOMAIN writes' /\ writes'[k - 1] = writes[k]
      /\ 1 \in DOMAIN writes /\ Len(writes) \in Nat /\ Len(writes') = Len(writes) - 1
      /\ \A k \in DOMAIN writes : k \in Nat /\ k <= Len(writes)
  <2>1. writes \in Seq(Writes)
    BY DEF RecordsInv, Shapes
  <2>2. /\ \A k \in DOMAIN writes' : /\ k + 1 \in DOMAIN writes /\ writes'[k] = writes[k + 1]
                                     /\ k \in Nat /\ k + 1 # 1
        /\ \A k \in DOMAIN writes : k # 1 => k - 1 \in DOMAIN writes' /\ writes'[k - 1] = writes[k]
        /\ 1 \in DOMAIN writes /\ Len(writes) \in Nat /\ Len(writes') = Len(writes) - 1
        /\ DOMAIN writes = 1..Len(writes)
    BY <1>1, <2>1, WriteDone
  <2>3. \A k \in DOMAIN writes' : (k + 1) - 1 = k
    BY <2>2
  <2>4. \A k \in DOMAIN writes : k \in Nat /\ k <= Len(writes)
    BY <2>2
  <2>5. QED  BY <2>2, <2>3, <2>4
<1>3. /\ writes[1].op = "redeem" => mem' = mem \ {writes[1].id}
      /\ writes[1].op = "revoke" => mem' = mem \cup {writes[1].id}
      /\ writes[1].op \notin {"redeem", "revoke"} => mem' = mem
  <2>1. Head(writes) = writes[1]
    BY <1>1, AtTheHead
  <2>2. QED  BY <2>1 DEF WriteFails
<1>4. HoldersKnown'
  <2> SUFFICES ASSUME NEW i \in Nat \ {None}, Holds(i)' PROVE i \in Minted /\ Known(i)'
    BY <1>1 DEF HoldersKnown, None
  <2>1. Holds(i)
    BY DEF HeldBefore
  <2>2. i \in Minted /\ (i \in mem \/ i \in revoked \/ BeingRevoked(i, Len(writes)))
    BY <2>1 DEF HoldersInv, HoldersKnown, Known
  <2>3. CASE i \in mem
    <3>1. writes[1].op = "redeem" => i # writes[1].id
      BY <1>2, <2>1 DEF HoldersInv, NotYetHeld
    <3>2. QED  BY <1>3, <2>2, <2>3, <3>1 DEF Known
  <2>4. CASE i \in revoked
    BY <1>1, <2>2, <2>4 DEF Known
  <2>5. CASE BeingRevoked(i, Len(writes))
    <3>1. PICK k \in DOMAIN writes : writes[k].op = "revoke" /\ writes[k].id = i
      BY <2>5 DEF BeingRevoked
    <3>2. CASE k = 1
      BY <1>3, <2>2, <3>1, <3>2 DEF Known
    <3>3. CASE k # 1
      <4>1. k - 1 \in DOMAIN writes' /\ writes'[k - 1] = writes[k]
        BY <1>2, <3>1, <3>3
      <4>2. k - 1 <= Len(writes')
        BY <1>2, <3>1
      <4>3. QED  BY <2>2, <3>1, <4>1, <4>2 DEF Known, BeingRevoked
    <3>4. QED  BY <3>2, <3>3
  <2>6. QED  BY <2>2, <2>3, <2>4, <2>5
<1>5. NotYetHeld'
  <2> SUFFICES ASSUME NEW k \in DOMAIN writes', writes'[k].op = "redeem", Holds(writes[k].id)'
               PROVE  FALSE
    BY DEF NotYetHeld
  <2>1. k + 1 \in DOMAIN writes /\ writes[k + 1].op = "redeem" /\ writes'[k] = writes[k + 1]
    BY <1>2
  <2>2. ~Holds(writes[k + 1].id)
    BY <2>1 DEF HoldersInv, NotYetHeld
  <2>3. QED  BY <2>1, <2>2, WritesAre DEF HeldBefore
<1>6. ASSUME HoldersDurable, UndoneAlone PROVE HoldersDurable'
  <2> SUFFICES ASSUME NEW i \in Nat \ {None}, Holds(i)', i \notin revoked
               PROVE  /\ i \in disk'
                      /\ \A k \in DOMAIN writes' : i \in writes'[k].ids \/ BeingRevoked(i, k)'
    BY <1>1 DEF HoldersDurable, Durable, None
  <2>1. Holds(i)
    BY DEF HeldBefore
  <2>2. i \in disk /\ \A k \in DOMAIN writes : i \in writes[k].ids \/ BeingRevoked(i, k)
    BY <1>6, <2>1 DEF HoldersDurable, Durable
  <2>3. ASSUME NEW k \in DOMAIN writes' PROVE i \in writes'[k].ids \/ BeingRevoked(i, k)'
    <3>1. writes[1].op # "revoke"
      <4>1. writes[1].op = "revoke" => Tail(writes) = <<>>
        <5>1. Head(writes) = writes[1]
          BY <1>1, AtTheHead
        <5>2. QED  BY <1>6, <5>1 DEF UndoneAlone
      <4>2. writes' # <<>>
        BY <2>3
      <4>3. QED  BY <1>1, <4>1, <4>2
    <3>2. CASE BeingRevoked(i, k + 1)
      <4>1. PICK n \in DOMAIN writes : n <= k + 1 /\ writes[n].op = "revoke" /\ writes[n].id = i
        BY <3>2 DEF BeingRevoked
      <4>2. n # 1
        BY <3>1, <4>1
      <4>3. n - 1 \in DOMAIN writes' /\ writes'[n - 1] = writes[n]
        BY <1>2, <4>1, <4>2
      <4>4. n - 1 <= k
        BY <1>2, <2>3, <4>1
      <4>5. QED  BY <4>1, <4>3, <4>4 DEF BeingRevoked
    <3>3. CASE i \in writes[k + 1].ids
      BY <1>2, <2>3, <3>3
    <3>4. QED  BY <1>2, <2>2, <2>3, <3>2, <3>3
  <2>4. QED  BY <1>1, <2>2, <2>3
<1>7. QED  BY <1>4, <1>5, <1>6 DEF Standing

\* A restart leaves what is on disk, which is what every holder needs.
LEMMA StandingRestarted ==
    ASSUME RecordsInv, HoldersInv, HeldBefore, HostRestarts, HoldersDurable
    PROVE  Standing
<1>1. /\ mem' = disk /\ disk' = disk /\ revoked' = revoked /\ DOMAIN writes' = {}
      /\ Minted' = Minted
    BY DEF HostRestarts, Minted
<1>2. HoldersKnown'
    BY <1>1 DEF HoldersInv, HoldersKnown, HoldersDurable, Durable, HeldBefore, Known
<1>3. NotYetHeld' /\ HoldersDurable'
    BY <1>1 DEF NotYetHeld, HoldersDurable, Durable, HeldBefore
<1>4. QED  BY <1>2, <1>3 DEF Standing

-----------------------------------------------------------------------------
(* Every step keeps the holders *)

\* A token presented: an enrollment nobody holds yet, or a refusal.
LEMMA RedeemHolders ==
    ASSUME RecordsInv, HoldersInv, NEW n \in DOMAIN gate, RegisterByToken(n)
    PROVE  Standing /\ Equipped' /\ RefusedOnlyOnceRevoked'
<1> DEFINE s == gate[1].task.socket
           t == wire[s].auth.of
           i == Len(bought) + 1
<1>1. /\ n = 1 /\ s \in Sockets /\ wire \in [Sockets -> Conns] /\ t \in Tokens
      /\ bought \in Seq(Tokens) /\ writes \in Seq(Writes) /\ i \in Nat
  <2>1. /\ wire \in [Sockets -> Conns] /\ bought \in Seq(Tokens) /\ writes \in Seq(Writes)
    BY DEF RecordsInv, Shapes
  <2>2. /\ gate[n].task.what = "register" /\ Starting(n)
        /\ wire[gate[n].task.socket].auth.kind = "pairing"
    BY DEF RegisterByToken
  <2>3. QED  BY <2>1, <2>2, AtTheGate, ShapesAre
<1>2. machine' = machine /\ disk' = disk /\ revoked' = revoked
    BY DEF RegisterByToken
<1>3. CASE pairing[t] = "live" /\ i \in Ids
  <2>1. /\ bought' = Append(bought, t) /\ mem' = mem \cup {i}
        /\ writes' = Persisted(mem', "redeem", i) /\ wire' = wire
    BY <1>1, <1>3 DEF RegisterByToken, Announced
  <2>2. HeldBefore /\ Equipped' /\ RefusedOnlyOnceRevoked'
    <3>1. Ordinary(wire, wire')
      BY <2>1 DEF Ordinary
    <3>2. QED  BY <1>2, <3>1, OrdinaryHolders
  <2>3. i \in Nat \ {None} /\ i \notin Minted /\ Minted \subseteq Minted'
    <3>1. /\ Len(bought') = Len(bought) + 1 /\ Len(bought) \in Nat
      BY <1>1, <2>1, AppendProperties
    <3>2. \A l \in Nat : l + 1 \notin 1..l /\ 1..l \subseteq 1..(l + 1) /\ l + 1 # 0
      OBVIOUS
    <3>3. QED  BY <1>1, <3>1, <3>2 DEF Minted, None
  <2>4. ~Holds(i)
    BY <2>3 DEF HoldersInv, HoldersKnown
  <2> DEFINE w == [ids |-> mem \cup {i}, op |-> "redeem", id |-> i]
  <2>5. w \in Writes /\ Persisted(mem \cup {i}, "redeem", i) = Append(writes, w)
        /\ w.ids = mem \cup {i} /\ w.id = i /\ w.op = "redeem"
    <3>1. mem \cup {i} \in SUBSET Nat
      BY <1>1, IdsAre
    <3>2. w \in Writes /\ Persisted(mem \cup {i}, "redeem", i) = Append(writes, w)
      BY <1>1, <3>1, AskingIs
    <3>3. QED  BY <3>2
  <2> HIDE DEF w, i
  <2>6. Standing
    BY <1>2, <2>1, <2>2, <2>3, <2>4, <2>5, StandingAsked
  <2>7. QED  BY <2>2, <2>6
<1>4. CASE ~(pairing[t] = "live" /\ i \in Ids)
  <2>1. PICK code \in {"expired-token", "invalid-token"} : wire' = Refused(s, code)
    BY <1>1, <1>4 DEF RegisterByToken
  <2>2. bought' = bought /\ writes' = writes /\ mem' = mem
    BY <1>1, <1>4 DEF RegisterByToken
  <2>3. Ordinary(wire, wire')
    <3>1. SameEnds(wire, wire') /\ HearsOnly(wire, wire', s, Denied(code))
      BY <1>1, <2>1, Refusing
    <3>2. Denied(code).kind \notin {"registered", "unauthorized"}
      BY DEF Denied
    <3>3. QED  BY <3>1, <3>2, OrdinaryIs
  <2>4. HeldBefore /\ Equipped' /\ RefusedOnlyOnceRevoked'
    BY <1>2, <2>3, OrdinaryHolders
  <2>5. QED  BY <1>2, <2>2, <2>4, StandingStill
<1>5. QED  BY <1>3, <1>4

\* A credential presented is refused only if it was revoked: nobody is being taken
\* out while a registration is under way.
LEMMA PresentHolders ==
    ASSUME RecordsInv, HoldersInv, NEW n \in DOMAIN gate, RegisterByCredential(n)
    PROVE  Standing /\ Equipped' /\ RefusedOnlyOnceRevoked'
<1> DEFINE s == gate[1].task.socket
           i == wire[s].auth.of
<1>1. /\ n = 1 /\ s \in Sockets /\ wire \in [Sockets -> Conns] /\ writes \in Seq(Writes)
      /\ wire[s].auth.kind = "credential" /\ wire[s].auth = Credential(i) /\ i \in Nat
      /\ \A k \in DOMAIN writes : ~Awaited(k)
  <2>1. wire \in [Sockets -> Conns] /\ writes \in Seq(Writes)
    BY DEF RecordsInv, Shapes
  <2>2. /\ gate[n].task.what = "register" /\ Starting(n)
        /\ wire[gate[n].task.socket].auth.kind = "credential"
    BY DEF RegisterByCredential
  <2>3. QED  BY <2>1, <2>2, AtTheGate, ShapesAre
<1>2. /\ machine' = machine /\ disk' = disk /\ revoked' = revoked /\ mem' = mem /\ bought' = bought
      /\ Minted' = Minted
    BY DEF RegisterByCredential, Minted
<1>3. CASE i \in mem
  <2>1. writes' = Persisted(mem, "touch", i) /\ wire' = wire
    BY <1>1, <1>3 DEF RegisterByCredential
  <2>2. HeldBefore /\ Equipped' /\ RefusedOnlyOnceRevoked'
    <3>1. Ordinary(wire, wire')
      BY <2>1 DEF Ordinary
    <3>2. QED  BY <1>2, <3>1, OrdinaryHolders
  <2> DEFINE w == [ids |-> mem, op |-> "touch", id |-> i]
  <2>3. w \in Writes /\ Persisted(mem, "touch", i) = Append(writes, w)
        /\ w.ids = mem /\ w.id = i /\ w.op = "touch"
    BY <1>1, IdsAre, AskingIs
  <2> HIDE DEF w, i
  <2>4. Standing
    BY <1>2, <2>1, <2>2, <2>3, StandingAsked
  <2>5. QED  BY <2>2, <2>4
<1>4. CASE i \notin mem
  <2>1. wire' = Refused(s, "unauthorized") /\ writes' = writes
    BY <1>1, <1>4 DEF RegisterByCredential
  <2>2. SameEnds(wire, wire') /\ HearsOnly(wire, wire', s, Denied("unauthorized"))
    BY <1>1, <2>1, Refusing
  <2>3. i \in revoked
    <3>1. i # None
      BY <1>1 DEF HoldersInv, Equipped
    <3>2. Holds(i)
      BY <1>1 DEF Holds
    <3>3. ~BeingRevoked(i, Len(writes))
      BY <1>1 DEF BeingRevoked, Awaited
    <3>4. QED  BY <1>1, <1>4, <3>1, <3>2, <3>3 DEF HoldersInv, HoldersKnown, Known
  <2>4. RefusedOnlyOnceRevoked'
    <3> SUFFICES ASSUME NEW r \in Sockets, Denied("unauthorized") \in ToSet(wire'[r].says)
                 PROVE  wire'[r].auth.of \in revoked
      BY <1>2 DEF RefusedOnlyOnceRevoked
    <3>1. CASE r = s
      BY <1>1, <2>2, <2>3, <3>1 DEF SameEnds
    <3>2. CASE r # s
      BY <2>2, <3>2 DEF SameEnds, HearsOnly, HoldersInv, RefusedOnlyOnceRevoked
    <3>3. QED  BY <3>1, <3>2
  <2>5. \A r \in Sockets : \A f \in ToSet(wire'[r].says) :
            f \in ToSet(wire[r].says) \/ f.kind = "unauthorized"
    BY <2>2 DEF HearsOnly, Denied
  <2>6. HeldBefore
    <3> SUFFICES ASSUME NEW j \in Nat \ {None}, Holds(j)' PROVE Holds(j)
      BY DEF HeldBefore
    <3>1. Registered(j, TRUE).kind # "unauthorized"
      BY DEF Registered
    <3>2. QED  BY <1>2, <2>2, <2>5, <3>1 DEF Holds, SameEnds
  <2>7. Equipped'
    <3>1. \A m \in Machines : machine'[m].up /\ machine'[m].token = None => machine'[m].enrolled # None
      BY <1>2 DEF HoldersInv, Equipped
    <3>2. \A r \in Sockets : wire'[r].mine =>
             /\ wire'[r].of \in Machines /\ machine'[wire'[r].of].up
             /\ wire'[r].auth.kind = "credential" => machine'[wire'[r].of].enrolled # None
      BY <1>2, <2>2 DEF HoldersInv, Equipped, SameEnds
    <3>3. \A q, r \in Sockets : wire'[q].mine /\ wire'[r].mine /\ wire'[q].of = wire'[r].of => q = r
      BY <2>2 DEF HoldersInv, Equipped, SameEnds
    <3>4. \A r \in Sockets : wire'[r].auth.kind = "credential" => wire'[r].auth.of # None
      BY <2>2 DEF HoldersInv, Equipped, SameEnds
    <3>5. \A r \in Sockets : \A f \in ToSet(wire'[r].says) : f.kind = "registered" =>
             IF f.new THEN f.id # None ELSE wire'[r].auth.kind = "credential"
      BY <2>2, <2>5 DEF HoldersInv, Equipped, SameEnds
    <3>6. QED  BY <3>1, <3>2, <3>3, <3>4, <3>5 DEF Equipped, None
  <2>8. QED  BY <1>2, <2>1, <2>4, <2>6, <2>7, StandingStill
<1>5. QED  BY <1>3, <1>4

\* A registration let in: a new enrollment is told to the machine that asked for it.
LEMMA RegisterLandsHolders ==
    ASSUME RecordsInv, HoldersInv, WriteLands, Waited, RegisterLands(1)
    PROVE  Standing /\ Equipped' /\ RefusedOnlyOnceRevoked'
<1> DEFINE i == writes[1].id
           s == gate[1].task.socket
           b == Head(writes).op = "redeem"
<1>1. /\ writes # <<>> /\ writes' = Tail(writes) /\ disk' = writes[1].ids
      /\ mem' = mem /\ bought' = bought /\ machine' = machine /\ Head(writes) = writes[1]
  <2>1. writes # <<>>
    BY DEF WriteLands
  <2>2. QED  BY <2>1, AtTheHead DEF WriteLands
<1>2. /\ 1 \in DOMAIN writes /\ i \in Minted /\ i \in Ids /\ i \in Nat \ {None} /\ s \in Sockets
      /\ writes[1].op \in {"redeem", "touch"} /\ gate[1].task.what = "register"
  <2>1. gate[1].task.what = "register"
    BY DEF RegisterLands
  <2>2. writes[1].op # "revoke" /\ Awaited(1) /\ i \in Minted /\ 1 \in DOMAIN writes /\ s \in Sockets
    BY <1>1, <2>1, AtTheHead
  <2>3. QED  BY <2>1, <2>2, IdsAre DEF Awaited
<1>3. wire' = Installed(s, i, b) /\ revoked' = revoked
    BY <1>1, <1>2 DEF RegisterLands, RecordsInv, UnderWay
<1>4. b \in BOOLEAN /\ (b => writes[1].op = "redeem") /\ (~b => writes[1].op = "touch")
    BY <1>1, <1>2
<1>5. ~b => wire[s].auth = Credential(i)
    BY <1>2, <1>4 DEF RecordsInv, OneAtATime, Awaited
<1> HIDE DEF b
<1>6. /\ \A r \in Sockets : /\ wire'[r].auth = wire[r].auth /\ wire'[r].of = wire[r].of
                            /\ wire'[r].mine = wire[r].mine
      /\ HearsOnly(wire, wire', s, Registered(i, b))
  <2> HIDE DEF s, i
  <2>1. /\ \A r \in Sockets : /\ Installed(s, i, b)[r].auth = wire[r].auth
                              /\ Installed(s, i, b)[r].of = wire[r].of
                              /\ Installed(s, i, b)[r].mine = wire[r].mine
        /\ HearsOnly(wire, Installed(s, i, b), s, Registered(i, b))
    BY <1>2, <1>4, Installing
  <2>2. QED  BY <1>3, <2>1
<1>7. \A r \in Sockets : \A f \in ToSet(wire'[r].says) :
          f \in ToSet(wire[r].says) \/ (r = s /\ f = Registered(i, b))
    BY <1>6 DEF HearsOnly
<1>8. \A j \in Nat \ {None} : Holds(j)' => Holds(j) \/ (writes[1].op = "redeem" /\ j = i)
  <2> SUFFICES ASSUME NEW j \in Nat \ {None}, Holds(j)'
               PROVE  Holds(j) \/ (writes[1].op = "redeem" /\ j = i)
    OBVIOUS
  <2>1. CASE \E m \in Machines : machine'[m].file = j \/ machine'[m].enrolled = j
    BY <1>1, <2>1 DEF Holds
  <2>2. ASSUME NEW r \in Sockets, wire'[r].auth = Credential(j)
        PROVE  Holds(j)
    BY <1>6, <2>2 DEF Holds
  <2>3. ASSUME NEW r \in Sockets, Registered(j, TRUE) \in ToSet(wire'[r].says)
        PROVE  Holds(j) \/ (writes[1].op = "redeem" /\ j = i)
    <3>1. CASE Registered(j, TRUE) \in ToSet(wire[r].says)
      BY <3>1 DEF Holds
    <3>2. CASE Registered(j, TRUE) = Registered(i, b)
      <4>1. Registered(j, TRUE).id = j /\ Registered(i, b).id = i
            /\ Registered(j, TRUE).new = TRUE /\ Registered(i, b).new = b
        BY DEF Registered
      <4>2. QED  BY <1>4, <3>2, <4>1
    <3>3. QED  BY <1>7, <2>3, <3>1, <3>2
  <2>4. QED  BY <2>1, <2>2, <2>3 DEF Holds
<1>9. Standing
    BY <1>1, <1>2, <1>3, <1>8, StandingLanded
<1>10. RefusedOnlyOnceRevoked'
  <2>1. Denied("unauthorized") # Registered(i, b)
    BY DEF Denied, Registered
  <2>2. QED  BY <1>3, <1>6, <1>7, <2>1 DEF HoldersInv, RefusedOnlyOnceRevoked
<1>11. Equipped'
  <2>1. \A m \in Machines : machine'[m].up /\ machine'[m].token = None => machine'[m].enrolled # None
    BY <1>1 DEF HoldersInv, Equipped
  <2>2. \A r \in Sockets : wire'[r].mine =>
           /\ wire'[r].of \in Machines /\ machine'[wire'[r].of].up
           /\ wire'[r].auth.kind = "credential" => machine'[wire'[r].of].enrolled # None
    BY <1>1, <1>6 DEF HoldersInv, Equipped
  <2>3. \A q, r \in Sockets : wire'[q].mine /\ wire'[r].mine /\ wire'[q].of = wire'[r].of => q = r
    BY <1>6 DEF HoldersInv, Equipped
  <2>4. \A r \in Sockets : wire'[r].auth.kind = "credential" => wire'[r].auth.of # None
    BY <1>6 DEF HoldersInv, Equipped
  <2>5. ASSUME NEW r \in Sockets, NEW f \in ToSet(wire'[r].says), f.kind = "registered"
        PROVE  IF f.new THEN f.id # None ELSE wire'[r].auth.kind = "credential"
    <3>1. CASE f \in ToSet(wire[r].says)
      BY <1>6, <2>5, <3>1 DEF HoldersInv, Equipped
    <3>2. CASE r = s /\ f = Registered(i, b)
      <4>1. f.new = b /\ f.id = i
        BY <3>2 DEF Registered
      <4>2. CASE b
        BY <1>2, <4>1, <4>2
      <4>3. CASE ~b
        <5>1. wire'[r].auth = Credential(i)
          BY <1>5, <1>6, <2>5, <3>2, <4>3
        <5>2. QED  BY <4>1, <4>3, <5>1 DEF Credential
      <4>4. QED  BY <4>2, <4>3
    <3>3. QED  BY <1>7, <2>5, <3>1, <3>2
  <2>6. QED  BY <2>1, <2>2, <2>3, <2>4, <2>5 DEF Equipped, None
<1>12. QED  BY <1>9, <1>10, <1>11

\* A revocation done, or a write nobody waited for.
LEMMA OtherLandsHolders ==
    ASSUME RecordsInv, HoldersInv, WriteLands, ~Waited \/ RevokeLands(1)
    PROVE  Standing /\ Equipped' /\ RefusedOnlyOnceRevoked'
<1>1. /\ writes # <<>> /\ writes' = Tail(writes) /\ disk' = writes[1].ids
      /\ mem' = mem /\ bought' = bought /\ machine' = machine /\ Head(writes) = writes[1]
      /\ wire \in [Sockets -> Conns] /\ live \in [Ids -> Sockets \cup {None}]
  <2>1. writes # <<>> /\ wire \in [Sockets -> Conns] /\ live \in [Ids -> Sockets \cup {None}]
    BY DEF WriteLands, RecordsInv, Shapes
  <2>2. QED  BY <2>1, AtTheHead DEF WriteLands
<1>2. /\ Ordinary(wire, wire') /\ revoked \subseteq revoked'
      /\ writes[1].op = "revoke" => writes[1].id \in revoked'
  <2>1. CASE ~Waited
    <3>1. wire' = wire /\ revoked' = revoked
      BY <2>1 DEF WriteLands
    <3>2. writes[1].op # "revoke"
      BY <1>1, <2>1 DEF Waited
    <3>3. QED  BY <3>1, <3>2 DEF Ordinary
  <2>2. CASE RevokeLands(1)
    <3> DEFINE i == writes[1].id
               c == live[i]
    <3>1. i \in Ids
      BY <1>1, AtTheHead, IdsAre
    <3>2. /\ revoked' = revoked \cup {i}
          /\ wire' = IF c = None THEN wire ELSE Shutting(Told(wire, c, RevokedFrame), c)
      BY <1>1, <2>2 DEF RevokeLands
    <3>3. CASE c = None
      BY <3>2, <3>3 DEF Ordinary
    <3>4. CASE c \in Sockets /\ c # None
      <4> DEFINE v == Told(wire, c, RevokedFrame)
      <4>1. v \in [Sockets -> Conns] /\ SameEnds(wire, v) /\ HearsOnly(wire, v, c, RevokedFrame)
        BY <1>1, <3>4, Telling, FramesAre
      <4> HIDE DEF v
      <4>2. SameEnds(v, Shutting(v, c)) /\ HearsNoMore(v, Shutting(v, c))
        BY <3>4, <4>1, Closing
      <4>3. wire' = Shutting(v, c)
        BY <3>2, <3>4 DEF v
      <4>4. SameEnds(wire, wire') /\ HearsOnly(wire, wire', c, RevokedFrame)
        BY <4>1, <4>2, <4>3 DEF SameEnds, HearsOnly, HearsNoMore
      <4>5. RevokedFrame.kind \notin {"registered", "unauthorized"}
        BY DEF RevokedFrame
      <4>6. QED  BY <3>2, <4>4, <4>5, OrdinaryIs
    <3>5. QED  BY <1>1, <3>1, <3>2, <3>3, <3>4
  <2>3. QED  BY <2>1, <2>2
<1>3. HeldBefore /\ Equipped' /\ RefusedOnlyOnceRevoked'
    BY <1>1, <1>2, OrdinaryHolders
<1>4. Standing
    BY <1>1, <1>2, <1>3, StandingLanded DEF HeldBefore
<1>5. QED  BY <1>3, <1>4

\* A write that fails tells whoever waited that it did, not that he is unauthorized.
LEMMA WriteFailsHolders ==
    ASSUME RecordsInv, HoldersInv, WriteFails
    PROVE  Standing /\ Equipped' /\ RefusedOnlyOnceRevoked'
<1>1. writes # <<>> /\ machine' = machine /\ revoked' = revoked /\ wire \in [Sockets -> Conns]
    BY DEF WriteFails, RecordsInv, Shapes
<1>2. Ordinary(wire, wire')
  <2> DEFINE s == gate[1].task.socket
  <2>1. CASE wire' = wire
    BY <2>1 DEF Ordinary
  <2>2. CASE Waited /\ wire' # wire
    <3>1. writes[1].op # "revoke" /\ wire' = Refused(s, "malformed")
      BY <1>1, <2>2, AtTheHead DEF WriteFails
    <3>2. s \in Sockets
      BY <1>1, <2>2, <3>1, AtTheHead, ShapesAre
    <3>3. SameEnds(wire, wire') /\ HearsOnly(wire, wire', s, Denied("malformed"))
      BY <1>1, <3>1, <3>2, Refusing
    <3>4. Denied("malformed").kind \notin {"registered", "unauthorized"}
      BY DEF Denied
    <3>5. QED  BY <3>3, <3>4, OrdinaryIs
  <2>3. ~Waited => wire' = wire
    BY DEF WriteFails
  <2>4. QED  BY <2>1, <2>2, <2>3
<1>3. HeldBefore /\ Equipped' /\ RefusedOnlyOnceRevoked'
    BY <1>1, <1>2, OrdinaryHolders
<1>4. QED  BY <1>3, StandingFailed

\* A revocation starts: who is taken out is known by the write that does it.
LEMMA RevokeStartsHolders ==
    ASSUME RecordsInv, HoldersInv, NEW n \in DOMAIN gate, RevokeStarts(n)
    PROVE  Standing /\ Equipped' /\ RefusedOnlyOnceRevoked'
<1> DEFINE i == gate[1].task.id
<1>1. /\ n = 1 /\ i \in Nat /\ writes \in Seq(Writes)
      /\ wire' = wire /\ machine' = machine /\ disk' = disk /\ revoked' = revoked /\ bought' = bought
      /\ Minted' = Minted
  <2>1. writes \in Seq(Writes) /\ Starting(n)
    BY DEF RecordsInv, Shapes, RevokeStarts
  <2>2. QED  BY <2>1, AtTheGate, ShapesAre DEF RevokeStarts, Minted
<1>2. HeldBefore /\ Equipped' /\ RefusedOnlyOnceRevoked'
  <2>1. Ordinary(wire, wire')
    BY <1>1 DEF Ordinary
  <2>2. QED  BY <1>1, <2>1, OrdinaryHolders
<1>3. CASE i \in mem
  <2>1. mem' = mem \ {i} /\ writes' = Persisted(mem', "revoke", i)
    BY <1>1, <1>3 DEF RevokeStarts
  <2> DEFINE w == [ids |-> mem \ {i}, op |-> "revoke", id |-> i]
  <2>2. w \in Writes /\ Persisted(mem \ {i}, "revoke", i) = Append(writes, w)
        /\ w.ids = mem \ {i} /\ w.id = i /\ w.op = "revoke"
    <3>1. mem \ {i} \in SUBSET Nat
      BY IdsAre
    <3>2. w \in Writes /\ Persisted(mem \ {i}, "revoke", i) = Append(writes, w)
      BY <1>1, <3>1, AskingIs
    <3>3. QED  BY <3>2
  <2> HIDE DEF w, i
  <2>3. QED  BY <1>1, <1>2, <2>1, <2>2, StandingAsked
<1>4. CASE i \notin mem
  <2>1. mem' = mem /\ writes' = writes
    BY <1>1, <1>4 DEF RevokeStarts
  <2>2. QED  BY <1>1, <1>2, <2>1, StandingStill
<1>5. QED  BY <1>3, <1>4

\* A heartbeat writes the record again, or shows out a worker that has none.
LEMMA BeatHolders ==
    ASSUME RecordsInv, HoldersInv, NEW s \in Sockets, WorkerBeats(s)
    PROVE  Standing /\ Equipped' /\ RefusedOnlyOnceRevoked'
<1> DEFINE i == wire[s].id
           c == live[i]
<1>1. /\ i \in Nat /\ c \in Sockets /\ wire \in [Sockets -> Conns] /\ writes \in Seq(Writes)
      /\ mem' = mem /\ machine' = machine /\ disk' = disk /\ revoked' = revoked /\ bought' = bought
      /\ Minted' = Minted
  <2>1. i # None /\ c # None
    BY DEF WorkerBeats
  <2>2. wire \in [Sockets -> Conns] /\ writes \in Seq(Writes) /\ live \in [Ids -> Sockets \cup {None}]
        /\ i \in Minted
    BY <2>1 DEF RecordsInv, Shapes, Spent
  <2>3. i \in Nat /\ c \in Sockets
    BY <2>1, <2>2, IdsAre
  <2>4. QED  BY <2>2, <2>3 DEF WorkerBeats, Touched, Minted
<1>2. CASE i \in mem
  <2>1. writes' = Persisted(mem, "beat", i) /\ wire' = wire
    BY <1>1, <1>2 DEF WorkerBeats
  <2>2. HeldBefore /\ Equipped' /\ RefusedOnlyOnceRevoked'
    <3>1. Ordinary(wire, wire')
      BY <2>1 DEF Ordinary
    <3>2. QED  BY <1>1, <3>1, OrdinaryHolders
  <2> DEFINE w == [ids |-> mem, op |-> "beat", id |-> i]
  <2>3. w \in Writes /\ Persisted(mem, "beat", i) = Append(writes, w)
        /\ w.ids = mem /\ w.id = i /\ w.op = "beat"
    BY <1>1, IdsAre, AskingIs
  <2> HIDE DEF w, i
  <2>4. QED  BY <1>1, <2>1, <2>2, <2>3, StandingAsked
<1>3. CASE i \notin mem
  <2>1. writes' = writes /\ wire' = Shutting(Told(wire, c, RevokedFrame), c)
    BY <1>1, <1>3 DEF WorkerBeats
  <2>2. Ordinary(wire, wire')
    <3> DEFINE v == Told(wire, c, RevokedFrame)
    <3>1. v \in [Sockets -> Conns] /\ SameEnds(wire, v) /\ HearsOnly(wire, v, c, RevokedFrame)
      BY <1>1, Telling, FramesAre
    <3> HIDE DEF v
    <3>2. SameEnds(v, Shutting(v, c)) /\ HearsNoMore(v, Shutting(v, c))
      BY <1>1, <3>1, Closing
    <3>3. wire' = Shutting(v, c)
      BY <2>1 DEF v
    <3>4. SameEnds(wire, wire') /\ HearsOnly(wire, wire', c, RevokedFrame)
      BY <3>1, <3>2, <3>3 DEF SameEnds, HearsOnly, HearsNoMore
    <3>5. RevokedFrame.kind \notin {"registered", "unauthorized"}
      BY DEF RevokedFrame
    <3>6. QED  BY <3>4, <3>5, OrdinaryIs
  <2>3. HeldBefore /\ Equipped' /\ RefusedOnlyOnceRevoked'
    BY <1>1, <2>2, OrdinaryHolders
  <2>4. QED  BY <1>1, <2>1, <2>3, StandingStill
<1>4. QED  BY <1>2, <1>3

\* What becomes of a connection at the host, or of a token, is nothing to a holder.
LEMMA HostHolders ==
    ASSUME RecordsInv, HoldersInv,
           \/ Mint \/ Lapse \/ \E i \in Ids : AskRevoke(i)
           \/ \E s \in Sockets : HearRegister(s) \/ HostSeesClose(s) \/ SocketDies(s)
    PROVE  Standing /\ Equipped' /\ RefusedOnlyOnceRevoked'
<1>1. wire \in [Sockets -> Conns]
    BY DEF RecordsInv, Shapes
<1>2. /\ mem' = mem /\ bought' = bought /\ writes' = writes /\ disk' = disk /\ revoked' = revoked
      /\ machine' = machine
    BY DEF Mint, Lapse, AskRevoke, HearRegister, HostSeesClose, SocketDies, gateHost
<1>3. Ordinary(wire, wire')
  <2>1. CASE Mint \/ Lapse \/ \E i \in Ids : AskRevoke(i)
    <3>1. wire' = wire
      BY <2>1 DEF Mint, Lapse, AskRevoke
    <3>2. QED  BY <3>1 DEF Ordinary
  <2>2. ASSUME NEW s \in Sockets, HearRegister(s) PROVE Ordinary(wire, wire')
    <3>1. wire' = [wire EXCEPT ![s].host = "queued"]
      BY <2>2 DEF HearRegister
    <3>2. SameEnds(wire, wire') /\ HearsNoMore(wire, wire')
      BY <1>1, <3>1 DEF Conns, SameEnds, HearsNoMore
    <3>3. QED  BY <3>2, OrdinaryIs
  <2>3. ASSUME NEW s \in Sockets, HostSeesClose(s) PROVE Ordinary(wire, wire')
    <3> DEFINE v == CutOff(wire, s)
    <3>1. v \in [Sockets -> Conns] /\ SameEnds(wire, v) /\ HearsNoMore(wire, v)
      BY <1>1, Cutting
    <3>2. wire' = [v EXCEPT ![s].host = "shut"]
      BY <2>3 DEF HostSeesClose
    <3> HIDE DEF v
    <3>3. SameEnds(v, wire') /\ HearsNoMore(v, wire')
      BY <3>1, <3>2 DEF SameEnds, HearsNoMore, Conns
    <3>4. SameEnds(wire, wire') /\ HearsNoMore(wire, wire')
      BY <3>1, <3>3 DEF SameEnds, HearsNoMore
    <3>5. QED  BY <3>4, OrdinaryIs
  <2>4. ASSUME NEW s \in Sockets, SocketDies(s) PROVE Ordinary(wire, wire')
    <3>1. SameEnds(wire, wire') /\ HearsNoMore(wire, wire')
      BY <1>1, <2>4, Cutting DEF SocketDies
    <3>2. QED  BY <3>1, OrdinaryIs
  <2>5. QED  BY <2>1, <2>2, <2>3, <2>4
<1>4. HeldBefore /\ Equipped' /\ RefusedOnlyOnceRevoked'
    BY <1>2, <1>3, OrdinaryHolders
<1>5. QED  BY <1>2, <1>4, StandingStill

\* A restart tells nobody anything.
LEMMA RestartHolders ==
    ASSUME RecordsInv, HoldersInv, HostRestarts, HoldersDurable
    PROVE  Standing /\ Equipped' /\ RefusedOnlyOnceRevoked'
<1>1. wire \in [Sockets -> Conns] /\ machine' = machine /\ revoked' = revoked
    BY DEF RecordsInv, Shapes, HostRestarts
<1>2. SameEnds(wire, wire') /\ HearsNoMore(wire, wire')
  <2> SUFFICES ASSUME NEW r \in Sockets
               PROVE  /\ wire'[r].of = wire[r].of /\ wire'[r].auth = wire[r].auth
                      /\ wire'[r].mine = wire[r].mine /\ wire'[r].id = wire[r].id
                      /\ ToSet(wire'[r].says) \subseteq ToSet(wire[r].says)
    BY DEF SameEnds, HearsNoMore
  <2> DEFINE v == CutOff(wire, r)
  <2>1. v \in [Sockets -> Conns] /\ SameEnds(wire, v) /\ HearsNoMore(wire, v)
    BY <1>1, Cutting
  <2>2. wire'[r] = [v[r] EXCEPT !.host = "shut"]
    BY DEF HostRestarts
  <2> HIDE DEF v
  <2>3. /\ wire'[r].of = v[r].of /\ wire'[r].auth = v[r].auth /\ wire'[r].mine = v[r].mine
        /\ wire'[r].id = v[r].id /\ wire'[r].says = v[r].says
    BY <2>1, <2>2 DEF Conns
  <2>4. /\ v[r].of = wire[r].of /\ v[r].auth = wire[r].auth /\ v[r].mine = wire[r].mine
        /\ v[r].id = wire[r].id /\ ToSet(v[r].says) \subseteq ToSet(wire[r].says)
    BY <2>1 DEF SameEnds, HearsNoMore
  <2>5. QED  BY <2>3, <2>4
<1>3. HeldBefore /\ Equipped' /\ RefusedOnlyOnceRevoked'
    BY <1>1, <1>2, OrdinaryIs, OrdinaryHolders
<1>4. QED  BY <1>3, StandingRestarted

-----------------------------------------------------------------------------
(* A machine's own steps *)

\* A machine that starts has a token, or the credential in its file.
LEMMA BootHolders ==
    ASSUME RecordsInv, HoldersInv, NEW m \in Machines, Boot(m)
    PROVE  Standing /\ Equipped' /\ RefusedOnlyOnceRevoked'
<1>1. /\ mem' = mem /\ bought' = bought /\ writes' = writes /\ disk' = disk /\ revoked' = revoked
      /\ wire' = wire /\ ~machine[m].up /\ machine \in [Machines -> Procs]
    BY DEF Boot, gateHost, Running, RecordsInv, Shapes
<1>2. PICK t \in Tokens \cup {None} :
          /\ t # None \/ machine[m].file # None
          /\ machine' = [machine EXCEPT ![m] = [up |-> TRUE, token |-> t, enrolled |-> machine[m].file,
                                                file |-> machine[m].file]]
    BY <1>1 DEF Boot
<1>3. /\ machine'[m].up /\ machine'[m].token = t /\ machine'[m].enrolled = machine[m].file
      /\ machine'[m].file = machine[m].file
      /\ \A l \in Machines : l # m => machine'[l] = machine[l]
    BY <1>1, <1>2
<1>4. HeldBefore
    BY <1>1, <1>3 DEF HeldBefore, Holds
<1>5. Equipped'
  <2>a. Equipped
    BY DEF HoldersInv
  <2>1. \A l \in Machines : machine'[l].up /\ machine'[l].token = None => machine'[l].enrolled # None
    BY <1>2, <1>3, <2>a DEF Equipped
  <2>2. \A s \in Sockets : wire'[s].mine =>
           /\ wire'[s].of \in Machines /\ machine'[wire'[s].of].up
           /\ wire'[s].auth.kind = "credential" => machine'[wire'[s].of].enrolled # None
    BY <1>1, <1>3, <2>a DEF Equipped
  <2>3. /\ \A s, r \in Sockets : wire'[s].mine /\ wire'[r].mine /\ wire'[s].of = wire'[r].of => s = r
        /\ \A s \in Sockets : wire'[s].auth.kind = "credential" => wire'[s].auth.of # None
        /\ \A s \in Sockets : \A f \in ToSet(wire'[s].says) : f.kind = "registered" =>
               IF f.new THEN f.id # None ELSE wire'[s].auth.kind = "credential"
    BY <1>1, <2>a DEF Equipped
  <2>4. QED  BY <2>1, <2>2, <2>3 DEF Equipped, None
<1>6. RefusedOnlyOnceRevoked'
    BY <1>1 DEF HoldersInv, RefusedOnlyOnceRevoked
<1>7. QED  BY <1>1, <1>4, <1>5, <1>6, StandingStill

\* A machine dials with its token, or with a credential it has.
LEMMA DialHolders ==
    ASSUME RecordsInv, HoldersInv, NEW m \in Machines, Dial(m)
    PROVE  Standing /\ Equipped' /\ RefusedOnlyOnceRevoked'
<1>1. /\ mem' = mem /\ bought' = bought /\ writes' = writes /\ disk' = disk /\ revoked' = revoked
      /\ machine' = machine /\ machine[m].up /\ machine \in [Machines -> Procs]
      /\ wire \in [Sockets -> Conns] /\ \A s \in Sockets : ~(wire[s].of = m /\ wire[s].mine)
    BY DEF Dial, gateHost, Running, RecordsInv, Shapes
<1> DEFINE a == IF machine[m].token # None THEN Pairing(machine[m].token)
                ELSE Credential(machine[m].enrolled)
<1>2. PICK s \in Sockets :
          wire' = [wire EXCEPT ![s] =
              [of |-> m, host |-> "fresh", id |-> None, says |-> <<>>,
               open |-> TRUE, mine |-> TRUE, auth |-> a]]
    BY DEF Dial
<1>3. /\ a.kind = "credential" => machine[m].token = None /\ a = Credential(machine[m].enrolled)
      /\ a.kind = "credential" => a.of = machine[m].enrolled
    BY DEF Pairing, Credential
<1> HIDE DEF a
<1>4. /\ wire'[s].of = m /\ wire'[s].says = <<>> /\ wire'[s].mine = TRUE /\ wire'[s].auth = a
      /\ \A r \in Sockets : r # s => wire'[r] = wire[r]
    BY <1>1, <1>2
<1>5. ToSet(<<>>) = {}
    BY DEF ToSet
<1>6. HeldBefore
  <2> SUFFICES ASSUME NEW i \in Nat \ {None}, Holds(i)' PROVE Holds(i)
    BY DEF HeldBefore
  <2>1. CASE \E l \in Machines : machine'[l].file = i \/ machine'[l].enrolled = i
    BY <1>1, <2>1 DEF Holds
  <2>2. ASSUME NEW r \in Sockets,
               wire'[r].auth = Credential(i) \/ Registered(i, TRUE) \in ToSet(wire'[r].says)
        PROVE  Holds(i)
    <3>1. CASE r # s
      BY <1>4, <2>2, <3>1 DEF Holds
    <3>2. CASE r = s
      <4>1. a = Credential(i)
        BY <1>4, <1>5, <2>2, <3>2
      <4>2. a.kind = "credential" /\ a.of = i
        BY <4>1 DEF Credential
      <4>3. machine[m].enrolled = i
        BY <1>3, <4>2
      <4>4. QED  BY <4>3 DEF Holds
    <3>3. QED  BY <3>1, <3>2
  <2>3. QED  BY <2>1, <2>2 DEF Holds
<1>7. Equipped'
  <2>a. Equipped
    BY DEF HoldersInv
  <2>1. \A l \in Machines : machine'[l].up /\ machine'[l].token = None => machine'[l].enrolled # None
    BY <1>1, <2>a DEF Equipped
  <2>b. a.kind = "credential" => machine[m].enrolled # None
    BY <1>1, <1>3, <2>a DEF Equipped
  <2>2. \A r \in Sockets : wire'[r].mine =>
           /\ wire'[r].of \in Machines /\ machine'[wire'[r].of].up
           /\ wire'[r].auth.kind = "credential" => machine'[wire'[r].of].enrolled # None
    <3>1. ASSUME NEW r \in Sockets, r # s, wire[r].mine
          PROVE  /\ wire[r].of \in Machines /\ machine[wire[r].of].up
                 /\ wire[r].auth.kind = "credential" => machine[wire[r].of].enrolled # None
      BY <2>a, <3>1 DEF Equipped
    <3>2. QED  BY <1>1, <1>4, <2>b, <3>1
  <2>3. \A q, r \in Sockets : wire'[q].mine /\ wire'[r].mine /\ wire'[q].of = wire'[r].of => q = r
    <3>1. \A q, r \in Sockets : wire[q].mine /\ wire[r].mine /\ wire[q].of = wire[r].of => q = r
      BY <2>a DEF Equipped
    <3>2. QED  BY <1>1, <1>4, <3>1
  <2>4. \A r \in Sockets : wire'[r].auth.kind = "credential" => wire'[r].auth.of # None
    BY <1>3, <1>4, <2>a, <2>b DEF Equipped
  <2>5. \A r \in Sockets : \A f \in ToSet(wire'[r].says) : f.kind = "registered" =>
           IF f.new THEN f.id # None ELSE wire'[r].auth.kind = "credential"
    BY <1>4, <1>5, <2>a DEF Equipped
  <2>6. QED  BY <2>1, <2>2, <2>3, <2>4, <2>5 DEF Equipped, None
<1>8. RefusedOnlyOnceRevoked'
    BY <1>1, <1>4, <1>5 DEF HoldersInv, RefusedOnlyOnceRevoked
<1>9. QED  BY <1>1, <1>6, <1>7, <1>8, StandingStill

\* A machine sees its connection closed, crashes, or a slot is done with.
LEMMA PartingHolders ==
    ASSUME RecordsInv, HoldersInv,
           \/ \E s \in Sockets : MachineSeesClose(s) \/ Forget(s)
           \/ \E m \in Machines : MachineCrashes(m)
    PROVE  Standing /\ Equipped' /\ RefusedOnlyOnceRevoked'
<1> DEFINE Gone(r) == /\ wire'[r].mine => wire[r].mine /\ wire'[r].of = wire[r].of
                      /\ wire'[r].auth.kind = "credential" => wire'[r].auth = wire[r].auth
                      /\ wire'[r].mine => wire'[r].auth = wire[r].auth
                      /\ ToSet(wire'[r].says) \subseteq ToSet(wire[r].says)
                      /\ ToSet(wire'[r].says) # {} => wire'[r].auth = wire[r].auth
           Fewer(l) == \/ machine'[l] = machine[l]
                       \/ /\ ~machine'[l].up /\ machine'[l].enrolled = None
                          /\ machine'[l].file = machine[l].file
                          /\ \A r \in Sockets : wire'[r].mine => wire'[r].of # l
<1>1. /\ mem' = mem /\ bought' = bought /\ writes' = writes /\ disk' = disk /\ revoked' = revoked
      /\ wire \in [Sockets -> Conns] /\ machine \in [Machines -> Procs] /\ ToSet(<<>>) = {}
    BY DEF MachineSeesClose, Forget, MachineCrashes, gateHost, RecordsInv, Shapes, ToSet
<1>2. (\A r \in Sockets : Gone(r)) /\ (\A l \in Machines : Fewer(l))
  <2>1. ASSUME NEW s \in Sockets, MachineSeesClose(s)
        PROVE  (\A r \in Sockets : Gone(r)) /\ (\A l \in Machines : Fewer(l))
    <3>1. wire' = [wire EXCEPT ![s].mine = FALSE] /\ machine' = machine
      BY <2>1 DEF MachineSeesClose
    <3>2. \A r \in Sockets : /\ wire'[r].of = wire[r].of /\ wire'[r].auth = wire[r].auth
                             /\ wire'[r].says = wire[r].says /\ (wire'[r].mine => wire[r].mine)
      BY <1>1, <3>1 DEF Conns
    <3>3. QED  BY <3>1, <3>2
  <2>2. ASSUME NEW s \in Sockets, Forget(s)
        PROVE  (\A r \in Sockets : Gone(r)) /\ (\A l \in Machines : Fewer(l))
    <3>1. wire' = [wire EXCEPT ![s] = Free] /\ machine' = machine
      BY <2>2 DEF Forget
    <3>2. Free.mine = FALSE /\ Free.auth.kind = "none" /\ Free.says = <<>>
      BY DEF Free, NoAuth
    <3>3. wire'[s] = Free /\ \A r \in Sockets : r # s => wire'[r] = wire[r]
      BY <1>1, <3>1
    <3>4. QED  BY <1>1, <3>1, <3>2, <3>3
  <2>3. ASSUME NEW m \in Machines, MachineCrashes(m)
        PROVE  (\A r \in Sockets : Gone(r)) /\ (\A l \in Machines : Fewer(l))
    <3>1. /\ machine' = [machine EXCEPT ![m] =
               [up |-> FALSE, token |-> None, enrolled |-> None, file |-> machine[m].file]]
          /\ \A r \in Sockets : wire'[r] = IF wire[r].of = m
                                           THEN [CutOff(wire, r)[r] EXCEPT !.mine = FALSE]
                                           ELSE wire[r]
      BY <2>3 DEF MachineCrashes
    <3>2. ASSUME NEW r \in Sockets
          PROVE  /\ wire'[r].of = wire[r].of /\ wire'[r].auth = wire[r].auth
                 /\ wire'[r].mine => wire[r].mine /\ wire[r].of # m
                 /\ ToSet(wire'[r].says) \subseteq ToSet(wire[r].says)
      <4> DEFINE c == CutOff(wire, r)[r]
      <4>1. /\ c \in Conns /\ c.of = wire[r].of /\ c.auth = wire[r].auth
            /\ ToSet(c.says) \subseteq ToSet(wire[r].says)
        BY <1>1, Cutting DEF SameEnds, HearsNoMore
      <4>2. wire'[r] = IF wire[r].of = m THEN [c EXCEPT !.mine = FALSE] ELSE wire[r]
        BY <3>1
      <4> HIDE DEF c
      <4>3. CASE wire[r].of = m
        <5>1. /\ wire'[r].of = c.of /\ wire'[r].auth = c.auth /\ wire'[r].says = c.says
              /\ wire'[r].mine = FALSE
          BY <4>1, <4>2, <4>3 DEF Conns
        <5>2. QED  BY <4>1, <5>1
      <4>4. CASE wire[r].of # m
        BY <4>2, <4>4
      <4>5. QED  BY <4>3, <4>4
    <3>3. /\ ~machine'[m].up /\ machine'[m].enrolled = None /\ machine'[m].file = machine[m].file
          /\ \A l \in Machines : l # m => machine'[l] = machine[l]
      BY <1>1, <3>1
    <3>4. QED  BY <3>2, <3>3
  <2>4. QED  BY <2>1, <2>2, <2>3
<1>3. HeldBefore
  <2> SUFFICES ASSUME NEW i \in Nat \ {None}, Holds(i)' PROVE Holds(i)
    BY DEF HeldBefore
  <2>1. ASSUME NEW l \in Machines, machine'[l].file = i \/ machine'[l].enrolled = i
        PROVE  Holds(i)
    <3>1. machine[l].file = i \/ machine[l].enrolled = i
      BY <1>2, <2>1
    <3>2. QED  BY <3>1 DEF Holds
  <2>2. ASSUME NEW r \in Sockets, wire'[r].auth = Credential(i)
        PROVE  Holds(i)
    <3>1. Credential(i).kind = "credential"
      BY DEF Credential
    <3>2. wire[r].auth = Credential(i)
      BY <1>2, <2>2, <3>1
    <3>3. QED  BY <3>2 DEF Holds
  <2>3. ASSUME NEW r \in Sockets, Registered(i, TRUE) \in ToSet(wire'[r].says)
        PROVE  Holds(i)
    BY <1>2, <2>3 DEF Holds
  <2>4. QED  BY <2>1, <2>2, <2>3 DEF Holds
<1>4. Equipped'
  <2>a. Equipped
    BY DEF HoldersInv
  <2>1. \A l \in Machines : machine'[l].up /\ machine'[l].token = None => machine'[l].enrolled # None
    BY <1>2, <2>a DEF Equipped
  <2>2. ASSUME NEW r \in Sockets, wire'[r].mine
        PROVE  /\ wire'[r].of \in Machines /\ machine'[wire'[r].of].up
               /\ wire'[r].auth.kind = "credential" => machine'[wire'[r].of].enrolled # None
    <3>1. wire[r].mine /\ wire'[r].of = wire[r].of /\ wire'[r].auth = wire[r].auth
      BY <1>2, <2>2
    <3>2. /\ wire[r].of \in Machines /\ machine[wire[r].of].up
          /\ wire[r].auth.kind = "credential" => machine[wire[r].of].enrolled # None
      BY <2>a, <3>1 DEF Equipped
    <3>3. machine'[wire[r].of] = machine[wire[r].of]
      BY <1>2, <2>2, <3>1, <3>2
    <3>4. QED  BY <3>1, <3>2, <3>3
  <2>3. \A q, r \in Sockets : wire'[q].mine /\ wire'[r].mine /\ wire'[q].of = wire'[r].of => q = r
    BY <1>2, <2>a DEF Equipped
  <2>4. \A r \in Sockets : wire'[r].auth.kind = "credential" => wire'[r].auth.of # None
    BY <1>2, <2>a DEF Equipped
  <2>5. ASSUME NEW r \in Sockets, NEW f \in ToSet(wire'[r].says), f.kind = "registered"
        PROVE  IF f.new THEN f.id # None ELSE wire'[r].auth.kind = "credential"
    <3>1. f \in ToSet(wire[r].says) /\ wire'[r].auth = wire[r].auth
      BY <1>2, <2>5
    <3>2. QED  BY <2>a, <2>5, <3>1 DEF Equipped
  <2>6. QED  BY <2>1, <2>2, <2>3, <2>4, <2>5 DEF Equipped, None
<1>5. RefusedOnlyOnceRevoked'
  <2> SUFFICES ASSUME NEW r \in Sockets, Denied("unauthorized") \in ToSet(wire'[r].says)
               PROVE  wire'[r].auth.of \in revoked
    BY <1>1 DEF RefusedOnlyOnceRevoked
  <2>1. Denied("unauthorized") \in ToSet(wire[r].says) /\ wire'[r].auth = wire[r].auth
    BY <1>2
  <2>2. QED  BY <2>1 DEF HoldersInv, RefusedOnlyOnceRevoked
<1>6. QED  BY <1>1, <1>3, <1>4, <1>5, StandingStill

\* A machine stores the credential it is told of, or drops what it is refused with.
LEMMA ListenHolders ==
    ASSUME RecordsInv, HoldersInv, NEW s \in Sockets, Listen(s)
    PROVE  Standing /\ Equipped' /\ RefusedOnlyOnceRevoked'
<1> DEFINE m == wire[s].of
           f == Head(wire[s].says)
           p == machine[m]
<1>1. /\ mem' = mem /\ bought' = bought /\ writes' = writes /\ disk' = disk /\ revoked' = revoked
      /\ wire \in [Sockets -> Conns] /\ machine \in [Machines -> Procs]
      /\ wire[s].mine /\ wire[s].says # <<>> /\ wire[s].says \in Seq(Frames) /\ Equipped
    BY ShapesAre DEF Listen, gateHost, RecordsInv, Shapes, HoldersInv
<1>2. /\ m \in Machines /\ p \in Procs /\ p.up
      /\ wire[s].auth.kind = "credential" => p.enrolled # None
    BY <1>1 DEF Equipped
<1>3. /\ f \in Frames /\ f \in ToSet(wire[s].says)
      /\ ToSet(Tail(wire[s].says)) \subseteq ToSet(wire[s].says)
  <2> DEFINE q == wire[s].says
  <2>1. q \in Seq(Frames) /\ q # <<>>
    BY <1>1
  <2> HIDE DEF q
  <2>2. /\ Head(q) = q[1] /\ 1 \in DOMAIN q /\ Head(q) \in Frames
    BY <2>1
  <2>3. \A n \in DOMAIN Tail(q) : n + 1 \in DOMAIN q /\ Tail(q)[n] = q[n + 1]
    BY <2>1
  <2>4. QED  BY <2>2, <2>3 DEF q, ToSet
<1>4. /\ f.kind = "registered" => IF f.new THEN f.id # None ELSE wire[s].auth.kind = "credential"
      /\ f.kind = "registered" /\ f.new => f = Registered(f.id, TRUE) /\ f.id \in Nat
    BY <1>1, <1>3 DEF Equipped, Frames, Registered
<1>5. /\ \A l \in Machines : l # m => machine'[l] = machine[l]
      /\ machine'[m].up \in BOOLEAN
      /\ \/ /\ f.kind = "registered" /\ f.new
            /\ machine'[m].enrolled = f.id /\ machine'[m].file = f.id /\ machine'[m].up
         \/ /\ f.kind = "registered" /\ ~f.new
            /\ machine'[m].enrolled = p.enrolled /\ machine'[m].file = p.file /\ machine'[m].up
         \/ /\ f.kind # "registered" /\ p.enrolled # None
            /\ machine'[m].enrolled = p.enrolled /\ machine'[m].file = p.file /\ machine'[m].up
         \/ /\ f.kind # "registered" /\ ~machine'[m].up
            /\ machine'[m].enrolled = None /\ machine'[m].file \in {None, p.file}
  <2> HIDE DEF f, m
  <2>a. f = Head(wire[s].says) /\ m = wire[s].of /\ p = machine[m]
    BY DEF f, m
  <2>1. CASE f.kind = "registered"
    <3>1. machine' = [machine EXCEPT ![m] = [p EXCEPT !.token = None,
              !.enrolled = IF f.new THEN f.id ELSE p.enrolled,
              !.file = IF f.new THEN f.id ELSE p.file]]
      BY <1>1, <1>2, <2>1, <2>a DEF Listen, OnRegistered
    <3>2. f.new \in BOOLEAN
      BY <1>3, <2>a DEF Frames
    <3> HIDE DEF p
    <3>3. /\ machine'[m].up = p.up
          /\ machine'[m].enrolled = IF f.new THEN f.id ELSE p.enrolled
          /\ machine'[m].file = IF f.new THEN f.id ELSE p.file
          /\ \A l \in Machines : l # m => machine'[l] = machine[l]
      BY <1>1, <1>2, <2>a, <3>1 DEF Procs
    <3>4. p.up = TRUE
      BY <1>2, <2>a DEF Procs
    <3>5. QED  BY <2>1, <3>2, <3>3, <3>4
  <2>2. CASE f.kind # "registered"
    <3>1. machine' = [machine EXCEPT ![m] =
              IF f.kind \in {"invalid-token", "expired-token"} /\ p.enrolled # None
              THEN [p EXCEPT !.token = None]
              ELSE [up |-> FALSE, token |-> None, enrolled |-> None,
                    file |-> IF f.kind \in {"unauthorized", "revoked"} THEN None ELSE p.file]]
      BY <1>1, <1>2, <2>2, <2>a DEF Listen, OnTurnedAway
    <3> HIDE DEF p
    <3>2. \A l \in Machines : l # m => machine'[l] = machine[l]
      BY <1>1, <3>1
    <3>3. CASE f.kind \in {"invalid-token", "expired-token"} /\ p.enrolled # None
      <4>1. machine'[m] = [p EXCEPT !.token = None]
        BY <1>1, <1>2, <2>a, <3>1, <3>3
      <4>2. machine'[m].up = p.up /\ machine'[m].enrolled = p.enrolled /\ machine'[m].file = p.file
        BY <1>2, <4>1, <2>a DEF Procs
      <4>3. p.up = TRUE
        BY <1>2, <2>a DEF Procs
      <4>4. QED  BY <2>2, <3>2, <3>3, <4>2, <4>3
    <3>4. CASE ~(f.kind \in {"invalid-token", "expired-token"} /\ p.enrolled # None)
      <4>1. machine'[m] = [up |-> FALSE, token |-> None, enrolled |-> None,
                           file |-> IF f.kind \in {"unauthorized", "revoked"} THEN None ELSE p.file]
        BY <1>1, <1>2, <2>a, <3>1, <3>4
      <4>2. /\ machine'[m].up = FALSE /\ machine'[m].enrolled = None
            /\ machine'[m].file \in {None, p.file}
        BY <4>1
      <4>3. QED  BY <2>2, <3>2, <4>2
    <3>5. QED  BY <3>3, <3>4
  <2>3. QED  BY <2>1, <2>2 DEF f, m
<1>6. /\ wire'[s].of = m /\ wire'[s].auth = wire[s].auth /\ wire'[s].says = Tail(wire[s].says)
      /\ wire'[s].mine = machine'[m].up
      /\ \A r \in Sockets : r # s => wire'[r] = wire[r]
  <2>1. wire' = [wire EXCEPT ![s] = [wire[s] EXCEPT !.says = Tail(wire[s].says),
                                                    !.mine = machine'[wire[s].of].up]]
    BY <1>1 DEF Listen
  <2>2. QED  BY <1>1, <2>1 DEF Conns
<1>7. \A r \in Sockets : /\ wire'[r].of = wire[r].of /\ wire'[r].auth = wire[r].auth
                         /\ ToSet(wire'[r].says) \subseteq ToSet(wire[r].says)
                         /\ wire'[r].mine => wire[r].mine
    BY <1>1, <1>3, <1>6
<1> HIDE DEF m, f, p
<1>a. m = wire[s].of /\ f \in ToSet(wire[s].says) /\ p = machine[m]
    BY <1>3 DEF m, f, p
<1>8. HeldBefore
  <2> SUFFICES ASSUME NEW i \in Nat \ {None}, Holds(i)' PROVE Holds(i)
    BY DEF HeldBefore
  <2>1. ASSUME NEW l \in Machines, machine'[l].file = i \/ machine'[l].enrolled = i
        PROVE  Holds(i)
    <3>1. CASE machine[l].file = i \/ machine[l].enrolled = i
      BY <3>1 DEF Holds
    <3>2. CASE ~(machine[l].file = i \/ machine[l].enrolled = i)
      <4>1. l = m /\ f.kind = "registered" /\ f.new /\ f.id = i
        BY <1>5, <1>a, <2>1, <3>2
      <4>2. Registered(i, TRUE) \in ToSet(wire[s].says)
        BY <1>4, <1>a, <4>1
      <4>3. QED  BY <4>2 DEF Holds
    <3>3. QED  BY <3>1, <3>2
  <2>2. ASSUME NEW r \in Sockets,
               wire'[r].auth = Credential(i) \/ Registered(i, TRUE) \in ToSet(wire'[r].says)
        PROVE  Holds(i)
    <3>1. wire[r].auth = Credential(i) \/ Registered(i, TRUE) \in ToSet(wire[r].says)
      BY <1>7, <2>2
    <3>2. QED  BY <3>1 DEF Holds
  <2>3. QED  BY <2>1, <2>2 DEF Holds
<1>9. Equipped'
  <2>1. ASSUME NEW l \in Machines, machine'[l].up, machine'[l].token = None
        PROVE  machine'[l].enrolled # None
    <3>1. CASE l # m
      BY <1>1, <1>5, <2>1, <3>1 DEF Equipped
    <3>2. CASE l = m
      BY <1>2, <1>4, <1>5, <2>1, <3>2
    <3>3. QED  BY <3>1, <3>2
  <2>2. ASSUME NEW r \in Sockets, wire'[r].mine
        PROVE  /\ wire'[r].of \in Machines /\ machine'[wire'[r].of].up
               /\ wire'[r].auth.kind = "credential" => machine'[wire'[r].of].enrolled # None
    <3>1. wire[r].mine /\ wire'[r].of = wire[r].of /\ wire'[r].auth = wire[r].auth
      BY <1>7, <2>2
    <3>2. /\ wire[r].of \in Machines /\ machine[wire[r].of].up
          /\ wire[r].auth.kind = "credential" => machine[wire[r].of].enrolled # None
      BY <1>1, <3>1 DEF Equipped
    <3>3. CASE wire[r].of # m
      BY <1>5, <3>1, <3>2, <3>3
    <3>4. CASE wire[r].of = m
      <4>1. r = s
        BY <1>1, <1>a, <3>1, <3>4 DEF Equipped
      <4>2. machine'[m].up
        BY <1>6, <2>2, <4>1
      <4>3. wire[s].auth.kind = "credential" => machine'[m].enrolled # None
        BY <1>2, <1>4, <1>5, <4>2
      <4>4. QED  BY <3>1, <3>2, <3>4, <4>1, <4>2, <4>3
    <3>5. QED  BY <3>3, <3>4
  <2>3. \A q, r \in Sockets : wire'[q].mine /\ wire'[r].mine /\ wire'[q].of = wire'[r].of => q = r
    BY <1>1, <1>7 DEF Equipped
  <2>4. \A r \in Sockets : wire'[r].auth.kind = "credential" => wire'[r].auth.of # None
    BY <1>1, <1>7 DEF Equipped
  <2>5. \A r \in Sockets : \A g \in ToSet(wire'[r].says) : g.kind = "registered" =>
           IF g.new THEN g.id # None ELSE wire'[r].auth.kind = "credential"
    BY <1>1, <1>7 DEF Equipped
  <2>6. QED  BY <2>1, <2>2, <2>3, <2>4, <2>5 DEF Equipped, None
<1>10. RefusedOnlyOnceRevoked'
    BY <1>1, <1>7 DEF HoldersInv, RefusedOnlyOnceRevoked
<1>11. QED  BY <1>1, <1>8, <1>9, <1>10, StandingStill

-----------------------------------------------------------------------------
(* Revoking and pairing are exact *)

\* Nobody holds anything to begin with.
LEMMA InitHolders == GateInit => HoldersInv /\ HoldersDurable
<1> SUFFICES ASSUME GateInit PROVE HoldersInv /\ HoldersDurable  OBVIOUS
<1>1. /\ DOMAIN writes = {} /\ ToSet(<<>>) = {}
      /\ \A s \in Sockets : wire[s] = Free
      /\ \A m \in Machines : ~machine[m].up /\ machine[m].file = None /\ machine[m].enrolled = None
    BY DEF GateInit, ToSet
<1>2. Free.auth.kind = "none" /\ Free.says = <<>> /\ Free.mine = FALSE
    BY DEF Free, NoAuth
<1>3. \A i \in Nat \ {None} : ~Holds(i)
  <2>1. \A i : Credential(i).kind = "credential"
    BY DEF Credential
  <2>2. ASSUME NEW i \in Nat \ {None}, Holds(i) PROVE FALSE
    <3>1. i # None
      OBVIOUS
    <3>2. ~\E m \in Machines : machine[m].file = i \/ machine[m].enrolled = i
      BY <1>1, <3>1
    <3>3. ~\E s \in Sockets : wire[s].auth = Credential(i) \/ Registered(i, TRUE) \in ToSet(wire[s].says)
      BY <1>1, <1>2, <2>1
    <3>4. QED  BY <2>2, <3>2, <3>3 DEF Holds
  <2>3. QED  BY <2>2
<1>4. HoldersKnown /\ HoldersDurable
    BY <1>3 DEF HoldersKnown, HoldersDurable
<1>5. NotYetHeld
    BY <1>1 DEF NotYetHeld
<1>6. Equipped /\ RefusedOnlyOnceRevoked
    BY <1>1, <1>2 DEF Equipped, RefusedOnlyOnceRevoked
<1>7. QED  BY <1>4, <1>5, <1>6 DEF HoldersInv

\* No step leaves a holder without a record or a revocation, except that a restart
\* needs the record to be on disk.
LEMMA HoldersKept ==
    ASSUME RecordsInv, HoldersInv, [GateNext]_gateVars, HostRestarts => HoldersDurable
    PROVE  HoldersInv' /\ (HoldersDurable /\ UndoneAlone => HoldersDurable')
<1>1. Standing /\ Equipped' /\ RefusedOnlyOnceRevoked'
  <2>1. CASE \/ Mint \/ Lapse \/ \E i \in Ids : AskRevoke(i)
             \/ \E s \in Sockets : HearRegister(s) \/ HostSeesClose(s) \/ SocketDies(s)
    BY <2>1, HostHolders
  <2>2. ASSUME NEW n \in DOMAIN gate,
               RegisterByToken(n) \/ RegisterByCredential(n) \/ RevokeStarts(n)
        PROVE  Standing /\ Equipped' /\ RefusedOnlyOnceRevoked'
    BY <2>2, RedeemHolders, PresentHolders, RevokeStartsHolders
  <2>3. CASE WriteLands
    <3>1. writes # <<>>
      BY <2>3 DEF WriteLands
    <3>2. Waited => RegisterLands(1) \/ RevokeLands(1)
      BY <2>3, <3>1, AtTheHead DEF WriteLands
    <3>3. QED  BY <2>3, <3>2, RegisterLandsHolders, OtherLandsHolders
  <2>4. CASE WriteFails  BY <2>4, WriteFailsHolders
  <2>5. CASE HostRestarts  BY <2>5, RestartHolders
  <2>6. ASSUME NEW s \in Sockets, WorkerBeats(s) \/ Listen(s) \/ MachineSeesClose(s) \/ Forget(s)
        PROVE  Standing /\ Equipped' /\ RefusedOnlyOnceRevoked'
    BY <2>6, BeatHolders, ListenHolders, PartingHolders
  <2>7. ASSUME NEW m \in Machines, Boot(m) \/ Dial(m) \/ MachineCrashes(m)
        PROVE  Standing /\ Equipped' /\ RefusedOnlyOnceRevoked'
    BY <2>7, BootHolders, DialHolders, PartingHolders
  <2>8. CASE UNCHANGED gateVars
    <3> USE <2>8 DEF gateVars, gateHost
    <3>1. Ordinary(wire, wire')
      BY DEF Ordinary
    <3>2. HeldBefore /\ Equipped' /\ RefusedOnlyOnceRevoked'
      BY <3>1, OrdinaryHolders
    <3>3. QED  BY <3>2, StandingStill
  <2>9. QED
    BY <2>1, <2>2, <2>3, <2>4, <2>5, <2>6, <2>7, <2>8 DEF GateNext, GateTask, GateFault
<1>2. QED  BY <1>1 DEF Standing, HoldersInv

\* What a holder has is what the run's properties ask for.
LEMMA HoldersAreExact ==
    ASSUME RecordsInv, HoldersInv
    PROVE  RevocationIsExact /\ PairingIsExact
<1>1. RevocationIsExact
    BY DEF RecordsInv, Out, RevokedStayOut, HoldersInv, RevocationIsExact
<1>2. TokenEnrollsOnce
    BY DEF RecordsInv, Spent, TokenEnrollsOnce
<1>3. EnrollmentsSurvive
  <2> SUFFICES ASSUME NEW m \in Machines, machine[m].file # None
               PROVE  LET i == machine[m].file
                      IN  i \in mem \/ i \in revoked \/ \E n \in DOMAIN gate : gate[n].task = Revoking(i)
    BY DEF EnrollmentsSurvive
  <2> DEFINE i == machine[m].file
  <2>1. i \in Nat \ {None} /\ Holds(i)
    <3>1. machine[m] \in Procs
      BY DEF RecordsInv, Shapes
    <3>2. QED  BY <3>1 DEF Procs, Holds
  <2>2. i \in mem \/ i \in revoked \/ BeingRevoked(i, Len(writes))
    BY <2>1 DEF HoldersInv, HoldersKnown, Known
  <2>3. ASSUME NEW k \in DOMAIN writes, writes[k].op = "revoke", writes[k].id = i
        PROVE  \E n \in DOMAIN gate : gate[n].task = Revoking(i)
    <3>1. 1 \in DOMAIN gate /\ gate[1].task.id = i /\ gate[1].task.what = "revoke"
      BY <2>3 DEF RecordsInv, OneAtATime, Awaited
    <3>2. gate[1].task = Revoking(gate[1].task.id)
      BY <3>1 DEF RecordsInv, Line
    <3>3. QED  BY <3>1, <3>2
  <2>4. QED  BY <2>2, <2>3 DEF BeingRevoked
<1>4. QED  BY <1>1, <1>2, <1>3 DEF PairingIsExact

\* Durability is kept too, as long as no revocation is undone behind other writes.
LEMMA DurableKept ==
    ASSUME RecordsInv, HoldersInv, HoldersDurable, [GateNext]_gateVars, [UndoneAlone]_gateVars
    PROVE  HoldersInv' /\ HoldersDurable'
<1>1. HoldersInv' /\ (UndoneAlone => HoldersDurable')
    BY HoldersKept
<1>2. CASE UNCHANGED gateVars
  <2>1. HoldersDurable'
    BY <1>2 DEF gateVars, gateHost, HoldersDurable, Durable, Holds, BeingRevoked
  <2>2. QED  BY <1>1, <2>1
<1>3. QED  BY <1>1, <1>2

\* Revoking and pairing are exact through any failures, as long as no revocation's
\* write fails with other writes behind it: nobody is told "unauthorized" whose
\* revocation was not reported done, nothing revoked comes back, and every
\* credential a machine stored has its record until it is revoked
\* (WorkerRegistry.#serialize, revoke, #handleRegister; FleetStore.redeemPairing,
\* revoke, touch, #persist).
THEOREM GateIsExact ==
    GateSpec /\ [][UndoneAlone]_gateVars => [](RevocationIsExact /\ PairingIsExact)
<1>1. GateInit => HoldersInv /\ HoldersDurable  BY InitHolders
<1>2. RecordsInv /\ HoldersInv /\ HoldersDurable /\ [GateNext]_gateVars /\ [UndoneAlone]_gateVars
        => HoldersInv' /\ HoldersDurable'
    BY DurableKept
<1>3. RecordsInv /\ HoldersInv => RevocationIsExact /\ PairingIsExact
    BY HoldersAreExact
<1>4. QED  BY <1>1, <1>2, <1>3, RecordsFit, PTL DEF GateSpec

\* Until the first failure, what holders have is durable.
DurableYet == /\ gateSpent \in [{"beats", "revokes", "faults"} -> Nat]
              /\ gateSpent["faults"] = 0 => HoldersDurable

\* One failure leaves the other writes to be durable.
LEMMA DurableYetKept ==
    ASSUME MaxFaults <= 1, RecordsInv, HoldersInv, DurableYet, [GateNext]_gateVars
    PROVE  HoldersInv' /\ DurableYet'
<1>1. MaxFaults \in Nat /\ gateSpent \in [{"beats", "revokes", "faults"} -> Nat]
    BY GateAssumption DEF DurableYet
<1>2. ASSUME NEW what \in {"beats", "revokes", "faults"}, NEW limit, GateSpend(what, limit)
      PROVE  /\ gateSpent' \in [{"beats", "revokes", "faults"} -> Nat]
             /\ gateSpent'[what] = gateSpent[what] + 1
             /\ what # "faults" => gateSpent'["faults"] = gateSpent["faults"]
    BY <1>1, <1>2 DEF GateSpend
<1>3. HostRestarts => HoldersDurable
  <2>1. ASSUME HostRestarts PROVE gateSpent["faults"] = 0
    <3>1. gateSpent["faults"] < MaxFaults /\ gateSpent["faults"] \in Nat
      BY <1>1, <2>1 DEF HostRestarts, GateSpend
    <3>2. QED  BY <1>1, <3>1
  <2>2. QED  BY <2>1 DEF DurableYet
<1>4. HoldersInv' /\ (HoldersDurable /\ UndoneAlone => HoldersDurable')
    BY <1>3, HoldersKept
<1>5. /\ gateSpent' \in [{"beats", "revokes", "faults"} -> Nat]
      /\ gateSpent'["faults"] = 0 => gateSpent["faults"] = 0
      /\ gateSpent'["faults"] = 0 => ~WriteFails
  <2>1. ASSUME GateSpend("faults", MaxFaults)
        PROVE  gateSpent' \in [{"beats", "revokes", "faults"} -> Nat] /\ gateSpent'["faults"] # 0
    <3>1. gateSpent'["faults"] = gateSpent["faults"] + 1 /\ gateSpent["faults"] \in Nat
          /\ gateSpent' \in [{"beats", "revokes", "faults"} -> Nat]
      BY <1>1, <1>2, <2>1
    <3>2. QED  BY <3>1
  <2>2. CASE WriteFails \/ HostRestarts \/ (\E s \in Sockets : SocketDies(s))
             \/ (\E m \in Machines : MachineCrashes(m))
    <3>1. GateSpend("faults", MaxFaults)
      BY <2>2 DEF WriteFails, HostRestarts, SocketDies, MachineCrashes
    <3>2. QED  BY <2>1, <3>1
  <2>3. CASE \E i \in Ids : AskRevoke(i)
    <3>1. GateSpend("revokes", MaxRevokes)
      BY <2>3 DEF AskRevoke
    <3>2. ~WriteFails
      BY <2>1, <1>2, <3>1 DEF WriteFails
    <3>3. QED  BY <1>2, <3>1, <3>2
  <2>4. CASE \E s \in Sockets : WorkerBeats(s)
    <3>1. GateSpend("beats", MaxBeats)
      BY <2>4 DEF WorkerBeats
    <3>2. QED  BY <1>2, <2>1, <3>1 DEF WriteFails
  <2>5. CASE gateSpent' = gateSpent
    BY <1>1, <2>1, <2>5 DEF WriteFails
  <2>6. QED
    BY <2>2, <2>3, <2>4, <2>5 DEF GateNext, GateTask, GateFault, gateVars, gateHost, Mint, Lapse,
       RegisterByToken, RegisterByCredential, RevokeStarts, WriteLands, HearRegister, HostSeesClose,
       Listen, MachineSeesClose, Forget, Boot, Dial
<1>6. DurableYet'
    BY <1>4, <1>5 DEF DurableYet, UndoneAlone
<1>7. QED  BY <1>4, <1>6

\* With at most one failure, of whatever kind, nothing else need be assumed: the
\* record of an enrollment is on disk before its credential is told to anybody
\* (redeemPairing: persisted before it is acknowledged).
THEOREM OneFailureIsSurvived ==
    ASSUME MaxFaults <= 1
    PROVE  GateSpec => [](RevocationIsExact /\ PairingIsExact)
<1>1. GateInit => HoldersInv /\ DurableYet
    BY InitHolders DEF GateInit, DurableYet
<1>2. RecordsInv /\ HoldersInv /\ DurableYet /\ [GateNext]_gateVars => HoldersInv' /\ DurableYet'
    BY DurableYetKept
<1>3. RecordsInv /\ HoldersInv => RevocationIsExact /\ PairingIsExact
    BY HoldersAreExact
<1>4. QED  BY <1>1, <1>2, <1>3, RecordsFit, PTL DEF GateSpec
=============================================================================
