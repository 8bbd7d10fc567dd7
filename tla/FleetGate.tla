------------------------------- MODULE FleetGate -------------------------------
(***************************************************************************)
(* How a machine becomes a worker and stays one: pairing tokens and the    *)
(* enrolled fleet (packages/orchestrator/src/fleet.ts), registration and   *)
(* revocation on one gate (workers.ts), and a machine's token, stored      *)
(* credential and reconnects (packages/worker/src/connection.ts,           *)
(* identity.ts, daemon.ts, bin.ts).                                        *)
(*                                                                         *)
(* An enrollment is numbered in the order minted, and its number stands    *)
(* for its id, its credential and its record. A write carries the records  *)
(* as they were when it was asked for. What a connection does beside       *)
(* enrollment (leases, reports) is the other modules' subject.             *)
(***************************************************************************)
EXTENDS Integers, Sequences, SequencesExt, FiniteSets

CONSTANTS
    Machines,
    Tokens,        \* pairing tokens, 1..n
    Sockets,       \* connection slots, reused once both ends are done, 1..n
    MaxBeats,      \* bound: heartbeats whose write is modelled
    MaxRevokes,    \* bound: the operator's revocations
    MaxFaults      \* bound: failed writes, dead sockets, crashes, restarts

ASSUME GateAssumption ==
    /\ Tokens \subseteq Nat \ {0} /\ Sockets \subseteq Nat \ {0}
    /\ {MaxBeats, MaxRevokes, MaxFaults} \subseteq Nat

VARIABLES
    mem,           \* FleetStore's #workers: the enrollments on record
    bought,        \* the token each enrollment was minted for
    disk,          \* the enrollments in fleet.json
    writes,        \* FleetStore's #io: records to write, and for whom
    pairing,       \* each token: "unminted", "live", "lapsed" or "gone"
    gate,          \* #gate: registrations and revocations, the head under way
    live,          \* WorkerRegistry's #workers: the socket of each enrollment
    wire,          \* the connections, with what the host knows of each
    machine,       \* each machine's process and worker.json
    revoked,       \* enrollments whose revocation was reported done
    gateSpent

gateHost == <<mem, bought, disk, writes, pairing, gate, live, revoked>>
gateVars == <<gateHost, wire, machine, gateSpent>>

Ids  == 1..Cardinality(Tokens)
None == 0

Running(m) == machine[m].up
GateSpend(what, limit) ==
    /\ gateSpent[what] < limit
    /\ gateSpent' = [gateSpent EXCEPT ![what] = @ + 1]

Pairing(t)    == [kind |-> "pairing", of |-> t]
Credential(i) == [kind |-> "credential", of |-> i]
NoAuth        == [kind |-> "none", of |-> None]

Registering(s) == [what |-> "register", socket |-> s, id |-> None]
Revoking(i)    == [what |-> "revoke", socket |-> None, id |-> i]

Registered(i, fresh) == [kind |-> "registered", id |-> i, new |-> fresh]
Denied(code)         == [kind |-> code, id |-> None, new |-> FALSE]
RevokedFrame         == [kind |-> "revoked", id |-> None, new |-> FALSE]

\* A connection: auth of the register frame, how far the host is with it, the
\* entry it published, frames under way to the machine, and whether it carries.
Free == [of |-> "nobody", auth |-> NoAuth, host |-> "shut", id |-> None,
         says |-> <<>>, open |-> FALSE, mine |-> FALSE]

\* One more frame on s, if it still carries.
Told(w, s, frame) == IF w[s].open THEN [w EXCEPT ![s].says = Append(@, frame)] ELSE w
\* close(): what was sent first is delivered.
Shutting(w, s) == [w EXCEPT ![s].host = "closing"]
\* terminate()
CutOff(w, s) == [w EXCEPT ![s].open = FALSE, ![s].says = <<>>]
Refused(s, code) == Shutting(Told(wire, s, Denied(code)), s)

(* Slips (README, "Mutants"). *)
\* MayRun, without #serialize (RefusedOnlyOnceRevoked).
RunAtOnce(n) == TRUE
\* Evicted, for whichever connection closes (NewestConnectionStands).
EvictedRegardless(s) == live[wire[s].id] # None
\* Spend, leaving an accepted token for the next sweep (PairingIsExact).
SpendLater(t) == [pairing EXCEPT ![t] = IF @ = "lapsed" THEN "gone" ELSE @]
\* Touched, putting back what it does not find (RevokedStayOut).
TouchedOrAdded(i) == mem \cup {i}
\* Announced, ahead of the write (PairingIsExact).
AnnouncedEarly(s, i) == Told([wire EXCEPT ![s].id = i], s, Registered(i, TRUE))

-----------------------------------------------------------------------------
(* FleetStore *)

\* redeemPairing's lookup: the entry goes at once, whatever it turns out to be,
\* and every other lapsed one with it.
Spend(t) == [u \in Tokens |-> IF u = t \/ pairing[u] = "lapsed" THEN "gone"
                              ELSE pairing[u]]

\* #persist: the records as they are now, in line behind the writes before.
Persisted(ids, op, i) == Append(writes, [ids |-> ids, op |-> op, id |-> i])

\* mintPairingToken
Mint ==
    \E t \in Tokens :
        /\ pairing[t] = "unminted"
        /\ pairing' = [u \in Tokens |-> IF u = t THEN "live"
                                        ELSE IF pairing[u] = "lapsed" THEN "gone"
                                        ELSE pairing[u]]
        /\ UNCHANGED <<mem, bought, disk, writes, gate, live, revoked, wire,
                       machine, gateSpent>>

Lapse ==
    \E t \in Tokens :
        /\ pairing[t] = "live"
        /\ pairing' = [pairing EXCEPT ![t] = "lapsed"]
        /\ UNCHANGED <<mem, bought, disk, writes, gate, live, revoked, wire,
                       machine, gateSpent>>

-----------------------------------------------------------------------------
(* WorkerRegistry: the gate *)

\* #serialize: a task starts once those before it are done.
MayRun(n) == n = 1
Starting(n) == n \in DOMAIN gate /\ ~gate[n].begun /\ MayRun(n)
Begun(n) == [gate EXCEPT ![n].begun = TRUE]

\* What a registration says while its write is under way: nothing.
Announced(s, i) == wire

\* #handleRegister with a pairing token.
RegisterByToken(n) ==
    LET s == gate[n].task.socket
        t == wire[s].auth.of
        i == Len(bought) + 1
    IN  /\ Starting(n) /\ gate[n].task.what = "register"
        /\ wire[s].auth.kind = "pairing"
        /\ pairing' = Spend(t)
        /\ IF pairing[t] = "live" /\ i \in Ids
           THEN /\ bought' = Append(bought, t)
                /\ mem' = mem \cup {i}
                /\ writes' = Persisted(mem', "redeem", i)
                /\ gate' = [Begun(n) EXCEPT ![n].task.id = i]
                /\ wire' = Announced(s, i)
           ELSE /\ wire' = Refused(s, IF pairing[t] = "lapsed" THEN "expired-token"
                                      ELSE "invalid-token")
                /\ gate' = RemoveAt(gate, n)
                /\ UNCHANGED <<bought, mem, writes>>
        /\ UNCHANGED <<disk, live, revoked, machine, gateSpent>>

\* #handleRegister with a credential: authenticate, then touch.
RegisterByCredential(n) ==
    LET s == gate[n].task.socket
        i == wire[s].auth.of
    IN  /\ Starting(n) /\ gate[n].task.what = "register"
        /\ wire[s].auth.kind = "credential"
        /\ IF i \in mem
           THEN /\ writes' = Persisted(mem, "touch", i)
                /\ gate' = [Begun(n) EXCEPT ![n].task.id = i]
                /\ UNCHANGED wire
           ELSE /\ wire' = Refused(s, "unauthorized")
                /\ gate' = RemoveAt(gate, n)
                /\ UNCHANGED writes
        /\ UNCHANGED <<mem, bought, disk, pairing, live, revoked, machine, gateSpent>>

\* The operator revokes; revoke()'s task starts.
AskRevoke(i) ==
    /\ i \in mem /\ GateSpend("revokes", MaxRevokes)
    /\ gate' = Append(gate, [task |-> Revoking(i), begun |-> FALSE])
    /\ UNCHANGED <<mem, bought, disk, writes, pairing, live, revoked, wire, machine>>

RevokeStarts(n) ==
    LET i == gate[n].task.id
    IN  /\ Starting(n) /\ gate[n].task.what = "revoke"
        /\ IF i \in mem
           THEN /\ mem' = mem \ {i}
                /\ writes' = Persisted(mem', "revoke", i)
                /\ gate' = Begun(n)
           ELSE gate' = RemoveAt(gate, n) /\ UNCHANGED <<mem, writes>>
        /\ UNCHANGED <<bought, disk, pairing, live, revoked, wire, machine, gateSpent>>

\* The task that waits for the write at the head, if one does.
Waiting(op, i) == {n \in DOMAIN gate : /\ gate[n].begun /\ gate[n].task.id = i
                                       /\ (op = "revoke") = (gate[n].task.what = "revoke")}
Waited == writes # <<>> /\ Head(writes).op \in {"redeem", "touch", "revoke"}

\* The rest of #handleRegister: still enrolled, so the entry is installed, the
\* previous connection cut off, and the machine told.
Installed(s, i, fresh) ==
    LET w == Told([wire EXCEPT ![s].id = i, ![s].host = "in"], s, Registered(i, fresh))
    IN  IF live[i] = None THEN w ELSE CutOff(w, live[i])

RegisterLands(n) ==
    LET s == gate[n].task.socket
        i == Head(writes).id
    IN  /\ gate[n].task.what = "register"
        /\ IF i \in mem
           THEN /\ wire' = Installed(s, i, Head(writes).op = "redeem")
                /\ live' = [live EXCEPT ![i] = s]
           ELSE wire' = Refused(s, "unauthorized") /\ UNCHANGED live
        /\ UNCHANGED revoked

\* The rest of revoke(): the live connection is told, dropped and closed.
RevokeLands(n) ==
    LET i == Head(writes).id
    IN  /\ gate[n].task.what = "revoke"
        /\ revoked' = revoked \cup {i}
        /\ live' = [live EXCEPT ![i] = None]
        /\ wire' = IF live[i] = None THEN wire
                   ELSE Shutting(Told(wire, live[i], RevokedFrame), live[i])

WriteLands ==
    /\ writes # <<>>
    /\ disk' = Head(writes).ids /\ writes' = Tail(writes)
    /\ IF Waited
       THEN \E n \in Waiting(Head(writes).op, Head(writes).id) :
                /\ RegisterLands(n) \/ RevokeLands(n)
                /\ gate' = RemoveAt(gate, n)
       ELSE UNCHANGED <<gate, live, wire, revoked>>
    /\ UNCHANGED <<mem, bought, pairing, machine, gateSpent>>

\* A write that rejects: redeemPairing and revoke put the map back, and a
\* registration that was waiting is refused as "malformed".
WriteFails ==
    /\ writes # <<>> /\ GateSpend("faults", MaxFaults)
    /\ writes' = Tail(writes)
    /\ LET op == Head(writes).op
           i  == Head(writes).id
       IN  /\ mem' = CASE op = "redeem" -> mem \ {i}
                       [] op = "revoke" -> mem \cup {i}
                       [] OTHER -> mem
           /\ IF Waited
              THEN \E n \in Waiting(op, i) :
                       /\ gate' = RemoveAt(gate, n)
                       /\ wire' = IF op = "revoke" THEN wire
                                  ELSE Refused(gate[n].task.socket, "malformed")
              ELSE UNCHANGED <<gate, wire>>
    /\ UNCHANGED <<bought, disk, pairing, live, revoked, machine>>

\* touch(): only a record that is there is refreshed.
Touched(i) == mem

\* #handleMessage and #handleHeartbeat, for the worker's connection of the
\* moment: a record that is gone means the worker was revoked.
WorkerBeats(s) ==
    LET i == wire[s].id
        c == live[i]
    IN  /\ wire[s].host \in {"in", "closing"} /\ wire[s].open
        /\ i # None /\ c # None
        /\ GateSpend("beats", MaxBeats)
        /\ mem' = Touched(i)
        /\ IF i \in mem'
           THEN writes' = Persisted(mem', "beat", i) /\ UNCHANGED <<live, wire>>
           ELSE /\ UNCHANGED writes
                /\ live' = [live EXCEPT ![i] = None]
                /\ wire' = Shutting(Told(wire, c, RevokedFrame), c)
        /\ UNCHANGED <<bought, disk, pairing, gate, revoked, machine>>

-----------------------------------------------------------------------------
(* WorkerRegistry: a connection *)

\* accept(): the register frame joins the gate.
HearRegister(s) ==
    /\ wire[s].host = "fresh" /\ wire[s].open
    /\ gate' = Append(gate, [task |-> Registering(s), begun |-> FALSE])
    /\ wire' = [wire EXCEPT ![s].host = "queued"]
    /\ UNCHANGED <<mem, bought, disk, writes, pairing, live, revoked, machine, gateSpent>>

\* #handleDisconnect gives the worker up unless a newer socket has taken over.
Evicted(s) == live[wire[s].id] = s

\* The socket's close event, once its registration is through.
HostSeesClose(s) ==
    /\ wire[s].host \in {"fresh", "in", "closing"}
    /\ ~wire[s].open \/ ~wire[s].mine
    /\ wire' = [CutOff(wire, s) EXCEPT ![s].host = "shut"]
    /\ live' = IF wire[s].id # None /\ Evicted(s)
               THEN [live EXCEPT ![wire[s].id] = None] ELSE live
    /\ UNCHANGED <<mem, bought, disk, writes, pairing, gate, revoked, machine, gateSpent>>

-----------------------------------------------------------------------------
(* A machine *)

\* bin.ts, daemon.ts: the process starts with a token, a stored credential or both.
Boot(m) ==
    /\ ~Running(m)
    /\ \E t \in {u \in Tokens : pairing[u] # "unminted"} \cup {None} :
        /\ t # None \/ machine[m].file # None
        /\ machine' = [machine EXCEPT ![m] =
               [up |-> TRUE, token |-> t, enrolled |-> @.file, file |-> @.file]]
    /\ UNCHANGED <<gateHost, wire, gateSpent>>

\* connect() and authFor(): a token is presented before a credential.
Dial(m) ==
    /\ Running(m) /\ \A s \in Sockets : ~(wire[s].of = m /\ wire[s].mine)
    /\ \E s \in Sockets :
        /\ wire[s] = Free /\ \A r \in Sockets : wire[r] = Free => s <= r
        /\ wire' = [wire EXCEPT ![s] =
               [of |-> m, host |-> "fresh", id |-> None, says |-> <<>>,
                open |-> TRUE, mine |-> TRUE,
                auth |-> IF machine[m].token # None THEN Pairing(machine[m].token)
                         ELSE Credential(machine[m].enrolled)]]
    /\ UNCHANGED <<gateHost, machine, gateSpent>>

\* onRegistered: the credential is stored, the token dropped.
OnRegistered(m, frame) ==
    machine' = [machine EXCEPT
        ![m].token    = None,
        ![m].enrolled = IF frame.new THEN frame.id ELSE @,
        ![m].file     = IF frame.new THEN frame.id ELSE @]

\* onRejected and a "revoked" frame.
OnTurnedAway(m, kind) ==
    machine' = [machine EXCEPT ![m] =
        IF kind \in {"invalid-token", "expired-token"} /\ @.enrolled # None
        THEN [@ EXCEPT !.token = None]
        ELSE [up |-> FALSE, token |-> None, enrolled |-> None,
              file |-> IF kind \in {"unauthorized", "revoked"} THEN None ELSE @.file]]

Listen(s) ==
    LET m == wire[s].of
    IN  /\ wire[s].mine /\ wire[s].says # <<>>
        /\ IF Head(wire[s].says).kind = "registered"
           THEN OnRegistered(m, Head(wire[s].says))
           ELSE OnTurnedAway(m, Head(wire[s].says).kind)
        /\ wire' = [wire EXCEPT ![s].says = Tail(@), ![s].mine = machine'[m].up]
        /\ UNCHANGED <<gateHost, gateSpent>>

\* The "close" event; scheduleReconnect dials again.
MachineSeesClose(s) ==
    /\ wire[s].mine /\ wire[s].says = <<>>
    /\ ~wire[s].open \/ wire[s].host \in {"closing", "shut"}
    /\ wire' = [wire EXCEPT ![s].mine = FALSE]
    /\ UNCHANGED <<gateHost, machine, gateSpent>>

\* A slot both ends are done with.
Forget(s) ==
    /\ wire[s] # Free /\ wire[s].host = "shut" /\ ~wire[s].mine
    /\ wire' = [wire EXCEPT ![s] = Free]
    /\ UNCHANGED <<gateHost, machine, gateSpent>>

-----------------------------------------------------------------------------
(* Faults *)

SocketDies(s) ==
    /\ wire[s].open /\ GateSpend("faults", MaxFaults)
    /\ wire' = CutOff(wire, s)
    /\ UNCHANGED <<gateHost, machine>>

MachineCrashes(m) ==
    /\ Running(m) /\ GateSpend("faults", MaxFaults)
    /\ machine' = [machine EXCEPT ![m] =
           [up |-> FALSE, token |-> None, enrolled |-> None, file |-> @.file]]
    /\ wire' = [s \in Sockets |-> IF wire[s].of = m
                                  THEN [CutOff(wire, s)[s] EXCEPT !.mine = FALSE]
                                  ELSE wire[s]]
    /\ UNCHANGED gateHost

\* FleetStore.init() on the next boot: the records on disk, and no token.
HostRestarts ==
    /\ GateSpend("faults", MaxFaults)
    /\ mem' = disk /\ writes' = <<>> /\ gate' = <<>>
    /\ pairing' = [t \in Tokens |-> IF pairing[t] = "unminted" THEN "unminted" ELSE "gone"]
    /\ live' = [i \in Ids |-> None]
    /\ wire' = [s \in Sockets |-> [CutOff(wire, s)[s] EXCEPT !.host = "shut"]]
    /\ UNCHANGED <<bought, disk, revoked, machine>>

-----------------------------------------------------------------------------
GateInit ==
    /\ mem = {} /\ disk = {} /\ revoked = {} /\ bought = <<>>
    /\ writes = <<>> /\ gate = <<>>
    /\ pairing = [t \in Tokens |-> "unminted"]
    /\ live = [i \in Ids |-> None]
    /\ wire = [s \in Sockets |-> Free]
    /\ machine = [m \in Machines |->
           [up |-> FALSE, token |-> None, enrolled |-> None, file |-> None]]
    /\ gateSpent = [w \in {"beats", "revokes", "faults"} |-> 0]

GateTask == \E n \in DOMAIN gate :
                RegisterByToken(n) \/ RegisterByCredential(n) \/ RevokeStarts(n)
GateFault == \/ WriteFails \/ HostRestarts
             \/ \E s \in Sockets : SocketDies(s)
             \/ \E m \in Machines : MachineCrashes(m)
GateNext ==
    \/ Mint \/ Lapse \/ GateTask \/ WriteLands \/ GateFault
    \/ \E i \in Ids : AskRevoke(i)
    \/ \E s \in Sockets : \/ WorkerBeats(s) \/ HearRegister(s) \/ HostSeesClose(s)
                          \/ Listen(s) \/ MachineSeesClose(s) \/ Forget(s)
    \/ \E m \in Machines : Boot(m) \/ Dial(m)

GateSpec == GateInit /\ [][GateNext]_gateVars

-----------------------------------------------------------------------------
(* Properties *)

GateTypeOK ==
    /\ mem \subseteq Ids /\ disk \subseteq Ids /\ revoked \subseteq Ids
    /\ bought \in Seq(Tokens)
    /\ pairing \in [Tokens -> {"unminted", "live", "lapsed", "gone"}]
    /\ live \in [Ids -> Sockets \cup {None}]
    /\ \A n \in DOMAIN writes : writes[n].ids \subseteq Ids
    /\ machine \in [Machines -> [up : BOOLEAN, token : Tokens \cup {None},
                                 enrolled : Ids \cup {None}, file : Ids \cup {None}]]

\* Once revoke() has reported done, nothing of the enrollment comes back: no
\* record, no connection, whatever registrations, heartbeats and writes were
\* under way (WorkerRegistry.revoke, #serialize, FleetStore.touch).
RevokedStayOut ==
    \A i \in revoked : i \notin mem /\ i \notin disk /\ live[i] = None

\* A machine is told "unauthorized", on which it forgets its credential for
\* good, only when that enrollment's revocation was reported done: never
\* because one was being tried (WorkerRegistry.#serialize, connection.ts's
\* onRejected).
RefusedOnlyOnceRevoked ==
    \A s \in Sockets :
        Denied("unauthorized") \in ToSet(wire[s].says) => wire[s].auth.of \in revoked

\* Revoking is exact: it takes, for good, and nobody else is told it did.
RevocationIsExact == RevokedStayOut /\ RefusedOnlyOnceRevoked

\* The connection registered last is the one the host keeps for a worker: the
\* close of the one it replaced never takes it away (#handleDisconnect).
NewestConnectionStands ==
    \A s \in Sockets : wire[s].host = "in" /\ wire[s].open => live[wire[s].id] = s

\* However often and by however many machines a token is presented, it buys at
\* most one enrollment (redeemPairing: "a slow double-submit can't redeem it
\* twice either").
TokenEnrollsOnce == IsInjective(bought)

\* A credential a machine was given survives any one failure until it is revoked:
\* the record behind it was on disk first (redeemPairing, class FleetStore).
EnrollmentsSurvive ==
    \A m \in Machines :
        LET i == machine[m].file
        IN  i # None => \/ i \in mem \/ i \in revoked
                        \/ \E n \in DOMAIN gate : gate[n].task = Revoking(i)

\* Pairing is exact: a token neither enrolls twice nor is spent for nothing.
PairingIsExact == TokenEnrollsOnce /\ EnrollmentsSurvive

\* A worker is not told that it was revoked while the record is still on disk
\* (WorkerRegistry.revoke: "closing the socket first and then failing to
\* persist would report an error to the operator after the worker had already
\* been told it was revoked, which is backwards").
ToldOnlyOnceDurable ==
    \A s \in Sockets :
        RevokedFrame \in ToSet(wire[s].says) => wire[s].id \notin disk

-----------------------------------------------------------------------------
(* What they need to be inductive *)

Minted == 1..Len(bought)

FrameKinds == {"registered", "revoked", "unauthorized", "invalid-token", "expired-token",
               "malformed"}
Frames == [kind : FrameKinds, id : Nat, new : BOOLEAN]
Auths  == [kind : {"pairing"}, of : Tokens] \cup [kind : {"credential", "none"}, of : Nat]
Conns  == {c \in [of : Machines \cup {"nobody"}, auth : Auths,
                   host : {"shut", "fresh", "queued", "in", "closing"}, id : Nat,
                   says : Seq(Frames), open : BOOLEAN, mine : BOOLEAN] :
           c.mine => c.of \in Machines}
Tasks  == [task : [what : {"register", "revoke"}, socket : Nat, id : Nat], begun : BOOLEAN]
Writes == [ids : SUBSET Nat, op : {"redeem", "touch", "revoke", "beat"}, id : Nat]
Procs  == [up : BOOLEAN, token : Tokens \cup {None}, enrolled : Nat, file : Nat]

Shapes ==
    /\ bought \in Seq(Tokens)
    /\ pairing \in [Tokens -> {"unminted", "live", "lapsed", "gone"}]
    /\ writes \in Seq(Writes) /\ gate \in Seq(Tasks)
    /\ live \in [Ids -> Sockets \cup {None}]
    /\ wire \in [Sockets -> Conns] /\ machine \in [Machines -> Procs]

\* The gate: its head alone is under way, and waits for the one write it asked
\* for; a connection is in it at most once.
Awaited(k) == writes[k].op \in {"redeem", "touch", "revoke"}
OneAtATime ==
    /\ \A n \in DOMAIN gate : gate[n].begun => n = 1
    /\ \A k \in DOMAIN writes : Awaited(k) =>
           /\ 1 \in DOMAIN gate /\ gate[1].begun /\ gate[1].task.id = writes[k].id
           /\ (writes[k].op = "revoke") = (gate[1].task.what = "revoke")
           /\ writes[k].op = "touch" =>
                  wire[gate[1].task.socket].auth = Credential(writes[k].id)
    /\ \A k, l \in DOMAIN writes : Awaited(k) /\ Awaited(l) => k = l
Line ==
    /\ \A n \in DOMAIN gate : gate[n].task.what = "register" =>
           gate[n].task.socket \in Sockets /\ wire[gate[n].task.socket].host = "queued"
    /\ \A n, o \in DOMAIN gate :
           gate[n].task.what = "register" /\ gate[o].task.what = "register"
             /\ gate[n].task.socket = gate[o].task.socket => n = o
    /\ \A n \in DOMAIN gate : gate[n].task.what = "revoke" =>
           gate[n].task = Revoking(gate[n].task.id) /\ gate[n].task.id \in Minted

\* The records: every id is of an enrollment minted, each for a token of its own;
\* whoever waits to be let in is on record from his write on, and whoever is
\* being taken out is on none.
Spent ==
    /\ IsInjective(bought) /\ Minted \subseteq Ids
    /\ \A i \in Minted : pairing[bought[i]] = "gone"
    /\ mem \subseteq Minted /\ disk \subseteq Minted /\ revoked \subseteq Minted
    /\ \A k \in DOMAIN writes : writes[k].ids \subseteq Minted /\ writes[k].id \in Minted
    /\ \A s \in Sockets : wire[s].id \in Minted \cup {None}
UnderWay ==
    \A k \in DOMAIN writes :
        /\ writes[k].op \in {"redeem", "touch"} => writes[k].id \in mem
        /\ writes[k].op = "redeem" =>
               \A l \in DOMAIN writes : l >= k => writes[k].id \in writes[l].ids
        /\ writes[k].op = "revoke" =>
               /\ writes[k].id \notin mem /\ writes[k].id \notin revoked
               /\ \A l \in DOMAIN writes : l >= k => writes[k].id \notin writes[l].ids
Out ==
    \A i \in revoked : /\ i \notin mem /\ i \notin disk /\ live[i] = None
                       /\ \A k \in DOMAIN writes : i \notin writes[k].ids
\* The connection a worker has is one it came in by, and not closed yet.
InTouch ==
    \A i \in Ids : live[i] # None => /\ i \in Minted /\ wire[live[i]].id = i
                                     /\ wire[live[i]].host \in {"in", "closing"}
RecordsInv == Shapes /\ OneAtATime /\ Line /\ InTouch /\ Spent /\ UnderWay /\ Out

\* Who holds a credential, or is about to, and what stands behind it.
Holds(i) == \/ \E m \in Machines : machine[m].file = i \/ machine[m].enrolled = i
            \/ \E s \in Sockets : \/ wire[s].auth = Credential(i)
                                  \/ Registered(i, TRUE) \in ToSet(wire[s].says)
BeingRevoked(i, n) == \E k \in DOMAIN writes : k <= n /\ writes[k].op = "revoke" /\ writes[k].id = i
Known(i)   == i \in mem \/ i \in revoked \/ BeingRevoked(i, Len(writes))
Durable(i) == i \in revoked \/ /\ i \in disk
                               /\ \A k \in DOMAIN writes : i \in writes[k].ids \/ BeingRevoked(i, k)

HoldersKnown   == \A i \in Nat \ {None} : Holds(i) => i \in Minted /\ Known(i)
HoldersDurable == \A i \in Nat \ {None} : Holds(i) => Durable(i)
NotYetHeld     == \A k \in DOMAIN writes : writes[k].op = "redeem" => ~Holds(writes[k].id)

\* A machine that has used its token up has a credential, and its only
\* connection is its own.
Equipped ==
    /\ \A m \in Machines : machine[m].up /\ machine[m].token = None => machine[m].enrolled # None
    /\ \A s \in Sockets : wire[s].mine =>
           /\ wire[s].of \in Machines /\ machine[wire[s].of].up
           /\ wire[s].auth.kind = "credential" => machine[wire[s].of].enrolled # None
    /\ \A s, r \in Sockets : wire[s].mine /\ wire[r].mine /\ wire[s].of = wire[r].of => s = r
    /\ \A s \in Sockets : wire[s].auth.kind = "credential" => wire[s].auth.of # None
    /\ \A s \in Sockets : \A f \in ToSet(wire[s].says) : f.kind = "registered" =>
           IF f.new THEN f.id # None ELSE wire[s].auth.kind = "credential"
HoldersInv == HoldersKnown /\ NotYetHeld /\ Equipped /\ RefusedOnlyOnceRevoked

\* Where durability ends: a revocation whose write fails puts the record back in
\* memory, but not into the writes already asked for behind it.
UndoneAlone == WriteFails /\ Head(writes).op = "revoke" => Tail(writes) = <<>>

===============================================================================
