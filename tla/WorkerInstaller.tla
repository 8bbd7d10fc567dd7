--------------------------- MODULE WorkerInstaller ---------------------------
(***************************************************************************)
(* The hosted installer of a worker machine (packages/worker/scripts/      *)
(* install.sh): a shell script an operator runs, re-runs to upgrade, and   *)
(* runs with --uninstall, which may stop at any step, and the systemd unit *)
(* it leaves behind, whose daemon redeems the pairing token it is started  *)
(* with. The two accounts it may create can also have been there before.   *)
(***************************************************************************)
EXTENDS Naturals, FiniteSets

CONSTANTS Hosts,        \* hosts the operator may pass with --host: 1 ..
          PairingTokens, \* tokens the operator may pass with --token: 1 ..
          MaxScripts,   \* bound: runs of the script
          MaxDaemons    \* bound: deaths of the daemon

VARIABLES
  step,       \* where the running script is, or "none"
  args,       \* its $HOST, $TOKEN and the ownership it found or made
  account,    \* the service user and group: absent, found there, or made by a script
  owned,      \* ownership.env
  installed,  \* binary, wrapper scripts and unit that are in place
  env,        \* worker.env: host and token, 0 for a line that is missing
  enrolled,   \* worker.json: the host its credential is for, or 0
  redeemed,   \* tokens the host has taken
  service,    \* the unit's state: inactive, activating, running, stopping or failed
  journal,    \* registrations logged since the script's $since: none, old or new
  claim,      \* the last thing a script claimed on success
  scripts,    \* runs of the script so far
  deaths      \* deaths of the daemon so far

unitVars == << service, journal, deaths >>
diskVars == << installed, env, enrolled >>
installVars == << step, args, account, owned, diskVars, redeemed, unitVars, claim,
                  scripts >>

Kinds == {"user", "group"}
NothingOwned == [k \in Kinds |-> FALSE]
NoEnv == [host |-> 0, token |-> 0]
NoArgs == [host |-> 0, token |-> 0, made |-> NothingOwned]

InstallInit ==
  /\ step = "none" /\ args = NoArgs
  /\ account \in [Kinds -> {"absent", "found"}]
  /\ owned = NothingOwned
  /\ installed = {} /\ env = NoEnv /\ enrolled = 0
  /\ redeemed = {}
  /\ service = "inactive" /\ journal = "none" /\ deaths = 0
  /\ claim = "none" /\ scripts = 0

-----------------------------------------------------------------------------
(* An install. The host and the token are settled before anything changes,  *)
(* and so is the preflight, whose failure changes nothing.                  *)

HostFor(h) == IF h # 0 THEN h ELSE env.host

TokenFor(h, t) ==
  IF t # 0 THEN t ELSE IF enrolled = HostFor(h) THEN 0 ELSE env.token

BeginInstall(h, t) ==
  /\ step = "none" /\ scripts < MaxScripts
  /\ HostFor(h) # 0
  /\ enrolled = HostFor(h) \/ TokenFor(h, t) # 0
  /\ scripts' = scripts + 1
  /\ step' = "group"
  /\ args' = [host |-> HostFor(h), token |-> TokenFor(h, t), made |-> NothingOwned]
  /\ claim' = "none"
  /\ UNCHANGED << account, owned, diskVars, redeemed, unitVars >>

(* What an earlier run recorded stands; without it, a script that trusts    *)
(* the name alone.                                                          *)
MadeByName(k) == TRUE

Made(k) == owned[k] \/ account[k] = "absent"

CreateAccount(k, next) ==
  /\ step = k
  /\ args' = [args EXCEPT !.made[k] = Made(k)]
  /\ account' = [account EXCEPT ![k] = IF @ = "absent" THEN "made" ELSE @]
  /\ step' = next
  /\ UNCHANGED << owned, diskVars, redeemed, unitVars, claim, scripts >>

RecordOwnership ==
  /\ step = "ownership"
  /\ owned' = args.made
  /\ step' = "binary"
  /\ UNCHANGED << args, account, diskVars, redeemed, unitVars, claim, scripts >>

(* Verified before it is moved over the one that may be running.            *)
PutInPlace(thing, from, next) ==
  /\ step = from
  /\ installed' = installed \cup {thing}
  /\ step' = next
  /\ UNCHANGED << args, account, owned, env, enrolled, redeemed, unitVars, claim,
                  scripts >>

WriteEnv ==
  /\ step = "env"
  /\ env' = [host |-> args.host, token |-> IF args.token # 0 THEN args.token ELSE env.token]
  /\ step' = "unit"
  /\ UNCHANGED << args, account, owned, installed, enrolled, redeemed, unitVars,
                  claim, scripts >>

(* The sandbox packages and the agents' command lines. *)
Provision ==
  /\ step = "provision"
  /\ step' = "restart"
  /\ UNCHANGED << args, account, owned, diskVars, redeemed, unitVars, claim, scripts >>

(* $since is taken, and systemctl restart lets a running daemon drain.      *)
RestartUnit ==
  /\ step = "restart"
  /\ journal' = "none"
  /\ service' = IF service = "running" THEN "stopping" ELSE "activating"
  /\ step' = "wait"
  /\ UNCHANGED << args, account, owned, diskVars, redeemed, deaths, claim, scripts >>

(* A registration in the unit's journal: the token is retired.              *)
Confirmed ==
  /\ step = "wait" /\ service # "stopping" /\ journal # "none"
  /\ env' = [env EXCEPT !.token = 0]
  /\ step' = "none" /\ args' = NoArgs
  /\ claim' = "connected"
  /\ UNCHANGED << account, owned, installed, enrolled, redeemed, unitVars, scripts >>

-----------------------------------------------------------------------------
(* --uninstall: what the record says is brevi's is read first, because the  *)
(* record goes with /etc/brevi.                                             *)

Uninstall ==
  /\ step = "none" /\ scripts < MaxScripts
  /\ scripts' = scripts + 1
  /\ step' = "un-unit"
  /\ args' = [NoArgs EXCEPT !.made = owned]
  /\ claim' = "none"
  /\ service' = "inactive"
  /\ UNCHANGED << account, owned, diskVars, redeemed, journal, deaths >>

RemoveUnit ==
  /\ step = "un-unit"
  /\ installed' = installed \ {"unit"}
  /\ step' = "un-files"
  /\ UNCHANGED << args, account, owned, env, enrolled, redeemed, unitVars, claim,
                  scripts >>

(* Binary, wrappers and /etc/brevi, then what the daemon kept in its home.  *)
RemoveFiles ==
  /\ step = "un-files"
  /\ installed' = {} /\ env' = NoEnv /\ owned' = NothingOwned
  /\ step' = "un-home"
  /\ UNCHANGED << args, account, enrolled, redeemed, unitVars, claim, scripts >>

RemoveHome ==
  /\ step = "un-home"
  /\ enrolled' = 0
  /\ step' = "un-user"
  /\ UNCHANGED << args, account, owned, installed, env, redeemed, unitVars, claim,
                  scripts >>

(* What userdel and groupdel take. Where the system keeps user groups       *)
(* (USERGROUPS_ENAB), a user's deletion takes the group of its name along,  *)
(* if that is its primary group and has no other member: the service group  *)
(* is the primary group of the user brevi makes (useradd --gid).            *)
Taken(k) == IF k = "user" THEN {{"user"}, {"user", "group"}} ELSE {{"group"}}

(* They may fail, which is counted; the other account is still dealt with,  *)
(* and only then does the script say how it went.                           *)
RemoveAccount(k, from, next) ==
  /\ step = from
  /\ \/ UNCHANGED account
     \/ /\ args.made[k] /\ account[k] # "absent"
        /\ \E gone \in Taken(k) :
             account' = [a \in Kinds |-> IF a \in gone THEN "absent" ELSE account[a]]
  /\ step' = next
  /\ claim' = IF account'[k] # "absent" /\ args.made[k] THEN "leftovers"
              ELSE IF next = "none" /\ claim = "none" THEN "removed" ELSE claim
  /\ UNCHANGED << args, owned, diskVars, redeemed, unitVars, scripts >>

(* A command fails under set -e, the operator interrupts it, the wait times *)
(* out, the machine goes down. The files the script was redirecting into    *)
(* are left empty.                                                          *)
Dies ==
  /\ step # "none"
  /\ step' = "none" /\ args' = NoArgs
  /\ owned' \in {owned} \cup (IF step = "ownership" THEN {NothingOwned} ELSE {})
  /\ env' \in {env} \cup (IF step = "env" THEN {NoEnv} ELSE {})
  /\ UNCHANGED << account, installed, enrolled, redeemed, unitVars, claim, scripts >>

-----------------------------------------------------------------------------
(* The unit, left to systemd between and during the scripts.                *)

(* The old daemon is done draining. *)
Stopped ==
  /\ service = "stopping"
  /\ service' = "activating"
  /\ UNCHANGED << step, args, account, owned, diskVars, redeemed, journal, deaths,
                  claim, scripts >>

(* The draining daemon lost its socket and comes back once more. *)
OldRegisters ==
  /\ service = "stopping" /\ enrolled # 0
  /\ journal' = "old"
  /\ UNCHANGED << step, args, account, owned, diskVars, redeemed, service, deaths,
                  claim, scripts >>

(* The wrapper needs the host; the daemon its credential for it, or a token *)
(* the host still takes, which it exchanges for one.                        *)
Registers ==
  /\ service = "activating" /\ {"binary", "wrapper", "unit"} \subseteq installed
  /\ env.host # 0
  /\ \/ enrolled = env.host /\ UNCHANGED << enrolled, redeemed >>
     \/ /\ enrolled # env.host
        /\ env.token # 0 /\ env.token \notin redeemed
        /\ enrolled' = env.host /\ redeemed' = redeemed \cup {env.token}
  /\ service' = "running" /\ journal' = "new"
  /\ UNCHANGED << step, args, account, owned, installed, env, deaths, claim, scripts >>

(* Restart=on-failure, until systemd gives up; before the credential is     *)
(* saved, a redeemed token is gone.                                         *)
DaemonDies ==
  /\ service \in {"activating", "running"} /\ deaths < MaxDaemons
  /\ deaths' = deaths + 1
  /\ service' \in {"activating", "failed"}
  /\ redeemed' \in {redeemed} \cup
       (IF service = "activating" /\ env.token # 0 /\ enrolled # env.host
        THEN {redeemed \cup {env.token}} ELSE {})
  /\ UNCHANGED << step, args, account, owned, diskVars, journal, claim, scripts >>

InstallNext ==
  \/ \E h \in Hosts \cup {0}, t \in PairingTokens \cup {0} : BeginInstall(h, t)
  \/ CreateAccount("group", "user") \/ CreateAccount("user", "ownership")
  \/ RecordOwnership
  \/ PutInPlace("binary", "binary", "wrapper") \/ PutInPlace("wrapper", "wrapper", "env")
  \/ WriteEnv \/ PutInPlace("unit", "unit", "provision")
  \/ Provision \/ RestartUnit \/ Confirmed
  \/ Uninstall \/ RemoveUnit \/ RemoveFiles \/ RemoveHome
  \/ RemoveAccount("user", "un-user", "un-group")
  \/ RemoveAccount("group", "un-group", "none")
  \/ Dies \/ Stopped \/ OldRegisters \/ Registers \/ DaemonDies

InstallSpec == InstallInit /\ [][InstallNext]_installVars

-----------------------------------------------------------------------------
(* The types of the machine's state. *)
InstallTypeOK ==
  /\ account \in [Kinds -> {"absent", "found", "made"}]
  /\ env \in [host : Hosts \cup {0}, token : PairingTokens \cup {0}]
  /\ enrolled \in Hosts \cup {0} /\ redeemed \subseteq PairingTokens

(* An account that was there before brevi is deleted by no sequence of      *)
(* installs, upgrades and uninstalls, cut off anywhere, with one exception: *)
(* deleting the user brevi made can take a group along that it found        *)
(* (FoundGroupsStay). Neither the group alone nor a found user ever goes.   *)
FoundAccountsStay ==
  [][\A k \in Kinds : account[k] = "found" /\ account'[k] # "found" =>
       k = "group" /\ account["user"] = "made" /\ account'["user"] = "absent"]_account

(* Why it holds, for the proof: nothing brevi records or holds in hand says *)
(* of an account that was found that brevi made it.                         *)
InstallInv ==
  /\ account \in [Kinds -> {"absent", "found", "made"}]
  /\ owned \in [Kinds -> BOOLEAN]
  /\ args = [host |-> args.host, token |-> args.token, made |-> args.made]
  /\ args.made \in [Kinds -> BOOLEAN]
  /\ \A k \in Kinds : account[k] = "found" => ~owned[k] /\ ~args.made[k]

(* Not so in the code: userdel takes a found group along with brevi's user. *)
FoundGroupsStay == [][account["group"] = "found" => account'["group"] = "found"]_account

(* Not so in the code: a failed userdel after the ownership record has gone *)
(* is disowned by the next --uninstall, which then reports success.         *)
FullyRemovedIsTrue == claim = "removed" => \A k \in Kinds : account[k] # "made"

(* Not so in the code: the old daemon may log a registration after $since.  *)
ConfirmedByTheNewWorker == claim = "connected" /\ step = "none" => enrolled = env.host
=============================================================================
