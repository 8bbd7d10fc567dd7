------------------------------ MODULE HostProofs ------------------------------
(***************************************************************************)
(* Around the host: that the installer leaves the accounts it found, the   *)
(* local worker has its host, no click exposes a bucket, Linear's          *)
(* connector keeps the user's decisions and repeats no poll, what a row of *)
(* the connectors page says is backed, and the fence of a lease holds both *)
(* ways, for every number of runs, launches, clicks, events and stalls.    *)
(* Each argument is one invariant, stated at the end of its module.        *)
(***************************************************************************)
EXTENDS WorkerInstaller, DesktopShell, EvidenceBucket, LinearConnector, ConnectFlow,
        LeaseFence, SequenceTheorems, TLAPS

-----------------------------------------------------------------------------
(* The installer (WorkerInstaller)                                         *)

\* Nothing was made before the first run of the script.
LEMMA InitInstall == InstallInit => InstallInv
BY DEF InstallInit, InstallInv, NothingOwned, NoArgs, Kinds

\* A script that goes on: an account is recorded as made only if it was absent, or an
\* earlier run recorded it.
LEMMA ScriptsKeepInstall ==
    ASSUME InstallInv,
           \/ \E h \in Hosts \cup {0}, t \in PairingTokens \cup {0} : BeginInstall(h, t)
           \/ CreateAccount("group", "user") \/ CreateAccount("user", "ownership")
           \/ RecordOwnership \/ Confirmed \/ Uninstall \/ RemoveFiles \/ Dies
    PROVE  InstallInv'
<1> USE DEF InstallInv, NothingOwned, NoArgs, Kinds
<1>1. CASE \E h \in Hosts \cup {0}, t \in PairingTokens \cup {0} : BeginInstall(h, t)
    BY <1>1 DEF BeginInstall
<1>2. ASSUME NEW k \in Kinds, NEW next, CreateAccount(k, next) PROVE InstallInv'
  <2>1. Made(k) \in BOOLEAN /\ (account[k] = "found" => Made(k) = FALSE)
    BY DEF Made
  <2>2. /\ args' = [args EXCEPT !.made[k] = Made(k)]
        /\ account' = [account EXCEPT ![k] = IF @ = "absent" THEN "made" ELSE @]
        /\ UNCHANGED owned
    BY <1>2 DEF CreateAccount
  <2>3. args'.made = [args.made EXCEPT ![k] = Made(k)]
        /\ args' = [host |-> args'.host, token |-> args'.token, made |-> args'.made]
    BY <2>2
  <2>4. QED  BY <2>1, <2>2, <2>3
<1>3. CASE RecordOwnership  BY <1>3 DEF RecordOwnership
<1>4. CASE Confirmed  BY <1>4 DEF Confirmed
<1>5. CASE Uninstall  BY <1>5 DEF Uninstall, diskVars
<1>6. CASE RemoveFiles  BY <1>6 DEF RemoveFiles
<1>7. CASE Dies  BY <1>7 DEF Dies
<1>8. QED  BY <1>1, <1>2, <1>3, <1>4, <1>5, <1>6, <1>7

\* What a removal takes: the account it is about, which brevi made, and with the user
\* possibly the group.
LEMMA WhatIsTaken ==
    ASSUME InstallInv, NEW k \in Kinds, NEW from, NEW next, RemoveAccount(k, from, next)
    PROVE  \/ UNCHANGED account
           \/ /\ account[k] = "made"
              /\ \E gone \in SUBSET Kinds :
                   /\ gone = {k} \/ k = "user"
                   /\ account' = [a \in Kinds |-> IF a \in gone THEN "absent" ELSE account[a]]
                   /\ k \in gone
<1> SUFFICES ASSUME account' # account
             PROVE  /\ account[k] = "made"
                    /\ \E gone \in SUBSET Kinds :
                         /\ gone = {k} \/ k = "user"
                         /\ account' = [a \in Kinds |-> IF a \in gone THEN "absent" ELSE account[a]]
                         /\ k \in gone
    OBVIOUS
<1>1. /\ args.made[k] /\ account[k] # "absent"
      /\ \E gone \in Taken(k) :
           account' = [a \in Kinds |-> IF a \in gone THEN "absent" ELSE account[a]]
    BY DEF RemoveAccount
<1>2. account[k] = "made"
    BY <1>1 DEF InstallInv
<1>3. \A gone \in Taken(k) : gone \in SUBSET Kinds /\ (gone = {k} \/ k = "user") /\ k \in gone
    BY DEF Taken, Kinds
<1>4. QED  BY <1>1, <1>2, <1>3

\* A removal makes nothing, and finds nothing.
LEMMA RemovalsKeepInstall ==
    ASSUME InstallInv, NEW k \in Kinds, NEW from, NEW next, RemoveAccount(k, from, next)
    PROVE  InstallInv'
<1>1. UNCHANGED <<args, owned>>
    BY DEF RemoveAccount
<1>2. /\ account' \in [Kinds -> {"absent", "found", "made"}]
      /\ \A a \in Kinds : account'[a] = "found" => account[a] = "found"
    BY WhatIsTaken DEF InstallInv
<1>3. QED  BY <1>1, <1>2 DEF InstallInv

\* Every step keeps the invariant of the installer.
LEMMA NextInstall == InstallInv /\ [InstallNext]_installVars => InstallInv'
<1> SUFFICES ASSUME InstallInv, [InstallNext]_installVars PROVE InstallInv'
    OBVIOUS
<1>1. CASE UNCHANGED <<args, account, owned>>
    BY <1>1 DEF InstallInv
<1>2. CASE UNCHANGED installVars
    BY <1>1, <1>2 DEF installVars
<1>3. CASE \/ \E thing, from, next : PutInPlace(thing, from, next)
           \/ WriteEnv \/ Provision \/ RestartUnit \/ RemoveUnit \/ RemoveHome
           \/ Stopped \/ OldRegisters \/ Registers \/ DaemonDies
    BY <1>1, <1>3 DEF PutInPlace, WriteEnv, Provision, RestartUnit, RemoveUnit, RemoveHome,
                      Stopped, OldRegisters, Registers, DaemonDies
<1>4. CASE RemoveAccount("user", "un-user", "un-group") \/ RemoveAccount("group", "un-group", "none")
    BY <1>4, RemovalsKeepInstall DEF Kinds
<1>5. QED  BY <1>2, <1>3, <1>4, ScriptsKeepInstall DEF InstallNext

\* A found account is touched by nothing but userdel, which takes a found group along with
\* the user brevi made.
LEMMA FoundStays ==
    ASSUME InstallInv, [InstallNext]_installVars, NEW k \in Kinds,
           account[k] = "found", account'[k] # "found"
    PROVE  k = "group" /\ account["user"] = "made" /\ account'["user"] = "absent"
<1>1. ~ UNCHANGED account
    OBVIOUS
<1>2. ASSUME NEW j \in Kinds, NEW next, CreateAccount(j, next) PROVE FALSE
    BY <1>2 DEF CreateAccount, InstallInv
<1>3. ASSUME NEW j \in Kinds, NEW from, NEW next, RemoveAccount(j, from, next)
      PROVE  k = "group" /\ account["user"] = "made" /\ account'["user"] = "absent"
  <2>1. PICK gone \in SUBSET Kinds :
          /\ gone = {j} \/ j = "user"
          /\ account' = [a \in Kinds |-> IF a \in gone THEN "absent" ELSE account[a]]
          /\ j \in gone /\ account[j] = "made"
    BY <1>1, <1>3, WhatIsTaken
  <2>2. k \in gone /\ k # j
    BY <2>1
  <2>3. j = "user" /\ k = "group"
    BY <2>1, <2>2 DEF Kinds
  <2>4. account'["user"] = "absent"
    BY <2>1, <2>3
  <2>5. QED  BY <2>1, <2>3, <2>4
<1>4. \/ CreateAccount("group", "user") \/ CreateAccount("user", "ownership")
      \/ RemoveAccount("user", "un-user", "un-group")
      \/ RemoveAccount("group", "un-group", "none")
  <2>1. CASE \/ \E h \in Hosts \cup {0}, t \in PairingTokens \cup {0} : BeginInstall(h, t)
             \/ RecordOwnership \/ Confirmed \/ Uninstall \/ RemoveFiles \/ Dies
             \/ UNCHANGED installVars
      BY <1>1, <2>1 DEF BeginInstall, RecordOwnership, Confirmed, Uninstall, RemoveFiles, Dies,
                        installVars
  <2>2. CASE \/ \E thing, from, next : PutInPlace(thing, from, next)
             \/ WriteEnv \/ Provision \/ RestartUnit \/ RemoveUnit \/ RemoveHome
             \/ Stopped \/ OldRegisters \/ Registers \/ DaemonDies
      BY <1>1, <2>2 DEF PutInPlace, WriteEnv, Provision, RestartUnit, RemoveUnit, RemoveHome,
                        Stopped, OldRegisters, Registers, DaemonDies
  <2>3. QED  BY <2>1, <2>2 DEF InstallNext
<1>5. "user" \in Kinds /\ "group" \in Kinds
    BY DEF Kinds
<1>6. QED  BY <1>2, <1>3, <1>4, <1>5

\* An account that was there before brevi is deleted by no sequence of installs, upgrades
\* and uninstalls cut off anywhere, except for a group that goes with the user brevi made
\* (install.sh create_service_user and do_uninstall, and the record in ownership.env).
THEOREM FoundAccountsAreKept == InstallSpec => FoundAccountsStay
<1>1. InstallInv /\ [InstallNext]_installVars =>
        [\A k \in Kinds : account[k] = "found" /\ account'[k] # "found" =>
           k = "group" /\ account["user"] = "made" /\ account'["user"] = "absent"]_account
    BY FoundStays
<1>2. QED  BY <1>1, InitInstall, NextInstall, PTL DEF InstallSpec, FoundAccountsStay

-----------------------------------------------------------------------------
(* The desktop shell (DesktopShell)                                        *)

\* The app begins without a worker.
LEMMA InitDesk == DeskInit => DeskInv
BY DEF DeskInit, DeskInv

\* Every step of the app keeps it.
LEMMA NextDesk == DeskInv /\ [DeskNext]_deskVars => DeskInv'
<1> SUFFICES ASSUME DeskInv, [DeskNext]_deskVars PROVE DeskInv'
    OBVIOUS
<1>0. ASSUME UNCHANGED <<at, handle, hosts, daemon, stopping, told>>,
             app' # "off" => app # "off"
      PROVE  DeskInv'
    BY <1>0 DEF DeskInv
<1>1. CASE OpBegins
    BY <1>1 DEF OpBegins, DeskInv, OpDone
<1>2. CASE OrchestratorStops
    BY <1>2 DEF OrchestratorStops, DeskInv, OpDone, WorkerGone
<1>3. CASE OrchestratorStarts
    BY <1>3 DEF OrchestratorStarts, DeskInv, OpDone, workerVars
<1>4. CASE OrchestratorBinds
    BY <1>4 DEF OrchestratorBinds, DeskInv, OpDone
<1>5. CASE Enrolled \/ DaemonFails \/ RestartTimer \/ DaemonStops
    BY <1>5 DEF Enrolled, DaemonFails, RestartTimer, DaemonStops, AfterEnrolling, DeskInv, hostVars
<1>6. CASE Relaunch
    BY <1>6 DEF Relaunch, DeskInv
<1>7. CASE \/ UserRestarts \/ RunsChange \/ MonitorHears \/ Released \/ CheckFeed \/ Downloaded
           \/ DownloadFails \/ UserInstalls \/ UserQuits \/ TeardownDone
    BY <1>0, <1>7 DEF UserRestarts, RunsChange, MonitorHears, Released, CheckFeed, Downloaded,
          DownloadFails, UserInstalls, UserQuits, TeardownDone, Install, Teardown, hostVars, workerVars
<1>8. CASE UNCHANGED deskVars
    BY <1>0, <1>8 DEF deskVars, hostVars, workerVars
<1>9. QED
    BY <1>1, <1>2, <1>3, <1>4, <1>5, <1>6, <1>7, <1>8 DEF DeskNext

\* The local worker's daemon runs only under the host it was started for, and has been told
\* to go from the moment that host is given up (desktop main, supervisor and
\* startLocalWorker), for every number of restarts, failures and launches.
THEOREM LocalWorkerHasItsHost == DeskSpec => []WorkerHasItsHost
<1>1. DeskInv => WorkerHasItsHost
    BY DEF DeskInv, WorkerHasItsHost
<1>2. QED  BY <1>1, InitDesk, NextDesk, PTL DEF DeskSpec

-----------------------------------------------------------------------------
(* Linear's connector (LinearConnector)                                    *)

\* The first configuration is the user's first connection.
LEMMA InitChosen == ConnInit => ChosenInv
<1> SUFFICES ASSUME ConnInit PROVE ChosenInv
    OBVIOUS
<1>1. /\ config = [cred |-> [grant |-> 1, turn |-> 0], repos |-> TRUE]
      /\ file = config /\ chosen = 1 /\ chain = << >> /\ grants = 1
      /\ refresh.cred = [grant |-> 0, turn |-> 0]
    BY DEF ConnInit, NoRefresh, Disconnected
<1>2. /\ config \in [cred : Grants, repos : BOOLEAN]
      /\ config.cred.grant = 1
    BY <1>1 DEF Grants
<1>3. /\ chain \in Seq(Queued)
      /\ refresh.cred \in Grants
    BY <1>1 DEF Grants, Queued
<1>4. QED  BY <1>1, <1>2, <1>3 DEF ChosenInv, LastDecisionStands

\* What does not touch the configuration leaves the decision in force, whatever it makes of
\* a refresh, as long as a refresh that begins is of the credential in force.
LEMMA SameDecision ==
    ASSUME ChosenInv, UNCHANGED <<config, file, chain, reloadTimer, chosen, broughtBack, grants>>,
           refresh'.cred \in {refresh.cred, config.cred, Disconnected}
    PROVE  ChosenInv'
<1>1. refresh'.cred \in Grants
    BY DEF ChosenInv, Grants, Disconnected
<1>2. QED  BY <1>1 DEF ChosenInv, LastDecisionStands, ReloadDue

\* An operation that joins the chain leaves every reload there is to come.
LEMMA JoiningKeepsReloads ==
    ASSUME chain \in Seq(Queued), NEW e \in Queued, chain' = Append(chain, e)
    PROVE  /\ chain' \in Seq(Queued)
           /\ e.op = "reload" \/ (\E i \in DOMAIN chain : chain[i].op = "reload")
                => \E i \in DOMAIN chain' : chain'[i].op = "reload"
<1>1. /\ chain' \in Seq(Queued) /\ Len(chain') = Len(chain) + 1
      /\ DOMAIN chain = 1 .. Len(chain) /\ DOMAIN chain' = 1 .. Len(chain')
      /\ \A i \in DOMAIN chain : chain'[i] = chain[i]
      /\ chain'[Len(chain) + 1] = e /\ Len(chain) \in Nat
    OBVIOUS
<1>2. Len(chain) + 1 \in DOMAIN chain' /\ DOMAIN chain \subseteq DOMAIN chain'
    BY <1>1
<1>3. QED  BY <1>1, <1>2

\* So does one that leaves the chain, when it is not a reload itself.
LEMMA LeavingKeepsReloads ==
    ASSUME chain \in Seq(Queued), chain # << >>, chain' = Tail(chain)
    PROVE  /\ chain' \in Seq(Queued) /\ Head(chain) \in Queued
           /\ Head(chain).op # "reload" /\ (\E i \in DOMAIN chain : chain[i].op = "reload")
                => \E i \in DOMAIN chain' : chain'[i].op = "reload"
<1>1. /\ chain' \in Seq(Queued) /\ Len(chain') = Len(chain) - 1 /\ Head(chain) = chain[1]
      /\ DOMAIN chain = 1 .. Len(chain) /\ DOMAIN chain' = 1 .. Len(chain')
      /\ Len(chain) \in Nat /\ Len(chain) > 0 /\ Head(chain) \in Queued
      /\ \A i \in 1 .. Len(chain) - 1 : chain'[i] = chain[i + 1]
    OBVIOUS
<1>2. ASSUME Head(chain).op # "reload", NEW i \in DOMAIN chain, chain[i].op = "reload"
      PROVE  \E j \in DOMAIN chain' : chain'[j].op = "reload"
  <2>1. i # 1 /\ i - 1 \in 1 .. Len(chain) - 1
    BY <1>1, <1>2
  <2>2. chain'[i - 1] = chain[i]
    BY <1>1, <2>1
  <2>3. QED  BY <1>1, <1>2, <2>1, <2>2
<1>3. QED  BY <1>1, <1>2

\* The refresh's answer is applied to the credential it was asked for, and to no other; a
\* key edited away since then comes back with it, and that is on record.
LEMMA RotatingKeepsChosen == ChosenInv /\ Rotate => ChosenInv'
<1> SUFFICES ASSUME ChosenInv, Rotate PROVE ChosenInv'
    OBVIOUS
<1>1. /\ chain \in Seq(Queued) /\ chain # << >> /\ chain' = Tail(chain)
      /\ Head(chain).op = "rotate" /\ UNCHANGED grants
    BY DEF ChosenInv, Rotate
<1>2. /\ chain' \in Seq(Queued)
      /\ (\E i \in DOMAIN chain : chain[i].op = "reload")
           => \E i \in DOMAIN chain' : chain'[i].op = "reload"
    BY <1>1, LeavingKeepsReloads
<1>3. refresh'.cred \in Grants
    BY DEF Rotate, Resume, NoRefresh, Disconnected, Grants
<1>4. CASE ~StillOurs
  <2>1. UNCHANGED <<config, file, reloadTimer, chosen, broughtBack>>
    BY <1>4 DEF Rotate, decision
  <2>2. QED  BY <1>1, <1>2, <1>3, <2>1 DEF ChosenInv, LastDecisionStands, ReloadDue
<1>5. CASE StillOurs
  <2> DEFINE cred == [refresh.cred EXCEPT !.turn = @ + 1]
  <2>1. /\ config' = [config EXCEPT !.cred = cred] /\ file' = config' /\ reloadTimer' = TRUE
        /\ chosen' = chosen /\ broughtBack' = (broughtBack \/ file.cred # config.cred)
        /\ refresh.cred = config.cred
    BY <1>5 DEF Rotate, StillOurs, SaveOver, Save
  <2>2. cred \in Grants /\ cred.grant = config.cred.grant
    BY <2>1 DEF ChosenInv, Grants
  <2>3. config' \in [cred : Grants, repos : BOOLEAN] /\ config'.cred = cred
    BY <2>1, <2>2 DEF ChosenInv
  <2>4. broughtBack' \/ file'.cred.grant = chosen'
    BY <2>1, <2>2, <2>3 DEF ChosenInv, LastDecisionStands
  <2>5. QED  BY <1>1, <1>2, <1>3, <2>1, <2>3, <2>4 DEF ChosenInv, LastDecisionStands, ReloadDue
<1>6. QED  BY <1>4, <1>5

\* What leaves the chain and saves: the file is the configuration then.
LEMMA SavingKeepsChosen ==
    ASSUME ChosenInv, NEW c \in [cred : Grants, repos : BOOLEAN], Save(c),
           chain # << >>, chain' = Tail(chain), UNCHANGED <<refresh, grants>>,
           broughtBack' \/ c.cred.grant = chosen'
    PROVE  ChosenInv'
<1>1. chain' \in Seq(Queued)
    BY LeavingKeepsReloads DEF ChosenInv
<1>2. QED  BY <1>1 DEF ChosenInv, LastDecisionStands, ReloadDue, Save

\* A connection, a disconnection, a settings form and a reload.
LEMMA ChangesKeepChosen ==
    ASSUME ChosenInv, Connect \/ Disconnect \/ SaveSettings \/ Reload PROVE ChosenInv'
<1>1. chain \in Seq(Queued) /\ config \in [cred : Grants, repos : BOOLEAN]
    BY DEF ChosenInv
<1>2. CASE Connect
  <2> DEFINE cred == [grant |-> Head(chain).grant, turn |-> 0]
             c == [config EXCEPT !.cred = cred]
  <2>1. /\ chain # << >> /\ chain' = Tail(chain) /\ UNCHANGED <<refresh, grants>>
        /\ Save(c) /\ chosen' = cred.grant
    BY <1>2 DEF Connect, Decides
  <2>2. Head(chain) \in Queued
    BY <1>1, <2>1, LeavingKeepsReloads
  <2>3. cred \in Grants
    BY <2>2 DEF Queued, Grants
  <2>4. c \in [cred : Grants, repos : BOOLEAN] /\ c.cred = cred
    BY <1>1, <2>3
  <2> HIDE DEF c, cred
  <2>5. QED  BY <2>1, <2>4, SavingKeepsChosen
<1>3. CASE Disconnect
  <2> DEFINE c == [config EXCEPT !.cred = Disconnected]
  <2>1. /\ chain # << >> /\ chain' = Tail(chain) /\ UNCHANGED <<refresh, grants>>
        /\ Save(c) /\ chosen' = 0
    BY <1>3 DEF Disconnect, Decides
  <2>2. c \in [cred : Grants, repos : BOOLEAN] /\ c.cred.grant = 0
    BY <1>1 DEF Disconnected, Grants
  <2> HIDE DEF c
  <2>3. QED  BY <2>1, <2>2, SavingKeepsChosen
<1>4. CASE SaveSettings
  <2> DEFINE c == [config EXCEPT !.repos = ~@]
  <2>1. /\ chain # << >> /\ chain' = Tail(chain) /\ UNCHANGED <<refresh, grants, chosen>>
        /\ Save(c) /\ broughtBack' = (broughtBack \/ file.cred # config.cred)
    BY <1>4 DEF SaveSettings, SaveOver
  <2>2. c \in [cred : Grants, repos : BOOLEAN] /\ c.cred = config.cred
    BY <1>1
  <2> HIDE DEF c
  <2>3. broughtBack' \/ c.cred.grant = chosen'
    BY <2>1, <2>2 DEF ChosenInv, LastDecisionStands
  <2>4. QED  BY <2>1, <2>2, <2>3, SavingKeepsChosen
<1>5. CASE Reload
  <2>1. /\ chain # << >> /\ chain' = Tail(chain) /\ config' = file
        /\ UNCHANGED <<file, reloadTimer, refresh, chosen, broughtBack, grants>>
    BY <1>5 DEF Reload, history, decision
  <2>2. chain' \in Seq(Queued)
    BY <1>1, <2>1, LeavingKeepsReloads
  <2>3. QED  BY <2>1, <2>2 DEF ChosenInv, LastDecisionStands
<1>6. QED  BY <1>2, <1>3, <1>4, <1>5

\* What joins the chain, a hand edit and a restart.
LEMMA RequestsKeepChosen ==
    ASSUME ChosenInv,
           \/ RefreshAnswers \/ FileSettles \/ HandEdit \/ Restart
           \/ \E op \in {"connect", "disconnect", "settings"} : UserChanges(op)
    PROVE  ChosenInv'
<1>1. chain \in Seq(Queued)
    BY DEF ChosenInv
<1>2. CASE RefreshAnswers
  <2> DEFINE e == [op |-> "rotate", grant |-> refresh.cred.grant]
  <2>1. /\ chain' = Append(chain, e) /\ refresh'.cred = refresh.cred
        /\ UNCHANGED <<config, file, reloadTimer, chosen, broughtBack, grants>>
    BY <1>2 DEF RefreshAnswers, history, decision
  <2>2. e \in Queued
    BY DEF ChosenInv, Queued, Grants
  <2> HIDE DEF e
  <2>3. /\ chain' \in Seq(Queued)
        /\ (\E i \in DOMAIN chain : chain[i].op = "reload")
             => \E i \in DOMAIN chain' : chain'[i].op = "reload"
    BY <1>1, <2>1, <2>2, JoiningKeepsReloads
  <2>4. QED  BY <2>1, <2>3 DEF ChosenInv, LastDecisionStands, ReloadDue
<1>3. CASE FileSettles
  <2> DEFINE e == [op |-> "reload", grant |-> 0]
  <2>1. /\ chain' = Append(chain, e)
        /\ UNCHANGED <<config, file, refresh, chosen, broughtBack, grants>>
    BY <1>3 DEF FileSettles, Enqueued, history, decision
  <2>2. e \in Queued /\ e.op = "reload"
    BY DEF Queued
  <2> HIDE DEF e
  <2>3. /\ chain' \in Seq(Queued)
        /\ \E i \in DOMAIN chain' : chain'[i].op = "reload"
    BY <1>1, <2>1, <2>2, JoiningKeepsReloads
  <2>4. QED  BY <2>1, <2>3 DEF ChosenInv, LastDecisionStands, ReloadDue
<1>4. CASE HandEdit
  <2>1. /\ UNCHANGED <<config, chain, refresh, grants>> /\ reloadTimer' = TRUE
        /\ \/ /\ file' = [file EXCEPT !.repos = ~@] /\ UNCHANGED <<chosen, broughtBack>>
           \/ file' = [file EXCEPT !.cred = Disconnected] /\ chosen' = 0
    BY <1>4 DEF HandEdit, Decides, decision
  <2>2. file \in [cred : Grants, repos : BOOLEAN]
    BY DEF ChosenInv
  <2>3. CASE file' = [file EXCEPT !.repos = ~@] /\ UNCHANGED <<chosen, broughtBack>>
    <3>1. file' \in [cred : Grants, repos : BOOLEAN] /\ file'.cred = file.cred
      BY <2>2, <2>3
    <3>2. QED  BY <2>1, <2>3, <3>1 DEF ChosenInv, LastDecisionStands, ReloadDue
  <2>4. CASE file' = [file EXCEPT !.cred = Disconnected] /\ chosen' = 0
    <3>1. file' \in [cred : Grants, repos : BOOLEAN] /\ file'.cred.grant = 0
      BY <2>2, <2>4 DEF Disconnected, Grants
    <3>2. QED  BY <2>1, <2>4, <3>1 DEF ChosenInv, LastDecisionStands, ReloadDue
  <2>5. QED  BY <2>1, <2>3, <2>4
<1>5. CASE Restart
  <2>1. /\ config' = file /\ chain' = << >> /\ refresh'.cred = Disconnected
        /\ UNCHANGED <<file, chosen, broughtBack, grants>>
    BY <1>5 DEF Restart, Fresh, NoRefresh, decision
  <2>2. chain' \in Seq(Queued) /\ refresh'.cred \in Grants
    BY <2>1 DEF Disconnected, Grants
  <2>3. QED  BY <2>1, <2>2 DEF ChosenInv, LastDecisionStands
<1>6. CASE \E op \in {"connect", "disconnect", "settings"} : UserChanges(op)
  <2>1. PICK op \in {"connect", "disconnect", "settings"} : UserChanges(op)
    BY <1>6
  <2>2. /\ chain' = Append(chain, [op |-> op, grant |-> grants']) /\ grants' \in Nat
        /\ UNCHANGED <<config, file, reloadTimer, refresh, chosen, broughtBack>>
    BY <2>1 DEF UserChanges, Enqueued, decision, ChosenInv
  <2>3. [op |-> op, grant |-> grants'] \in Queued
    BY <2>2 DEF Queued
  <2>4. /\ chain' \in Seq(Queued)
        /\ (\E i \in DOMAIN chain : chain[i].op = "reload")
             => \E i \in DOMAIN chain' : chain'[i].op = "reload"
    BY <1>1, <2>2, <2>3, JoiningKeepsReloads
  <2>5. QED  BY <2>2, <2>4 DEF ChosenInv, LastDecisionStands, ReloadDue
<1>7. QED  BY <1>2, <1>3, <1>4, <1>5, <1>6

\* Every step keeps the decision on record.
LEMMA NextChosen == ChosenInv /\ [ConnNext]_connVars => ChosenInv'
<1> SUFFICES ASSUME ChosenInv, [ConnNext]_connVars PROVE ChosenInv'
    OBVIOUS
<1>1. CASE \/ TokenAges \/ Revoked \/ BackoffElapses \/ PollTimer \/ CycleDone
           \/ FetchAnswered \/ BoardCalls
    BY <1>1, SameDecision DEF TokenAges, Revoked, BackoffElapses, PollTimer, CycleDone,
          FetchAnswered, BoardCalls, configVars, history, decision
<1>2. CASE BeginPoll \/ RefreshFails
  <2>1. UNCHANGED <<config, file, chain, reloadTimer, chosen, broughtBack, grants>>
    BY <1>2 DEF BeginPoll, RefreshFails, configVars, history, decision
  <2>2. CASE BeginPoll
    BY <2>1, <2>2, SameDecision DEF BeginPoll, JoinRefresh
  <2>3. CASE RefreshFails
    <3>1. refresh' = NoRefresh
      BY <2>3 DEF RefreshFails, Resume
    <3>2. QED  BY <2>1, <3>1, SameDecision DEF NoRefresh
  <2>4. QED  BY <1>2, <2>2, <2>3
<1>3. CASE \E c \in Callers : CallRefused(c)
  <2>1. UNCHANGED <<config, file, chain, reloadTimer, chosen, broughtBack, grants>>
    BY <1>3 DEF CallRefused, configVars, history, decision
  <2>2. UNCHANGED refresh \/ JoinRefresh
    BY <1>3 DEF CallRefused
  <2>3. QED  BY <2>1, <2>2, SameDecision DEF JoinRefresh
<1>4. CASE \/ \E t \in Tickets : TicketEdited(t)
           \/ \E r \in listed : RunFinishes(r)
           \/ \E c \in Callers : CallAnswered(c) \/ CallFails(c) \/ RetryRefused(c)
           \/ \E k \in tickets \cup todo : MaybeAutoQueue(k) \/ QueueTicket(k)
           \/ \E c \in creating : RunCreated(c)
    BY <1>4, SameDecision DEF TicketEdited, RunFinishes, CallAnswered, CallFails,
          RetryRefused, MaybeAutoQueue, QueueTicket, RunCreated, configVars, history, decision
<1>5. CASE UNCHANGED connVars
    BY <1>5, SameDecision DEF connVars, configVars, history, decision
<1>6. QED
    BY <1>1, <1>2, <1>3, <1>4, <1>5, RotatingKeepsChosen, ChangesKeepChosen, RequestsKeepChosen
       DEF ConnNext

\* The file carries the grant the user last decided on and the configuration in force is
\* the file's unless a reload is to come: no refresh that was in flight over a reconnect, a
\* disconnect, a restart or an edit the host has loaded writes its tokens over that
\* decision. Excepted, and on record, is the key edited away that a write of brevi's put
\* back before the edit was loaded (scheduler.ts #refreshLinear, #reloadConfigFile).
THEOREM DecisionsStand == ConnSpec => []LastDecisionStands
<1>1. ChosenInv => LastDecisionStands
    BY DEF ChosenInv
<1>2. QED  BY <1>1, InitChosen, NextChosen, PTL DEF ConnSpec

\* A host begins with a poll asked for and no call out.
LEMMA InitPoll == ConnInit => PollInv
<1> SUFFICES ASSUME ConnInit PROVE PollInv
    OBVIOUS
<1>1. call = [c \in Callers |-> NoCall] /\ "poll" \in Callers
    BY DEF ConnInit, Callers
<1>2. \A c \in Callers : call[c] = [at |-> "idle", cred |-> Disconnected, moved |-> FALSE]
    BY <1>1 DEF NoCall
<1>3. /\ call = [c \in Callers |-> call[c]]
      /\ \A c \in Callers :
           call[c] = [at |-> call[c].at, cred |-> call[c].cred, moved |-> call[c].moved]
    BY <1>1, <1>2
<1>4. listed = {} /\ creating = {} /\ asked = FALSE /\ pollAgain = FALSE
    BY DEF ConnInit
<1>5. call["poll"].at = "idle"
    BY <1>1, <1>2
<1>6. QED  BY <1>3, <1>4, <1>5 DEF PollInv, QueuedOncePerRevision

\* What the poll's invariant says of the calls and of the requests.
CallsOK ==
    /\ call = [c \in Callers |-> call[c]]
    /\ \A c \in Callers :
         call[c] = [at |-> call[c].at, cred |-> call[c].cred, moved |-> call[c].moved]
    /\ call["poll"].at # "idle" => polling \in {"fetching", "states"}
    /\ asked \in BOOLEAN /\ pollAgain \in BOOLEAN
    /\ asked => pollAgain /\ polling # "idle"

\* What it says of the runs that exist.
RunsOK ==
    /\ \A r \in listed : r = [n |-> r.n, by |-> r.by, id |-> r.id, rev |-> r.rev, live |-> r.live]
    /\ QueuedOncePerRevision

\* What it says of the runs being created.
CreatingOK ==
    \A c \in {d \in creating : d.by = "poll"} :
       /\ polling = "creating"
       /\ \A r \in listed : r.by = "poll" /\ r.id = c.id => r.rev # c.rev
       /\ \A d \in creating : d.by = "poll" => d = c

\* These are its parts.
LEMMA PollParts ==
    /\ PollInv <=> CallsOK /\ RunsOK /\ CreatingOK
    /\ PollInv' <=> CallsOK' /\ RunsOK' /\ CreatingOK'
BY DEF PollInv, CallsOK, RunsOK, CreatingOK

\* Runs and creations stay as they are where neither moves, as long as a cycle that
\* creates a run goes on creating it.
LEMMA SameRuns ==
    ASSUME RunsOK, CreatingOK, UNCHANGED <<listed, creating>>,
           polling = "creating" => polling' = "creating"
    PROVE  RunsOK' /\ CreatingOK'
BY DEF RunsOK, CreatingOK, QueuedOncePerRevision

\* A call that is made, goes on or ends.
LEMMA OneCall ==
    ASSUME CallsOK, NEW c \in Callers, NEW n,
           n = [at |-> n.at, cred |-> n.cred, moved |-> n.moved],
           call' = [call EXCEPT ![c] = n], UNCHANGED asked,
           n.at # "idle" /\ c = "poll" => polling' \in {"fetching", "states"},
           c # "poll" => polling' = polling,
           UNCHANGED pollAgain, asked => polling' # "idle"
    PROVE  CallsOK'
<1>1. /\ \A d \in Callers : call'[d] = IF d = c THEN n ELSE call[d]
      /\ call' = [d \in Callers |-> call'[d]] /\ "poll" \in Callers
    BY DEF CallsOK, Callers
<1>2. QED  BY <1>1 DEF CallsOK

\* Nothing of the poll moves.
LEMMA PollAsIs ==
    ASSUME PollInv, UNCHANGED <<call, polling, pollAgain, asked, listed, creating>>
    PROVE  PollInv'
BY DEF PollInv, QueuedOncePerRevision

\* A request for a poll.
LEMMA AskingKeepsPoll ==
    ASSUME PollInv, AskPoll, UNCHANGED <<call, listed, creating>> PROVE PollInv'
<1>1. CallsOK /\ RunsOK /\ CreatingOK
    BY PollParts
<1>2. CallsOK'
    BY <1>1 DEF AskPoll, CallsOK
<1>3. polling = "creating" => polling' = "creating"
    BY DEF AskPoll
<1>4. QED  BY <1>1, <1>2, <1>3, SameRuns, PollParts

\* A cycle begins.
LEMMA BeginningKeepsPoll == PollInv /\ BeginPoll => PollInv'
<1> SUFFICES ASSUME PollInv, BeginPoll PROVE PollInv'
    OBVIOUS
<1>1. /\ CallsOK /\ RunsOK /\ CreatingOK /\ UNCHANGED <<listed, creating>> /\ polling = "begin"
      /\ asked' = FALSE /\ pollAgain' = FALSE
    BY PollParts DEF BeginPoll, ticketVars
<1>2. CASE call' = call /\ polling' \in {"idle", "refreshing"}
    BY <1>1, <1>2, SameRuns, PollParts DEF CallsOK
<1>3. CASE Calling("poll") /\ polling' = "fetching"
  <2> DEFINE n == [at |-> "first", cred |-> config.cred, moved |-> FALSE]
  <2>1. call' = [call EXCEPT !["poll"] = n]
    BY <1>3 DEF Calling
  <2>2. \A d \in Callers : call'[d] = IF d = "poll" THEN n ELSE call[d]
    BY <1>1, <2>1 DEF CallsOK, Callers
  <2>3. CallsOK'
    BY <1>1, <1>3, <2>1, <2>2 DEF CallsOK
  <2>4. QED  BY <1>1, <1>3, <2>3, SameRuns, PollParts
<1>4. QED  BY <1>2, <1>3 DEF BeginPoll

\* What a finished call of the poll's does with the cycle.
LEMMA AnsweringKeepsPoll ==
    ASSUME PollInv, NEW c \in Callers, NEW ok \in BOOLEAN, call[c].at # "idle",
           call' = [call EXCEPT ![c] = NoCall], PollAfter(c, ok),
           UNCHANGED <<asked, listed, creating>>
    PROVE  PollInv'
<1>1. CallsOK /\ RunsOK /\ CreatingOK
    BY PollParts
<1>2. NoCall = [at |-> "idle", cred |-> Disconnected, moved |-> FALSE]
    BY DEF NoCall
<1>3. /\ pollAgain' = pollAgain /\ (c # "poll" => polling' = polling)
      /\ c = "poll" => polling' = "queueing" \/ polling' = (IF pollAgain THEN "begin" ELSE "idle")
    BY DEF PollAfter, NextCycle
<1>4. CallsOK'
  <2>1. \A d \in Callers : call'[d] = IF d = c THEN NoCall ELSE call[d]
    BY <1>1 DEF CallsOK
  <2>2. asked => polling' # "idle"
    BY <1>1, <1>3 DEF CallsOK
  <2>3. "poll" \in Callers /\ call' = [d \in Callers |-> call'[d]]
    BY <1>1 DEF CallsOK, Callers
  <2>4. call'["poll"].at # "idle" => polling' \in {"fetching", "states"}
    BY <1>1, <1>2, <1>3, <2>1, <2>3 DEF CallsOK
  <2>5. \A d \in Callers :
           call'[d] = [at |-> call'[d].at, cred |-> call'[d].cred, moved |-> call'[d].moved]
    BY <1>1, <1>2, <2>1 DEF CallsOK
  <2>6. QED  BY <1>1, <1>3, <2>2, <2>3, <2>4, <2>5 DEF CallsOK
<1>5. polling = "creating" => polling' = "creating"
    BY <1>1, <1>3 DEF CallsOK
<1>6. QED  BY <1>1, <1>4, <1>5, SameRuns, PollParts

\* A call of anyone's moves, and the cycle with it.
LEMMA CallMoves ==
    ASSUME PollInv, NEW c \in Callers, NEW n,
           n = [at |-> n.at, cred |-> n.cred, moved |-> n.moved],
           call' = [call EXCEPT ![c] = n], UNCHANGED <<asked, pollAgain, listed, creating>>,
           n.at # "idle" /\ c = "poll" => polling' \in {"fetching", "states"},
           c # "poll" => polling' = polling,
           asked => polling' # "idle",
           polling = "creating" => polling' = "creating"
    PROVE  PollInv'
<1>1. CallsOK /\ RunsOK /\ CreatingOK
    BY PollParts
<1>2. CallsOK'
    BY <1>1, OneCall
<1>3. QED  BY <1>1, <1>2, SameRuns, PollParts

\* The calls that come back, whatever they bring.
LEMMA CallsKeepPoll ==
    ASSUME PollInv, NEW c \in Callers, CallAnswered(c) \/ CallFails(c) \/ CallRefused(c) \/ RetryRefused(c)
    PROVE  PollInv'
<1>1. /\ CallsOK /\ call[c].at # "idle" /\ UNCHANGED <<asked, listed, creating>>
      /\ polling = "creating" => c # "poll"
    BY PollParts DEF CallsOK, CallAnswered, CallFails, CallRefused, RetryRefused, ticketVars
<1>2. CASE call' = [call EXCEPT ![c] = NoCall] /\ (PollAfter(c, TRUE) \/ PollAfter(c, FALSE))
    BY <1>1, <1>2, AnsweringKeepsPoll
<1>3. CASE /\ call' = [call EXCEPT ![c] = [at |-> "again", cred |-> config.cred, moved |-> TRUE]]
           /\ UNCHANGED <<polling, pollAgain>>
  <2>1. c = "poll" => polling \in {"fetching", "states"}
    BY <1>1 DEF CallsOK
  <2>2. asked => polling # "idle"
    BY <1>1 DEF CallsOK
  <2> DEFINE n == [at |-> "again", cred |-> config.cred, moved |-> TRUE]
  <2>3. n = [at |-> n.at, cred |-> n.cred, moved |-> n.moved] /\ call' = [call EXCEPT ![c] = n]
    BY <1>3
  <2> HIDE DEF n
  <2>4. QED  BY <1>1, <1>3, <2>1, <2>2, <2>3, CallMoves
<1>4. CASE /\ call' = [call EXCEPT ![c].at = "recovering"]
           /\ UNCHANGED <<polling, pollAgain>>
  <2>1. c = "poll" => polling \in {"fetching", "states"}
    BY <1>1 DEF CallsOK
  <2>2. asked => polling # "idle"
    BY <1>1 DEF CallsOK
  <2> DEFINE n == [call[c] EXCEPT !.at = "recovering"]
  <2>3. call[c] = [at |-> call[c].at, cred |-> call[c].cred, moved |-> call[c].moved]
    BY <1>1 DEF CallsOK
  <2>4. n = [at |-> "recovering", cred |-> call[c].cred, moved |-> call[c].moved]
    BY <2>3
  <2>5. n = [at |-> n.at, cred |-> n.cred, moved |-> n.moved]
    BY <2>4
  <2>6. call' = [call EXCEPT ![c] = n]
    BY <1>4
  <2> HIDE DEF n
  <2>7. QED  BY <1>1, <1>4, <2>1, <2>2, <2>5, <2>6, CallMoves
<1>5. QED
    BY <1>2, <1>3, <1>4 DEF CallAnswered, CallFails, CallRefused, RetryRefused

\* The fetched tickets arrive, and the poll goes on to their states or to the queue.
LEMMA FetchKeepsPoll == PollInv /\ FetchAnswered => PollInv'
<1> SUFFICES ASSUME PollInv, FetchAnswered PROVE PollInv'
    OBVIOUS
<1>1. /\ UNCHANGED <<asked, pollAgain, listed, creating>> /\ polling = "fetching"
      /\ "poll" \in Callers /\ NoCall = [at |-> "idle", cred |-> Disconnected, moved |-> FALSE]
    BY DEF FetchAnswered, Callers, NoCall
<1>2. CASE Calling("poll") /\ polling' = "states"
  <2> DEFINE n == [at |-> "first", cred |-> config.cred, moved |-> FALSE]
  <2>1. n = [at |-> n.at, cred |-> n.cred, moved |-> n.moved] /\ call' = [call EXCEPT !["poll"] = n]
    BY <1>2 DEF Calling
  <2> HIDE DEF n
  <2>2. QED  BY <1>1, <1>2, <2>1, CallMoves
<1>3. CASE call' = [call EXCEPT !["poll"] = NoCall] /\ polling' = "queueing"
    BY <1>1, <1>3, CallMoves
<1>4. QED  BY <1>2, <1>3 DEF FetchAnswered

\* A refresh's answer wakes those who waited for it.
LEMMA ResumingKeepsPoll ==
    ASSUME PollInv, NEW outcome, NEW cred, Resume(outcome, cred), UNCHANGED <<asked, listed, creating>>
    PROVE  PollInv'
<1> DEFINE polls == polling = "refreshing"
           fetch == [at |-> "first", cred |-> cred, moved |-> FALSE]
           failed == call["poll"].at = "recovering" /\ outcome # "ok"
           goes == PollGoesOn(outcome)
           woken(c) == IF call[c].at # "recovering" THEN call[c]
                       ELSE IF outcome = "ok" THEN [at |-> "again", cred |-> cred, moved |-> FALSE]
                       ELSE NoCall
<1>1. CallsOK /\ RunsOK /\ CreatingOK /\ "poll" \in Callers
    BY PollParts DEF Callers
<1>2. NoCall = [at |-> "idle", cred |-> Disconnected, moved |-> FALSE]
    BY DEF NoCall
<1>3. /\ call' = [c \in Callers |-> IF c = "poll" /\ polls /\ goes THEN fetch ELSE woken(c)]
      /\ IF polls /\ goes THEN polling' = "fetching" /\ UNCHANGED pollAgain
         ELSE IF polls \/ (failed /\ polling = "fetching") THEN NextCycle
         ELSE IF failed THEN polling' = "queueing" /\ UNCHANGED pollAgain
         ELSE UNCHANGED <<polling, pollAgain>>
    BY DEF Resume, Woken
<1>4. \A c \in Callers : woken(c) = [at |-> woken(c).at, cred |-> woken(c).cred, moved |-> woken(c).moved]
  <2>1. SUFFICES ASSUME NEW c \in Callers
                 PROVE  woken(c) = [at |-> woken(c).at, cred |-> woken(c).cred, moved |-> woken(c).moved]
    OBVIOUS
  <2>2. call[c] = [at |-> call[c].at, cred |-> call[c].cred, moved |-> call[c].moved]
    BY <1>1 DEF CallsOK
  <2>3. QED  BY <1>2, <2>2
<1>5. /\ pollAgain' = pollAgain
      /\ polls /\ goes => polling' = "fetching"
      /\ polls /\ ~goes => polling' = (IF pollAgain THEN "begin" ELSE "idle")
      /\ ~polls /\ failed /\ polling = "fetching" => polling' = (IF pollAgain THEN "begin" ELSE "idle")
      /\ ~polls /\ failed /\ polling # "fetching" => polling' = "queueing"
      /\ ~polls /\ ~failed => polling' = polling
    BY <1>3 DEF NextCycle
<1>6. /\ call["poll"].at # "idle" => polling \in {"fetching", "states"}
      /\ asked \in BOOLEAN /\ pollAgain \in BOOLEAN /\ (asked => pollAgain /\ polling # "idle")
    BY <1>1 DEF CallsOK
<1>7. /\ woken("poll").at # "idle" => call["poll"].at # "idle" /\ ~failed
      /\ failed => call["poll"].at # "idle"
    BY <1>2
<1>8. /\ asked => polling' # "idle"
      /\ polling = "creating" => polling' = "creating"
    BY <1>5, <1>6, <1>7
<1>9. call'["poll"] = IF polls /\ goes THEN fetch ELSE woken("poll")
    BY <1>1, <1>3
<1>10. call'["poll"].at # "idle" => polling' \in {"fetching", "states"}
  <2>1. CASE polls /\ goes
    BY <1>5, <2>1
  <2>2. CASE ~(polls /\ goes)
    BY <1>5, <1>6, <1>7, <1>9, <2>2
  <2>3. QED  BY <2>1, <2>2
<1>11. /\ call' = [c \in Callers |-> call'[c]]
       /\ \A c \in Callers :
            call'[c] = [at |-> call'[c].at, cred |-> call'[c].cred, moved |-> call'[c].moved]
    BY <1>3, <1>4
<1>12. CallsOK'
    BY <1>5, <1>6, <1>8, <1>10, <1>11 DEF CallsOK
<1>13. QED  BY <1>1, <1>8, <1>12, SameRuns, PollParts

\* A ticket whose revision has had no run is the only one the poll turns into a run.
LEMMA QueueingKeepsPoll ==
    ASSUME PollInv, NEW k, MaybeAutoQueue(k) PROVE PollInv'
<1>1. CallsOK /\ RunsOK /\ CreatingOK
    BY PollParts
<1>2. /\ polling = "queueing" /\ UNCHANGED <<call, asked, pollAgain, listed>>
      /\ \/ UNCHANGED <<creating, polling>>
         \/ /\ ~Done(k) /\ polling' = "creating"
            /\ creating' = creating \cup {[by |-> "poll", id |-> k.id, rev |-> k.rev]}
    BY DEF MaybeAutoQueue, MayAutoQueue
<1>3. CallsOK'
    BY <1>1, <1>2 DEF CallsOK
<1>4. RunsOK'
    BY <1>1, <1>2 DEF RunsOK, QueuedOncePerRevision
<1>5. CreatingOK'
  <2>1. CASE UNCHANGED <<creating, polling>>
    BY <1>1, <1>2, <2>1 DEF CreatingOK
  <2>2. CASE /\ ~Done(k) /\ polling' = "creating"
             /\ creating' = creating \cup {[by |-> "poll", id |-> k.id, rev |-> k.rev]}
    <3> DEFINE new == [by |-> "poll", id |-> k.id, rev |-> k.rev]
    <3>1. \A d \in creating' : d.by = "poll" => d = new
        BY <1>1, <1>2, <2>2 DEF CreatingOK
    <3>2. \A r \in listed : ~(r.id = new.id /\ r.rev = new.rev)
        BY <2>2 DEF Done
    <3> HIDE DEF new
    <3>3. QED  BY <1>2, <2>2, <3>1, <3>2 DEF CreatingOK
  <2>3. QED  BY <1>2, <2>1, <2>2
<1>6. QED  BY <1>3, <1>4, <1>5, PollParts

\* A click creates a run of its own.
LEMMA ClickKeepsPoll ==
    ASSUME PollInv, NEW k, QueueTicket(k) PROVE PollInv'
<1>1. CallsOK /\ RunsOK /\ CreatingOK
    BY PollParts
<1>2. /\ UNCHANGED <<call, polling, asked, pollAgain, listed>>
      /\ creating' = creating \cup {[by |-> "click", id |-> k.id, rev |-> k.rev]}
    BY DEF QueueTicket, pollVars
<1>3. {d \in creating' : d.by = "poll"} = {d \in creating : d.by = "poll"}
    BY <1>2
<1>4. CallsOK' /\ RunsOK'
    BY <1>1, <1>2 DEF CallsOK, RunsOK, QueuedOncePerRevision
<1>5. CreatingOK'
    BY <1>1, <1>2, <1>3 DEF CreatingOK
<1>6. QED  BY <1>4, <1>5, PollParts

\* The created run enters the store.
LEMMA CreationKeepsPoll ==
    ASSUME PollInv, NEW c, RunCreated(c) PROVE PollInv'
<1> DEFINE new == [n |-> Cardinality(listed) + 1, by |-> c.by, id |-> c.id, rev |-> c.rev, live |-> TRUE]
<1>1. CallsOK /\ RunsOK /\ CreatingOK
    BY PollParts
<1>2. /\ c \in creating /\ creating' = creating \ {c} /\ listed' = listed \cup {new}
      /\ polling' = (IF c.by = "poll" THEN "queueing" ELSE polling)
      /\ UNCHANGED <<call, asked, pollAgain>>
    BY DEF RunCreated
<1>3. /\ new.by = c.by /\ new.id = c.id /\ new.rev = c.rev
      /\ new = [n |-> new.n, by |-> new.by, id |-> new.id, rev |-> new.rev, live |-> new.live]
    OBVIOUS
<1> HIDE DEF new
<1>4. c.by = "poll" => /\ polling = "creating"
                       /\ \A r \in listed : r.by = "poll" /\ r.id = c.id => r.rev # c.rev
                       /\ \A d \in creating : d.by = "poll" => d = c
    BY <1>1, <1>2 DEF CreatingOK
<1>5. CallsOK'
  <2>1. asked => polling' # "idle"
    BY <1>1, <1>2 DEF CallsOK
  <2>2. call'["poll"].at # "idle" => polling' \in {"fetching", "states"}
    BY <1>1, <1>2, <1>4 DEF CallsOK
  <2>3. QED  BY <1>1, <1>2, <2>1, <2>2 DEF CallsOK
<1>6. RunsOK'
    BY <1>1, <1>2, <1>3, <1>4 DEF RunsOK, QueuedOncePerRevision
<1>7. CreatingOK'
  <2>1. CASE c.by = "poll"
    BY <1>2, <1>4, <2>1 DEF CreatingOK
  <2>2. CASE c.by # "poll"
    BY <1>1, <1>2, <1>3, <2>2 DEF CreatingOK
  <2>3. QED  BY <2>1, <2>2
<1>8. QED  BY <1>5, <1>6, <1>7, PollParts

\* A finished run is still the run of its revision.
LEMMA FinishingKeepsPoll ==
    ASSUME PollInv, NEW r, RunFinishes(r) PROVE PollInv'
<1> DEFINE over == [r EXCEPT !.live = FALSE]
<1>1. CallsOK /\ RunsOK /\ CreatingOK
    BY PollParts
<1>2. /\ r \in listed /\ listed' = (listed \ {r}) \cup {over}
      /\ UNCHANGED <<call, polling, asked, pollAgain, creating>>
    BY DEF RunFinishes, pollVars
<1>3. PICK n, by, id, rev, live : r = [n |-> n, by |-> by, id |-> id, rev |-> rev, live |-> live]
    BY <1>1, <1>2 DEF RunsOK
<1>4. /\ r.by = by /\ r.id = id /\ r.rev = rev
      /\ r \in [n : {n}, by : {by}, id : {id}, rev : {rev}, live : {live}]
    BY <1>3
<1>5. over \in [n : {n}, by : {by}, id : {id}, rev : {rev}, live : {FALSE}]
    BY <1>4
<1>6. /\ over.by = r.by /\ over.id = r.id /\ over.rev = r.rev
      /\ over = [n |-> over.n, by |-> over.by, id |-> over.id, rev |-> over.rev, live |-> over.live]
  <2> HIDE DEF over
  <2>1. QED  BY <1>4, <1>5
<1> HIDE DEF over
<1>7. CallsOK'
    BY <1>1, <1>2 DEF CallsOK
<1>8. RunsOK'
    BY <1>1, <1>2, <1>6 DEF RunsOK, QueuedOncePerRevision
<1>9. CreatingOK'
    BY <1>1, <1>2, <1>6 DEF CreatingOK
<1>10. QED  BY <1>7, <1>8, <1>9, PollParts

\* A host that starts again remembers its runs and nothing of its polls.
LEMMA RestartKeepsPoll == PollInv /\ Restart => PollInv'
<1> SUFFICES ASSUME PollInv, Restart PROVE PollInv'
    OBVIOUS
<1>1. CallsOK /\ RunsOK /\ CreatingOK
    BY PollParts
<1>2. /\ call' = [c \in Callers |-> NoCall] /\ "poll" \in Callers
      /\ polling' = "begin" /\ pollAgain' = FALSE /\ asked' = FALSE
      /\ creating' = {} /\ listed' = listed
    BY DEF Restart, Fresh, Callers
<1>3. \A c \in Callers : call'[c] = [at |-> "idle", cred |-> Disconnected, moved |-> FALSE]
    BY <1>2 DEF NoCall
<1>4. /\ call' = [c \in Callers |-> call'[c]] /\ call'["poll"].at = "idle"
      /\ \A c \in Callers :
           call'[c] = [at |-> call'[c].at, cred |-> call'[c].cred, moved |-> call'[c].moved]
    BY <1>2, <1>3
<1>5. CallsOK'
    BY <1>2, <1>4 DEF CallsOK
<1>6. RunsOK'
    BY <1>1, <1>2 DEF RunsOK, QueuedOncePerRevision
<1>7. CreatingOK'
    BY <1>2 DEF CreatingOK
<1>8. QED  BY <1>5, <1>6, <1>7, PollParts

\* The end of a cycle: another one if one was asked for.
LEMMA CycleKeepsPoll == PollInv /\ CycleDone => PollInv'
<1> SUFFICES ASSUME PollInv, CycleDone PROVE PollInv'
    OBVIOUS
<1>1. CallsOK /\ RunsOK /\ CreatingOK
    BY PollParts
<1>2. /\ polling = "queueing" /\ polling' = (IF pollAgain THEN "begin" ELSE "idle")
      /\ UNCHANGED <<call, asked, pollAgain, listed, creating>>
    BY DEF CycleDone, NextCycle, ticketVars
<1>3. CallsOK'
    BY <1>1, <1>2 DEF CallsOK
<1>4. QED  BY <1>1, <1>2, <1>3, SameRuns, PollParts

\* Every step keeps the poll's invariant.
LEMMA NextPoll == PollInv /\ [ConnNext]_connVars => PollInv'
<1> SUFFICES ASSUME PollInv, [ConnNext]_connVars PROVE PollInv'
    OBVIOUS
<1>1. CASE \/ TokenAges \/ Revoked \/ BackoffElapses \/ RefreshAnswers \/ Disconnect \/ HandEdit
           \/ FileSettles \/ UNCHANGED connVars
    BY <1>1, PollAsIs DEF TokenAges, Revoked, BackoffElapses, RefreshAnswers, Disconnect, HandEdit,
          FileSettles, Enqueued, NotAsked, pollVars, ticketVars, connVars
<1>2. CASE \/ \E t \in Tickets : TicketEdited(t)
           \/ \E op \in {"connect", "disconnect", "settings"} : UserChanges(op)
    BY <1>2, PollAsIs DEF TicketEdited, UserChanges, Enqueued, pollVars, ticketVars
<1>3. CASE PollTimer \/ Connect \/ SaveSettings \/ Reload
  <2>1. UNCHANGED <<call, listed, creating>> /\ (AskPoll \/ UNCHANGED pollVars)
    BY <1>3 DEF PollTimer, Connect, SaveSettings, Reload, NotAsked, ticketVars
  <2>2. QED  BY <2>1, AskingKeepsPoll, PollAsIs DEF pollVars
<1>4. CASE RefreshFails \/ Rotate
  <2>1. UNCHANGED <<asked, listed, creating>>
    BY <1>4 DEF RefreshFails, Rotate, ticketVars
  <2>2. \E outcome, cred : Resume(outcome, cred)
    BY <1>4 DEF RefreshFails, Rotate
  <2>3. QED  BY <2>1, <2>2, ResumingKeepsPoll
<1>5. CASE BoardCalls
  <2> DEFINE n == [at |-> "first", cred |-> config.cred, moved |-> FALSE]
  <2>1. /\ n = [at |-> n.at, cred |-> n.cred, moved |-> n.moved] /\ call' = [call EXCEPT !["board"] = n]
        /\ UNCHANGED <<asked, polling, pollAgain, listed, creating>> /\ "board" \in Callers
    BY <1>5 DEF BoardCalls, Calling, Callers, pollVars, ticketVars
  <2>2. asked => polling # "idle"
    BY PollParts DEF CallsOK
  <2> HIDE DEF n
  <2>3. QED  BY <2>1, <2>2, CallMoves
<1>6. CASE \/ BeginPoll \/ CycleDone \/ FetchAnswered \/ Restart
           \/ \E c \in Callers : CallAnswered(c) \/ CallFails(c) \/ CallRefused(c) \/ RetryRefused(c)
           \/ \E r \in listed : RunFinishes(r)
           \/ \E k \in tickets \cup todo : MaybeAutoQueue(k) \/ QueueTicket(k)
           \/ \E c \in creating : RunCreated(c)
    BY <1>6, BeginningKeepsPoll, CycleKeepsPoll, FetchKeepsPoll, RestartKeepsPoll, CallsKeepPoll,
       FinishingKeepsPoll, QueueingKeepsPoll, ClickKeepsPoll, CreationKeepsPoll
<1>7. QED  BY <1>1, <1>2, <1>3, <1>4, <1>5, <1>6 DEF ConnNext

\* No revision of a ticket is queued twice by the poll, and no poll asked for while a cycle
\* runs is swallowed by it, whatever overlaps with it: reconnections, refreshes, settings,
\* clicks, restarts (scheduler.ts poll, #pollOnce, #maybeAutoQueue).
THEOREM PollingIsExact == ConnSpec => []PollsAreExact
<1>1. PollInv => PollsAreExact
    BY DEF PollInv, PollsAreExact, EveryPollIsServed
<1>2. QED  BY <1>1, InitPoll, NextPoll, PTL DEF ConnSpec

-----------------------------------------------------------------------------
(* The evidence bucket (EvidenceBucket)                                    *)

\* What AsksShapes says of one request, ...
AskOK(a) ==
    /\ a = [page |-> a.page, op |-> a.op, stage |-> a.stage, name |-> a.name, made |-> a.made,
            reply |-> a.reply, status |-> a.status, entries |-> a.entries]
    /\ a.page \in Pages
    /\ a.stage = "enable" => a.made = TRUE
    /\ a.stage # "answer" => a.reply # "login-started" /\ a.status.known = FALSE
    /\ a.reply = "login-started" => a.op = "connect" /\ a.status.known = FALSE
    /\ a.op = "save" => a.stage \in {"write", "answer"} /\ a.status.known = FALSE

\* ... and ArmedRowsHaveCredit of one row.
RowOK(v) ==
    /\ v = [status |-> v.status, pending |-> v.pending, detail |-> v.detail, armed |-> v.armed,
            timer |-> v.timer, entries |-> v.entries, saving |-> v.saving]
    /\ v.armed \in BOOLEAN

\* A new request.
LEMMA NewAsk ==
    ASSUME NEW p \in Pages, NEW op, op # "save" PROVE AskOK(Ask(p, op))
BY DEF AskOK, Ask, Unknown

\* A request with some of its fields replaced.
LEMMA Replaced ==
    ASSUME NEW a, AskOK(a), NEW stage, NEW reply, NEW name, NEW status
    PROVE  /\ To(a, stage)
                = [page |-> a.page, op |-> a.op, stage |-> stage, name |-> a.name, made |-> a.made,
                   reply |-> a.reply, status |-> a.status, entries |-> a.entries]
           /\ Reports(a, reply)
                = [page |-> a.page, op |-> a.op, stage |-> "status", name |-> a.name, made |-> a.made,
                   reply |-> reply, status |-> a.status, entries |-> a.entries]
           /\ Ends(a, reply)
                = [page |-> a.page, op |-> a.op, stage |-> "answer", name |-> a.name, made |-> a.made,
                   reply |-> reply, status |-> a.status, entries |-> a.entries]
           /\ [To(a, "create") EXCEPT !.name = name]
                = [page |-> a.page, op |-> a.op, stage |-> "create", name |-> name, made |-> a.made,
                   reply |-> a.reply, status |-> a.status, entries |-> a.entries]
           /\ [To(a, "enable") EXCEPT !.made = TRUE]
                = [page |-> a.page, op |-> a.op, stage |-> "enable", name |-> a.name, made |-> TRUE,
                   reply |-> a.reply, status |-> a.status, entries |-> a.entries]
           /\ [Ends(a, reply) EXCEPT !.status = status]
                = [page |-> a.page, op |-> a.op, stage |-> "answer", name |-> a.name, made |-> a.made,
                   reply |-> reply, status |-> status, entries |-> a.entries]
<1>1. PICK page, op, st, called, made, says, was, entries :
        a = [page |-> page, op |-> op, stage |-> st, name |-> called, made |-> made,
             reply |-> says, status |-> was, entries |-> entries]
    BY DEF AskOK
<1>2. /\ a.page = page /\ a.op = op /\ a.name = called /\ a.made = made
      /\ a.reply = says /\ a.status = was /\ a.entries = entries
    BY <1>1
<1> DEFINE with(s, n, m, r, t) ==
        [page : {page}, op : {op}, stage : {s}, name : {n}, made : {m},
         reply : {r}, status : {t}, entries : {entries}]
<1>3. a \in with(st, called, made, says, was)
    BY <1>1
<1>4. \A s : To(a, s) \in with(s, called, made, says, was)
    BY <1>3 DEF To
<1>5. /\ Reports(a, reply) \in with("status", called, made, reply, was)
      /\ Ends(a, reply) \in with("answer", called, made, reply, was)
    BY <1>3 DEF Reports, Ends
<1>6. [To(a, "create") EXCEPT !.name = name] \in with("create", name, made, says, was)
  <2>1. To(a, "create") \in with("create", called, made, says, was)
    BY <1>4
  <2>2. QED  BY <2>1
<1>7. [To(a, "enable") EXCEPT !.made = TRUE] \in with("enable", called, TRUE, says, was)
  <2>1. To(a, "enable") \in with("enable", called, made, says, was)
    BY <1>4
  <2>2. QED  BY <2>1
<1>8. [Ends(a, reply) EXCEPT !.status = status] \in with("answer", called, made, reply, status)
    BY <1>5
<1>9. \A s, n, m, r, t : \A b \in with(s, n, m, r, t) :
         b = [page |-> page, op |-> op, stage |-> s, name |-> n, made |-> m,
              reply |-> r, status |-> t, entries |-> entries]
    OBVIOUS
<1> HIDE DEF with
<1>10. To(a, stage)
         = [page |-> page, op |-> op, stage |-> stage, name |-> called, made |-> made,
            reply |-> says, status |-> was, entries |-> entries]
    BY <1>4, <1>9
<1>11. Reports(a, reply)
         = [page |-> page, op |-> op, stage |-> "status", name |-> called, made |-> made,
            reply |-> reply, status |-> was, entries |-> entries]
    BY <1>5, <1>9
<1>12. Ends(a, reply)
         = [page |-> page, op |-> op, stage |-> "answer", name |-> called, made |-> made,
            reply |-> reply, status |-> was, entries |-> entries]
    BY <1>5, <1>9
<1>13. [To(a, "create") EXCEPT !.name = name]
         = [page |-> page, op |-> op, stage |-> "create", name |-> name, made |-> made,
            reply |-> says, status |-> was, entries |-> entries]
    BY <1>6, <1>9
<1>14. [To(a, "enable") EXCEPT !.made = TRUE]
         = [page |-> page, op |-> op, stage |-> "enable", name |-> called, made |-> TRUE,
            reply |-> says, status |-> was, entries |-> entries]
    BY <1>7, <1>9
<1>15. [Ends(a, reply) EXCEPT !.status = status]
         = [page |-> page, op |-> op, stage |-> "answer", name |-> called, made |-> made,
            reply |-> reply, status |-> status, entries |-> entries]
    BY <1>8, <1>9
<1>16. QED  BY Zenon, <1>2, <1>10, <1>11, <1>12, <1>13, <1>14, <1>15

\* A request of the host's moves on, another one joins it, or takes its place.
LEMMA OneAsk ==
    ASSUME AsksShapes, NEW b, AskOK(b), asks' \subseteq asks \cup {b} PROVE AsksShapes'
BY DEF AsksShapes, AskOK

\* It stays the same page's request for the same thing.
Becomes(a, b) == AskOK(b) /\ b.op = a.op /\ b.page = a.page

\* What a request may become on the host.
LEMMA AskMovesOn ==
    ASSUME NEW a, AskOK(a), a.stage # "answer", NEW reply, NEW name, NEW status
    PROVE  /\ a.op # "save" => \A stage \in {"read", "write", "create", "enable"} :
                                 stage # "enable" => Becomes(a, To(a, stage))
           /\ reply # "login-started" /\ a.op # "save" => Becomes(a, Reports(a, reply))
           /\ reply # "login-started" \/ a.op = "connect" => Becomes(a, Ends(a, reply))
           /\ a.op # "save" => /\ Becomes(a, [To(a, "create") EXCEPT !.name = name])
                               /\ Becomes(a, [To(a, "enable") EXCEPT !.made = TRUE])
           /\ reply # "login-started" /\ a.op # "save" =>
                Becomes(a, [Ends(a, reply) EXCEPT !.status = status])
<1> DEFINE is(b, s, n, m, r, t) ==
        b = [page |-> a.page, op |-> a.op, stage |-> s, name |-> n, made |-> m,
             reply |-> r, status |-> t, entries |-> a.entries]
<1>1. /\ \A s : is(To(a, s), s, a.name, a.made, a.reply, a.status)
      /\ is(Reports(a, reply), "status", a.name, a.made, reply, a.status)
      /\ is(Ends(a, reply), "answer", a.name, a.made, reply, a.status)
      /\ is([To(a, "create") EXCEPT !.name = name], "create", name, a.made, a.reply, a.status)
      /\ is([To(a, "enable") EXCEPT !.made = TRUE], "enable", a.name, TRUE, a.reply, a.status)
      /\ is([Ends(a, reply) EXCEPT !.status = status], "answer", a.name, a.made, reply, status)
  <2>1. \A s : is(To(a, s), s, a.name, a.made, a.reply, a.status)
    BY Replaced
  <2>2. is(Reports(a, reply), "status", a.name, a.made, reply, a.status)
    BY Replaced
  <2>3. is(Ends(a, reply), "answer", a.name, a.made, reply, a.status)
    BY Replaced
  <2>4. is([To(a, "create") EXCEPT !.name = name], "create", name, a.made, a.reply, a.status)
    BY Replaced
  <2>5. is([To(a, "enable") EXCEPT !.made = TRUE], "enable", a.name, TRUE, a.reply, a.status)
    BY Replaced
  <2>6. is([Ends(a, reply) EXCEPT !.status = status], "answer", a.name, a.made, reply, status)
    BY ZenonT(60), Replaced
  <2> HIDE DEF is
  <2>7. QED  BY <2>1, <2>2, <2>3, <2>4, <2>5, <2>6
<1>2. \A b, s, n, m, r, t : is(b, s, n, m, r, t) =>
        /\ b = [page |-> b.page, op |-> b.op, stage |-> b.stage, name |-> b.name, made |-> b.made,
                reply |-> b.reply, status |-> b.status, entries |-> b.entries]
        /\ b.page = a.page /\ b.op = a.op /\ b.stage = s /\ b.made = m
        /\ b.reply = r /\ b.status = t
    OBVIOUS
<1>3. /\ a.page \in Pages /\ a.reply # "login-started" /\ a.status.known = FALSE
    BY DEF AskOK
<1> HIDE DEF is
<1>4. \A b, s, n, m, r, t :
        /\ is(b, s, n, m, r, t)
        /\ s = "enable" => m = TRUE
        /\ s # "answer" => r # "login-started" /\ t = a.status
        /\ r = "login-started" => a.op = "connect" /\ t = a.status
        /\ a.op = "save" => s = "answer" /\ t = a.status
        => Becomes(a, b)
    BY <1>2, <1>3 DEF AskOK, Becomes
<1>5. \A s \in {"read", "write", "create"} : a.op # "save" => Becomes(a, To(a, s))
    BY <1>1, <1>3, <1>4
<1>6. reply # "login-started" /\ a.op # "save" => Becomes(a, Reports(a, reply))
    BY <1>1, <1>3, <1>4
<1>7. reply # "login-started" \/ a.op = "connect" => Becomes(a, Ends(a, reply))
    BY <1>1, <1>3, <1>4
<1>8. a.op # "save" => Becomes(a, [To(a, "create") EXCEPT !.name = name])
    BY <1>1, <1>3, <1>4
<1>9. a.op # "save" => Becomes(a, [To(a, "enable") EXCEPT !.made = TRUE])
    BY <1>1, <1>3, <1>4
<1>10. reply # "login-started" /\ a.op # "save" => Becomes(a, [Ends(a, reply) EXCEPT !.status = status])
    BY <1>1, <1>3, <1>4
<1>11. QED  BY <1>5, <1>6, <1>7, <1>8, <1>9, <1>10

\* A request that is served publishes no bucket but its own.
LEMMA ServingKeepsShapes ==
    ASSUME BucketInv, NEW a \in asks,
           \/ ProbeConnect(a) \/ CreateBucket(a) \/ ReadUrl(a) \/ EnableUrl(a)
           \/ WriteR2(a) \/ R2WriteFails(a) \/ ProbeStatus(a)
    PROVE  /\ exposed' = {} /\ AsksShapes' /\ UNCHANGED <<panel, credit, since>>
           /\ \A b \in asks' : \E c \in asks : b.op = c.op /\ b.page = c.page
<1>1. AsksShapes /\ exposed = {} /\ AskOK(a)
    BY DEF BucketInv, AsksShapes, AskOK
<1>2. UNCHANGED <<panel, credit, since>>
    BY DEF ProbeConnect, CreateBucket, ReadUrl, EnableUrl, WriteR2, R2WriteFails, ProbeStatus, browserVars,
          clickHistory
<1>3. exposed' = {}
    BY <1>1 DEF ProbeConnect, CreateBucket, ReadUrl, EnableUrl, WriteR2, R2WriteFails, ProbeStatus,
          accountVars, AskOK
<1>4. a.stage # "answer" /\ (a.op = "save" => a.stage = "write")
    BY <1>1 DEF ProbeConnect, CreateBucket, ReadUrl, EnableUrl, WriteR2, R2WriteFails, ProbeStatus, AskOK
<1>5. PICK b : MovesOn(a, b) /\ Becomes(a, b)
  <2>1. CASE ProbeConnect(a)
    BY <1>1, <1>4, <2>1, AskMovesOn DEF ProbeConnect
  <2>2. CASE CreateBucket(a)
    BY <1>1, <1>4, <2>2, AskMovesOn DEF CreateBucket
  <2>3. CASE ReadUrl(a)
    BY <1>1, <1>4, <2>3, AskMovesOn DEF ReadUrl, Reused
  <2>4. CASE EnableUrl(a)
    BY <1>1, <1>4, <2>4, AskMovesOn DEF EnableUrl
  <2>5. CASE WriteR2(a)
    BY <1>1, <1>4, <2>5, AskMovesOn DEF WriteR2
  <2>6. CASE R2WriteFails(a)
    BY <1>1, <1>4, <2>6, AskMovesOn DEF R2WriteFails
  <2>7. CASE ProbeStatus(a)
    <3>1. PICK probe \in Probes :
             MovesOn(a, [Ends(a, IF a.reply = "none" THEN "status" ELSE a.reply) EXCEPT
                           !.status = Status(probe)])
        BY <2>7 DEF ProbeStatus
    <3>2. (IF a.reply = "none" THEN "status" ELSE a.reply) # "login-started"
        BY <1>1, <1>4 DEF AskOK
    <3>3. a.op # "save"
        BY <1>4, <2>7 DEF ProbeStatus
    <3>4. QED  BY <1>1, <1>4, <3>1, <3>2, <3>3, AskMovesOn
  <2>8. QED  BY <2>1, <2>2, <2>3, <2>4, <2>5, <2>6, <2>7
<1>6. AsksShapes'
    BY <1>1, <1>5, OneAsk DEF MovesOn, Becomes
<1>7. \A d \in asks' : \E c \in asks : d.op = c.op /\ d.page = c.page
    BY <1>5 DEF MovesOn, Becomes
<1>8. QED  BY <1>2, <1>3, <1>6, <1>7

\* A row with some of its fields replaced, the armed one aside.
LEMMA RowChanges ==
    ASSUME NEW v, RowOK(v), NEW status, NEW entries, NEW b \in BOOLEAN
    PROVE  \A w \in { [v EXCEPT !.status = status], [v EXCEPT !.entries = entries],
                      [v EXCEPT !.pending = b], [v EXCEPT !.detail = b], [v EXCEPT !.timer = b],
                      [v EXCEPT !.saving = b] } :
             RowOK(w) /\ w.armed = v.armed
<1> DEFINE with(st, pe, de, ti, en, sa) ==
        [status : {st}, pending : {pe}, detail : {de}, armed : {v.armed},
         timer : {ti}, entries : {en}, saving : {sa}]
<1>1. v \in with(v.status, v.pending, v.detail, v.timer, v.entries, v.saving)
  <2>1. PICK st, pe, de, ar, ti, en, sa :
           v = [status |-> st, pending |-> pe, detail |-> de, armed |-> ar,
                timer |-> ti, entries |-> en, saving |-> sa]
    BY DEF RowOK
  <2>2. QED  BY <2>1
<1>2. /\ [v EXCEPT !.status = status] \in with(status, v.pending, v.detail, v.timer, v.entries, v.saving)
      /\ [v EXCEPT !.entries = entries] \in with(v.status, v.pending, v.detail, v.timer, entries, v.saving)
    BY <1>1
<1>3. /\ [v EXCEPT !.pending = b] \in with(v.status, b, v.detail, v.timer, v.entries, v.saving)
      /\ [v EXCEPT !.detail = b] \in with(v.status, v.pending, b, v.timer, v.entries, v.saving)
    BY <1>1
<1>4. /\ [v EXCEPT !.timer = b] \in with(v.status, v.pending, v.detail, b, v.entries, v.saving)
      /\ [v EXCEPT !.saving = b] \in with(v.status, v.pending, v.detail, v.timer, v.entries, b)
    BY <1>1
<1>5. \A st, pe, de, ti, en, sa : \A w \in with(st, pe, de, ti, en, sa) :
        /\ w = [status |-> w.status, pending |-> w.pending, detail |-> w.detail, armed |-> w.armed,
                timer |-> w.timer, entries |-> w.entries, saving |-> w.saving]
        /\ w.armed = v.armed
    OBVIOUS
<1> HIDE DEF with
<1>6. v.armed \in BOOLEAN
    BY DEF RowOK
<1>7. QED  BY <1>2, <1>3, <1>4, <1>5, <1>6 DEF RowOK

\* A row armed by a login, or disarmed by the connect it was waiting for.
LEMMA RowArms ==
    ASSUME NEW v, RowOK(v), NEW b \in BOOLEAN
    PROVE  RowOK([v EXCEPT !.armed = b]) /\ [v EXCEPT !.armed = b].armed = b
<1>1. PICK st, pe, de, ar, ti, en, sa :
           v = [status |-> st, pending |-> pe, detail |-> de, armed |-> ar,
                timer |-> ti, entries |-> en, saving |-> sa]
    BY DEF RowOK
<1>2. [v EXCEPT !.armed = b]
        \in [status : {st}, pending : {pe}, detail : {de}, armed : {b},
             timer : {ti}, entries : {en}, saving : {sa}]
  <2>1. v \in [status : {st}, pending : {pe}, detail : {de}, armed : {ar},
               timer : {ti}, entries : {en}, saving : {sa}]
    BY <1>1
  <2>2. QED  BY <2>1
<1>3. QED  BY <1>2 DEF RowOK

\* The row disarms exactly when it goes on by itself.
LEMMA ShownRow ==
    ASSUME NEW v, RowOK(v), NEW status
    PROVE  RowOK(Shows(v, status)) /\ Shows(v, status).armed = IF GoesOn(v, status) THEN FALSE ELSE v.armed
<1> DEFINE recast == [v EXCEPT !.status = status]
           quiet == [recast EXCEPT !.timer = FALSE]
           gone == [quiet EXCEPT !.armed = FALSE]
<1>1. RowOK(recast) /\ recast.armed = v.armed
    BY RowChanges
<1> HIDE DEF recast
<1>2. RowOK(quiet) /\ quiet.armed = v.armed
    BY <1>1, RowChanges
<1>3. RowOK([quiet EXCEPT !.detail = FALSE]) /\ [quiet EXCEPT !.detail = FALSE].armed = v.armed
  <2> HIDE DEF quiet
  <2>1. QED  BY <1>2, RowChanges
<1>4. RowOK(gone) /\ gone.armed = FALSE
  <2> HIDE DEF quiet
  <2>1. QED  BY <1>2, RowArms
<1>5. RowOK(Connecting(gone)) /\ Connecting(gone).armed = FALSE
  <2> HIDE DEF gone
  <2> DEFINE wait == [gone EXCEPT !.pending = TRUE]
  <2>1. RowOK(wait) /\ wait.armed = FALSE
    BY <1>4, RowChanges
  <2>2. Connecting(gone) = [wait EXCEPT !.detail = FALSE]
    BY DEF Connecting
  <2> HIDE DEF wait
  <2>3. QED  BY <2>1, <2>2, RowChanges
<1>6. /\ GoesOn(v, status) => Shows(v, status) = Connecting(gone)
      /\ ~GoesOn(v, status) /\ Turns(v, status) => Shows(v, status) = [quiet EXCEPT !.detail = FALSE]
      /\ ~GoesOn(v, status) /\ ~Turns(v, status) => Shows(v, status) = recast
    BY DEF Shows, recast
<1> HIDE DEF quiet, gone
<1>7. QED  BY <1>1, <1>3, <1>5, <1>6

\* The row an answer leaves: armed by the login it reports, disarmed by the status it goes on
\* from.
LEMMA ResultRow ==
    ASSUME NEW v, RowOK(v), NEW a, AskOK(a), NEW w \in Results(v, a)
    PROVE  RowOK(w) /\ w.armed = IF a.reply = "login-started" THEN TRUE
                                 ELSE IF a.status.known /\ GoesOn(v, a.status) THEN FALSE ELSE v.armed
<1> DEFINE done == IF a.op = "connect" THEN [v EXCEPT !.pending = FALSE] ELSE v
           base == IF a.reply = "connected" THEN [done EXCEPT !.entries = NoR2] ELSE done
           shown == IF a.status.known THEN Shows(base, a.status) ELSE done
           goes == a.status.known /\ GoesOn(v, a.status)
<1>1. RowOK(done) /\ done.armed = v.armed /\ done.status = v.status
  <2>1. [v EXCEPT !.pending = FALSE].status = v.status
    BY DEF RowOK
  <2>2. QED  BY <2>1, RowChanges
<1>2. RowOK(base) /\ base.armed = v.armed /\ base.status = v.status
  <2> HIDE DEF done
  <2>1. [done EXCEPT !.entries = NoR2].status = done.status
    BY <1>1 DEF RowOK
  <2>2. QED  BY <1>1, <2>1, RowChanges
<1>3. RowOK(shown) /\ shown.armed = IF goes THEN FALSE ELSE v.armed
  <2> HIDE DEF done, base
  <2>1. GoesOn(base, a.status) <=> GoesOn(v, a.status)
    BY <1>2 DEF GoesOn, Turns
  <2>2. QED  BY <1>1, <1>2, <2>1, ShownRow
<1>4. /\ a.reply = "login-started" => a.op = "connect" /\ a.status.known = FALSE
      /\ a.op = "save" => a.status.known = FALSE
    BY DEF AskOK
<1>5. CASE a.op = "poll" /\ ~a.status.in
  <2>1. w \in PollAgain(shown)
    <3>1. Results(v, a) = PollAgain(shown)
        BY <1>4, <1>5, Zenon DEF Results
    <3>2. QED  BY <3>1
  <2> HIDE DEF shown, goes
  <2>2. w = [shown EXCEPT !.timer = TRUE] \/ w = [shown EXCEPT !.detail = FALSE]
    BY <2>1 DEF PollAgain
  <2>3. RowOK(w) /\ w.armed = shown.armed
    BY <1>3, <2>2, RowChanges
  <2>4. QED  BY <1>3, <1>4, <1>5, <2>3 DEF goes
<1>6. CASE a.reply = "login-started"
  <2> DEFINE up == [done EXCEPT !.armed = TRUE]
             shape == [up EXCEPT !.detail = TRUE]
  <2>1. w = [shape EXCEPT !.timer = TRUE]
    BY <1>4, <1>6 DEF Results
  <2> HIDE DEF done
  <2>2. RowOK(up) /\ up.armed = TRUE
    BY <1>1, RowArms
  <2> HIDE DEF up
  <2>3. RowOK(shape) /\ shape.armed = TRUE
    BY <2>2, RowChanges
  <2> HIDE DEF shape
  <2>4. QED  BY <1>6, <2>1, <2>3, RowChanges
<1>7. CASE a.op = "save"
  <2> DEFINE kept == [v EXCEPT !.saving = FALSE]
  <2> DEFINE e == IF a.reply = "saved" THEN Unsaved(v, a.entries) ELSE v.entries
  <2>1. w = [kept EXCEPT !.entries = e]
    <3>1. a.reply # "login-started" /\ a.op # "poll" /\ kept.entries = v.entries
        BY <1>4, <1>7 DEF RowOK
    <3>2. Results(v, a) = {[v EXCEPT !.saving = FALSE,
                                    !.entries = IF a.reply = "saved" THEN Unsaved(v, a.entries)
                                                ELSE v.entries]}
        BY <1>7, <3>1 DEF Results
    <3>3. QED  BY <3>1, <3>2
  <2> HIDE DEF e
  <2>2. RowOK(kept) /\ kept.armed = v.armed
    BY RowChanges
  <2> HIDE DEF kept
  <2>3. RowOK(w) /\ w.armed = v.armed
    BY <2>1, <2>2, RowChanges
  <2>4. QED  BY <1>4, <1>7, <2>3
<1>8. CASE ~(a.op = "poll" /\ ~a.status.in) /\ a.reply # "login-started" /\ a.op # "save"
  <2>1. w = shown
    BY <1>8 DEF Results
  <2> HIDE DEF shown
  <2>2. QED  BY <1>3, <1>8, <2>1
<1>9. QED  BY <1>5, <1>6, <1>7, <1>8

\* A click, a form or a timer leaves the shape as armed as it was.
LEMMA OneRow ==
    ASSUME ArmedRowsHaveCredit, NEW p \in Pages, NEW v, panel' = [panel EXCEPT ![p] = v],
           RowOK(v), v.armed = panel[p].armed, UNCHANGED credit
    PROVE  ArmedRowsHaveCredit'
<1>1. panel' = [q \in Pages |-> panel'[q]] /\ credit' \in [Pages -> Int]
    BY DEF ArmedRowsHaveCredit
<1>2. \A q \in Pages : panel'[q] = IF q = p THEN v ELSE panel[q]
    BY DEF ArmedRowsHaveCredit
<1>3. \A q \in Pages : RowOK(panel'[q]) /\ panel'[q].armed = panel[q].armed
    BY <1>2 DEF ArmedRowsHaveCredit, RowOK
<1>4. \A q \in Pages : credit'[q] >= IF panel'[q].armed THEN 1 ELSE 0
    BY <1>3 DEF ArmedRowsHaveCredit
<1>5. QED  BY <1>1, <1>3, <1>4 DEF ArmedRowsHaveCredit, RowOK

\* They arm no row and disarm none.
LEMMA ArmedAsWas ==
    ASSUME BucketInv, NEW p \in Pages,
           \/ PressConnectR2(p) \/ Recheck(p) \/ LoginPollFires(p)
           \/ CancelEdit(p) \/ SaveBucketForm(p) \/ HearBucket(p)
           \/ \E b \in Names : TypeField(p, "bucket", b)
           \/ TypeField(p, "url", "custom")
    PROVE  \A q \in Pages : panel'[q].armed = panel[q].armed
<1>1. panel = [q \in Pages |-> panel[q]] /\ RowOK(panel[p])
    BY DEF BucketInv, ArmedRowsHaveCredit, RowOK
<1>2. ASSUME NEW v, panel' = [panel EXCEPT ![p] = v], v.armed = panel[p].armed
      PROVE  \A q \in Pages : panel'[q].armed = panel[q].armed
    BY <1>1, <1>2
<1>3. CASE PressConnectR2(p)
  <2> DEFINE wait == [panel[p] EXCEPT !.pending = TRUE]
  <2>1. RowOK(wait) /\ wait.armed = panel[p].armed
    BY <1>1, RowChanges
  <2>2. Connecting(panel[p]) = [wait EXCEPT !.detail = FALSE]
    BY DEF Connecting
  <2> HIDE DEF wait
  <2>3. Connecting(panel[p]).armed = panel[p].armed
    BY <2>1, <2>2, RowChanges
  <2>4. QED  BY <1>2, <1>3, <2>3 DEF PressConnectR2
<1>4. CASE Recheck(p) \/ HearBucket(p)
    BY <1>4 DEF Recheck, HearBucket, browserVars
<1>5. CASE LoginPollFires(p) \/ SaveBucketForm(p)
  <2> DEFINE still == [panel[p] EXCEPT !.timer = FALSE]
             saving == [panel[p] EXCEPT !.saving = TRUE]
  <2>1. still.armed = panel[p].armed /\ saving.armed = panel[p].armed
    BY <1>1, RowChanges
  <2>2. panel' = [panel EXCEPT ![p] = still] \/ panel' = [panel EXCEPT ![p] = saving]
    BY <1>5 DEF LoginPollFires, SaveBucketForm
  <2> HIDE DEF still, saving
  <2>3. QED  BY <1>2, <2>1, <2>2
<1>6. CASE CancelEdit(p) \/ \E f, b : TypeField(p, f, b)
  <2>1. PICK e : panel' = [panel EXCEPT ![p] = [panel[p] EXCEPT !.entries = e]]
    BY <1>6 DEF CancelEdit, TypeField
  <2> DEFINE new == [panel[p] EXCEPT !.entries = e]
  <2>2. new.armed = panel[p].armed
    BY <1>1, RowChanges
  <2>3. panel' = [panel EXCEPT ![p] = new]
    BY <2>1
  <2> HIDE DEF new
  <2>4. QED  BY <1>2, <2>2, <2>3
<1>7. QED  BY <1>3, <1>4, <1>5, <1>6

\* A dashboard's own steps.
LEMMA PageKeepsBucket ==
    ASSUME BucketInv, NEW p \in Pages,
           \/ PressConnectR2(p) \/ Recheck(p) \/ LoginPollFires(p)
           \/ CancelEdit(p) \/ SaveBucketForm(p) \/ HearBucket(p)
           \/ \E b \in Names : TypeField(p, "bucket", b)
           \/ TypeField(p, "url", "custom")
    PROVE  BucketInv'
<1>1. AsksShapes /\ ArmedRowsHaveCredit /\ exposed = {} /\ RowOK(panel[p])
    BY DEF BucketInv, ArmedRowsHaveCredit, RowOK
<1>2. UNCHANGED <<exposed, credit>>
    BY DEF PressConnectR2, Recheck, LoginPollFires, CancelEdit, SaveBucketForm, HearBucket, TypeField,
           accountVars, browserVars, clickHistory
<1>3. AsksShapes'
  <2>1. CASE PressConnectR2(p)
    BY <1>1, <2>1, NewAsk, OneAsk DEF PressConnectR2
  <2>2. CASE Recheck(p) \/ HearBucket(p)
    BY <1>1, <2>2, NewAsk, OneAsk DEF Recheck, HearBucket
  <2>3. CASE LoginPollFires(p)
    BY <1>1, <2>3, NewAsk, OneAsk DEF LoginPollFires
  <2>4. CASE SaveBucketForm(p)
    <3> DEFINE new == [Ask(p, "save") EXCEPT !.stage = "write", !.entries = panel[p].entries]
    <3>1. asks' = asks \cup {new}
        BY <2>4 DEF SaveBucketForm
    <3>2. Ask(p, "save") \in [page : {p}, op : {"save"}, stage : {"probe"}, name : {Blank},
                              made : {FALSE}, reply : {"none"}, status : {Unknown}, entries : {NoR2}]
        BY DEF Ask
    <3>3. new \in [page : {p}, op : {"save"}, stage : {"write"}, name : {Blank}, made : {FALSE},
                   reply : {"none"}, status : {Unknown}, entries : {panel[p].entries}]
        BY <3>2
    <3> HIDE DEF new
    <3>4. /\ new = [page |-> new.page, op |-> new.op, stage |-> new.stage, name |-> new.name,
                    made |-> new.made, reply |-> new.reply, status |-> new.status,
                    entries |-> new.entries]
          /\ new.page = p /\ new.op = "save" /\ new.stage = "write" /\ new.reply = "none"
          /\ new.status = Unknown
        BY <3>3
    <3>5. AskOK(new)
        BY <3>4 DEF AskOK, Unknown
    <3>6. QED  BY <1>1, <3>1, <3>5, OneAsk
  <2>5. CASE CancelEdit(p) \/ \E f, b : TypeField(p, f, b)
    BY <1>1, <2>5 DEF CancelEdit, TypeField, AsksShapes
  <2>6. QED  BY <2>1, <2>2, <2>3, <2>4, <2>5
<1>4. ArmedRowsHaveCredit'
  <2>1. CASE PressConnectR2(p)
    <3> DEFINE wait == [panel[p] EXCEPT !.pending = TRUE]
    <3>1. panel' = [panel EXCEPT ![p] = Connecting(panel[p])]
        BY <2>1 DEF PressConnectR2
    <3>2. RowOK(wait) /\ wait.armed = panel[p].armed
        BY <1>1, RowChanges
    <3>3. Connecting(panel[p]) = [wait EXCEPT !.detail = FALSE]
        BY DEF Connecting
    <3> HIDE DEF wait
    <3>4. RowOK(Connecting(panel[p])) /\ Connecting(panel[p]).armed = panel[p].armed
        BY <3>2, <3>3, RowChanges
    <3>5. QED  BY <1>1, <1>2, <3>1, <3>4, OneRow
  <2>2. CASE Recheck(p) \/ HearBucket(p)
    BY <1>1, <1>2, <2>2 DEF Recheck, HearBucket, browserVars, ArmedRowsHaveCredit
  <2>3. CASE LoginPollFires(p)
    <3> DEFINE shape == [panel[p] EXCEPT !.timer = FALSE]
    <3>1. panel' = [panel EXCEPT ![p] = shape]
        BY <2>3 DEF LoginPollFires
    <3>2. RowOK(shape) /\ shape.armed = panel[p].armed
        BY <1>1, RowChanges
    <3> HIDE DEF shape
    <3>3. QED  BY <1>1, <1>2, <3>1, <3>2, OneRow
  <2>4. CASE SaveBucketForm(p)
    <3> DEFINE shape == [panel[p] EXCEPT !.saving = TRUE]
    <3>1. panel' = [panel EXCEPT ![p] = shape]
        BY <2>4 DEF SaveBucketForm
    <3>2. RowOK(shape) /\ shape.armed = panel[p].armed
        BY <1>1, RowChanges
    <3> HIDE DEF shape
    <3>3. QED  BY <1>1, <1>2, <3>1, <3>2, OneRow
  <2>5. CASE CancelEdit(p) \/ \E f, b : TypeField(p, f, b)
    <3>1. PICK e : panel' = [panel EXCEPT ![p] = [panel[p] EXCEPT !.entries = e]]
        BY <2>5 DEF CancelEdit, TypeField
    <3> DEFINE shape == [panel[p] EXCEPT !.entries = e]
    <3>2. RowOK(shape) /\ shape.armed = panel[p].armed
        BY <1>1, RowChanges
    <3>3. panel' = [panel EXCEPT ![p] = shape]
        BY <3>1
    <3> HIDE DEF shape
    <3>4. QED  BY <1>1, <1>2, <3>2, <3>3, OneRow
  <2>6. QED  BY <2>1, <2>2, <2>3, <2>4, <2>5
<1>5. ClickedFirst'
  <2>1. ClickedFirst /\ \A q \in Pages : panel'[q].armed = panel[q].armed
    BY <1>1, ArmedAsWas DEF BucketInv
  <2>2. CASE PressConnectR2(p)
    <3>1. /\ since' = [since EXCEPT ![p] = "clicked"]
          /\ asks' = asks \cup {Ask(p, "connect")}
        BY <2>2 DEF PressConnectR2
    <3>2. Ask(p, "connect").page = p
        BY DEF Ask
    <3>3. \A a \in asks : a.page \in Pages
        BY <1>1 DEF AsksShapes
    <3>4. QED  BY <2>1, <3>1, <3>2, <3>3 DEF ClickedFirst
  <2>3. CASE ~PressConnectR2(p)
    <3>1. UNCHANGED since /\ \A a \in asks' : a \in asks \/ a.op # "connect"
      <4>1. UNCHANGED since
        BY <2>3 DEF Recheck, LoginPollFires, CancelEdit, SaveBucketForm, HearBucket, TypeField,
               browserVars, clickHistory
      <4>2. /\ Ask(p, "refresh").op = "refresh" /\ Ask(p, "poll").op = "poll"
            /\ \A e : [Ask(p, "save") EXCEPT !.stage = "write", !.entries = e].op = "save"
        BY DEF Ask
      <4>3. QED  BY <2>3, <4>1, <4>2 DEF Recheck, LoginPollFires, CancelEdit, SaveBucketForm,
                 HearBucket, TypeField
    <3>2. QED  BY <2>1, <3>1 DEF ClickedFirst
  <2>4. QED  BY <2>2, <2>3
<1>6. QED  BY <1>1, <1>2, <1>3, <1>4, <1>5 DEF BucketInv

\* An answer: the login it reports is the credit of one connect without a click.
LEMMA AnswerKeepsBucket ==
    ASSUME BucketInv, NEW a \in asks, AnswerR2(a) PROVE BucketInv'
<1> DEFINE p == a.page
           auto == a.status.known /\ GoesOn(panel[p], a.status)
           login == a.reply = "login-started"
<1>1. /\ AsksShapes /\ ArmedRowsHaveCredit /\ exposed = {} /\ AskOK(a) /\ p \in Pages
      /\ RowOK(panel[p])
    BY DEF BucketInv, ArmedRowsHaveCredit, RowOK, AsksShapes, AskOK
<1>2. /\ UNCHANGED exposed
      /\ asks' = (asks \ {a}) \cup (IF auto THEN {Ask(p, "connect")} ELSE {})
      /\ credit' = [credit EXCEPT ![p] = @ + (IF login THEN 1 ELSE 0) - (IF auto THEN 1 ELSE 0)]
      /\ since' = [since EXCEPT ![p] = IF auto THEN Unclicked[@] ELSE @]
    BY DEF AnswerR2, accountVars
<1>3. PICK w \in Results(panel[p], a) : panel' = [panel EXCEPT ![p] = w]
    BY DEF AnswerR2
<1>4. /\ RowOK(w)
      /\ w.armed = IF login THEN TRUE ELSE IF auto THEN FALSE ELSE panel[p].armed
    BY <1>1, ResultRow
<1>5. AsksShapes'
  <2>1. AskOK(Ask(p, "connect"))
    BY <1>1, NewAsk
  <2>2. asks' \subseteq asks \cup {Ask(p, "connect")}
    BY <1>2
  <2>3. QED  BY <1>1, <2>1, <2>2, OneAsk
<1>6. login => ~auto
    BY <1>1 DEF AskOK
<1>7. auto => panel[p].armed
    BY DEF GoesOn
<1>8. panel[p].armed \in BOOLEAN /\ w.armed \in BOOLEAN
    BY <1>1, <1>4 DEF RowOK
<1> HIDE DEF auto, login
<1>9. /\ credit' \in [Pages -> Int]
      /\ \A q \in Pages : credit'[q] = IF q = p THEN credit[p] + (IF login THEN 1 ELSE 0) - (IF auto THEN 1 ELSE 0)
                                       ELSE credit[q]
    BY <1>1, <1>2 DEF ArmedRowsHaveCredit
<1>10. credit[p] \in Int /\ credit[p] >= IF panel[p].armed THEN 1 ELSE 0
    BY <1>1 DEF ArmedRowsHaveCredit
<1>11. credit'[p] >= IF w.armed THEN 1 ELSE 0
  <2>1. credit'[p] = credit[p] + (IF login THEN 1 ELSE 0) - (IF auto THEN 1 ELSE 0)
    BY <1>1, <1>9
  <2>2. QED  BY <1>4, <1>6, <1>7, <1>8, <1>10, <2>1
<1>12. /\ panel' = [q \in Pages |-> panel'[q]]
       /\ \A q \in Pages : panel'[q] = IF q = p THEN w ELSE panel[q]
    BY <1>1, <1>3 DEF ArmedRowsHaveCredit
<1>13. ArmedRowsHaveCredit'
  <2>1. \A q \in Pages : RowOK(panel'[q])
    <3>1. \A q \in Pages : RowOK(panel[q])
        BY <1>1 DEF ArmedRowsHaveCredit, RowOK
    <3>2. QED  BY <1>4, <1>12, <3>1
  <2>2. \A q \in Pages : credit'[q] >= IF panel'[q].armed THEN 1 ELSE 0
    <3>1. SUFFICES ASSUME NEW q \in Pages PROVE credit'[q] >= IF panel'[q].armed THEN 1 ELSE 0
        OBVIOUS
    <3>2. CASE q = p
        BY <1>11, <1>12, <3>2
    <3>3. CASE q # p
        BY <1>1, <1>9, <1>12, <3>3 DEF ArmedRowsHaveCredit
    <3>4. QED  BY <3>2, <3>3
  <2>3. QED  BY <1>9, <1>12, <2>1, <2>2 DEF ArmedRowsHaveCredit, RowOK
<1>14. ClickedFirst'
  <2>1. ClickedFirst /\ since[p] \in {"none", "clicked", "once", "more"}
    BY <1>1 DEF BucketInv, ClickedFirst
  <2>2. login => since[p] # "none"
    BY <1>1, <2>1 DEF AskOK, ClickedFirst, login
  <2>3. auto => since[p] # "none"
    BY <1>1, <1>7, <2>1 DEF ClickedFirst
  <2>4. auto => Unclicked[since[p]] \in {"once", "more"}
    BY <2>1, <2>3 DEF Unclicked
  <2>5. /\ since' \in [Pages -> {"none", "clicked", "once", "more"}]
        /\ \A q \in Pages : q # p => since'[q] = since[q]
        /\ since'[p] = "none" <=> since[p] = "none"
    BY <1>1, <1>2, <2>1, <2>3, <2>4 DEF ClickedFirst
  <2>6. \A q \in Pages : panel'[q].armed => since'[q] # "none"
    BY <1>4, <1>8, <1>12, <2>1, <2>2, <2>5 DEF ClickedFirst
  <2>7. Ask(p, "connect").page = p
    BY DEF Ask
  <2>8. \A b \in asks' : b.op = "connect" => since'[b.page] # "none"
    <3>1. \A b \in asks : b.page \in Pages
        BY <1>1 DEF AsksShapes
    <3>2. QED  BY <1>2, <2>1, <2>3, <2>5, <2>7, <3>1 DEF ClickedFirst
  <2>9. QED  BY <2>5, <2>6, <2>8 DEF ClickedFirst
<1>15. QED  BY <1>1, <1>2, <1>5, <1>13, <1>14 DEF BucketInv

\* The pages begin with a status request each and no row armed.
LEMMA InitBucket == BucketInit => BucketInv
<1> SUFFICES ASSUME BucketInit PROVE BucketInv
    OBVIOUS
<1>1. /\ exposed = {} /\ asks = {Ask(p, "refresh") : p \in Pages}
      /\ panel = [p \in Pages |-> Row] /\ credit = [p \in Pages |-> 0]
      /\ since = [p \in Pages |-> "none"]
    BY DEF BucketInit
<1>2. AsksShapes
  <2>1. \A a \in asks : AskOK(a)
    BY <1>1, NewAsk
  <2>2. QED  BY <2>1 DEF AsksShapes, AskOK
<1>3. ArmedRowsHaveCredit
  <2>1. \A p \in Pages : panel[p] = Row /\ credit[p] = 0
    BY <1>1
  <2>2. RowOK(Row) /\ Row.armed = FALSE
    <3>1. Row \in [status : {Unknown}, pending : {FALSE}, detail : {FALSE}, armed : {FALSE},
                   timer : {FALSE}, entries : {NoR2}, saving : {FALSE}]
        BY DEF Row
    <3>2. QED  BY <3>1 DEF RowOK
  <2>3. panel = [p \in Pages |-> panel[p]] /\ credit \in [Pages -> Int]
    BY <1>1
  <2>4. QED  BY <2>1, <2>2, <2>3 DEF ArmedRowsHaveCredit, RowOK
<1>4. ClickedFirst
  <2>1. \A p \in Pages : panel[p].armed = FALSE /\ Ask(p, "refresh").op = "refresh"
    BY <1>1 DEF Row, Ask
  <2>2. QED  BY <1>1, <2>1 DEF ClickedFirst
<1>5. QED  BY <1>1, <1>2, <1>3, <1>4 DEF BucketInv

\* Every step keeps it.
LEMMA NextBucket == BucketInv /\ [BucketNext]_bucketVars => BucketInv'
<1> SUFFICES ASSUME BucketInv, [BucketNext]_bucketVars PROVE BucketInv'
    OBVIOUS
<1>1. ASSUME UNCHANGED <<exposed, asks, panel, credit, since>> PROVE BucketInv'
  <2>1. AsksShapes'
    BY <1>1 DEF BucketInv, AsksShapes
  <2>2. ArmedRowsHaveCredit'
    BY <1>1 DEF BucketInv, ArmedRowsHaveCredit
  <2>3. ClickedFirst'
    BY <1>1 DEF BucketInv, ClickedFirst
  <2>4. QED  BY <1>1, <2>1, <2>2, <2>3 DEF BucketInv
<1>2. CASE \/ LoginEnds
           \/ \E to \in {"out", "in"} : CliMoves(to)
           \/ \E b \in Names, to \in {"private", "public"} : UserMoves(b, to)
           \/ UNCHANGED bucketVars
    BY <1>1, <1>2 DEF LoginEnds, CliMoves, UserMoves, bucketVars, accountVars, browserVars,
          clickHistory
<1>3. ASSUME NEW a \in asks,
             \/ ProbeConnect(a) \/ CreateBucket(a) \/ ReadUrl(a) \/ EnableUrl(a)
             \/ WriteR2(a) \/ R2WriteFails(a) \/ ProbeStatus(a) \/ AnswerR2(a)
      PROVE  BucketInv'
  <2>1. CASE AnswerR2(a)
    BY <2>1, AnswerKeepsBucket
  <2>2. CASE ~AnswerR2(a)
    <3>1. /\ exposed' = {} /\ AsksShapes' /\ UNCHANGED <<panel, credit, since>>
          /\ \A b \in asks' : \E c \in asks : b.op = c.op /\ b.page = c.page
        BY <1>3, <2>2, ServingKeepsShapes
    <3>2. ArmedRowsHaveCredit'
        BY <3>1 DEF BucketInv, ArmedRowsHaveCredit
    <3>3. ClickedFirst'
        BY <3>1 DEF BucketInv, ClickedFirst
    <3>4. QED  BY <3>1, <3>2, <3>3 DEF BucketInv
  <2>3. QED  BY <2>1, <2>2
<1>4. QED  BY <1>2, <1>3, PageKeepsBucket DEF BucketNext

\* Public access is turned on only for a bucket the same call created; and no row connects
\* without a click in a page where Connect was never clicked, nor more often than connects
\* of that page were answered with a login that was started, for every number of dashboards,
\* buckets, clicks and answers (r2.ts provisionBucket, ConnectorsSection.tsx R2Row).
THEOREM BucketsArePublishedOnRequest == BucketSpec => []PublishingIsAskedFor
<1>1. BucketInv => PublishingIsAskedFor
    BY DEF BucketInv, ArmedRowsHaveCredit, ClickedFirst, PublishingIsAskedFor
<1>2. QED  BY <1>1, InitBucket, NextBucket, PTL DEF BucketSpec

-----------------------------------------------------------------------------
(* Connecting a provider (ConnectFlow)                                      *)

\* What the rows, their timers and their requests are.
FlowRecords ==
  [tab : Tabs \cup {Gone}, op : {"connect", "clear", "save", "poll"},
   stage : {"find", "check", "write", "code", "ask", "answer"},
   secret : Secrets, code : Nat, chain : Nat,
   reply : {"none", "manual", "rejected", "error", "failed", "device",
            "pending", "connected", "disconnected"},
   has : BOOLEAN]

RowRecords ==
  [code : Nat, busy : BOOLEAN, manual : BOOLEAN, told : Secrets, sees : BOOLEAN, ref : Nat]
TimerRecords == [tab : Tabs \cup {Gone}, code : Nat]

\* Nothing is known of a row at first.
LEMMA InitConnect == ConnectInit => ConnectInv
<1> SUFFICES ASSUME ConnectInit PROVE ConnectInv  OBVIOUS
<1> USE DEF ConnectInit
<1>1. NoSecret \in Secrets  BY DEF NoSecret, Secret, Secrets
<1>2. EmptyRow \in [code : Nat, busy : BOOLEAN, manual : BOOLEAN,
                    told : Secrets, sees : BOOLEAN, ref : Nat]
      /\ EmptyRow.code = 0 /\ EmptyRow.told = NoSecret
  BY <1>1 DEF EmptyRow
<1>3. row \in [Tabs -> [code : Nat, busy : BOOLEAN, manual : BOOLEAN,
                        told : Secrets, sees : BOOLEAN, ref : Nat]]
  BY <1>2
<1>4. slots \in [key : Secrets, login : Secrets]  BY <1>1
<1>5. onHost \in [key : {"none", "good", "dead"}, login : {"none", "expired", "good", "dead"}]
  <2>1. CASE provider \in Agents
    <3>1. onHost \in [key : {"none", "good", "dead"}, login : {"none", "expired"}]
      BY <2>1
    <3>2. QED  BY <3>1
  <2>2. CASE provider \notin Agents
    <3>1. onHost \in [key : {"none", "good", "dead"}, login : {"none"}]
      BY <2>2
    <3>2. QED  BY <3>1
  <2>3. QED  BY <2>1, <2>2
<1>6. ConnectTypeOK  BY <1>3, <1>4, <1>5 DEF ConnectTypeOK
<1>7. RowsAreBacked
  BY <1>2 DEF RowsAreBacked
<1>8. QED  BY <1>6, <1>7 DEF ConnectInv

\* The invariant is kept by whatever accepts and writes more and leaves the rows
\* as they are.
LEMMA HostMoves ==
    ASSUME ConnectInv, ConnectTypeOK', UNCHANGED <<row, timers>>,
           vouched \subseteq vouched', written \subseteq written',
           {slots'.key, slots'.login} \ {NoSecret} \subseteq vouched',
           \A f \in flows' : FlowOK(f)',
           \A f \in flows : \E g \in flows' : g.op = f.op /\ g.tab = f.tab /\ g.chain = f.chain
    PROVE  ConnectInv'
<1>1. ASSUME NEW t \in Tabs, Watched(t)  PROVE Watched(t)'
  BY <1>1 DEF Watched, Timer
<1>2. \A t \in Tabs : /\ row'[t].code # 0 => Watched(t)'
                      /\ row'[t].told # NoSecret => row'[t].told \in vouched' \cap written'
  BY <1>1 DEF ConnectInv, RowsAreBacked
<1>3. RowsAreBacked'  BY <1>2 DEF RowsAreBacked
<1>4. QED  BY <1>3 DEF ConnectInv

\* What was accepted and written stays so.
LEMMA StaysOK ==
    ASSUME vouched \subseteq vouched', written \subseteq written',
           NEW f, FlowOK(f)
    PROVE  FlowOK(f)'
BY DEF FlowOK

\* One request moves on.
LEMMA Moves ==
    ASSUME ConnectInv, NEW f \in flows, NEW g \in FlowRecords, Advances(f, g),
           g.op = f.op, g.tab = f.tab, g.chain = f.chain, g.code \in 0 .. Len(codes'),
           FlowOK(g)',
           UNCHANGED <<row, timers, onHost>>,
           vouched \subseteq vouched', written \subseteq written',
           slots' \in [key : Secrets, login : Secrets],
           codes' \in Seq({"pending", "approved", "over"}), device' \in 0 .. Len(codes'),
           Len(codes) <= Len(codes'),
           {slots'.key, slots'.login} \ {NoSecret} \subseteq vouched'
    PROVE  ConnectInv'
<1>1. flows' = (flows \ {f}) \cup {g}  BY DEF Advances
<1>2. flows \subseteq FlowRecords  BY DEF ConnectInv, ConnectTypeOK, FlowRecords
<1>3. flows' \subseteq FlowRecords  BY <1>1, <1>2
<1>4. ConnectTypeOK'
  <2>1. \A x \in flows' : x.code \in 0 .. Len(codes')
    <3>1. \A x \in flows : x.code \in 0 .. Len(codes)
      BY DEF ConnectInv, ConnectTypeOK
    <3>2. Len(codes) \in Nat /\ Len(codes') \in Nat  BY DEF ConnectInv, ConnectTypeOK
    <3>3. QED  BY <1>1, <3>1, <3>2
  <2>2. QED  BY <1>3, <2>1 DEF ConnectInv, ConnectTypeOK, FlowRecords
<1>5. \A x \in flows' : FlowOK(x)'
  BY <1>1, StaysOK DEF ConnectInv
<1>6. \A x \in flows : \E y \in flows' : y.op = x.op /\ y.tab = x.tab /\ y.chain = x.chain
  BY <1>1
<1>7. QED  BY <1>4, <1>5, <1>6, HostMoves


\* What a request is once it is answered.
LEMMA Reply ==
    ASSUME NEW f \in FlowRecords, NEW has, NEW r, NEW g,
           g = Replied(f, r, has), has \in BOOLEAN,
           r \in {"manual", "rejected", "error", "failed", "device",
                  "pending", "connected", "disconnected"}
    PROVE  /\ g \in FlowRecords /\ g.stage = "answer" /\ g.reply = r
           /\ g.op = f.op /\ g.tab = f.tab /\ g.chain = f.chain
           /\ g.secret = f.secret /\ g.code = f.code
<1>1. g = [f EXCEPT !.stage = "answer", !.reply = r, !.has = has]
    BY DEF Replied
<1>2. QED  BY <1>1 DEF FlowRecords

\* A request that is answered without a credential.
LEMMA Replying ==
    ASSUME ConnectInv, NEW f \in flows, NEW r, Replies(f, r),
           \/ r = "manual" /\ f.op = "connect"
           \/ r = "rejected" /\ f.op = "save"
           \/ r \in {"error", "failed"}
           \/ r = "pending" /\ f.op = "poll",
           UNCHANGED <<slots, row, timers, onHost, vouched, written>>,
           codes' \in Seq({"pending", "approved", "over"}), device' \in 0 .. Len(codes'),
           Len(codes) <= Len(codes')
    PROVE  ConnectInv'
<1>1. f \in FlowRecords  BY DEF ConnectInv, ConnectTypeOK, FlowRecords
<1>2. PICK h : h = Connected(slots) /\ h \in BOOLEAN  BY DEF Connected
<1>3. PICK g : g = Replied(f, r, h)  OBVIOUS
<1>4. Advances(f, g)  BY <1>2, <1>3 DEF Replies
<1>5. /\ g \in FlowRecords /\ g.stage = "answer" /\ g.reply = r
      /\ g.op = f.op /\ g.tab = f.tab /\ g.chain = f.chain /\ g.code = f.code
  <2>1. r \in {"manual", "rejected", "error", "failed", "device",
               "pending", "connected", "disconnected"}
    OBVIOUS
  <2>2. QED  BY <1>1, <1>2, <1>3, <2>1, Reply
<1>6. FlowOK(g)'  BY <1>5 DEF FlowOK
<1>7. slots' \in [key : Secrets, login : Secrets]
      /\ {slots'.key, slots'.login} \ {NoSecret} \subseteq vouched'
    BY DEF ConnectInv, ConnectTypeOK, RowsAreBacked
<1>8. g.code \in 0 .. Len(codes')
  <2>1. f.code \in 0 .. Len(codes) /\ Len(codes) \in Nat
    BY DEF ConnectInv, ConnectTypeOK
  <2>2. QED  BY <1>5, <2>1
<1>9. QED  BY <1>4, <1>5, <1>6, <1>7, <1>8, Moves

\* A request that goes on to another stage.
LEMMA GoingOn ==
    ASSUME ConnectInv, NEW f \in flows, NEW g \in FlowRecords, Advances(f, g),
           g.op = f.op, g.tab = f.tab, g.chain = f.chain, g.code = f.code,
           g.stage \in {"check", "write", "code"},
           g.stage = "code" => f.op = "connect",
           g.stage = "check" => f.op # "clear" /\ g.secret.kind # "none",
           g.stage = "write" => f.op # "clear" /\ g.secret.kind # "none"
                                /\ g.secret \in vouched',
           UNCHANGED <<slots, row, timers, onHost, written>>, vouched \subseteq vouched',
           codes' \in Seq({"pending", "approved", "over"}), device' \in 0 .. Len(codes'),
           Len(codes) <= Len(codes')
    PROVE  ConnectInv'
<1>1. FlowOK(g)'  BY DEF FlowOK
<1>2. slots' \in [key : Secrets, login : Secrets]
      /\ {slots'.key, slots'.login} \ {NoSecret} \subseteq vouched'
    BY DEF ConnectInv, ConnectTypeOK, RowsAreBacked
<1>3. g.code \in 0 .. Len(codes')
  <2>1. f.code \in 0 .. Len(codes) /\ Len(codes) \in Nat
    BY DEF ConnectInv, ConnectTypeOK
  <2>2. QED  BY <2>1
<1>4. QED  BY <1>1, <1>2, <1>3, Moves

\* The host at work on a request.
LEMMA HostWorks ==
    ASSUME ConnectInv, NEW f \in flows,
           Discover(f) \/ Check(f) \/ SaveFails(f) \/ NoCodeToHandOut(f)
           \/ AskGithub(f) \/ GithubUnreachable(f)
    PROVE  ConnectInv'
<1>1. /\ f \in FlowRecords /\ FlowOK(f)
      /\ codes \in Seq({"pending", "approved", "over"}) /\ device \in 0 .. Len(codes)
      /\ Len(codes) \in Nat /\ f.code \in 0 .. Len(codes)
      /\ onHost \in [key : {"none", "good", "dead"}, login : {"none", "expired", "good", "dead"}]
    BY DEF ConnectInv, ConnectTypeOK, FlowRecords
<1>2. ASSUME f.op = "connect", FallsBack(f),
             UNCHANGED <<keepVars, worldVars, pageVars>>
      PROVE  ConnectInv'
  <2>1. CASE Replies(f, "manual")
    BY <1>1, <1>2, <2>1, Replying DEF keepVars, worldVars, pageVars
  <2>2. CASE Advances(f, [f EXCEPT !.stage = "code"])
    <3>1. PICK g : g = [f EXCEPT !.stage = "code"]  OBVIOUS
    <3>2. /\ g \in FlowRecords /\ g.stage = "code"
          /\ g.op = f.op /\ g.tab = f.tab /\ g.chain = f.chain /\ g.code = f.code
      BY <1>1, <3>1 DEF FlowRecords
    <3>3. Advances(f, g)  BY <2>2, <3>1
    <3>4. QED  BY <1>1, <1>2, <3>2, <3>3, GoingOn DEF keepVars, worldVars, pageVars
  <2>3. QED  BY <1>2, <2>1, <2>2 DEF FallsBack
<1>3. CASE Discover(f)
  <2>1. f.op = "connect"  BY <1>1, <1>3 DEF Discover, FlowOK
  <2>2. CASE Discovered = NoSecret
    BY <1>2, <1>3, <2>1, <2>2 DEF Discover
  <2>3. CASE Discovered # NoSecret
    <3>1. PICK c \in Secrets : c = Discovered /\ c.kind # "none"
      BY <1>1, <2>3 DEF Discovered, Secret, NoSecret, Secrets
    <3>2. Advances(f, [f EXCEPT !.stage = "check", !.secret = c])
      BY <1>3, <2>3, <3>1 DEF Discover
    <3>3. PICK g : g = [f EXCEPT !.stage = "check", !.secret = c]  OBVIOUS
    <3>4. /\ g \in FlowRecords /\ g.stage = "check" /\ g.secret = c
          /\ g.op = f.op /\ g.tab = f.tab /\ g.chain = f.chain /\ g.code = f.code
      BY <1>1, <3>3 DEF FlowRecords
    <3>5. Advances(f, g)  BY <3>2, <3>3
    <3>6. QED
      BY <1>1, <1>3, <2>1, <3>1, <3>4, <3>5, GoingOn DEF Discover, keepVars, worldVars, pageVars
  <2>4. QED  BY <2>2, <2>3
<1>4. CASE Check(f)
  <2>1. PICK ok \in Verdicts(f.secret) :
          IF ok
          THEN /\ vouched' = vouched \cup {f.secret}
               /\ Advances(f, [f EXCEPT !.stage = "write"])
          ELSE /\ UNCHANGED vouched
               /\ CASE f.op = "connect" -> FallsBack(f)
                    [] f.op = "save" -> Replies(f, "rejected")
                    [] f.op = "poll" -> Replies(f, "error")
    BY <1>4 DEF Check
  <2>2. /\ f.op # "clear" /\ f.secret.kind # "none"
        /\ UNCHANGED <<slots, device, written, worldVars, pageVars>>
    BY <1>1, <1>4 DEF Check, FlowOK
  <2>3. CASE ok
    <3>1. PICK g : g = [f EXCEPT !.stage = "write"]  OBVIOUS
    <3>2. /\ g \in FlowRecords /\ g.stage = "write" /\ g.secret = f.secret
          /\ g.op = f.op /\ g.tab = f.tab /\ g.chain = f.chain /\ g.code = f.code
      BY <1>1, <3>1 DEF FlowRecords
    <3>3. Advances(f, g) /\ vouched' = vouched \cup {f.secret}
      BY <2>1, <2>3, <3>1
    <3>4. QED  BY <1>1, <2>2, <3>2, <3>3, GoingOn DEF worldVars, pageVars
  <2>4. CASE ~ok
    <3>1. CASE f.op = "connect"
      BY <1>2, <2>1, <2>2, <2>4, <3>1 DEF keepVars
    <3>2. CASE f.op = "save"
      BY <1>1, <2>1, <2>2, <2>4, <3>2, Replying DEF worldVars, pageVars
    <3>3. CASE f.op = "poll"
      BY <1>1, <2>1, <2>2, <2>4, <3>3, Replying DEF worldVars, pageVars
    <3>4. QED  BY <1>1, <2>2, <3>1, <3>2, <3>3 DEF FlowRecords
  <2>5. QED  BY <2>3, <2>4
<1>5. CASE SaveFails(f)
  BY <1>1, <1>5, Replying DEF SaveFails, keepVars, worldVars, pageVars
<1>6. CASE NoCodeToHandOut(f)
  BY <1>1, <1>6, Replying DEF NoCodeToHandOut, keepVars, worldVars, pageVars, FlowOK
<1>7. CASE GithubUnreachable(f)
  BY <1>1, <1>7, Replying DEF GithubUnreachable, keepVars, worldVars, pageVars
<1>8. CASE AskGithub(f)
  <2>1. UNCHANGED <<slots, vouched, written, provider, onHost, pageVars>> /\ f.op = "poll"
    BY <1>1, <1>8 DEF AskGithub, FlowOK
  <2>2. CASE codes[f.code] = "pending"
    BY <1>1, <1>8, <2>1, <2>2, Replying DEF AskGithub, pageVars
  <2>3. CASE codes[f.code] = "approved"
    <3>1. PICK c \in Secrets : c = Secret("key", "device", "good") /\ c.kind # "none"
      <4>1. Secret("key", "device", "good") \in Secrets  BY DEF Secret, Secrets
      <4>2. Secret("key", "device", "good").kind = "key"  BY DEF Secret
      <4>3. QED  BY <4>1, <4>2
    <3>2. Advances(f, [f EXCEPT !.stage = "check", !.secret = c])
          /\ device' = 0 /\ codes' = [codes EXCEPT ![f.code] = "over"]
      BY <1>8, <2>3, <3>1 DEF AskGithub
    <3>3. codes' \in Seq({"pending", "approved", "over"}) /\ Len(codes') = Len(codes)
      <4>1. f.code \in 1 .. Len(codes)  BY <1>1, <1>8 DEF AskGithub, FlowOK
      <4>2. QED  BY <1>1, <3>2, <4>1, ExceptSeq
    <3>4. PICK g : g = [f EXCEPT !.stage = "check", !.secret = c]  OBVIOUS
    <3>5. /\ g \in FlowRecords /\ g.stage = "check" /\ g.secret = c
          /\ g.op = f.op /\ g.tab = f.tab /\ g.chain = f.chain /\ g.code = f.code
      BY <1>1, <3>4 DEF FlowRecords
    <3>6. Advances(f, g)  BY <3>2, <3>4
    <3>7. device' \in 0 .. Len(codes') /\ Len(codes) <= Len(codes')
      BY <1>1, <3>2, <3>3
    <3>8. f.op # "clear" /\ c.kind # "none"  BY <2>1, <3>1
    <3>9. QED  BY <2>1, <3>3, <3>5, <3>6, <3>7, <3>8, GoingOn DEF pageVars
  <2>4. CASE codes[f.code] = "over"
    BY <1>1, <1>8, <2>1, <2>4, Replying DEF AskGithub, pageVars
  <2>5. codes[f.code] \in {"pending", "approved", "over"}
    BY <1>1, <1>8 DEF AskGithub, FlowOK
  <2>6. QED  BY <2>2, <2>3, <2>4, <2>5
<1>9. QED  BY <1>3, <1>4, <1>5, <1>6, <1>7, <1>8

\* A write of what was accepted, or of nothing at all.
LEMMA WritesAreAccepted ==
    ASSUME ConnectInv, NEW f \in flows, SaveCredential(f)
    PROVE  /\ slots' \in [key : Secrets, login : Secrets]
           /\ {slots'.key, slots'.login} \ {NoSecret} \subseteq vouched
<1>1. /\ slots \in [key : Secrets, login : Secrets]
      /\ f \in FlowRecords /\ FlowOK(f)
      /\ {slots.key, slots.login} \ {NoSecret} \subseteq vouched
    BY DEF ConnectInv, ConnectTypeOK, FlowRecords, RowsAreBacked
<1>2. NoSecret \in Secrets  BY DEF NoSecret, Secret, Secrets
<1>3. f.secret \in Secrets /\ (f.secret = NoSecret \/ f.secret \in vouched)
      /\ (f.op # "clear" => f.secret.kind # "none")
    BY <1>1 DEF SaveCredential, FlowOK, FlowRecords
<1>4. slots' = Applied(f)  BY DEF SaveCredential
<1>5. CASE f.op \in {"save", "clear"}
  <2>1. slots' = [key |-> f.secret, login |-> NoSecret]  BY <1>4, <1>5 DEF Applied
  <2>2. QED  BY <1>2, <1>3, <2>1
<1>6. CASE f.op = "poll"
  <2>1. slots' = [slots EXCEPT !.key = f.secret]  BY <1>4, <1>6 DEF Applied
  <2>2. QED  BY <1>1, <1>3, <2>1
<1>7. CASE f.op = "connect"
  <2>1. PICK other \in [key : Secrets, login : Secrets] :
          /\ slots' = [other EXCEPT ![f.secret.kind] = f.secret]
          /\ {other.key, other.login} \ {NoSecret} \subseteq vouched
    BY <1>1, <1>2, <1>4, <1>7 DEF Applied
  <2>2. f.secret.kind \in {"key", "login"}  BY <1>3, <1>7 DEF Secrets
  <2>3. CASE f.secret.kind = "key"
    <3>1. slots' = [other EXCEPT !.key = f.secret]  BY <2>1, <2>3
    <3>2. QED  BY <1>3, <2>1, <3>1
  <2>4. CASE f.secret.kind = "login"
    <3>1. slots' = [other EXCEPT !.login = f.secret]  BY <2>1, <2>4
    <3>2. QED  BY <1>3, <2>1, <3>1
  <2>5. QED  BY <2>2, <2>3, <2>4
<1>8. QED  BY <1>1, <1>5, <1>6, <1>7 DEF FlowRecords

\* A credential is written, and a code handed out.
LEMMA WritesKeepConnect ==
    ASSUME ConnectInv, NEW f \in flows, SaveCredential(f) \/ HandOutCode(f)
    PROVE  ConnectInv'
<1>1. /\ f \in FlowRecords /\ FlowOK(f)
      /\ codes \in Seq({"pending", "approved", "over"}) /\ device \in 0 .. Len(codes)
      /\ Len(codes) \in Nat /\ f.code \in 0 .. Len(codes)
      /\ slots \in [key : Secrets, login : Secrets]
      /\ {slots.key, slots.login} \ {NoSecret} \subseteq vouched
    BY DEF ConnectInv, ConnectTypeOK, FlowRecords, RowsAreBacked
<1>2. CASE SaveCredential(f)
  <2>1. PICK h : h = Connected(slots') /\ h \in BOOLEAN  BY DEF Connected
  <2>2. PICK r : r = IF f.op = "clear" THEN "disconnected" ELSE "connected"  OBVIOUS
  <2>3. PICK g : g = Replied(f, r, h)  OBVIOUS
  <2>4. /\ Advances(f, g) /\ written' = written \cup ({f.secret} \ {NoSecret})
        /\ UNCHANGED <<device, vouched, worldVars, row, timers>>
    BY <1>2, <2>1, <2>2, <2>3 DEF SaveCredential
  <2>5. /\ g \in FlowRecords /\ g.stage = "answer" /\ g.reply = r /\ g.secret = f.secret
        /\ g.op = f.op /\ g.tab = f.tab /\ g.chain = f.chain /\ g.code = f.code
    <3>1. r \in {"manual", "rejected", "error", "failed", "device",
                 "pending", "connected", "disconnected"}
      BY <2>2
    <3>2. QED  BY <1>1, <2>1, <2>3, <3>1, Reply
  <2>6. f.op # "clear" => f.secret \in vouched \cap written'
    <3>1. f.op # "clear" => f.secret \in vouched /\ f.secret.kind # "none"
      BY <1>1, <1>2 DEF SaveCredential, FlowOK
    <3>2. NoSecret.kind = "none"  BY DEF NoSecret, Secret
    <3>3. QED  BY <2>4, <3>1, <3>2
  <2>7. FlowOK(g)'  BY <2>2, <2>4, <2>5, <2>6 DEF FlowOK
  <2>8. QED
    BY <1>1, <1>2, <2>4, <2>5, <2>7, WritesAreAccepted, Moves DEF worldVars
<1>3. CASE HandOutCode(f)
  <2>1. PICK n : n = Len(codes) + 1  OBVIOUS
  <2>2. codes' = Append(codes, "pending") /\ codes' \in Seq({"pending", "approved", "over"})
        /\ Len(codes') = n
    BY <1>1, <1>3, <2>1 DEF HandOutCode
  <2>3. PICK h : h = Connected(slots) /\ h \in BOOLEAN  BY DEF Connected
  <2>4. PICK e : e = Replied(f, "device", h)  OBVIOUS
  <2>5. PICK g : g = [e EXCEPT !.code = n]  OBVIOUS
  <2>6. /\ Advances(f, g) /\ device' = n
        /\ UNCHANGED << slots, vouched, written, provider, onHost, pageVars>>
    BY <1>3, <2>2, <2>3, <2>4, <2>5 DEF HandOutCode
  <2>7. /\ e \in FlowRecords /\ e.stage = "answer" /\ e.reply = "device"
        /\ e.op = f.op /\ e.tab = f.tab /\ e.chain = f.chain
    BY <1>1, <2>3, <2>4, Reply
  <2>8. n \in 0 .. Len(codes') /\ n \in Nat /\ Len(codes) <= Len(codes')
    BY <1>1, <2>1, <2>2
  <2>9. /\ g \in FlowRecords /\ g.stage = "answer" /\ g.reply = "device" /\ g.code = n
        /\ g.op = f.op /\ g.tab = f.tab /\ g.chain = f.chain
    BY <2>5, <2>7, <2>8 DEF FlowRecords
  <2>10. f.op = "connect"  BY <1>1, <1>3 DEF HandOutCode, FlowOK
  <2>11. FlowOK(g)'  BY <2>9, <2>10 DEF FlowOK
  <2>12. QED
    BY <1>1, <2>2, <2>6, <2>8, <2>9, <2>11, Moves DEF pageVars
<1>4. QED  BY <1>2, <1>3

\* The rows move, and what the host keeps stays as it is.
LEMMA PageMoves ==
    ASSUME ConnectInv, UNCHANGED <<slots, device, codes, vouched, written, onHost>>,
           row' \in [Tabs -> RowRecords], timers' \subseteq TimerRecords,
           flows' \subseteq FlowRecords,
           \A x \in flows' : FlowOK(x) /\ x.code \in 0 .. Len(codes),
           \A t \in Tabs : /\ row'[t].code # 0 => Watched(t)'
                           /\ row'[t].told # NoSecret => row'[t].told \in vouched \cap written
    PROVE  ConnectInv'
<1>1. ConnectTypeOK'
  BY DEF ConnectInv, ConnectTypeOK, RowRecords, TimerRecords, FlowRecords
<1>2. RowsAreBacked'  BY DEF ConnectInv, RowsAreBacked
<1>3. \A x \in flows' : FlowOK(x)'  BY DEF FlowOK
<1>4. QED  BY <1>1, <1>2, <1>3 DEF ConnectInv

\* What the invariant says of the parts.
LEMMA ConnectParts ==
    ASSUME ConnectInv
    PROVE  /\ row \in [Tabs -> RowRecords] /\ timers \subseteq TimerRecords
           /\ flows \subseteq FlowRecords /\ Gone \notin Tabs
           /\ \A x \in flows : FlowOK(x) /\ x.code \in 0 .. Len(codes)
           /\ device \in 0 .. Len(codes) /\ Len(codes) \in Nat
           /\ \A t \in Tabs : /\ row[t].code # 0 => Watched(t)
                              /\ row[t].told # NoSecret => row[t].told \in vouched \cap written
BY ConnectAssumption
   DEF ConnectInv, ConnectTypeOK, RowRecords, TimerRecords, FlowRecords, RowsAreBacked

\* A code is watched as long as its timer, or a poll of it, passes it on.
LEMMA StaysWatched ==
    ASSUME NEW t, Watched(t), row'[t].code = row[t].code,
           Timer(t, row[t].code) \in timers =>
             \/ Timer(t, row[t].code) \in timers'
             \/ \E g \in flows' : g.op = "poll" /\ g.tab = t /\ g.chain = row[t].code,
           \A f \in flows : f.op = "poll" /\ f.tab = t =>
             \/ Timer(t, f.chain) \in timers'
             \/ \E g \in flows' : g.op = "poll" /\ g.tab = t /\ g.chain = f.chain
    PROVE  Watched(t)'
BY DEF Watched

\* A row asks the host for something.
LEMMA RequestsKeepConnect ==
    ASSUME ConnectInv, NEW t \in Tabs, NEW g \in FlowRecords, FlowOK(g), g.code = 0,
           Requests(t, g)
    PROVE  ConnectInv'
<1>1. /\ row' = [row EXCEPT ![t].busy = TRUE, ![t].told = NoSecret]
      /\ flows' = flows \cup {g} /\ timers' = timers
      /\ UNCHANGED <<slots, device, codes, vouched, written, onHost>>
    BY DEF Requests, keepVars, worldVars
<1>2. NoSecret \in Secrets  BY DEF NoSecret, Secret, Secrets
<1>3. /\ row' \in [Tabs -> RowRecords]
      /\ \A u \in Tabs : row'[u].code = row[u].code
                         /\ row'[u].told \in {row[u].told, NoSecret}
    BY <1>1, <1>2, ConnectParts DEF RowRecords
<1>4. \A u \in Tabs : Watched(u) /\ row'[u].code = row[u].code => Watched(u)'
    BY <1>1, StaysWatched
<1>5. \A u \in Tabs : /\ row'[u].code # 0 => Watched(u)'
                      /\ row'[u].told # NoSecret => row'[u].told \in vouched \cap written
    BY <1>3, <1>4, ConnectParts
<1>6. flows' \subseteq FlowRecords /\ \A x \in flows' : FlowOK(x) /\ x.code \in 0 .. Len(codes)
    BY <1>1, ConnectParts
<1>7. QED  BY <1>1, <1>3, <1>5, <1>6, ConnectParts, PageMoves

\* The requests of a row.
LEMMA PressesKeepConnect ==
    ASSUME ConnectInv, NEW t \in Tabs,
           PressConnect(t) \/ PressDisconnect(t) \/ \E h \in {"good", "dead"} : SaveKey(t, h)
    PROVE  ConnectInv'
<1>1. NoSecret \in Secrets  BY DEF NoSecret, Secret, Secrets
<1>2. CASE PressConnect(t)
  <2>1. PICK g : g = NewFlow(t, "connect", "find", NoSecret, 0, 0)  OBVIOUS
  <2>2. g \in FlowRecords /\ g.op = "connect" /\ g.stage = "find" /\ g.code = 0
    BY <1>1, <2>1 DEF NewFlow, FlowRecords
  <2>3. FlowOK(g)  BY <2>2 DEF FlowOK
  <2>4. QED  BY <1>2, <2>1, <2>2, <2>3, RequestsKeepConnect DEF PressConnect
<1>3. CASE PressDisconnect(t)
  <2>1. PICK g : g = NewFlow(t, "clear", "write", NoSecret, 0, 0)  OBVIOUS
  <2>2. /\ g \in FlowRecords /\ g.op = "clear" /\ g.stage = "write" /\ g.code = 0
        /\ g.secret = NoSecret
    BY <1>1, <2>1 DEF NewFlow, FlowRecords
  <2>3. FlowOK(g)  BY <2>2 DEF FlowOK
  <2>4. QED  BY <1>3, <2>1, <2>2, <2>3, RequestsKeepConnect DEF PressDisconnect
<1>4. ASSUME NEW h \in {"good", "dead"}, SaveKey(t, h)  PROVE ConnectInv'
  <2>1. PICK g : g = NewFlow(t, "save", "check", Secret("key", "form", h), 0, 0)  OBVIOUS
  <2>2. /\ Secret("key", "form", h) \in Secrets
        /\ Secret("key", "form", h).kind = "key"
    BY DEF Secret, Secrets
  <2>3. /\ g \in FlowRecords /\ g.op = "save" /\ g.stage = "check" /\ g.code = 0
        /\ g.secret.kind = "key"
    BY <2>1, <2>2 DEF NewFlow, FlowRecords
  <2>4. FlowOK(g)  BY <2>3 DEF FlowOK
  <2>5. QED  BY <1>4, <2>1, <2>3, <2>4, RequestsKeepConnect DEF SaveKey
<1>5. QED  BY <1>2, <1>3, <1>4

\* The timer a row names is its own.
LEMMA OthersStayArmed ==
    ASSUME NEW t, NEW u, u # t, NEW c, NEW d, Timer(u, c) \in timers
    PROVE  Timer(u, c) \in timers \ {Timer(t, d)}
BY DEF Timer

\* What the effect on `connected` does to a row.
LEMMA Seeing ==
    ASSUME NEW t, NEW r \in RowRecords, NEW has, NEW q, q = Sees(t, r, has), has \in BOOLEAN
    PROVE  /\ q \in RowRecords /\ q.told = r.told
           /\ has /\ ~r.sees => q.code = 0
           /\ ~(has /\ ~r.sees) => q.code = r.code
<1>1. CASE has /\ ~r.sees
  <2>1. q = [r EXCEPT !.sees = TRUE, !.code = 0, !.ref = 0]
    BY <1>1 DEF Sees
  <2>2. q \in [code : {0}, busy : BOOLEAN, manual : BOOLEAN, told : {r.told},
               sees : BOOLEAN, ref : {0}]
    BY <2>1 DEF RowRecords
  <2>3. q \in RowRecords /\ q.told = r.told /\ q.code = 0
    BY <2>2 DEF RowRecords
  <2>4. QED  BY <1>1, <2>3
<1>2. CASE ~(has /\ ~r.sees)
  <2>1. q = [r EXCEPT !.sees = has]
    BY <1>2 DEF Sees
  <2>2. q \in RowRecords /\ q.told = r.told /\ q.code = r.code
    BY <2>1 DEF RowRecords
  <2>3. QED  BY <1>2, <2>2
<1>3. QED  BY <1>1, <1>2

\* A row by itself: one that is left, cancelled, typed into, or hears of the config.
LEMMA RowsKeepConnect ==
    ASSUME ConnectInv, NEW t \in Tabs,
           EnterByHand(t) \/ PressCancel(t) \/ LeavePage(t) \/ HearConfig(t)
    PROVE  ConnectInv'
<1>1. UNCHANGED <<slots, device, codes, vouched, written, onHost>>
    BY DEF EnterByHand, PressCancel, LeavePage, HearConfig, keepVars, worldVars
<1>2. PICK r : /\ r \in RowRecords /\ row' = [row EXCEPT ![t] = r]
               /\ r.told \in {row[t].told, NoSecret}
               /\ r.code = 0 \/ (r.code = row[t].code /\ timers' = timers /\ flows' = flows)
  <2>0. row[t] \in RowRecords  BY ConnectParts
  <2>1. CASE EnterByHand(t)
    <3>1. PICK r : r = [row[t] EXCEPT !.manual = TRUE]  OBVIOUS
    <3>2. r \in RowRecords /\ r.told = row[t].told /\ r.code = row[t].code
      BY <2>0, <3>1 DEF RowRecords
    <3>3. row' = [row EXCEPT ![t] = r] /\ timers' = timers /\ flows' = flows
      BY <2>1, <3>1 DEF EnterByHand
    <3>4. QED  BY <3>2, <3>3
  <2>2. CASE PressCancel(t)
    <3>1. PICK r : r = [row[t] EXCEPT !.code = 0, !.ref = 0]  OBVIOUS
    <3>2. r \in RowRecords /\ r.told = row[t].told /\ r.code = 0
      BY <2>0, <3>1 DEF RowRecords
    <3>3. row' = [row EXCEPT ![t] = r]
      BY <2>2, <3>1 DEF PressCancel
    <3>4. QED  BY <3>2, <3>3
  <2>3. CASE LeavePage(t)
    <3>1. PICK r : r = [EmptyRow EXCEPT !.sees = row[t].sees]  OBVIOUS
    <3>2. NoSecret \in Secrets  BY DEF NoSecret, Secret, Secrets
    <3>3. r \in RowRecords /\ r.told = NoSecret /\ r.code = 0
      BY <2>0, <3>1, <3>2 DEF RowRecords, EmptyRow
    <3>4. row' = [row EXCEPT ![t] = r]
      BY <2>3, <3>1 DEF LeavePage
    <3>5. QED  BY <3>3, <3>4
  <2>4. CASE HearConfig(t)
    <3>1. PICK has : has = Connected(slots) /\ has \in BOOLEAN  BY DEF Connected
    <3>2. PICK r : r = Sees(t, row[t], has)  OBVIOUS
    <3>3. /\ r \in RowRecords /\ r.told = row[t].told
          /\ has /\ ~row[t].sees => r.code = 0
          /\ ~(has /\ ~row[t].sees) => r.code = row[t].code
      BY <2>0, <3>1, <3>2, Seeing
    <3>4. row' = [row EXCEPT ![t] = r] /\ flows' = flows
      BY <2>4, <3>1, <3>2 DEF HearConfig
    <3>5. ~(has /\ ~row[t].sees) => timers' = timers
      BY <2>4, <3>1 DEF HearConfig, StopsOnSeeing
    <3>6. QED  BY <3>3, <3>4, <3>5
  <2>5. QED  BY <2>1, <2>2, <2>3, <2>4
<1>3. /\ flows' \subseteq FlowRecords
      /\ \A x \in flows' : FlowOK(x) /\ x.code \in 0 .. Len(codes)
      /\ \A f \in flows : f.tab # t => f \in flows'
  <2>1. CASE LeavePage(t)
    <3>1. flows' = {IF f.tab = t THEN [f EXCEPT !.tab = Gone] ELSE f : f \in flows}
      BY <2>1 DEF LeavePage
    <3>2. \A f \in flows : f.tab # t => f \in flows'  BY <3>1
    <3>3. ASSUME NEW x \in flows'
          PROVE  x \in FlowRecords /\ FlowOK(x) /\ x.code \in 0 .. Len(codes)
      <4>1. PICK f \in flows : x = IF f.tab = t THEN [f EXCEPT !.tab = Gone] ELSE f
        BY <3>1
      <4>2. f \in FlowRecords /\ FlowOK(f) /\ f.code \in 0 .. Len(codes)  BY ConnectParts
      <4>3. /\ x \in FlowRecords /\ x.op = f.op /\ x.stage = f.stage /\ x.reply = f.reply
            /\ x.secret = f.secret /\ x.code = f.code
        BY <4>1, <4>2 DEF FlowRecords
      <4>4. QED  BY <4>2, <4>3 DEF FlowOK
    <3>4. QED  BY <3>2, <3>3
  <2>2. CASE flows' = flows  BY <2>2, ConnectParts
  <2>3. QED  BY <2>1, <2>2 DEF EnterByHand, PressCancel, HearConfig
<1>4. /\ timers' \subseteq TimerRecords
      /\ \A u, c : u # t /\ Timer(u, c) \in timers => Timer(u, c) \in timers'
  <2>1. CASE LeavePage(t)
    <3>1. timers' = {IF s.tab = t THEN Timer(Gone, s.code) ELSE s : s \in Unarmed(t)}
      BY <2>1 DEF LeavePage
    <3>2. timers' \subseteq TimerRecords
      BY <3>1, ConnectParts DEF TimerRecords, Timer, Unarmed
    <3>3. ASSUME NEW u, NEW c, u # t, Timer(u, c) \in timers  PROVE Timer(u, c) \in timers'
      <4>1. Timer(u, c) \in Unarmed(t)  BY <3>3, OthersStayArmed DEF Unarmed
      <4>2. Timer(u, c).tab # t  BY <3>3 DEF Timer
      <4>3. QED  BY <3>1, <4>1, <4>2
    <3>4. QED  BY <3>2, <3>3
  <2>2. CASE timers' \in {timers, Unarmed(t)}
    <3>1. timers' \subseteq TimerRecords  BY <2>2, ConnectParts DEF Unarmed
    <3>2. QED  BY <2>2, <3>1, OthersStayArmed DEF Unarmed
  <2>3. QED
    BY <2>1, <2>2 DEF EnterByHand, PressCancel, HearConfig, StopsOnSeeing
<1>5. row' \in [Tabs -> RowRecords] /\ \A u \in Tabs : row'[u] = IF u = t THEN r ELSE row[u]
    BY <1>2, ConnectParts
<1>6. ASSUME NEW u \in Tabs
      PROVE  /\ row'[u].code # 0 => Watched(u)'
             /\ row'[u].told # NoSecret => row'[u].told \in vouched \cap written
  <2>1. row'[u].told \in {row[u].told, NoSecret}  BY <1>2, <1>5
  <2>2. ASSUME row'[u].code # 0  PROVE Watched(u)'
    <3>1. CASE u = t
      <4>1. row'[t].code = row[t].code /\ timers' = timers /\ flows' = flows
        BY <1>2, <1>5, <2>2, <3>1
      <4>2. QED  BY <2>2, <3>1, <4>1, StaysWatched, ConnectParts
    <3>2. CASE u # t
      <4>1. row'[u] = row[u]  BY <1>5, <3>2
      <4>2. Watched(u)  BY <2>2, <4>1, ConnectParts
      <4>3. QED  BY <1>3, <1>4, <3>2, <4>1, <4>2, StaysWatched
    <3>3. QED  BY <3>1, <3>2
  <2>3. QED  BY <2>1, <2>2, ConnectParts
<1>7. QED  BY <1>1, <1>3, <1>4, <1>5, <1>6, PageMoves

\* What an answer makes of a row.
LEMMA Hearing ==
    ASSUME ConnectInv, NEW f \in flows, f.stage = "answer", f.tab \in Tabs
    PROVE  LET r == row[f.tab]
               h == Heard(f.tab, f)
               hears == f.has /\ ~r.sees /\ f.reply \in {"connected", "disconnected", "rejected"}
           IN  /\ h \in RowRecords
               /\ h.told \in {r.told, NoSecret} \/ h.told \in vouched \cap written
               /\ \/ h.code = 0
                  \/ f.reply = "device" /\ h.code = f.code
                  \/ h.code = r.code /\ ~hears /\ (f.op = "poll" => Rearms(f))
<1> DEFINE t == f.tab
           r == row[t]
           idle == [r EXCEPT !.busy = (f.op = "poll" /\ @)]
<1>1. /\ f \in FlowRecords /\ FlowOK(f) /\ r \in RowRecords
    BY ConnectParts
<1>2. PICK q : q = idle  OBVIOUS
<1>3. q \in RowRecords /\ q.code = r.code /\ q.told = r.told
  <2>1. (f.op = "poll" /\ r.busy) \in BOOLEAN  OBVIOUS
  <2>2. q \in [code : {r.code}, busy : BOOLEAN, manual : BOOLEAN, told : {r.told},
               sees : {r.sees}, ref : {r.ref}]
    BY <1>1, <1>2, <2>1 DEF RowRecords
  <2>3. QED  BY <1>1, <2>2 DEF RowRecords
<1>4. NoSecret \in Secrets  BY DEF NoSecret, Secret, Secrets
<1>5. f.has \in BOOLEAN /\ f.secret \in Secrets /\ f.code \in Nat /\ f.chain \in Nat
    BY <1>1 DEF FlowRecords
<1>6. q.sees = r.sees
    BY <1>1, <1>2 DEF RowRecords
<1>7. PICK h : h = Heard(t, f)  OBVIOUS
<1> HIDE DEF r, idle
<1>8. ASSUME NEW p \in RowRecords, h = Sees(t, p, f.has), p.sees = r.sees,
             p.told \in {r.told, NoSecret} \/ p.told \in vouched \cap written,
             p.code = 0 \/ (p.code = r.code /\ f.op # "poll"),
             f.reply \in {"connected", "disconnected", "rejected"}
      PROVE  /\ h \in RowRecords
             /\ h.told \in {r.told, NoSecret} \/ h.told \in vouched \cap written
             /\ h.code = 0 \/ (h.code = r.code /\ ~(f.has /\ ~r.sees) /\ f.op # "poll")
  BY <1>5, <1>8, Seeing
<1>9. QED
  <2>1. CASE f.reply = "connected"
    <3>1. PICK p : p = [q EXCEPT !.told = f.secret, !.manual = (f.op = "poll" /\ @),
                                 !.code = IF f.op = "poll" THEN 0 ELSE @]
      OBVIOUS
    <3>2. /\ p \in RowRecords /\ p.sees = q.sees /\ p.told = f.secret
          /\ p.code = IF f.op = "poll" THEN 0 ELSE q.code
      <4>1. (f.op = "poll" /\ q.manual) \in BOOLEAN  OBVIOUS
      <4>2. p.sees = q.sees /\ p.told = f.secret
            /\ p.code = IF f.op = "poll" THEN 0 ELSE q.code
        BY <1>3, <3>1 DEF RowRecords
      <4>3. p \in RowRecords
        BY <1>3, <1>5, <3>1, <4>1 DEF RowRecords
      <4>4. QED  BY <4>2, <4>3
    <3>3. h = Sees(t, p, f.has)
      BY <1>2, <1>7, <2>1, <3>1 DEF Heard, Rearms, idle, r
    <3>4. p.told \in vouched \cap written
      BY <1>1, <2>1, <3>2 DEF FlowOK
    <3>5. QED  BY <1>3, <1>6, <1>7, <1>8, <2>1, <3>2, <3>3, <3>4 DEF r
  <2>2. CASE f.reply = "disconnected"
    <3>1. PICK p : p = [q EXCEPT !.manual = FALSE]  OBVIOUS
    <3>2. p \in RowRecords /\ p.sees = q.sees /\ p.told = q.told /\ p.code = q.code
      BY <1>3, <3>1 DEF RowRecords
    <3>3. h = Sees(t, p, f.has)
      BY <1>2, <1>7, <2>2, <3>1 DEF Heard, Rearms, idle, r
    <3>4. f.op # "poll"  BY <1>1, <2>2 DEF FlowOK
    <3>5. QED  BY <1>3, <1>6, <1>7, <1>8, <2>2, <3>2, <3>3, <3>4 DEF r
  <2>3. CASE f.reply = "rejected"
    <3>1. h = Sees(t, q, f.has)  BY <1>2, <1>7, <2>3 DEF Heard, Rearms, idle, r
    <3>2. f.op # "poll"  BY <1>1, <2>3 DEF FlowOK
    <3>3. QED  BY <1>3, <1>6, <1>7, <1>8, <2>3, <3>1, <3>2 DEF r
  <2>4. CASE f.reply = "device"
    <3>1. h = [q EXCEPT !.code = f.code, !.ref = f.code]
      BY <1>2, <1>7, <2>4 DEF Heard, Rearms, idle, r
    <3>2. h \in RowRecords /\ h.told = q.told /\ h.code = f.code
      BY <1>3, <1>5, <3>1 DEF RowRecords
    <3>3. QED  BY <1>3, <1>7, <2>4, <3>2 DEF r
  <2>5. CASE f.reply = "manual"
    <3>1. h = [q EXCEPT !.manual = TRUE]
      BY <1>2, <1>7, <2>5 DEF Heard, Rearms, idle, r
    <3>2. h \in RowRecords /\ h.told = q.told /\ h.code = q.code
      BY <1>3, <3>1 DEF RowRecords
    <3>3. f.op # "poll"  BY <1>1, <2>5 DEF FlowOK
    <3>4. QED  BY <1>3, <1>7, <2>5, <3>2, <3>3 DEF r
  <2>6. CASE f.reply = "error"
    <3>1. h = [q EXCEPT !.code = 0, !.told = NoSecret]
      BY <1>2, <1>7, <2>6 DEF Heard, Rearms, idle, r
    <3>2. h \in RowRecords /\ h.told = NoSecret /\ h.code = 0
      BY <1>3, <1>4, <3>1 DEF RowRecords
    <3>3. QED  BY <1>7, <2>6, <3>2 DEF r
  <2>7. CASE Rearms(f)
    <3>1. f.reply \in {"pending", "failed"}  BY <2>7 DEF Rearms
    <3>2. h = [q EXCEPT !.ref = f.chain]
      BY <1>2, <1>7, <2>7, <3>1 DEF Heard, Rearms, idle, r
    <3>3. h \in RowRecords /\ h.told = q.told /\ h.code = q.code
      BY <1>3, <1>5, <3>2 DEF RowRecords
    <3>4. QED  BY <1>3, <1>7, <2>7, <3>1, <3>3 DEF r
  <2>8. CASE f.reply = "failed" /\ ~Rearms(f)
    <3>1. h = [q EXCEPT !.told = NoSecret]
      BY <1>2, <1>7, <2>8 DEF Heard, Rearms, idle, r
    <3>2. h \in RowRecords /\ h.told = NoSecret /\ h.code = q.code
      BY <1>3, <1>4, <3>1 DEF RowRecords
    <3>3. f.op # "poll"  BY <2>8 DEF Rearms
    <3>4. QED  BY <1>3, <1>7, <2>8, <3>2, <3>3 DEF r
  <2>9. f.reply = "pending" => Rearms(f)
    BY <1>1 DEF FlowOK, Rearms
  <2>10. f.reply \in {"manual", "rejected", "error", "failed", "device",
                      "pending", "connected", "disconnected"}
    BY <1>1 DEF FlowRecords, FlowOK
  <2>11. QED  BY <2>1, <2>2, <2>3, <2>4, <2>5, <2>6, <2>7, <2>8, <2>9, <2>10

\* Whoever hears an answer.
LEMMA AnswersKeepConnect ==
    ASSUME ConnectInv, NEW f \in flows, Answer(f) \/ AnswerNobody(f)
    PROVE  ConnectInv'
<1>1. /\ UNCHANGED <<slots, device, codes, vouched, written, onHost>>
      /\ flows' = flows \ {f} /\ f.stage = "answer"
      /\ f \in FlowRecords /\ FlowOK(f)
      /\ \A x \in flows' : x \in FlowRecords /\ FlowOK(x) /\ x.code \in 0 .. Len(codes)
    BY ConnectParts DEF Answer, AnswerNobody, keepVars, worldVars
<1>2. \A u, c : [tab |-> u, code |-> c] = Timer(u, c)  BY DEF Timer
<1>3. CASE Answer(f)
  <2> DEFINE t == f.tab
             notices == f.has /\ ~row[t].sees /\ f.reply \in {"connected", "disconnected", "rejected"}
  <2>1. t \in Tabs /\ row' = [row EXCEPT ![t] = Heard(t, f)]  BY <1>3 DEF Answer
  <2>2. PICK h : h = Heard(t, f)  OBVIOUS
  <2>3. /\ h \in RowRecords
        /\ h.told \in {row[t].told, NoSecret} \/ h.told \in vouched \cap written
        /\ \/ h.code = 0
           \/ f.reply = "device" /\ h.code = f.code
           \/ h.code = row[t].code /\ ~notices /\ (f.op = "poll" => Rearms(f))
    BY <1>1, <2>1, <2>2, Hearing
  <2>4. /\ timers' \subseteq TimerRecords
        /\ \A u, c : u # t /\ Timer(u, c) \in timers => Timer(u, c) \in timers'
        /\ ~notices => timers \subseteq timers'
        /\ f.reply = "device" => Timer(t, f.code) \in timers'
        /\ Rearms(f) => Timer(t, f.chain) \in timers'
    <3>1. f.code \in Nat /\ f.chain \in Nat  BY <1>1 DEF FlowRecords
    <3>2. Timer(t, f.code) \in TimerRecords /\ Timer(t, f.chain) \in TimerRecords
      BY <2>1, <3>1 DEF Timer, TimerRecords
    <3>3. CASE f.reply \in {"connected", "disconnected", "rejected"}
      <4>1. timers' = StopsOnSeeing(t, f.has)
        BY <1>3, <3>3 DEF Answer, Rearms
      <4>2. timers' \in {timers, Unarmed(t)} /\ (~notices => timers' = timers)
        BY <3>3, <4>1 DEF StopsOnSeeing
      <4>3. \A u, c : u # t /\ Timer(u, c) \in timers => Timer(u, c) \in timers'
        BY <4>2, OthersStayArmed DEF Unarmed
      <4>4. timers' \subseteq TimerRecords  BY <4>2, ConnectParts DEF Unarmed
      <4>5. QED  BY <3>3, <4>2, <4>3, <4>4 DEF Rearms
    <3>4. CASE f.reply = "device"
      <4>1. timers' = timers \cup {Timer(t, f.code)}
        BY <1>3, <3>4 DEF Answer, Rearms
      <4>2. QED  BY <3>2, <3>4, <4>1, ConnectParts DEF Rearms
    <3>5. CASE Rearms(f)
      <4>1. timers' = timers \cup {Timer(t, f.chain)}
        BY <1>3, <3>5 DEF Answer, Rearms
      <4>2. QED  BY <3>2, <3>5, <4>1, ConnectParts DEF Rearms
    <3>6. CASE ~Rearms(f) /\ f.reply \notin {"connected", "disconnected", "rejected", "device"}
      <4>1. timers' = timers
        BY <1>3, <3>6 DEF Answer
      <4>2. QED  BY <3>6, <4>1, ConnectParts
    <3>7. QED  BY <3>3, <3>4, <3>5, <3>6
  <2>5. row' \in [Tabs -> RowRecords] /\ \A u \in Tabs : row'[u] = IF u = t THEN h ELSE row[u]
    BY <2>1, <2>2, <2>3, ConnectParts
  <2>6. \A u \in Tabs : row'[u].told # NoSecret => row'[u].told \in vouched \cap written
    BY <2>1, <2>3, <2>5, ConnectParts
  <2> HIDE DEF notices
  <2>7. ASSUME NEW u \in Tabs, row'[u].code # 0  PROVE Watched(u)'
    <3>1. CASE u = t /\ f.reply = "device" /\ h.code = f.code
      BY <2>4, <2>5, <3>1 DEF Watched
    <3>2. CASE u = t /\ h.code = row[t].code /\ ~notices /\ (f.op = "poll" => Rearms(f))
      <4>1. row'[u].code = row[u].code  BY <2>5, <3>2
      <4>2. Watched(u)  BY <2>7, <4>1, ConnectParts
      <4>3. timers \subseteq timers'  BY <2>4, <3>2
      <4>4. ASSUME NEW x \in flows, x.op = "poll", x.tab = u
            PROVE  \/ Timer(u, x.chain) \in timers'
                   \/ \E g \in flows' : g.op = "poll" /\ g.tab = u /\ g.chain = x.chain
        <5>1. CASE x = f  BY <2>4, <3>2, <4>4, <5>1
        <5>2. CASE x # f  BY <1>1, <4>4, <5>2
        <5>3. QED  BY <5>1, <5>2
      <4>5. QED  BY <4>1, <4>2, <4>3, <4>4, StaysWatched
    <3>3. CASE u # t
      <4>1. row'[u] = row[u]  BY <2>5, <3>3
      <4>2. Watched(u)  BY <2>7, <4>1, ConnectParts
      <4>3. \A x \in flows : x.tab = u => x \in flows'  BY <1>1, <3>3
      <4>4. QED  BY <2>4, <3>3, <4>1, <4>2, <4>3, StaysWatched
    <3>4. QED  BY <2>3, <2>5, <2>7, <3>1, <3>2, <3>3
  <2>8. QED  BY <1>1, <2>4, <2>5, <2>6, <2>7, PageMoves
<1>4. CASE AnswerNobody(f)
  <2>1. f.tab = Gone /\ row' = row  BY <1>4 DEF AnswerNobody
  <2>2. timers \subseteq timers' /\ timers' \subseteq TimerRecords
    <3>1. f.code \in Nat /\ f.chain \in Nat  BY <1>1 DEF FlowRecords
    <3>2. Timer(Gone, f.code) \in TimerRecords /\ Timer(Gone, f.chain) \in TimerRecords
      BY <3>1 DEF Timer, TimerRecords
    <3>3. timers' \in {timers \cup {Timer(Gone, f.chain)}, timers \cup {Timer(Gone, f.code)}, timers}
      BY <1>4 DEF AnswerNobody, Rearms
    <3>4. QED  BY <3>2, <3>3, ConnectParts
  <2>3. ASSUME NEW u \in Tabs, row'[u].code # 0  PROVE Watched(u)'
    <3>1. \A x \in flows : x.tab = u => x \in flows'  BY <1>1, <2>1, ConnectParts
    <3>2. Watched(u)  BY <2>1, <2>3, ConnectParts
    <3>3. QED  BY <2>1, <2>2, <3>1, <3>2, StaysWatched
  <2>4. QED  BY <1>1, <2>1, <2>2, <2>3, ConnectParts, PageMoves
<1>5. QED  BY <1>3, <1>4

\* A timer's poll carries the code on.
LEMMA PollsKeepConnect ==
    ASSUME ConnectInv, NEW s \in timers, PollFires(s)
    PROVE  ConnectInv'
<1>1. /\ s \in TimerRecords /\ device \in 0 .. Len(codes) /\ Len(codes) \in Nat
      /\ UNCHANGED <<slots, device, codes, vouched, written, onHost, row>>
      /\ timers' = timers \ {s}
    BY ConnectParts DEF PollFires, keepVars, worldVars
<1>2. NoSecret \in Secrets  BY DEF NoSecret, Secret, Secrets
<1>3. PICK f : f = NewFlow(s.tab, "poll", "ask", NoSecret, device, s.code)  OBVIOUS
<1>4. /\ f \in FlowRecords /\ f.op = "poll" /\ f.stage = "ask" /\ f.code = device
      /\ f.tab = s.tab /\ f.chain = s.code
    BY <1>1, <1>2, <1>3 DEF NewFlow, FlowRecords, TimerRecords
<1>5. PICK h : h = Connected(slots) /\ h \in BOOLEAN  BY DEF Connected
<1>6. PICK e : e = [f EXCEPT !.stage = "answer", !.reply = "error", !.has = h]  OBVIOUS
<1>7. /\ e \in FlowRecords /\ e.op = "poll" /\ e.stage = "answer" /\ e.code = device
      /\ e.tab = s.tab /\ e.chain = s.code /\ e.reply = "error"
    BY <1>4, <1>5, <1>6 DEF FlowRecords
<1>8. PICK g : g = IF device # 0 THEN f ELSE e  OBVIOUS
<1>9. flows' = flows \cup {g}
    BY <1>3, <1>5, <1>6, <1>8 DEF PollFires
<1>10. /\ g \in FlowRecords /\ FlowOK(g) /\ g.code \in 0 .. Len(codes)
       /\ g.op = "poll" /\ g.tab = s.tab /\ g.chain = s.code
    BY <1>1, <1>4, <1>7, <1>8 DEF FlowOK
<1>11. ASSUME NEW u \in Tabs, row'[u].code # 0  PROVE Watched(u)'
  <2>1. Watched(u)  BY <1>1, <1>11, ConnectParts
  <2>2. Timer(u, row[u].code) \in timers =>
          \/ Timer(u, row[u].code) \in timers'
          \/ \E x \in flows' : x.op = "poll" /\ x.tab = u /\ x.chain = row[u].code
    <3>1. CASE Timer(u, row[u].code) = s
      <4>1. s.tab = u /\ s.code = row[u].code  BY <3>1 DEF Timer
      <4>2. QED  BY <1>9, <1>10, <4>1
    <3>2. CASE Timer(u, row[u].code) # s  BY <1>1, <3>2
    <3>3. QED  BY <3>1, <3>2
  <2>3. row'[u].code = row[u].code /\ flows \subseteq flows'  BY <1>1, <1>9
  <2>4. QED  BY <2>1, <2>2, <2>3, StaysWatched
<1>12. QED  BY <1>1, <1>9, <1>10, <1>11, ConnectParts, PageMoves

\* The host starts again: every request has failed, and every poll is tried again.
LEMMA RestartsKeepConnect == ConnectInv /\ HostComesBack => ConnectInv'
<1> SUFFICES ASSUME ConnectInv, HostComesBack  PROVE ConnectInv'
    OBVIOUS
<1>1. /\ device' = 0 /\ flows' = Failing
      /\ UNCHANGED << slots, vouched, written, worldVars, row, timers >>
    BY DEF HostComesBack
<1>2. ASSUME NEW f \in flows, NEW g, g = Replied(f, "failed", FALSE)
      PROVE  /\ g \in FlowRecords /\ FlowOK(g)' /\ g.code \in 0 .. Len(codes)
             /\ g.op = f.op /\ g.tab = f.tab /\ g.chain = f.chain
  <2>1. f \in FlowRecords /\ f.code \in 0 .. Len(codes)  BY ConnectParts
  <2>2. PICK h : h = FALSE  OBVIOUS
  <2>3. g = Replied(f, "failed", h) /\ h \in BOOLEAN  BY <1>2, <2>2
  <2>4. /\ g \in FlowRecords /\ g.stage = "answer" /\ g.reply = "failed" /\ g.code = f.code
        /\ g.op = f.op /\ g.tab = f.tab /\ g.chain = f.chain
    BY <2>1, <2>3, Reply
  <2>5. FlowOK(g)'  BY <2>4 DEF FlowOK
  <2>6. QED  BY <2>1, <2>4, <2>5
<1>3. /\ \A g \in flows' : g \in FlowRecords /\ FlowOK(g)' /\ g.code \in 0 .. Len(codes)
      /\ \A f \in flows : \E g \in flows' : g.op = f.op /\ g.tab = f.tab /\ g.chain = f.chain
    BY <1>1, <1>2 DEF Failing
<1>4. ConnectTypeOK'
    BY <1>1, <1>3 DEF ConnectInv, ConnectTypeOK, FlowRecords, worldVars
<1>5. {slots'.key, slots'.login} \ {NoSecret} \subseteq vouched'
    BY <1>1 DEF ConnectInv, RowsAreBacked
<1>6. QED  BY <1>1, <1>3, <1>4, <1>5, HostMoves

\* The world around it moves.
LEMMA WorldKeepsConnect ==
    ASSUME ConnectInv,
           \/ \E c \in DOMAIN codes, to \in {"approved", "over"} : CodeMoves(c, to)
           \/ \E kind \in {"key", "login"}, h \in {"none", "good", "dead"} :
                MachineMoves(kind, h)
    PROVE  ConnectInv'
<1>1. UNCHANGED <<keepVars, row, timers, flows>>
    BY DEF CodeMoves, MachineMoves, pageVars
<1>2. /\ codes' \in Seq({"pending", "approved", "over"}) /\ Len(codes') = Len(codes)
      /\ onHost' \in [key : {"none", "good", "dead"}, login : {"none", "expired", "good", "dead"}]
  <2>0. /\ codes \in Seq({"pending", "approved", "over"})
        /\ onHost \in [key : {"none", "good", "dead"}, login : {"none", "expired", "good", "dead"}]
    BY DEF ConnectInv, ConnectTypeOK
  <2>1. ASSUME NEW c \in DOMAIN codes, NEW to \in {"approved", "over"}, CodeMoves(c, to)
        PROVE  /\ codes' \in Seq({"pending", "approved", "over"}) /\ Len(codes') = Len(codes)
               /\ onHost' = onHost
    <3>1. codes' = [codes EXCEPT ![c] = to] /\ onHost' = onHost  BY <2>1 DEF CodeMoves
    <3>2. c \in 1 .. Len(codes)  BY <2>0
    <3>3. QED  BY <2>0, <3>1, <3>2, ExceptSeq
  <2>2. ASSUME NEW kind \in {"key", "login"}, NEW h \in {"none", "good", "dead"},
               MachineMoves(kind, h)
        PROVE  /\ codes' = codes
               /\ onHost' \in [key : {"none", "good", "dead"},
                               login : {"none", "expired", "good", "dead"}]
    <3>1. codes' = codes /\ onHost' = [onHost EXCEPT ![kind] = h]  BY <2>2 DEF MachineMoves
    <3>2. CASE kind = "key"
      <4>1. onHost' = [onHost EXCEPT !.key = h]  BY <3>1, <3>2
      <4>2. QED  BY <2>0, <3>1, <4>1
    <3>3. CASE kind = "login"
      <4>1. onHost' = [onHost EXCEPT !.login = h]  BY <3>1, <3>3
      <4>2. QED  BY <2>0, <3>1, <4>1
    <3>4. QED  BY <3>2, <3>3
  <2>3. QED  BY <2>0, <2>1, <2>2
<1>3. ConnectTypeOK'
    BY <1>1, <1>2 DEF ConnectInv, ConnectTypeOK, keepVars
<1>4. {slots'.key, slots'.login} \ {NoSecret} \subseteq vouched'
    BY <1>1 DEF ConnectInv, RowsAreBacked, keepVars
<1>5. \A f \in flows' : FlowOK(f)'
    BY <1>1, StaysOK DEF ConnectInv, keepVars
<1>6. QED  BY <1>1, <1>3, <1>4, <1>5, HostMoves DEF keepVars

\* Every step keeps the invariant of the rows and of what the host wrote.
LEMMA NextConnect == ConnectInv /\ [ConnectNext]_connectVars => ConnectInv'
<1> SUFFICES ASSUME ConnectInv, [ConnectNext]_connectVars  PROVE ConnectInv'
    OBVIOUS
<1>1. ASSUME NEW t \in Tabs,
             \/ PressConnect(t) \/ PressDisconnect(t) \/ EnterByHand(t) \/ PressCancel(t)
             \/ LeavePage(t) \/ HearConfig(t)
             \/ \E h \in {"good", "dead"} : SaveKey(t, h)
      PROVE  ConnectInv'
    BY <1>1, PressesKeepConnect, RowsKeepConnect
<1>2. ASSUME NEW s \in timers, PollFires(s)  PROVE ConnectInv'
    BY <1>2, PollsKeepConnect
<1>3. ASSUME NEW f \in flows,
             \/ Discover(f) \/ Check(f) \/ SaveCredential(f) \/ SaveFails(f)
             \/ HandOutCode(f) \/ NoCodeToHandOut(f) \/ AskGithub(f) \/ GithubUnreachable(f)
             \/ Answer(f) \/ AnswerNobody(f)
      PROVE  ConnectInv'
    BY <1>3, HostWorks, WritesKeepConnect, AnswersKeepConnect
<1>4. CASE HostComesBack  BY <1>4, RestartsKeepConnect
<1>5. CASE \/ \E c \in DOMAIN codes, to \in {"approved", "over"} : CodeMoves(c, to)
           \/ \E kind \in {"key", "login"}, h \in {"none", "good", "dead"} :
                MachineMoves(kind, h)
    BY <1>5, WorldKeepsConnect
<1>6. CASE UNCHANGED connectVars
    BY <1>6, ConnectParts, PageMoves DEF connectVars, keepVars, worldVars, pageVars, Watched
<1>7. QED  BY <1>1, <1>2, <1>3, <1>4, <1>5, <1>6 DEF ConnectNext

\* What a row of the connectors page tells its user is backed: a code it shows is
\* still polled for, and a credential it calls connected was accepted and written
\* (ConnectorsSection.tsx pollDevice, credentials.ts).
THEOREM RowsTellTheTruth == ConnectSpec => []RowsAreBacked
<1>1. ConnectInv => RowsAreBacked  BY DEF ConnectInv
<1>2. QED  BY <1>1, InitConnect, NextConnect, PTL DEF ConnectSpec

-----------------------------------------------------------------------------
(* The fence of a lease (LeaseFence), for every budget the schema allows.   *)
(* Two arguments. GrantInv: any deadline the worker goes by was granted at  *)
(* an instant whose grace window the host still waits out, so that when it  *)
(* writes the lease off the deadline is at most a budget less a grace       *)
(* window away. CalmInv: while nothing has gone wrong both ends hold what   *)
(* was granted at the last heartbeat or the one before, and one heartbeat   *)
(* never outlasts a budget.                                                 *)

(* Budgets and deadlines *)

\* What the assumptions say of the constants, one by one.
LEMMA Periods ==
    /\ Heartbeat \in Nat /\ Heartbeat > 0 /\ Sweep \in Nat /\ Sweep > 0
    /\ \A b \in Budgets : /\ b.timeout \in Nat /\ b.grace \in Nat /\ b.grace > 0
                          /\ Heartbeat < b.timeout
BY FenceAssumption, BudgetAssumption

\* The deadlines the host sets lie ahead, and are told from Never and Lost.
LEMMA Ahead ==
    ASSUME ClockInv
    PROVE  /\ FullDeadline \in Int /\ FullDeadline > now
           /\ GraceDeadline \in Int /\ GraceDeadline > now
           /\ now \in Int /\ now > 0
<1>1. /\ now \in Nat /\ now > 0 /\ budget \in Budgets
    BY DEF ClockInv
<1>2. /\ budget.timeout \in Nat /\ budget.timeout > 0
      /\ budget.grace \in Nat /\ budget.grace > 0
    BY <1>1, Periods
<1>3. QED  BY <1>1, <1>2 DEF FullDeadline, GraceDeadline

\* A lease just dispatched is covered from the first instant.
LEMMA InitFence == FenceInit => FenceInv
<1> SUFFICES ASSUME FenceInit PROVE FenceInv  OBVIOUS
<1>1. ClockInv
    BY Periods DEF FenceInit, ClockInv, HostHolds, HostSees, FullDeadline, Never
<1>2. GrantInv
  <2> SUFFICES ASSUME NEW d \in Deadlines PROVE Covered(d, 1)
    BY DEF GrantInv, FenceInit
  <2>1. d = FullDeadline /\ hostDue = FullDeadline /\ graceDue = Never
    BY DEF FenceInit, Deadlines
  <2>2. Outlasts(hostDue, 1) /\ GrantedAt(1, d)
    BY <2>1, Periods DEF FenceInit, FullDeadline, GrantedAt, Outlasts
  <2>3. QED  BY <2>1, <2>2 DEF Covered
<1>3. HostHolds
    BY Periods DEF FenceInit, HostHolds, FullDeadline, Never
<1>4. CalmInv
    BY SMTT(30), <1>3, Periods DEF FenceInit, CalmInv, HostHolds, Executing, HostSees, WorkerSees,
       FullDeadline, Never, BeatHeard
<1>5. QED
    BY <1>1, <1>2, <1>3, <1>4 DEF FenceInv, OverlapInv, OverlapIsBounded

\* Deadlines and instants stay what they are, and a host with a connection waits for
\* no reconnection.
LEMMA ClockKept == ClockInv /\ [FenceNext]_fenceVars => ClockInv'
<1> SUFFICES ASSUME ClockInv, [FenceNext]_fenceVars PROVE ClockInv'  OBVIOUS
<1> USE Periods, Ahead DEF ClockInv, HostHolds, HostSees, WorkerSees, Executing, Renewed,
            Never, Lost, hostFence, workFence
<1>1. CASE HostHearsBeat  BY <1>1 DEF HostHearsBeat
<1>2. CASE HostHearsReport  BY <1>2 DEF HostHearsReport
<1>3. CASE HostLosesSocket  BY <1>3 DEF HostLosesSocket
<1>4. CASE Expire  BY <1>4 DEF Expire
<1>5. CASE HostStops  BY <1>5 DEF HostStops
<1>6. CASE HostBoots  BY <1>6 DEF HostBoots
<1>7. CASE ChangeBudget  BY <1>7 DEF ChangeBudget
<1>8. CASE Beat  BY <1>8 DEF Beat
<1>9. CASE WorkerHears  BY <1>9 DEF WorkerHears, HeldUntil
<1>10. CASE WorkerLosesSocket  BY <1>10 DEF WorkerLosesSocket
<1>11. CASE FenceSelf  BY <1>11 DEF FenceSelf
<1>12. CASE Reconnect  BY SMTT(30), <1>12 DEF Reconnect, Reclaims
<1>13. CASE Stall  BY <1>13 DEF Stall
<1>14. CASE Heal  BY <1>14 DEF Heal
<1>15. CASE Tick  BY <1>15 DEF Tick
<1>16. CASE UNCHANGED fenceVars  BY <1>16 DEF fenceVars
<1>17. QED
    BY <1>1, <1>2, <1>3, <1>4, <1>5, <1>6, <1>7, <1>8, <1>9, <1>10, <1>11, <1>12, <1>13,
       <1>14, <1>15, <1>16 DEF FenceNext, FenceHost, FenceWorker

-----------------------------------------------------------------------------
(* The host outlasts what it granted *)

\* Whatever the host sets its deadlines to lasts from any earlier instant.
LEMMA SetDeadlinesOutlast ==
    ASSUME ClockInv, NEW t \in 1..now
    PROVE  Outlasts(GraceDeadline, t) /\ Outlasts(FullDeadline, t)
<1>1. /\ t \in Nat /\ t <= now /\ now \in Nat /\ budget \in Budgets
      /\ budget.timeout \in Nat /\ budget.grace \in Nat
    BY Periods DEF ClockInv
<1>2. t + budget.grace <= GraceDeadline /\ t + budget.grace <= FullDeadline
    BY <1>1 DEF GraceDeadline, FullDeadline
<1>3. QED  BY <1>1, <1>2 DEF Outlasts

\* So a deadline the worker already has stays covered when the host sets its own
\* again, and with the time.
LEMMA StaysCovered ==
    ASSUME ClockInv, GrantInv, HostHolds,
           hostDue' \in {hostDue, GraceDeadline, FullDeadline},
           graceDue' \in {graceDue, Never, GraceDeadline},
           now' \in {now, now + 1},
           NEW d \in Deadlines
    PROVE  \E t \in 1..now' : Covered(d, t)'
<1>1. PICK t \in 1..now : Covered(d, t)
    BY DEF GrantInv
<1>2. t \in 1..now'
    BY DEF ClockInv
<1>3. Outlasts(hostDue', t) /\ (graceDue' # Never => Outlasts(graceDue', t))
    BY <1>1, SetDeadlinesOutlast DEF Covered
<1>4. GrantedAt(t, d)
    BY <1>1 DEF Covered
<1>5. QED
  <2>1. Covered(d, t)'
    BY <1>3, <1>4 DEF Covered, GrantedAt, Outlasts, Never
  <2>2. QED  BY <1>2, <2>1

\* A deadline granted now is covered by the one the host sets with it.
LEMMA GrantIsCovered ==
    ASSUME ClockInv, NEW d, d = FullDeadline,
           hostDue' = FullDeadline, graceDue' = Never, now' = now
    PROVE  \E t \in 1..now' : Covered(d, t)'
<1>1. now \in 1..now' /\ now \in 1..now
    BY DEF ClockInv
<1>2. GrantedAt(now, d)
    BY Periods, Ahead DEF ClockInv, GrantedAt, FullDeadline
<1>3. Outlasts(hostDue', now)
    BY <1>1, SetDeadlinesOutlast
<1>4. PICK t : t = now
    OBVIOUS
<1>5. Covered(d, t)'
    BY <1>2, <1>3, <1>4 DEF Covered, GrantedAt, Outlasts, Never
<1>6. QED  BY <1>1, <1>4, <1>5

\* The deadlines a step leaves: what was under way before, and what it told.
LEMMA GrantKept == ClockInv /\ GrantInv /\ [FenceNext]_fenceVars => GrantInv'
<1> SUFFICES ASSUME ClockInv, GrantInv, [FenceNext]_fenceVars, HostHolds',
                    NEW d \in Deadlines'
             PROVE  \E t \in 1..now' : Covered(d, t)'
    BY DEF GrantInv
<1> USE DEF hostFence, workFence, HostHolds, HostSees
<1>1. toWorker \in Seq(Int)
    BY DEF ClockInv
<1>2. ASSUME HostHolds, d \in Deadlines, now' \in {now, now + 1},
             hostDue' \in {hostDue, GraceDeadline, FullDeadline},
             graceDue' \in {graceDue, Never, GraceDeadline}
      PROVE  \E t \in 1..now' : Covered(d, t)'
    BY <1>2, StaysCovered
<1>3. CASE HostHearsBeat
  <2>1. /\ HostHolds /\ hostDue' = FullDeadline /\ now' = now /\ graceDue' = Never
        /\ graceDue = Never /\ toWorker' = Append(toWorker, FullDeadline)
    BY <1>3, Ahead DEF HostHearsBeat, Renewed, ClockInv
  <2>2. d \in Deadlines \/ d = FullDeadline
    BY <1>1, <1>3, <2>1, Ahead DEF HostHearsBeat, Deadlines
  <2>3. QED  BY <1>2, <2>1, <2>2, GrantIsCovered
<1>4. CASE HostHearsReport
    BY <1>2, <1>4 DEF HostHearsReport, Renewed, Deadlines
<1>5. CASE HostLosesSocket
  <2>1. HostHolds
    BY <1>5 DEF HostLosesSocket
  <2>2. d \in Deadlines
    BY <1>5 DEF HostLosesSocket, Deadlines
  <2>3. QED  BY <1>2, <1>5, <2>1, <2>2 DEF HostLosesSocket
<1>6. CASE Expire
    BY <1>6 DEF Expire
<1>7. CASE HostStops
    BY <1>2, <1>7 DEF HostStops, Deadlines
<1>8. CASE HostBoots
    BY <1>2, <1>8 DEF HostBoots, Deadlines
<1>9. CASE ChangeBudget \/ Beat \/ Stall \/ Heal \/ Tick \/ UNCHANGED fenceVars
    BY <1>2, <1>9 DEF ChangeBudget, Beat, Stall, Heal, Tick, fenceVars, Deadlines
<1>10. CASE WorkerHears
  <2>1. /\ workDue' \in {Never, Head(toWorker)} /\ toWorker' = Tail(toWorker)
        /\ toWorker # <<>> /\ UNCHANGED <<now, hostDue, graceDue>>
    BY <1>10 DEF WorkerHears, HeldUntil
  <2>2. d \in Deadlines
    BY <1>1, <2>1 DEF Deadlines
  <2>3. QED  BY <1>2, <2>1, <2>2
<1>11. CASE WorkerLosesSocket \/ FenceSelf
    BY <1>2, <1>11 DEF WorkerLosesSocket, FenceSelf, Deadlines
<1>12. CASE Reconnect
  <2>1. /\ HostHolds /\ hostDue' = FullDeadline /\ now' = now /\ graceDue' = Never
        /\ workDue' = workDue /\ toWorker' \in {<<>>, <<FullDeadline>>}
    BY <1>12 DEF Reconnect, Reclaims, Renewed
  <2>2. d \in Deadlines \/ d = FullDeadline
    BY <2>1 DEF Deadlines
  <2>3. QED  BY <1>2, <2>1, <2>2, GrantIsCovered
<1>13. QED
    BY <1>3, <1>4, <1>5, <1>6, <1>7, <1>8, <1>9, <1>10, <1>11, <1>12
    DEF FenceNext, FenceHost, FenceWorker

-----------------------------------------------------------------------------
(* What is left once the host has written the lease off *)

\* A deadline that was covered ends, at the latest, an excess after the lease.
LEMMA CoveredIsBounded ==
    ASSUME ClockInv, GrantInv, HostHolds, NEW d \in Deadlines,
           hostDue <= now \/ (graceDue # Never /\ graceDue <= now)
    PROVE  \E b, c \in Budgets : d <= now + Excess(b, c)
<1>1. PICK t \in 1..now : Covered(d, t)
    BY DEF GrantInv
<1>2. PICK b \in Budgets : d <= t + b.timeout + b.grace
    BY <1>1 DEF Covered, GrantedAt
<1>3. PICK c \in Budgets : t + c.grace <= now
  <2>1. ASSUME NEW instant \in Int, instant <= now, Outlasts(instant, t)
        PROVE  \E c \in Budgets : t + c.grace <= now
    BY <2>1, Periods DEF Outlasts, ClockInv
  <2>2. QED  BY <1>1, <2>1 DEF Covered, ClockInv
<1>4. /\ d \in Int /\ t \in Int /\ now \in Int
      /\ b.timeout \in Int /\ b.grace \in Int /\ c.grace \in Int
    BY Periods DEF ClockInv, Deadlines
<1>5. d <= now + Excess(b, c)
    BY <1>2, <1>3, <1>4 DEF Excess
<1>6. QED  BY <1>5

\* An instant is within the bound of itself.
LEMMA ExcessReaches ==
    ASSUME NEW t \in Int
    PROVE  \E b, c \in Budgets : t <= t + Excess(b, c) /\ t <= t + Excess(b, c) + Sweep
<1>1. PICK b \in Budgets : TRUE
    BY FenceAssumption
<1>2. b.timeout \in Nat /\ b.grace \in Nat /\ Sweep \in Nat
    BY Periods
<1>3. QED  BY <1>2 DEF Excess

\* The worker's deadlines stay within the bound from the moment the host writes the
\* lease off, and the clock does not run past them by more than a sweep.
LEMMA OverlapKept ==
    ASSUME ClockInv, GrantInv, OverlapInv, OverlapIsBounded, [FenceNext]_fenceVars
    PROVE  OverlapInv' /\ OverlapIsBounded'
<1> SUFFICES ASSUME Executing', ~HostHolds'
             PROVE  /\ \A d \in Deadlines' : \E b, c \in Budgets :
                           d <= goneAt' + Excess(b, c)
                    /\ \E b, c \in Budgets : now' <= goneAt' + Excess(b, c) + Sweep
    BY DEF OverlapInv, OverlapIsBounded, Excess
<1> USE DEF hostFence, workFence, HostHolds, Executing
<1>1. toWorker \in Seq(Int)
    BY DEF ClockInv
<1>2. Executing
  <2>1. WorkerHears => Executing
    BY DEF WorkerHears
  <2>2. FenceSelf => Executing
    BY DEF FenceSelf
  <2>3. ~WorkerHears /\ ~FenceSelf => workDue' = workDue
    BY DEF FenceNext, FenceHost, FenceWorker, fenceVars, HostHearsBeat, HostHearsReport,
           HostLosesSocket, Expire, HostStops, HostBoots, ChangeBudget, Beat,
           WorkerLosesSocket, Reconnect, Stall, Heal, Tick
  <2>4. QED  BY <2>1, <2>2, <2>3
<1>3. CASE HostHolds
  <2>1. Expire
    <3>1. HostHearsBeat => FALSE
      BY <1>3, Ahead DEF HostHearsBeat, Renewed, Never
    <3>2. HostHearsReport => FALSE
      BY Ahead DEF HostHearsReport, Renewed, Never, ClockInv
    <3>3. HostLosesSocket \/ HostBoots => FALSE
      BY <1>3, Ahead DEF HostLosesSocket, HostBoots, Never
    <3>4. Reconnect => FALSE
      BY <1>2, <1>3, Ahead DEF Reconnect, Reclaims, Renewed, Never
    <3>5. \/ HostStops \/ ChangeBudget \/ Beat \/ WorkerHears \/ WorkerLosesSocket
          \/ FenceSelf \/ Stall \/ Heal \/ Tick \/ UNCHANGED fenceVars
          => FALSE
      BY <1>3 DEF HostStops, ChangeBudget, Beat, WorkerHears, WorkerLosesSocket, FenceSelf,
                  Stall, Heal, Tick, fenceVars
    <3>6. QED
      BY <3>1, <3>2, <3>3, <3>4, <3>5 DEF FenceNext, FenceHost, FenceWorker
  <2>2. /\ goneAt' = now /\ now' = now /\ Deadlines' = Deadlines
        /\ hostDue <= now \/ (graceDue # Never /\ graceDue <= now)
    BY <2>1 DEF Expire, Deadlines
  <2>3. now \in Int
    BY DEF ClockInv
  <2>4. QED  BY <1>3, <2>2, <2>3, CoveredIsBounded, ExcessReaches
<1>4. CASE ~HostHolds
  <2>1. goneAt' = goneAt
    BY <1>4 DEF FenceNext, FenceHost, FenceWorker, fenceVars, HostHearsBeat,
       HostHearsReport, HostLosesSocket, Expire, HostStops, HostBoots, ChangeBudget, Beat,
       WorkerHears, FenceSelf, WorkerLosesSocket, Reconnect, Reclaims, Stall, Heal, Tick
  <2>2. goneAt \in Int /\ goneAt > 0
    BY <1>4 DEF ClockInv
  <2>3. ASSUME NEW d \in Deadlines' PROVE d \in Deadlines \/ d = Lost
    <3>1. CASE WorkerHears
      BY <1>1, <2>3, <3>1 DEF WorkerHears, HeldUntil, Deadlines
    <3>2. CASE Reconnect
      BY <1>4, <2>3, <3>2 DEF Reconnect, Deadlines
    <3>3. CASE ~WorkerHears /\ ~Reconnect
      BY <1>4, <2>3, <3>3
      DEF FenceNext, FenceHost, FenceWorker, fenceVars, HostHearsBeat,
          HostHearsReport, HostLosesSocket, Expire, HostStops, HostBoots, ChangeBudget,
          Beat, FenceSelf, WorkerLosesSocket, Stall, Heal, Tick, Deadlines
    <3>4. QED  BY <3>1, <3>2, <3>3
  <2>4. ASSUME NEW d \in Deadlines'
        PROVE  \E b, c \in Budgets : d <= goneAt' + Excess(b, c)
    <3>1. CASE d \in Deadlines
      BY <1>2, <1>4, <2>1, <3>1 DEF OverlapInv
    <3>2. CASE d = Lost
      <4>1. PICK b \in Budgets, c \in Budgets : goneAt <= goneAt + Excess(b, c)
        BY <2>2, ExcessReaches
      <4>2. Excess(b, c) \in Int
        BY Periods DEF Excess
      <4>3. QED  BY <2>1, <2>2, <3>2, <4>1, <4>2 DEF Lost
    <3>3. QED  BY <2>3, <3>1, <3>2
  <2>5. \E b, c \in Budgets : now' <= goneAt' + Excess(b, c) + Sweep
    <3>1. CASE Tick
      <4>1. now' = now + 1 /\ now < workDue + Sweep /\ workDue \in Deadlines
        BY <1>2, <3>1 DEF Tick, Deadlines
      <4>2. PICK b \in Budgets, c \in Budgets : workDue <= goneAt + Excess(b, c)
        BY <1>2, <1>4, <4>1 DEF OverlapInv
      <4>3. /\ now \in Int /\ workDue \in Int /\ goneAt \in Int /\ Sweep \in Int
            /\ Excess(b, c) \in Int
        BY Periods DEF ClockInv, Excess
      <4>4. QED  BY <2>1, <4>1, <4>2, <4>3
    <3>2. CASE ~Tick
      <4>1. now' = now
        BY <3>2 DEF FenceNext, FenceHost, FenceWorker, fenceVars, HostHearsBeat,
           HostHearsReport, HostLosesSocket, Expire, HostStops, HostBoots, ChangeBudget,
           Beat, WorkerHears, FenceSelf, WorkerLosesSocket, Reconnect, Stall, Heal
      <4>2. QED  BY <1>2, <1>4, <2>1, <4>1 DEF OverlapIsBounded
    <3>3. QED  BY <3>1, <3>2
  <2>6. QED  BY <2>4, <2>5
<1>5. QED  BY <1>3, <1>4

-----------------------------------------------------------------------------
(* A healthy lease *)

\* While nothing has gone wrong no deadline of either end is due, whatever the
\* instant.
LEMMA CalmIsNotDue ==
    ASSUME ClockInv, CalmInv, ~troubled
    PROVE  ~(watchDue <= now) /\ ~(hostDue <= now) /\ ~(workDue <= now)
<1>1. /\ now \in Int /\ Heartbeat \in Int /\ Heartbeat > 0 /\ beatDue \in Int
      /\ watchDue \in Int /\ hostDue \in Int /\ workDue \in Int
      /\ budget.timeout \in Int /\ Heartbeat < budget.timeout
      /\ budget.grace \in Int /\ budget.grace > 0
    BY Periods DEF ClockInv
<1>2. \E heard, answered \in {now, beatDue} :
        /\ watchDue + Heartbeat >= heard + budget.timeout
        /\ hostDue + Heartbeat >= heard + budget.timeout + budget.grace
        /\ workDue + Heartbeat >= answered + budget.timeout + budget.grace
        /\ now <= beatDue
    BY DEF CalmInv
<1>3. QED  BY <1>1, <1>2

\* None of what takes the lease or the connection away can happen then; the rest
\* keeps to the rhythm of the beats.
LEMMA CalmKept ==
    ASSUME ClockInv, CalmInv, [FenceNext]_fenceVars
    PROVE  CalmInv'
<1> SUFFICES ASSUME ~troubled' PROVE CalmInv'
    BY DEF CalmInv
<1> USE DEF hostFence, workFence, HostHolds, Executing, HostSees, WorkerSees, BeatHeard,
            Never
<1>1. ~troubled
    BY DEF FenceNext, FenceHost, FenceWorker, fenceVars, HostHearsBeat, HostHearsReport,
       HostLosesSocket, Expire, HostStops, HostBoots, ChangeBudget, Beat, WorkerHears,
       FenceSelf, WorkerLosesSocket, Reconnect, Stall, Heal, Tick
<1>2. /\ now \in Int /\ now > 0 /\ Heartbeat \in Int /\ Heartbeat > 0 /\ beatDue \in Int
      /\ watchDue \in Int /\ hostDue \in Int /\ workDue \in Int
      /\ budget.timeout \in Int /\ Heartbeat < budget.timeout
      /\ budget.grace \in Int /\ budget.grace > 0
      /\ toHost \in Nat /\ toWorker \in Seq(Int)
    BY Periods DEF ClockInv
<1>3. ~(watchDue <= now) /\ ~(hostDue <= now) /\ ~(workDue <= now)
    BY <1>1, CalmIsNotDue
<1>4. /\ hostUp /\ network = "ok" /\ graceDue = Never
      /\ HostHolds /\ Executing /\ HostSees /\ WorkerSees
    BY <1>1 DEF CalmInv
<1>5. \A i \in DOMAIN toWorker : toWorker[i] = FullDeadline
    BY <1>1 DEF CalmInv
<1>6. FullDeadline \in Int /\ FullDeadline > 0 /\ FullDeadline # Lost
    BY Ahead DEF Lost
<1>7. FullDeadline = now + budget.timeout + budget.grace
    BY DEF FullDeadline
<1>8. CASE HostHearsBeat
  <2>1. /\ toHost > 0 /\ toHost' = toHost - 1 /\ watchDue' = now + budget.timeout
        /\ hostDue' = FullDeadline /\ toWorker' = Append(toWorker, FullDeadline)
        /\ UNCHANGED <<now, budget, hostUp, graceDue, workDue, beatDue, network, troubled>>
    BY <1>4, <1>8 DEF HostHearsBeat, Renewed
  <2>2. FullDeadline' = FullDeadline
    BY <2>1 DEF FullDeadline
  <2>3. toWorker' # <<>> /\ \A i \in DOMAIN toWorker' : toWorker'[i] = FullDeadline
    BY <1>2, <1>5, <1>6, <2>1
  <2>4. beatDue = now + Heartbeat
    BY <1>1, <1>2, <2>1 DEF CalmInv
  <2>5. workDue + Heartbeat >= now + budget.timeout + budget.grace
    BY <1>1, <1>2, <2>1 DEF CalmInv
  <2>6. /\ watchDue' + Heartbeat >= beatDue + budget.timeout
        /\ watchDue' + Heartbeat >= now + budget.timeout
        /\ hostDue' + Heartbeat >= beatDue + budget.timeout + budget.grace
        /\ hostDue' + Heartbeat >= now + budget.timeout + budget.grace
    <3>1. /\ watchDue' = now + budget.timeout
          /\ hostDue' = now + budget.timeout + budget.grace
      BY <2>1 DEF FullDeadline
    <3>2. QED  BY SMTT(30), <1>2, <2>4, <3>1
  <2>7. hostDue' # Never /\ watchDue' # Never
    BY <1>2, <1>6, <2>1
  <2>8. QED
    BY <1>2, <1>4, <2>1, <2>2, <2>3, <2>4, <2>5, <2>6, <2>7 DEF CalmInv
<1>9. CASE HostHearsReport
  <2>1. /\ hostDue' = FullDeadline
        /\ UNCHANGED <<now, budget, hostUp, graceDue, watchDue, workDue, beatDue, network,
                       toHost, toWorker, troubled>>
    BY <1>9 DEF HostHearsReport, Renewed
  <2>2. FullDeadline' = FullDeadline
    BY <2>1 DEF FullDeadline
  <2>3. /\ hostDue' + Heartbeat >= beatDue + budget.timeout + budget.grace
        /\ hostDue' + Heartbeat >= now + budget.timeout + budget.grace
        /\ hostDue' # Never
    <3>1. beatDue <= now + Heartbeat
      BY <1>1 DEF CalmInv
    <3>2. QED  BY SMTT(30), <1>2, <2>1, <3>1 DEF FullDeadline
  <2>4. QED
    BY <1>1, <1>4, <2>1, <2>2, <2>3 DEF CalmInv
<1>10. ~HostLosesSocket
    BY <1>3, <1>4 DEF HostLosesSocket
<1>11. ~Expire /\ ~FenceSelf
    BY <1>3, <1>4 DEF Expire, FenceSelf
<1>12. ~HostStops /\ ~HostBoots /\ ~ChangeBudget /\ ~Stall
    BY <1>4 DEF HostStops, HostBoots, ChangeBudget, Stall
<1>13. ~WorkerLosesSocket /\ ~Reconnect /\ ~Heal
    BY <1>4 DEF WorkerLosesSocket, Reconnect, Heal
<1>14. CASE Beat
    BY <1>1, <1>2, <1>14 DEF Beat, CalmInv, FullDeadline
<1>15. CASE WorkerHears
  <2>1. /\ toWorker # <<>> /\ Head(toWorker) = FullDeadline
        /\ workDue' = FullDeadline /\ toWorker' = Tail(toWorker)
        /\ UNCHANGED <<now, budget, hostUp, hostDue, graceDue, watchDue, beatDue, network,
                       toHost, troubled>>
    BY <1>2, <1>4, <1>5, <1>15, <1>6 DEF WorkerHears, HeldUntil
  <2>2. FullDeadline' = FullDeadline
    BY <2>1 DEF FullDeadline
  <2>3. \A i \in DOMAIN toWorker' : toWorker'[i] = FullDeadline
    BY <1>2, <1>5, <2>1
  <2>4. beatDue = now + Heartbeat
    BY <1>1, <2>1 DEF CalmInv
  <2>5. /\ workDue' + Heartbeat >= beatDue + budget.timeout + budget.grace
        /\ workDue' + Heartbeat >= now + budget.timeout + budget.grace
        /\ workDue' # Never
    BY SMTT(30), <1>2, <1>6, <1>7, <2>1, <2>4
  <2>6. QED
    BY <1>1, <1>4, <2>1, <2>2, <2>3, <2>4, <2>5 DEF CalmInv
<1>16. CASE Tick
    BY <1>1, <1>2, <1>16 DEF Tick, CalmInv, FullDeadline
<1>17. CASE UNCHANGED fenceVars
    BY <1>1, <1>17 DEF fenceVars, CalmInv, FullDeadline
<1>18. QED
    BY <1>8, <1>9, <1>10, <1>11, <1>12, <1>13, <1>14, <1>15, <1>16, <1>17
    DEF FenceNext, FenceHost, FenceWorker

-----------------------------------------------------------------------------
(* The fence *)

\* FenceInv holds in every state.
THEOREM FenceInvariant == FenceSpec => []FenceInv
<1>1. FenceInv /\ [FenceNext]_fenceVars => FenceInv'
    BY ClockKept, GrantKept, OverlapKept, CalmKept DEF FenceInv
<1>2. QED  BY InitFence, <1>1, PTL DEF FenceSpec

\* For every budget the settings allow and every number of stalls, host restarts
\* and changed settings: a worker whose lease was written off stops within the
\* bound, and an untroubled lease and its connection are never given up
\* (workers.ts #pullInLeaseDeadline, #sweepExpiredLeases, restore; connection.ts
\* sweepLeaseDeadlines).
THEOREM TheFenceHolds == FenceSpec => []FenceHolds
<1>1. FenceInv => FenceHolds
    BY DEF FenceInv, CalmInv, FenceHolds, HealthyLeaseIsKept
<1>2. QED  BY <1>1, FenceInvariant, PTL

===============================================================================
