-------------------------------- MODULE MCHost --------------------------------
(***************************************************************************)
(* TLC instance of what surrounds the scheduler: the fence of a lease      *)
(* (LeaseFence), enrollment and registration (FleetGate), Linear and the   *)
(* configuration (LinearConnector), the desktop app (DesktopShell), the    *)
(* repositories' memories (MemoryStore), the installer of a worker machine *)
(* (WorkerInstaller), and the connecting of providers (ConnectFlow) and of *)
(* the evidence bucket (EvidenceBucket).                                   *)
(* They share no variable, so each behaviour moves one of them and leaves  *)
(* the others as they are: the states add up instead of multiplying.       *)
(***************************************************************************)
EXTENDS LeaseFence, FleetGate, LinearConnector, DesktopShell, MemoryStore,
        WorkerInstaller, ConnectFlow, EvidenceBucket, TLC

CONSTANTS m1, m2    \* machines

TwoMachines == {m1, m2}
MachineSymmetry == Permutations(TwoMachines)

\* A short and a long budget, so that the settings can widen or narrow it.
TwoBudgets == {[timeout |-> 3, grace |-> 1], [timeout |-> 3, grace |-> 2]}

VARIABLE part    \* the component this behaviour moves

Parts == {"fence", "gate", "linear", "desktop", "memory", "installer", "connect", "bucket"}

missionVars == << part, fenceVars, gateVars, connVars, deskVars, memoryVars,
                  installVars, connectVars, bucketVars >>

MissionInit ==
  /\ part \in Parts
  /\ FenceInit /\ (part # "fence" => budget = [timeout |-> 3, grace |-> 1])
  /\ GateInit /\ ConnInit /\ DeskInit /\ MemoryInit
  /\ InstallInit /\ (part # "installer" => \A k \in Kinds : account[k] = "absent")
  /\ ConnectInit
  /\ part # "connect" => /\ provider = "github"
                         /\ onHost = [key |-> "none", login |-> "none"]
  /\ BucketInit /\ (part # "bucket" => cli = "missing")

MissionNext ==
  /\ UNCHANGED part
  /\ part # "fence" => UNCHANGED fenceVars
  /\ part # "gate" => UNCHANGED gateVars
  /\ part # "linear" => UNCHANGED connVars
  /\ part # "desktop" => UNCHANGED deskVars
  /\ part # "memory" => UNCHANGED memoryVars
  /\ part # "installer" => UNCHANGED installVars
  /\ part # "connect" => UNCHANGED connectVars
  /\ part # "bucket" => UNCHANGED bucketVars
  /\ \/ part = "fence" /\ FenceNext
     \/ part = "gate" /\ GateNext
     \/ part = "linear" /\ ConnNext
     \/ part = "desktop" /\ DeskNext
     \/ part = "memory" /\ MemoryNext
     \/ part = "installer" /\ InstallNext
     \/ part = "connect" /\ ConnectNext
     \/ part = "bucket" /\ BucketNext

MissionSpec == MissionInit /\ [][MissionNext]_missionVars
===============================================================================
