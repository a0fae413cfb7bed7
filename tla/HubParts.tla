------------------------------ MODULE HubParts ------------------------------
(***************************************************************************)
(* The parts of the hub that share no state: the offline buffer, the       *)
(* override window's timing, the provisioning manager, the health engine   *)
(* with the device set it is reconciled with, the registration with DPS.   *)
(* Each has its own lock, its own queues and its own keys in NVS, and none *)
(* calls another within a step; so a behaviour is of one part, and the     *)
(* others stand still.                                                     *)
(***************************************************************************)
EXTENDS OfflineBuffer, OverrideWindow, Provisioning, HealthEngine, DpsClient, TLC

VARIABLE part     \* whose behaviour this is

hubVars == <<vars, windowVars, provVars, healthVars, dpsVars, part>>

HubInit ==
    /\ Init /\ WindowInit /\ ProvInit /\ HealthInit /\ DpsInit
    /\ part \in {"buffer", "window", "provisioning", "health", "dps"}
    /\ part # "buffer" => ~clock

BufferSteps ==
    part = "buffer" /\ Next /\ UNCHANGED <<windowVars, provVars, healthVars, dpsVars, part>>
WindowSteps ==
    part = "window" /\ WindowNext /\ UNCHANGED <<vars, provVars, healthVars, dpsVars, part>>
ProvSteps ==
    part = "provisioning" /\ ProvNext /\ UNCHANGED <<vars, windowVars, healthVars, dpsVars, part>>
HealthSteps ==
    part = "health" /\ HealthNext /\ UNCHANGED <<vars, windowVars, provVars, dpsVars, part>>
DpsSteps ==
    part = "dps" /\ DpsNext /\ UNCHANGED <<vars, windowVars, provVars, healthVars, part>>

HubSpec ==
    HubInit /\ [][BufferSteps \/ WindowSteps \/ ProvSteps \/ HealthSteps \/ DpsSteps]_hubVars

(* The ids of sensors and valves are compared for equality and nothing     *)
(* else.                                                                   *)
IdSymmetry == Permutations(LoraIds) \cup Permutations(BleValves)
=============================================================================
