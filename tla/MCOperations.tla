---------------------------- MODULE MCOperations ----------------------------
(***************************************************************************)
(* Elections of Raft nodes, and the components of the backend that watch,  *)
(* secure and keep it. They share nothing, so one of them moves in each    *)
(* behaviour, the one that `active` names, and their state spaces add up.  *)
(***************************************************************************)
EXTENDS MCRaftNode

CONSTANTS
    Instance, Client, Broadcast, Latency, target, percentile, window, retention, Horizon,
    MaxCertificates, Token, Agent, MaxIssued, Backup, Restore, Compressed, Deleter, Rows

VARIABLES
    active, socketAt, isAlive, subscribed, isAuthenticated, responsive, published, sent,
    got, silent, slaNow, entries, report, recorded, alertNow, value, on, isEnabled,
    metricHistory, alerts, due, calm, disk, creators, restores, managerIssued,
    managerIsActive, CRL, crl, revoking, timers, checks, operator, tokens, agents, nodes,
    owner, mtlsIsActive, revocation, superseded, halfRevoked, cached, check, byOperator,
    user, sessions, apiKeys, auditLogs, otherLogs, deleters, production, erasureReport

socketVars == <<
    socketAt, isAlive, subscribed, isAuthenticated, responsive, published, sent, got, silent>>
slaVars == <<slaNow, entries, report, recorded>>
alertVars == <<alertNow, value, on, isEnabled, metricHistory, alerts, due, calm>>
backupVars == <<disk, creators, restores>>
managerVars == <<
    managerIssued, managerIsActive, CRL, crl, revoking, timers, checks, operator>>
mtlsVars == <<
    tokens, agents, nodes, owner, mtlsIsActive, revocation, superseded, halfRevoked, cached,
    check, byOperator>>
erasureVars == <<
    user, sessions, apiKeys, auditLogs, otherLogs, deleters, production, erasureReport>>

Monitoring == INSTANCE Monitoring
    WITH Node <- {"n1"},
         Metric <- {"cpu"},
         rules <- <<[metric |-> "cpu", threshold |-> 0, duration |-> 1], [metric |-> "cpu", threshold |-> 1, duration |-> 2]>>,
         Level <- 0..2,
         AlertWindow <- 3,
         Silence <- 2,
         MaxAlerts <- 2,
         MaxTime <- 3
Safekeeping == INSTANCE Safekeeping
    WITH report <- erasureReport

OperationsInit ==
    /\ active \in {"raft", "socket", "sla", "backup", "manager", "mtls", "alert", "erasure"}
    /\ Init
    /\ Monitoring!SocketInit
    /\ Monitoring!SlaInit
    /\ Safekeeping!BackupInit
    /\ Safekeeping!ManagerInit
    /\ Safekeeping!MtlsInit
    /\ Monitoring!AlertInit
    /\ Safekeeping!ErasureInit

OperationsNext ==
    /\ UNCHANGED active
    /\ IF active = "raft" THEN Next ELSE UNCHANGED vars
    /\ IF active = "socket" THEN Monitoring!SocketNext ELSE UNCHANGED socketVars
    /\ IF active = "sla" THEN Monitoring!SlaNext ELSE UNCHANGED slaVars
    /\ IF active = "backup" THEN Safekeeping!BackupNext ELSE UNCHANGED backupVars
    /\ IF active = "manager" THEN Safekeeping!ManagerNext ELSE UNCHANGED managerVars
    /\ IF active = "mtls" THEN Safekeeping!MtlsNext ELSE UNCHANGED mtlsVars
    /\ IF active = "alert" THEN Monitoring!AlertNext ELSE UNCHANGED alertVars
    /\ IF active = "erasure" THEN Safekeeping!ErasureNext ELSE UNCHANGED erasureVars

OperationsSpec ==
    /\ OperationsInit /\ [][OperationsNext]_<<active,
          vars, socketVars, slaVars, alertVars, backupVars, managerVars, mtlsVars,
          erasureVars>>

-----------------------------------------------------------------------------

\* Every component keeps its types.
TypesOK ==
    /\ Monitoring!SocketTypeOK
    /\ Monitoring!SlaTypeOK
    /\ Safekeeping!BackupTypeOK
    /\ Safekeeping!ManagerTypeOK
    /\ Safekeeping!MtlsTypeOK
    /\ Monitoring!AlertTypeOK
    /\ Safekeeping!ErasureTypeOK

\* A broadcast comes back to nobody and a peer that vanished is dropped; a percentile is
\* the nearest rank, and a breach that is reported was recorded; a backup that is restored
\* is complete; a renewal or a rotation leaves one certificate, one that was deactivated or
\* revoked lets nobody in, and a token registers one agent; an alert is not repeated while
\* it is open; of an erased user nothing is left. And by steps: an alert is raised for a
\* breach that lasted.
OperationsSafe ==
    /\ [](/\ TypesOK
          /\ Monitoring!NoEcho
          /\ Monitoring!VanishedIsDropped
          /\ Monitoring!PercentileIsNearestRank
          /\ Monitoring!BreachWasRecorded
          /\ Safekeeping!RestoredIsComplete
          /\ Safekeeping!RenewalKeepsOne
          /\ Safekeeping!DeactivatedStaysInvalid
          /\ Safekeeping!TokenRegistersOnce
          /\ Safekeeping!RotationKeepsOne
          /\ Safekeeping!RevokedStaysOut
          /\ Monitoring!NotRepeated
          /\ Safekeeping!ErasureLeavesNothing)
    /\ Monitoring!BreachLasted
=============================================================================
