---------------------------- MODULE Safekeeping -----------------------------
(***************************************************************************)
(* What is kept: the certificates of the two managers of the backend,      *)
(* backups, and the data of a user until it is erased. They share nothing; *)
(* each has its own initial states, next-state relation and properties.    *)
(***************************************************************************)
EXTENDS Naturals, FiniteSets

(***************************************************************************)
(* backend/src/services/certificate-manager.ts: certificates of one node   *)
(* in the table, the revocation list in the table and in the memory of     *)
(* each instance, renewals with their timers, and verifications.           *)
(*                                                                         *)
(* A certificate is the number in which it was issued.                     *)
(***************************************************************************)

CONSTANTS
    Instance,
    MaxCertificates  \* bound on the certificates that are issued

ManagerCertificate == 1..MaxCertificates

VARIABLES
    managerIssued, \* certificates in the table
    managerIsActive, \* those of them that are active
    CRL,        \* the table of revocations
    crl,        \* crl[i]: the list in memory
    revoking,   \* calls of revokeNodeCertificate(): instance, certificate, next step
    timers,     \* renewals whose grace period runs, by instance
    checks,     \* checks[i]: a verification, and whether its certificate was inactive when it began
    operator    \* somebody asked for a revocation: no renewal is the reason

managerVars == <<managerIssued, managerIsActive, CRL, crl, revoking, timers, checks, operator>>

Idle == [pc |-> "idle", certificate |-> 1, late |-> FALSE]

ManagerInit ==
    /\ managerIssued = {1} /\ managerIsActive = {1} /\ CRL = {}
    /\ crl = [i \in Instance |-> {}] /\ revoking = {}
    /\ timers = [i \in Instance |-> 0] /\ checks = [i \in Instance |-> Idle] /\ operator = FALSE

ManagerNewest == CHOOSE c \in managerIsActive : \A d \in managerIsActive : d <= c

renewNodeCertificate(i) ==
    /\ managerIsActive # {} /\ Cardinality(managerIssued) < MaxCertificates
    /\ managerIssued' = managerIssued \cup {Cardinality(managerIssued) + 1} /\ managerIsActive' = managerIsActive \cup {Cardinality(managerIssued) + 1}
    /\ timers' = [timers EXCEPT ![i] = @ + 1]
    /\ UNCHANGED <<CRL, crl, revoking, checks, operator>>

\* findFirst of the newest that is active; also when the timer of a renewal runs out, so that it is
\* the renewed certificate which goes.
findActive(i) ==
    /\ managerIsActive # {}
    /\ crl' = [crl EXCEPT ![i] = @ \cup {ManagerNewest}]
    /\ revoking' = revoking \cup {[instance |-> i, certificate |-> ManagerNewest, next |-> "update"]}

revokeNodeCertificate(i) ==
    /\ findActive(i) /\ operator' = TRUE
    /\ UNCHANGED <<managerIssued, managerIsActive, CRL, timers, checks>>

graceEnds(i) ==
    /\ timers[i] > 0 /\ timers' = [timers EXCEPT ![i] = @ - 1]
    /\ findActive(i)
    /\ UNCHANGED <<managerIssued, managerIsActive, CRL, checks, operator>>

deactivate ==
    /\ \E r \in revoking :
          /\ r.next = "update" /\ managerIsActive' = managerIsActive \ {r.certificate}
          /\ revoking' = (revoking \ {r}) \cup {[r EXCEPT !.next = "create"]}
    /\ UNCHANGED <<managerIssued, CRL, crl, timers, checks, operator>>

createCRL ==
    /\ \E r \in revoking :
          /\ r.next = "create" /\ CRL' = CRL \cup {r.certificate} /\ revoking' = revoking \ {r}
    /\ UNCHANGED <<managerIssued, managerIsActive, crl, timers, checks, operator>>

\* initialize() reads the list; calls and timers of the process are gone.
managerRestart(i) ==
    /\ crl' = [crl EXCEPT ![i] = CRL]
    /\ revoking' = {r \in revoking : r.instance # i}
    /\ timers' = [timers EXCEPT ![i] = 0] /\ checks' = [checks EXCEPT ![i] = Idle]
    /\ UNCHANGED <<managerIssued, managerIsActive, CRL, operator>>

ManagerCheck(i, c) == checks' = [checks EXCEPT ![i] = c] /\ UNCHANGED <<managerIssued, managerIsActive, CRL, crl, revoking, timers, operator>>

verifyClientCertificate(i, c) ==
    /\ checks[i].pc \in {"idle", "valid", "invalid"} /\ c \in managerIssued
    /\ ManagerCheck(i, [pc |-> "revoked?", certificate |-> c, late |-> c \notin managerIsActive])

managerIsRevoked(i) ==
    /\ checks[i].pc = "revoked?"
    /\ ManagerCheck(i, [checks[i] EXCEPT !.pc = IF checks[i].certificate \in crl[i] \cup CRL
                                                THEN "invalid" ELSE "active?"])

\* A certificate may have run out as well.
managerFindCertificate(i) ==
    /\ checks[i].pc = "active?"
    /\ ManagerCheck(i, [checks[i] EXCEPT !.pc = IF checks[i].certificate \in managerIsActive THEN "valid" ELSE "invalid"])

ManagerNext ==
    \/ \E i \in Instance :
          \/ renewNodeCertificate(i) \/ revokeNodeCertificate(i) \/ graceEnds(i) \/ managerRestart(i)
          \/ managerIsRevoked(i) \/ managerFindCertificate(i)
          \/ \E c \in ManagerCertificate : verifyClientCertificate(i, c)
    \/ deactivate \/ createCRL

ManagerSpec == ManagerInit /\ [][ManagerNext]_managerVars

ManagerTypeOK ==
    /\ managerIsActive \subseteq managerIssued /\ managerIssued \subseteq ManagerCertificate /\ CRL \subseteq managerIssued
    /\ crl \in [Instance -> SUBSET ManagerCertificate]
    /\ revoking \subseteq [instance : Instance, certificate : ManagerCertificate, next : {"update", "create"}]
    /\ timers \in [Instance -> 0..MaxCertificates]
    /\ checks \in [Instance -> [pc : {"idle", "revoked?", "active?", "valid", "invalid"},
                                certificate : ManagerCertificate, late : BOOLEAN]]

\* Once a revocation has reached the table, no instance takes the certificate for valid: not one
\* whose list is old, not one that restarts, and not when the process ended before the entry in
\* the list of revocations was made.
DeactivatedStaysInvalid == \A i \in Instance : checks[i].late => checks[i].pc # "valid"

\* As long as nobody asks for a revocation, renewals and their timers, also of several instances
\* and across restarts, leave the node an active certificate.
RenewalKeepsOne == ~operator => managerIsActive # {}

-----------------------------------------------------------------------------
(***************************************************************************)
(* backend/src/services/mtls-authentication.ts: registration with          *)
(* bootstrap tokens, rotation and revocation of the certificates of the    *)
(* nodes, and the validation of a client.                                  *)
(*                                                                         *)
(* A certificate is the number in which it was issued; keys and texts are  *)
(* left out.                                                               *)
(***************************************************************************)

CONSTANTS
    Token, Agent,
    MaxIssued        \* bound on the certificates that are issued

MtlsCertificate == 1..MaxIssued

VARIABLES
    tokens,       \* tokens[t]: fresh, used or expired
    agents,       \* agents[a]: a call of registerAgent(), with the token it presents
    nodes,        \* nodes that have a row
    owner,        \* owner[c]: the node of the certificate, for those that were issued
    mtlsIsActive, revocation,
    superseded,   \* certificates whose grace period after a rotation runs
    halfRevoked,  \* revocations between their two writes: certificate, kind
    cached,       \* crlCache of the validator
    check,        \* a validation, and whether a revocation was complete when it began
    byOperator    \* history: nodes of which revokeCertificate() took one

mtlsVars == <<tokens, agents, nodes, owner, mtlsIsActive, revocation, superseded, halfRevoked, cached, check, byOperator>>

mtlsIssued == {c \in MtlsCertificate : owner[c] # "none"}
Fresh == Cardinality(mtlsIssued) + 1
NoCheck == [pc |-> "idle", certificate |-> 1, late |-> FALSE]

MtlsInit ==
    /\ tokens = [t \in Token |-> "fresh"]
    /\ agents = [a \in Agent |-> [pc |-> "new", token |-> "none"]]
    /\ nodes = {} /\ owner = [c \in MtlsCertificate |-> "none"]
    /\ mtlsIsActive = {} /\ revocation = {} /\ superseded = {} /\ halfRevoked = {} /\ cached = {}
    /\ check = NoCheck /\ byOperator = {}

KeepCertificates == UNCHANGED <<owner, mtlsIsActive, revocation, superseded, halfRevoked, cached, check, byOperator>>

expire(t) ==
    /\ tokens[t] = "fresh" /\ tokens' = [tokens EXCEPT ![t] = "expired"]
    /\ UNCHANGED <<agents, nodes>> /\ KeepCertificates

registerAgent(a, t) ==
    /\ agents[a].pc = "new"
    /\ agents' = [agents EXCEPT ![a] = [pc |-> IF tokens[t] = "fresh" THEN "consume" ELSE "refused", token |-> t]]
    /\ UNCHANGED <<tokens, nodes>> /\ KeepCertificates

\* Mutant: the token is marked by its name alone.
mvalidateAndConsumeBootstrapToken(a) ==
    /\ agents[a].pc = "consume"
    /\ tokens' = [tokens EXCEPT ![agents[a].token] = "used"] /\ agents' = [agents EXCEPT ![a].pc = "sign"]
    /\ UNCHANGED nodes /\ KeepCertificates

\* One updateMany() finds the token unused and marks it.
validateAndConsumeBootstrapToken(a) ==
    /\ agents[a].pc = "consume"
    /\ \/ /\ tokens[agents[a].token] = "fresh"
          /\ tokens' = [tokens EXCEPT ![agents[a].token] = "used"] /\ agents' = [agents EXCEPT ![a].pc = "sign"]
       \/ /\ tokens[agents[a].token] # "fresh"
          /\ agents' = [agents EXCEPT ![a].pc = "refused"] /\ UNCHANGED tokens
    /\ UNCHANGED nodes /\ KeepCertificates

Issue(a) == Fresh \in MtlsCertificate /\ owner' = [owner EXCEPT ![Fresh] = a] /\ mtlsIsActive' = mtlsIsActive \cup {Fresh}

signCSR(a) ==
    /\ agents[a].pc = "sign" /\ agents' = [agents EXCEPT ![a].pc = "node"]
    /\ Issue(a)
    /\ UNCHANGED <<tokens, nodes, revocation, superseded, halfRevoked, cached, check, byOperator>>

createNode(a) ==
    /\ agents[a].pc = "node" /\ agents' = [agents EXCEPT ![a].pc = "registered"]
    /\ nodes' = nodes \cup {a}
    /\ UNCHANGED tokens /\ KeepCertificates

\* A write that throws: the token stays used, and a certificate may stay without a node.
fails(a) ==
    /\ agents[a].pc \in {"sign", "node"} /\ agents' = [agents EXCEPT ![a].pc = "refused"]
    /\ UNCHANGED <<tokens, nodes>> /\ KeepCertificates

KeepAgents == UNCHANGED <<tokens, agents, nodes>>

rotateCertificate(c) ==
    /\ c \in mtlsIsActive /\ owner[c] \in nodes
    /\ Issue(owner[c]) /\ superseded' = superseded \cup {c}
    /\ KeepAgents /\ UNCHANGED <<revocation, halfRevoked, cached, check, byOperator>>

MtlsNewest(a) == {c \in mtlsIsActive : owner[c] = a /\ \A d \in mtlsIsActive : owner[d] = a => d <= c}

\* The grace period ends: the row is made inactive first, then the revocation is written.
revokeOldCertificate(c) ==
    /\ c \in superseded /\ superseded' = superseded \ {c}
    /\ mtlsIsActive' = mtlsIsActive \ {c}
    /\ halfRevoked' = halfRevoked \cup {[certificate |-> c, kind |-> "superseded"]}
    /\ KeepAgents /\ UNCHANGED <<owner, revocation, cached, check, byOperator>>

\* Of the newest certificate of the node: the revocation is written first, then the row.
revokeCertificate(a) ==
    /\ \E c \in MtlsNewest(a) :
          /\ revocation' = revocation \cup {c}
          /\ halfRevoked' = halfRevoked \cup {[certificate |-> c, kind |-> "revoked"]}
    /\ byOperator' = byOperator \cup {a}
    /\ KeepAgents /\ UNCHANGED <<owner, mtlsIsActive, superseded, cached, check>>

secondWrite ==
    /\ \E h \in halfRevoked :
          /\ halfRevoked' = halfRevoked \ {h}
          /\ IF h.kind = "revoked" THEN mtlsIsActive' = mtlsIsActive \ {h.certificate} /\ UNCHANGED revocation
             ELSE revocation' = revocation \cup {h.certificate} /\ UNCHANGED mtlsIsActive
    /\ KeepAgents /\ UNCHANGED <<owner, superseded, cached, check, byOperator>>

\* Timers, calls and the cache are lost.
mtlsRestart ==
    /\ superseded' = {} /\ halfRevoked' = {} /\ cached' = {} /\ check' = NoCheck
    /\ agents' = [a \in Agent |-> IF agents[a].pc \in {"new", "registered"} THEN agents[a]
                                  ELSE [agents[a] EXCEPT !.pc = "refused"]]
    /\ UNCHANGED <<tokens, nodes, owner, mtlsIsActive, revocation, byOperator>>

MtlsCheck(c) == check' = c /\ KeepAgents /\ UNCHANGED <<owner, mtlsIsActive, revocation, superseded, halfRevoked, byOperator>>

\* The cache is read again when it is older than six hours.
validateClientCertificate(c) ==
    /\ check.pc \in {"idle", "valid", "invalid"} /\ c \in mtlsIssued
    /\ cached' \in {cached, revocation}
    /\ MtlsCheck([pc |-> "revoked?", certificate |-> c, late |-> c \in revocation])

mtlsIsRevoked ==
    /\ check.pc = "revoked?" /\ UNCHANGED cached
    /\ MtlsCheck([check EXCEPT !.pc = IF check.certificate \in cached \cup revocation THEN "invalid" ELSE "active?"])

mtlsFindCertificate ==
    /\ check.pc = "active?" /\ UNCHANGED cached
    /\ MtlsCheck([check EXCEPT !.pc = IF check.certificate \in mtlsIsActive THEN "valid" ELSE "invalid"])

MtlsNext ==
    \/ \E t \in Token : expire(t) \/ \E a \in Agent : registerAgent(a, t)
    \/ \E a \in Agent : validateAndConsumeBootstrapToken(a) \/ signCSR(a) \/ createNode(a) \/ fails(a) \/ revokeCertificate(a)
    \/ \E c \in MtlsCertificate : rotateCertificate(c) \/ revokeOldCertificate(c) \/ validateClientCertificate(c)
    \/ secondWrite \/ mtlsRestart \/ mtlsIsRevoked \/ mtlsFindCertificate

MtlsSpec == MtlsInit /\ [][MtlsNext]_mtlsVars

MtlsTypeOK ==
    /\ tokens \in [Token -> {"fresh", "used", "expired"}]
    /\ agents \in [Agent -> [pc : {"new", "consume", "sign", "node", "registered", "refused"},
                             token : Token \cup {"none"}]]
    /\ nodes \subseteq Agent /\ owner \in [MtlsCertificate -> Agent \cup {"none"}]
    /\ mtlsIsActive \subseteq mtlsIssued /\ revocation \subseteq mtlsIssued /\ superseded \subseteq mtlsIssued /\ cached \subseteq revocation
    /\ halfRevoked \subseteq [certificate : MtlsCertificate, kind : {"superseded", "revoked"}]
    /\ check \in [pc : {"idle", "revoked?", "active?", "valid", "invalid"}, certificate : MtlsCertificate, late : BOOLEAN]

\* A token lets one agent in, although all of them read it before one consumes it.
TokenRegistersOnce ==
    \A a, b \in Agent : a # b /\ agents[a].token = agents[b].token =>
        ~({agents[a].pc, agents[b].pc} \subseteq {"sign", "node", "registered"})

\* A validation that begins after the revocation was written never succeeds, whatever the cache
\* holds, whether or not the row is inactive yet, and across restarts.
RevokedStaysOut == check.late => check.pc # "valid"

\* Rotations of a node, also two from the same certificate and with timers that are lost, leave it
\* with a certificate that is active, unless an operator revokes.
RotationKeepsOne == \A a \in nodes \ byOperator : \E c \in mtlsIsActive : owner[c] = a

-----------------------------------------------------------------------------
(***************************************************************************)
(* backend/src/services/backup-manager.ts: backups that are written file   *)
(* by file, and restores and deletions beside them.                        *)
(*                                                                         *)
(* A backup is its name: the directory with what is in it so far, or the   *)
(* archive.  pg_dump writes database.sql while it runs.                    *)
(***************************************************************************)

CONSTANTS
    Backup, Restore,
    Compressed   \* backups with options.compress; includeDatabase is set

VARIABLES
    disk,      \* disk[b]: what stands under the path of b
    creators,  \* creators[b]: where createBackup() is
    restores   \* restores[r]: the backup, and where restoreBackup() is

backupVars == <<disk, creators, restores>>

\* database: no file, a partial dump or a complete one.
Nothing == [kind |-> "none", database |-> "none", manifest |-> FALSE]

BackupInit ==
    /\ disk = [b \in Backup |-> Nothing]
    /\ creators = [b \in Backup |-> "new"]
    /\ restores = [r \in Restore |-> [of |-> "none", pc |-> "idle"]]

BackupStep(b, from, to) == creators[b] = from /\ creators' = [creators EXCEPT ![b] = to] /\ UNCHANGED restores

mkdir(b) ==
    /\ BackupStep(b, "new", "dump")
    /\ disk' = [disk EXCEPT ![b] = [Nothing EXCEPT !.kind = "directory"]]

\* A directory that was deleted meanwhile makes every later write fail.
backupDatabase(b) ==
    /\ disk[b].kind = "directory"
    /\ \/ BackupStep(b, "dump", "dumping") /\ disk' = [disk EXCEPT ![b].database = "partial"]
       \/ BackupStep(b, "dumping", "files")
          /\ disk' = [disk EXCEPT ![b].database = IF @ = "partial" THEN "complete" ELSE @]

writeManifest(b) ==
    /\ disk[b].kind = "directory"
    /\ BackupStep(b, "files", IF b \in Compressed THEN "archive" ELSE "success")
    /\ disk' = [disk EXCEPT ![b].manifest = TRUE]

\* tar, then the removal of the directory.
archive(b) ==
    /\ disk[b].kind = "directory"
    /\ BackupStep(b, "archive", "success")
    /\ disk' = [disk EXCEPT ![b].kind = "archive"]

\* What was written stays, and listBackups() shows it.
backupFails(b) ==
    /\ \E pc \in {"dump", "dumping", "files", "archive"} : BackupStep(b, pc, "failed")
    /\ UNCHANGED disk

deleteBackup(b) ==
    /\ disk[b].kind # "none" /\ disk' = [disk EXCEPT ![b] = Nothing]
    /\ UNCHANGED <<creators, restores>>

Goto(r, pc) == restores' = [restores EXCEPT ![r].pc = pc] /\ UNCHANGED <<disk, creators>>

access(r, b) ==
    /\ restores[r].pc = "idle" /\ disk[b].kind # "none"
    /\ restores' = [restores EXCEPT ![r] = [of |-> b, pc |-> "manifest"]]
    /\ UNCHANGED <<disk, creators>>

\* An archive has no file manifest.json beneath its path: it cannot be restored.
readManifest(r) ==
    /\ restores[r].pc = "manifest"
    /\ LET d == disk[restores[r].of]
       IN  Goto(r, IF d.kind = "directory" /\ d.manifest THEN "psql" ELSE "failed")

\* psql runs what the file holds; without the file it fails.
restoreDatabase(r) ==
    /\ restores[r].pc = "psql"
    /\ LET d == disk[restores[r].of]
       IN  Goto(r, IF d.kind # "directory" THEN "failed" ELSE d.database)

again(r) == restores[r].pc \in {"failed", "none", "partial", "complete"} /\ Goto(r, "idle")

BackupNext ==
    \/ \E b \in Backup :
          mkdir(b) \/ backupDatabase(b) \/ writeManifest(b) \/ archive(b) \/ backupFails(b) \/ deleteBackup(b)
    \/ \E r \in Restore : (\E b \in Backup : access(r, b)) \/ readManifest(r) \/ restoreDatabase(r) \/ again(r)

BackupSpec == BackupInit /\ [][BackupNext]_backupVars

BackupTypeOK ==
    /\ disk \in [Backup -> [kind : {"none", "directory", "archive"},
                            database : {"none", "partial", "complete"}, manifest : BOOLEAN]]
    /\ creators \in [Backup -> {"new", "dump", "dumping", "files", "archive", "success", "failed"}]
    /\ restores \in [Restore -> [of : Backup \cup {"none"},
                                 pc : {"idle", "manifest", "psql", "failed", "none", "partial", "complete"}]]

\* A restore that overlaps the creation of its backup, its failure or its deletion either fails
\* or runs a complete dump: the manifest is written last.
RestoredIsComplete == \A r \in Restore : restores[r].pc \notin {"none", "partial"}

-----------------------------------------------------------------------------
(***************************************************************************)
(* backend/src/services/compliance-manager.ts: the two reports, and the    *)
(* deletion of a user's data while the user still logs in.                 *)
(*                                                                         *)
(* The tables: a session and a key go with the row of their user (onDelete *)
(* in schema.prisma), the user of a log entry becomes null.                *)
(***************************************************************************)

CONSTANTS
    Deleter,    \* calls of deleteUserData() for the user
    Rows        \* rows that may belong to the user

VARIABLES
    user,       \* the row of the user exists
    sessions, apiKeys, auditLogs, \* rows of the user
    otherLogs,  \* auditLog has entries of nobody
    deleters,   \* where the calls are
    production, \* NODE_ENV
    report      \* of runSOC2Checks(): statuses so far

erasureVars == <<user, sessions, apiKeys, auditLogs, otherLogs, deleters, production, report>>

SOC2 == {"access", "at-rest", "in-transit", "audit", "mfa", "password", "session", "backup"}
GDPR == {"minimization", "access", "erasure", "portability", "consent", "retention", "notice", "breach"}

ErasureInit ==
    /\ user = TRUE /\ sessions = {} /\ apiKeys = {} /\ auditLogs = {} /\ otherLogs = FALSE
    /\ deleters = [d \in Deleter |-> "sessions"]
    /\ production = FALSE /\ report = <<>>

KeepReport == UNCHANGED <<production, report>>

login ==
    /\ user
    /\ \E r \in Rows : sessions' = sessions \cup {r} /\ auditLogs' = auditLogs \cup {r}
    /\ UNCHANGED <<user, apiKeys, otherLogs, deleters>> /\ KeepReport

createKey ==
    /\ user
    /\ \E r \in Rows : apiKeys' = apiKeys \cup {r}
    /\ UNCHANGED <<user, sessions, auditLogs, otherLogs, deleters>> /\ KeepReport

ErasureStep(d, from, to) == deleters[d] = from /\ deleters' = [deleters EXCEPT ![d] = to] /\ KeepReport

deleteSessions(d) ==
    /\ ErasureStep(d, "sessions", "keys") /\ sessions' = {}
    /\ UNCHANGED <<user, apiKeys, auditLogs, otherLogs>>

deleteKeys(d) ==
    /\ ErasureStep(d, "keys", "logs") /\ apiKeys' = {}
    /\ UNCHANGED <<user, sessions, auditLogs, otherLogs>>

anonymise(d) ==
    /\ ErasureStep(d, "logs", "user") /\ auditLogs' = {} /\ otherLogs' = (otherLogs \/ auditLogs # {})
    /\ UNCHANGED <<user, sessions, apiKeys>>

\* Of a user who is gone, delete() throws.
deleteUser(d) ==
    /\ ErasureStep(d, "user", IF user THEN "success" ELSE "thrown") /\ user' = FALSE
    /\ sessions' = {} /\ apiKeys' = {} /\ auditLogs' = {} /\ otherLogs' = (otherLogs \/ auditLogs # {})

\* An error of the database leaves what was deleted deleted.
erasureFails(d) ==
    /\ \E pc \in {"sessions", "keys", "logs", "user"} : ErasureStep(d, pc, "thrown")
    /\ UNCHANGED <<user, sessions, apiKeys, auditLogs, otherLogs>>

\* There is always the role of an administrator.
performSOC2Check(c) ==
    CASE c \in {"access", "at-rest", "password", "session"} -> "pass"
      [] c = "in-transit" -> IF production THEN "pass" ELSE "warning"
      [] c = "audit" -> IF auditLogs # {} \/ otherLogs THEN "pass" ELSE "warning"
      [] c \in {"mfa", "backup"} -> "warning"

performGDPRCheck(c) == IF c \in {"consent", "notice"} THEN "warning" ELSE "pass"

\* generateReport(), of the status of each check.
Counted(status) ==
    LET Number(s) == Cardinality({c \in DOMAIN status : status[c] = s})
    IN  [passed |-> Number("pass"), failed |-> Number("fail"), warnings |-> Number("warning"),
         total |-> Cardinality(DOMAIN status)]

runAllChecks ==
    /\ report' = [soc2 |-> Counted([c \in SOC2 |-> performSOC2Check(c)]),
                 gdpr |-> Counted([c \in GDPR |-> performGDPRCheck(c)])]
    /\ UNCHANGED <<user, sessions, apiKeys, auditLogs, otherLogs, deleters, production>>

deploy ==
    /\ ~production /\ production' = TRUE
    /\ UNCHANGED <<user, sessions, apiKeys, auditLogs, otherLogs, deleters, report>>

ErasureNext ==
    \/ login \/ createKey \/ runAllChecks \/ deploy
    \/ \E d \in Deleter : deleteSessions(d) \/ deleteKeys(d) \/ anonymise(d) \/ deleteUser(d) \/ erasureFails(d)

ErasureSpec == ErasureInit /\ [][ErasureNext]_erasureVars

ErasureTypeOK ==
    /\ {user, otherLogs, production} \subseteq BOOLEAN
    /\ sessions \subseteq Rows /\ apiKeys \subseteq Rows /\ auditLogs \subseteq Rows
    /\ deleters \in [Deleter -> {"sessions", "keys", "logs", "user", "success", "thrown"}]

\* Once a deletion has answered with success, nothing of the user is left, although the user may
\* have logged in and made keys while it was under way.
ErasureLeavesNothing ==
    (\E d \in Deleter : deleters[d] = "success") => sessions \cup apiKeys \cup auditLogs = {}

=============================================================================
