-------------------------------- MODULE Server --------------------------------
(***************************************************************************)
(* The server process from configuration.Load to the end of StartApp, with *)
(* what outlives it: the settings it was started with, the admin sessions  *)
(* it has issued and the files it has stored, encrypted at rest or not.    *)
(*                                                                         *)
(* Every process is one replica, kept running by a supervisor (systemd,    *)
(* docker, k8s) while it is wanted. The replicas of a deployment read the  *)
(* same settings, each at its own starts, and share database and storage.  *)
(***************************************************************************)
EXTENDS Integers, Sequences, FiniteSets, Functions, TLC

CONSTANTS
  Replicas,
  Versions,        \* of the program
  Files,
  defaultConfig,   \* the embedded default configuration, a record
  Deployments,     \* kinds of them
  Settings,        \* of each, what its operator may write: pairs [configFile,
                   \* environment] of records of some of its fields
  SessionTTL,
  NoFile, Malformed, Partial, None,
  MaxNow, MaxSessions, MaxChanges, MaxCrashes

Empty == ""     \* of a secret, an identity

Fields == {"admin", "sessionSecret", "cluster", "database", "redis",
           "ipHashSecret", "encryption", "identity", "identityFile", "e2ee",
           "indexPage", "storage", "proxyDownloads", "cleanup"}

\* settings, of which the file of identities, if it is one of them, holds
\* identities
SettingsOK(s) ==
  /\ DOMAIN s \subseteq Fields
  /\ "identityFile" \in DOMAIN s => s.identityFile \in Seq(STRING \ {Empty})

ASSUME ServerAssumption ==
  /\ {SessionTTL, MaxNow, MaxSessions, MaxChanges, MaxCrashes} \subseteq Nat
  /\ DOMAIN Settings = Deployments
  /\ \A s \in UNION Range(Settings):
       /\ DOMAIN s = {"configFile", "environment"}
       /\ SettingsOK(s.configFile) /\ SettingsOK(s.environment)
       /\ s.configFile # NoFile /\ s.configFile # Malformed
  /\ SettingsOK(defaultConfig) /\ DOMAIN defaultConfig = Fields
  /\ {NoFile, Malformed, Partial, None} \cap Versions = {}
  /\ NoFile # Malformed /\ None # Empty

VARIABLES
  host,      \* what starts read: config.yaml and the environment (NoFile, or
             \* settings), the executable; the replicas the supervisor wants
  process,   \* of every replica
  tokens,    \* admin sessions issued
  objects,   \* stored files with a row
  now,
  count      \* of secrets drawn, and of bounded steps: changes, crashes

serverVars == <<host, process, tokens, objects, now, count>>

-----------------------------------------------------------------------------
(* configuration.Load: the file over the defaults, the environment over    *)
(* both, then the verification, which panics or completes the settings.    *)

Override(config, by) ==
  [field \in Fields |-> IF field \in DOMAIN by THEN by[field] ELSE config[field]]

applyEnvOverrides(config) == Override(config, host.environment)

loadFromFile == Override(defaultConfig, host.configFile)

verifyE2EEConfig(c) == c.e2ee => c.indexPage

verifyClusterConfig(c) ==
  c.cluster =>
    /\ c.database = "postgres"
    /\ c.admin => c.sessionSecret # Empty
    /\ c.redis /\ c.ipHashSecret

verifyEncryptionConfig(c) ==
  /\ c.identity = Empty \/ c.identityFile = <<>>
  /\ c.encryption => c.identity # Empty \/ c.identityFile # <<>>

\* a secret of its own for a panel without one
verifyAdminConfig(c) ==
  IF c.admin /\ c.sessionSecret = Empty
  THEN [c EXCEPT !.sessionSecret = "random" \o ToString(count.secrets)]
  ELSE c

Panic == [panic |-> TRUE]

\* a fault: the secret is generated first
AdminVerifiedFirst(config) ==
  LET c == verifyAdminConfig(config)
  IN IF verifyE2EEConfig(c) /\ verifyClusterConfig(c) /\ verifyEncryptionConfig(c)
     THEN c ELSE Panic

verifyConfiguration(c) ==
  IF verifyE2EEConfig(c) /\ verifyClusterConfig(c) /\ verifyEncryptionConfig(c)
  THEN verifyAdminConfig(c) ELSE Panic

\* with --config, as the unit and the image have it: no file is a panic
Merged ==
  CASE host.configFile \in {NoFile, Malformed} -> Panic
    [] host.configFile \notin {NoFile, Malformed} /\ host.environment = NoFile -> loadFromFile
    [] OTHER -> applyEnvOverrides(loadFromFile)

Load == IF Merged = Panic THEN Panic ELSE verifyConfiguration(Merged)

-----------------------------------------------------------------------------
(* encryption.Manager: its identities, the first of which encrypts. <<>>   *)
(* is the nil manager.                                                     *)

\* a fault: no manager while new files are not encrypted
ManagerIfEnabled(c) ==
  CASE ~c.encryption -> <<>>
    [] c.encryption /\ c.identity # Empty -> <<c.identity>>
    [] OTHER -> c.identityFile

NewManager(c) == IF c.identity # Empty THEN <<c.identity>> ELSE c.identityFile

Encrypt(manager) == manager[1]

Decrypts(manager, key) == key \in Range(manager)

\* what the client gets of a stored file [client, key], key None for one that
\* is not encrypted at rest
serveEncrypted(p, object) ==
  IF Decrypts(p.manager, object.key) THEN "file" ELSE "500"

PresignedURL(p) == p.config.storage # "local" /\ ~p.config.proxyDownloads

Download(p, object) ==
  CASE object.client -> IF p.config.indexPage THEN "page" ELSE "500"
    [] ~object.client /\ object.key # None -> serveEncrypted(p, object)
    [] ~object.client /\ object.key = None /\ PresignedURL(p) -> "redirect"
    [] OTHER -> "file"

ClientEncryptedContent(p, object) ==
  CASE ~object.client -> "404"
    [] object.client /\ object.key # None -> serveEncrypted(p, object)
    [] OTHER -> "file"

-----------------------------------------------------------------------------
(* auth: a token is bound to the secret it was signed with. It carries     *)
(* here, too, what its issuer had read, and whether it is promised to live *)
(* on: in a cluster, or if the secret was given.                           *)

IssueToken(p) ==
  [secret |-> p.config.sessionSecret, expiry |-> now + SessionTTL,
   read |-> p.read, kept |-> p.config.cluster \/ p.explicit]

Validate(secret, token) ==
  secret # Empty /\ token.secret = secret /\ now < token.expiry

RequireAdmin(p, token) == p.config.admin /\ Validate(p.config.sessionSecret, token)

-----------------------------------------------------------------------------
Down == [phase |-> "down", version |-> None, read |-> <<>>, explicit |-> FALSE, config |-> Panic,
         manager |-> <<>>, cleaning |-> FALSE, uploads |-> {}, overdue |-> FALSE]

\* the database is closed when StartApp returns
Open == {"serving", "joining", "draining"}

\* the listener is closed by ShutdownWithContext
Listening == {"serving", "joining"}

Phases == {"down", "closed"} \cup Open

ServerInit ==
  /\ process = [r \in Replicas |-> Down]
  /\ tokens = {}
  /\ objects = [f \in Files |-> None]
  /\ now = 0
  /\ count = [secrets |-> 0, changes |-> 0, crashes |-> 0]

Set(r, p) == process' = [process EXCEPT ![r] = p]

Move(r, phase) == Set(r, [process[r] EXCEPT !.phase = phase])

Changed == count.changes < MaxChanges /\ count' = [count EXCEPT !.changes = @ + 1]
Crashed == count.crashes < MaxCrashes /\ count' = [count EXCEPT !.crashes = @ + 1]

\* StartApp up to Listen
StartApp(r) ==
  /\ r \in host.wanted /\ process[r].phase = "down"
  /\ host.binary \in Versions
  /\ Load # Panic
  /\ Set(r, [Down EXCEPT !.phase = "serving", !.version = host.binary,
                         !.read = <<host.configFile, host.environment>>,
                         !.explicit = Merged.sessionSecret # Empty,
                         !.config = Load, !.manager = NewManager(Load)])
  /\ count' = [count EXCEPT !.secrets =
                 IF Load.sessionSecret = Merged.sessionSecret THEN @ ELSE @ + 1]
  /\ UNCHANGED <<host, tokens, objects, now>>

\* SIGTERM from the supervisor: the context ends, the 30 seconds begin, the
\* cleanup is cancelled
Signal(r) ==
  /\ process[r].phase = "serving" /\ r \notin host.wanted
  /\ Move(r, "joining")
  /\ UNCHANGED <<host, tokens, objects, now, count>>

\* Listen returns an error
ListenFails(r) ==
  /\ process[r].phase = "serving" /\ Move(r, "joining")
  /\ Crashed
  /\ UNCHANGED <<host, tokens, objects, now>>

\* select may take a tick of the ticker after the context has ended
runCleanupCycle(r) ==
  /\ process[r].phase \in {"serving", "joining"} /\ ~process[r].cleaning
  /\ process[r].config.cleanup
  /\ Set(r, [process[r] EXCEPT !.cleaning = TRUE])
  /\ UNCHANGED <<host, tokens, objects, now, count>>

CycleEnds(r) ==
  /\ process[r].cleaning
  /\ Set(r, [process[r] EXCEPT !.cleaning = FALSE])
  /\ UNCHANGED <<host, tokens, objects, now, count>>

\* a fault: the cleanup is cancelled and not waited for
NotJoined(r) ==
  /\ process[r].phase = "joining" /\ Move(r, "draining")
  /\ UNCHANGED <<host, tokens, objects, now, count>>

\* the loop has returned; ShutdownWithContext closes the listener
Join(r) ==
  /\ process[r].phase = "joining" /\ ~process[r].cleaning
  /\ Move(r, "draining")
  /\ UNCHANGED <<host, tokens, objects, now, count>>

DeadlinePasses(r) ==
  /\ process[r].phase \in {"joining", "draining"} /\ ~process[r].overdue
  /\ Set(r, [process[r] EXCEPT !.overdue = TRUE])
  /\ UNCHANGED <<host, tokens, objects, now, count>>

\* a fault: the deadline has no effect
WaitsForever(r) ==
  /\ process[r].phase = "draining" /\ process[r].uploads = {}
  /\ Move(r, "closed")
  /\ UNCHANGED <<host, tokens, objects, now, count>>

\* the requests have ended or 30 seconds have passed; the deferred Close
ShutdownWithContext(r) ==
  /\ process[r].phase = "draining"
  /\ process[r].uploads = {} \/ process[r].overdue
  /\ Move(r, "closed")
  /\ UNCHANGED <<host, tokens, objects, now, count>>

Exit(r) ==
  /\ process[r].phase = "closed" /\ Set(r, Down)
  /\ UNCHANGED <<host, tokens, objects, now, count>>

Crash(r) ==
  /\ process[r].phase # "down" /\ Set(r, Down)
  /\ Crashed
  /\ UNCHANGED <<host, tokens, objects, now>>

AdminLogin(r) ==
  /\ process[r].phase \in Listening /\ process[r].config.admin
  /\ Cardinality(tokens) < MaxSessions
  /\ tokens' = tokens \cup {IssueToken(process[r])}
  /\ UNCHANGED <<host, process, objects, now, count>>

\* Upload up to Save
Upload(r, f, client) ==
  /\ process[r].phase \in Listening
  /\ objects[f] = None
  /\ \A other \in Replicas: \A u \in process[other].uploads: u.file # f
  /\ client => process[r].config.e2ee
  /\ Set(r, [process[r] EXCEPT !.uploads = @ \cup
               {[file |-> f, client |-> client,
                 key |-> IF process[r].config.encryption
                         THEN Encrypt(process[r].manager) ELSE None]}])
  /\ UNCHANGED <<host, tokens, objects, now, count>>

\* OnFileUpload: it fails when the database is closed, and the object is
\* rolled back
UploadEnds(r) ==
  \E u \in process[r].uploads:
    /\ Set(r, [process[r] EXCEPT !.uploads = @ \ {u}])
    /\ objects' = IF process[r].phase \in Open
                  THEN [objects EXCEPT ![u.file] = [client |-> u.client, key |-> u.key]]
                  ELSE objects
    /\ UNCHANGED <<host, tokens, now, count>>

Tick ==
  /\ now < MaxNow /\ now' = now + 1
  /\ UNCHANGED <<host, process, tokens, objects, count>>

\* of the processes that run: the host is the operator's, and the starts are
\* the supervisor's
ServerNext ==
  \/ \E r \in Replicas:
       \/ Signal(r) \/ ListenFails(r)
       \/ runCleanupCycle(r) \/ CycleEnds(r)
       \/ Join(r) \/ DeadlinePasses(r) \/ ShutdownWithContext(r)
       \/ Exit(r) \/ Crash(r)
       \/ AdminLogin(r) \/ UploadEnds(r)
       \/ \E f \in Files, client \in BOOLEAN: Upload(r, f, client)
  \/ Tick

===============================================================================
