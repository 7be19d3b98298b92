------------------------------- MODULE Installer ------------------------------
(***************************************************************************)
(* Deployments of the server: one systemd host, which the install and      *)
(* uninstall commands manage (internal/systemd), or a cluster of replicas  *)
(* under another supervisor. A command runs step by step and may fail or   *)
(* be killed between any two; the host may be rebooted.                    *)
(*                                                                         *)
(* A file that is written in place is for a moment incomplete. What        *)
(* systemd does is modelled from the unit and the commands it is given: it *)
(* wants the service after a boot if it is enabled, and starts it whenever *)
(* it is wanted and down, but only so often within one interval: then it   *)
(* gives up. The supervisor of a cluster does not.                         *)
(***************************************************************************)
EXTENDS Server

CONSTANTS
  Host,
  Current,                \* the version that was installed earlier, or runs in the cluster
  DefaultFile, EnvFile,   \* the installer's own two files
  StartLimitBurst         \* of the unit, for its StartLimitIntervalSec

ASSUME InstallerAssumption ==
  /\ Current \in Versions /\ StartLimitBurst \in Nat \ {0}
  /\ Host \in Replicas /\ Deployments = {"systemd", "cluster"}
  /\ SettingsOK(DefaultFile) /\ DefaultFile # NoFile /\ DefaultFile # Malformed
  /\ SettingsOK(EnvFile)

VARIABLES
  deployment,   \* "systemd" or "cluster"
  systemd,      \* the unit file ("absent", "partial", "whole"), whether it is
                \* enabled at boot, whether a restart is under way, and the
                \* directories of the service: StateDir and the private one
                \* behind it
  command,      \* the one that is running, or how the last one ended; whether
                \* it has created the configuration file
  startLimit    \* the starts in this interval, and whether systemd has given up

installerVars == <<deployment, systemd, command>>
vars == <<serverVars, installerVars, startLimit>>

Dirs == {"StateDir", "backingDir"}

Steps == {"binary", "rename", "config", "configWritten", "env",
          "unit", "unitWritten", "enable", "restart", "restarted",
          "disable", "stopped", "purgeConfig", "purgeState", "purgeBacking",
          "done", "none"}

Outcomes == {"none", "failed", "installed", "uninstalled", "purged"}

\* a host without anything, one that an earlier install has set up, or a
\* cluster
Fresh ==
  /\ host = [configFile |-> NoFile, environment |-> NoFile, binary |-> None,
             wanted |-> {}]
  /\ systemd = [unit |-> "absent", enabled |-> FALSE, restarting |-> FALSE, data |-> {}]

Installed ==
  /\ \E s \in Settings["systemd"]:
       host = [configFile |-> s.configFile, environment |-> s.environment,
               binary |-> Current, wanted |-> {Host}]
  /\ systemd = [unit |-> "whole", enabled |-> TRUE, restarting |-> FALSE, data |-> Dirs]

Scheduled ==
  /\ \E s \in Settings["cluster"]:
       host = [configFile |-> s.configFile, environment |-> s.environment,
               binary |-> Current, wanted |-> {}]
  /\ systemd = [unit |-> "absent", enabled |-> FALSE, restarting |-> FALSE, data |-> {}]

Init ==
  /\ ServerInit
  /\ command = [step |-> "none", purge |-> FALSE, version |-> None, created |-> FALSE,
                outcome |-> "none"]
  /\ startLimit = [starts |-> 0, hit |-> FALSE]
  /\ \/ deployment = "systemd" /\ (Fresh \/ Installed)
     \/ deployment = "cluster" /\ Scheduled

-----------------------------------------------------------------------------
(* The operator and the cluster's supervisor. *)

\* the file and the variables are edited; replicas read them when they are
\* started again
Configure ==
  /\ command.step = "none"
  /\ \E s \in Settings[deployment]:
       host' = [host EXCEPT !.configFile = s.configFile, !.environment = s.environment]
  /\ Changed
  /\ UNCHANGED <<process, tokens, objects, now, installerVars>>

Schedule(r) ==
  /\ deployment = "cluster"
  /\ host' = [host EXCEPT !.wanted = IF r \in @ THEN @ \ {r} ELSE @ \cup {r}]
  /\ Changed
  /\ UNCHANGED <<process, tokens, objects, now, installerVars>>

-----------------------------------------------------------------------------
(* The starts of the service: Restart=always, but not beyond the limit. *)

Counted ==
  IF deployment = "systemd"
  THEN /\ ~startLimit.hit /\ startLimit.starts < StartLimitBurst
       /\ startLimit' = [startLimit EXCEPT !.starts = @ + 1]
  ELSE UNCHANGED startLimit

Start(r) == StartApp(r) /\ Counted /\ UNCHANGED installerVars

Startable ==
  /\ deployment = "systemd"
  /\ Host \in host.wanted /\ process[Host].phase = "down" /\ ~startLimit.hit

\* the process panics, or there is none to execute
FailingStart ==
  /\ Startable /\ (Load = Panic \/ host.binary \notin Versions)
  /\ Counted
  /\ UNCHANGED <<serverVars, installerVars>>

StartLimitHit ==
  /\ Startable /\ startLimit.starts = StartLimitBurst
  /\ startLimit' = [startLimit EXCEPT !.hit = TRUE]
  /\ UNCHANGED <<serverVars, installerVars>>

\* StartLimitIntervalSec, which systemd looks at when it is to start the service;
\* one that was given up stays down
IntervalPasses ==
  /\ process[Host].phase = "down"
  /\ startLimit.starts > 0 /\ startLimit' = [startLimit EXCEPT !.starts = 0]
  /\ UNCHANGED <<serverVars, installerVars>>

-----------------------------------------------------------------------------
(* The steps of the commands. *)

Idle == deployment = "systemd" /\ command.step = "none"

Goto(step) == command' = [command EXCEPT !.step = step]

\* a step that does nothing but h to the host and s to systemd
Do(step, next, h, s) ==
  /\ command.step = step /\ Goto(next)
  /\ host' = h /\ systemd' = s
  /\ UNCHANGED <<process, tokens, objects, now, count, deployment>>

Finish(step, outcome) ==
  /\ command.step = step
  /\ command' = [command EXCEPT !.step = "none", !.outcome = outcome]
  /\ UNCHANGED <<serverVars, deployment, systemd>>

\* run from the installed executable itself there is nothing to copy
Install(v) ==
  /\ Idle /\ Changed
  /\ command' = [step |-> IF v = host.binary THEN "config" ELSE "binary",
                 purge |-> FALSE, version |-> v, created |-> FALSE,
                 outcome |-> "none"]
  /\ UNCHANGED <<host, process, tokens, objects, now, deployment, systemd>>

\* a fault: the executable is written in place
CopyInPlace == Do("binary", "rename", [host EXCEPT !.binary = Partial], systemd)

\* to a temporary file
CopyBinary == Do("binary", "rename", host, systemd)

RenameBinary ==
  Do("rename", "config", [host EXCEPT !.binary = command.version], systemd)

\* a fault: the defaults are written whatever is there
AlwaysWriteConfig ==
  Do("config", "configWritten", [host EXCEPT !.configFile = Malformed], systemd)

\* a part of the defaults may parse already, or not; a file that is there is
\* kept, and be it such a part
WriteDefaultConfig ==
  IF host.configFile = NoFile
  THEN \E part \in {Malformed, DefaultFile}:
         /\ command.step = "config"
         /\ command' = [command EXCEPT !.step = "configWritten", !.created = TRUE]
         /\ host' = [host EXCEPT !.configFile = part]
         /\ UNCHANGED <<process, tokens, objects, now, count, deployment, systemd>>
  ELSE Do("config", "env", host, systemd)

ConfigWritten ==
  Do("configWritten", "env", [host EXCEPT !.configFile = DefaultFile], systemd)

\* comments only: every part of it is as good as the whole
WriteEnvFile ==
  Do("env", "unit",
     [host EXCEPT !.environment = IF @ = NoFile THEN EnvFile ELSE @], systemd)

WriteUnit == Do("unit", "unitWritten", host, [systemd EXCEPT !.unit = "partial"])

\* and daemon-reload
UnitWritten == Do("unitWritten", "enable", host, [systemd EXCEPT !.unit = "whole"])

Enable == Do("enable", "restart", host, [systemd EXCEPT !.enabled = TRUE])

\* a fault: systemctl start, which leaves a running service alone
StartService ==
  Do("restart", "restarted", [host EXCEPT !.wanted = {Host}],
     [systemd EXCEPT !.data = Dirs])

\* systemctl restart: systemd goes on with it without the command, too
Restart ==
  Do("restart", "restarted", [host EXCEPT !.wanted = {}],
     [systemd EXCEPT !.restarting = TRUE])

\* the old process is gone; StateDirectory= makes the directories
Restarted ==
  /\ systemd.restarting /\ process[Host].phase = "down"
  /\ startLimit.starts < StartLimitBurst
  /\ startLimit' = [startLimit EXCEPT !.hit = FALSE]
  /\ systemd' = [systemd EXCEPT !.restarting = FALSE, !.data = Dirs]
  /\ host' = [host EXCEPT !.wanted = {Host}]
  /\ UNCHANGED <<process, tokens, objects, now, count, deployment, command>>

\* and so is the command that waits for it
RestartRefused ==
  /\ systemd.restarting /\ process[Host].phase = "down"
  /\ startLimit.starts = StartLimitBurst
  /\ startLimit' = [startLimit EXCEPT !.hit = TRUE]
  /\ systemd' = [systemd EXCEPT !.restarting = FALSE]
  /\ command' = IF command.step = "restarted"
                THEN [command EXCEPT !.step = "none", !.outcome = "failed"]
                ELSE command
  /\ UNCHANGED <<serverVars, deployment>>

InstallDone == ~systemd.restarting /\ Finish("restarted", "installed")

-----------------------------------------------------------------------------
Uninstall(purge) ==
  /\ Idle /\ Changed
  /\ command' = [step |-> CASE systemd.unit # "absent"           -> "disable"
                            [] systemd.unit = "absent" /\ purge  -> "purgeConfig"
                            [] OTHER                             -> "done",
                 purge |-> purge, version |-> None, created |-> FALSE,
                 outcome |-> "none"]
  /\ UNCHANGED <<host, process, tokens, objects, now, deployment, systemd>>

\* a fault: the configuration and the secrets stay
KeepConfigDir == Do("purgeConfig", "purgeState", host, systemd)

\* a fault: the unit file is removed before the service is stopped
RemovedFirst ==
  Do("disable", "stopped", host, [systemd EXCEPT !.unit = "absent"])

\* systemctl disable --now
Disable ==
  Do("disable", "stopped", [host EXCEPT !.wanted = {}],
     [systemd EXCEPT !.enabled = FALSE, !.restarting = FALSE])

\* --now waits for the process; and daemon-reload
RemoveUnit ==
  /\ process[Host].phase = "down"
  /\ Do("stopped", IF command.purge THEN "purgeConfig" ELSE "done", host,
        [systemd EXCEPT !.unit = "absent"])

PurgeConfigDir ==
  Do("purgeConfig", "purgeState",
     [host EXCEPT !.configFile = NoFile, !.environment = NoFile], systemd)

\* StateDir is a symbolic link
PurgeStateDir ==
  Do("purgeState", "purgeBacking", host, [systemd EXCEPT !.data = @ \ {"StateDir"}])

\* the uploads and the database
PurgeBackingDir ==
  /\ command.step = "purgeBacking" /\ Goto("done")
  /\ systemd' = [systemd EXCEPT !.data = @ \ {"backingDir"}]
  /\ objects' = [f \in Files |-> None]
  /\ UNCHANGED <<host, process, tokens, now, count, deployment>>

UninstallDone ==
  Finish("done", IF command.purge THEN "purged" ELSE "uninstalled")

-----------------------------------------------------------------------------
\* a step of the command fails, or it is killed
Abort == command.step # "none" /\ Finish(command.step, "failed")

\* the service comes back if it is enabled and its unit can be read
Reboot ==
  /\ deployment = "systemd" /\ Crashed
  /\ startLimit' = [starts |-> 0, hit |-> FALSE]
  /\ process' = [process EXCEPT ![Host] = Down]
  /\ systemd' = [systemd EXCEPT !.restarting = FALSE]
  /\ host' = [host EXCEPT !.wanted =
                IF systemd.enabled /\ systemd.unit = "whole" THEN {Host} ELSE {}]
  /\ command' = IF command.step = "none" THEN command
                ELSE [command EXCEPT !.step = "none", !.outcome = "failed"]
  /\ UNCHANGED <<tokens, objects, now, deployment>>

\* of the operator, the commands and what runs: no start of the service
Operation ==
  \/ ServerNext /\ UNCHANGED installerVars
  \/ Configure
  \/ \E r \in Replicas: Schedule(r)
  \/ \E v \in Versions: Install(v)
  \/ CopyBinary \/ RenameBinary \/ WriteDefaultConfig \/ ConfigWritten
  \/ WriteEnvFile \/ WriteUnit \/ UnitWritten \/ Enable \/ Restart
  \/ InstallDone
  \/ \E purge \in BOOLEAN: Uninstall(purge)
  \/ Disable \/ RemoveUnit \/ PurgeConfigDir \/ PurgeStateDir \/ PurgeBackingDir
  \/ UninstallDone
  \/ Abort

Next ==
  \/ Operation /\ UNCHANGED startLimit
  \/ \E r \in Replicas: Start(r)
  \/ FailingStart \/ StartLimitHit \/ IntervalPasses
  \/ Restarted \/ RestartRefused
  \/ Reboot

\* A stopping process ends: a cycle ends (its context is cancelled), select
\* does not forever prefer the ticker to the ended context, the deadline
\* passes. The supervisor signals; it starts what is wanted or, systemd at the
\* limit, gives it up. Requests may hang, commands may stop anywhere, and the
\* interval need not pass between two starts.
Fairness ==
  /\ \A r \in Replicas:
       /\ WF_vars(Start(r)) /\ WF_serverVars(Signal(r))
       /\ WF_serverVars(CycleEnds(r)) /\ SF_serverVars(Join(r))
       /\ WF_serverVars(DeadlinePasses(r)) /\ WF_serverVars(ShutdownWithContext(r))
       /\ WF_serverVars(Exit(r))
  /\ WF_vars(StartLimitHit)
  /\ WF_vars(Restarted) /\ WF_vars(RestartRefused)

Spec == Init /\ [][Next]_vars /\ Fairness

-----------------------------------------------------------------------------
HostTypeOK ==
  /\ deployment \in Deployments
  /\ DOMAIN host = {"configFile", "environment", "binary", "wanted"}
  /\ host.configFile \in {s.configFile: s \in Settings[deployment]}
       \cup {DefaultFile, NoFile, Malformed}
  /\ host.environment \in {s.environment: s \in Settings[deployment]}
       \cup {EnvFile, NoFile}
  /\ host.binary \in Versions \cup {None}
  /\ host.wanted \in SUBSET Replicas
  /\ systemd \in [unit: {"absent", "partial", "whole"}, enabled: BOOLEAN,
                  restarting: BOOLEAN, data: SUBSET Dirs]
  /\ command \in [step: Steps, purge: BOOLEAN, version: Versions \cup {None},
                  created: BOOLEAN, outcome: Outcomes]
  /\ \A r \in Replicas: process[r].phase \in Phases

TypeOK ==
  /\ HostTypeOK
  /\ startLimit \in [starts: 0 .. StartLimitBurst, hit: BOOLEAN]

\* Whoever listens honours the unexpired sessions that another process has
\* issued from the same settings, if they run as a cluster or have a secret: a
\* browser may be sent to any replica, and replicas are restarted. That the
\* secret is there is verified before one could be generated
\* (verifyConfiguration).
SessionsShared ==
  \A token \in tokens, r \in Replicas:
    /\ process[r].phase \in Listening /\ process[r].read = token.read
    /\ token.kept /\ now < token.expiry
    => RequireAdmin(process[r], token)

\* Nobody ever gets the ciphertext of a file that is encrypted at rest, and
\* everybody gets the file from every replica that has its key among its
\* identities, whether or not that one encrypts new files: keys may be
\* rotated, and encryption be turned on and off, in any order of restarts
\* (Download, ClientEncryptedContent, NewManager).
EncryptedFilesServed ==
  \A f \in Files, r \in Replicas:
    /\ objects[f] # None /\ process[r].phase \in Listening
    /\ objects[f].key # None
    => LET p == process[r]
           answer == IF objects[f].client THEN ClientEncryptedContent(p, objects[f])
                     ELSE Download(p, objects[f])
           keys == {p.config.identity} \cup Range(p.config.identityFile)
       IN answer = IF objects[f].key \in keys THEN "file" ELSE "500"

\* The database is closed last: no cleanup cycle runs on a closed one, and a
\* request is on one only if the 30 seconds had passed (StartApp).
ClosedLast ==
  \A r \in Replicas:
    process[r].phase = "closed" =>
      ~process[r].cleaning /\ (process[r].uploads = {} \/ process[r].overdue)

\* After an install the host has what was installed, however often commands were
\* broken off before: the executable, the unit, enabled, a configuration file,
\* and a service that systemd wants; no process of an earlier version survives
\* it (docs/systemd.md, Upgrades). A configuration that the install has created
\* is whole. One that it has found is kept as it is: if an install was killed
\* while it wrote the defaults, the next one keeps the torn file, succeeds, and
\* the service panics at its starts (systemd.go:143-152).
InstallTakesEffect ==
  command.step = "none" /\ command.outcome = "installed" =>
    /\ host.binary = command.version
    /\ systemd.unit = "whole" /\ systemd.enabled
    /\ host.wanted = {Host} \/ systemd.restarting
    /\ process[Host].phase # "down" => process[Host].version = command.version
    /\ host.configFile # NoFile
    /\ command.created => host.configFile # Malformed

\* An uninstall with purge, whatever commands were broken off before, leaves
\* nothing but the executable: no configuration and no secrets when it ends,
\* and from then on, until the operator writes or installs something, no unit,
\* no directories, no stored files, and nothing that runs and could write one
\* again (docs/systemd.md, Uninstall).
PurgeLeavesNothing ==
  LET ends  == command.step = "done" /\ command.purge
      ended == command.step = "none" /\ command.outcome = "purged"
  IN /\ ends => host.configFile = NoFile /\ host.environment = NoFile
     /\ ends \/ ended =>
          /\ systemd = [unit |-> "absent", enabled |-> FALSE, restarting |-> FALSE,
                        data |-> {}]
          /\ host.wanted = {} /\ process[Host].phase = "down"
          /\ \A f \in Files: objects[f] = None

\* At every moment at which the host could be booted into the service there is
\* something to boot: the executable is whole and its configuration exists,
\* also in the middle of an upgrade, or after one that was broken off
\* (installBinary, Uninstall).
ServiceStartable ==
  systemd.enabled =>
    host.binary \in Versions /\ host.configFile # NoFile /\ systemd.unit # "absent"

\* No command but an uninstall with purge touches a configuration that it has
\* not begun itself, a secrets file or a stored file (docs/systemd.md: "an
\* existing config is never overwritten", "Config and data are untouched").
KeptUntilPurge ==
  [][/\ host'.configFile # host.configFile =>
          \/ command.step \in {"none", "configWritten", "purgeConfig"}
          \/ host.configFile = NoFile
     /\ host'.environment # host.environment =>
          \/ command.step \in {"none", "purgeConfig"}
          \/ host.environment = NoFile
     /\ \A f \in Files: objects[f] # None /\ objects'[f] # objects[f] =>
          command.step = "purgeBacking"]_vars

\* A process that has been told to stop, or cannot listen, ends, although its
\* requests may hang.
ShutdownEnds ==
  \A r \in Replicas: process[r].phase = "joining" ~> process[r].phase = "down"

\* A replica that is wanted serves again, after crashes, failures to listen,
\* restarts and reboots, or its settings do not let it, or systemd has given it
\* up: after StartLimitBurst starts in one interval the service stays down until
\* an install or a boot, although docs/systemd.md:4-5 says of "any failure" that
\* "systemd's restart policy brings it back".
ServiceReturns ==
  \A r \in Replicas:
    r \in host.wanted ~>
      \/ process[r].phase = "serving"
      \/ r \notin host.wanted \/ startLimit.hit \/ Load = Panic

=============================================================================
