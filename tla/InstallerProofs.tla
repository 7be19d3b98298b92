--------------------------- MODULE InstallerProofs ---------------------------
(***************************************************************************)
(* Proofs about Installer and the Server that it deploys.                  *)
(***************************************************************************)
EXTENDS Installer, TLAPS

USE ServerAssumption, InstallerAssumption

-----------------------------------------------------------------------------
(* Processes. *)

ProcessFields == {"phase", "version", "read", "explicit", "config", "manager",
                  "cleaning", "uploads", "overdue"}

\* a process that is down has nothing; one that has joined its cleanup is not
\* cleaning; one that has closed its database has waited for its requests
ProcessOK(r) ==
  /\ DOMAIN process[r] = ProcessFields
  /\ process[r].phase \in Phases
  /\ process[r].phase = "down" => process[r] = Down
  /\ process[r].phase \in {"draining", "closed"} => ~process[r].cleaning
  /\ process[r].phase = "closed" => process[r].uploads = {} \/ process[r].overdue

ProcessInv ==
  /\ DOMAIN process = Replicas
  /\ \A r \in Replicas: ProcessOK(r)

\* Down, as a record.
LEMMA DownFields ==
  /\ DOMAIN Down = ProcessFields
  /\ Down.phase = "down" /\ Down.uploads = {} /\ ~Down.cleaning
  BY DEF Down, ProcessFields

\* A step of one process leaves the others alone.
LEMMA SetProcess ==
  ASSUME ProcessInv, NEW r \in Replicas, NEW p, Set(r, p)
  PROVE  /\ DOMAIN process' = Replicas
         /\ process'[r] = p
         /\ \A q \in Replicas \ {r}: process'[q] = process[q]
  BY DEF ProcessInv, Set

LEMMA MoveProcess ==
  ASSUME ProcessInv, NEW r \in Replicas, NEW phase, Move(r, phase)
  PROVE  /\ DOMAIN process' = Replicas
         /\ DOMAIN process'[r] = ProcessFields
         /\ process'[r].phase = phase
         /\ \A x \in ProcessFields \ {"phase"}: process'[r][x] = process[r][x]
         /\ \A q \in Replicas \ {r}: process'[q] = process[q]
<1> DEFINE p == [process[r] EXCEPT !.phase = phase]
<1>1. Set(r, p)
  BY DEF Move
<1>2. DOMAIN process[r] = ProcessFields
  BY DEF ProcessInv, ProcessOK
<1>3. /\ DOMAIN p = ProcessFields /\ p.phase = phase
      /\ \A x \in ProcessFields \ {"phase"}: p[x] = process[r][x]
  BY <1>2 DEF ProcessFields
<1> HIDE DEF p
<1> QED
  BY <1>1, <1>3, SetProcess

LEMMA SetKeepsOthers ==
  ASSUME ProcessInv, NEW r \in Replicas, NEW p, Set(r, p), ProcessOK(r)'
  PROVE  ProcessInv'
  BY SetProcess DEF ProcessInv, ProcessOK

LEMMA MoveKeepsOthers ==
  ASSUME ProcessInv, NEW r \in Replicas, NEW phase, Move(r, phase), ProcessOK(r)'
  PROVE  ProcessInv'
  BY SetKeepsOthers DEF Move

LEMMA StartProcess ==
  ASSUME ProcessInv, NEW r \in Replicas, StartApp(r)
  PROVE  ProcessInv'
<1> DEFINE p == [Down EXCEPT !.phase = "serving", !.version = host.binary,
                         !.read = <<host.configFile, host.environment>>,
                         !.explicit = Merged.sessionSecret # Empty,
                         !.config = Load, !.manager = NewManager(Load)]
<1>1. Set(r, p)
  BY DEF StartApp
<1>2. DOMAIN p = ProcessFields /\ p.phase = "serving"
  BY DownFields DEF ProcessFields
<1> HIDE DEF p
<1>3. process'[r] = p
  BY <1>1, SetProcess
<1> QED
  BY <1>1, <1>2, <1>3, SetKeepsOthers DEF ProcessOK, Phases, Open

\* Signal, ListenFails, Join, ShutdownWithContext
LEMMA PhaseProcess ==
  ASSUME ProcessInv, NEW r \in Replicas,
         Signal(r) \/ ListenFails(r) \/ Join(r) \/ ShutdownWithContext(r)
  PROVE  ProcessInv'
<1>1. CASE Signal(r) \/ ListenFails(r)
  <2>1. Move(r, "joining")
    BY <1>1 DEF Signal, ListenFails
  <2> QED
    BY <2>1, MoveProcess, MoveKeepsOthers DEF ProcessOK, Phases, Open
<1>2. CASE Join(r)
  <2>1. Move(r, "draining") /\ ~process[r].cleaning
    BY <1>2 DEF Join
  <2>2. ~process'[r].cleaning
    BY <2>1, MoveProcess DEF ProcessFields
  <2> QED
    BY <2>1, <2>2, MoveProcess, MoveKeepsOthers DEF ProcessOK, Phases, Open
<1>3. CASE ShutdownWithContext(r)
  <2>1. Move(r, "closed") /\ (process[r].uploads = {} \/ process[r].overdue)
        /\ ~process[r].cleaning
    BY <1>3 DEF ShutdownWithContext, ProcessInv, ProcessOK
  <2>2. ~process'[r].cleaning /\ (process'[r].uploads = {} \/ process'[r].overdue)
    BY <2>1, MoveProcess DEF ProcessFields
  <2> QED
    BY <2>1, <2>2, MoveProcess, MoveKeepsOthers DEF ProcessOK, Phases, Open
<1> QED
  BY <1>1, <1>2, <1>3

\* A field that is not the phase.
LEMMA SetField ==
  ASSUME ProcessInv, NEW r \in Replicas, NEW x \in ProcessFields \ {"phase"}, NEW y,
         Set(r, [process[r] EXCEPT ![x] = y])
  PROVE  /\ DOMAIN process' = Replicas
         /\ DOMAIN process'[r] = ProcessFields
         /\ process'[r][x] = y
         /\ \A z \in ProcessFields \ {x}: process'[r][z] = process[r][z]
         /\ \A q \in Replicas \ {r}: process'[q] = process[q]
<1> DEFINE p == [process[r] EXCEPT ![x] = y]
<1>1. DOMAIN process[r] = ProcessFields
  BY DEF ProcessInv, ProcessOK
<1>2. /\ DOMAIN p = ProcessFields /\ p[x] = y
      /\ \A z \in ProcessFields \ {x}: p[z] = process[r][z]
  BY <1>1
<1>3. Set(r, p)
  OBVIOUS
<1> HIDE DEF p
<1> QED
  BY <1>2, <1>3, SetProcess

LEMMA SetOneField ==
  ASSUME ProcessInv, NEW r \in Replicas, NEW x \in {"cleaning", "uploads", "overdue"},
         NEW y, Set(r, [process[r] EXCEPT ![x] = y])
  PROVE  /\ DOMAIN process'[r] = ProcessFields
         /\ process'[r]["phase"] = process[r]["phase"]
         /\ process'[r][x] = y
         /\ \A z \in {"cleaning", "uploads", "overdue"} \ {x}:
              process'[r][z] = process[r][z]
<1>1. x \in ProcessFields \ {"phase"}
  BY DEF ProcessFields
<1>2. "phase" \in ProcessFields \ {x}
  BY DEF ProcessFields
<1>3. \A z \in {"cleaning", "uploads", "overdue"} \ {x}: z \in ProcessFields \ {x}
  BY DEF ProcessFields
<1> QED
  BY <1>1, <1>2, <1>3, SetField

\* runCleanupCycle, CycleEnds, DeadlinePasses, Upload, UploadEnds
LEMMA FieldProcess ==
  ASSUME ProcessInv, NEW r \in Replicas,
         \/ runCleanupCycle(r) \/ CycleEnds(r) \/ DeadlinePasses(r)
         \/ (\E f \in Files, client \in BOOLEAN: Upload(r, f, client))
         \/ UploadEnds(r)
  PROVE  ProcessInv'
<1>1. CASE runCleanupCycle(r)
  <2>1. /\ process[r].phase \in {"serving", "joining"}
        /\ Set(r, [process[r] EXCEPT !["cleaning"] = TRUE])
    BY <1>1 DEF runCleanupCycle
  <2>2. /\ DOMAIN process'[r] = ProcessFields
        /\ process'[r]["phase"] = process[r]["phase"]
    BY <2>1, SetOneField
  <2> QED
    BY <2>1, <2>2, SetKeepsOthers DEF ProcessOK, Phases, Open
<1>2. CASE CycleEnds(r)
  <2>1. process[r].cleaning /\ Set(r, [process[r] EXCEPT !["cleaning"] = FALSE])
    BY <1>2 DEF CycleEnds
  <2>2. /\ DOMAIN process'[r] = ProcessFields
        /\ process'[r]["phase"] = process[r]["phase"]
        /\ ~process'[r]["cleaning"]
        /\ process'[r]["uploads"] = process[r]["uploads"]
        /\ process'[r]["overdue"] = process[r]["overdue"]
    BY <2>1, SetOneField
  <2>3. process[r].phase # "down"
    BY <2>1, DownFields DEF ProcessInv, ProcessOK
  <2> QED
    BY <2>1, <2>2, <2>3, SetKeepsOthers DEF ProcessInv, ProcessOK
<1>3. CASE DeadlinePasses(r)
  <2>1. /\ process[r].phase \in {"joining", "draining"}
        /\ Set(r, [process[r] EXCEPT !["overdue"] = TRUE])
    BY <1>3 DEF DeadlinePasses
  <2>2. /\ DOMAIN process'[r] = ProcessFields
        /\ process'[r]["phase"] = process[r]["phase"]
        /\ process'[r]["cleaning"] = process[r]["cleaning"]
    BY <2>1, SetOneField
  <2> QED
    BY <2>1, <2>2, SetKeepsOthers DEF ProcessInv, ProcessOK, Phases, Open
<1>4. ASSUME NEW f \in Files, NEW client \in BOOLEAN, Upload(r, f, client)
      PROVE  ProcessInv'
  <2>1. PICK ups : Set(r, [process[r] EXCEPT !["uploads"] = ups])
    BY <1>4 DEF Upload
  <2>2. process[r].phase \in {"serving", "joining"}
    BY <1>4 DEF Upload, Listening
  <2>3. /\ DOMAIN process'[r] = ProcessFields
        /\ process'[r]["phase"] = process[r]["phase"]
    BY <2>1, SetOneField
  <2> QED
    BY <2>1, <2>2, <2>3, SetKeepsOthers DEF ProcessOK, Phases, Open
<1>5. CASE UploadEnds(r)
  <2>1. PICK u \in process[r].uploads :
          Set(r, [process[r] EXCEPT !["uploads"] = process[r].uploads \ {u}])
    BY <1>5 DEF UploadEnds
  <2>2. /\ DOMAIN process'[r] = ProcessFields
        /\ process'[r]["uploads"] = process[r].uploads \ {u}
        /\ process'[r]["phase"] = process[r]["phase"]
        /\ process'[r]["cleaning"] = process[r]["cleaning"]
        /\ process'[r]["overdue"] = process[r]["overdue"]
    BY <2>1, SetOneField
  <2>3. process[r].phase # "down"
    BY <2>1, DownFields DEF ProcessInv, ProcessOK
  <2> QED
    BY <2>1, <2>2, <2>3, SetKeepsOthers DEF ProcessInv, ProcessOK
<1> QED
  BY <1>1, <1>2, <1>3, <1>4, <1>5

LEMMA EndProcess ==
  ASSUME ProcessInv, NEW r \in Replicas, Set(r, Down)
  PROVE  ProcessInv'
  BY DownFields, SetProcess, SetKeepsOthers DEF ProcessOK, Phases

LEMMA StepProcess == ProcessInv /\ [Next]_vars => ProcessInv'
<1> SUFFICES ASSUME ProcessInv, [Next]_vars
             PROVE  ProcessInv'
  OBVIOUS
<1>1. ASSUME ServerNext
      PROVE  ProcessInv'
  <2>1. ASSUME NEW r \in Replicas, Exit(r) \/ Crash(r)
        PROVE  ProcessInv'
    BY <2>1, EndProcess DEF Exit, Crash
  <2>2. ASSUME Tick \/ \E r \in Replicas: AdminLogin(r)
        PROVE  ProcessInv'
    BY <2>2 DEF Tick, AdminLogin, ProcessInv, ProcessOK
  <2> QED
    BY <1>1, <2>1, <2>2, PhaseProcess, FieldProcess DEF ServerNext
<1>2. CASE Reboot
  BY <1>2, EndProcess DEF Reboot, Set
<1>3. CASE UNCHANGED process
  BY <1>3 DEF ProcessInv, ProcessOK
<1>4. CASE \E r \in Replicas: Start(r)
  BY <1>4, StartProcess DEF Start
<1> QED
  BY <1>1, <1>2, <1>3, <1>4
  DEF Next, Operation, Start, FailingStart, StartLimitHit, IntervalPasses,
      RestartRefused, vars, serverVars, Configure, Schedule, Install, CopyBinary,
      RenameBinary, WriteDefaultConfig, ConfigWritten, WriteEnvFile, WriteUnit,
      UnitWritten, Enable, Restart, Restarted, InstallDone, Uninstall, Disable,
      RemoveUnit, PurgeConfigDir, PurgeStateDir, PurgeBackingDir, UninstallDone,
      Abort, Do, Finish

LEMMA InitProcess == Init => ProcessInv
  BY DownFields DEF Init, ServerInit, ProcessInv, ProcessOK, Phases

\* The database is closed last: a process that has closed it has no cleanup
\* cycle left, and a request only if the 30 seconds had passed, whatever is
\* signalled, fails or is killed meanwhile (StartApp).
THEOREM DatabaseClosedLast == Spec => []ClosedLast
<1>1. ProcessInv => ClosedLast
  BY DEF ProcessInv, ProcessOK, ClosedLast
<1> QED
  BY <1>1, InitProcess, StepProcess, PTL DEF Spec

-----------------------------------------------------------------------------
(* The host and its commands. *)

\* the steps after the executable has been replaced, after a configuration
\* file has been begun, and after the unit file has been removed
Applied == {"config", "configWritten", "env", "unit", "unitWritten", "enable",
            "restart", "restarted"}
Configured == Applied \ {"config"}
Purging == {"purgeConfig", "purgeState", "purgeBacking", "done"}

\* nothing runs, and nothing would start it
Quiet ==
  /\ ~systemd.enabled /\ ~systemd.restarting
  /\ host.wanted = {} /\ process[Host].phase = "down"

\* the service is wanted, and is what is installed
Running ==
  /\ host.wanted = {Host}
  /\ process[Host].phase # "down" => process[Host].version = host.binary

\* what a command has achieved before each of its steps
InstallTrack ==
  /\ command.step \in {"binary", "rename"} \cup Applied => command.version \in Versions
  /\ command.step \in Applied => host.binary = command.version
  /\ command.step \in {"binary", "rename", "config"} => ~command.created
  /\ command.step \in Configured => host.configFile # NoFile
  /\ command.step \in Configured \ {"configWritten"} /\ command.created =>
       host.configFile # Malformed
  /\ command.step \in {"enable", "restart", "restarted"} => systemd.unit = "whole"
  /\ command.step \in {"restart", "restarted"} => systemd.enabled
  /\ command.step = "restarted" /\ ~systemd.restarting => Running
  /\ command.step = "none" /\ command.outcome = "installed" =>
       /\ host.binary = command.version
       /\ systemd.unit = "whole" /\ systemd.enabled /\ ~systemd.restarting
       /\ host.configFile # NoFile
       /\ command.created => host.configFile # Malformed
       /\ Running

UninstallTrack ==
  /\ command.step = "stopped" =>
       ~systemd.enabled /\ ~systemd.restarting /\ host.wanted = {}
  /\ command.step \in Purging => systemd.unit = "absent"
  /\ \/ command.step \in {"purgeState", "purgeBacking"}
     \/ command.step = "done" /\ command.purge
     => host.configFile = NoFile /\ host.environment = NoFile
  /\ command.step = "purgeBacking" => "StateDir" \notin systemd.data
  /\ \/ command.step = "done" /\ command.purge
     \/ command.step = "none" /\ command.outcome = "purged"
     => /\ systemd.unit = "absent" /\ systemd.data = {}
        /\ \A f \in Files: objects[f] = None

HostTrack ==
  /\ deployment = "cluster" =>
       /\ command.step = "none" /\ command.outcome = "none"
       /\ systemd.unit = "absent" /\ ~systemd.enabled /\ ~systemd.restarting
  /\ deployment = "systemd" =>
       /\ host.wanted \subseteq {Host}
       /\ \A r \in Replicas \ {Host}: process[r].phase = "down"
       /\ systemd.unit = "absent" => Quiet
  /\ systemd.enabled => host.binary \in Versions /\ host.configFile # NoFile

HostInv ==
  /\ HostTypeOK /\ ProcessInv
  /\ InstallTrack /\ UninstallTrack /\ HostTrack

\* What a step of the server can do: start what is wanted, with the
\* executable that is there, and go on with what runs.
ServerEffect ==
  /\ UNCHANGED <<host, installerVars>>
  /\ \A r \in Replicas:
       /\ process[r].phase = "down" /\ r \notin host.wanted =>
            process'[r].phase = "down"
       /\ process'[r].phase # "down" =>
            process'[r].version =
              IF process[r].phase = "down" THEN host.binary ELSE process[r].version
  /\ (\A r \in Replicas: process[r].phase = "down") => UNCHANGED objects

LEMMA StartEffect ==
  ASSUME ProcessInv, NEW r \in Replicas, StartApp(r), UNCHANGED installerVars
  PROVE  ServerEffect
<1> DEFINE p == [Down EXCEPT !.phase = "serving", !.version = host.binary,
                         !.read = <<host.configFile, host.environment>>,
                         !.explicit = Merged.sessionSecret # Empty,
                         !.config = Load, !.manager = NewManager(Load)]
<1>1. Set(r, p) /\ UNCHANGED <<host, objects>> /\ r \in host.wanted
      /\ process[r].phase = "down"
  BY DEF StartApp
<1>2. p.version = host.binary
  BY DownFields DEF ProcessFields
<1> HIDE DEF p
<1>3. process'[r] = p /\ \A q \in Replicas \ {r}: process'[q] = process[q]
  BY <1>1, SetProcess
<1> QED
  BY <1>1, <1>2, <1>3 DEF ServerEffect

LEMMA FieldEffect ==
  ASSUME ProcessInv, NEW r \in Replicas, NEW x \in ProcessFields \ {"phase", "version"},
         NEW y, Set(r, [process[r] EXCEPT ![x] = y]), process[r].phase # "down",
         UNCHANGED <<host, installerVars>>
  PROVE  ServerEffect
<1>1. /\ process'[r]["phase"] = process[r]["phase"]
      /\ process'[r]["version"] = process[r]["version"]
      /\ \A q \in Replicas \ {r}: process'[q] = process[q]
  BY SetField DEF ProcessFields
<1> QED
  BY <1>1 DEF ServerEffect

LEMMA ServerSteps ==
  ASSUME ProcessInv, ServerNext, UNCHANGED installerVars
  PROVE  ServerEffect
<1>1. ASSUME NEW r \in Replicas, NEW phase, Move(r, phase), process[r].phase # "down",
             UNCHANGED <<host, objects>>
      PROVE  ServerEffect
  <2>1. /\ process'[r]["version"] = process[r]["version"]
        /\ \A q \in Replicas \ {r}: process'[q] = process[q]
    BY <1>1, MoveProcess DEF ProcessFields
  <2> QED
    BY <1>1, <2>1 DEF ServerEffect
<1>2. ASSUME NEW r \in Replicas,
             Signal(r) \/ ListenFails(r) \/ Join(r) \/ ShutdownWithContext(r)
      PROVE  ServerEffect
  BY <1>1, <1>2 DEF Signal, ListenFails, Join, ShutdownWithContext
<1>3. ASSUME NEW r \in Replicas, Exit(r) \/ Crash(r)
      PROVE  ServerEffect
  <2>1. Set(r, Down) /\ UNCHANGED <<host, objects>>
    BY <1>3 DEF Exit, Crash
  <2> QED
    BY <2>1, SetProcess, DownFields DEF ServerEffect
<1>4. ASSUME NEW r \in Replicas,
             \/ runCleanupCycle(r) \/ CycleEnds(r) \/ DeadlinePasses(r)
             \/ (\E f \in Files, client \in BOOLEAN: Upload(r, f, client))
             \/ UploadEnds(r)
      PROVE  ServerEffect
  <2>1. process[r].phase # "down"
    BY <1>4, DownFields
    DEF runCleanupCycle, CycleEnds, DeadlinePasses, Upload, Listening, UploadEnds,
        ProcessInv, ProcessOK
  <2>2. UNCHANGED host
    BY <1>4 DEF runCleanupCycle, CycleEnds, DeadlinePasses, Upload, UploadEnds
  <2>3. PICK x \in {"cleaning", "overdue", "uploads"} :
          \E y : Set(r, [process[r] EXCEPT ![x] = y])
    BY <1>4 DEF runCleanupCycle, CycleEnds, DeadlinePasses, Upload, UploadEnds
  <2>4. x \in ProcessFields \ {"phase", "version"}
    BY DEF ProcessFields
  <2> QED
    BY <2>1, <2>2, <2>3, <2>4, FieldEffect
<1>5. ASSUME Tick \/ \E r \in Replicas: AdminLogin(r)
      PROVE  ServerEffect
  BY <1>5 DEF Tick, AdminLogin, ServerEffect
<1> QED
  BY <1>2, <1>3, <1>4, <1>5 DEF ServerNext

LEMMA ServerHostInv ==
  ASSUME HostInv, ServerEffect, ProcessInv'
  PROVE  HostInv'
<1>1. /\ UNCHANGED <<host, deployment, systemd, command>>
      /\ Host \in Replicas
  BY DEF ServerEffect, installerVars
<1>2. HostTypeOK'
  BY <1>1 DEF HostInv, HostTypeOK, ProcessInv, ProcessOK
<1>3. Running => Running'
  BY <1>1 DEF ServerEffect, Running
<1>4. Quiet => Quiet'
  BY <1>1 DEF ServerEffect, Quiet
<1>5. InstallTrack'
  BY <1>1, <1>3 DEF HostInv, InstallTrack
<1>6. HostTrack'
  <2>1. deployment = "systemd" => \A r \in Replicas \ {Host}: process'[r].phase = "down"
    BY DEF HostInv, HostTrack, ServerEffect
  <2> QED
    BY <1>1, <1>4, <2>1 DEF HostInv, HostTrack
<1>7. ASSUME systemd.unit = "absent", deployment = "systemd"
      PROVE  UNCHANGED objects
  BY <1>7 DEF HostInv, HostTrack, Quiet, ServerEffect
<1>8. deployment \in {"systemd", "cluster"}
  BY DEF HostInv, HostTypeOK
<1>9. UninstallTrack'
  BY <1>1, <1>7, <1>8 DEF HostInv, UninstallTrack, HostTrack, Purging
<1> QED
  BY <1>2, <1>5, <1>6, <1>9 DEF HostInv

\* A step that leaves the host, what is installed and what runs alone.
LEMMA SameHostInv ==
  ASSUME HostInv, UNCHANGED <<host, process, objects, deployment, systemd, command>>
  PROVE  HostInv'
<1>1. ServerEffect
  BY DEF ServerEffect, installerVars
<1>2. ProcessInv'
  BY DEF HostInv, ProcessInv, ProcessOK
<1> QED
  BY <1>1, <1>2, ServerHostInv

\* The types of the host.
LEMMA HostTypes ==
  ASSUME HostInv
  PROVE  /\ DOMAIN host = {"configFile", "environment", "binary", "wanted"}
         /\ systemd \in [unit: {"absent", "partial", "whole"}, enabled: BOOLEAN,
                         restarting: BOOLEAN, data: SUBSET Dirs]
         /\ command \in [step: Steps, purge: BOOLEAN, version: Versions \cup {None},
                         created: BOOLEAN, outcome: Outcomes]
         /\ deployment \in {"systemd", "cluster"}
         /\ command.step # "none" => deployment = "systemd"
         /\ Host \in Replicas
  BY DEF HostInv, HostTypeOK, HostTrack

\* The settings that an operator writes parse.
LEMMA ChosenSettings ==
  ASSUME deployment \in Deployments, NEW s \in Settings[deployment]
  PROVE  /\ s.configFile # NoFile /\ s.configFile # Malformed
         /\ SettingsOK(s.configFile) /\ SettingsOK(s.environment)
  BY DEF Range

LEMMA ConfigureHostInv ==
  ASSUME HostInv, ProcessInv', Configure \/ \E r \in Replicas: Schedule(r)
  PROVE  HostInv'
<1> USE DEF installerVars
<1>1. CASE Configure
  <2>1. PICK s \in Settings[deployment]:
          host' = [host EXCEPT !.configFile = s.configFile, !.environment = s.environment]
    BY <1>1 DEF Configure
  <2>2. UNCHANGED <<process, objects, installerVars>> /\ command.step = "none"
    BY <1>1 DEF Configure
  <2>3. s.configFile # NoFile /\ s.configFile # Malformed
    BY ChosenSettings DEF HostInv, HostTypeOK
  <2>4. /\ DOMAIN host' = DOMAIN host
        /\ host'.configFile = s.configFile /\ host'.environment = s.environment
        /\ host'.binary = host.binary /\ host'.wanted = host.wanted
    BY <2>1, HostTypes
  <2>5. HostTypeOK'
    BY <2>2, <2>4 DEF HostInv, HostTypeOK
  <2>6. InstallTrack' /\ UninstallTrack'
    BY <2>2, <2>3, <2>4 DEF HostInv, InstallTrack, UninstallTrack, Running, Applied,
       Configured, Purging
  <2>7. HostTrack'
    BY <2>2, <2>3, <2>4 DEF HostInv, HostTrack, Quiet
  <2> QED
    BY <2>5, <2>6, <2>7 DEF HostInv
<1>2. ASSUME NEW r \in Replicas, Schedule(r)
      PROVE  HostInv'
  <2>1. PICK w \in SUBSET Replicas: host' = [host EXCEPT !.wanted = w]
    <3> DEFINE w == IF r \in host.wanted THEN host.wanted \ {r} ELSE host.wanted \cup {r}
    <3>1. host' = [host EXCEPT !.wanted = w]
      BY <1>2 DEF Schedule
    <3>2. host.wanted \subseteq Replicas
      BY DEF HostInv, HostTypeOK
    <3>3. w \in SUBSET Replicas
      BY <3>2
    <3> HIDE DEF w
    <3> QED
      BY <3>1, <3>3
  <2>2. UNCHANGED <<process, objects, installerVars>> /\ deployment = "cluster"
    BY <1>2 DEF Schedule
  <2>3. /\ DOMAIN host' = DOMAIN host /\ host'.wanted = w
        /\ host'.configFile = host.configFile /\ host'.environment = host.environment
        /\ host'.binary = host.binary
    BY <2>1, HostTypes
  <2>4. HostTypeOK'
    BY <2>2, <2>3 DEF HostInv, HostTypeOK
  <2>5. InstallTrack' /\ UninstallTrack'
    BY <2>2, <2>3 DEF HostInv, HostTrack, InstallTrack, UninstallTrack, Applied,
       Configured, Purging
  <2>6. HostTrack'
    BY <2>2, <2>3 DEF HostInv, HostTrack
  <2> QED
    BY <2>4, <2>5, <2>6 DEF HostInv
<1> QED
  BY <1>1, <1>2

\* Install and Uninstall begin.
LEMMA BeginHostInv ==
  ASSUME HostInv, ProcessInv',
         (\E v \in Versions: Install(v)) \/ (\E purge \in BOOLEAN: Uninstall(purge))
  PROVE  HostInv'
<1>1. /\ UNCHANGED <<host, process, objects, systemd, deployment>>
      /\ deployment = "systemd" /\ command.step = "none"
  BY DEF Install, Uninstall, Idle
<1>2. HostTrack'
  BY <1>1 DEF HostInv, HostTrack, Quiet
<1>3. ASSUME NEW v \in Versions, Install(v)
      PROVE  HostTypeOK' /\ InstallTrack' /\ UninstallTrack'
  <2>1. command' = [step |-> IF v = host.binary THEN "config" ELSE "binary",
                    purge |-> FALSE, version |-> v, created |-> FALSE,
                    outcome |-> "none"]
    BY <1>3 DEF Install
  <2> QED
    BY <1>1, <2>1 DEF HostInv, HostTypeOK, InstallTrack, UninstallTrack, Steps, Outcomes,
       Applied, Configured, Purging
<1>4. ASSUME NEW purge \in BOOLEAN, Uninstall(purge)
      PROVE  HostTypeOK' /\ InstallTrack' /\ UninstallTrack'
  <2>1. PICK step \in {"disable", "purgeConfig", "done"} :
          /\ command' = [step |-> step, purge |-> purge, version |-> None,
                         created |-> FALSE, outcome |-> "none"]
          /\ step # "disable" => systemd.unit = "absent"
          /\ step = "done" => ~purge
    <3>1. systemd.unit # "absent" \/ (systemd.unit = "absent" /\ purge)
          \/ (systemd.unit = "absent" /\ ~purge)
      OBVIOUS
    <3> QED
      BY <1>4, <3>1 DEF Uninstall
  <2> QED
    BY <1>1, <2>1 DEF HostInv, HostTypeOK, InstallTrack, UninstallTrack, Steps, Outcomes,
       Applied, Configured, Purging
<1> QED
  BY <1>2, <1>3, <1>4 DEF HostInv

\* A step of a command.
LEMMA DoStep ==
  ASSUME HostInv, NEW step \in Steps \ {"none"}, NEW next \in Steps, NEW h, NEW s,
         Do(step, next, h, s)
  PROVE  /\ command.step = step /\ deployment = "systemd"
         /\ command'.step = next /\ command'.purge = command.purge
         /\ command'.version = command.version /\ command'.outcome = command.outcome
         /\ command'.created = command.created
         /\ command' \in [step: Steps, purge: BOOLEAN, version: Versions \cup {None},
                          created: BOOLEAN, outcome: Outcomes]
         /\ host' = h /\ systemd' = s
         /\ UNCHANGED <<process, objects, deployment>>
<1>1. command' = [command EXCEPT !.step = next]
  BY DEF Do, Goto
<1> QED
  BY <1>1, HostTypes DEF Do

\* install, up to the configuration
LEMMA CopyHostInv ==
  ASSUME HostInv, ProcessInv', CopyBinary \/ RenameBinary
  PROVE  HostInv'
<1>1. CASE CopyBinary
  <2>1. Do("binary", "rename", host, systemd)
    BY <1>1 DEF CopyBinary
  <2>2. /\ command.step = "binary" /\ command'.step = "rename"
        /\ command'.version = command.version
        /\ command'.created = command.created
        /\ command' \in [step: Steps, purge: BOOLEAN, version: Versions \cup {None},
                         created: BOOLEAN, outcome: Outcomes]
        /\ UNCHANGED <<host, systemd, process, objects, deployment>>
    <3>1. "binary" \in Steps \ {"none"} /\ "rename" \in Steps
      BY DEF Steps
    <3> QED
      BY <2>1, <3>1, DoStep
  <2> QED
    BY <2>2 DEF HostInv, HostTypeOK, InstallTrack, UninstallTrack, HostTrack, Quiet,
       Applied, Configured, Purging
<1>2. CASE RenameBinary
  <2>1. Do("rename", "config", [host EXCEPT !.binary = command.version], systemd)
    BY <1>2 DEF RenameBinary
  <2>0. "rename" \in Steps \ {"none"} /\ "config" \in Steps
    BY DEF Steps
  <2>2. /\ command.step = "rename" /\ command'.step = "config"
        /\ command'.version = command.version /\ deployment = "systemd"
        /\ command'.created = command.created
        /\ command' \in [step: Steps, purge: BOOLEAN, version: Versions \cup {None},
                         created: BOOLEAN, outcome: Outcomes]
        /\ host' = [host EXCEPT !.binary = command.version]
        /\ UNCHANGED <<systemd, process, objects, deployment>>
    BY <2>0, <2>1, DoStep, SMTT(20)
  <2>3. /\ DOMAIN host' = DOMAIN host /\ host'.binary = command.version
        /\ host'.configFile = host.configFile /\ host'.environment = host.environment
        /\ host'.wanted = host.wanted /\ command.version \in Versions
    BY <2>2, HostTypes DEF HostInv, InstallTrack
  <2>4. HostTypeOK'
    BY <2>2, <2>3 DEF HostInv, HostTypeOK
  <2>5. InstallTrack' /\ UninstallTrack'
    BY <2>2, <2>3 DEF HostInv, InstallTrack, UninstallTrack, Applied, Configured, Purging
  <2>6. HostTrack'
    BY <2>2, <2>3 DEF HostInv, HostTrack, Quiet
  <2> QED
    BY <2>4, <2>5, <2>6 DEF HostInv
<1> QED
  BY <1>1, <1>2

\* The configuration file is begun.
LEMMA CreateHostInv ==
  ASSUME HostInv, ProcessInv', WriteDefaultConfig, host.configFile = NoFile
  PROVE  HostInv'
<1>1. PICK part \in {Malformed, DefaultFile} :
        /\ command.step = "config"
        /\ command' = [command EXCEPT !.step = "configWritten", !.created = TRUE]
        /\ host' = [host EXCEPT !.configFile = part]
        /\ UNCHANGED <<process, objects, deployment, systemd>>
  BY DEF WriteDefaultConfig
<1>2. /\ command'.step = "configWritten" /\ command'.created
      /\ command'.version = command.version
      /\ command' \in [step: Steps, purge: BOOLEAN, version: Versions \cup {None},
                       created: BOOLEAN, outcome: Outcomes]
      /\ deployment = "systemd"
  BY <1>1, HostTypes DEF Steps
<1>3. /\ DOMAIN host' = DOMAIN host /\ host'.configFile = part
      /\ host'.binary = host.binary /\ host'.wanted = host.wanted
      /\ host'.environment = host.environment /\ part # NoFile
  BY <1>1, HostTypes
<1>4. HostTypeOK'
  BY <1>1, <1>2, <1>3 DEF HostInv, HostTypeOK
<1>5. InstallTrack' /\ UninstallTrack'
  BY <1>1, <1>2, <1>3 DEF HostInv, InstallTrack, UninstallTrack, Applied, Configured,
     Purging
<1>6. HostTrack'
  BY <1>1, <1>2, <1>3 DEF HostInv, HostTrack, Quiet
<1> QED
  BY <1>4, <1>5, <1>6 DEF HostInv

\* What is written to the configuration file or the file of variables then.
LEMMA WriteHostInv ==
  ASSUME HostInv, ProcessInv',
         \/ WriteDefaultConfig /\ host.configFile # NoFile
         \/ ConfigWritten \/ WriteEnvFile
  PROVE  HostInv'
<1>1. PICK step \in {"config", "configWritten", "env"}, next \in {"env", "unit"} : \E new :
        /\ Do(step, next, new, systemd)
        /\ DOMAIN new = DOMAIN host
        /\ new.binary = host.binary /\ new.wanted = host.wanted
        /\ new.configFile \in {host.configFile, DefaultFile}
        /\ new.configFile # NoFile
        /\ step = "configWritten" => new.configFile = DefaultFile
        /\ new.environment \in {host.environment, EnvFile}
  <2>1. CASE WriteDefaultConfig /\ host.configFile # NoFile
    BY <2>1 DEF WriteDefaultConfig
  <2>2. CASE ConfigWritten
    <3> DEFINE h == [host EXCEPT !.configFile = DefaultFile]
    <3>1. /\ DOMAIN h = DOMAIN host /\ h.binary = host.binary
          /\ h.wanted = host.wanted /\ h.configFile = DefaultFile
          /\ h.environment = host.environment
      BY HostTypes
    <3>2. Do("configWritten", "env", h, systemd)
      BY <2>2 DEF ConfigWritten
    <3> HIDE DEF h
    <3> QED
      BY <3>1, <3>2
  <2>3. CASE WriteEnvFile
    <3> DEFINE h == [host EXCEPT !.environment = IF @ = NoFile THEN EnvFile ELSE @]
    <3>1. /\ DOMAIN h = DOMAIN host /\ h.binary = host.binary
          /\ h.wanted = host.wanted /\ h.configFile = host.configFile
          /\ h.environment \in {host.environment, EnvFile}
      BY HostTypes
    <3>2. Do("env", "unit", h, systemd) /\ host.configFile # NoFile
      BY <2>3 DEF WriteEnvFile, Do, HostInv, InstallTrack, Configured, Applied
    <3> HIDE DEF h
    <3> QED
      BY <3>1, <3>2
  <2> QED
    BY <2>1, <2>2, <2>3
<1>2. PICK h :
        /\ Do(step, next, h, systemd)
        /\ DOMAIN h = DOMAIN host /\ h.binary = host.binary /\ h.wanted = host.wanted
        /\ h.configFile \in {host.configFile, DefaultFile}
        /\ h.configFile # NoFile
        /\ step = "configWritten" => h.configFile = DefaultFile
        /\ h.environment \in {host.environment, EnvFile}
  BY <1>1
<1>3. /\ command.step = step /\ command'.step = next /\ deployment = "systemd"
      /\ command'.version = command.version
      /\ command'.created = command.created
      /\ command' \in [step: Steps, purge: BOOLEAN, version: Versions \cup {None},
                       created: BOOLEAN, outcome: Outcomes]
      /\ host' = h /\ UNCHANGED <<systemd, process, objects, deployment>>
  BY <1>2, DoStep DEF Steps
<1>4. HostTypeOK'
  BY <1>2, <1>3 DEF HostInv, HostTypeOK
<1>5. InstallTrack' /\ UninstallTrack'
  BY <1>2, <1>3 DEF HostInv, InstallTrack, UninstallTrack, Applied, Configured, Purging
<1>6. HostTrack'
  BY <1>2, <1>3 DEF HostInv, HostTrack, Quiet
<1> QED
  BY <1>4, <1>5, <1>6 DEF HostInv

\* The unit file, from its writing to the restart of the service.
LEMMA UnitHostInv ==
  ASSUME HostInv, ProcessInv', WriteUnit \/ UnitWritten \/ Enable
  PROVE  HostInv'
<1>1. PICK step \in {"unit", "unitWritten", "enable"},
           next \in {"unitWritten", "enable", "restart"},
           unit \in {"partial", "whole"}, enabled \in BOOLEAN :
        /\ Do(step, next, host, [systemd EXCEPT !.unit = unit, !.enabled = enabled])
        /\ next \in {"enable", "restart"} => unit = "whole"
        /\ enabled => systemd.enabled \/ step = "enable"
        /\ next = "restart" => enabled
  <2>1. CASE WriteUnit
    <3>1. [systemd EXCEPT !.unit = "partial"]
             = [systemd EXCEPT !.unit = "partial", !.enabled = systemd.enabled]
      BY HostTypes
    <3> QED
      BY <2>1, <3>1, HostTypes DEF WriteUnit
  <2>2. CASE UnitWritten
    <3>1. [systemd EXCEPT !.unit = "whole"]
             = [systemd EXCEPT !.unit = "whole", !.enabled = systemd.enabled]
      BY HostTypes
    <3> QED
      BY <2>2, <3>1, HostTypes DEF UnitWritten
  <2>3. CASE Enable
    <3>1. systemd.unit = "whole"
      BY <2>3 DEF Enable, Do, HostInv, InstallTrack
    <3>2. [systemd EXCEPT !.enabled = TRUE]
             = [systemd EXCEPT !.unit = "whole", !.enabled = TRUE]
      BY <3>1, HostTypes
    <3> QED
      BY <2>3, <3>2 DEF Enable
  <2> QED
    BY <2>1, <2>2, <2>3
<1>2. /\ command.step = step /\ command'.step = next /\ deployment = "systemd"
      /\ command'.version = command.version
      /\ command'.created = command.created
      /\ command' \in [step: Steps, purge: BOOLEAN, version: Versions \cup {None},
                       created: BOOLEAN, outcome: Outcomes]
      /\ systemd' = [systemd EXCEPT !.unit = unit, !.enabled = enabled]
      /\ UNCHANGED <<host, process, objects, deployment>>
  <2>1. step \in Steps \ {"none"} /\ next \in Steps
    BY DEF Steps
  <2> QED
    BY <1>1, <2>1, DoStep
<1>3. /\ systemd'.unit = unit /\ systemd'.enabled = enabled
      /\ systemd'.restarting = systemd.restarting /\ systemd'.data = systemd.data
      /\ systemd' \in [unit: {"absent", "partial", "whole"}, enabled: BOOLEAN,
                       restarting: BOOLEAN, data: SUBSET Dirs]
  BY <1>2, HostTypes
<1>4. HostTypeOK'
  BY <1>2, <1>3 DEF HostInv, HostTypeOK
<1>5. InstallTrack' /\ UninstallTrack'
  BY <1>1, <1>2, <1>3 DEF HostInv, InstallTrack, UninstallTrack, Applied, Configured,
     Purging
<1>6. HostTrack'
  BY <1>1, <1>2, <1>3 DEF HostInv, HostTrack, InstallTrack, Applied, Configured
<1> QED
  BY <1>4, <1>5, <1>6 DEF HostInv

\* The restart of the service: the old process goes, and systemd starts what is
\* there, with or without the command.
LEMMA RestartHostInv ==
  ASSUME HostInv, ProcessInv', Restart \/ Restarted \/ RestartRefused
  PROVE  HostInv'
<1>1. CASE Restart
  <2>1. Do("restart", "restarted", [host EXCEPT !.wanted = {}],
           [systemd EXCEPT !.restarting = TRUE])
    BY <1>1 DEF Restart
  <2>2. /\ command.step = "restart" /\ command'.step = "restarted"
        /\ deployment = "systemd" /\ command'.version = command.version
        /\ command'.created = command.created
        /\ command' \in [step: Steps, purge: BOOLEAN, version: Versions \cup {None},
                         created: BOOLEAN, outcome: Outcomes]
        /\ host' = [host EXCEPT !.wanted = {}]
        /\ systemd' = [systemd EXCEPT !.restarting = TRUE]
        /\ UNCHANGED <<process, objects, deployment>>
    <3>1. {"restart", "restarted"} \subseteq Steps \ {"none"}
      BY DEF Steps
    <3> QED
      BY <2>1, <3>1, DoStep
  <2>3. /\ DOMAIN host' = DOMAIN host /\ host'.wanted = {}
        /\ host'.configFile = host.configFile /\ host'.environment = host.environment
        /\ host'.binary = host.binary
        /\ systemd'.unit = systemd.unit /\ systemd'.enabled = systemd.enabled
        /\ systemd'.restarting /\ systemd'.data = systemd.data
        /\ systemd' \in [unit: {"absent", "partial", "whole"}, enabled: BOOLEAN,
                         restarting: BOOLEAN, data: SUBSET Dirs]
    BY <2>2, HostTypes
  <2>4. HostTypeOK'
    BY <2>2, <2>3 DEF HostInv, HostTypeOK
  <2>5. InstallTrack' /\ UninstallTrack'
    BY <2>2, <2>3 DEF HostInv, InstallTrack, UninstallTrack, Applied, Configured,
       Purging
  <2>6. HostTrack'
    BY <2>2, <2>3 DEF HostInv, HostTrack, InstallTrack
  <2> QED
    BY <2>4, <2>5, <2>6 DEF HostInv
<1>2. CASE Restarted
  <2>1. /\ systemd.restarting /\ process[Host].phase = "down"
        /\ systemd' = [systemd EXCEPT !.restarting = FALSE, !.data = Dirs]
        /\ host' = [host EXCEPT !.wanted = {Host}]
        /\ UNCHANGED <<process, objects, deployment, command>>
    BY <1>2 DEF Restarted
  <2>2. /\ DOMAIN host' = DOMAIN host /\ host'.wanted = {Host}
        /\ host'.configFile = host.configFile /\ host'.environment = host.environment
        /\ host'.binary = host.binary
        /\ systemd'.unit = systemd.unit /\ systemd'.enabled = systemd.enabled
        /\ ~systemd'.restarting /\ systemd'.data = Dirs
        /\ systemd' \in [unit: {"absent", "partial", "whole"}, enabled: BOOLEAN,
                         restarting: BOOLEAN, data: SUBSET Dirs]
    BY <2>1, HostTypes
  <2>3. systemd.unit # "absent" /\ deployment = "systemd"
    BY <2>1, HostTypes DEF HostInv, HostTrack, Quiet
  <2>4. HostTypeOK'
    BY <2>1, <2>2, HostTypes DEF HostInv, HostTypeOK
  <2>5. Running'
    BY <2>1, <2>2 DEF Running
  <2>6. InstallTrack' /\ UninstallTrack'
    BY <2>1, <2>2, <2>3, <2>5 DEF HostInv, InstallTrack, UninstallTrack, Applied,
       Configured, Purging
  <2>7. HostTrack'
    BY <2>1, <2>2, <2>3 DEF HostInv, HostTrack
  <2> QED
    BY <2>4, <2>6, <2>7 DEF HostInv
<1>3. CASE RestartRefused
  <2>1. /\ systemd.restarting /\ process[Host].phase = "down"
        /\ systemd' = [systemd EXCEPT !.restarting = FALSE]
        /\ UNCHANGED <<host, process, objects, deployment>>
    BY <1>3 DEF RestartRefused, serverVars
  <2>2. /\ systemd'.unit = systemd.unit /\ systemd'.enabled = systemd.enabled
        /\ ~systemd'.restarting /\ systemd'.data = systemd.data
        /\ systemd' \in [unit: {"absent", "partial", "whole"}, enabled: BOOLEAN,
                         restarting: BOOLEAN, data: SUBSET Dirs]
    BY <2>1, HostTypes
  <2>3. systemd.unit # "absent" /\ deployment = "systemd"
    BY <2>1, HostTypes DEF HostInv, HostTrack, Quiet
  <2>4. /\ command' \in [step: Steps, purge: BOOLEAN, version: Versions \cup {None},
                         created: BOOLEAN, outcome: Outcomes]
        /\ command'.version = command.version
        /\ \/ command' = command /\ command.step # "restarted"
           \/ command'.step = "none" /\ command'.outcome = "failed"
    BY <1>3, HostTypes DEF RestartRefused, Steps, Outcomes
  <2>5. HostTypeOK'
    BY <2>1, <2>2, <2>4 DEF HostInv, HostTypeOK
  <2>6. InstallTrack' /\ UninstallTrack'
    BY <2>1, <2>2, <2>3, <2>4 DEF HostInv, InstallTrack, UninstallTrack, Running,
       Applied, Configured, Purging
  <2>7. HostTrack'
    BY <2>1, <2>2, <2>3 DEF HostInv, HostTrack
  <2> QED
    BY <2>5, <2>6, <2>7 DEF HostInv
<1> QED
  BY <1>1, <1>2, <1>3

\* systemctl disable --now, and what follows it
LEMMA DisableHostInv ==
  ASSUME HostInv, ProcessInv', Disable \/ RemoveUnit
  PROVE  HostInv'
<1>1. CASE Disable
  <2>1. Do("disable", "stopped", [host EXCEPT !.wanted = {}],
           [systemd EXCEPT !.enabled = FALSE, !.restarting = FALSE])
    BY <1>1 DEF Disable
  <2>2. /\ command.step = "disable" /\ command'.step = "stopped"
        /\ deployment = "systemd" /\ command'.version = command.version
        /\ command'.created = command.created
        /\ command' \in [step: Steps, purge: BOOLEAN, version: Versions \cup {None},
                         created: BOOLEAN, outcome: Outcomes]
        /\ host' = [host EXCEPT !.wanted = {}]
        /\ systemd' = [systemd EXCEPT !.enabled = FALSE, !.restarting = FALSE]
        /\ UNCHANGED <<process, objects, deployment>>
    <3>1. {"disable", "stopped"} \subseteq Steps \ {"none"}
      BY DEF Steps
    <3> QED
      BY <2>1, <3>1, DoStep
  <2>3. /\ DOMAIN host' = DOMAIN host /\ host'.wanted = {}
        /\ host'.configFile = host.configFile /\ host'.environment = host.environment
        /\ host'.binary = host.binary
        /\ systemd'.unit = systemd.unit /\ ~systemd'.enabled
        /\ ~systemd'.restarting /\ systemd'.data = systemd.data
        /\ systemd' \in [unit: {"absent", "partial", "whole"}, enabled: BOOLEAN,
                         restarting: BOOLEAN, data: SUBSET Dirs]
    BY <2>2, HostTypes
  <2>4. HostTypeOK'
    BY <2>2, <2>3 DEF HostInv, HostTypeOK
  <2>5. InstallTrack' /\ UninstallTrack'
    BY <2>2, <2>3 DEF HostInv, InstallTrack, UninstallTrack, Applied, Configured,
       Purging
  <2>6. HostTrack'
    BY <2>2, <2>3 DEF HostInv, HostTrack, Quiet
  <2> QED
    BY <2>4, <2>5, <2>6 DEF HostInv
<1>2. CASE RemoveUnit
  <2>1. PICK next \in {"purgeConfig", "done"} :
          /\ next = "done" => ~command.purge
          /\ Do("stopped", next, host, [systemd EXCEPT !.unit = "absent"])
    <3>1. command.purge \in BOOLEAN
      BY HostTypes
    <3> QED
      BY <1>2, <3>1 DEF RemoveUnit
  <2>2. /\ command.step = "stopped" /\ command'.step = next
        /\ command'.purge = command.purge
        /\ deployment = "systemd" /\ command'.version = command.version
        /\ command' \in [step: Steps, purge: BOOLEAN, version: Versions \cup {None},
                         created: BOOLEAN, outcome: Outcomes]
        /\ systemd' = [systemd EXCEPT !.unit = "absent"]
        /\ UNCHANGED <<host, process, objects, deployment>>
    <3>1. "stopped" \in Steps \ {"none"} /\ next \in Steps
      BY DEF Steps
    <3> QED
      BY <2>1, <3>1, DoStep
  <2>3. /\ systemd'.unit = "absent" /\ systemd'.enabled = systemd.enabled
        /\ systemd'.restarting = systemd.restarting /\ systemd'.data = systemd.data
        /\ systemd' \in [unit: {"absent", "partial", "whole"}, enabled: BOOLEAN,
                         restarting: BOOLEAN, data: SUBSET Dirs]
    BY <2>2, HostTypes
  <2>4. /\ process[Host].phase = "down"
        /\ ~systemd.enabled /\ ~systemd.restarting /\ host.wanted = {}
    BY <1>2, <2>2 DEF RemoveUnit, HostInv, UninstallTrack
  <2>5. HostTypeOK'
    BY <2>2, <2>3 DEF HostInv, HostTypeOK
  <2>6. InstallTrack' /\ UninstallTrack'
    BY <2>1, <2>2, <2>3 DEF HostInv, InstallTrack, UninstallTrack, Applied, Configured,
       Purging
  <2>7. HostTrack'
    BY <2>2, <2>3, <2>4 DEF HostInv, HostTrack, Quiet
  <2> QED
    BY <2>5, <2>6, <2>7 DEF HostInv
<1> QED
  BY <1>1, <1>2

\* The purge.
LEMMA PurgeHostInv ==
  ASSUME HostInv, ProcessInv', PurgeConfigDir \/ PurgeStateDir \/ PurgeBackingDir
  PROVE  HostInv'
<1>1. CASE PurgeConfigDir
  <2>1. Do("purgeConfig", "purgeState",
           [host EXCEPT !.configFile = NoFile, !.environment = NoFile], systemd)
    BY <1>1 DEF PurgeConfigDir
  <2>2. /\ command.step = "purgeConfig" /\ command'.step = "purgeState"
        /\ deployment = "systemd" /\ command'.version = command.version
        /\ command' \in [step: Steps, purge: BOOLEAN, version: Versions \cup {None},
                         created: BOOLEAN, outcome: Outcomes]
        /\ host' = [host EXCEPT !.configFile = NoFile, !.environment = NoFile]
        /\ UNCHANGED <<systemd, process, objects, deployment>>
    <3>1. {"purgeConfig", "purgeState"} \subseteq Steps \ {"none"}
      BY DEF Steps
    <3> QED
      BY <2>1, <3>1, DoStep
  <2>3. /\ DOMAIN host' = DOMAIN host /\ host'.wanted = host.wanted
        /\ host'.configFile = NoFile /\ host'.environment = NoFile
        /\ host'.binary = host.binary
    BY <2>2, HostTypes
  <2>4. systemd.unit = "absent" /\ Quiet
    BY <2>2 DEF HostInv, UninstallTrack, HostTrack, Purging
  <2>5. HostTypeOK'
    BY <2>2, <2>3 DEF HostInv, HostTypeOK
  <2>6. InstallTrack' /\ UninstallTrack'
    BY <2>2, <2>3, <2>4 DEF InstallTrack, UninstallTrack, Applied, Configured, Purging
  <2>7. HostTrack'
    BY <2>2, <2>3, <2>4 DEF HostInv, HostTrack, Quiet
  <2> QED
    BY <2>5, <2>6, <2>7 DEF HostInv
<1>2. CASE PurgeStateDir
  <2>1. Do("purgeState", "purgeBacking", host, [systemd EXCEPT !.data = @ \ {"StateDir"}])
    BY <1>2 DEF PurgeStateDir
  <2>2. /\ command.step = "purgeState" /\ command'.step = "purgeBacking"
        /\ deployment = "systemd" /\ command'.version = command.version
        /\ command' \in [step: Steps, purge: BOOLEAN, version: Versions \cup {None},
                         created: BOOLEAN, outcome: Outcomes]
        /\ systemd' = [systemd EXCEPT !.data = @ \ {"StateDir"}]
        /\ UNCHANGED <<host, process, objects, deployment>>
    <3>1. {"purgeState", "purgeBacking"} \subseteq Steps \ {"none"}
      BY DEF Steps
    <3> QED
      BY <2>1, <3>1, DoStep
  <2>3. /\ systemd'.unit = systemd.unit /\ systemd'.enabled = systemd.enabled
        /\ systemd'.restarting = systemd.restarting
        /\ systemd'.data = systemd.data \ {"StateDir"}
        /\ systemd' \in [unit: {"absent", "partial", "whole"}, enabled: BOOLEAN,
                         restarting: BOOLEAN, data: SUBSET Dirs]
    BY <2>2, HostTypes
  <2>4. HostTypeOK'
    BY <2>2, <2>3 DEF HostInv, HostTypeOK
  <2>5. InstallTrack' /\ UninstallTrack'
    BY <2>2, <2>3 DEF HostInv, InstallTrack, UninstallTrack, Applied, Configured,
       Purging
  <2>6. HostTrack'
    BY <2>2, <2>3 DEF HostInv, HostTrack, Quiet
  <2> QED
    BY <2>4, <2>5, <2>6 DEF HostInv
<1>3. CASE PurgeBackingDir
  <2>1. /\ command.step = "purgeBacking" /\ command' = [command EXCEPT !.step = "done"]
        /\ systemd' = [systemd EXCEPT !.data = @ \ {"backingDir"}]
        /\ objects' = [f \in Files |-> None]
        /\ UNCHANGED <<host, process, deployment>>
    BY <1>3 DEF PurgeBackingDir, Goto
  <2>2. /\ command'.step = "done" /\ command'.version = command.version
        /\ command' \in [step: Steps, purge: BOOLEAN, version: Versions \cup {None},
                         created: BOOLEAN, outcome: Outcomes]
        /\ systemd'.unit = systemd.unit /\ systemd'.enabled = systemd.enabled
        /\ systemd'.restarting = systemd.restarting
        /\ systemd'.data = systemd.data \ {"backingDir"}
        /\ systemd' \in [unit: {"absent", "partial", "whole"}, enabled: BOOLEAN,
                         restarting: BOOLEAN, data: SUBSET Dirs]
        /\ systemd.data \subseteq Dirs /\ deployment = "systemd"
    BY <2>1, HostTypes DEF Steps
  <2>3. systemd.unit = "absent" /\ "StateDir" \notin systemd.data
    BY <2>1 DEF HostInv, UninstallTrack, Purging
  <2>4. HostTypeOK'
    BY <2>1, <2>2 DEF HostInv, HostTypeOK
  <2>5. InstallTrack' /\ UninstallTrack'
    BY <2>1, <2>2, <2>3 DEF HostInv, InstallTrack, UninstallTrack, Applied, Configured,
       Purging, Dirs
  <2>6. HostTrack'
    BY <2>1, <2>2 DEF HostInv, HostTrack, Quiet
  <2> QED
    BY <2>4, <2>5, <2>6 DEF HostInv
<1> QED
  BY <1>1, <1>2, <1>3

\* A command ends, or is broken off.
LEMMA FinishHostInv ==
  ASSUME HostInv, ProcessInv', InstallDone \/ UninstallDone \/ Abort
  PROVE  HostInv'
<1>1. PICK step \in Steps \ {"none"},
           outcome \in {"installed", "uninstalled", "purged", "failed"} :
        /\ Finish(step, outcome)
        /\ outcome = "installed" => step = "restarted" /\ ~systemd.restarting
        /\ outcome = "purged" => step = "done" /\ command.purge
  <2>1. CASE InstallDone
    BY <2>1 DEF InstallDone, Steps
  <2>2. CASE UninstallDone
    BY <2>2 DEF UninstallDone, Steps
  <2>3. CASE Abort
    BY <2>3, HostTypes DEF Abort
  <2> QED
    BY <2>1, <2>2, <2>3
<1>2. /\ command.step = step /\ command' = [command EXCEPT !.step = "none", !.outcome = outcome]
      /\ UNCHANGED <<host, process, objects, deployment, systemd>>
  BY <1>1 DEF Finish, serverVars
<1>3. /\ command'.step = "none" /\ command'.outcome = outcome
      /\ command'.version = command.version
      /\ command'.created = command.created
      /\ command' \in [step: Steps, purge: BOOLEAN, version: Versions \cup {None},
                       created: BOOLEAN, outcome: Outcomes]
      /\ deployment = "systemd"
  BY <1>2, HostTypes DEF Steps, Outcomes
<1>4. HostTypeOK'
  BY <1>2, <1>3 DEF HostInv, HostTypeOK
<1>5. InstallTrack' /\ UninstallTrack'
  BY <1>1, <1>2, <1>3 DEF HostInv, InstallTrack, UninstallTrack, Running, Applied,
     Configured, Purging
<1>6. HostTrack'
  BY <1>2, <1>3 DEF HostInv, HostTrack, Quiet
<1> QED
  BY <1>4, <1>5, <1>6 DEF HostInv

\* The host is booted: the command is gone, and the service wanted if it is
\* enabled.
LEMMA RebootHostInv ==
  ASSUME HostInv, ProcessInv', Reboot
  PROVE  HostInv'
<1>1. /\ deployment = "systemd" /\ UNCHANGED <<objects, deployment>>
      /\ process' = [process EXCEPT ![Host] = Down]
      /\ systemd' = [systemd EXCEPT !.restarting = FALSE]
      /\ host' = [host EXCEPT !.wanted =
                    IF systemd.enabled /\ systemd.unit = "whole" THEN {Host} ELSE {}]
  BY DEF Reboot
<1>2. /\ command' \in [step: Steps, purge: BOOLEAN, version: Versions \cup {None},
                       created: BOOLEAN, outcome: Outcomes]
      /\ command'.step = "none" /\ command'.version = command.version
      /\ \/ command.step = "none" /\ command' = command
         \/ command'.outcome = "failed"
  BY HostTypes DEF Reboot, Steps, Outcomes
<1>3. /\ process'[Host].phase = "down"
      /\ \A r \in Replicas \ {Host}: process'[r] = process[r]
  BY <1>1, DownFields, HostTypes DEF HostInv, ProcessInv
<1>4. /\ DOMAIN host' = DOMAIN host
      /\ host'.wanted = IF systemd.enabled /\ systemd.unit = "whole" THEN {Host} ELSE {}
      /\ host'.configFile = host.configFile /\ host'.environment = host.environment
      /\ host'.binary = host.binary
      /\ systemd'.unit = systemd.unit /\ systemd'.enabled = systemd.enabled
      /\ ~systemd'.restarting /\ systemd'.data = systemd.data
      /\ systemd' \in [unit: {"absent", "partial", "whole"}, enabled: BOOLEAN,
                       restarting: BOOLEAN, data: SUBSET Dirs]
  BY <1>1, HostTypes
<1>5. HostTypeOK'
  BY <1>1, <1>2, <1>4, HostTypes DEF HostInv, HostTypeOK, ProcessInv, ProcessOK
<1>6. InstallTrack' /\ UninstallTrack'
  BY <1>1, <1>2, <1>3, <1>4 DEF HostInv, InstallTrack, UninstallTrack, Running, Applied,
     Configured, Purging
<1>7. HostTrack'
  BY <1>1, <1>2, <1>3, <1>4 DEF HostInv, HostTrack, Quiet
<1> QED
  BY <1>5, <1>6, <1>7 DEF HostInv

LEMMA StepHostInv == HostInv /\ [Next]_vars => HostInv'
<1> SUFFICES ASSUME HostInv, [Next]_vars
             PROVE  HostInv'
  OBVIOUS
<1>1. ProcessInv'
  BY StepProcess DEF HostInv
<1>2. CASE \/ ServerNext /\ UNCHANGED installerVars
           \/ \E r \in Replicas: Start(r)
  BY <1>1, <1>2, ServerSteps, StartEffect, ServerHostInv DEF HostInv, Start
<1>3. CASE FailingStart \/ StartLimitHit \/ IntervalPasses \/ UNCHANGED vars
  BY <1>3, SameHostInv
  DEF FailingStart, StartLimitHit, IntervalPasses, vars, serverVars, installerVars
<1> QED
  BY <1>1, <1>2, <1>3, ConfigureHostInv, BeginHostInv, CopyHostInv, CreateHostInv,
     WriteHostInv,
     UnitHostInv, RestartHostInv, DisableHostInv, PurgeHostInv, FinishHostInv,
     RebootHostInv
  DEF Next, Operation

LEMMA InitHostInv == Init => HostInv
<1> SUFFICES ASSUME Init
             PROVE  HostInv
  OBVIOUS
<1>1. ProcessInv
  BY InitProcess
<1>2. /\ process = [r \in Replicas |-> Down]
      /\ objects = [f \in Files |-> None]
      /\ command = [step |-> "none", purge |-> FALSE, version |-> None,
                    created |-> FALSE, outcome |-> "none"]
  BY DEF Init, ServerInit
<1>3. CASE deployment = "systemd" /\ Fresh
  BY <1>1, <1>2, <1>3, DownFields
  DEF Fresh, HostInv, HostTypeOK, InstallTrack, UninstallTrack, HostTrack, Quiet, Phases,
      Steps, Outcomes, Applied, Configured, Purging
<1>4. CASE deployment \in {"systemd", "cluster"} /\ (Installed \/ Scheduled)
           /\ (deployment = "systemd" => Installed) /\ (deployment = "cluster" => Scheduled)
  <2>1. PICK s \in Settings[deployment], version \in Versions, w \in {{}, {Host}} :
          /\ host = [configFile |-> s.configFile, environment |-> s.environment,
                     binary |-> version, wanted |-> w]
          /\ deployment = "systemd" =>
               systemd = [unit |-> "whole", enabled |-> TRUE, restarting |-> FALSE,
                          data |-> Dirs]
          /\ deployment = "cluster" =>
               systemd = [unit |-> "absent", enabled |-> FALSE, restarting |-> FALSE,
                          data |-> {}]
    BY <1>4 DEF Installed, Scheduled
  <2>2. deployment \in Deployments /\ s.configFile # NoFile
    BY <1>4, ChosenSettings
  <2>3. HostTypeOK
    <3>1. /\ DOMAIN host = {"configFile", "environment", "binary", "wanted"}
          /\ host.binary \in Versions \cup {None} /\ host.wanted \in SUBSET Replicas
          /\ host.configFile \in {c.configFile: c \in Settings[deployment]}
          /\ host.environment \in {c.environment: c \in Settings[deployment]}
      BY <2>1
    <3>2. systemd \in [unit: {"absent", "partial", "whole"}, enabled: BOOLEAN,
                       restarting: BOOLEAN, data: SUBSET Dirs]
      <4>1. deployment = "systemd" \/ deployment = "cluster"
        BY <1>4
      <4>2. CASE deployment = "systemd"
        <5>1. systemd = [unit |-> "whole", enabled |-> TRUE, restarting |-> FALSE,
                         data |-> Dirs]
          BY <2>1, <4>2
        <5> QED
          BY <5>1
      <4>3. CASE deployment = "cluster"
        <5>1. systemd = [unit |-> "absent", enabled |-> FALSE, restarting |-> FALSE,
                         data |-> {}]
          BY <2>1, <4>3
        <5> QED
          BY <5>1
      <4> QED
        BY <4>1, <4>2, <4>3
    <3>3. command \in [step: Steps, purge: BOOLEAN, version: Versions \cup {None},
                       created: BOOLEAN, outcome: Outcomes]
      BY <1>2 DEF Steps, Outcomes
    <3> QED
      BY <1>1, <2>2, <3>1, <3>2, <3>3 DEF HostTypeOK, ProcessInv, ProcessOK
  <2>4. InstallTrack /\ UninstallTrack
    BY <1>2, <2>1 DEF InstallTrack, UninstallTrack, Applied, Configured, Purging
  <2>5. HostTrack
    BY <1>2, <1>4, <2>1, <2>2, DownFields DEF HostTrack
  <2> QED
    BY <1>1, <2>3, <2>4, <2>5 DEF HostInv
<1> QED
  BY <1>3, <1>4 DEF Init

LimitInv == startLimit \in [starts: 0 .. StartLimitBurst, hit: BOOLEAN]

LEMMA StepLimit == LimitInv /\ [Next]_vars => LimitInv'
<1> SUFFICES ASSUME LimitInv, [Next]_vars
             PROVE  LimitInv'
  OBVIOUS
<1>1. startLimit.starts \in 0 .. StartLimitBurst /\ StartLimitBurst \in Nat \ {0}
  BY DEF LimitInv
<1>2. ASSUME Counted
      PROVE  LimitInv'
  <2>1. CASE UNCHANGED startLimit
    BY <2>1 DEF LimitInv
  <2>2. CASE startLimit.starts < StartLimitBurst
             /\ startLimit' = [startLimit EXCEPT !.starts = startLimit.starts + 1]
    <3>1. startLimit.starts + 1 \in 0 .. StartLimitBurst
      BY <1>1, <2>2
    <3> QED
      BY <2>2, <3>1 DEF LimitInv
  <2> QED
    BY <1>2, <2>1, <2>2 DEF Counted
<1>3. ASSUME StartLimitHit \/ Restarted \/ RestartRefused
      PROVE  LimitInv'
  <2>1. PICK hit \in BOOLEAN : startLimit' = [startLimit EXCEPT !.hit = hit]
    BY <1>3 DEF StartLimitHit, Restarted, RestartRefused
  <2> QED
    BY <2>1 DEF LimitInv
<1>4. ASSUME IntervalPasses
      PROVE  LimitInv'
  <2>1. startLimit' = [startLimit EXCEPT !.starts = 0] /\ 0 \in 0 .. StartLimitBurst
    BY <1>1, <1>4 DEF IntervalPasses
  <2> QED
    BY <2>1 DEF LimitInv
<1>5. ASSUME Reboot
      PROVE  LimitInv'
  BY <1>1, <1>5 DEF Reboot, LimitInv
<1>6. ASSUME UNCHANGED startLimit
      PROVE  LimitInv'
  BY <1>6 DEF LimitInv
<1> QED
  BY <1>2, <1>3, <1>4, <1>5, <1>6 DEF Next, Start, FailingStart, vars

\* Every variable has its type.
THEOREM DeploymentTypeCorrect == Spec => []TypeOK
<1>1. HostInv /\ LimitInv => TypeOK
  BY DEF HostInv, LimitInv, TypeOK
<1>2. Init => LimitInv
  BY DEF Init, LimitInv
<1> QED
  BY <1>1, <1>2, InitHostInv, StepHostInv, StepLimit, PTL DEF Spec

\* After an install the host has what was installed, wanted now and after a
\* boot, wherever earlier commands were broken off and whenever it was
\* rebooted; a configuration that the install has created is whole
\* (internal/systemd Install; docs/systemd.md, Upgrades). One that it has found
\* it keeps, torn or not.
THEOREM InstallsTakeEffect == Spec => []InstallTakesEffect
<1>1. HostInv => InstallTakesEffect
  BY DEF HostInv, InstallTrack, Running, InstallTakesEffect
<1> QED
  BY <1>1, InitHostInv, StepHostInv, PTL DEF Spec

\* An uninstall with purge leaves nothing but the executable: neither
\* configuration nor secrets at its end, and no unit, directory or stored file,
\* and nothing that runs and could write one again, until the next command
\* (internal/systemd Uninstall; docs/systemd.md, Uninstall).
THEOREM PurgesLeaveNothing == Spec => []PurgeLeavesNothing
<1>1. HostInv => PurgeLeavesNothing
  <2> SUFFICES ASSUME HostInv,
                      \/ command.step = "done" /\ command.purge
                      \/ command.step = "none" /\ command.outcome = "purged"
               PROVE  /\ command.step = "done" /\ command.purge =>
                           host.configFile = NoFile /\ host.environment = NoFile
                      /\ systemd = [unit |-> "absent", enabled |-> FALSE,
                                    restarting |-> FALSE, data |-> {}]
                      /\ host.wanted = {} /\ process[Host].phase = "down"
                      /\ \A f \in Files: objects[f] = None
    BY DEF PurgeLeavesNothing
  <2>1. /\ systemd.unit = "absent" /\ systemd.data = {}
        /\ \A f \in Files: objects[f] = None
        /\ command.step = "done" /\ command.purge =>
             host.configFile = NoFile /\ host.environment = NoFile
    BY DEF HostInv, UninstallTrack
  <2>2. Quiet
    BY <2>1, HostTypes DEF HostInv, HostTrack
  <2> QED
    BY <2>1, <2>2, HostTypes DEF Quiet
<1> QED
  BY <1>1, InitHostInv, StepHostInv, PTL DEF Spec

\* Whenever the host could be booted into the service there is something to
\* boot, in the middle of every command (installBinary, Uninstall).
THEOREM ServiceAlwaysStartable == Spec => []ServiceStartable
<1>1. HostInv => ServiceStartable
  BY HostTypes DEF HostInv, HostTrack, Quiet, ServiceStartable
<1> QED
  BY <1>1, InitHostInv, StepHostInv, PTL DEF Spec

-----------------------------------------------------------------------------
(* What a process has loaded. *)

SettingsOf(file, env) ==
  LET config == Override(defaultConfig, file)
  IN  IF env = NoFile THEN config ELSE Override(config, env)

\* Settings over others, some of which it has in common with them.
LEMMA OverrideOK ==
  ASSUME NEW f, NEW g, SettingsOK(f), SettingsOK(g), DOMAIN g = Fields
  PROVE  DOMAIN Override(g, f) = Fields /\ SettingsOK(Override(g, f))
  BY DEF Override, SettingsOK, Fields

LEMMA MergedSettings ==
  ASSUME NEW file, NEW env, SettingsOK(file), env = NoFile \/ SettingsOK(env)
  PROVE  /\ DOMAIN SettingsOf(file, env) = Fields
         /\ SettingsOf(file, env).identityFile \in Seq(STRING \ {Empty})
<1> DEFINE base == Override(defaultConfig, file)
<1>1. DOMAIN base = Fields /\ SettingsOK(base)
  BY OverrideOK
<1>2. SettingsOK(env) => DOMAIN Override(base, env) = Fields /\ SettingsOK(Override(base, env))
  BY <1>1, OverrideOK
<1>3. "identityFile" \in Fields
  BY DEF Fields
<1> QED
  BY <1>1, <1>2, <1>3 DEF SettingsOf, SettingsOK

\* configuration.Load: the settings are merged, and verified before a secret
\* is drawn.
LEMMA LoadVerifies ==
  ASSUME HostTypeOK, Load # Panic
  PROVE  LET m == SettingsOf(host.configFile, host.environment)
         IN  /\ Merged = m
             /\ DOMAIN m = Fields /\ m.identityFile \in Seq(STRING \ {Empty})
             /\ verifyClusterConfig(m) /\ verifyEncryptionConfig(m)
             /\ Load = verifyAdminConfig(m)
<1> DEFINE m == SettingsOf(host.configFile, host.environment)
<1>1. Merged # Panic
  BY DEF Load
<1>2. host.configFile \notin {NoFile, Malformed}
  BY <1>1 DEF Merged
<1>3. Merged = m
  BY <1>2 DEF Merged, SettingsOf, loadFromFile, applyEnvOverrides
<1>4. SettingsOK(host.configFile)
  BY <1>2, ChosenSettings DEF HostTypeOK
<1>5. host.environment = NoFile \/ SettingsOK(host.environment)
  BY ChosenSettings DEF HostTypeOK
<1>6. DOMAIN m = Fields /\ m.identityFile \in Seq(STRING \ {Empty})
  BY <1>4, <1>5, MergedSettings
<1> HIDE DEF m
<1>7. Load = verifyConfiguration(m)
  BY <1>1, <1>3 DEF Load
<1>8. /\ verifyClusterConfig(m) /\ verifyEncryptionConfig(m)
      /\ Load = verifyAdminConfig(m)
  BY <1>7 DEF verifyConfiguration
<1> QED
  BY <1>3, <1>6, <1>8 DEF m

\* what a process has of its settings: all but a secret that was not given,
\* which it may have drawn, but not in a cluster with an admin panel
ConfigOK(r) ==
  LET m == SettingsOf(process[r].read[1], process[r].read[2])
      c == process[r].config
  IN  /\ DOMAIN c = Fields
      /\ \A x \in Fields \ {"sessionSecret"}: c[x] = m[x]
      /\ process[r].explicit <=> m.sessionSecret # Empty
      /\ process[r].explicit => c.sessionSecret = m.sessionSecret
      /\ c.cluster /\ c.admin => process[r].explicit
      /\ verifyEncryptionConfig(c)
      /\ c.identityFile \in Seq(STRING \ {Empty})
      /\ process[r].manager = NewManager(c)

ConfigInv == \A r \in Replicas: process[r].phase # "down" => ConfigOK(r)

Loaded == {"version", "read", "explicit", "config", "manager"}

Continues(r) ==
  process'[r].phase # "down" =>
    /\ process[r].phase # "down"
    /\ \A x \in Loaded: process'[r][x] = process[r][x]

LEMMA ContinuesConfig ==
  ASSUME NEW r \in Replicas, ConfigInv, Continues(r), process'[r].phase # "down"
  PROVE  ConfigOK(r)'
<1>1. /\ process'[r].read = process[r].read /\ process'[r].explicit = process[r].explicit
      /\ process'[r].config = process[r].config
      /\ process'[r].manager = process[r].manager
  BY DEF Continues, Loaded
<1> QED
  BY <1>1 DEF Continues, ConfigInv, ConfigOK

LEMMA StepContinues ==
  ASSUME ProcessInv, [Next]_vars, ~ \E r \in Replicas: StartApp(r)
  PROVE  \A r \in Replicas: Continues(r)
<1>1. ASSUME NEW r \in Replicas,
             Signal(r) \/ ListenFails(r) \/ Join(r) \/ ShutdownWithContext(r)
      PROVE  \A q \in Replicas: Continues(q)
  <2>1. PICK phase: Move(r, phase)
    BY <1>1 DEF Signal, ListenFails, Join, ShutdownWithContext
  <2>2. process[r].phase # "down"
    BY <1>1 DEF Signal, ListenFails, Join, ShutdownWithContext
  <2>3. \A x \in Loaded: process'[r][x] = process[r][x]
    BY <2>1, MoveProcess DEF Loaded, ProcessFields
  <2> QED
    BY <2>1, <2>2, <2>3, MoveProcess DEF Continues
<1>2. ASSUME NEW r \in Replicas,
             \/ runCleanupCycle(r) \/ CycleEnds(r) \/ DeadlinePasses(r)
             \/ (\E f \in Files, client \in BOOLEAN: Upload(r, f, client))
             \/ UploadEnds(r)
      PROVE  \A q \in Replicas: Continues(q)
  <2>1. process[r].phase # "down"
    BY <1>2, DownFields
    DEF runCleanupCycle, CycleEnds, DeadlinePasses, Upload, Listening, UploadEnds,
        ProcessInv, ProcessOK
  <2>2. PICK x \in {"cleaning", "overdue", "uploads"} :
          \E y : Set(r, [process[r] EXCEPT ![x] = y])
    BY <1>2 DEF runCleanupCycle, CycleEnds, DeadlinePasses, Upload, UploadEnds
  <2>3. x \in ProcessFields \ {"phase"} /\ Loaded \subseteq ProcessFields \ {x}
    BY DEF ProcessFields, Loaded
  <2>4. /\ \A z \in Loaded: process'[r][z] = process[r][z]
        /\ \A q \in Replicas \ {r}: process'[q] = process[q]
    BY <2>2, <2>3, SetField
  <2> QED
    BY <2>1, <2>4 DEF Continues
<1>3. ASSUME NEW r \in Replicas, Set(r, Down)
      PROVE  \A q \in Replicas: Continues(q)
  BY <1>3, SetProcess, DownFields DEF Continues
<1>4. ASSUME UNCHANGED process
      PROVE  \A q \in Replicas: Continues(q)
  BY <1>4 DEF Continues
<1>5. CASE ServerNext
  BY <1>1, <1>2, <1>3, <1>4, <1>5 DEF ServerNext, Exit, Crash, Tick, AdminLogin
<1>6. CASE Reboot
  BY <1>3, <1>6 DEF Reboot, Set
<1> QED
  BY <1>4, <1>5, <1>6
  DEF Next, Operation, Start, FailingStart, StartLimitHit, IntervalPasses,
      RestartRefused, vars, serverVars, Configure, Schedule, Install, CopyBinary,
      RenameBinary, WriteDefaultConfig, ConfigWritten, WriteEnvFile, WriteUnit,
      UnitWritten, Enable, Restart, Restarted, InstallDone, Uninstall, Disable,
      RemoveUnit, PurgeConfigDir, PurgeStateDir, PurgeBackingDir, UninstallDone,
      Abort, Do, Finish

\* StartApp
LEMMA StartConfig ==
  ASSUME HostTypeOK, ProcessInv, NEW r \in Replicas, StartApp(r)
  PROVE  /\ ConfigOK(r)'
         /\ process'[r].uploads = {}
         /\ \A q \in Replicas \ {r}: process'[q] = process[q]
<1> DEFINE p == [Down EXCEPT !.phase = "serving", !.version = host.binary,
                         !.read = <<host.configFile, host.environment>>,
                         !.explicit = Merged.sessionSecret # Empty,
                         !.config = Load, !.manager = NewManager(Load)]
           n == SettingsOf(host.configFile, host.environment)
<1>1. /\ Merged = n
      /\ DOMAIN n = Fields /\ n.identityFile \in Seq(STRING \ {Empty})
      /\ verifyClusterConfig(n) /\ verifyEncryptionConfig(n)
      /\ Load = verifyAdminConfig(n)
  BY LoadVerifies DEF StartApp
<1>2. /\ p.read = <<host.configFile, host.environment>>
      /\ p.explicit = (Merged.sessionSecret # Empty)
      /\ p.config = Load /\ p.manager = NewManager(Load) /\ p.uploads = {}
  BY DownFields DEF ProcessFields
<1>3. Set(r, p)
  BY DEF StartApp
<1> HIDE DEF p
<1>4. process'[r] = p /\ \A q \in Replicas \ {r}: process'[q] = process[q]
  BY <1>3, SetProcess
<1>5. PICK m, c: /\ m = n /\ c = Load
  OBVIOUS
<1>6. /\ DOMAIN c = Fields
      /\ \A x \in Fields \ {"sessionSecret"}: c[x] = m[x]
      /\ m.sessionSecret # Empty => c.sessionSecret = m.sessionSecret
  BY <1>1, <1>5 DEF verifyAdminConfig, Fields
<1>7. c.cluster /\ c.admin => m.sessionSecret # Empty
  BY <1>1, <1>5, <1>6 DEF verifyClusterConfig, Fields
<1>8. verifyEncryptionConfig(c) /\ c.identityFile \in Seq(STRING \ {Empty})
  BY <1>1, <1>5, <1>6 DEF verifyEncryptionConfig, Fields
<1>9. /\ process'[r].config = c /\ process'[r].manager = NewManager(c)
      /\ process'[r].explicit = (m.sessionSecret # Empty)
      /\ SettingsOf(process'[r].read[1], process'[r].read[2]) = m
  BY <1>1, <1>2, <1>4, <1>5
<1>10. ConfigOK(r)'
  BY <1>6, <1>7, <1>8, <1>9 DEF ConfigOK
<1> QED
  BY <1>2, <1>4, <1>10

LEMMA StepConfig == HostTypeOK /\ ProcessInv /\ ConfigInv /\ [Next]_vars => ConfigInv'
<1> SUFFICES ASSUME HostTypeOK, ProcessInv, ConfigInv, [Next]_vars
             PROVE  ConfigInv'
  OBVIOUS
<1>1. ASSUME NEW r \in Replicas, StartApp(r)
      PROVE  ConfigInv'
  <2>1. \A q \in Replicas \ {r}: Continues(q)
    BY <1>1, StartConfig DEF Continues
  <2>2. \A q \in Replicas \ {r}: process'[q].phase # "down" => ConfigOK(q)'
    BY <2>1, ContinuesConfig
  <2> QED
    BY <1>1, <2>2, StartConfig DEF ConfigInv
<1>2. ASSUME ~ \E r \in Replicas: StartApp(r)
      PROVE  ConfigInv'
  BY <1>2, StepContinues, ContinuesConfig DEF ConfigInv
<1> QED
  BY <1>1, <1>2

-----------------------------------------------------------------------------
(* Sessions. *)

\* A session that is promised to live on was signed with the secret that its
\* settings give.
TokenInv ==
  \A token \in tokens:
    token.kept =>
      LET m == SettingsOf(token.read[1], token.read[2])
      IN  m.admin /\ m.sessionSecret # Empty /\ token.secret = m.sessionSecret

LEMMA StepTokens == ProcessInv /\ ConfigInv /\ TokenInv /\ [Next]_vars => TokenInv'
<1> SUFFICES ASSUME ProcessInv, ConfigInv, TokenInv, [Next]_vars
             PROVE  TokenInv'
  OBVIOUS
<1>1. ASSUME NEW r \in Replicas, AdminLogin(r)
      PROVE  TokenInv'
  <2>1. /\ process[r].phase # "down" /\ process[r].config.admin
        /\ tokens' = tokens \cup {IssueToken(process[r])}
    BY <1>1 DEF AdminLogin, Listening
  <2>2. PICK m : m = SettingsOf(process[r].read[1], process[r].read[2])
    OBVIOUS
  <2>3. /\ process[r].config.admin = m.admin
        /\ process[r].explicit <=> m.sessionSecret # Empty
        /\ process[r].explicit => process[r].config.sessionSecret = m.sessionSecret
        /\ process[r].config.cluster /\ process[r].config.admin => process[r].explicit
    BY <2>1, <2>2 DEF ConfigInv, ConfigOK, Fields
  <2>4. PICK token : /\ token = IssueToken(process[r])
                     /\ token.secret = process[r].config.sessionSecret
                     /\ token.read = process[r].read
                     /\ token.kept <=> process[r].config.cluster \/ process[r].explicit
    <3>1. PICK token : token = IssueToken(process[r])
      OBVIOUS
    <3>2. /\ token.secret = process[r].config.sessionSecret
          /\ token.read = process[r].read
          /\ token.kept <=> process[r].config.cluster \/ process[r].explicit
      BY <3>1 DEF IssueToken
    <3> QED
      BY <3>1, <3>2
  <2>5. token.kept => m.admin /\ m.sessionSecret # Empty /\ token.secret = m.sessionSecret
    BY <2>1, <2>3, <2>4
  <2> QED
    BY <2>1, <2>2, <2>4, <2>5 DEF TokenInv
<1>2. ASSUME UNCHANGED tokens
      PROVE  TokenInv'
  BY <1>2 DEF TokenInv
<1>3. CASE ServerNext
  BY <1>1, <1>2, <1>3
  DEF ServerNext, Signal, ListenFails, runCleanupCycle, CycleEnds, Join,
      DeadlinePasses, ShutdownWithContext, Exit, Crash, UploadEnds, Upload, Tick
<1>4. ASSUME NEW r \in Replicas, Start(r)
      PROVE  TokenInv'
  BY <1>2, <1>4 DEF Start, StartApp
<1> QED
  BY <1>2, <1>3, <1>4
  DEF Next, Operation, FailingStart, StartLimitHit, IntervalPasses,
      RestartRefused, vars, serverVars, Configure, Schedule, Install, CopyBinary,
      RenameBinary, WriteDefaultConfig, ConfigWritten, WriteEnvFile, WriteUnit,
      UnitWritten, Enable, Restart, Restarted, InstallDone, Uninstall, Disable,
      RemoveUnit, PurgeConfigDir, PurgeStateDir, PurgeBackingDir, UninstallDone,
      Abort, Reboot, Do, Finish

LEMMA InitTokens == Init => ConfigInv /\ TokenInv
  BY DownFields DEF Init, ServerInit, ConfigInv, TokenInv

\* Whoever listens honours the unexpired sessions that another process has
\* issued from the same settings, in a cluster and where a secret is given:
\* through restarts, changes of the settings and back (configuration.Load,
\* verifyConfiguration, auth.Validate).
THEOREM SessionsAreShared == Spec => []SessionsShared
<1>1. ConfigInv /\ TokenInv => SessionsShared
  <2> SUFFICES ASSUME ConfigInv, TokenInv, NEW token \in tokens, NEW r \in Replicas,
                      process[r].phase \in Listening, process[r].read = token.read,
                      token.kept, now < token.expiry
               PROVE  RequireAdmin(process[r], token)
    BY DEF SessionsShared
  <2>1. PICK m : m = SettingsOf(token.read[1], token.read[2])
    OBVIOUS
  <2>2. m.admin /\ m.sessionSecret # Empty /\ token.secret = m.sessionSecret
    BY <2>1 DEF TokenInv
  <2>3. /\ process[r].config.admin = m.admin
        /\ process[r].config.sessionSecret = m.sessionSecret
    <3>1. process[r].phase # "down" /\ m = SettingsOf(process[r].read[1], process[r].read[2])
      BY <2>1 DEF Listening
    <3>2. /\ process[r].config.admin = m.admin
          /\ process[r].explicit <=> m.sessionSecret # Empty
          /\ process[r].explicit => process[r].config.sessionSecret = m.sessionSecret
      BY <3>1 DEF ConfigInv, ConfigOK, Fields
    <3> QED
      BY <2>2, <3>2
  <2> QED
    BY <2>2, <2>3 DEF RequireAdmin, Validate
<1> QED
  BY <1>1, InitHostInv, StepHostInv, InitTokens, StepConfig, StepTokens, PTL
  DEF Spec, HostInv

-----------------------------------------------------------------------------
(* Stored files. *)

\* what is uploaded is new, its file nobody else's, and its key, if it has one,
\* an identity
UploadOK(u) ==
  /\ u.file \in Files /\ objects[u.file] = None
  /\ u.client \in BOOLEAN /\ u.key # Empty

StoreInv ==
  /\ DOMAIN objects = Files
  /\ \A r \in Replicas: \A u \in process[r].uploads: UploadOK(u)
  /\ \A q, r \in Replicas: \A u \in process[q].uploads, v \in process[r].uploads:
       u.file = v.file => q = r /\ u = v
  /\ \A f \in Files: objects[f] # None =>
       objects[f].client \in BOOLEAN /\ objects[f].key # Empty

\* A file is encrypted with an identity that is there.
LEMMA EncryptsWithIdentity ==
  ASSUME NEW r \in Replicas, ConfigInv, process[r].phase # "down",
         process[r].config.encryption
  PROVE  Encrypt(process[r].manager) # Empty
<1>1. PICK c : c = process[r].config
  OBVIOUS
<1>2. /\ c.encryption => c.identity # Empty \/ c.identityFile # <<>>
      /\ c.identityFile \in Seq(STRING \ {Empty})
      /\ process[r].manager = NewManager(c)
  BY <1>1 DEF ConfigInv, ConfigOK, verifyEncryptionConfig
<1>3. CASE c.identity # Empty
  BY <1>2, <1>3 DEF NewManager, Encrypt
<1>4. CASE c.identity = Empty
  <2>1. process[r].manager = c.identityFile /\ c.identityFile # <<>>
    BY <1>1, <1>2, <1>4 DEF NewManager
  <2>2. c.identityFile[1] \in STRING \ {Empty}
    BY <1>2, <2>1
  <2> QED
    BY <2>1, <2>2 DEF Encrypt
<1> QED
  BY <1>3, <1>4

\* Processes that end or start have no uploads.
LEMMA StoreShrinks ==
  ASSUME StoreInv, UNCHANGED objects,
         \A r \in Replicas: process'[r].uploads \subseteq process[r].uploads
  PROVE  StoreInv'
  BY DEF StoreInv, UploadOK

LEMMA UploadStore ==
  ASSUME ProcessInv, ConfigInv, StoreInv, NEW r \in Replicas, NEW f \in Files,
         NEW client \in BOOLEAN, Upload(r, f, client)
  PROVE  StoreInv'
<1>1. PICK u : /\ u = [file |-> f, client |-> client,
                       key |-> IF process[r].config.encryption
                               THEN Encrypt(process[r].manager) ELSE None]
               /\ u.file = f /\ u.client = client
               /\ process[r].config.encryption => u.key = Encrypt(process[r].manager)
               /\ ~process[r].config.encryption => u.key = None
  <2>1. PICK u : u = [file |-> f, client |-> client,
                      key |-> IF process[r].config.encryption
                              THEN Encrypt(process[r].manager) ELSE None]
    OBVIOUS
  <2>2. /\ u.file = f /\ u.client = client
        /\ process[r].config.encryption => u.key = Encrypt(process[r].manager)
        /\ ~process[r].config.encryption => u.key = None
    BY <2>1
  <2> QED
    BY <2>1, <2>2
<1>2. /\ Set(r, [process[r] EXCEPT !["uploads"] = process[r].uploads \cup {u}])
      /\ objects[f] = None /\ UNCHANGED objects /\ process[r].phase # "down"
      /\ \A q \in Replicas: \A v \in process[q].uploads: v.file # f
  BY <1>1 DEF Upload, Listening
<1>3. /\ process'[r]["uploads"] = process[r].uploads \cup {u}
      /\ \A q \in Replicas \ {r}: process'[q] = process[q]
  <2>1. "uploads" \in ProcessFields \ {"phase"}
    BY DEF ProcessFields
  <2>2. PICK ups : ups = process[r].uploads \cup {u}
    OBVIOUS
  <2>3. Set(r, [process[r] EXCEPT !["uploads"] = ups])
    BY <1>2, <2>2
  <2> QED
    BY <2>1, <2>2, <2>3, SetField, SMTT(20)
<1>4. u.key # Empty
  BY <1>1, <1>2, EncryptsWithIdentity
<1>5. UploadOK(u)'
  BY <1>1, <1>2, <1>4 DEF UploadOK
<1>6. \A q \in Replicas: \A v \in process[q].uploads: UploadOK(v)'
  BY <1>2 DEF StoreInv, UploadOK
<1>7. \A q \in Replicas: \A v \in process'[q].uploads:
         v \in process[q].uploads \/ (q = r /\ v = u)
  BY <1>3
<1>8. \A q \in Replicas: \A v \in process'[q].uploads: UploadOK(v)'
  BY <1>5, <1>6, <1>7
<1>9. ASSUME NEW p \in Replicas, NEW q \in Replicas, NEW v \in process'[p].uploads,
             NEW w \in process'[q].uploads, v.file = w.file
      PROVE  p = q /\ v = w
  BY <1>1, <1>2, <1>7, <1>9 DEF StoreInv
<1> QED
  BY <1>2, <1>8, <1>9 DEF StoreInv

LEMMA UploadEndsStore ==
  ASSUME ProcessInv, StoreInv, NEW r \in Replicas, UploadEnds(r)
  PROVE  /\ StoreInv'
         /\ \A f \in Files: objects[f] # None => objects'[f] = objects[f]
<1>1. PICK u \in process[r].uploads :
        /\ Set(r, [process[r] EXCEPT !["uploads"] = process[r].uploads \ {u}])
        /\ \/ UNCHANGED objects
           \/ objects' = [objects EXCEPT ![u.file] = [client |-> u.client, key |-> u.key]]
  BY DEF UploadEnds
<1>2. /\ process'[r]["uploads"] = process[r].uploads \ {u}
      /\ \A q \in Replicas \ {r}: process'[q] = process[q]
  <2>1. "uploads" \in ProcessFields \ {"phase"}
    BY DEF ProcessFields
  <2>2. PICK ups : ups = process[r].uploads \ {u}
    OBVIOUS
  <2>3. Set(r, [process[r] EXCEPT !["uploads"] = ups])
    BY <1>1, <2>2
  <2> QED
    BY <2>1, <2>2, <2>3, SetField
<1>3. UploadOK(u)
  BY DEF StoreInv
<1>4. \A q \in Replicas: \A v \in process'[q].uploads:
         v \in process[q].uploads /\ v.file # u.file
  BY <1>2 DEF StoreInv
<1>5. /\ DOMAIN objects' = Files
      /\ \A f \in Files \ {u.file}: objects'[f] = objects[f]
  BY <1>1 DEF StoreInv
<1>6. \A f \in Files: objects[f] # None => objects'[f] = objects[f]
  BY <1>3, <1>5 DEF UploadOK
<1>7. \A q \in Replicas: \A v \in process'[q].uploads: UploadOK(v)'
  BY <1>4, <1>5 DEF StoreInv, UploadOK
<1>8. ASSUME NEW f \in Files, objects'[f] # None
      PROVE  objects'[f].client \in BOOLEAN /\ objects'[f].key # Empty
  <2>1. CASE f = u.file /\ objects' # objects
    <3>1. objects'[f] = [client |-> u.client, key |-> u.key]
      BY <1>1, <1>3, <2>1 DEF UploadOK, StoreInv
    <3> QED
      BY <1>3, <3>1 DEF UploadOK
  <2>2. CASE ~(f = u.file /\ objects' # objects)
    BY <1>5, <1>8, <2>2 DEF StoreInv
  <2> QED
    BY <2>1, <2>2
<1>9. \A p, q \in Replicas: \A v \in process'[p].uploads, w \in process'[q].uploads:
         v.file = w.file => p = q /\ v = w
  BY <1>4 DEF StoreInv
<1> QED
  BY <1>5, <1>6, <1>7, <1>8, <1>9 DEF StoreInv

LEMMA StepStore ==
  HostTypeOK /\ ProcessInv /\ ConfigInv /\ StoreInv /\ [Next]_vars =>
    /\ StoreInv'
    /\ \A f \in Files: objects[f] # None /\ objects'[f] # objects[f] =>
         command.step = "purgeBacking"
<1> DEFINE Kept == \A f \in Files: objects[f] # None /\ objects'[f] # objects[f] =>
                     command.step = "purgeBacking"
<1> SUFFICES ASSUME HostTypeOK, ProcessInv, ConfigInv, StoreInv, [Next]_vars
             PROVE  StoreInv' /\ Kept
  OBVIOUS
<1>1. ASSUME UNCHANGED objects,
             \A r \in Replicas: process'[r].uploads \subseteq process[r].uploads
      PROVE  StoreInv' /\ Kept
  BY <1>1, StoreShrinks
<1>2. ASSUME UNCHANGED <<objects, process>>
      PROVE  StoreInv' /\ Kept
  BY <1>1, <1>2
<1>3. ASSUME NEW r \in Replicas, Set(r, Down), UNCHANGED objects
      PROVE  StoreInv' /\ Kept
  BY <1>1, <1>3, SetProcess, DownFields
<1>4. ASSUME NEW r \in Replicas, StartApp(r)
      PROVE  StoreInv' /\ Kept
  BY <1>1, <1>4, StartConfig DEF StartApp
<1>5. ASSUME NEW r \in Replicas,
             Signal(r) \/ ListenFails(r) \/ Join(r) \/ ShutdownWithContext(r)
      PROVE  StoreInv' /\ Kept
  <2>1. PICK phase: Move(r, phase)
    BY <1>5 DEF Signal, ListenFails, Join, ShutdownWithContext
  <2>2. /\ process'[r]["uploads"] = process[r]["uploads"]
        /\ \A q \in Replicas \ {r}: process'[q] = process[q]
    BY <2>1, MoveProcess DEF ProcessFields
  <2>3. UNCHANGED objects
    BY <1>5 DEF Signal, ListenFails, Join, ShutdownWithContext
  <2> QED
    BY <1>1, <2>2, <2>3
<1>6. ASSUME NEW r \in Replicas, runCleanupCycle(r) \/ CycleEnds(r) \/ DeadlinePasses(r)
      PROVE  StoreInv' /\ Kept
  <2>1. PICK x \in {"cleaning", "overdue"} :
          \E y : Set(r, [process[r] EXCEPT ![x] = y])
    BY <1>6 DEF runCleanupCycle, CycleEnds, DeadlinePasses
  <2>2. x \in ProcessFields \ {"phase"} /\ "uploads" \in ProcessFields \ {x}
    BY DEF ProcessFields
  <2>3. /\ process'[r]["uploads"] = process[r]["uploads"]
        /\ \A q \in Replicas \ {r}: process'[q] = process[q]
    BY <2>1, <2>2, SetField
  <2>4. UNCHANGED objects
    BY <1>6 DEF runCleanupCycle, CycleEnds, DeadlinePasses
  <2> QED
    BY <1>1, <2>3, <2>4
<1>7. CASE ServerNext
  <2>1. ASSUME NEW r \in Replicas, UploadEnds(r)
        PROVE  StoreInv' /\ Kept
    BY <2>1, UploadEndsStore
  <2>2. ASSUME NEW r \in Replicas, NEW f \in Files, NEW client \in BOOLEAN,
               Upload(r, f, client)
        PROVE  StoreInv' /\ Kept
    BY <2>2, UploadStore DEF Upload
  <2>3. ASSUME Tick \/ \E r \in Replicas: AdminLogin(r)
        PROVE  StoreInv' /\ Kept
    BY <1>2, <2>3 DEF Tick, AdminLogin
  <2>4. ASSUME NEW r \in Replicas, Exit(r) \/ Crash(r)
        PROVE  StoreInv' /\ Kept
    BY <1>3, <2>4 DEF Exit, Crash
  <2> HIDE DEF Kept
  <2> QED
    BY <1>5, <1>6, <1>7, <2>1, <2>2, <2>3, <2>4 DEF ServerNext
<1>8. CASE Reboot
  BY <1>3, <1>8 DEF Reboot, Set
<1>9. CASE PurgeBackingDir
  <2>1. /\ objects' = [f \in Files |-> None] /\ UNCHANGED process
        /\ command.step = "purgeBacking"
    BY <1>9 DEF PurgeBackingDir
  <2> QED
    BY <2>1 DEF StoreInv, UploadOK
<1> HIDE DEF Kept
<1> QED
  BY <1>2, <1>4, <1>7, <1>8, <1>9
  DEF Next, Operation, Start, FailingStart, StartLimitHit, IntervalPasses,
      RestartRefused, vars, serverVars, Configure, Schedule, Install, CopyBinary,
      RenameBinary, WriteDefaultConfig, ConfigWritten, WriteEnvFile, WriteUnit,
      UnitWritten, Enable, Restart, Restarted, InstallDone, Uninstall, Disable,
      RemoveUnit, PurgeConfigDir, PurgeStateDir, UninstallDone, Abort, Do, Finish

LEMMA InitStore == Init => StoreInv
  BY DownFields DEF Init, ServerInit, StoreInv

\* A configuration and a file of variables change only by the hands of the
\* operator, of the command that has begun them, and of a purge.
LEMMA StepHost ==
  ASSUME HostInv, [Next]_vars
  PROVE  /\ host'.configFile # host.configFile =>
              \/ command.step \in {"none", "configWritten", "purgeConfig"}
              \/ host.configFile = NoFile
         /\ host'.environment # host.environment =>
              \/ command.step \in {"none", "purgeConfig"}
              \/ host.environment = NoFile
<1> DEFINE Goal ==
      /\ host'.configFile # host.configFile =>
           \/ command.step \in {"none", "configWritten", "purgeConfig"}
           \/ host.configFile = NoFile
      /\ host'.environment # host.environment =>
           \/ command.step \in {"none", "purgeConfig"}
           \/ host.environment = NoFile
<1>1. ASSUME UNCHANGED host
      PROVE  Goal
  BY <1>1
<1>2. ASSUME NEW x, host' = [host EXCEPT !.wanted = x] \/ host' = [host EXCEPT !.binary = x]
      PROVE  Goal
  BY <1>2, HostTypes
<1>3. ASSUME Configure \/ PurgeConfigDir
      PROVE  Goal
  BY <1>3 DEF Configure, PurgeConfigDir, Do
<1>4. ASSUME WriteDefaultConfig
      PROVE  Goal
  BY <1>4, HostTypes DEF WriteDefaultConfig, Do
<1>5. ASSUME ConfigWritten
      PROVE  Goal
  BY <1>5, HostTypes DEF ConfigWritten, Do
<1>6. ASSUME WriteEnvFile
      PROVE  Goal
  BY <1>6, HostTypes DEF WriteEnvFile, Do
<1>7. ASSUME ServerNext
      PROVE  Goal
  <2>1. UNCHANGED host
    BY <1>7
    DEF ServerNext, Signal, ListenFails, runCleanupCycle, CycleEnds, Join,
        DeadlinePasses, ShutdownWithContext, Exit, Crash, AdminLogin, UploadEnds,
        Upload, Tick
  <2> QED
    BY <1>1, <2>1
<1> HIDE DEF Goal
<1>8. ASSUME \/ \E r \in Replicas: Schedule(r)
             \/ RenameBinary \/ Restart \/ Restarted \/ Disable \/ Reboot
      PROVE  Goal
  <2>1. PICK x : host' = [host EXCEPT !.wanted = x] \/ host' = [host EXCEPT !.binary = x]
    BY <1>8 DEF Schedule, RenameBinary, Restart, Restarted, Disable, Reboot, Do
  <2> QED
    BY <1>2, <2>1
<1>9. ASSUME \/ (\E v \in Versions: Install(v)) \/ CopyBinary \/ WriteUnit
             \/ UnitWritten \/ Enable \/ InstallDone
             \/ (\E purge \in BOOLEAN: Uninstall(purge)) \/ RemoveUnit
             \/ PurgeStateDir \/ PurgeBackingDir \/ UninstallDone \/ Abort
             \/ (\E r \in Replicas: Start(r)) \/ FailingStart \/ StartLimitHit
             \/ IntervalPasses \/ RestartRefused \/ UNCHANGED vars
      PROVE  Goal
  <2>1. UNCHANGED host
    BY <1>9
    DEF Start, StartApp, FailingStart, StartLimitHit, IntervalPasses, RestartRefused,
        vars, serverVars, Install, CopyBinary, WriteUnit, UnitWritten, Enable,
        InstallDone, Uninstall, RemoveUnit, PurgeStateDir, PurgeBackingDir,
        UninstallDone, Abort, Do, Finish
  <2> QED
    BY <1>1, <2>1
<1>10. Goal
  BY <1>3, <1>4, <1>5, <1>6, <1>7, <1>8, <1>9 DEF Next, Operation
<1> QED
  BY <1>10 DEF Goal

\* No command but an uninstall with purge touches a configuration that it has
\* not begun itself, a secrets file or a stored file (docs/systemd.md).
THEOREM EverythingKeptUntilPurge == Spec => KeptUntilPurge
<1>1. HostInv /\ ConfigInv /\ StoreInv /\ [Next]_vars =>
        /\ host'.configFile # host.configFile =>
             \/ command.step \in {"none", "configWritten", "purgeConfig"}
             \/ host.configFile = NoFile
        /\ host'.environment # host.environment =>
             \/ command.step \in {"none", "purgeConfig"}
             \/ host.environment = NoFile
        /\ \A f \in Files: objects[f] # None /\ objects'[f] # objects[f] =>
             command.step = "purgeBacking"
  BY StepHost, StepStore DEF HostInv
<1>2. HostInv => HostTypeOK /\ ProcessInv
  BY DEF HostInv
<1> QED
  BY <1>1, <1>2, InitHostInv, StepHostInv, InitTokens, StepConfig, InitStore, StepStore,
     PTL DEF Spec, KeptUntilPurge

\* A file that is encrypted at rest is served by every replica that has its key,
\* and nobody gets its ciphertext, however keys are rotated and encryption is
\* turned on and off, in any order of restarts (Download,
\* ClientEncryptedContent, NewManager).
THEOREM EncryptedFilesAreServed == Spec => []EncryptedFilesServed
<1>1. ConfigInv /\ StoreInv => EncryptedFilesServed
  <2> SUFFICES ASSUME ConfigInv, StoreInv, NEW f \in Files, NEW r \in Replicas,
                      objects[f] # None, process[r].phase \in Listening,
                      objects[f].key # None
               PROVE  LET p == process[r]
                          answer == IF objects[f].client
                                    THEN ClientEncryptedContent(p, objects[f])
                                    ELSE Download(p, objects[f])
                          keys == {p.config.identity} \cup Range(p.config.identityFile)
                      IN answer = IF objects[f].key \in keys THEN "file" ELSE "500"
    BY DEF EncryptedFilesServed
  <2>1. objects[f].client \in BOOLEAN /\ objects[f].key # Empty
    BY DEF StoreInv
  <2>2. PICK c : c = process[r].config
    OBVIOUS
  <2>3. /\ c.identity = Empty \/ c.identityFile = <<>>
        /\ process[r].manager = NewManager(c)
    BY <2>2 DEF ConfigInv, ConfigOK, verifyEncryptionConfig, Listening
  <2>4. objects[f].key \in Range(process[r].manager)
          <=> objects[f].key \in {c.identity} \cup Range(c.identityFile)
    <3>1. CASE c.identity = Empty
      BY <2>1, <2>3, <3>1 DEF NewManager
    <3>2. CASE c.identity # Empty
      <4>1. c.identityFile = <<>> /\ process[r].manager = <<c.identity>>
        BY <2>3, <3>2 DEF NewManager
      <4>2. Range(<<c.identity>>) = {c.identity} /\ Range(<<>>) = {}
        BY DEF Range
      <4> QED
        BY <4>1, <4>2
    <3> QED
      BY <3>1, <3>2
  <2>5. IF objects[f].client
        THEN ClientEncryptedContent(process[r], objects[f])
               = serveEncrypted(process[r], objects[f])
        ELSE Download(process[r], objects[f]) = serveEncrypted(process[r], objects[f])
    BY <2>1 DEF ClientEncryptedContent, Download
  <2> QED
    BY <2>2, <2>4, <2>5 DEF serveEncrypted, Decrypts
<1>2. HostInv => HostTypeOK /\ ProcessInv
  BY DEF HostInv
<1> QED
  BY <1>1, <1>2, InitHostInv, StepHostInv, InitTokens, StepConfig, InitStore, StepStore,
     PTL DEF Spec
==============================================================================
