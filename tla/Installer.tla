------------------------------ MODULE Installer ------------------------------
(***************************************************************************)
(* What devproxy does to the machine it is installed on (internal/install  *)
(* and the install, uninstall, start and stop commands): the resolver file *)
(* and the backup of the file it displaces, the two launchd services with  *)
(* their property lists and programs.                                      *)
(*                                                                         *)
(* A command is the sequence of the steps it has yet to take; a step that  *)
(* fails ends the command unless the code goes on without it.  CLI is the  *)
(* command line; each member of Toggles is a POST /startup request, which  *)
(* the daemon carries out and which dies with the daemon.  A file's        *)
(* content is Managed (devproxy's), one of UserFiles, or Torn when         *)
(* os.WriteFile was cut short.                                             *)
(***************************************************************************)
EXTENDS Integers, Sequences

CONSTANTS
  CLI, Toggles,
  UserFiles,    \* resolver files of the user's own making
  Scopes,       \* answers to the clean-up questions
  Absent, Managed, Torn,
  MaxCommands,  \* bound: commands of the CLI
  MaxToggles,   \* bound: startup requests
  MaxFaults,    \* bound: failed or interrupted steps
  MaxTorn,      \* bound: writes cut short
  MaxEdits      \* bound: changes the user makes to the resolver file

ASSUME InstallerAssumption ==
  /\ CLI \notin Toggles
  /\ Scopes \subseteq SUBSET {"config", "state", "logs", "certs"}
  /\ {Absent, Managed, Torn} \cap UserFiles = {}
  /\ Absent # Managed /\ Absent # Torn /\ Managed # Torn
  /\ {MaxCommands, MaxToggles, MaxFaults, MaxTorn, MaxEdits} \subseteq Nat

Actors == {CLI} \cup Toggles
Services == {"daemon", "menubar"}

VARIABLES
  resolver,   \* /etc/resolver/<suffix>
  backup,     \* <state dir>/resolver-backups/<suffix>
  plist,      \* per service: its property list
  program,    \* per service: its executable is in place
  loaded,     \* per service: launchd has it, and so it runs
  todo,       \* per actor: the steps it has yet to take
  job,        \* the CLI's last command and how it went
  held,       \* WriteResolver's copy of what is to be backed up
  \* history, read by no action
  displaced,  \* the user's file that the managed one took the place of
  stuck,      \* per service: still loaded after a bootout taken for done
  \* bounds
  commands, toggles, faults, torn, edits

files == <<resolver, backup, held, displaced>>
services == <<plist, program, loaded, stuck>>
bounds == <<commands, toggles, faults, torn, edits>>
vars == <<files, services, todo, job, bounds>>

(***************************************************************************)
(* Commands                                                                *)
(***************************************************************************)
Step(op, s) == [op |-> op, svc |-> s, must |-> TRUE]
Steps(ops, s) == [i \in 1..Len(ops) |-> Step(ops[i], s)]

\* Mutant of WriteResolver: the backup follows the write.
WriteResolverFirst == Steps(<<"readResolver", "writeResolver", "backup">>, "daemon")

WriteResolver == Steps(<<"readResolver", "backup", "writeResolver">>, "daemon")
RemoveResolver == Steps(<<"restore", "dropBackup">>, "daemon")

InstallService(s) == Steps(<<"plist">>, s)

\* Mutant of StartService: the service is not bootstrapped again.
StartServiceOnce(s) == Steps(<<"preflight", "bootout">>, s)

StartService(s) == Steps(<<"preflight", "bootout", "bootstrap", "kickstart", "wait">>, s)
StopService(s) == Steps(<<"bootout">>, s)

UninstallService(s) == Steps(<<"removePlist">>, s)

Install(menubar) ==
  Steps(<<"ensurePaths">>, "daemon") \o WriteResolver
  \o Steps(<<"mkcert", "stage">>, "daemon")
  \o InstallService("daemon") \o StartService("daemon")
  \o IF menubar
       THEN Steps(<<"gui", "stage">>, "menubar") \o InstallService("menubar")
            \o Steps(<<"chown">>, "menubar") \o StartService("menubar")
       ELSE <<>>

\* The menu bar's part is required only if the command asks for it.
RemoveMenubar(required) ==
  LET all == Steps(<<"gui">>, "menubar") \o StopService("menubar")
             \o UninstallService("menubar") \o Steps(<<"unstage">>, "menubar")
  IN  [i \in 1..Len(all) |-> [all[i] EXCEPT !.must = required]]

Asked(op, scope) == IF op \in scope THEN Steps(<<op>>, "daemon") ELSE <<>>

Cleanup(scope) ==
  Asked("config", scope) \o Asked("state", scope) \o Asked("logs", scope)
  \o Asked("certs", scope)

\* Mutant of Uninstall: the menu bar goes before the daemon that serves it.
UninstallMenubarFirst(menubar, scope) ==
  RemoveMenubar(menubar) \o StopService("daemon") \o UninstallService("daemon")
  \o RemoveResolver \o Cleanup(scope)

\* Mutant of Uninstall: the daemon is not stopped.
UninstallRunning(menubar, scope) ==
  UninstallService("daemon") \o RemoveMenubar(menubar) \o RemoveResolver \o Cleanup(scope)

Uninstall(menubar, scope) ==
  StopService("daemon") \o UninstallService("daemon") \o RemoveMenubar(menubar)
  \o RemoveResolver \o Cleanup(scope)

SetMenubarStartupEnabled(enabled) ==
  Steps(<<"gui">>, "menubar")
  \o IF enabled THEN InstallService("menubar") \o StartService("menubar")
                ELSE StopService("menubar") \o UninstallService("menubar")

(***************************************************************************)
(* Moving through a command                                                *)
(***************************************************************************)
Init ==
  /\ resolver \in UserFiles \cup {Absent} /\ backup = Absent
  /\ held = Absent /\ displaced = Absent
  /\ plist = [s \in Services |-> Absent]
  /\ program = [s \in Services |-> FALSE]
  /\ loaded = [s \in Services |-> FALSE]
  /\ stuck = [s \in Services |-> FALSE]
  /\ todo = [a \in Actors |-> <<>>]
  /\ job = [cmd |-> "none", menubar |-> FALSE, result |-> "ok"]
  /\ commands = 0 /\ toggles = 0 /\ faults = 0 /\ torn = 0 /\ edits = 0

At(a, op) == todo[a] # <<>> /\ Head(todo[a]).op = op
Svc(a) == Head(todo[a]).svc

Ends(a, rest, result) ==
  job' = IF a = CLI /\ rest = <<>> THEN [job EXCEPT !.result = result] ELSE job

\* The step is done, or passed over.
Advance(a) ==
  /\ todo' = [todo EXCEPT ![a] = Tail(@)]
  /\ Ends(a, Tail(todo[a]), "ok")

\* The command returns an error, or is killed.
Abort(a) ==
  /\ todo' = [todo EXCEPT ![a] = <<>>]
  /\ Ends(a, <<>>, "failed")

Fault ==
  /\ faults < MaxFaults
  /\ faults' = faults + 1
  /\ UNCHANGED <<commands, toggles, torn, edits>>

Command(cmd, menubar, steps) ==
  /\ todo[CLI] = <<>>
  /\ commands < MaxCommands
  /\ commands' = commands + 1
  /\ todo' = [todo EXCEPT ![CLI] = steps]
  /\ job' = [cmd |-> cmd, menubar |-> menubar, result |-> "running"]
  /\ UNCHANGED <<files, services, toggles, faults, torn, edits>>

BeginInstall == \E m \in BOOLEAN : Command("install", m, Install(m))
BeginUninstall ==
  \E m \in BOOLEAN, scope \in Scopes : Command("uninstall", m, Uninstall(m, scope))
BeginStart == Command("start", FALSE, StartService("daemon"))
BeginStop == Command("stop", FALSE, StopService("daemon"))

BeginToggle(t) ==
  /\ todo[t] = <<>>
  /\ loaded["daemon"]
  /\ toggles < MaxToggles
  /\ toggles' = toggles + 1
  /\ \E enabled \in BOOLEAN :
       todo' = [todo EXCEPT ![t] = SetMenubarStartupEnabled(enabled)]
  /\ UNCHANGED <<files, services, job, commands, faults, torn, edits>>

\* A step fails without effect.  Uninstall goes on after the failure of a step
\* of the menu bar's part that is not required; without a desktop user it
\* leaves that part out.
StepFails(a) ==
  /\ todo[a] # <<>>
  /\ Fault
  /\ IF Head(todo[a]).must THEN Abort(a)
     ELSE IF Head(todo[a]).op = "gui"
       THEN LET rest == SubSeq(todo[a], 1 + Len(RemoveMenubar(FALSE)), Len(todo[a]))
            IN todo' = [todo EXCEPT ![a] = rest] /\ Ends(a, rest, "ok")
       ELSE Advance(a)
  /\ stuck' = [s \in Services |->
                 \/ stuck[s]
                 \/ At(a, "bootout") /\ ~Head(todo[a]).must /\ s = Svc(a) /\ loaded[s]]
  /\ UNCHANGED <<files, plist, program, loaded>>

\* The process is killed between two steps.
Interrupted(a) ==
  /\ todo[a] # <<>>
  /\ Fault
  /\ Abort(a)
  /\ UNCHANGED <<files, services>>

\* A write is cut short by an error or a crash.
WriteTorn(a) ==
  /\ torn < MaxTorn
  /\ torn' = torn + 1
  /\ \/ /\ At(a, "backup") /\ held # Absent /\ backup = Absent
        /\ backup' = Torn
        /\ UNCHANGED <<resolver, plist>>
     \/ /\ At(a, "writeResolver") \/ (At(a, "restore") /\ backup # Absent)
        /\ resolver' = Torn
        /\ UNCHANGED <<backup, plist>>
     \/ /\ At(a, "plist")
        /\ plist' = [plist EXCEPT ![Svc(a)] = Torn]
        /\ UNCHANGED <<resolver, backup>>
  /\ Abort(a)
  /\ UNCHANGED <<held, displaced, program, loaded, stuck, commands, toggles, faults, edits>>

(***************************************************************************)
(* The resolver                                                            *)
(***************************************************************************)
\* A file that differs from the managed one is kept for writeResolverBackup.
ReadResolver ==
  /\ At(CLI, "readResolver")
  /\ held' = IF resolver = Managed THEN Absent ELSE resolver
  /\ displaced' = IF resolver \in {Managed, Torn} THEN displaced ELSE resolver
  /\ Advance(CLI)
  /\ UNCHANGED <<resolver, backup, services, bounds>>

\* A backup that exists is left as it is.
WriteResolverBackup ==
  /\ At(CLI, "backup")
  /\ backup' = IF held # Absent /\ backup = Absent THEN held ELSE backup
  /\ Advance(CLI)
  /\ UNCHANGED <<resolver, held, displaced, services, bounds>>

WriteManaged ==
  /\ At(CLI, "writeResolver")
  /\ resolver' = Managed
  /\ Advance(CLI)
  /\ UNCHANGED <<backup, held, displaced, services, bounds>>

\* The backup is written back; without one the file is removed.
Restore ==
  /\ At(CLI, "restore")
  /\ resolver' = backup
  /\ Advance(CLI)
  /\ UNCHANGED <<backup, held, displaced, services, bounds>>

\* The backup is removed, by RemoveResolver or with the state directory.
DropBackup ==
  /\ At(CLI, "dropBackup") \/ At(CLI, "state")
  /\ backup' = Absent
  /\ Advance(CLI)
  /\ UNCHANGED <<resolver, held, displaced, services, bounds>>

UserEdit ==
  /\ todo[CLI] = <<>>
  /\ edits < MaxEdits
  /\ edits' = edits + 1
  /\ resolver' \in (UserFiles \cup {Absent}) \ {resolver}
  /\ UNCHANGED <<backup, held, displaced, services, todo, job, commands, toggles,
                 faults, torn>>

(***************************************************************************)
(* Services                                                                *)
(***************************************************************************)
\* Directories, trust store, desktop user, ownership, config, logs and
\* certificates: steps of which only success or failure matters here.
Minor(a) ==
  /\ \E op \in {"ensurePaths", "mkcert", "gui", "chown", "config", "logs", "certs"} : At(a, op)
  /\ Advance(a)
  /\ UNCHANGED <<files, services, bounds>>

\* stageCurrentExecutable and prepareMenubarBundle rename a finished copy into
\* place; uninstall removes the menu bar's bundle and leaves the binary.
Stage(a) ==
  /\ At(a, "stage") \/ At(a, "unstage")
  /\ program' = [program EXCEPT ![Svc(a)] = At(a, "stage")]
  /\ Advance(a)
  /\ UNCHANGED <<files, plist, loaded, stuck, bounds>>

\* It fails when the program is already in place, or gone: at the chmod after the
\* rename, at the bundle's Info.plist, or within the removal of the bundle.
StageFails(a) ==
  /\ At(a, "stage") \/ At(a, "unstage")
  /\ Fault
  /\ program' = [program EXCEPT ![Svc(a)] = At(a, "stage")]
  /\ IF Head(todo[a]).must THEN Abort(a) ELSE Advance(a)
  /\ UNCHANGED <<files, plist, loaded, stuck>>

WritePlist(a) ==
  /\ At(a, "plist") \/ At(a, "removePlist")
  /\ plist' = [plist EXCEPT ![Svc(a)] = IF At(a, "plist") THEN Managed ELSE Absent]
  /\ Advance(a)
  /\ UNCHANGED <<files, program, loaded, stuck, bounds>>

\* validateLaunchdPreflight: the list exists and parses, the program exists.
Preflight(a) ==
  /\ At(a, "preflight")
  /\ IF plist[Svc(a)] = Managed /\ program[Svc(a)] THEN Advance(a) ELSE Abort(a)
  /\ UNCHANGED <<files, services, bounds>>

\* launchctl bootout unloads the service and kills its process; the startup
\* requests the daemon was working on end with it.
Bootout(a) ==
  LET s == Svc(a)
  IN /\ At(a, "bootout")
     /\ loaded[s] /\ plist[s] = Managed
     /\ loaded' = [loaded EXCEPT ![s] = FALSE]
     /\ stuck' = [stuck EXCEPT ![s] = FALSE]
     /\ todo' = [b \in Actors |->
                   IF b = a THEN Tail(todo[a])
                   ELSE IF s = "daemon" /\ b \in Toggles THEN <<>> ELSE todo[b]]
     /\ Ends(a, Tail(todo[a]), "ok")
     /\ UNCHANGED <<files, plist, program, bounds>>

\* isKnownLaunchdMissingState: not loaded, or launchctl says "no such file",
\* which is also what it says of a missing property list.
BootoutMissing(a) ==
  LET s == Svc(a)
  IN /\ At(a, "bootout")
     /\ ~loaded[s] \/ plist[s] = Absent
     /\ stuck' = [stuck EXCEPT ![s] = loaded[s]]
     /\ Advance(a)
     /\ UNCHANGED <<files, plist, program, loaded, bounds>>

\* Exit status 5 of a service that launchctl print still finds: an error, which
\* Uninstall alone takes for "already removed".
BootoutRefused(a) ==
  LET s == Svc(a)
  IN /\ At(a, "bootout")
     /\ loaded[s]
     /\ IF plist[s] = Managed THEN Fault ELSE UNCHANGED bounds
     /\ IF a = CLI /\ job.cmd = "uninstall"
          THEN Advance(a) /\ stuck' = [stuck EXCEPT ![s] = TRUE]
          ELSE Abort(a) /\ UNCHANGED stuck
     /\ UNCHANGED <<files, plist, program, loaded>>

\* launchctl bootstrap wants the property list and a service not yet loaded.
Bootstrap(a) ==
  LET s == Svc(a)
  IN /\ At(a, "bootstrap")
     /\ IF plist[s] = Managed /\ program[s] /\ ~loaded[s]
          THEN loaded' = [loaded EXCEPT ![s] = TRUE] /\ Advance(a)
          ELSE Abort(a) /\ UNCHANGED loaded
     /\ UNCHANGED <<files, plist, program, stuck, bounds>>

\* launchctl kickstart, and waitForServiceRunning until "state = running".
Kickstart(a) ==
  /\ At(a, "kickstart") \/ At(a, "wait")
  /\ IF loaded[Svc(a)] THEN Advance(a) ELSE Abort(a)
  /\ UNCHANGED <<files, services, bounds>>

Done ==
  /\ commands = MaxCommands
  /\ \A a \in Actors : todo[a] = <<>>
  /\ UNCHANGED vars

FileStep ==
  ReadResolver \/ WriteResolverBackup \/ WriteManaged \/ Restore \/ DropBackup

ServiceStep(a) ==
  \/ Minor(a) \/ Stage(a) \/ StageFails(a) \/ WritePlist(a)
  \/ Preflight(a) \/ Bootout(a) \/ BootoutMissing(a) \/ BootoutRefused(a)
  \/ Bootstrap(a) \/ Kickstart(a)

Next ==
  \/ BeginInstall \/ BeginUninstall \/ BeginStart \/ BeginStop
  \/ \E t \in Toggles : BeginToggle(t)
  \/ FileStep
  \/ \E a \in Actors : ServiceStep(a) \/ StepFails(a) \/ Interrupted(a) \/ WriteTorn(a)
  \/ UserEdit
  \/ Done

Spec == Init /\ [][Next]_vars

(***************************************************************************)
(* Properties                                                              *)
(***************************************************************************)
Contents == UserFiles \cup {Absent, Managed, Torn}
Ops == {"ensurePaths", "readResolver", "backup", "writeResolver", "mkcert", "stage", "plist",
        "preflight", "bootout", "bootstrap", "kickstart", "wait", "gui", "chown", "removePlist",
        "unstage", "restore", "dropBackup", "config", "state", "logs", "certs"}
StepType == [op : Ops, svc : Services, must : BOOLEAN]
Plans == Seq(StepType)

\* Types of the installation's state.
TypeOK ==
  /\ resolver \in Contents
  /\ backup \in Contents \ {Managed}
  /\ held \in Contents \ {Managed}
  /\ displaced \in UserFiles \cup {Absent}
  /\ plist \in [Services -> {Absent, Managed, Torn}]
  /\ program \in [Services -> BOOLEAN]
  /\ loaded \in [Services -> BOOLEAN]
  /\ stuck \in [Services -> BOOLEAN]
  /\ todo \in [Actors -> Plans]
  /\ job \in [cmd : {"none", "install", "uninstall", "start", "stop"},
              menubar : BOOLEAN, result : {"ok", "failed", "running"}]
  /\ commands \in 0..MaxCommands /\ toggles \in 0..MaxToggles
  /\ faults \in 0..MaxFaults /\ torn \in 0..MaxTorn /\ edits \in 0..MaxEdits

\* While the managed resolver file is in place the file it displaced is in the
\* backup, however often install and uninstall fail and are repeated, as long as
\* no write was torn and the user did not edit the file in between.  The backup
\* is never devproxy's own file.
ManagedHasBackup ==
  /\ backup # Managed
  /\ (torn = 0 /\ edits = 0 /\ resolver = Managed) => backup = displaced

\* StopService comes before UninstallService: at rest a loaded service has a
\* property list, so that a later bootout finds it and the next boot brings it
\* back, unless a bootout that left it loaded was taken for done.  For the menu bar
\* that is said only of a machine on which no startup request was ever made.
LoadedIsInstalled ==
  (\A a \in Actors : todo[a] = <<>>) =>
    \A s \in Services : loaded[s] /\ (s = "daemon" \/ toggles = 0) =>
      plist[s] # Absent \/ stuck[s]

\* RemoveResolver removes only the file that WriteResolver wrote.
OnlyManagedRemoved ==
  [][(At(CLI, "restore") /\ resolver' = Absent) => resolver \in {Managed, Torn, Absent}]_vars

\* When install succeeds the resolver is managed and the daemon is installed
\* and running, whatever startup requests and earlier failures did.
InstallInPlace ==
  [][(job.cmd = "install" /\ job.result = "running" /\ job'.result = "ok") =>
       /\ resolver' = Managed
       /\ plist'["daemon"] = Managed /\ program'["daemon"] /\ loaded'["daemon"]
       /\ job.menubar => program'["menubar"]]_vars

\* What the success of uninstall means.  The daemon's property list, the managed
\* resolver file and its backup are gone.  The daemon is stopped, and every startup
\* request with it, unless a bootout that left it loaded was taken for done ("no
\* such file" of a missing list, or exit status 5): then it goes on running, and
\* so may its startup requests.  With the daemon stopped the menu bar is gone as
\* well if the command asked for that or no step has ever failed, stopped but for
\* the same two answers.  And those answers are no way out of a clean history:
\* with no failed or interrupted step and no torn write both services are stopped
\* (the menu bar's if there was no startup request).
UninstallFinal ==
  (job.cmd = "uninstall" /\ job.result = "ok") =>
    /\ plist["daemon"] = Absent /\ backup = Absent /\ resolver # Managed
    /\ loaded["daemon"] => stuck["daemon"]
    /\ ~loaded["daemon"] => \A t \in Toggles : todo[t] = <<>>
    /\ ((job.menubar \/ faults = 0) /\ ~loaded["daemon"]) =>
         /\ plist["menubar"] = Absent /\ ~program["menubar"]
         /\ loaded["menubar"] => stuck["menubar"]
    /\ (faults = 0 /\ torn = 0) =>
         ~loaded["daemon"] /\ (toggles = 0 => ~loaded["menubar"])
==============================================================================
