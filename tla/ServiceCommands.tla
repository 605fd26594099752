--------------------------- MODULE ServiceCommands ---------------------------
(***************************************************************************)
(* The commands install, start and stop of cli/install, which keep the     *)
(* runner as a service of macOS (cli/install/darwin).                      *)
(*                                                                         *)
(* Each command is a process that asks launchd what there is and then does *)
(* something about it; any number of them may run.  They share the files   *)
(* of the configuration, the plist that describes the service, and         *)
(* launchd, which is external.  launchd lists a job as long as it is       *)
(* loaded, whether its process runs or has ended; a job that is removed is *)
(* listed until its process has ended.                                     *)
(***************************************************************************)
EXTENDS Naturals, FiniteSets

CONSTANTS InstallCommands, StartCommands, StopCommands,
          ConfigPathOf,  \* the flag --config-file of an install or a start
          NoPath,        \* no process, no plist, or one that was not written to its end
          MaxServiceFaults

Commands == InstallCommands \cup StartCommands \cup StopCommands
ConfigPaths == {ConfigPathOf[c] : c \in DOMAIN ConfigPathOf}

ASSUME ServiceCommandsAssumption ==
  /\ InstallCommands \cap (StartCommands \cup StopCommands) = {}
  /\ StartCommands \cap StopCommands = {}
  /\ DOMAIN ConfigPathOf = InstallCommands \cup StartCommands
  /\ NoPath \notin ConfigPaths
  /\ MaxServiceFaults \in Nat

VARIABLES
  command,       \* where a command is
  answer,        \* what it has answered, "none" before
  configFile,    \* of a path: whether there is a file, and whether it is complete
  plist,         \* the configuration the plist names
  loaded,        \* launchd lists the service
  leaving,       \* ... and has been told to remove it
  process,       \* the configuration the process of the service was started with
  serviceFaults, \* how many calls have failed
  overlap,       \* history: two starts have been in progress at once
  restarted      \* history: the stops during which a start has loaded the service

launchd == <<loaded, leaving, process>>
history == <<overlap, restarted>>
serviceVars == <<command, answer, configFile, plist, launchd, serviceFaults, history>>

InProgress(c) == command[c] \notin {"new", "done"}

InitService ==
  /\ command = [c \in Commands |-> "new"]
  /\ answer = [c \in Commands |-> "none"]
  /\ configFile = [p \in ConfigPaths |-> "none"]
  /\ plist = NoPath
  /\ loaded = FALSE /\ leaving = FALSE /\ process = NoPath
  /\ serviceFaults = 0
  /\ overlap = FALSE /\ restarted = {}

CommandAt(c, p) == command' = [command EXCEPT ![c] = p] /\ UNCHANGED answer

Ends(c, r) ==
  /\ command' = [command EXCEPT ![c] = "done"]
  /\ answer' = [answer EXCEPT ![c] = r]

CommandBegins(c, p) ==
  /\ command[c] = "new"
  /\ CommandAt(c, p)

\* A call of c fails, before it has done anything.
ServiceFault == serviceFaults < MaxServiceFaults /\ serviceFaults' = serviceFaults + 1
Aborts(c) == Ends(c, "failure") /\ ServiceFault

-----------------------------------------------------------------------------
(* Variants with a bug in them, which the properties have to tell from what  *)
(* is specified below; the specification does not use them.                  *)

\* The plist is written before launchd is asked.
FoundConfigWrites(c) ==
  /\ plist' = ConfigPathOf[c]
  /\ CommandAt(c, "list")

\* The service is stopped, and not removed.
UnloadStops(c) ==
  /\ command[c] = "unload"
  /\ \/ /\ loaded
        /\ process' = NoPath
        /\ CommandAt(c, "wait") /\ UNCHANGED <<loaded, leaving, serviceFaults>>
     \/ /\ ~loaded
        /\ Ends(c, "failure") /\ UNCHANGED <<launchd, serviceFaults>>
     \/ Aborts(c) /\ UNCHANGED launchd
  /\ UNCHANGED <<configFile, plist, history>>

-----------------------------------------------------------------------------
(* install                                                                   *)

BeginInstall(c) ==
  /\ c \in InstallCommands
  /\ CommandBegins(c, "write")
  /\ UNCHANGED <<configFile, plist, launchd, serviceFaults, history>>

\* Whatever happens while the file is written leaves one that is there but not complete.
WriteConfig(c) ==
  /\ command[c] = "write"
  /\ \/ /\ configFile' = [configFile EXCEPT ![ConfigPathOf[c]] = "complete"]
        /\ Ends(c, "success") /\ UNCHANGED serviceFaults
     \/ /\ Aborts(c)
        /\ configFile' \in {configFile, [configFile EXCEPT ![ConfigPathOf[c]] = "partial"]}
  /\ UNCHANGED <<plist, launchd, history>>

-----------------------------------------------------------------------------
(* start: DarwinHandler.Start                                                *)

BeginStart(c) ==
  /\ c \in StartCommands
  /\ CommandBegins(c, "stat")
  /\ overlap' = (overlap \/ \E b \in StartCommands : InProgress(b))
  /\ UNCHANGED <<configFile, plist, launchd, serviceFaults, restarted>>

FoundConfig(c) == CommandAt(c, "list") /\ UNCHANGED plist

\* checkConfigFileExists: it need not be complete.
CheckConfigFile(c) ==
  /\ command[c] = "stat"
  /\ IF configFile[ConfigPathOf[c]] = "none"
     THEN Ends(c, "failure") /\ UNCHANGED plist
     ELSE FoundConfig(c)
  /\ UNCHANGED <<configFile, launchd, serviceFaults, history>>

\* A service that is listed is taken for one that runs.
Refuses == loaded

ListForStart(c) ==
  /\ command[c] = "list"
  /\ \/ IF Refuses THEN Ends(c, "failure") /\ UNCHANGED serviceFaults
                   ELSE CommandAt(c, "plist") /\ UNCHANGED serviceFaults
     \/ Aborts(c)
  /\ UNCHANGED <<configFile, plist, launchd, history>>

\* createPlist: os.Create empties the file that is there.
CreatePlist(c) ==
  /\ command[c] = "plist"
  /\ \/ /\ plist' = ConfigPathOf[c]
        /\ CommandAt(c, "load") /\ UNCHANGED serviceFaults
     \/ Aborts(c) /\ plist' \in {plist, NoPath}
  /\ UNCHANGED <<configFile, launchd, history>>

\* launchctl load: of a service that is there it may say that all is well, and does nothing.
LoadService(c) ==
  /\ command[c] = "load"
  /\ \/ /\ ~loaded /\ plist # NoPath
        /\ loaded' = TRUE /\ leaving' = FALSE /\ process' = plist
        /\ restarted' = restarted \cup {b \in StopCommands : InProgress(b)}
        /\ Ends(c, "success") /\ UNCHANGED serviceFaults
     \/ /\ loaded
        /\ \E r \in {"success", "failure"} : Ends(c, r)
        /\ UNCHANGED <<launchd, serviceFaults, restarted>>
     \/ /\ ~loaded /\ plist = NoPath
        /\ Ends(c, "failure") /\ UNCHANGED <<launchd, serviceFaults, restarted>>
     \/ Aborts(c) /\ UNCHANGED <<launchd, restarted>>
  /\ UNCHANGED <<configFile, plist, overlap>>

-----------------------------------------------------------------------------
(* stop: DarwinHandler.Stop                                                  *)

BeginStop(c) ==
  /\ c \in StopCommands
  /\ CommandBegins(c, "listed")
  /\ UNCHANGED <<configFile, plist, launchd, serviceFaults, history>>

ListForStop(c) ==
  /\ command[c] = "listed"
  /\ \/ IF loaded THEN CommandAt(c, "unload") /\ UNCHANGED serviceFaults
                  ELSE Ends(c, "failure") /\ UNCHANGED serviceFaults
     \/ Aborts(c)
  /\ UNCHANGED <<configFile, plist, launchd, history>>

\* launchctl remove returns at once; the process is sent a signal.
Unload(c) ==
  /\ command[c] = "unload"
  /\ \/ /\ loaded
        /\ IF process = NoPath THEN loaded' = FALSE /\ leaving' = FALSE
                               ELSE leaving' = TRUE /\ UNCHANGED loaded
        /\ CommandAt(c, "wait") /\ UNCHANGED <<process, serviceFaults>>
     \/ /\ ~loaded
        /\ Ends(c, "failure") /\ UNCHANGED <<launchd, serviceFaults>>
     \/ Aborts(c) /\ UNCHANGED launchd
  /\ UNCHANGED <<configFile, plist, history>>

\* As long as it is listed there is another pause of three seconds.
Poll(c) ==
  /\ command[c] = "wait"
  /\ \/ ~loaded /\ Ends(c, "success") /\ UNCHANGED serviceFaults
     \/ Aborts(c)
  /\ UNCHANGED <<configFile, plist, launchd, history>>

-----------------------------------------------------------------------------
\* The runner ends: by itself, as for a configuration that is not complete, or because it
\* has been told to.
ProcessEnds ==
  /\ process # NoPath
  /\ process' = NoPath
  /\ IF leaving THEN loaded' = FALSE /\ leaving' = FALSE ELSE UNCHANGED <<loaded, leaving>>
  /\ UNCHANGED <<command, answer, configFile, plist, serviceFaults, history>>

CommandStep(c) ==
  \/ WriteConfig(c)
  \/ CheckConfigFile(c) \/ ListForStart(c) \/ CreatePlist(c) \/ LoadService(c)
  \/ ListForStop(c) \/ Unload(c) \/ Poll(c)

NextService ==
  \/ \E c \in Commands : BeginInstall(c) \/ BeginStart(c) \/ BeginStop(c) \/ CommandStep(c)
  \/ ProcessEnds

SpecService == InitService /\ [][NextService]_serviceVars

\* A runner that has been told to end does (SignalEnds of ServerCommand), or launchd kills
\* it after ExitTimeout.
FairService ==
  /\ \A c \in Commands : WF_serviceVars(CommandStep(c))
  /\ WF_serviceVars(ProcessEnds /\ leaving)

-----------------------------------------------------------------------------
(* Properties.                                                               *)

ServiceTypeOK ==
  /\ command \in [Commands -> {"new", "write", "stat", "list", "plist", "load", "listed",
                               "unload", "wait", "done"}]
  /\ answer \in [Commands -> {"none", "success", "failure"}]
  /\ configFile \in [ConfigPaths -> {"none", "partial", "complete"}]
  /\ {plist, process} \subseteq ConfigPaths \cup {NoPath}
  /\ {loaded, leaving} \subseteq BOOLEAN
  /\ serviceFaults \in 0..MaxServiceFaults
  /\ overlap \in BOOLEAN /\ restarted \subseteq StopCommands

\* The plist describes the service that runs, so that it runs the same after the machine
\* has been started anew: a start that is refused, or fails, leaves it alone; unless two
\* have found the service missing at once, and the later one writes over the plist.
PlistDescribesService == process # NoPath /\ ~overlap => plist = process

\* A stop comes to its end, also if the runner had ended before and its job was left
\* behind: unless the service is started anew while it is under way, for it cannot tell the
\* new one from the old one and waits for that to end.
StopReturns ==
  \A c \in StopCommands : command[c] = "wait" ~> command[c] = "done" \/ c \in restarted
=============================================================================
