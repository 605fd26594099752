------------------------- MODULE ProgramStart_proofs ------------------------
(***************************************************************************)
(* Proofs about what comes before the tasks: remote logging and its token  *)
(* (LoggingToken), the configuration and who is given what of it           *)
(* (RunnerConfig), and the commands that keep the runner as a service      *)
(* (ServiceCommands); for any goroutines, lives of tokens, environments,   *)
(* commands and calls that fail.                                           *)
(***************************************************************************)
EXTENDS RunnerConfig, ServiceCommands, TLAPS

-----------------------------------------------------------------------------
(* LoggingToken: attempts are counted, and tokens outlive their cache time.  *)

\* Who begins an attempt has failed less than three times, and the start does not repeat.
Counted ==
  /\ \A c \in TokenUsers :
       /\ user[c] = "idle" => failures[c] = 0
       /\ user[c] = "fetch" => failures[c] < 3
  /\ failures[Starter] = 0

\* A token in the cache that was not stored too late outlives its place there, which is half
\* of what it had left before, and goes on doing so as both are counted down.
Outlives ==
  cacheKind # "none" /\ ~late =>
    cacheKind = "timed" /\ (cacheTime >= 0 => cacheLife > cacheTime)

\* The inductive invariant.
TokenInv == LoggingTypeOK /\ Counted /\ Outlives /\ OnWithToken

\* Half of a life of two and more is at least one, and no more than half of it.
LEMMA HalfIsLess ==
  ASSUME NEW n \in Int
  PROVE  /\ Halved(n) \in Int
         /\ n >= 2 => Halved(n) > 0 /\ 2 * Halved(n) <= n
<1>1. CASE n >= 0
  <2>1. Halved(n) = n \div 2
    BY <1>1 DEF Halved
  <2>2. n \div 2 \in Int /\ 2 * (n \div 2) <= n /\ n < 2 * (n \div 2) + 2
    BY <1>1, SMT
  <2> QED
    BY <2>1, <2>2, SMT
<1>2. CASE n < 0
  <2>1. Halved(n) = 0 - ((0 - n) \div 2)
    BY <1>2 DEF Halved
  <2>2. (0 - n) \div 2 \in Int
    BY <1>2, SMT
  <2> QED
    BY <1>2, <2>1, <2>2, SMT
<1> QED
  BY <1>1, <1>2

LEMMA InitTokenInv == InitLogging => TokenInv
<1> SUFFICES ASSUME InitLogging PROVE TokenInv
  OBVIOUS
<1>1. LoggingTypeOK
  <2>1. cacheTime \in Int /\ cacheLife \in Int
    BY SMT DEF InitLogging, LeastLife
  <2>2. /\ user \in [TokenUsers -> {"idle", "fetch", "halve", "store", "sleep"}]
        /\ failures \in [TokenUsers -> 0..3]
        /\ fetched \in [TokenUsers -> Int] /\ lifeThen \in [TokenUsers -> Int]
    BY DEF InitLogging
  <2>3. /\ remote \in {"off", "starting", "hook", "on", "disabled"}
        /\ cacheKind \in {"none", "timed", "kept"}
        /\ late \in BOOLEAN
    BY DEF InitLogging
  <2> QED
    BY <2>1, <2>2, <2>3 DEF LoggingTypeOK
<1>2. Counted
  BY DEF InitLogging, Counted, TokenUsers
<1>3. Outlives /\ OnWithToken
  BY DEF InitLogging, Outlives, OnWithToken
<1> QED
  BY <1>1, <1>2, <1>3 DEF TokenInv

\* Goroutines that ask, wait or fail leave the cache as it is.
LEMMA AskingKeepsTokenInv ==
  ASSUME TokenInv, NEW c \in TokenUsers,
         RefreshToken(c) \/ FetchToken(c) \/ AttemptFails(c) \/ HalveLife(c) \/ PauseEnds(c)
  PROVE  TokenInv'
<1> USE LoggingAssumption DEF TokenInv, tokenCache, UserAt, TokenUsers
<1>1. LoggingTypeOK'
  <2>1. CASE RefreshToken(c)
    BY <2>1 DEF RefreshToken, LoggingTypeOK
  <2>2. CASE FetchToken(c)
    BY <2>2 DEF FetchToken, LoggingTypeOK
  <2>3. CASE AttemptFails(c)
    BY <2>3 DEF AttemptFails, LoggingTypeOK, Counted
  <2>4. CASE PauseEnds(c)
    BY <2>4 DEF PauseEnds, CallEnds, LoggingTypeOK
  <2>5. CASE HalveLife(c)
    BY <2>5 DEF HalveLife, LoggingTypeOK
  <2> QED
    BY <2>1, <2>2, <2>3, <2>4, <2>5
<1>2. Counted'
  <2>1. CASE RefreshToken(c)
    BY <2>1 DEF RefreshToken, LoggingTypeOK, Counted
  <2>2. CASE FetchToken(c)
    BY <2>2 DEF FetchToken, LoggingTypeOK, Counted
  <2>3. CASE AttemptFails(c)
    BY <2>3 DEF AttemptFails, LoggingTypeOK, Counted
  <2>4. CASE PauseEnds(c)
    BY <2>4 DEF PauseEnds, GivesUp, CallEnds, LoggingTypeOK, Counted
  <2>5. CASE HalveLife(c)
    BY <2>5 DEF HalveLife, LoggingTypeOK, Counted
  <2> QED
    BY <2>1, <2>2, <2>3, <2>4, <2>5
<1>3. Outlives' /\ OnWithToken'
  BY DEF RefreshToken, FetchToken, AttemptFails, HalveLife, PauseEnds, Outlives, OnWithToken
<1> QED
  BY <1>1, <1>2, <1>3

LEMMA StoreKeepsTokenInv ==
  ASSUME TokenInv, NEW c \in TokenUsers, StoreLoggingToken(c)
  PROVE  TokenInv'
<1> USE LoggingAssumption DEF TokenInv, StoreLoggingToken, CacheSet, CallEnds, UserAt, TokenUsers
<1>1. fetched[c] \in Int /\ lifeThen[c] \in Int
  BY DEF LoggingTypeOK
<1>2. /\ Halved(lifeThen[c]) \in Int
      /\ lifeThen[c] >= 2 => Halved(lifeThen[c]) > 0 /\ 2 * Halved(lifeThen[c]) <= lifeThen[c]
  BY <1>1, HalfIsLess
<1>3. LoggingTypeOK'
  <2>1. cacheTime' \in Int /\ cacheLife' \in Int /\ late' \in BOOLEAN
    BY <1>1, <1>2
  <2>2. remote' \in {"off", "starting", "hook", "on", "disabled"}
    BY DEF LoggingTypeOK
  <2> QED
    BY <2>1, <2>2 DEF LoggingTypeOK
<1>4. Counted'
  BY DEF LoggingTypeOK, Counted
<1>5. Outlives'
  <2>1. ~late' => ~(lifeThen[c] < 2) /\ ~(2 * fetched[c] <= lifeThen[c])
    BY Zenon
  <2>2. ~late' => Halved(lifeThen[c]) > 0 /\ fetched[c] > Halved(lifeThen[c])
    BY <1>1, <1>2, <2>1
  <2>3. ~late' => cacheKind' = "timed" /\ cacheLife' > cacheTime'
    BY <1>2, <2>2
  <2> QED
    BY <2>3 DEF Outlives
<1>6. OnWithToken'
  BY DEF OnWithToken
<1> QED
  BY <1>3, <1>4, <1>5, <1>6

LEMMA TimeKeepsTokenInv == TokenInv /\ TimePasses => TokenInv'
<1> SUFFICES ASSUME TokenInv, TimePasses PROVE TokenInv'
  OBVIOUS
<1> USE DEF TokenInv, TimePasses
<1>1. LoggingTypeOK'
  BY DEF LoggingTypeOK, Passes, LeastLife
<1>2. Outlives'
  BY DEF LoggingTypeOK, Outlives, Passes, LeastLife
<1>3. Counted' /\ OnWithToken'
  BY DEF Counted, OnWithToken
<1> QED
  BY <1>1, <1>2, <1>3

LEMMA StartKeepsTokenInv == TokenInv /\ (StartRemote \/ AddsHook) => TokenInv'
BY LoggingAssumption
   DEF TokenInv, LoggingTypeOK, Counted, Outlives, OnWithToken, StartRemote, AddsHook,
       UserAt, tokenCache, TokenUsers

LEMMA NextKeepsTokenInv == TokenInv /\ [NextLogging]_loggingVars => TokenInv'
<1> SUFFICES ASSUME TokenInv, [NextLogging]_loggingVars PROVE TokenInv'
  OBVIOUS
<1>1. CASE StartRemote \/ AddsHook
  BY <1>1, StartKeepsTokenInv
<1>2. CASE TimePasses
  BY <1>2, TimeKeepsTokenInv
<1>3. ASSUME NEW c \in TokenUsers, RefreshToken(c) \/ TokenStep(c)
      PROVE  TokenInv'
  BY <1>3, AskingKeepsTokenInv, StoreKeepsTokenInv DEF TokenStep
<1>4. CASE UNCHANGED loggingVars
  BY <1>4 DEF loggingVars, TokenInv, LoggingTypeOK, Counted, Outlives, OnWithToken
<1> QED
  BY <1>1, <1>2, <1>3, <1>4 DEF NextLogging

\* The invariant of remote logging: attempts are counted, and tokens outlive their time in
\* the cache.
THEOREM TokenInvHolds == SpecLogging => []TokenInv
BY InitTokenInv, NextKeepsTokenInv, PTL DEF SpecLogging

\* Types, and with them that no call of Token() fails more than three times
\* (token_manager.go:56).
THEOREM LoggingTypeOKHolds == SpecLogging => []LoggingTypeOK
<1>1. TokenInv => LoggingTypeOK
  BY DEF TokenInv
<1> QED
  BY <1>1, TokenInvHolds, PTL

\* Whatever lives the manager's tokens have, however long a goroutine takes from one reading
\* of the clock to the next, and whoever replaces whose token, one that is found in the cache
\* has not expired, but for those that were too short-lived to be halved, or of whose life
\* half had passed before the cache began to count (token_manager.go:83, :84).
THEOREM CachedTokenLivesHolds == SpecLogging => []CachedTokenLives
<1>1. TokenInv => CachedTokenLives
  BY DEF TokenInv, LoggingTypeOK, Outlives, CachedTokenLives, InCache
<1> QED
  BY <1>1, TokenInvHolds, PTL

\* Remote logging is on only after a token has been had (token_manager.go:37).
THEOREM OnWithTokenHolds == SpecLogging => []OnWithToken
<1>1. TokenInv => OnWithToken
  BY DEF TokenInv
<1> QED
  BY <1>1, TokenInvHolds, PTL

-----------------------------------------------------------------------------
(* ServiceCommands: who has found no service is the only one to load one.    *)

\* A start is where a start goes, and no other command; until two have overlapped there is
\* one.
OneStart ==
  /\ \A c \in Commands :
       /\ command[c] \in {"stat", "list", "plist", "load"} => c \in StartCommands
       /\ command[c] \in {"listed", "unload", "wait"} => c \notin StartCommands
  /\ ~overlap => \A a, b \in StartCommands : InProgress(a) /\ InProgress(b) => a = b

\* Who is about to write the plist, or to load it, has found no service, and there is none
\* still: who else could have loaded one?
FoundNone ==
  ~overlap => \A c \in StartCommands : command[c] \in {"plist", "load"} => ~loaded

\* A process belongs to a service that launchd lists.
ProcessIsLoaded == process # NoPath => loaded

\* The inductive invariant.
ServiceInv ==
  ServiceTypeOK /\ OneStart /\ FoundNone /\ ProcessIsLoaded /\ PlistDescribesService

LEMMA PathsAreNamed ==
  \A c \in InstallCommands \cup StartCommands : ConfigPathOf[c] \in ConfigPaths
BY ServiceCommandsAssumption DEF ConfigPaths

LEMMA InitServiceInv == InitService => ServiceInv
<1> SUFFICES ASSUME InitService PROVE ServiceInv
  OBVIOUS
<1>1. ServiceTypeOK
  <2>1. /\ command \in [Commands -> {"new", "write", "stat", "list", "plist", "load", "listed",
                                    "unload", "wait", "done"}]
        /\ answer \in [Commands -> {"none", "success", "failure"}]
        /\ configFile \in [ConfigPaths -> {"none", "partial", "complete"}]
    BY DEF InitService
  <2>2. serviceFaults \in 0..MaxServiceFaults
    BY ServiceCommandsAssumption DEF InitService
  <2>3. /\ {plist, process} \subseteq ConfigPaths \cup {NoPath}
        /\ {loaded, leaving} \subseteq BOOLEAN
        /\ overlap \in BOOLEAN /\ restarted \subseteq StopCommands
    BY DEF InitService
  <2> QED
    BY <2>1, <2>2, <2>3 DEF ServiceTypeOK
<1>2. OneStart /\ FoundNone
  BY DEF InitService, OneStart, FoundNone, InProgress, Commands
<1>3. ProcessIsLoaded /\ PlistDescribesService
  BY DEF InitService, ProcessIsLoaded, PlistDescribesService
<1> QED
  BY <1>1, <1>2, <1>3 DEF ServiceInv

-----------------------------------------------------------------------------
(* Steps that leave the plist, launchd and the starts alone.                 *)

LEMMA QuietKeepsServiceInv ==
  ASSUME ServiceInv, NEW c \in Commands, NEW p,
         command' = [command EXCEPT ![c] = p],
         p \in {"write", "listed", "unload", "wait", "done"},
         answer' \in [Commands -> {"none", "success", "failure"}],
         configFile' \in [ConfigPaths -> {"none", "partial", "complete"}],
         serviceFaults' \in 0..MaxServiceFaults,
         UNCHANGED <<plist, launchd, history>>,
         c \in StartCommands => p = "done"
  PROVE  ServiceInv'
<1> USE DEF ServiceInv, launchd, history
<1>1. ServiceTypeOK'
  BY DEF ServiceTypeOK
<1>2. \A d \in Commands : command'[d] = IF d = c THEN p ELSE command[d]
  BY DEF ServiceTypeOK
<1>3. OneStart'
  BY <1>2 DEF OneStart, InProgress, Commands
<1>4. FoundNone'
  BY <1>2 DEF FoundNone, Commands
<1>5. ProcessIsLoaded' /\ PlistDescribesService'
  BY DEF ProcessIsLoaded, PlistDescribesService
<1> QED
  BY <1>1, <1>3, <1>4, <1>5

LEMMA FaultsBounded ==
  ASSUME ServiceTypeOK, ServiceFault
  PROVE  serviceFaults' \in 0..MaxServiceFaults
BY ServiceCommandsAssumption, SMT DEF ServiceTypeOK, ServiceFault

LEMMA InstallKeepsServiceInv ==
  ASSUME ServiceInv, NEW c \in Commands, BeginInstall(c) \/ WriteConfig(c)
  PROVE  ServiceInv'
<1> USE DEF CommandAt, Ends
<1>1. ServiceTypeOK /\ OneStart
  BY DEF ServiceInv
<1>2. CASE BeginInstall(c)
  <2>1. c \notin StartCommands
    BY <1>2, ServiceCommandsAssumption DEF BeginInstall
  <2> QED
    BY <1>1, <1>2, <2>1, QuietKeepsServiceInv DEF BeginInstall, CommandBegins, ServiceTypeOK
<1>3. CASE WriteConfig(c)
  <2>1. answer' \in [Commands -> {"none", "success", "failure"}]
    BY <1>1, <1>3 DEF WriteConfig, Aborts, ServiceTypeOK
  <2>2. configFile' \in [ConfigPaths -> {"none", "partial", "complete"}]
    BY <1>1, <1>3 DEF WriteConfig, Aborts, ServiceTypeOK
  <2>3. serviceFaults' \in 0..MaxServiceFaults
    BY <1>1, <1>3, FaultsBounded DEF WriteConfig, Aborts, ServiceTypeOK
  <2>4. command' = [command EXCEPT ![c] = "done"]
    BY <1>3 DEF WriteConfig, Aborts
  <2>5. UNCHANGED <<plist, launchd, history>>
    BY <1>3 DEF WriteConfig
  <2> QED
    BY <2>1, <2>2, <2>3, <2>4, <2>5, QuietKeepsServiceInv
<1> QED
  BY <1>2, <1>3

-----------------------------------------------------------------------------
(* start                                                                     *)

LEMMA BeginStartKeepsServiceInv ==
  ASSUME ServiceInv, NEW c \in Commands, BeginStart(c)
  PROVE  ServiceInv'
<1> USE DEF ServiceInv, BeginStart, CommandBegins, CommandAt, launchd
<1>1. \A d \in Commands : command'[d] = IF d = c THEN "stat" ELSE command[d]
  BY DEF ServiceTypeOK
<1>2. ServiceTypeOK'
  <2>1. overlap' \in BOOLEAN
    BY Zenon
  <2> QED
    BY <2>1 DEF ServiceTypeOK
<1>3. ~overlap' => ~overlap /\ \A b \in StartCommands : ~InProgress(b)
  BY Zenon
<1>4. OneStart'
  <2>1. \A d \in Commands :
          /\ command'[d] \in {"stat", "list", "plist", "load"} => d \in StartCommands
          /\ command'[d] \in {"listed", "unload", "wait"} => d \notin StartCommands
    BY <1>1 DEF OneStart
  <2>2. ASSUME ~overlap', NEW a \in StartCommands, InProgress(a)'
        PROVE  a = c
    BY <1>1, <1>3, <2>2 DEF InProgress, Commands
  <2> QED
    BY <2>1, <2>2 DEF OneStart
<1>5. FoundNone'
  BY <1>1, <1>3 DEF FoundNone, Commands
<1>6. ProcessIsLoaded' /\ PlistDescribesService'
  BY <1>3 DEF ProcessIsLoaded, PlistDescribesService
<1> QED
  BY <1>2, <1>4, <1>5, <1>6

\* A start in progress goes on, or ends, and nothing else is touched than the plist.
LEMMA StartGoesOn ==
  ASSUME ServiceInv, NEW c \in StartCommands, NEW p,
         command[c] \in {"stat", "list", "plist"},
         p \in {"list", "plist", "load", "done"},
         command' = [command EXCEPT ![c] = p],
         answer' \in [Commands -> {"none", "success", "failure"}],
         serviceFaults' \in 0..MaxServiceFaults,
         plist' \in ConfigPaths \cup {NoPath},
         UNCHANGED <<configFile, launchd, history>>,
         p = "plist" => ~loaded,
         p = "load" => command[c] = "plist",
         plist' = plist \/ command[c] = "plist"
  PROVE  ServiceInv'
<1> USE DEF ServiceInv, launchd, history
<1>1. c \in Commands
  BY DEF Commands
<1>2. \A d \in Commands : command'[d] = IF d = c THEN p ELSE command[d]
  BY DEF ServiceTypeOK
<1>3. ServiceTypeOK'
  BY DEF ServiceTypeOK
<1>4. OneStart'
  BY <1>1, <1>2 DEF OneStart, InProgress, Commands
<1>5. FoundNone'
  BY <1>1, <1>2 DEF FoundNone, Commands
<1>6. ProcessIsLoaded'
  BY DEF ProcessIsLoaded
<1>7. PlistDescribesService'
  BY DEF PlistDescribesService, ProcessIsLoaded, FoundNone
<1> QED
  BY <1>3, <1>4, <1>5, <1>6, <1>7

LEMMA StartKeepsServiceInv ==
  ASSUME ServiceInv, NEW c \in Commands,
         CheckConfigFile(c) \/ ListForStart(c) \/ CreatePlist(c)
  PROVE  ServiceInv'
<1>1. ServiceTypeOK /\ OneStart
  BY DEF ServiceInv
<1>2. c \in StartCommands
  BY <1>1 DEF OneStart, CheckConfigFile, ListForStart, CreatePlist
<1>3. answer' \in [Commands -> {"none", "success", "failure"}]
  BY <1>1 DEF ServiceTypeOK, CheckConfigFile, ListForStart, CreatePlist, FoundConfig,
              CommandAt, Ends, Aborts
<1>4. serviceFaults' \in 0..MaxServiceFaults
  BY <1>1, FaultsBounded DEF ServiceTypeOK, CheckConfigFile, ListForStart, CreatePlist, Aborts
<1>5. plist' \in ConfigPaths \cup {NoPath}
  BY <1>1, <1>2, PathsAreNamed
     DEF ServiceTypeOK, CheckConfigFile, ListForStart, CreatePlist, FoundConfig
<1>6. CASE CheckConfigFile(c)
  BY <1>2, <1>3, <1>4, <1>5, <1>6, StartGoesOn DEF CheckConfigFile, FoundConfig, CommandAt, Ends
<1>7. CASE ListForStart(c)
  BY <1>2, <1>3, <1>4, <1>5, <1>7, StartGoesOn
     DEF ListForStart, Refuses, CommandAt, Ends, Aborts
<1>8. CASE CreatePlist(c)
  BY <1>2, <1>3, <1>4, <1>5, <1>8, StartGoesOn DEF CreatePlist, CommandAt, Ends, Aborts
<1> QED
  BY <1>6, <1>7, <1>8

LEMMA LoadKeepsServiceInv ==
  ASSUME ServiceInv, NEW c \in Commands, LoadService(c)
  PROVE  ServiceInv'
<1> USE DEF ServiceInv, launchd
<1>1. c \in StartCommands
  BY DEF OneStart, LoadService
<1>2. command' = [command EXCEPT ![c] = "done"]
  BY DEF LoadService, Ends, Aborts
<1>3. \A d \in Commands : command'[d] = IF d = c THEN "done" ELSE command[d]
  BY <1>2 DEF ServiceTypeOK
<1>4. ServiceTypeOK'
  <2>1. command' \in [Commands -> {"new", "write", "stat", "list", "plist", "load", "listed",
                                   "unload", "wait", "done"}]
    BY <1>2 DEF ServiceTypeOK
  <2>2. answer' \in [Commands -> {"none", "success", "failure"}]
    BY DEF ServiceTypeOK, LoadService, Ends, Aborts
  <2>3. serviceFaults' \in 0..MaxServiceFaults
    BY FaultsBounded DEF ServiceTypeOK, LoadService, Aborts
  <2>4. {plist', process'} \subseteq ConfigPaths \cup {NoPath}
    BY DEF ServiceTypeOK, LoadService
  <2>5. loaded' \in BOOLEAN /\ leaving' \in BOOLEAN
    BY DEF ServiceTypeOK, LoadService
  <2>6. restarted' \subseteq StopCommands
    BY DEF ServiceTypeOK, LoadService
  <2> QED
    BY <2>1, <2>2, <2>3, <2>4, <2>5, <2>6 DEF ServiceTypeOK, LoadService
<1>5. UNCHANGED <<plist, overlap>>
  BY DEF LoadService
<1>6. OneStart'
  BY <1>1, <1>3, <1>5 DEF OneStart, InProgress, Commands
<1>7. FoundNone'
  <2> SUFFICES ASSUME ~overlap', NEW d \in StartCommands, command'[d] \in {"plist", "load"}
               PROVE  FALSE
    BY DEF FoundNone
  <2>1. d # c /\ InProgress(d)
    BY <1>1, <1>3 DEF InProgress, Commands
  <2>2. InProgress(c)
    BY DEF LoadService, InProgress
  <2> QED
    BY <1>1, <1>5, <2>1, <2>2 DEF OneStart
<1>8. ProcessIsLoaded'
  BY DEF ProcessIsLoaded, LoadService
<1>9. PlistDescribesService'
  BY <1>5 DEF PlistDescribesService, LoadService
<1> QED
  BY <1>4, <1>6, <1>7, <1>8, <1>9

-----------------------------------------------------------------------------
(* stop, and the end of the process                                          *)

LEMMA StopKeepsServiceInv ==
  ASSUME ServiceInv, NEW c \in Commands, BeginStop(c) \/ ListForStop(c) \/ Poll(c)
  PROVE  ServiceInv'
<1>1. ServiceTypeOK /\ OneStart
  BY DEF ServiceInv
<1>2. c \notin StartCommands
  BY <1>1, ServiceCommandsAssumption DEF BeginStop, ListForStop, Poll, OneStart
<1>3. answer' \in [Commands -> {"none", "success", "failure"}]
  BY <1>1 DEF ServiceTypeOK, BeginStop, CommandBegins, ListForStop, Poll, CommandAt, Ends, Aborts
<1>4. serviceFaults' \in 0..MaxServiceFaults
  BY <1>1, FaultsBounded DEF ServiceTypeOK, BeginStop, ListForStop, Poll, Aborts
<1>5. configFile' \in [ConfigPaths -> {"none", "partial", "complete"}]
  BY <1>1 DEF ServiceTypeOK, BeginStop, ListForStop, Poll
<1>6. UNCHANGED <<plist, launchd, history>>
  BY DEF BeginStop, ListForStop, Poll
<1>7. PICK p \in {"listed", "unload", "done"} : command' = [command EXCEPT ![c] = p]
  BY DEF BeginStop, CommandBegins, ListForStop, Poll, CommandAt, Ends, Aborts
<1> QED
  BY <1>2, <1>3, <1>4, <1>5, <1>6, <1>7, QuietKeepsServiceInv

LEMMA UnloadKeepsServiceInv ==
  ASSUME ServiceInv, NEW c \in Commands, Unload(c)
  PROVE  ServiceInv'
<1> USE DEF ServiceInv, Unload, launchd, history
<1>1. PICK p \in {"wait", "done"} : command' = [command EXCEPT ![c] = p]
  BY DEF CommandAt, Ends, Aborts
<1>2. \A d \in Commands : command'[d] = IF d = c THEN p ELSE command[d]
  BY <1>1 DEF ServiceTypeOK
<1>3. c \notin StartCommands
  BY DEF OneStart
<1>4. ServiceTypeOK'
  <2>1. command' \in [Commands -> {"new", "write", "stat", "list", "plist", "load", "listed",
                                   "unload", "wait", "done"}]
    BY <1>1 DEF ServiceTypeOK
  <2>2. answer' \in [Commands -> {"none", "success", "failure"}]
    BY DEF ServiceTypeOK, CommandAt, Ends, Aborts
  <2>3. serviceFaults' \in 0..MaxServiceFaults
    BY FaultsBounded DEF ServiceTypeOK, Aborts
  <2>4. loaded' \in BOOLEAN /\ leaving' \in BOOLEAN /\ process' = process
    BY DEF ServiceTypeOK
  <2> QED
    BY <2>1, <2>2, <2>3, <2>4 DEF ServiceTypeOK
<1>5. OneStart'
  BY <1>2, <1>3 DEF OneStart, InProgress, Commands
<1>6. FoundNone'
  <2>1. loaded' => loaded
    OBVIOUS
  <2> QED
    BY <1>2, <1>3, <2>1 DEF FoundNone, Commands
<1>7. ProcessIsLoaded' /\ PlistDescribesService'
  BY DEF ProcessIsLoaded, PlistDescribesService
<1> QED
  BY <1>4, <1>5, <1>6, <1>7

\* The process ends, and with it a service that had been told to leave.
LEMMA EndKeepsServiceInv == ServiceInv /\ ProcessEnds => ServiceInv'
<1> SUFFICES ASSUME ServiceInv, ProcessEnds PROVE ServiceInv'
  OBVIOUS
<1> USE DEF ServiceInv, ProcessEnds, history
<1>1. ServiceTypeOK'
  <2>1. /\ loaded' \in BOOLEAN /\ leaving' \in BOOLEAN
        /\ process' \in ConfigPaths \cup {NoPath}
    BY DEF ServiceTypeOK
  <2> QED
    BY <2>1 DEF ServiceTypeOK
<1>2. OneStart'
  BY DEF OneStart, InProgress
<1>3. FoundNone'
  <2>1. loaded' => loaded
    OBVIOUS
  <2> QED
    BY <2>1 DEF FoundNone
<1>4. ProcessIsLoaded' /\ PlistDescribesService'
  BY DEF ProcessIsLoaded, PlistDescribesService
<1> QED
  BY <1>1, <1>2, <1>3, <1>4

-----------------------------------------------------------------------------
LEMMA NextKeepsServiceInv == ServiceInv /\ [NextService]_serviceVars => ServiceInv'
<1> SUFFICES ASSUME ServiceInv, [NextService]_serviceVars PROVE ServiceInv'
  OBVIOUS
<1>1. ASSUME NEW c \in Commands,
             BeginInstall(c) \/ BeginStart(c) \/ BeginStop(c) \/ CommandStep(c)
      PROVE  ServiceInv'
  BY <1>1, InstallKeepsServiceInv, BeginStartKeepsServiceInv, StartKeepsServiceInv,
     LoadKeepsServiceInv, StopKeepsServiceInv, UnloadKeepsServiceInv DEF CommandStep
<1>2. CASE ProcessEnds
  BY <1>2, EndKeepsServiceInv
<1>3. CASE UNCHANGED serviceVars
  BY <1>3 DEF serviceVars, launchd, history, ServiceInv, ServiceTypeOK, OneStart, InProgress,
              FoundNone, ProcessIsLoaded, PlistDescribesService
<1> QED
  BY <1>1, <1>2, <1>3 DEF NextService

\* The invariant of the commands: between the look at launchd and the load nobody else
\* loads the service, as long as starts do not overlap.
THEOREM ServiceInvHolds == SpecService => []ServiceInv
BY InitServiceInv, NextKeepsServiceInv, PTL DEF SpecService

\* The plist describes the service that runs, for any number of commands and whichever of
\* their calls fail, until two starts overlap (darwin.go:81).
THEOREM PlistDescribesServiceHolds == SpecService => []PlistDescribesService
<1>1. ServiceInv => PlistDescribesService
  BY DEF ServiceInv
<1> QED
  BY <1>1, ServiceInvHolds, PTL

-----------------------------------------------------------------------------
(* RunnerConfig: who has been given what of the configuration, and when.     *)

\* The configuration is what has been read, but for the pool file, which the flag may
\* override, and the id, which the registration fills in if there is none.
AsRead ==
  run \notin {"load", "ended"} =>
    /\ \A f \in FieldNames \ {"DELEGATE_ID", "VM_POOL_FILE"} : config[f] = ReadFrom(env)[f]
    /\ run # "serve" => config["DELEGATE_ID"] = ReadFrom(env)["DELEGATE_ID"]
    /\ run = "serve" =>
         /\ runnerID = "given"
         /\ config["DELEGATE_ID"] = PickNonEmpty(ReadFrom(env)["DELEGATE_ID"], runnerID)

Wired == run \in {"logging", "pool", "register", "serve"}

\* Who has been checked has all that is needed, and the file of the flag.
Checked ==
  Wired \/ run = "wire" =>
    ~Incomplete /\ (flag # "" => config["VM_POOL_FILE"] = flag)

\* What has been handed out is in the configuration still.
HandedOut ==
  Wired =>
    /\ \A who \in {context, shell} :
         /\ who["ACCOUNT_ID"] = config["ACCOUNT_ID"] /\ who["NAME"] = GetName
         /\ who["TOKEN"] = GetToken /\ who["URL"] = GetHarnessUrl
    /\ context["DELEGATE_ID"] = IDPointer
    /\ shell["VM_POOL_FILE"] = config["VM_POOL_FILE"]

PoolOfFlag ==
  /\ run \notin {"register", "serve", "ended"} => pool = Nothing
  /\ run \in {"register", "serve"} /\ pool # Nothing =>
       /\ flag \in DOMAIN PoolsOf /\ pool["VM_POOL_FILE"] = flag
       /\ pool["NAME"] = config["DELEGATE_NAME"]

\* The part of the type invariant that is about the start alone.
ConfigTypeOK ==
  /\ run \in {"load", "check", "wire", "logging", "pool", "register", "serve", "ended"}
  /\ DOMAIN config = FieldNames /\ DOMAIN context = FieldNames
  /\ DOMAIN shell = FieldNames /\ DOMAIN pool = FieldNames
  /\ runnerID \in {"", "given"}

\* The inductive invariant.
ConfigInv == ConfigTypeOK /\ AsRead /\ Checked /\ HandedOut /\ PoolOfFlag

LEMMA FieldsAreNamed ==
  /\ {"ENABLE_REMOTE_LOGGING", "DELEGATE_ID", "ACCOUNT_ID", "DELEGATE_TOKEN",
      "MANAGER_HOST_AND_PORT", "DELEGATE_NAME", "PARALLEL_WORKERS", "VM_POOL_FILE",
      "VM_POOL_MAP_BY_ACCOUNT_ID", "TOKEN", "NAME", "URL"} \subseteq FieldNames
  /\ DOMAIN Fields = 1..12
<1>1. DOMAIN Fields = 1..12
  BY DEF Fields
<1>2. /\ Fields[1] = "ENABLE_REMOTE_LOGGING" /\ Fields[2] = "DELEGATE_ID"
      /\ Fields[3] = "ACCOUNT_ID" /\ Fields[4] = "DELEGATE_TOKEN"
      /\ Fields[5] = "MANAGER_HOST_AND_PORT" /\ Fields[6] = "DELEGATE_NAME"
      /\ Fields[7] = "PARALLEL_WORKERS" /\ Fields[8] = "VM_POOL_FILE"
      /\ Fields[9] = "VM_POOL_MAP_BY_ACCOUNT_ID" /\ Fields[10] = "TOKEN"
      /\ Fields[11] = "NAME" /\ Fields[12] = "URL"
  BY DEF Fields
<1> QED
  BY <1>1, <1>2 DEF FieldNames

\* A field has what the environment has, or its default, unless reading has come to an end
\* before it.
LEMMA ReadFields ==
  ASSUME NEW e, NEW f \in FieldNames
  PROVE  /\ DOMAIN ReadFrom(e) = FieldNames
         /\ e[f] = "" => ReadFrom(e)[f] \in {"", Default(f)}
         /\ e[f] # "" => ReadFrom(e)[f] \in {"", e[f]}
         /\ e[f] # "" /\ (\A g \in FieldNames : ~Unreadable(e[g])) => ReadFrom(e)[f] = e[f]
<1> DEFINE Read(i) == \A k \in 1..i : ~Unreadable(e[Fields[k]])
           i == CHOOSE j \in DOMAIN Fields : Fields[j] = f
<1>1. i \in 1..12 /\ Fields[i] = f
  BY FieldsAreNamed DEF FieldNames
<1>2. ReadFrom(e)[f] = IF ~Read(i) THEN "" ELSE IF e[f] = "" THEN Default(f) ELSE e[f]
  BY DEF ReadFrom
<1>3. DOMAIN ReadFrom(e) = FieldNames
  BY DEF ReadFrom
<1> HIDE DEF i
<1>4. (\A g \in FieldNames : ~Unreadable(e[g])) => Read(i)
  <2> SUFFICES ASSUME \A g \in FieldNames : ~Unreadable(e[g]), NEW k \in 1..i
               PROVE  ~Unreadable(e[Fields[k]])
    OBVIOUS
  <2>1. k \in 1..12
    BY <1>1, SMT
  <2>2. Fields[k] \in FieldNames
    BY <2>1, FieldsAreNamed DEF FieldNames
  <2> QED
    BY <2>2
<1> HIDE DEF Read
<1> QED
  BY <1>2, <1>3, <1>4

\* The getters look at fields that stay as they have been read.
LEMMA GettersOfRead ==
  ASSUME AsRead, run \notin {"load", "ended"}
  PROVE  /\ GetName = PickNonEmpty(ReadFrom(env)["NAME"], ReadFrom(env)["DELEGATE_NAME"])
         /\ GetHarnessUrl = PickNonEmpty(ReadFrom(env)["URL"],
                                         ReadFrom(env)["MANAGER_HOST_AND_PORT"])
         /\ GetToken = TokenString(PickNonEmpty(ReadFrom(env)["TOKEN"],
                                                ReadFrom(env)["DELEGATE_TOKEN"]))
BY FieldsAreNamed DEF AsRead, GetName, GetHarnessUrl, GetToken

LEMMA InitConfigInv == InitConfig => ConfigInv
BY DEF InitConfig, ConfigInv, ConfigTypeOK, Nothing, AsRead, Checked, Wired, HandedOut, PoolOfFlag

\* What the getters give depends on fields that nothing changes once they are read.
LEMMA GettersStay ==
  ASSUME \A f \in FieldNames \ {"DELEGATE_ID", "VM_POOL_FILE"} : config'[f] = config[f]
  PROVE  /\ GetName' = GetName /\ GetHarnessUrl' = GetHarnessUrl /\ GetToken' = GetToken
         /\ Incomplete' = Incomplete
<1>1. /\ config'["NAME"] = config["NAME"] /\ config'["DELEGATE_NAME"] = config["DELEGATE_NAME"]
      /\ config'["URL"] = config["URL"]
      /\ config'["MANAGER_HOST_AND_PORT"] = config["MANAGER_HOST_AND_PORT"]
      /\ config'["TOKEN"] = config["TOKEN"]
      /\ config'["DELEGATE_TOKEN"] = config["DELEGATE_TOKEN"]
      /\ config'["ACCOUNT_ID"] = config["ACCOUNT_ID"]
  BY FieldsAreNamed
<1>2. GetName' = GetName /\ GetHarnessUrl' = GetHarnessUrl /\ GetToken' = GetToken
  BY <1>1 DEF GetName, GetHarnessUrl, GetToken, PickNonEmpty, TokenString, IsHexadecimal, Base64
<1> QED
  BY <1>1, <1>2 DEF Incomplete

LEMMA LoadKeepsConfigInv == ConfigInv /\ LoadConfig => ConfigInv'
<1> SUFFICES ASSUME ConfigInv, LoadConfig PROVE ConfigInv'
  OBVIOUS
<1>1. /\ run = "load" /\ UNCHANGED <<context, shell, pool, runnerID>>
      /\ \/ config' = ReadFrom(env') /\ run' = "check"
         \/ run' = "ended" /\ config' = config
  BY DEF LoadConfig
<1>2. DOMAIN ReadFrom(env') = FieldNames
  BY FieldsAreNamed, ReadFields
<1>3. ConfigTypeOK'
  BY <1>1, <1>2 DEF ConfigInv, ConfigTypeOK
<1>4. AsRead'
  BY <1>1, FieldsAreNamed DEF AsRead
<1>5. Checked' /\ HandedOut' /\ PoolOfFlag'
  BY <1>1 DEF ConfigInv, Checked, Wired, HandedOut, PoolOfFlag
<1> QED
  BY <1>3, <1>4, <1>5 DEF ConfigInv

LEMMA CheckKeepsConfigInv == ConfigInv /\ CheckConfig => ConfigInv'
<1> SUFFICES ASSUME ConfigInv, CheckConfig PROVE ConfigInv'
  OBVIOUS
<1> USE DEF ConfigInv
<1>1. /\ run = "check" /\ UNCHANGED <<env, flag, context, shell, pool, runnerID>>
      /\ \/ run' = "ended" /\ config' = config
         \/ /\ run' = "wire" /\ ~Incomplete
            /\ config' = [config EXCEPT !["VM_POOL_FILE"] = PickNonEmpty(flag, @)]
  BY DEF CheckConfig
<1>2. /\ DOMAIN config' = FieldNames
      /\ \A f \in FieldNames \ {"VM_POOL_FILE"} : config'[f] = config[f]
      /\ run' = "wire" /\ flag # "" => config'["VM_POOL_FILE"] = flag
  BY <1>1, FieldsAreNamed DEF ConfigTypeOK, PickNonEmpty
<1>3. ConfigTypeOK'
  BY <1>1, <1>2 DEF ConfigTypeOK
<1>4. AsRead'
  BY <1>1, <1>2, FieldsAreNamed DEF AsRead
<1>5. Incomplete' = Incomplete
  BY <1>2, GettersStay
<1>6. Checked'
  BY <1>1, <1>2, <1>5 DEF Checked, Wired
<1>7. HandedOut' /\ PoolOfFlag'
  BY <1>1 DEF Wired, HandedOut, PoolOfFlag
<1> QED
  BY <1>3, <1>4, <1>6, <1>7

LEMMA WireKeepsConfigInv == ConfigInv /\ Wire => ConfigInv'
<1> SUFFICES ASSUME ConfigInv, Wire PROVE ConfigInv'
  OBVIOUS
<1> USE DEF ConfigInv
<1>1. /\ run = "wire" /\ UNCHANGED <<env, flag, config, pool, runnerID>>
      /\ \/ run' = "ended" /\ UNCHANGED <<context, shell>>
         \/ run' = "logging" /\ context' = ContextOfConfig /\ shell' = ShellOfConfig
  BY DEF Wire
<1>2. /\ DOMAIN ContextOfConfig = FieldNames /\ DOMAIN ShellOfConfig = FieldNames
      /\ \A who \in {ContextOfConfig, ShellOfConfig} :
           /\ who["ACCOUNT_ID"] = config["ACCOUNT_ID"] /\ who["NAME"] = GetName
           /\ who["TOKEN"] = GetToken /\ who["URL"] = GetHarnessUrl
      /\ ContextOfConfig["DELEGATE_ID"] = IDPointer
      /\ ShellOfConfig["VM_POOL_FILE"] = config["VM_POOL_FILE"]
  BY FieldsAreNamed DEF ContextOfConfig, ShellOfConfig, Nothing, IDOfContext, TagFile
<1>3. ConfigTypeOK'
  BY <1>1, <1>2 DEF ConfigTypeOK
<1>4. AsRead'
  BY <1>1 DEF AsRead
<1>5. GetName' = GetName /\ GetHarnessUrl' = GetHarnessUrl /\ GetToken' = GetToken
      /\ Incomplete' = Incomplete
  BY <1>1, GettersStay
<1>6. Checked' /\ PoolOfFlag'
  BY <1>1, <1>5 DEF Checked, Wired, PoolOfFlag
<1>7. HandedOut'
  BY <1>1, <1>2, <1>5 DEF Wired, HandedOut
<1> QED
  BY <1>3, <1>4, <1>6, <1>7

\* Steps that leave the configuration and what has been handed out alone.
LEMMA LaterKeepsConfigInv == ConfigInv /\ (StartLogging \/ SetUpPool) => ConfigInv'
<1> SUFFICES ASSUME ConfigInv, StartLogging \/ SetUpPool PROVE ConfigInv'
  OBVIOUS
<1> USE DEF ConfigInv
<1>1. /\ run \in {"logging", "pool"} /\ UNCHANGED <<env, flag, config, context, shell, runnerID>>
      /\ run' \in {"logging", "pool", "register", "ended"}
  BY DEF StartLogging, SetUpPool
<1>2. GetName' = GetName /\ GetHarnessUrl' = GetHarnessUrl /\ GetToken' = GetToken
      /\ Incomplete' = Incomplete
  BY <1>1, GettersStay
<1>3. PoolOfFlag' /\ DOMAIN pool' = FieldNames
  <2>1. CASE pool' = pool
    BY <1>1, <2>1 DEF PoolOfFlag, ConfigTypeOK
  <2>2. CASE /\ flag \in DOMAIN PoolsOf /\ run' = "register"
             /\ pool' = [Nothing EXCEPT !["VM_POOL_FILE"] = flag,
                                        !["NAME"] = config["DELEGATE_NAME"]]
    BY <1>1, <2>2, FieldsAreNamed DEF PoolOfFlag, Nothing
  <2> QED
    BY <2>1, <2>2 DEF StartLogging, SetUpPool
<1>4. ConfigTypeOK'
  BY <1>1, <1>3 DEF ConfigTypeOK
<1>5. AsRead'
  BY <1>1 DEF AsRead
<1>6. Checked'
  BY <1>1, <1>2 DEF Checked, Wired
<1>7. HandedOut'
  BY <1>1, <1>2 DEF HandedOut, Wired
<1> QED
  BY <1>3, <1>4, <1>5, <1>6, <1>7

LEMMA RegisterKeepsConfigInv == ConfigInv /\ RegisterRunner => ConfigInv'
<1> SUFFICES ASSUME ConfigInv, RegisterRunner PROVE ConfigInv'
  OBVIOUS
<1> USE DEF ConfigInv
<1>1. /\ run = "register" /\ UNCHANGED <<env, flag, context, shell, pool>>
      /\ \/ run' = "ended" /\ UNCHANGED <<config, runnerID>>
         \/ /\ run' = "serve" /\ runnerID' = "given"
            /\ config' = [config EXCEPT !["DELEGATE_ID"] = PickNonEmpty(@, "given")]
  BY DEF RegisterRunner, UpsertDelegateID
<1>2. /\ DOMAIN config' = FieldNames
      /\ \A f \in FieldNames \ {"DELEGATE_ID"} : config'[f] = config[f]
      /\ run' = "serve" => config'["DELEGATE_ID"] = PickNonEmpty(config["DELEGATE_ID"], "given")
  BY <1>1, FieldsAreNamed DEF ConfigTypeOK
<1>3. GetName' = GetName /\ GetHarnessUrl' = GetHarnessUrl /\ GetToken' = GetToken
      /\ Incomplete' = Incomplete
  BY <1>2, GettersStay
<1>4. ConfigTypeOK'
  BY <1>1, <1>2 DEF ConfigTypeOK
<1>5. AsRead'
  BY <1>1, <1>2, FieldsAreNamed DEF AsRead
<1>6. /\ config'["VM_POOL_FILE"] = config["VM_POOL_FILE"]
      /\ config'["ACCOUNT_ID"] = config["ACCOUNT_ID"]
      /\ config'["DELEGATE_NAME"] = config["DELEGATE_NAME"]
  BY <1>2, FieldsAreNamed
<1>7. Checked' /\ PoolOfFlag'
  BY <1>1, <1>3, <1>6 DEF Checked, Wired, PoolOfFlag
<1>8. HandedOut'
  BY <1>1, <1>3, <1>6 DEF HandedOut, Wired
<1> QED
  BY <1>4, <1>5, <1>7, <1>8

LEMMA NextKeepsConfigInv == ConfigInv /\ [NextStart]_StartVars => ConfigInv'
<1> SUFFICES ASSUME ConfigInv, [NextStart]_StartVars PROVE ConfigInv'
  OBVIOUS
<1>1. CASE UNCHANGED configVars
  <2>1. GetName' = GetName /\ GetHarnessUrl' = GetHarnessUrl /\ GetToken' = GetToken
        /\ Incomplete' = Incomplete
    BY <1>1, GettersStay DEF configVars
  <2>2. ConfigTypeOK' /\ AsRead' /\ PoolOfFlag'
    BY <1>1 DEF configVars, ConfigInv, ConfigTypeOK, AsRead, PoolOfFlag
  <2>3. Checked' /\ HandedOut'
    BY <1>1, <2>1 DEF configVars, ConfigInv, Checked, HandedOut, Wired
  <2> QED
    BY <2>2, <2>3 DEF ConfigInv
<1>2. CASE RunStep
  BY <1>2, LoadKeepsConfigInv, CheckKeepsConfigInv, WireKeepsConfigInv, LaterKeepsConfigInv,
     RegisterKeepsConfigInv DEF RunStep
<1> QED
  BY <1>1, <1>2 DEF NextStart, LoggingStep, StartVars

\* The invariant of the start: what has been read, checked, handed out and set up agrees.
THEOREM ConfigInvHolds == SpecStart => []ConfigInv
<1>1. InitStart => ConfigInv
  BY InitConfigInv DEF InitStart
<1> QED
  BY <1>1, NextKeepsConfigInv, PTL DEF SpecStart

\* Of the steps of the start, one starts remote logging and the others leave it alone.
LEMMA LoggingOfStart == [NextStart]_StartVars => [NextLogging]_loggingVars
<1> SUFFICES ASSUME [NextStart]_StartVars PROVE [NextLogging]_loggingVars
  OBVIOUS
<1>1. CASE LoadConfig
  BY <1>1 DEF LoadConfig
<1>2. CASE CheckConfig
  BY <1>2 DEF CheckConfig
<1>3. CASE Wire
  BY <1>3 DEF Wire
<1>4. CASE StartLogging
  BY <1>4 DEF StartLogging, NextLogging
<1>5. CASE SetUpPool
  BY <1>5 DEF SetUpPool
<1>6. CASE RegisterRunner
  BY <1>6 DEF RegisterRunner
<1>7. CASE LoggingStep
  BY <1>7 DEF LoggingStep, NextLogging
<1>8. CASE UNCHANGED StartVars
  BY <1>8 DEF StartVars
<1> QED
  BY <1>1, <1>2, <1>3, <1>4, <1>5, <1>6, <1>7, <1>8 DEF NextStart, RunStep

\* The type invariant of the start, whatever the environment, the flag and the pool files.
THEOREM StartTypeOKHolds == SpecStart => []StartTypeOK
<1>1. SpecStart => SpecLogging
  <2>1. InitStart => InitLogging
    BY DEF InitStart
  <2> QED
    BY <2>1, LoggingOfStart, PTL DEF SpecStart, SpecLogging
<1>2. ConfigInv /\ LoggingTypeOK => StartTypeOK
  BY DEF ConfigInv, ConfigTypeOK, StartTypeOK
<1> QED
  BY <1>1, <1>2, ConfigInvHolds, LoggingTypeOKHolds, PTL

-----------------------------------------------------------------------------
(* What follows for a runner that serves.                                    *)

LEMMA NewNamesWinFollows == ConfigInv => NewNamesWin
<1> SUFFICES ASSUME ConfigInv, run = "serve", ~LoadError PROVE NewNamesWin
  BY DEF NewNamesWin
<1>1. \A f \in {"NAME", "URL", "TOKEN"} :
        f \in FieldNames /\ (env[f] # "" => ReadFrom(env)[f] = env[f])
  BY FieldsAreNamed, ReadFields DEF LoadError
<1>2. /\ GetName = PickNonEmpty(ReadFrom(env)["NAME"], ReadFrom(env)["DELEGATE_NAME"])
      /\ GetHarnessUrl = PickNonEmpty(ReadFrom(env)["URL"],
                                      ReadFrom(env)["MANAGER_HOST_AND_PORT"])
      /\ GetToken = TokenString(PickNonEmpty(ReadFrom(env)["TOKEN"],
                                             ReadFrom(env)["DELEGATE_TOKEN"]))
  BY GettersOfRead DEF ConfigInv
<1>3. \A who \in {context, shell} :
        who["NAME"] = GetName /\ who["TOKEN"] = GetToken /\ who["URL"] = GetHarnessUrl
  BY DEF ConfigInv, HandedOut, Wired
<1>4. env["NAME"] # "" => GetName = env["NAME"]
  BY <1>1, <1>2 DEF PickNonEmpty
<1>5. env["URL"] # "" => GetHarnessUrl = env["URL"]
  BY <1>1, <1>2 DEF PickNonEmpty
<1>6. env["TOKEN"] # "" => GetToken = TokenString(env["TOKEN"])
  BY <1>1, <1>2 DEF PickNonEmpty
<1> QED
  BY <1>3, <1>4, <1>5, <1>6 DEF NewNamesWin

LEMMA TokenIsPlainFollows == ConfigInv => TokenIsPlain
<1> SUFFICES ASSUME ConfigInv, run = "serve",
                    {env["TOKEN"], env["DELEGATE_TOKEN"]} \subseteq {"", "hex", "coded"}
             PROVE  context["TOKEN"] = "hex" /\ shell["TOKEN"] = "hex"
  BY DEF TokenIsPlain
<1> DEFINE picked == PickNonEmpty(ReadFrom(env)["TOKEN"], ReadFrom(env)["DELEGATE_TOKEN"])
<1>1. {"TOKEN", "DELEGATE_TOKEN"} \subseteq FieldNames
  BY FieldsAreNamed
<1>2. Default("TOKEN") = "" /\ Default("DELEGATE_TOKEN") = ""
  BY DEF Default
<1>3. /\ ReadFrom(env)["TOKEN"] \in {"", "hex", "coded"}
      /\ ReadFrom(env)["DELEGATE_TOKEN"] \in {"", "hex", "coded"}
  BY <1>1, <1>2, ReadFields
<1>4. picked \in {"", "hex", "coded"}
  BY <1>3 DEF PickNonEmpty
<1>5. GetToken = TokenString(picked)
  BY GettersOfRead DEF ConfigInv
<1>6. GetToken # ""
  BY DEF ConfigInv, Checked, Wired, Incomplete
<1> HIDE DEF picked
<1>7. TokenString("") = "" /\ TokenString("hex") = "hex" /\ TokenString("coded") = "hex"
  BY DEF TokenString, IsHexadecimal, Base64
<1>8. GetToken = "hex"
  BY <1>4, <1>5, <1>6, <1>7
<1> QED
  BY <1>8 DEF ConfigInv, HandedOut, Wired

LEMMA HandlersKnowRunnerFollows == ConfigInv => HandlersKnowRunner
<1> SUFFICES ASSUME ConfigInv, run = "serve" PROVE HandlersKnowRunner
  BY DEF HandlersKnowRunner
<1>1. \A f \in {"NAME", "ACCOUNT_ID", "URL", "TOKEN"} : context[f] = shell[f]
  BY DEF ConfigInv, HandedOut, Wired
<1>2. Deref(context["DELEGATE_ID"]) = config["DELEGATE_ID"]
  BY DEF ConfigInv, HandedOut, Wired, Deref
<1>3. env["DELEGATE_ID"] = "" => ReadFrom(env)["DELEGATE_ID"] = ""
  BY FieldsAreNamed, ReadFields DEF Default
<1>4. env["DELEGATE_ID"] = "" => config["DELEGATE_ID"] = runnerID
  BY <1>3 DEF ConfigInv, AsRead, PickNonEmpty
<1> QED
  BY <1>1, <1>2, <1>4 DEF HandlersKnowRunner

LEMMA TagsNameThePoolFollows == ConfigInv => TagsNameThePool
<1> SUFFICES ASSUME ConfigInv, run = "serve", pool # Nothing
             PROVE  /\ PoolTags(pool["VM_POOL_FILE"]) \subseteq PoolTags(shell["VM_POOL_FILE"])
                    /\ config["NAME"] = "" => pool["NAME"] = context["NAME"]
  BY DEF TagsNameThePool
<1>1. /\ flag \in DOMAIN PoolsOf /\ pool["VM_POOL_FILE"] = flag
      /\ pool["NAME"] = config["DELEGATE_NAME"]
  BY DEF ConfigInv, PoolOfFlag
<1>2. flag # "" /\ config["VM_POOL_FILE"] = flag /\ shell["VM_POOL_FILE"] = flag
  BY <1>1, ConfigAssumption DEF ConfigInv, Checked, HandedOut, Wired
<1>3. context["NAME"] = GetName
  BY DEF ConfigInv, HandedOut, Wired
<1>4. config["NAME"] = "" => GetName = config["DELEGATE_NAME"]
  BY DEF GetName, PickNonEmpty
<1> QED
  BY <1>1, <1>2, <1>3, <1>4

\* Whatever is in the environment, malformed or not, and wherever the pool file comes from:
\* everybody who is given something of the configuration knows the same runner
\* (config.go:102, server_command.go:37).
THEOREM RunnerIsKnownHolds == SpecStart => []RunnerIsKnown
<1>1. ConfigInv => RunnerIsKnown
  BY NewNamesWinFollows, TokenIsPlainFollows, HandlersKnowRunnerFollows, TagsNameThePoolFollows
     DEF RunnerIsKnown
<1> QED
  BY <1>1, ConfigInvHolds, PTL
=============================================================================
