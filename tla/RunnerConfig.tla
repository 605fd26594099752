---------------------------- MODULE RunnerConfig ----------------------------
(***************************************************************************)
(* The configuration: how delegate.FromEnviron reads it from the           *)
(* environment, and who is given what from it while the program starts, in *)
(* the order of serverCommand.run, remote logging included.                *)
(*                                                                         *)
(* Everybody copies what he needs, at different times, and the name, the   *)
(* token and the URL have an old and a new variable each.  envconfig,      *)
(* which fills the fields in the order of the struct and stops at the      *)
(* first value it cannot convert, is external, and so is the pool.         *)
(***************************************************************************)
EXTENDS LoggingToken, Sequences

CONSTANTS Starts,  \* how the program is started: the environment, and the flag --pool or ""
          PoolsOf  \* the pools in a pool file; files that can be read are its domain

\* The variables that matter here, in the order of the fields.
Fields == <<"ENABLE_REMOTE_LOGGING", "DELEGATE_ID", "ACCOUNT_ID", "DELEGATE_TOKEN",
            "MANAGER_HOST_AND_PORT", "DELEGATE_NAME", "PARALLEL_WORKERS", "VM_POOL_FILE",
            "VM_POOL_MAP_BY_ACCOUNT_ID", "TOKEN", "NAME", "URL">>
FieldNames == {Fields[i] : i \in DOMAIN Fields}

\* There is no file without a name.
ASSUME ConfigAssumption ==
  /\ \A s \in Starts : DOMAIN s.env = FieldNames
  /\ "" \notin DOMAIN PoolsOf

VARIABLES
  run,        \* where serverCommand.run is
  env, flag,  \* the environment and the flag
  config,     \* Config, by the variables of its fields
  context,    \* the TaskContext of the handlers
  shell,      \* what the client of the manager and KeepAlive are given
  pool,       \* the file and the name the pool is set up with
  runnerID    \* the id the server has given the runner

configVars == <<run, env, flag, config, context, shell, pool, runnerID>>

Nothing == [v \in FieldNames |-> ""]

InitConfig ==
  /\ run = "load"
  /\ env = Nothing /\ flag = ""
  /\ config = Nothing
  /\ context = Nothing /\ shell = Nothing /\ pool = Nothing
  /\ runnerID = ""

-----------------------------------------------------------------------------
(* What the getters make of the fields.                                      *)

\* A token may be given as it is, 32 hexadecimal digits, "hex", which base64 decodes
\* without an error, but not to such digits; or encoded, "coded"; others stay as they are.
Base64(v) == IF v = "coded" THEN "hex" ELSE "bytes"
IsHexadecimal(v) == v = "hex"

PoolTags(file) == IF file \in DOMAIN PoolsOf THEN PoolsOf[file] ELSE {}

-----------------------------------------------------------------------------
(* Variants with a bug in them, which the properties have to tell from what  *)
(* is specified below; the specification does not use them.                  *)

\* The handlers are given the id there is when they are made.
IDCopied == config["DELEGATE_ID"]

-----------------------------------------------------------------------------
\* getBase64DecodedTokenString
TokenString(v) == IF IsHexadecimal(Base64(v)) THEN Base64(v) ELSE v

PickNonEmpty(new, old) == IF new # "" THEN new ELSE old
GetName == PickNonEmpty(config["NAME"], config["DELEGATE_NAME"])
GetHarnessUrl == PickNonEmpty(config["URL"], config["MANAGER_HOST_AND_PORT"])
GetToken == TokenString(PickNonEmpty(config["TOKEN"], config["DELEGATE_TOKEN"]))

TagFile == config["VM_POOL_FILE"]

-----------------------------------------------------------------------------
(* FromEnviron.                                                              *)

\* A number that is none, and a pool map with an item that is none, of which the others
\* are not kept either.
Unreadable(v) == v = "malformed"

Default(f) == IF f = "PARALLEL_WORKERS" THEN "100" ELSE ""

\* The fields from the first malformed one on stay empty.
ReadFrom(e) ==
  LET Read(i) == \A k \in 1..i : ~Unreadable(e[Fields[k]])
  IN [f \in FieldNames |->
        LET i == CHOOSE j \in DOMAIN Fields : Fields[j] = f
        IN IF ~Read(i) THEN "" ELSE IF e[f] = "" THEN Default(f) ELSE e[f]]

LoadError == \E f \in FieldNames : Unreadable(env[f])

\* An error is logged, and the program goes on with what has been read.  Only where the
\* home directory is needed and not found is there no configuration, which ends it.
LoadConfig ==
  /\ run = "load"
  /\ \E s \in Starts : env' = s.env /\ flag' = s.flag
  /\ \/ config' = ReadFrom(env') /\ run' = "check"
     \/ ~LoadError' /\ run' = "ended" /\ UNCHANGED config
  /\ UNCHANGED <<context, shell, pool, runnerID, loggingVars>>

-----------------------------------------------------------------------------
(* The steps of run.                                                         *)

\* CheckInstallationConfig
Incomplete == "" \in {GetHarnessUrl, GetToken, GetName, config["ACCOUNT_ID"]}

\* An incomplete configuration is fatal; then the flag overrides the file.
CheckConfig ==
  /\ run = "check"
  /\ IF Incomplete
     THEN run' = "ended" /\ UNCHANGED config
     ELSE /\ run' = "wire"
          /\ config' = [config EXCEPT !["VM_POOL_FILE"] = PickNonEmpty(flag, @)]
  /\ UNCHANGED <<env, flag, context, shell, pool, runnerID, loggingVars>>

\* The TaskContext has a pointer to the id in the configuration.
IDPointer == "&config"
Deref(id) == IF id = IDPointer THEN config["DELEGATE_ID"] ELSE id
IDOfContext == IDPointer

\* convert
ContextOfConfig ==
  [Nothing EXCEPT
     !["ACCOUNT_ID"] = config["ACCOUNT_ID"], !["NAME"] = GetName,
     !["TOKEN"] = GetToken, !["URL"] = GetHarnessUrl, !["DELEGATE_ID"] = IDOfContext,
     !["VM_POOL_MAP_BY_ACCOUNT_ID"] = config["VM_POOL_MAP_BY_ACCOUNT_ID"]]

\* ProvideManagerClient and ProvideKeepAlive
ShellOfConfig ==
  [Nothing EXCEPT
     !["ACCOUNT_ID"] = config["ACCOUNT_ID"], !["NAME"] = GetName,
     !["TOKEN"] = GetToken, !["URL"] = GetHarnessUrl, !["VM_POOL_FILE"] = TagFile]

\* initSystem makes everything, in an order that does not matter here, or fails.
Wire ==
  /\ run = "wire"
  /\ \/ run' = "ended" /\ UNCHANGED <<context, shell>>
     \/ run' = "logging" /\ context' = ContextOfConfig /\ shell' = ShellOfConfig
  /\ UNCHANGED <<env, flag, config, pool, runnerID, loggingVars>>

\* remotelogger.Start returns when remote logging is on, or has been given up.
StartLogging ==
  /\ run = "logging"
  /\ IF config["ENABLE_REMOTE_LOGGING"] = ""
     THEN run' = "pool" /\ UNCHANGED loggingVars
     ELSE /\ \/ remote = "off" /\ StartRemote /\ UNCHANGED run
             \/ remote \in {"on", "disabled"} /\ run' = "pool" /\ UNCHANGED loggingVars
  /\ UNCHANGED <<env, flag, config, context, shell, pool, runnerID>>

\* harness.SetupPoolWithFile gets the flag, not the file in the configuration, and the
\* old name.  Without a file it can read there is no pool and no runner.
SetUpPool ==
  /\ run = "pool"
  /\ \/ config["VM_POOL_FILE"] = "" /\ run' = "register" /\ UNCHANGED pool
     \/ config["VM_POOL_FILE"] # "" /\ run' = "ended" /\ UNCHANGED pool
     \/ /\ config["VM_POOL_FILE"] # "" /\ flag \in DOMAIN PoolsOf
        /\ pool' = [Nothing EXCEPT !["VM_POOL_FILE"] = flag, !["NAME"] = config["DELEGATE_NAME"]]
        /\ run' = "register"
  /\ UNCHANGED <<env, flag, config, context, shell, runnerID, loggingVars>>

\* An id that is there already stays.
UpsertDelegateID(id) == [config EXCEPT !["DELEGATE_ID"] = PickNonEmpty(@, id)]

RegisterRunner ==
  /\ run = "register"
  /\ \/ run' = "ended" /\ UNCHANGED <<config, runnerID>>
     \/ /\ run' = "serve"
        /\ runnerID' = "given"
        /\ config' = UpsertDelegateID(runnerID')
  /\ UNCHANGED <<env, flag, context, shell, pool, loggingVars>>

RunStep == LoadConfig \/ CheckConfig \/ Wire \/ StartLogging \/ SetUpPool \/ RegisterRunner

\* The goroutines of the logging library, and the start of it, go on beside run.
LoggingStep ==
  /\ \/ AddsHook \/ TimePasses
     \/ \E c \in TokenUsers : RefreshToken(c) \/ TokenStep(c)
  /\ UNCHANGED configVars

StartVars == <<configVars, loggingVars>>
InitStart == InitConfig /\ InitLogging
NextStart == RunStep \/ LoggingStep
SpecStart == InitStart /\ [][NextStart]_StartVars

-----------------------------------------------------------------------------
(* Properties.                                                               *)

StartTypeOK ==
  /\ run \in {"load", "check", "wire", "logging", "pool", "register", "serve", "ended"}
  /\ {DOMAIN config, DOMAIN context, DOMAIN shell, DOMAIN pool} = {FieldNames}
  /\ runnerID \in {"", "given"}
  /\ LoggingTypeOK

\* The new variables win over the old ones (config.go:102), for everybody who is given a
\* name, a URL or a token; unless a value could not be read, whose error is only logged:
\* then the old ones may win, for the new ones come last in the struct.
NewNamesWin ==
  run = "serve" /\ ~LoadError =>
    \A who \in {context, shell} :
      /\ env["NAME"] # "" => who["NAME"] = env["NAME"]
      /\ env["URL"] # "" => who["URL"] = env["URL"]
      /\ env["TOKEN"] # "" => who["TOKEN"] = TokenString(env["TOKEN"])

\* Whether a token is given as it is or encoded, everybody has the digits (config.go:236):
\* those are a proper encoding too, and may not be decoded.
TokenIsPlain ==
  run = "serve" /\ {env["TOKEN"], env["DELEGATE_TOKEN"]} \subseteq {"", "hex", "coded"} =>
    context["TOKEN"] = "hex" /\ shell["TOKEN"] = "hex"

\* The handlers know the runner as the server does: by the name and the account it is
\* registered with, and by its id, although they are made before it is registered; unless
\* DELEGATE_ID is set, which envconfig takes for the field config.go:41 says is populated
\* by the registration.
HandlersKnowRunner ==
  run = "serve" =>
    /\ \A f \in {"NAME", "ACCOUNT_ID", "URL", "TOKEN"} : context[f] = shell[f]
    /\ env["DELEGATE_ID"] = "" => Deref(context["DELEGATE_ID"]) = runnerID

\* A runner that serves a pool is registered with the tags of that pool, wherever the file
\* comes from, and the handlers, which look for instances by the name of the runner, have
\* the name of the pool, unless NAME is set: server_command.go:84 takes the old name.
TagsNameThePool ==
  run = "serve" /\ pool # Nothing =>
    /\ PoolTags(pool["VM_POOL_FILE"]) \subseteq PoolTags(shell["VM_POOL_FILE"])
    /\ config["NAME"] = "" => pool["NAME"] = context["NAME"]

\* All of these: whoever is given something of the configuration, at whatever time, knows
\* the same runner.
RunnerIsKnown == NewNamesWin /\ TokenIsPlain /\ HandlersKnowRunner /\ TagsNameThePool
=============================================================================
