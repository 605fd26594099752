---------------------------- MODULE SecretTasks ----------------------------
(***************************************************************************)
(* The secret tasks: secret/vault/edit and secret/vault/fetch of           *)
(* tasks/secrets/vault, and secret/static of tasks/secrets.                *)
(*                                                                         *)
(* Workers handle them at the same time against one Vault, which is        *)
(* external: a call to it fails, or is executed and its answer lost.       *)
(* A place is a secret's path in an engine; there are engines of the       *)
(* versions 1 and 2, which keep and return a secret in different forms and *)
(* under different paths.                                                  *)
(***************************************************************************)
EXTENDS Naturals, FiniteSets

CONSTANTS SecretTaskIDs,
          SecretRequests, \* of a task: the requests it may be
          Keys, Values,
          Decoded,        \* what base64 makes of a value; NoSecret: an error
          NoSecret,
          MaxVaultFaults

Versions == {1, 2}
Actions == {"CONNECT", "UPSERT", "DELETE", "VALIDATE", "FETCH", "STATIC"}
Credentials == SUBSET {"role", "token"}

\* version is that of EngineVersion, which is unchecked, and for a fetch, whose request
\* has the full path, that of the engine the path is in.
RequestType ==
  [action : Actions, version : Nat, key : Keys, value : Values, base64 : BOOLEAN,
   creds : Credentials]

ASSUME SecretAssumption ==
  /\ SecretRequests \in [SecretTaskIDs -> SUBSET RequestType]
  /\ NoSecret \notin Keys \cup Values
  /\ Decoded \in [Values -> Values \cup {NoSecret}]
  /\ MaxVaultFaults \in Nat

VARIABLES
  vault,       \* where the handler of a task is
  request,     \* its request, once it has been handed out
  auth,        \* what its client authenticates with
  vaultReply,  \* what it has answered, "none" before
  secret,      \* the value it has answered with, NoSecret for none, and for an empty one
  kept,        \* of a version: whether the place is unknown, has data, or has had them
  content,     \* the keys and values in the data
  wrapped,     \* whether the data are in a field "data" of what a read returns
  erased,      \* history: places deleted with success and not written since
  latest,      \* history: the key of the last successful upsert, as long as it is that
  vaultFaults

server == <<kept, content, wrapped>>
secretVars == <<vault, request, auth, vaultReply, secret, server, erased, latest,
                vaultFaults>>

Empty == [k \in Keys |-> NoSecret]
NoKey == [key |-> NoSecret, value |-> NoSecret]
NoRequest == [action |-> NoSecret, version |-> 0]

\* Others keep secrets in the same Vault, with any keys, and wrapped in version 2 only.
InitSecrets ==
  /\ vault = [t \in SecretTaskIDs |-> "new"]
  /\ request = [t \in SecretTaskIDs |-> NoRequest]
  /\ auth = [t \in SecretTaskIDs |-> "none"]
  /\ vaultReply = [t \in SecretTaskIDs |-> "none"]
  /\ secret = [t \in SecretTaskIDs |-> NoSecret]
  /\ \E v0 \in Values :
       \/ kept = [v \in Versions |-> "unknown"] /\ content = [v \in Versions |-> Empty]
       \/ /\ kept = [v \in Versions |-> "data"]
          /\ content = [v \in Versions |-> [k \in Keys |-> v0]]
  /\ wrapped = [v \in Versions |-> v = 2]
  /\ erased = {}
  /\ latest = [v \in Versions |-> NoKey]
  /\ vaultFaults = 0

Answers(t, r) ==
  /\ vault' = [vault EXCEPT ![t] = "done"]
  /\ vaultReply' = [vaultReply EXCEPT ![t] = r]

CallFaults == vaultFaults < MaxVaultFaults /\ vaultFaults' = vaultFaults + 1

-----------------------------------------------------------------------------
(* Paths and values.                                                         *)

\* getFullPath and getFullPathForDelete: "secret" is the path of version 1, where there
\* is nothing but the data; version 2 has the data and the metadata.
FullPath(v) == CASE v = 1 -> "secret" [] v = 2 -> "data" [] OTHER -> "unsupported"

-----------------------------------------------------------------------------
(* Variants with a bug in them, which the properties have to tell from what  *)
(* is specified below; the specification does not use them.                  *)

\* The path for deletion is that of the data.
FullPathForDeleteData(v) == FullPath(v)

\* A secret is taken as it is read.
UnwrapsNever(v) == FALSE

-----------------------------------------------------------------------------
FullPathForDelete(v) ==
  CASE v = 1 -> "secret" [] v = 2 -> "metadata" [] OTHER -> "unsupported"

\* A read finds a secret of version 2 whose data have been deleted: the metadata are there.
Found(v) == v \in Versions /\ kept[v] # "unknown"

\* fetch takes the data out of the field "data" if there is such a field.
Unwraps(v) == TRUE

\* getSecretValue: the value of the key, if it is in the data at hand.
ValueOf(v, key) ==
  IF kept[v] = "data" /\ (wrapped[v] => Unwraps(v)) THEN content[v][key] ELSE NoSecret

\* parseSecretString
Parsed(x, base64) == IF x # NoSecret /\ base64 THEN Decoded[x] ELSE x

-----------------------------------------------------------------------------
(* The client.                                                               *)

\* New: the AppRole is tried first, and a login that fails is passed over in favour of
\* the token in the request, or none.  Only a secret/static task needs no client.
NewClient(t) ==
  /\ vault[t] = "new"
  /\ \E r \in SecretRequests[t] :
       LET second == IF "token" \in r.creds THEN "token" ELSE "none"
       IN /\ r.action # "STATIC"
          /\ request' = [request EXCEPT ![t] = r]
          /\ \/ /\ auth' = [auth EXCEPT ![t] = IF "role" \in r.creds THEN "role" ELSE second]
                /\ UNCHANGED vaultFaults
             \/ "role" \in r.creds /\ CallFaults /\ auth' = [auth EXCEPT ![t] = second]
  /\ vault' = [vault EXCEPT ![t] = "operate"]
  /\ UNCHANGED <<vaultReply, secret, server, erased, latest>>

Operates(t, a) == vault[t] = "operate" /\ request[t].action = a

\* handleConnect: the AppRole, if given, is logged in again, and it alone decides.
Connect(t) ==
  /\ Operates(t, "CONNECT")
  /\ \/ Answers(t, IF request[t].creds = {} THEN "failure" ELSE "success") /\ UNCHANGED vaultFaults
     \/ request[t].creds # {} /\ CallFaults /\ Answers(t, "failure")
  /\ UNCHANGED <<request, auth, secret, server, erased, latest>>

-----------------------------------------------------------------------------
(* secret/vault/edit.                                                        *)

\* What Vault makes of a write to the path: the request's key alone is kept.
Written(v, key, value) ==
  /\ kept' = [kept EXCEPT ![v] = "data"]
  /\ content' = [content EXCEPT ![v] = [Empty EXCEPT ![key] = value]]
  /\ wrapped' = [wrapped EXCEPT ![v] = TRUE]
  /\ erased' = erased \ {v}

\* ... and of a deletion.
Deleted(v, path) ==
  /\ kept' = [kept EXCEPT ![v] = IF path = "data" /\ @ # "unknown" THEN "deleted"
                                 ELSE "unknown"]
  /\ content' = [content EXCEPT ![v] = Empty]
  /\ wrapped' = [wrapped EXCEPT ![v] = v = 2]

\* An unsupported version is an error, and so is a client that has no token.
Refused(t, path) == path = "unsupported" \/ auth[t] = "none"

Upsert(t) ==
  /\ Operates(t, "UPSERT")
  /\ LET r == request[t]
         v == r.version
     IN \/ /\ Refused(t, FullPath(v)) /\ Answers(t, "failure")
           /\ UNCHANGED <<server, erased, latest, vaultFaults>>
        \/ /\ ~Refused(t, FullPath(v)) /\ Answers(t, "success")
           /\ Written(v, r.key, r.value)
           /\ latest' = [latest EXCEPT ![v] = [key |-> r.key, value |-> r.value]]
           /\ UNCHANGED vaultFaults
        \/ /\ ~Refused(t, FullPath(v)) /\ Answers(t, "failure") /\ CallFaults
           /\ \/ Written(v, r.key, r.value) /\ latest' = [latest EXCEPT ![v] = NoKey]
              \/ UNCHANGED <<server, erased, latest>>
  /\ UNCHANGED <<request, auth, secret>>

Delete(t) ==
  /\ Operates(t, "DELETE")
  /\ LET v == request[t].version
         path == FullPathForDelete(v)
     IN \/ /\ Refused(t, path) /\ Answers(t, "failure")
           /\ UNCHANGED <<server, erased, latest, vaultFaults>>
        \/ /\ ~Refused(t, path) /\ Answers(t, "success")
           /\ Deleted(v, path)
           /\ erased' = erased \cup {v}
           /\ latest' = [latest EXCEPT ![v] = NoKey]
           /\ UNCHANGED vaultFaults
        \/ /\ ~Refused(t, path) /\ Answers(t, "failure") /\ CallFaults
           /\ \/ Deleted(v, path) /\ latest' = [latest EXCEPT ![v] = NoKey]
              \/ UNCHANGED <<server, latest>>
           /\ UNCHANGED erased
  /\ UNCHANGED <<request, auth, secret>>

ValidateRef(t) ==
  /\ Operates(t, "VALIDATE")
  /\ \/ /\ Answers(t, IF ~Refused(t, FullPath(request[t].version)) /\ Found(request[t].version)
                      THEN "valid" ELSE "invalid")
        /\ UNCHANGED vaultFaults
     \/ Answers(t, "invalid") /\ CallFaults
  /\ UNCHANGED <<request, auth, secret, server, erased, latest>>

-----------------------------------------------------------------------------
(* secret/vault/fetch and secret/static.                                     *)

AnswersWith(t, x) ==
  /\ Answers(t, IF x = NoSecret THEN "error" ELSE "value")
  /\ secret' = [secret EXCEPT ![t] = x]

Fetch(t) ==
  /\ Operates(t, "FETCH")
  /\ LET r == request[t]
     IN \/ /\ AnswersWith(t, IF auth[t] # "none" /\ Found(r.version)
                             THEN Parsed(ValueOf(r.version, r.key), r.base64) ELSE NoSecret)
           /\ UNCHANGED vaultFaults
        \/ AnswersWith(t, NoSecret) /\ CallFaults
  /\ UNCHANGED <<request, auth, server, erased, latest>>

\* StaticSecretHandler: the value is in the request.  One that does not decode is logged, and
\* like one that has no secrets it is answered with an empty secret, as a success.
Static(t) ==
  /\ vault[t] = "new"
  /\ \E r \in SecretRequests[t] :
       /\ r.action = "STATIC"
       /\ request' = [request EXCEPT ![t] = r]
       /\ \/ AnswersWith(t, Parsed(r.value, r.base64))
          \/ Answers(t, "value") /\ UNCHANGED secret
  /\ UNCHANGED <<auth, server, erased, latest, vaultFaults>>

NextSecrets ==
  \E t \in SecretTaskIDs :
    \/ NewClient(t) \/ Connect(t) \/ Upsert(t) \/ Delete(t) \/ ValidateRef(t)
    \/ Fetch(t) \/ Static(t)

SpecSecrets == InitSecrets /\ [][NextSecrets]_secretVars

-----------------------------------------------------------------------------
(* Properties.                                                               *)

SecretTypeOK ==
  /\ vault \in [SecretTaskIDs -> {"new", "operate", "done"}]
  /\ \A t \in SecretTaskIDs : request[t] \in SecretRequests[t] \cup {NoRequest}
  /\ auth \in [SecretTaskIDs -> {"none", "role", "token"}]
  /\ vaultReply \in [SecretTaskIDs -> {"none", "success", "failure", "valid", "invalid",
                                       "value", "error"}]
  /\ secret \in [SecretTaskIDs -> Values \cup {NoSecret}]
  /\ kept \in [Versions -> {"unknown", "data", "deleted"}]
  /\ content \in [Versions -> [Keys -> Values \cup {NoSecret}]]
  /\ wrapped \in [Versions -> BOOLEAN]
  /\ erased \subseteq Versions
  /\ latest \in [Versions -> {NoKey} \cup [key : Keys, value : Values]]
  /\ vaultFaults \in 0..MaxVaultFaults

\* A secret that has been deleted with success is unknown until someone writes it again:
\* no task finds the reference valid and none fetches a value from it, whichever the
\* version of its engine.  For version 2 this needs the path of the metadata, for a
\* deletion of the data leaves a reference that reads as valid.
ErasedIsUnknown ==
  [][\A t \in SecretTaskIDs :
       vaultReply'[t] # vaultReply[t] /\ request[t].version \in erased
       => /\ request[t].action = "VALIDATE" => vaultReply'[t] = "invalid"
          /\ request[t].action = "FETCH" => vaultReply'[t] = "error"]_secretVars

\* What an upsert has written with success is what a later fetch of that key answers with,
\* as long as nobody has changed the secret since: both versions keep and return data in
\* different forms, under different paths.
FetchesWhatWasWritten ==
  [][\A t \in SecretTaskIDs :
       LET r == request[t]
       IN /\ Operates(t, "FETCH") /\ vault'[t] = "done"
          /\ auth[t] # "none" /\ vaultFaults' = vaultFaults
          /\ r.version \in Versions /\ latest[r.version].key = r.key
          => secret'[t] = Parsed(latest[r.version].value, r.base64)]_secretVars
=============================================================================
