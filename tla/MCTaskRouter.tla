---------------------------- MODULE MCTaskRouter ----------------------------
\* A small instance of TaskRouter: the tasks, requests and environments of its parts.
EXTENDS TaskRouter, TLC

CONSTANTS i1, e1, e2, d1, d2, d3,               \* local
          vi, v1, v2, vc, p1, p2, sv1, sv2,     \* forwarded
          s1, s2, s3, k1, k2, plain, coded,     \* secrets
          in1, in2, st1, st2, so1, cf1, cf2 \* service

MCStageOf == (d3 :> 2) @@ [t \in {i1, e1, e2, d1, d2} |-> 1]

MCVMStageOf == [t \in {vi, v1, v2, vc} |-> 1]
MCServicesOf == vi :> {sv1, sv2}

Request(a, v, k, x, b, c) ==
  [action |-> a, version |-> v, key |-> k, value |-> x, base64 |-> b, creds |-> c]
Writes ==
  {Request("UPSERT", v, k1, coded, FALSE, {"role", "token"}) : v \in 1..3}
  \cup {Request("UPSERT", 2, k2, plain, FALSE, {"token"})}
  \cup {Request("DELETE", v, k1, plain, FALSE, {"role"}) : v \in 1..2}
Reads ==
  {Request("CONNECT", 1, k1, plain, FALSE, c) : c \in {{}, {"role", "token"}}}
  \cup {Request("VALIDATE", v, k1, plain, FALSE, {"role"}) : v \in 1..2}
  \cup {Request("FETCH", v, k1, plain, TRUE, {"role", "token"}) : v \in 1..2}
  \cup {Request("STATIC", 1, k1, plain, TRUE, {})}
MCSecretRequests == s1 :> Writes @@ s2 :> Writes @@ s3 :> Reads
MCDecoded == plain :> NoSecret @@ coded :> plain

MCLives == {-1, 4}

Old == [Nothing EXCEPT !["ACCOUNT_ID"] = "account", !["DELEGATE_TOKEN"] = "coded",
                       !["MANAGER_HOST_AND_PORT"] = "old url", !["DELEGATE_NAME"] = "old"]
New == [Nothing EXCEPT !["ACCOUNT_ID"] = "account", !["TOKEN"] = "hex",
                       !["URL"] = "url", !["NAME"] = "new"]
Both == [f \in FieldNames |-> PickNonEmpty(New[f], Old[f])]
Environments ==
  {[e EXCEPT !["PARALLEL_WORKERS"] = w, !["VM_POOL_MAP_BY_ACCOUNT_ID"] = m,
             !["VM_POOL_FILE"] = f, !["DELEGATE_ID"] = i] :
     e \in {Nothing, Old, New, Both}, w \in {"", "malformed"},
     m \in {"", "map", "malformed"}, f \in {"", "file"}, i \in {"", "own"}}
MCStarts ==
  [env : Environments, flag : {"", "file", "other", "none"}]
  \cup [env : {[New EXCEPT !["ENABLE_REMOTE_LOGGING"] = "true"]}, flag : {""}]
MCPoolsOf == "file" :> {"p1", "p2"} @@ "other" :> {"p3"}

MCConfigPathOf == in1 :> cf1 @@ st1 :> cf1 @@ in2 :> cf2 @@ st2 :> cf2
=============================================================================
