--------------------------- MODULE ManagerClient ---------------------------
(***************************************************************************)
(* A request to the Harness manager: delegateshell/client/http.go on       *)
(* utils/http_client.go, with the cache of the account's token in          *)
(* delegateshell/delegate/token_cache.go that all callers share.           *)
(*                                                                         *)
(* Time matters here: a back-off gives up after MaxElapsed, a token is     *)
(* valid for Expiry and cached for half of it.  It is counted in ticks,    *)
(* and every duration in the state is one that is left or has passed, so   *)
(* that the clock itself need not be known.  Only goroutines about to send *)
(* are taken to be prompt, each step of theirs within MaxSlow; the manager *)
(* may take any time, or not answer at all.                                *)
(***************************************************************************)
EXTENDS Integers

CONSTANTS Callers,    \* goroutines that make requests
          Makes,      \* the kinds of request each of them makes
          MaxElapsed, \* registerTimeout
          MaxPause,   \* the longest pause of the back-off
          Expiry,     \* expirationTime
          MaxSlow     \* how long a goroutine may take for a step before it sends

Kinds == {"Register", "Unregister", "AcquireDaemonTasks", "Heartbeat",
          "ReconcileDaemonSets"}

CacheTime == Expiry \div 2

\* The caching time leaves a margin for two slow steps: from the making of a token
\* to its caching, and from the look-up to the request.
ASSUME ClientAssumption ==
  /\ Makes \in [Callers -> SUBSET Kinds]
  /\ MaxElapsed \in Nat /\ MaxPause \in Nat \ {0}
  /\ Expiry \in Nat /\ MaxSlow \in Nat
  /\ 2 * MaxSlow < Expiry - CacheTime

VARIABLES
  pc,         \* where a caller is
  kind,       \* the request it makes, or "none"
  elapsed,    \* time since its back-off was created, up to TooLong
  wait,       \* what is left of its pause
  slow,       \* time spent in its present step
  token,      \* what is left of the validity of its token
  answer,     \* what came of the attempt that retry looks at
  cancelled,  \* its context is cancelled
  result,     \* what the request returned to its caller
  seen,       \* history: how often the manager has executed it, up to 2
  unheard,    \* history: the manager executed it and its answer was not heard
  cacheToken, \* what is left of the validity of the cached token
  cacheLeft   \* what is left of its time in the cache; -1: there is none

history == <<seen, unheard>>
cacheVars == <<cacheToken, cacheLeft>>
timers == <<elapsed, wait, slow>>
vars == <<pc, kind, timers, token, answer, cancelled, result, history, cacheVars>>

Retried(k) == k \in {"Register", "Unregister", "AcquireDaemonTasks"}
IgnoresStatusCode(k) == k \in {"Register", "Unregister"}
HasOut(k) == k \notin {"Unregister", "Heartbeat"}

\* What comes of an attempt, as far as retry tells it apart: a body that decodes; 204
\* or a body that does not; a body that breaks off; a status of 300 to 501; one above;
\* no response; and no token, so no request.
Responses == {"data", "bare", "broken", "refusal", "unavailable"}
Answers == Responses \cup {"lost", "noToken"}

TooLong == MaxElapsed + 3 * MaxSlow + 1

Init ==
  /\ pc = [c \in Callers |-> "idle"]
  /\ kind = [c \in Callers |-> "none"]
  /\ elapsed = [c \in Callers |-> 0]
  /\ wait = [c \in Callers |-> 0]
  /\ slow = [c \in Callers |-> 0]
  /\ token = [c \in Callers |-> 0]
  /\ answer = [c \in Callers |-> "none"]
  /\ cancelled = [c \in Callers |-> FALSE]
  /\ result = [c \in Callers |-> "none"]
  /\ seen = [c \in Callers |-> 0]
  /\ unheard = [c \in Callers |-> FALSE]
  /\ cacheToken = 0
  /\ cacheLeft = -1

-----------------------------------------------------------------------------
(* Variants with a bug in them, which the properties have to tell from what  *)
(* is specified below; the specification does not use them.                  *)

\* The error of doJson is overwritten when the body is drained.
IsErrorDrained(k, a) == a \in {"lost", "noToken"} \/ (a = "bare" /\ HasOut(k))

\* ignoreStatusCode is not looked at.
AgainAlways(k, a) == a # "data"
AgainNever(k, a) == a \in {"unavailable", "lost", "noToken"}

\* A token that is used stays in the cache for longer.
FindTokenSliding(c) ==
  /\ pc[c] = "token" /\ wait[c] = 0 /\ cacheLeft >= 0
  /\ token' = [token EXCEPT ![c] = cacheToken]
  /\ pc' = [pc EXCEPT ![c] = "send"]
  /\ slow' = [slow EXCEPT ![c] = 0]
  /\ cacheLeft' = CacheTime
  /\ UNCHANGED <<kind, elapsed, wait, answer, cancelled, result, history, cacheToken>>

\* The request does not carry the context.
AbortNever(c) == FALSE /\ UNCHANGED vars

-----------------------------------------------------------------------------
(* What is made of an answer.                                                *)

\* doJson returns an error with it.
IsError(k, a) ==
  \/ a \notin {"data", "bare"}
  \/ a = "bare" /\ HasOut(k)

\* retry makes another attempt after it, if the back-off allows.
Again(k, a) ==
  IF a \in Responses THEN (IgnoresStatusCode(k) /\ IsError(k, a)) \/ a = "unavailable"
  ELSE IsError(k, a)

\* NextBackOff returns Stop instead of the pause d.
Stops(c, d) == cancelled[c] \/ elapsed[c] + d > MaxElapsed

-----------------------------------------------------------------------------
(* The steps of a request.                                                   *)

\* A caller makes a request of kind k, with a context and a back-off of its own.
Call(c, k) ==
  /\ pc[c] = "idle"
  /\ pc' = [pc EXCEPT ![c] = "token"]
  /\ kind' = [kind EXCEPT ![c] = k]
  /\ result' = [result EXCEPT ![c] = "none"]
  /\ UNCHANGED <<timers, token, answer, cancelled, history, cacheVars>>

\* The request of c returns r to its caller.
Return(c, r) ==
  /\ pc' = [pc EXCEPT ![c] = "idle"]
  /\ result' = [result EXCEPT ![c] = r]
  /\ kind' = [kind EXCEPT ![c] = "none"]
  /\ elapsed' = [elapsed EXCEPT ![c] = 0]
  /\ slow' = [slow EXCEPT ![c] = 0]
  /\ token' = [token EXCEPT ![c] = 0]
  /\ answer' = [answer EXCEPT ![c] = "none"]
  /\ cancelled' = [cancelled EXCEPT ![c] = FALSE]
  /\ seen' = [seen EXCEPT ![c] = 0]
  /\ unheard' = [unheard EXCEPT ![c] = FALSE]
  /\ UNCHANGED <<wait, cacheVars>>

Outcome(k, a) == IF IsError(k, a) THEN "failed" ELSE "ok"

\* doJson returns with a: to the caller, or to retry.
AttemptEnds(c, a) ==
  \/ ~Retried(kind[c]) /\ Return(c, Outcome(kind[c], a))
  \/ /\ Retried(kind[c])
     /\ pc' = [pc EXCEPT ![c] = "check"]
     /\ answer' = [answer EXCEPT ![c] = a]
     /\ slow' = [slow EXCEPT ![c] = 0]
     /\ token' = [token EXCEPT ![c] = 0]
     /\ unheard' = [unheard EXCEPT ![c] =
                      @ \/ (pc[c] = "executed" /\ a \in {"lost", "unavailable"})]
     /\ UNCHANGED <<kind, elapsed, wait, cancelled, result, seen, cacheVars>>

\* TokenCache.Get finds a token.
FindToken(c) ==
  /\ pc[c] = "token" /\ wait[c] = 0 /\ cacheLeft >= 0
  /\ token' = [token EXCEPT ![c] = cacheToken]
  /\ pc' = [pc EXCEPT ![c] = "send"]
  /\ slow' = [slow EXCEPT ![c] = 0]
  /\ UNCHANGED <<kind, elapsed, wait, answer, cancelled, result, history, cacheVars>>

\* It finds none and makes one, or cannot.
MakeToken(c) ==
  /\ pc[c] = "token" /\ wait[c] = 0 /\ cacheLeft < 0
  /\ \/ /\ token' = [token EXCEPT ![c] = Expiry]
        /\ pc' = [pc EXCEPT ![c] = "store"]
        /\ slow' = [slow EXCEPT ![c] = 0]
        /\ UNCHANGED <<kind, elapsed, wait, answer, cancelled, result, history, cacheVars>>
     \/ AttemptEnds(c, "noToken")

\* It caches what it has made, whatever is cached by then.
StoreToken(c) ==
  /\ pc[c] = "store"
  /\ cacheToken' = token[c]
  /\ cacheLeft' = CacheTime
  /\ pc' = [pc EXCEPT ![c] = "send"]
  /\ slow' = [slow EXCEPT ![c] = 0]
  /\ UNCHANGED <<kind, elapsed, wait, token, answer, cancelled, result, history>>

\* The request leaves, unless its context is cancelled.
Send(c) ==
  /\ pc[c] = "send"
  /\ \/ cancelled[c] /\ AttemptEnds(c, "lost")
     \/ /\ ~cancelled[c]
        /\ pc' = [pc EXCEPT ![c] = "sent"]
        /\ token' = [token EXCEPT ![c] = 0]
        /\ slow' = [slow EXCEPT ![c] = 0]
        /\ UNCHANGED <<kind, elapsed, wait, answer, cancelled, result, history, cacheVars>>

\* The manager executes the request.
Execute(c) ==
  /\ pc[c] = "sent"
  /\ pc' = [pc EXCEPT ![c] = "executed"]
  /\ seen' = [seen EXCEPT ![c] = IF @ < 2 THEN @ + 1 ELSE 2]
  /\ UNCHANGED <<kind, timers, token, answer, cancelled, result, unheard, cacheVars>>

\* Its answer arrives, or the connection fails; only what it has executed does it
\* answer with a status of success.
Answer(c, a) ==
  /\ \/ pc[c] = "executed"
     \/ pc[c] = "sent" /\ a \in {"refusal", "unavailable", "lost"}
  /\ AttemptEnds(c, a)

\* The client gives the attempt up when the context of the request is cancelled.
Abort(c) ==
  /\ pc[c] \in {"sent", "executed"} /\ cancelled[c]
  /\ AttemptEnds(c, "lost")

\* retry returns the error of the context, whatever the answer was.
CheckContext(c) ==
  /\ pc[c] = "check"
  /\ \/ cancelled[c] /\ Return(c, "cancelled")
     \/ /\ ~cancelled[c]
        /\ pc' = [pc EXCEPT ![c] = "next"]
        /\ UNCHANGED <<kind, timers, token, answer, cancelled, result, history, cacheVars>>

Pause(c, d) ==
  /\ wait' = [wait EXCEPT ![c] = d]
  /\ answer' = [answer EXCEPT ![c] = "none"]
  /\ pc' = [pc EXCEPT ![c] = "token"]
  /\ UNCHANGED <<kind, elapsed, slow, token, cancelled, result, history, cacheVars>>

\* It asks for the next pause d, and pauses, or returns.  The back-off draws d.
Backoff(c) ==
  /\ pc[c] = "next"
  /\ \E d \in 1..MaxPause :
       \/ ~Again(kind[c], answer[c]) /\ Return(c, Outcome(kind[c], answer[c]))
       \/ Again(kind[c], answer[c]) /\ Stops(c, d) /\ Return(c, "failed")
       \/ Again(kind[c], answer[c]) /\ ~Stops(c, d) /\ Pause(c, d)

\* The context is cancelled, by a signal or a deadline.
Cancel(c) ==
  /\ pc[c] # "idle" /\ ~cancelled[c]
  /\ cancelled' = [cancelled EXCEPT ![c] = TRUE]
  /\ UNCHANGED <<pc, kind, timers, token, answer, result, history, cacheVars>>

\* A caller that is about to send; one that pauses is not.
Hurries(c) == pc[c] \in {"token", "store", "send"} /\ wait[c] = 0

Less(n, least) == IF n > least THEN n - 1 ELSE least

\* Time passes.
Tick ==
  /\ \A c \in Callers : Hurries(c) => slow[c] < MaxSlow
  /\ slow' = [c \in Callers |-> IF Hurries(c) THEN slow[c] + 1 ELSE slow[c]]
  /\ elapsed' = [c \in Callers |->
       IF pc[c] # "idle" /\ Retried(kind[c]) /\ elapsed[c] < TooLong
       THEN elapsed[c] + 1 ELSE elapsed[c]]
  /\ wait' = [c \in Callers |-> Less(wait[c], 0)]
  /\ token' = [c \in Callers |-> Less(token[c], 0)]
  /\ cacheToken' = IF cacheLeft > 0 THEN Less(cacheToken, 0) ELSE 0
  /\ cacheLeft' = Less(cacheLeft, -1)
  /\ UNCHANGED <<pc, kind, answer, cancelled, result, history>>

\* The steps of a goroutine and of its HTTP client.
Step(c) ==
  \/ FindToken(c) \/ MakeToken(c) \/ StoreToken(c)
  \/ Send(c) \/ Abort(c) \/ CheckContext(c) \/ Backoff(c)

Manager(c) == Execute(c) \/ \E a \in Responses \cup {"lost"} : Answer(c, a)

Next ==
  \/ \E c \in Callers : Step(c) \/ Manager(c) \/ Cancel(c) \/ \E k \in Makes[c] : Call(c, k)
  \/ Tick

Spec == Init /\ [][Next]_vars

\* Goroutines run and time passes; the manager need not answer.
FairSpec == Spec /\ (\A c \in Callers : WF_vars(Step(c))) /\ WF_vars(Tick)

-----------------------------------------------------------------------------
(* Properties.                                                               *)

\* The values the variables take.
TypeOK ==
  /\ pc \in [Callers -> {"idle", "token", "store", "send", "sent", "executed", "check",
                         "next"}]
  /\ kind \in [Callers -> Kinds \cup {"none"}]
  /\ elapsed \in [Callers -> 0..TooLong]
  /\ wait \in [Callers -> 0..MaxPause]
  /\ slow \in [Callers -> 0..MaxSlow]
  /\ token \in [Callers -> 0..Expiry]
  /\ answer \in [Callers -> Answers \cup {"none"}]
  /\ cancelled \in [Callers -> BOOLEAN]
  /\ result \in [Callers -> {"none", "ok", "failed", "cancelled"}]
  /\ seen \in [Callers -> 0..2]
  /\ unheard \in [Callers -> BOOLEAN]
  /\ cacheToken \in 0..Expiry
  /\ cacheLeft \in -1..CacheTime

\* No request is made with a token that has expired (token_cache.go:58), although
\* callers that miss the cache together overwrite each other's token, a later caching
\* time with an earlier token included.
NeverSentExpired == \A c \in Callers : pc[c] = "send" => token[c] > 0

\* retry begins no attempt, the first or a later one, after registerTimeout, but for
\* the slowness of the goroutine itself (http.go:68, 77, 86).
AttemptsEnd ==
  \A c \in Callers : pc[c] = "send" => elapsed[c] <= MaxElapsed + 3 * MaxSlow

\* A request that returns without an error has been executed by the manager; one that
\* is not retried has been executed at most once (http.go:126-162).
ToldRight ==
  [][\A c \in Callers :
       /\ result'[c] = "ok" /\ result[c] = "none" => seen[c] >= 1
       /\ ~Retried(kind[c]) => seen[c] <= 1]_vars

\* AcquireDaemonTasks is executed a second time only if no answer of the manager, or
\* only its word that it is unavailable, came back from the first; an answer that was
\* heard and could not be read is not asked for again (http.go:137-159).
SeenTwiceOnlyUnheard ==
  \A c \in Callers :
    kind[c] = "AcquireDaemonTasks" /\ seen[c] = 2 => unheard[c]

\* Register and Unregister, which main and the shutdown rely on, do not give up before
\* their time is spent, whatever the manager answers (http.go:142).
GivesUpLate ==
  [][\A c \in Callers :
       /\ IgnoresStatusCode(kind[c]) /\ ~cancelled[c]
       /\ result[c] = "none" /\ result'[c] = "failed"
       => elapsed[c] + MaxPause > MaxElapsed]_vars

\* A request that does not end waits for an answer of the manager: nothing else, the
\* retries least of all, keeps it from returning.
OnlyTheManagerHangs ==
  \A c \in Callers :
    \/ []<>(pc[c] = "idle")
    \/ <>[](pc[c] \in {"sent", "executed"})

\* A request whose context is cancelled returns, even if the manager never answers.
CancelEndsCall == \A c \in Callers : cancelled[c] ~> pc[c] = "idle"

\* Both: a request ends as far as it is up to the runner.
RequestsEnd == OnlyTheManagerHangs /\ CancelEndsCall
=============================================================================
