---------------------------- MODULE LoggingToken ----------------------------
(***************************************************************************)
(* Remote logging: the start of logger/remotelogger, and the token with    *)
(* which the logging library sends entries, from TokenManager.             *)
(*                                                                         *)
(* The library calls Token() from goroutines of its own.  Token() looks    *)
(* into a cache and else asks the manager, three times at most.  The unit  *)
(* of time is the millisecond of token_manager.go:83, in which the life of *)
(* a token is halved.  The clock is read when the token is fetched, when   *)
(* its life is halved and when the cache stores it: time may pass between. *)
(***************************************************************************)
EXTENDS Integers, FiniteSets

CONSTANTS TokenCallers, \* the goroutines of the logging library
          Starter,      \* the one of the program, in remotelogger.Start
          Lives,        \* how long a token the manager answers with may live
          DefaultTime   \* defaultCacheExpirationDuration

TokenUsers == TokenCallers \cup {Starter}

\* What life and cache time are counted down to: -2 is the largest number whose half, cut
\* off, is negative, and below it, as below zero for the cache, nothing changes any more.
LeastLife == -2

ASSUME LoggingAssumption ==
  /\ Starter \notin TokenCallers
  /\ Lives \subseteq Int /\ \A n \in Lives : n >= LeastLife
  /\ DefaultTime \in Nat \ {0}

VARIABLES
  remote,     \* remote logging: "off", "starting", "hook", "on" or "disabled"
  user,       \* where a goroutine is in Token or setToken
  failures,   \* how many attempts of this call have failed
  fetched,    \* the life left of the token a goroutine has fetched
  lifeThen,   \* ... what it was when it was halved, for the cache
  cacheKind,  \* whether the cache has no token, one for a time, or one for ever
  cacheTime,  \* ... the time
  cacheLife,  \* the life left of the token in the cache
  late        \* history: it was too late for that token when it was stored

loggingVars ==
  <<remote, user, failures, fetched, lifeThen, cacheKind, cacheTime, cacheLife, late>>
tokenCache == <<cacheKind, cacheTime, cacheLife, late>>

InitLogging ==
  /\ remote = "off"
  /\ user = [c \in TokenUsers |-> "idle"]
  /\ failures = [c \in TokenUsers |-> 0]
  /\ fetched = [c \in TokenUsers |-> 0]
  /\ lifeThen = [c \in TokenUsers |-> 0]
  /\ cacheKind = "none"
  /\ cacheTime = LeastLife /\ cacheLife = LeastLife
  /\ late = FALSE

\* Get: an item without an end, or whose end has not passed.
InCache == cacheKind = "kept" \/ (cacheKind = "timed" /\ cacheTime >= 0)

\* The division of Go cuts off.
Halved(n) == IF n >= 0 THEN n \div 2 ELSE 0 - ((0 - n) \div 2)

UserAt(c, p) == user' = [user EXCEPT ![c] = p]

\* A call ends, and its local variables with it.
CallEnds(c) ==
  /\ UserAt(c, "idle")
  /\ failures' = [failures EXCEPT ![c] = 0]
  /\ fetched' = [fetched EXCEPT ![c] = 0]
  /\ lifeThen' = [lifeThen EXCEPT ![c] = 0]

\* cache.Set: a time of zero is the default, a negative one for ever.
CacheSet(c, d) ==
  /\ cacheTime' = IF d = 0 THEN DefaultTime ELSE d
  /\ cacheKind' = IF d < 0 THEN "kept" ELSE "timed"
  /\ cacheLife' = fetched[c]
  /\ late' = (lifeThen[c] < 2 \/ 2 * fetched[c] <= lifeThen[c])

-----------------------------------------------------------------------------
(* Variants with a bug in them, which the properties have to tell from what  *)
(* is specified below; the specification does not use them.                  *)

\* The token stays in the cache as long as it lives.
StoreLoggingTokenWhole(c) ==
  /\ user[c] = "store"
  /\ CacheSet(c, lifeThen[c])
  /\ IF c = Starter THEN remote' = "hook" ELSE UNCHANGED remote
  /\ CallEnds(c)

\* Token goes on asking until it has a token.
GivesUpNever(c) == FALSE

-----------------------------------------------------------------------------
(* The start: Start, Initialize, NewTokenManager.                            *)

\* Unless it is enabled nothing happens, which needs no step.
StartRemote ==
  /\ remote = "off"
  /\ remote' = "starting"
  /\ UserAt(Starter, "fetch")
  /\ UNCHANGED <<failures, fetched, lifeThen, tokenCache>>

\* The hook is made, or not, and then its context is filled.
AddsHook ==
  /\ remote = "hook"
  /\ remote' \in {"on", "disabled"}
  /\ UNCHANGED <<user, failures, fetched, lifeThen, tokenCache>>

-----------------------------------------------------------------------------
(* Token.                                                                    *)

\* A token in the cache is returned at once, which is no step of the model.
RefreshToken(c) ==
  /\ c \in TokenCallers /\ remote = "on" /\ user[c] = "idle" /\ ~InCache
  /\ UserAt(c, "fetch")
  /\ UNCHANGED <<remote, failures, fetched, lifeThen, tokenCache>>

\* fetchLoggingToken has a token that has not expired.  This attempt does not fail any more,
\* so the failures before it are forgotten.
FetchToken(c) ==
  /\ user[c] = "fetch"
  /\ \E n \in Lives : n >= 0 /\ fetched' = [fetched EXCEPT ![c] = n]
  /\ UserAt(c, "halve")
  /\ failures' = [failures EXCEPT ![c] = 0]
  /\ UNCHANGED <<remote, lifeThen, tokenCache>>

\* The request has failed, the answer is incomplete, or the token has expired.  The error
\* of the third attempt is returned after a pause too.
AttemptFails(c) ==
  /\ user[c] = "fetch"
  /\ IF c = Starter THEN remote' = "disabled" /\ UserAt(c, "idle") /\ UNCHANGED failures
     ELSE /\ failures' = [failures EXCEPT ![c] = @ + 1]
          /\ UserAt(c, "sleep") /\ UNCHANGED remote
  /\ UNCHANGED <<fetched, lifeThen, tokenCache>>

\* setToken computes what is left of the life anew.  Time may have passed since the token
\* was fetched: it may be zero, or negative.
HalveLife(c) ==
  /\ user[c] = "halve"
  /\ lifeThen' = [lifeThen EXCEPT ![c] = fetched[c]]
  /\ UserAt(c, "store")
  /\ UNCHANGED <<remote, failures, fetched, tokenCache>>

\* The time in the cache begins with a reading of the clock of its own, whatever has passed
\* since then; the token of another goroutine is replaced.
StoreLoggingToken(c) ==
  /\ user[c] = "store"
  /\ CacheSet(c, Halved(lifeThen[c]))
  /\ IF c = Starter THEN remote' = "hook" ELSE UNCHANGED remote
  /\ CallEnds(c)

GivesUp(c) == failures[c] = 3

\* time.Sleep, and then the next attempt or the error.
PauseEnds(c) ==
  /\ user[c] = "sleep"
  /\ IF GivesUp(c) THEN CallEnds(c)
     ELSE UserAt(c, "fetch") /\ UNCHANGED <<failures, fetched, lifeThen>>
  /\ UNCHANGED <<remote, tokenCache>>

\* A millisecond passes.
Passes(n) == IF n > LeastLife THEN n - 1 ELSE n
TimePasses ==
  /\ fetched' = [c \in TokenUsers |->
                   IF user[c] \in {"halve", "store"} THEN Passes(fetched[c]) ELSE fetched[c]]
  /\ cacheTime' = Passes(cacheTime)
  /\ cacheLife' = Passes(cacheLife)
  /\ UNCHANGED <<remote, user, failures, lifeThen, cacheKind, late>>

-----------------------------------------------------------------------------
TokenStep(c) ==
  FetchToken(c) \/ AttemptFails(c) \/ HalveLife(c) \/ StoreLoggingToken(c) \/ PauseEnds(c)

NextLogging ==
  \/ StartRemote \/ AddsHook \/ TimePasses
  \/ \E c \in TokenUsers : RefreshToken(c) \/ TokenStep(c)

SpecLogging == InitLogging /\ [][NextLogging]_loggingVars
-----------------------------------------------------------------------------
(* Properties.                                                               *)

LoggingTypeOK ==
  /\ remote \in {"off", "starting", "hook", "on", "disabled"}
  /\ user \in [TokenUsers -> {"idle", "fetch", "halve", "store", "sleep"}]
  /\ failures \in [TokenUsers -> 0..3]
  /\ fetched \in [TokenUsers -> Int] /\ lifeThen \in [TokenUsers -> Int]
  /\ cacheKind \in {"none", "timed", "kept"}
  /\ cacheTime \in Int /\ cacheLife \in Int
  /\ late \in BOOLEAN

\* A token Token() finds in the cache has not expired, and lives longer than it can still be
\* found there, whoever has replaced whose and however long they were between the answer of
\* the manager and line 83; unless it came too late: with fewer than two milliseconds left
\* at line 83, whose half is zero or negative, so that it is handed out for thirty minutes,
\* or for ever; or with half of what it had at line 83 gone before the cache read the clock
\* at line 84 (token_manager.go:83, :84).
CachedTokenLives == InCache /\ ~late => cacheKind = "timed" /\ cacheLife > cacheTime

\* Remote logging is on only with a token that was in the cache before it was, so that the
\* goroutines of the library are never the first to ask.
OnWithToken == remote \in {"hook", "on"} => cacheKind # "none"

=============================================================================
