------------------------ MODULE ManagerClient_proofs ------------------------
(***************************************************************************)
(* Proofs about ManagerClient, for any callers and any durations that      *)
(* ClientAssumption allows.                                                *)
(***************************************************************************)
EXTENDS ManagerClient, TLAPS

\* A token on its way to be cached is as old as its caller is slow.
Making(c) == pc[c] = "store" => token[c] >= Expiry - slow[c]

\* What is cached was made at most a slow step earlier, so its age is known from the
\* time it has been cached for.
Cached ==
  cacheLeft >= 0 => cacheToken >= Expiry - MaxSlow - (CacheTime - cacheLeft)

\* A token about to be sent is at worst the oldest that is cached.
Carried(c) == pc[c] = "send" => token[c] >= Expiry - MaxSlow - CacheTime - slow[c]

\* A pause ends within MaxElapsed, and three slow steps lead from there to the request.
InTime(c) ==
  /\ pc[c] = "token" => elapsed[c] + wait[c] <= MaxElapsed + slow[c]
  /\ pc[c] = "store" => elapsed[c] <= MaxElapsed + MaxSlow + slow[c]
  /\ pc[c] = "send" => elapsed[c] <= MaxElapsed + 2 * MaxSlow + slow[c]

\* Who is idle has no clock running, and who does not begin an attempt no pause.
Rests(c) ==
  /\ pc[c] = "idle" => elapsed[c] = 0 /\ slow[c] = 0
  /\ pc[c] # "token" => wait[c] = 0
  /\ pc[c] \notin {"token", "store", "send"} => slow[c] = 0
  /\ wait[c] > 0 => slow[c] = 0
  /\ pc[c] # "idle" => kind[c] \in Kinds

\* The inductive invariant.
IInv ==
  /\ TypeOK
  /\ Cached
  /\ \A c \in Callers : Making(c) /\ Carried(c) /\ InTime(c) /\ Rests(c)

\* Half of a duration, which CacheTime is, is one of at most its length.
LEMMA CacheTimeType == CacheTime \in Nat /\ 2 * MaxSlow < Expiry - CacheTime
BY ClientAssumption DEF CacheTime

LEMMA InitIInv == Init => IInv
<1> SUFFICES ASSUME Init PROVE IInv
  OBVIOUS
<1> USE ClientAssumption, CacheTimeType DEF Init
<1>1. TypeOK
  BY DEF TypeOK, TooLong
<1>2. Cached
  BY DEF Cached
<1>3. \A c \in Callers : Making(c) /\ Carried(c) /\ InTime(c) /\ Rests(c)
  BY DEF Making, Carried, InTime, Rests
<1> QED
  BY <1>1, <1>2, <1>3 DEF IInv

\* A request that returns leaves nothing behind.
LEMMA ReturnKeepsIInv ==
  ASSUME IInv, NEW c \in Callers, NEW r \in {"ok", "failed", "cancelled"}, Return(c, r),
         pc[c] # "token" \/ wait[c] = 0
  PROVE  IInv'
<1> USE ClientAssumption, CacheTimeType DEF IInv, Return
<1>1. TypeOK'
  BY DEF TypeOK, TooLong, cacheVars
<1>2. Cached'
  BY DEF Cached, cacheVars
<1>3. ASSUME NEW b \in Callers
      PROVE  (Making(b) /\ Carried(b) /\ InTime(b) /\ Rests(b))'
  BY <1>3 DEF TypeOK, Making, Carried, InTime, Rests, Kinds
<1> QED
  BY <1>1, <1>2, <1>3

LEMMA AttemptEndsKeepsIInv ==
  ASSUME IInv, NEW c \in Callers, NEW a \in Answers, AttemptEnds(c, a),
         pc[c] \notin {"idle", "token"} \/ (pc[c] = "token" /\ wait[c] = 0)
  PROVE  IInv'
<1>1. CASE ~Retried(kind[c]) /\ Return(c, Outcome(kind[c], a))
  <2>1. Outcome(kind[c], a) \in {"ok", "failed", "cancelled"}
    BY DEF Outcome
  <2> QED
    BY <1>1, <2>1, ReturnKeepsIInv
<1>2. CASE Retried(kind[c])
  <2> USE ClientAssumption, CacheTimeType DEF IInv
  <2> DEFINE u == unheard[c] \/ (pc[c] = "executed" /\ a \in {"lost", "unavailable"})
  <2>0. unheard' \in [Callers -> BOOLEAN]
    <3>1. unheard' = [unheard EXCEPT ![c] = u] /\ u \in BOOLEAN
      BY <1>2, Zenon DEF AttemptEnds
    <3> HIDE DEF u
    <3> QED
      BY <3>1 DEF TypeOK
  <2>1. TypeOK'
    BY <1>2, <2>0 DEF TypeOK, AttemptEnds, cacheVars
  <2>2. Cached'
    BY <1>2 DEF Cached, AttemptEnds, cacheVars
  <2>3. ASSUME NEW b \in Callers
        PROVE  (Making(b) /\ Carried(b) /\ InTime(b) /\ Rests(b))'
    BY <1>2, <2>3 DEF TypeOK, AttemptEnds, Making, Carried, InTime, Rests
  <2> QED
    BY <2>1, <2>2, <2>3
<1> QED
  BY <1>1, <1>2 DEF AttemptEnds

LEMMA TokenKeepsIInv ==
  ASSUME IInv, NEW c \in Callers, FindToken(c) \/ MakeToken(c) \/ StoreToken(c)
  PROVE  IInv'
<1>1. CASE MakeToken(c) /\ AttemptEnds(c, "noToken")
  BY <1>1, AttemptEndsKeepsIInv DEF MakeToken, Answers
<1>2. CASE \/ FindToken(c) \/ StoreToken(c)
           \/ MakeToken(c) /\ ~AttemptEnds(c, "noToken")
  <2> USE ClientAssumption, CacheTimeType DEF IInv
  <2>1. TypeOK'
    BY <1>2 DEF TypeOK, FindToken, MakeToken, StoreToken, history, cacheVars
  <2>2. Cached'
    BY <1>2 DEF TypeOK, Cached, Making, FindToken, MakeToken, StoreToken, cacheVars
  <2>3. ASSUME NEW b \in Callers
        PROVE  (Making(b) /\ Carried(b))'
    BY <1>2, <2>3
       DEF TypeOK, Cached, Making, Carried, Rests, FindToken, MakeToken, StoreToken
  <2>4. ASSUME NEW b \in Callers
        PROVE  (InTime(b) /\ Rests(b))'
    BY <1>2, <2>4 DEF TypeOK, InTime, Rests, FindToken, MakeToken, StoreToken
  <2> QED
    BY <2>1, <2>2, <2>3, <2>4
<1> QED
  BY <1>1, <1>2

LEMMA RequestKeepsIInv ==
  ASSUME IInv, NEW c \in Callers,
         Send(c) \/ Abort(c) \/ Execute(c) \/ \E a \in Responses \cup {"lost"} : Answer(c, a)
  PROVE  IInv'
<1>1. CASE Abort(c) \/ (Send(c) /\ AttemptEnds(c, "lost"))
  BY <1>1, AttemptEndsKeepsIInv DEF Abort, Send, Answers
<1>2. ASSUME NEW a \in Responses \cup {"lost"}, Answer(c, a)
      PROVE  IInv'
  BY <1>2, AttemptEndsKeepsIInv DEF Answer, Answers
<1>3. CASE Execute(c) \/ (Send(c) /\ ~AttemptEnds(c, "lost"))
  <2> USE ClientAssumption, CacheTimeType DEF IInv
  <2>1. TypeOK'
    BY <1>3 DEF TypeOK, Send, Execute, history, timers, cacheVars
  <2>2. Cached'
    BY <1>3 DEF Cached, Send, Execute, cacheVars
  <2>3. ASSUME NEW b \in Callers
        PROVE  (Making(b) /\ Carried(b) /\ InTime(b) /\ Rests(b))'
    BY <1>3, <2>3 DEF TypeOK, Making, Carried, InTime, Rests, Send, Execute, timers
  <2> QED
    BY <2>1, <2>2, <2>3
<1> QED
  BY <1>1, <1>2, <1>3

LEMMA RetryKeepsIInv ==
  ASSUME IInv, NEW c \in Callers, CheckContext(c) \/ Backoff(c)
  PROVE  IInv'
<1>1. CASE \E r \in {"ok", "failed", "cancelled"} : pc[c] # "token" /\ Return(c, r)
  BY <1>1, ReturnKeepsIInv
<1>2. CASE CheckContext(c) /\ ~cancelled[c]
  <2> USE DEF IInv
  <2>1. TypeOK'
    BY <1>2 DEF TypeOK, CheckContext, history, timers, cacheVars
  <2>2. Cached'
    BY <1>2 DEF Cached, CheckContext, cacheVars
  <2>3. ASSUME NEW b \in Callers
        PROVE  (Making(b) /\ Carried(b) /\ InTime(b) /\ Rests(b))'
    BY <1>2, <2>3 DEF TypeOK, Making, Carried, InTime, Rests, CheckContext, timers
  <2> QED
    BY <2>1, <2>2, <2>3
<1>3. ASSUME NEW d \in 1..MaxPause, pc[c] = "next", ~Stops(c, d), Pause(c, d)
      PROVE  IInv'
  <2> USE ClientAssumption, CacheTimeType DEF IInv
  <2>1. TypeOK'
    BY <1>3 DEF TypeOK, Pause, history, cacheVars
  <2>2. Cached'
    BY <1>3 DEF Cached, Pause, cacheVars
  <2>3. ASSUME NEW b \in Callers
        PROVE  (Making(b) /\ Carried(b) /\ Rests(b))'
    BY <1>3, <2>3 DEF TypeOK, Making, Carried, Rests, Pause
  <2>4. ASSUME NEW b \in Callers
        PROVE  InTime(b)'
    BY <1>3, <2>4 DEF TypeOK, InTime, Rests, Pause, Stops
  <2> QED
    BY <2>1, <2>2, <2>3, <2>4
<1>4. Outcome(kind[c], answer[c]) \in {"ok", "failed", "cancelled"}
  BY DEF Outcome
<1> QED
  BY <1>1, <1>2, <1>3, <1>4 DEF CheckContext, Backoff

LEMMA CallKeepsIInv ==
  ASSUME IInv, NEW c \in Callers, Cancel(c) \/ \E k \in Makes[c] : Call(c, k)
  PROVE  IInv'
<1>1. Makes[c] \subseteq Kinds
  BY ClientAssumption
<1>2. Cancel(c) \/ \E k \in Kinds : Call(c, k)
  BY <1>1
<1> USE <1>2, ClientAssumption, CacheTimeType DEF IInv
<1>3. TypeOK'
  <2>1. CASE Cancel(c)
    BY <2>1 DEF TypeOK, Cancel, history, timers, cacheVars
  <2>2. ASSUME NEW k \in Kinds, Call(c, k)
        PROVE  TypeOK'
    BY <2>2 DEF TypeOK, Call, history, timers, cacheVars
  <2> QED
    BY <2>1, <2>2
<1>4. Cached'
  BY DEF Cached, Call, Cancel, cacheVars
<1>5. ASSUME NEW b \in Callers
      PROVE  (Making(b) /\ Carried(b) /\ InTime(b) /\ Rests(b))'
  BY <1>5 DEF TypeOK, Making, Carried, InTime, Rests, Call, Cancel, timers
<1> QED
  BY <1>3, <1>4, <1>5

LEMMA TickKeepsIInv ==
  ASSUME IInv, Tick
  PROVE  IInv'
<1> USE ClientAssumption, CacheTimeType DEF IInv
<1>1. TypeOK'
  BY DEF TypeOK, Tick, Less, Hurries, TooLong, history
<1>2. Cached'
  BY DEF TypeOK, Cached, Tick, Less
<1>3. ASSUME NEW b \in Callers
      PROVE  (Making(b) /\ Carried(b))'
  BY <1>3 DEF TypeOK, Making, Carried, Rests, Tick, Less, Hurries
<1>4. ASSUME NEW b \in Callers
      PROVE  InTime(b)'
  BY <1>4 DEF TypeOK, InTime, Rests, Tick, Less, Hurries, TooLong
<1>5. ASSUME NEW b \in Callers
      PROVE  Rests(b)'
  BY <1>5 DEF TypeOK, Rests, Tick, Less, Hurries
<1> QED
  BY <1>1, <1>2, <1>3, <1>4, <1>5

LEMMA StutterKeepsIInv == IInv /\ UNCHANGED vars => IInv'
<1> SUFFICES ASSUME IInv, UNCHANGED vars PROVE IInv'
  OBVIOUS
<1> USE DEF IInv, vars, history, timers, cacheVars
<1>1. TypeOK' /\ Cached'
  BY DEF TypeOK, Cached
<1>2. ASSUME NEW b \in Callers
      PROVE  (Making(b) /\ Carried(b) /\ InTime(b) /\ Rests(b))'
  BY <1>2 DEF Making, Carried, InTime, Rests
<1> QED
  BY <1>1, <1>2

LEMMA NextKeepsIInv == IInv /\ [Next]_vars => IInv'
<1> SUFFICES ASSUME IInv, Next PROVE IInv'
  BY StutterKeepsIInv
<1>1. CASE Tick
  BY <1>1, TickKeepsIInv
<1>2. ASSUME NEW c \in Callers, Step(c)
      PROVE  IInv'
  BY <1>2, TokenKeepsIInv, RequestKeepsIInv, RetryKeepsIInv DEF Step
<1>3. ASSUME NEW c \in Callers, Manager(c)
      PROVE  IInv'
  BY <1>3, RequestKeepsIInv DEF Manager
<1>4. ASSUME NEW c \in Callers, Cancel(c) \/ \E k \in Makes[c] : Call(c, k)
      PROVE  IInv'
  BY <1>4, CallKeepsIInv
<1> QED
  BY <1>1, <1>2, <1>3, <1>4 DEF Next

LEMMA SpecIInv == Spec => []IInv
BY InitIInv, NextKeepsIInv, PTL DEF Spec

\* The variables always have the values that TypeOK names.
THEOREM TypeOKHolds == Spec => []TypeOK
<1>1. IInv => TypeOK
  BY DEF IInv
<1> QED
  BY <1>1, SpecIInv, PTL

\* No request ever carries an expired token, however many callers share the cache and
\* race to fill it: the margin of half the validity covers their slowness.
THEOREM NeverSentExpiredHolds == Spec => []NeverSentExpired
<1>1. IInv => NeverSentExpired
  BY ClientAssumption, CacheTimeType DEF IInv, TypeOK, Carried, NeverSentExpired
<1> QED
  BY <1>1, SpecIInv, PTL

\* No attempt begins later than the time for the retries and three slow steps.
THEOREM AttemptsEndHolds == Spec => []AttemptsEnd
<1>1. IInv => AttemptsEnd
  BY ClientAssumption DEF IInv, TypeOK, InTime, AttemptsEnd
<1> QED
  BY <1>1, SpecIInv, PTL

-----------------------------------------------------------------------------
(* How often AcquireDaemonTasks is executed.                                 *)

\* If all its executions were heard, there was one, and what was heard of it does not
\* lead to another attempt; a request that is not made has not been executed.
HeardOnce(c) ==
  /\ kind[c] = "AcquireDaemonTasks" /\ seen[c] # 0 /\ ~unheard[c]
     => /\ seen[c] = 1
        /\ pc[c] \in {"executed", "check", "next"}
        /\ pc[c] # "executed" => answer[c] \in Answers \ {"lost", "unavailable", "noToken"}
  /\ pc[c] = "idle" => seen[c] = 0

HInv == \A c \in Callers : HeardOnce(c)

\* What a caller's steps leave alone: the other callers.
Others(c) ==
  \A b \in Callers \ {c} :
    /\ pc'[b] = pc[b] /\ kind'[b] = kind[b] /\ answer'[b] = answer[b]
    /\ seen'[b] = seen[b] /\ unheard'[b] = unheard[b]

LEMMA OthersKeepHInv ==
  ASSUME HInv, NEW c \in Callers, Others(c), HeardOnce(c)'
  PROVE  HInv'
BY DEF HInv, Others, HeardOnce

LEMMA ReturnKeepsHInv ==
  ASSUME TypeOK, HInv, NEW c \in Callers, NEW r, Return(c, r)
  PROVE  HInv'
<1>1. Others(c)
  BY DEF TypeOK, Others, Return
<1>2. HeardOnce(c)'
  BY DEF TypeOK, HeardOnce, Return
<1> QED
  BY <1>1, <1>2, OthersKeepHInv

LEMMA AttemptEndsKeepsHInv ==
  ASSUME TypeOK, HInv, NEW c \in Callers, NEW a \in Answers, AttemptEnds(c, a),
         pc[c] \in {"token", "send", "sent", "executed"},
         pc[c] = "executed" => a # "noToken"
  PROVE  HInv'
<1>1. CASE \E r : Return(c, r)
  BY <1>1, ReturnKeepsHInv
<1>2. CASE Retried(kind[c])
  <2>1. Others(c)
    BY <1>2 DEF TypeOK, Others, AttemptEnds
  <2>2. HeardOnce(c)
    BY DEF HInv
  <2>3. pc'[c] = "check" /\ answer'[c] = a /\ seen'[c] = seen[c] /\ kind'[c] = kind[c]
    BY <1>2 DEF TypeOK, AttemptEnds
  <2>4. unheard'[c] = (unheard[c] \/ (pc[c] = "executed" /\ a \in {"lost", "unavailable"}))
    BY <1>2, Zenon DEF TypeOK, AttemptEnds
  <2>5. HeardOnce(c)'
    BY <2>2, <2>3, <2>4 DEF HeardOnce
  <2> QED
    BY <2>1, <2>5, OthersKeepHInv
<1> QED
  BY <1>1, <1>2 DEF AttemptEnds

LEMMA NextKeepsHInv == TypeOK /\ HInv /\ [Next]_vars => HInv'
<1> SUFFICES ASSUME TypeOK, HInv, [Next]_vars PROVE HInv'
  OBVIOUS
<1>1. ASSUME NEW c \in Callers, \/ FindToken(c) \/ StoreToken(c) \/ Cancel(c)
                               \/ \E k \in Makes[c] : Call(c, k)
      PROVE  HInv'
  BY <1>1 DEF TypeOK, HInv, HeardOnce, FindToken, StoreToken, Cancel, Call, history
<1>2. ASSUME NEW c \in Callers, MakeToken(c)
      PROVE  HInv'
  <2>1. CASE AttemptEnds(c, "noToken")
    BY <1>2, <2>1, AttemptEndsKeepsHInv DEF MakeToken, Answers
  <2>2. CASE ~AttemptEnds(c, "noToken")
    BY <1>2, <2>2 DEF TypeOK, HInv, HeardOnce, MakeToken, history
  <2> QED
    BY <2>1, <2>2
<1>3. ASSUME NEW c \in Callers, Send(c) \/ Abort(c)
      PROVE  HInv'
  <2>1. CASE AttemptEnds(c, "lost")
    BY <1>3, <2>1, AttemptEndsKeepsHInv DEF Send, Abort, Answers
  <2>2. CASE ~AttemptEnds(c, "lost")
    BY <1>3, <2>2 DEF TypeOK, HInv, HeardOnce, Send, Abort, history
  <2> QED
    BY <2>1, <2>2
<1>4. ASSUME NEW c \in Callers, Execute(c)
      PROVE  HInv'
  BY <1>4 DEF TypeOK, HInv, HeardOnce, Execute
<1>5. ASSUME NEW c \in Callers, NEW a \in Responses \cup {"lost"}, Answer(c, a)
      PROVE  HInv'
  BY <1>5, AttemptEndsKeepsHInv DEF Answer, Answers, Responses
<1>6. ASSUME NEW c \in Callers, CheckContext(c)
      PROVE  HInv'
  <2>1. CASE Return(c, "cancelled")
    BY <2>1, ReturnKeepsHInv
  <2>2. CASE ~Return(c, "cancelled")
    BY <1>6, <2>2 DEF TypeOK, HInv, HeardOnce, CheckContext, history
  <2> QED
    BY <2>1, <2>2
<1>7. ASSUME NEW c \in Callers, Backoff(c)
      PROVE  HInv'
  <2>1. CASE \E r : Return(c, r)
    BY <2>1, ReturnKeepsHInv
  <2>2. ASSUME NEW d \in 1..MaxPause, pc[c] = "next", Again(kind[c], answer[c]), Pause(c, d)
        PROVE  HInv'
    <3>1. Others(c)
      BY <2>2 DEF TypeOK, Others, Pause, history
    <3>2. kind[c] = "AcquireDaemonTasks" =>
          answer[c] \in {"lost", "unavailable", "noToken", "none"}
      BY <2>2 DEF TypeOK, Again, Answers, Responses, IgnoresStatusCode
    <3>3. HeardOnce(c)'
      BY <2>2, <3>2 DEF TypeOK, HInv, HeardOnce, Pause, history, Answers, Responses
    <3> QED
      BY <3>1, <3>3, OthersKeepHInv
  <2> QED
    BY <1>7, <2>1, <2>2 DEF Backoff
<1>8. CASE Tick \/ UNCHANGED vars
  BY <1>8 DEF HInv, HeardOnce, Tick, history, vars
<1> QED
  BY <1>1, <1>2, <1>3, <1>4, <1>5, <1>6, <1>7, <1>8 DEF Next, Step, Manager

\* AcquireDaemonTasks is executed a second time only after an answer that did not
\* arrive, or said that the manager is unavailable.
THEOREM SeenTwiceOnlyUnheardHolds == Spec => []SeenTwiceOnlyUnheard
<1>1. Init => HInv
  BY DEF Init, HInv, HeardOnce
<1>2. HInv => SeenTwiceOnlyUnheard
  BY DEF HInv, HeardOnce, SeenTwiceOnlyUnheard
<1> QED
  BY <1>1, <1>2, NextKeepsHInv, TypeOKHolds, PTL DEF Spec

-----------------------------------------------------------------------------
(* What a request returns to its caller.                                     *)

\* A status of success that is heard has been executed, and one that is not retried is
\* executed at its only attempt.
ExecutedBefore(c) ==
  /\ pc[c] = "idle" => seen[c] = 0
  /\ pc[c] = "executed" => seen[c] >= 1
  /\ pc[c] \in {"check", "next"} /\ answer[c] \in {"data", "bare"} => seen[c] >= 1
  /\ ~Retried(kind[c]) =>
       /\ pc[c] \notin {"check", "next"}
       /\ pc[c] # "executed" => seen[c] = 0
       /\ seen[c] <= 1

EInv == \A c \in Callers : ExecutedBefore(c)

LEMMA OthersKeepEInv ==
  ASSUME EInv, NEW c \in Callers, Others(c), ExecutedBefore(c)'
  PROVE  EInv'
BY DEF EInv, Others, ExecutedBefore

LEMMA ReturnKeepsEInv ==
  ASSUME TypeOK, EInv, NEW c \in Callers, NEW r, Return(c, r)
  PROVE  EInv'
<1>1. Others(c)
  BY DEF TypeOK, Others, Return
<1>2. ExecutedBefore(c)'
  BY DEF TypeOK, ExecutedBefore, Return
<1> QED
  BY <1>1, <1>2, OthersKeepEInv

LEMMA AttemptEndsKeepsEInv ==
  ASSUME TypeOK, EInv, NEW c \in Callers, NEW a, AttemptEnds(c, a),
         a \in {"data", "bare"} => pc[c] = "executed"
  PROVE  EInv'
<1>1. CASE \E r : Return(c, r)
  BY <1>1, ReturnKeepsEInv
<1>2. CASE Retried(kind[c]) /\ ~\E r : Return(c, r)
  <2>1. Others(c)
    BY <1>2 DEF TypeOK, Others, AttemptEnds
  <2>2. pc'[c] = "check" /\ answer'[c] = a /\ seen'[c] = seen[c] /\ kind'[c] = kind[c]
    BY <1>2 DEF TypeOK, AttemptEnds
  <2>3. ExecutedBefore(c)'
    BY <1>2, <2>2 DEF EInv, ExecutedBefore
  <2> QED
    BY <2>1, <2>3, OthersKeepEInv
<1> QED
  BY <1>1, <1>2 DEF AttemptEnds

LEMMA NextKeepsEInv == TypeOK /\ EInv /\ [Next]_vars => EInv'
<1> SUFFICES ASSUME TypeOK, EInv, [Next]_vars PROVE EInv'
  OBVIOUS
<1>1. ASSUME NEW c \in Callers, FindToken(c) \/ StoreToken(c) \/ Cancel(c)
      PROVE  EInv'
  BY <1>1 DEF TypeOK, EInv, ExecutedBefore, FindToken, StoreToken, Cancel, history
<1>2. ASSUME NEW c \in Callers, NEW k \in Makes[c], Call(c, k)
      PROVE  EInv'
  <2>1. seen[c] = 0
    BY <1>2 DEF EInv, ExecutedBefore, Call
  <2>2. Others(c)
    BY <1>2 DEF TypeOK, Others, Call, history
  <2>3. pc'[c] = "token" /\ kind'[c] = k /\ seen'[c] = seen[c]
    BY <1>2 DEF TypeOK, Call, history
  <2> QED
    BY <1>2, <2>1, <2>2, <2>3, OthersKeepEInv DEF ExecutedBefore
<1>3. ASSUME NEW c \in Callers, MakeToken(c)
      PROVE  EInv'
  <2>1. CASE AttemptEnds(c, "noToken")
    BY <2>1, AttemptEndsKeepsEInv
  <2>2. CASE ~AttemptEnds(c, "noToken")
    BY <1>3, <2>2 DEF TypeOK, EInv, ExecutedBefore, MakeToken, history
  <2> QED
    BY <2>1, <2>2
<1>4. ASSUME NEW c \in Callers, Send(c) \/ Abort(c)
      PROVE  EInv'
  <2>1. CASE AttemptEnds(c, "lost")
    BY <2>1, AttemptEndsKeepsEInv
  <2>2. CASE ~AttemptEnds(c, "lost")
    BY <1>4, <2>2 DEF TypeOK, EInv, ExecutedBefore, Send, Abort, history
  <2> QED
    BY <2>1, <2>2
<1>5. ASSUME NEW c \in Callers, Execute(c)
      PROVE  EInv'
  BY <1>5 DEF TypeOK, EInv, ExecutedBefore, Execute
<1>6. ASSUME NEW c \in Callers, NEW a \in Responses \cup {"lost"}, Answer(c, a)
      PROVE  EInv'
  BY <1>6, AttemptEndsKeepsEInv DEF Answer
<1>7. ASSUME NEW c \in Callers, CheckContext(c)
      PROVE  EInv'
  <2>1. CASE Return(c, "cancelled")
    BY <2>1, ReturnKeepsEInv
  <2>2. CASE ~Return(c, "cancelled")
    BY <1>7, <2>2 DEF TypeOK, EInv, ExecutedBefore, CheckContext, history
  <2> QED
    BY <2>1, <2>2
<1>8. ASSUME NEW c \in Callers, Backoff(c)
      PROVE  EInv'
  <2>1. CASE \E r : Return(c, r)
    BY <2>1, ReturnKeepsEInv
  <2>2. ASSUME NEW d \in 1..MaxPause, pc[c] = "next", Pause(c, d)
        PROVE  EInv'
    BY <2>2 DEF TypeOK, EInv, ExecutedBefore, Pause, history
  <2> QED
    BY <1>8, <2>1, <2>2 DEF Backoff
<1>9. CASE Tick \/ UNCHANGED vars
  BY <1>9 DEF EInv, ExecutedBefore, Tick, history, vars
<1> QED
  BY <1>1, <1>2, <1>3, <1>4, <1>5, <1>6, <1>7, <1>8, <1>9 DEF Next, Step, Manager

\* What has come back, or been given up, when a caller of a retried request gives up.
LEMMA StepOfReturn ==
  ASSUME TypeOK, Next, NEW c \in Callers, result'[c] # result[c]
  PROVE  \/ \E k \in Makes[c] : Call(c, k)
         \/ CheckContext(c) /\ cancelled[c] /\ Return(c, "cancelled")
         \/ Backoff(c) /\ Return(c, result'[c])
         \/ /\ ~Retried(kind[c])
            /\ \E a \in Answers : /\ Return(c, Outcome(kind[c], a))
                                  /\ a \in {"data", "bare"} => pc[c] = "executed"
<1>1. ASSUME NEW b \in Callers, b # c,
             Step(b) \/ Manager(b) \/ Cancel(b) \/ \E k \in Makes[b] : Call(b, k)
      PROVE  FALSE
  BY <1>1 DEF TypeOK, Step, Manager, FindToken, MakeToken, StoreToken, Send, Abort, CheckContext,
     Backoff, Pause, Execute, Answer, AttemptEnds, Return, Call, Cancel
<1>2. ~Tick
  BY DEF Tick
<1>3. Step(c) \/ Manager(c) \/ Cancel(c) \/ \E k \in Makes[c] : Call(c, k)
  BY <1>1, <1>2 DEF Next
<1>4. ASSUME NEW a \in Answers, AttemptEnds(c, a), a \in {"data", "bare"} => pc[c] = "executed"
      PROVE  /\ ~Retried(kind[c])
             /\ \E b \in Answers : /\ Return(c, Outcome(kind[c], b))
                                   /\ b \in {"data", "bare"} => pc[c] = "executed"
  BY <1>4 DEF AttemptEnds
<1>5. ~FindToken(c) /\ ~StoreToken(c) /\ ~Execute(c) /\ ~Cancel(c)
  BY DEF FindToken, StoreToken, Execute, Cancel
<1>6. CASE MakeToken(c) \/ Send(c) \/ Abort(c)
  <2>1. AttemptEnds(c, "noToken") \/ AttemptEnds(c, "lost")
    BY <1>6 DEF MakeToken, Send, Abort
  <2> QED
    BY <1>4, <2>1 DEF Answers
<1>7. ASSUME NEW a \in Responses \cup {"lost"}, Answer(c, a)
      PROVE  AttemptEnds(c, a) /\ a \in Answers /\ (a \in {"data", "bare"} => pc[c] = "executed")
  BY <1>7 DEF Answer, Answers, Responses
<1>8. CheckContext(c) => cancelled[c] /\ Return(c, "cancelled")
  BY DEF CheckContext
<1>9. Backoff(c) => Return(c, result'[c])
  BY DEF TypeOK, Backoff, Pause, Return
<1> QED
  BY <1>3, <1>4, <1>5, <1>6, <1>7, <1>8, <1>9 DEF Step, Manager

\* A request that returns without an error has been executed by the manager, and one that
\* is not retried at most once, for any callers, durations and answers (http.go:126).
THEOREM ToldRightHolds == Spec => ToldRight
<1>1. Init => EInv
  <2> SUFFICES ASSUME Init, NEW c \in Callers PROVE ExecutedBefore(c)
    BY DEF EInv
  <2>1. pc[c] = "idle" /\ seen[c] = 0
    BY DEF Init
  <2> QED
    BY <2>1 DEF ExecutedBefore
<1>2. ASSUME TypeOK, EInv, Next, NEW c \in Callers, result'[c] = "ok", result[c] = "none"
      PROVE  seen[c] >= 1
  <2>1. CASE \E k \in Makes[c] : Call(c, k)
    BY <1>2, <2>1 DEF TypeOK, Call
  <2>2. CASE Return(c, "cancelled")
    BY <1>2, <2>2 DEF TypeOK, Return
  <2>3. CASE Backoff(c) /\ Return(c, "ok")
    <3>1. PICK r : Return(c, r) /\ (r = Outcome(kind[c], answer[c]) \/ r = "failed")
      BY <1>2, <2>3 DEF Backoff, Pause, TypeOK, Return
    <3>2. r = "ok"
      BY <1>2, <3>1 DEF TypeOK, Return
    <3>3. answer[c] \in {"data", "bare"} /\ pc[c] = "next"
      BY <2>3, <3>1, <3>2 DEF Outcome, IsError, Backoff
    <3> QED
      BY <1>2, <3>3 DEF EInv, ExecutedBefore
  <2>4. ASSUME NEW a \in Answers, Return(c, Outcome(kind[c], a)),
               a \in {"data", "bare"} => pc[c] = "executed"
        PROVE  seen[c] >= 1
    <3>1. Outcome(kind[c], a) = "ok"
      BY <1>2, <2>4 DEF TypeOK, Return
    <3>2. pc[c] = "executed"
      BY <2>4, <3>1 DEF Outcome, IsError
    <3> QED
      BY <1>2, <3>2 DEF EInv, ExecutedBefore
  <2> QED
    BY <1>2, <2>1, <2>2, <2>3, <2>4, StepOfReturn
<1>3. TypeOK /\ EInv /\ [Next]_vars =>
        [\A c \in Callers :
           /\ result'[c] = "ok" /\ result[c] = "none" => seen[c] >= 1
           /\ ~Retried(kind[c]) => seen[c] <= 1]_vars
  BY <1>2 DEF EInv, ExecutedBefore
<1> QED
  BY <1>1, <1>3, NextKeepsEInv, TypeOKHolds, PTL DEF Spec, ToldRight

\* Register and Unregister give up only when no pause fits into their time any more,
\* whatever the manager answers, or does not (http.go:142).
THEOREM GivesUpLateHolds == Spec => GivesUpLate
<1>1. ASSUME TypeOK, Next, NEW c \in Callers, IgnoresStatusCode(kind[c]), ~cancelled[c],
             result[c] = "none", result'[c] = "failed"
      PROVE  elapsed[c] + MaxPause > MaxElapsed
  <2>1. Retried(kind[c])
    BY <1>1 DEF IgnoresStatusCode, Retried
  <2>2. ~\E k \in Makes[c] : Call(c, k)
    BY <1>1 DEF TypeOK, Call
  <2>3. Backoff(c) /\ Return(c, "failed")
    BY <1>1, <2>1, <2>2, StepOfReturn
  <2>4. Again(kind[c], answer[c]) \/ Outcome(kind[c], answer[c]) = "ok"
    BY <1>1 DEF Again, Outcome
  <2>5. PICK d \in 1..MaxPause :
          \/ Return(c, Outcome(kind[c], answer[c])) /\ ~Again(kind[c], answer[c])
          \/ Stops(c, d)
          \/ Pause(c, d)
    BY <2>3 DEF Backoff
  <2>6. ~Pause(c, d)
    BY <1>1 DEF Pause
  <2>7. ~(Return(c, Outcome(kind[c], answer[c])) /\ ~Again(kind[c], answer[c]))
    BY <1>1, <2>4 DEF TypeOK, Return
  <2>8. elapsed[c] + d > MaxElapsed
    BY <1>1, <2>5, <2>6, <2>7 DEF Stops
  <2>9. elapsed[c] \in Int /\ MaxPause \in Int /\ MaxElapsed \in Int
    BY <1>1, ClientAssumption DEF TypeOK
  <2> QED
    BY <2>8, <2>9, SMT
<1>2. TypeOK /\ [Next]_vars =>
        [\A c \in Callers :
           /\ IgnoresStatusCode(kind[c]) /\ ~cancelled[c]
           /\ result[c] = "none" /\ result'[c] = "failed"
           => elapsed[c] + MaxPause > MaxElapsed]_vars
  BY <1>1
<1> QED
  BY <1>2, TypeOKHolds, PTL DEF Spec, GivesUpLate
=============================================================================
