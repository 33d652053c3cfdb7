------------------------ MODULE ChatCallsProofs ------------------------
(***************************************************************************)
(* Proofs about ChatCalls, for every set of calls, every request, any      *)
(* number of retries and any limiter: the types, at most one effect of a   *)
(* create with no key, the refinement of WriteOutcome, and the end that    *)
(* every step of send brings nearer.                                       *)
(***************************************************************************)
EXTENDS ChatCalls, TLAPS

USE DEF Tries

(* Every report send can make is one of Results.                           *)
LEMMA ResultTypes ==
  /\ NoResult \in Results
  /\ Success \in Results
  /\ \A why \in Failures, marked \in BOOLEAN : Failed(why, marked) \in Results
  BY DEF Results, NoResult, Success, Failed

(* Ending a call keeps pc and result in their types.                       *)
LEMMA DoneType ==
  ASSUME TypeOK, NEW c \in Calls, NEW r \in Results, Done(c, r)
  PROVE  /\ pc' \in [Calls -> {"idle", "token", "limiter", "attempt", "backoff", "done"}]
         /\ result' \in [Calls -> Results]
  BY DEF TypeOK, Done

(* Nothing decreases try, and a request makes at most MaxRetries more      *)
(* attempts, so the next attempt's number is still one of Tries.           *)
LEMMA AfterFailureType ==
  ASSUME TypeOK, NEW c \in Calls, NEW e \in AttemptErrors, AfterFailure(c, e)
  PROVE  /\ pc' \in [Calls -> {"idle", "token", "limiter", "attempt", "backoff", "done"}]
         /\ try' \in [Calls -> Tries]
         /\ result' \in [Calls -> Results]
<1> USE MaxRetriesAssumption
<1>1. MayHaveApplied(e, req[c]) \in BOOLEAN
  BY DEF MayHaveApplied
<1>2. CASE ShouldRetry(e, req[c]) /\ try[c] < Extra(req[c], MaxRetries)
  <2>1. try[c] + 1 \in Tries
    BY <1>2 DEF TypeOK, Extra
  <2>2. QED
    BY <1>2, <2>1 DEF TypeOK, AfterFailure
<1>3. CASE ~(ShouldRetry(e, req[c]) /\ try[c] < Extra(req[c], MaxRetries))
  <2>1. Failed(e, MayHaveApplied(e, req[c])) \in Results
    BY <1>1, ResultTypes DEF Failures
  <2>2. QED
    BY <1>3, <2>1, DoneType DEF TypeOK, AfterFailure
<1>4. QED
  BY <1>2, <1>3

(* Every step of the client, of Google and of a limiter keeps the types.   *)
LEMMA TypeStep == TypeOK /\ [Next]_vars => TypeOK'
<1> SUFFICES ASSUME TypeOK, [Next]_vars PROVE TypeOK'
  OBVIOUS
<1> USE MaxRetriesAssumption, BurstAssumption
<1>1. ASSUME NEW c \in Calls, Begin(c) PROVE TypeOK'
  BY <1>1, ResultTypes, DoneType DEF TypeOK, Begin, Failures, OwnErrors
<1>2. ASSUME NEW c \in Calls, Token(c) PROVE TypeOK'
  BY <1>2, ResultTypes, DoneType DEF TypeOK, Token, Failures, OwnErrors
<1>3. ASSUME NEW c \in Calls, Attempt(c) PROVE TypeOK'
  BY <1>3 DEF TypeOK, Attempt, LimiterOf, Limiters
<1>4. ASSUME NEW c \in Calls, Unsent(c) PROVE TypeOK'
  <2>1. bucket' \in [Limiters -> Nat]
    BY <1>4 DEF TypeOK, Unsent, LimiterOf, Limiters
  <2>2. QED
    BY <1>4, <2>1, AfterFailureType DEF TypeOK, Unsent, AttemptErrors
<1>5. ASSUME NEW c \in Calls, GiveUp(c) PROVE TypeOK'
  BY <1>5, ResultTypes, DoneType DEF TypeOK, GiveUp, Failures, OwnErrors
<1>6. ASSUME NEW c \in Calls, Wake(c) PROVE TypeOK'
  BY <1>6 DEF TypeOK, Wake
<1>7. ASSUME NEW c \in Calls, Break(c) PROVE TypeOK'
  BY <1>7, AfterFailureType DEF TypeOK, Break, AttemptErrors
<1>8. ASSUME NEW c \in Calls, TakeError(c) PROVE TypeOK'
  BY <1>8, AfterFailureType DEF TypeOK, TakeError, AttemptErrors
<1>9. ASSUME NEW c \in Calls, TakeSuccess(c) PROVE TypeOK'
  BY <1>9, ResultTypes, DoneType DEF TypeOK, TakeSuccess
<1>10. ASSUME NEW c \in Calls, TakeOversize(c) PROVE TypeOK'
  BY <1>10, AfterFailureType DEF TypeOK, TakeOversize, AttemptErrors
<1>11. ASSUME NEW c \in Calls, TakeUndecoded(c) PROVE TypeOK'
  BY <1>11, ResultTypes, DoneType DEF TypeOK, TakeUndecoded, Failures, OwnErrors
<1>12. ASSUME NEW c \in Calls, ContextEnds(c) PROVE TypeOK'
  BY <1>12 DEF TypeOK, ContextEnds
<1>13. ASSUME NEW c \in Calls, NEW t \in Tries, Google(c, t) PROVE TypeOK'
  BY <1>13 DEF TypeOK, Google
<1>14. ASSUME NEW l \in Limiters, Refill(l) PROVE TypeOK'
  BY <1>14 DEF TypeOK, Refill
<1>15. CASE UNCHANGED vars
  BY <1>15 DEF TypeOK, vars
<1>16. QED
  BY <1>1, <1>2, <1>3, <1>4, <1>5, <1>6, <1>7, <1>8, <1>9, <1>10, <1>11, <1>12,
     <1>13, <1>14, <1>15 DEF Next, ClientStep

(* The state before any call has begun is typed.                           *)
LEMMA TypeInit == Init => TypeOK
  BY MaxRetriesAssumption, BurstAssumption DEF Init, TypeOK, Results, NoResult

(* Every reachable state has the types TypeOK gives it.                    *)
THEOREM TypeCorrect == Spec => []TypeOK
  BY TypeInit, TypeStep, PTL DEF Spec

-----------------------------------------------------------------------------
(* A step of one call leaves what holds of the others alone.               *)
LEMMA Untouched ==
  ASSUME NEW d \in Calls, CallInv(d),
         req'[d] = req[d], pc'[d] = pc[d], try'[d] = try[d], wire'[d] = wire[d],
         reply'[d] = reply[d], applied'[d] = applied[d], result'[d] = result[d]
  PROVE  CallInv(d)'
  BY DEF CallInv, AttemptInv, DoneInv, Unrepeatable, IsWrite, SafeToRepeat

(* A create with no key goes on only after a 429, which Google answers     *)
(* without applying it; any other failure ends the call, marked unless the *)
(* attempt settled it.                                                     *)
LEMMA AfterFailureInv ==
  ASSUME Inv, NEW c \in Calls, NEW e \in AttemptErrors, AfterFailure(c, e),
         UNCHANGED <<req, wire, applied>>,
         pc[c] \in {"limiter", "attempt"},
         e = "unsent" => pc[c] = "limiter",
         e # "unsent" => pc[c] = "attempt",
         e \in ApiErrors => e = reply[c],
         e = "oversize" => reply[c] # "none"
  PROVE  CallInv(c)'
<1> USE DEF Inv, CallInv, TypeOK
<1>1. CASE ShouldRetry(e, req[c]) /\ try[c] < Extra(req[c], MaxRetries)
  <2>1. pc'[c] = "backoff" /\ result'[c] = result[c]
    BY <1>1 DEF AfterFailure
  <2>2. Unrepeatable(req[c]) => e = "throttled"
    BY <1>1 DEF ShouldRetry, TurnedAway, Unrepeatable
  <2>3. QED
    BY <2>1, <2>2 DEF ApiErrors, Statuses, AttemptInv
<1>2. CASE ~(ShouldRetry(e, req[c]) /\ try[c] < Extra(req[c], MaxRetries))
  <2>1. pc'[c] = "done" /\ result'[c] = Failed(e, MayHaveApplied(e, req[c]))
    BY <1>2 DEF AfterFailure, Done
  <2>2. ASSUME Unrepeatable(req[c]) PROVE DoneInv(c)'
    <3>1. applied[c] \in {0, 1} /\ (wire[c] # {} => applied[c] = 0 /\ wire[c] = {try[c]})
      BY <2>2 DEF AttemptInv
    <3>2. e \in {"failed", "broken"} /\ ~req[c].repeatHarmless => MayHaveApplied(e, req[c])
      BY <2>2 DEF MayHaveApplied, Unrepeatable
    <3>3. e \notin {"failed", "broken"} =>
            wire[c] = {} /\ (e # "oversize" => applied[c] = 0)
      BY <2>2 DEF AttemptInv, AttemptErrors, ApiErrors, Statuses
    <3>4. QED
      BY <2>1, <3>1, <3>2, <3>3 DEF DoneInv, Failed
  <2>3. QED
    BY <2>1, <2>2 DEF Failed
<1>3. QED
  BY <1>1, <1>2

(* Every step keeps what Inv says of every call.  This is where the        *)
(* attempts of a create with no key are shown to exclude each other.       *)
LEMMA InvStep == Inv /\ [Next]_vars => Inv'
<1> SUFFICES ASSUME Inv, [Next]_vars PROVE \A d \in Calls : CallInv(d)'
  BY TypeStep DEF Inv
<1> USE DEF Inv
<1>1. ASSUME NEW c \in Calls, Begin(c), NEW d \in Calls PROVE CallInv(d)'
  <2>1. CASE d = c
    BY <1>1, <2>1 DEF Begin, Done, Failed, CallInv, DoneInv, Unrepeatable, TypeOK
  <2>2. QED
    BY <1>1, <2>1, Untouched DEF Begin, Done, TypeOK
<1>2. ASSUME NEW c \in Calls, Token(c), NEW d \in Calls PROVE CallInv(d)'
  <2>1. CASE d = c
    BY <1>2, <2>1 DEF Token, Done, Failed, CallInv, DoneInv, Unrepeatable, TypeOK
  <2>2. QED
    BY <1>2, <2>1, Untouched DEF Token, Done, TypeOK
<1>3. ASSUME NEW c \in Calls, Attempt(c), NEW d \in Calls PROVE CallInv(d)'
  <2>1. CASE d = c
    BY <1>3, <2>1 DEF Attempt, CallInv, AttemptInv, TypeOK
  <2>2. QED
    BY <1>3, <2>1, Untouched DEF Attempt, TypeOK
<1>4. ASSUME NEW c \in Calls, Unsent(c), NEW d \in Calls PROVE CallInv(d)'
  <2>1. CASE d = c
    BY <1>4, <2>1, AfterFailureInv DEF Unsent, AttemptErrors, ApiErrors, Statuses
  <2>2. QED
    BY <1>4, <2>1, Untouched DEF Unsent, AfterFailure, Done, TypeOK
<1>5. ASSUME NEW c \in Calls, GiveUp(c), NEW d \in Calls PROVE CallInv(d)'
  <2>1. CASE d = c
    BY <1>5, <2>1 DEF GiveUp, Done, Failed, CallInv, DoneInv, TypeOK
  <2>2. QED
    BY <1>5, <2>1, Untouched DEF GiveUp, Done, TypeOK
<1>6. ASSUME NEW c \in Calls, Wake(c), NEW d \in Calls PROVE CallInv(d)'
  <2>1. CASE d = c
    BY <1>6, <2>1 DEF Wake, CallInv, TypeOK
  <2>2. QED
    BY <1>6, <2>1, Untouched DEF Wake, TypeOK
<1>7. ASSUME NEW c \in Calls, Break(c), NEW d \in Calls PROVE CallInv(d)'
  <2>1. CASE d = c
    BY <1>7, <2>1, AfterFailureInv DEF Break, AttemptErrors, ApiErrors, Statuses
  <2>2. QED
    BY <1>7, <2>1, Untouched DEF Break, AfterFailure, Done, TypeOK
<1>8. ASSUME NEW c \in Calls, TakeError(c), NEW d \in Calls PROVE CallInv(d)'
  <2>1. CASE d = c
    BY <1>8, <2>1, AfterFailureInv DEF TakeError, AttemptErrors, ApiErrors, Statuses
  <2>2. QED
    BY <1>8, <2>1, Untouched DEF TakeError, AfterFailure, Done, TypeOK
<1>9. ASSUME NEW c \in Calls, TakeSuccess(c), NEW d \in Calls PROVE CallInv(d)'
  <2>1. CASE d = c
    BY <1>9, <2>1 DEF TakeSuccess, Done, Success, CallInv, AttemptInv, DoneInv, TypeOK
  <2>2. QED
    BY <1>9, <2>1, Untouched DEF TakeSuccess, Done, TypeOK
<1>10. ASSUME NEW c \in Calls, TakeOversize(c), NEW d \in Calls PROVE CallInv(d)'
  <2>1. CASE d = c
    BY <1>10, <2>1, AfterFailureInv DEF TakeOversize, AttemptErrors, ApiErrors, Statuses
  <2>2. QED
    BY <1>10, <2>1, Untouched DEF TakeOversize, AfterFailure, Done, TypeOK
<1>11. ASSUME NEW c \in Calls, TakeUndecoded(c), NEW d \in Calls PROVE CallInv(d)'
  <2>1. CASE d = c
    BY <1>11, <2>1 DEF TakeUndecoded, Done, Failed, CallInv, AttemptInv, DoneInv, TypeOK
  <2>2. QED
    BY <1>11, <2>1, Untouched DEF TakeUndecoded, Done, TypeOK
<1>12. ASSUME NEW c \in Calls, ContextEnds(c), NEW d \in Calls PROVE CallInv(d)'
  BY <1>12, Untouched DEF ContextEnds
<1>13. ASSUME NEW c \in Calls, NEW t \in Tries, Google(c, t), NEW d \in Calls
       PROVE CallInv(d)'
  <2>1. CASE d = c /\ Unrepeatable(req[c])
    <3>1. pc[c] \in {"attempt", "done"}
      BY <1>13, <2>1 DEF Google, CallInv, TypeOK
    <3>2. CASE pc[c] = "attempt"
      <4>1. reply[c] = "none" /\ wire[c] = {t} /\ try[c] = t /\ applied[c] = 0
        BY <1>13, <2>1, <3>2 DEF Google, CallInv, AttemptInv
      <4>2. wire'[c] = {} /\ applied'[c] \in {0, 1}
        BY <1>13, <4>1 DEF Google, TypeOK
      <4>3. /\ reply'[c] = "success" => applied'[c] = 1
            /\ reply'[c] \in {"conflict", "refused", "throttled"} => applied'[c] = 0
            /\ reply'[c] \in Statuses
        BY <1>13, <2>1, <3>2, <4>1 DEF Google, TypeOK, Unrepeatable
      <4>4. QED
        BY <1>13, <2>1, <3>2, <4>2, <4>3
        DEF Google, CallInv, AttemptInv, Statuses, Unrepeatable, IsWrite, SafeToRepeat
    <3>3. CASE pc[c] = "done"
      <4>1. DoneInv(c) /\ wire[c] = {t} /\ applied[c] = 0
        BY <1>13, <2>1, <3>3 DEF Google, CallInv, DoneInv
      <4>2. wire'[c] = {} /\ applied'[c] \in {0, 1}
        BY <1>13, <4>1 DEF Google, TypeOK
      <4>3. DoneInv(c)'
        BY <1>13, <4>1, <4>2 DEF Google, DoneInv
      <4>4. QED
        BY <1>13, <2>1, <3>3, <4>3 DEF Google, CallInv
    <3>4. QED
      BY <3>1, <3>2, <3>3
  <2>2. CASE d = c /\ ~Unrepeatable(req[c])
    BY <1>13, <2>2 DEF Google, CallInv, Unrepeatable, IsWrite, SafeToRepeat
  <2>3. CASE d # c
    BY <1>13, <2>3, Untouched DEF Google, TypeOK
  <2>4. QED
    BY <2>1, <2>2, <2>3
<1>14. ASSUME NEW l \in Limiters, Refill(l), NEW d \in Calls PROVE CallInv(d)'
  BY <1>14, Untouched DEF Refill
<1>15. ASSUME UNCHANGED vars, NEW d \in Calls PROVE CallInv(d)'
  BY <1>15, Untouched DEF vars
<1>16. QED
  BY <1>1, <1>2, <1>3, <1>4, <1>5, <1>6, <1>7, <1>8, <1>9, <1>10, <1>11, <1>12,
     <1>13, <1>14, <1>15 DEF Next, ClientStep

(* Inv holds before any call has begun.                                    *)
LEMMA InvInit == Init => Inv
  BY TypeInit DEF Init, Inv, CallInv, NoResult

(* Inv is an invariant: at Google, a create with no key is absent before   *)
(* its attempt and between attempts, and single after it.                  *)
THEOREM InvAlways == Spec => []Inv
  BY InvInit, InvStep, PTL DEF Spec

(* A create with no key takes effect at most once.                         *)
THEOREM CreatesOnce == Spec => []AtMostOnce
<1>1. Inv => AtMostOnce
  BY DEF Inv, TypeOK, CallInv, AttemptInv, DoneInv, AtMostOnce
<1>2. QED
  BY <1>1, InvAlways, PTL

-----------------------------------------------------------------------------
(* The refinement.  Land is Google applying the write, Tell is send        *)
(* returning; every other step leaves both alone.                          *)
Effects == [c \in Calls |-> IF Answerable(c) THEN applied[c] ELSE 0]

Told == [c \in Calls |-> IF Answerable(c) THEN Report(c) ELSE "pending"]

LEMMA OutcomeStutter ==
  ASSUME req' = req, applied' = applied, result' = result
  PROVE  UNCHANGED <<Effects, Told>>
  BY DEF Effects, Told, Answerable, Report, Unrepeatable, IsWrite, SafeToRepeat

(* Ending a call with a report Inv allows is WriteOutcome telling it.      *)
LEMMA ReportStep ==
  ASSUME Inv, Inv', NEW c \in Calls, NEW r \in Results, r.kind # "none",
         pc[c] # "done", Done(c, r), req' = req, applied' = applied
  PROVE  [Outcome!Next]_<<Effects, Told>>
<1> USE DEF Inv
<1>1. result' = [result EXCEPT ![c] = r] /\ result[c].kind = "none"
  BY DEF Done, TypeOK, CallInv
<1>2. Effects' = Effects
  BY DEF Effects, Answerable, Unrepeatable, IsWrite, SafeToRepeat
<1>3. CASE Answerable(c)
  <2>1. Told' = [Told EXCEPT ![c] = Report(c)']
    BY <1>1, <1>3
    DEF Told, Report, Answerable, Unrepeatable, IsWrite, SafeToRepeat, TypeOK
  <2>2. Told[c] = "pending" /\ Effects[c] = applied[c]
    BY <1>1, <1>3 DEF Told, Report, Effects
  <2>3. DoneInv(c)' /\ result'[c] = r
    BY <1>1, <1>3
    DEF Done, CallInv, TypeOK, Answerable, Unrepeatable, IsWrite, SafeToRepeat
  <2>4. Report(c)' \in Outcome!Reports \ {"pending"}
    BY <2>3 DEF Report, Results, Outcome!Reports
  <2>5. Report(c)' = "ok" => applied[c] = 1
    BY <2>3 DEF Report, DoneInv
  <2>6. Report(c)' = "failed" => applied[c] = 0
    BY <2>3, <1>3 DEF Report, DoneInv, Answerable, Results
  <2>7. Outcome!Tell(c, Report(c)')
    BY <1>2, <2>1, <2>2, <2>4, <2>5, <2>6 DEF Outcome!Tell, Effects, Told
  <2>8. QED
    BY <2>4, <2>7 DEF Outcome!Next
<1>4. CASE ~Answerable(c)
  <2>1. Told' = Told
    BY <1>1, <1>4
    DEF Told, Report, Answerable, Unrepeatable, IsWrite, SafeToRepeat, TypeOK
  <2>2. QED
    BY <1>2, <2>1
<1>5. QED
  BY <1>3, <1>4

(* What send does with a failed attempt is a stutter of WriteOutcome if it *)
(* retries, and the telling of a failure if it does not.                   *)
LEMMA FailureStep ==
  ASSUME Inv, Inv', NEW c \in Calls, NEW e \in AttemptErrors, AfterFailure(c, e),
         pc[c] # "done", req' = req, applied' = applied
  PROVE  [Outcome!Next]_<<Effects, Told>>
<1>1. CASE UNCHANGED result
  BY <1>1, OutcomeStutter
<1>2. CASE Done(c, Failed(e, MayHaveApplied(e, req[c])))
  <2>1. MayHaveApplied(e, req[c]) \in BOOLEAN
    BY DEF MayHaveApplied
  <2>2. Failed(e, MayHaveApplied(e, req[c])) \in Results
    BY <2>1, ResultTypes DEF Failures
  <2>3. Failed(e, MayHaveApplied(e, req[c])).kind # "none"
    BY DEF Failed
  <2>4. QED
    BY <1>2, <2>2, <2>3, ReportStep
<1>3. QED
  BY <1>1, <1>2 DEF AfterFailure

(* Google handling an attempt is a stutter or the landing of the write.    *)
LEMMA GoogleStep ==
  ASSUME Inv, Inv', NEW c \in Calls, NEW t \in Tries, Google(c, t)
  PROVE  [Outcome!Next]_<<Effects, Told>>
<1> USE DEF Inv
<1>1. req' = req /\ result' = result
  BY DEF Google
<1>2. Told' = Told
  BY <1>1 DEF Told, Report, Answerable, Unrepeatable, IsWrite, SafeToRepeat
<1>3. applied' = applied \/ applied' = [applied EXCEPT ![c] = applied[c] + 1]
  BY DEF Google, TypeOK
<1>4. CASE Answerable(c) /\ applied' = [applied EXCEPT ![c] = applied[c] + 1]
  <2>1. applied[c] = 0
    BY <1>4 DEF Google, CallInv, AttemptInv, DoneInv, Answerable, TypeOK
  <2>2. Report(c) \in {"pending", "unconfirmed"}
    BY <1>4 DEF Google, CallInv, DoneInv, Answerable, TypeOK, Results, Report
  <2>3. Effects' = [Effects EXCEPT ![c] = 1]
    <3>1. \A d \in Calls : Answerable(d)' <=> Answerable(d)
      BY <1>1 DEF Answerable, Unrepeatable, IsWrite, SafeToRepeat
    <3>2. \A d \in Calls : applied'[d] = IF d = c THEN 1 ELSE applied[d]
      BY <1>4, <2>1 DEF TypeOK
    <3>3. QED
      BY <1>4, <3>1, <3>2 DEF Effects
  <2>4. Outcome!Land(c)
    BY <1>2, <1>4, <2>1, <2>2, <2>3 DEF Outcome!Land, Effects, Told
  <2>5. QED
    BY <2>4 DEF Outcome!Next
<1>5. CASE ~Answerable(c) /\ applied' = [applied EXCEPT ![c] = applied[c] + 1]
  <2>1. Effects' = Effects
    BY <1>1, <1>5
    DEF Effects, Answerable, Unrepeatable, IsWrite, SafeToRepeat, TypeOK
  <2>2. QED
    BY <1>2, <2>1
<1>6. CASE applied' = applied
  BY <1>1, <1>6, OutcomeStutter
<1>7. QED
  BY <1>3, <1>4, <1>5, <1>6

(* Every step maps to a step of WriteOutcome or to a stutter.              *)
LEMMA OutcomeStep == Inv /\ Inv' /\ [Next]_vars => [Outcome!Next]_<<Effects, Told>>
<1> SUFFICES ASSUME Inv, Inv', [Next]_vars PROVE [Outcome!Next]_<<Effects, Told>>
  OBVIOUS
<1>1. ASSUME NEW c \in Calls, Begin(c) PROVE [Outcome!Next]_<<Effects, Told>>
  BY <1>1, ReportStep, ResultTypes, OutcomeStutter DEF Begin, Failed, Failures, OwnErrors
<1>2. ASSUME NEW c \in Calls, Token(c) PROVE [Outcome!Next]_<<Effects, Told>>
  BY <1>2, ReportStep, ResultTypes, OutcomeStutter DEF Token, Failed, Failures, OwnErrors
<1>3. ASSUME NEW c \in Calls, Attempt(c) \/ Wake(c) \/ ContextEnds(c)
      PROVE  [Outcome!Next]_<<Effects, Told>>
  BY <1>3, OutcomeStutter DEF Attempt, Wake, ContextEnds
<1>4. ASSUME NEW c \in Calls, Unsent(c) PROVE [Outcome!Next]_<<Effects, Told>>
  BY <1>4, FailureStep DEF Unsent, AttemptErrors
<1>5. ASSUME NEW c \in Calls, GiveUp(c) PROVE [Outcome!Next]_<<Effects, Told>>
  BY <1>5, ReportStep, ResultTypes DEF GiveUp, Failed, Failures, OwnErrors
<1>6. ASSUME NEW c \in Calls, Break(c) PROVE [Outcome!Next]_<<Effects, Told>>
  BY <1>6, FailureStep DEF Break, AttemptErrors
<1>7. ASSUME NEW c \in Calls, TakeError(c) PROVE [Outcome!Next]_<<Effects, Told>>
  BY <1>7, FailureStep DEF TakeError, AttemptErrors
<1>8. ASSUME NEW c \in Calls, TakeSuccess(c) PROVE [Outcome!Next]_<<Effects, Told>>
  BY <1>8, ReportStep, ResultTypes DEF TakeSuccess, Success
<1>9. ASSUME NEW c \in Calls, TakeOversize(c) PROVE [Outcome!Next]_<<Effects, Told>>
  BY <1>9, FailureStep DEF TakeOversize, AttemptErrors
<1>10. ASSUME NEW c \in Calls, TakeUndecoded(c) PROVE [Outcome!Next]_<<Effects, Told>>
  BY <1>10, ReportStep, ResultTypes DEF TakeUndecoded, Failed, Failures, OwnErrors
<1>11. ASSUME NEW c \in Calls, NEW t \in Tries, Google(c, t)
       PROVE  [Outcome!Next]_<<Effects, Told>>
  BY <1>11, GoogleStep
<1>12. ASSUME NEW l \in Limiters, Refill(l) PROVE [Outcome!Next]_<<Effects, Told>>
  BY <1>12, OutcomeStutter DEF Refill
<1>13. CASE UNCHANGED vars
  BY <1>13, OutcomeStutter DEF vars
<1>14. QED
  BY <1>1, <1>2, <1>3, <1>4, <1>5, <1>6, <1>7, <1>8, <1>9, <1>10, <1>11, <1>12, <1>13
  DEF Next, ClientStep

(* Before any call has begun, no write has landed and nothing is told.     *)
LEMMA OutcomeInit == Init => Outcome!Init
  BY DEF Init, Outcome!Init, Report, NoResult, Answerable

(* Every run of send, with any number of concurrent calls, is one of       *)
(* WriteOutcome: a create with no key lands at most once, and its report   *)
(* tells the truth.                                                        *)
THEOREM ReportsAreHonest == Spec => HonestReports
<1>1. Inv /\ Inv' /\ [Next]_vars => [Outcome!Next]_Outcome!vars
  BY OutcomeStep DEF Outcome!vars, Effects, Told
<1>2. QED
  BY <1>1, OutcomeInit, InvAlways, PTL DEF Spec, HonestReports, Outcome!Spec

-----------------------------------------------------------------------------
(* The attempts left to a call, and a streamed request makes its first     *)
(* only.                                                                   *)
Again(c) == (IF req[c].streamed THEN 0 ELSE MaxRetries) - try[c]

SentOnce == \A c \in Calls : req[c].streamed => try[c] = 0

(* What a step does to the place of its call in send: it ends the call, or *)
(* goes to the next place of the loop, or takes one of the attempts left.  *)
Ends(c) == pc[c] # "done" /\ pc'[c] = "done" /\ try'[c] = try[c]

Continues(c) ==
  /\ \/ pc[c] = "idle" /\ pc'[c] = "token"
     \/ pc[c] \in {"token", "backoff"} /\ pc'[c] = "limiter"
     \/ pc[c] = "limiter" /\ pc'[c] = "attempt"
  /\ try'[c] = try[c]

Repeats(c) ==
  /\ pc[c] \in {"limiter", "attempt"} /\ pc'[c] = "backoff"
  /\ try[c] < Extra(req[c], MaxRetries) /\ try'[c] = try[c] + 1

Stays(c) == pc'[c] = pc[c] /\ try'[c] = try[c]

(* A failed attempt ends its call or takes another one.                    *)
LEMMA FailureMoves ==
  ASSUME TypeOK, NEW c \in Calls, NEW e \in AttemptErrors, AfterFailure(c, e),
         pc[c] \in {"limiter", "attempt"}, NEW d \in Calls
  PROVE  Ends(d) \/ Repeats(d) \/ Stays(d)
<1>1. CASE d = c
  BY <1>1 DEF TypeOK, AfterFailure, Done, Ends, Repeats
<1>2. CASE d # c
  BY <1>2 DEF TypeOK, AfterFailure, Done, Stays
<1>3. QED
  BY <1>1, <1>2

(* Every step moves each call so, if at all, and changes no request.       *)
LEMMA Moves ==
  ASSUME TypeOK, [Next]_vars, NEW d \in Calls
  PROVE  req' = req /\ (Ends(d) \/ Continues(d) \/ Repeats(d) \/ Stays(d))
<1> DEFINE Goal == req' = req /\ (Ends(d) \/ Continues(d) \/ Repeats(d) \/ Stays(d))
<1>1. ASSUME NEW c \in Calls, Begin(c) \/ Token(c) PROVE Goal
  BY <1>1 DEF TypeOK, Begin, Token, Done, Ends, Continues, Stays
<1>2. ASSUME NEW c \in Calls, Attempt(c) \/ Wake(c) PROVE Goal
  BY <1>2 DEF TypeOK, Attempt, Wake, Continues, Stays
<1>3. ASSUME NEW c \in Calls, GiveUp(c) \/ TakeSuccess(c) \/ TakeUndecoded(c) PROVE Goal
  BY <1>3 DEF TypeOK, GiveUp, TakeSuccess, TakeUndecoded, Done, Ends, Stays
<1>4. ASSUME NEW c \in Calls, Unsent(c) PROVE Goal
  BY <1>4, FailureMoves DEF Unsent, AttemptErrors
<1>5. ASSUME NEW c \in Calls, Break(c) \/ TakeError(c) \/ TakeOversize(c) PROVE Goal
  <2>1. \E e \in AttemptErrors : AfterFailure(c, e)
    BY <1>5 DEF Break, TakeError, TakeOversize, AttemptErrors
  <2>2. pc[c] = "attempt" /\ req' = req
    BY <1>5 DEF Break, TakeError, TakeOversize
  <2>3. QED
    BY <2>1, <2>2, FailureMoves
<1>6. ASSUME NEW c \in Calls, ContextEnds(c) PROVE Goal
  BY <1>6 DEF ContextEnds, Stays
<1>7. ASSUME NEW c \in Calls, NEW t \in Tries, Google(c, t) PROVE Goal
  BY <1>7 DEF Google, Stays
<1>8. ASSUME NEW l \in Limiters, Refill(l) PROVE Goal
  BY <1>8 DEF Refill, Stays
<1>9. CASE UNCHANGED vars
  BY <1>9 DEF vars, Stays
<1>10. QED
  BY <1>1, <1>2, <1>3, <1>4, <1>5, <1>6, <1>7, <1>8, <1>9 DEF Next, ClientStep

(* A streamed request stays at its first attempt.                          *)
LEMMA SentOnceStep == TypeOK /\ SentOnce /\ [Next]_vars => SentOnce'
<1> SUFFICES ASSUME TypeOK, SentOnce, [Next]_vars, NEW c \in Calls, req'[c].streamed
             PROVE  try'[c] = 0
  BY DEF SentOnce
<1>1. req[c].streamed /\ try[c] = 0
  BY Moves DEF SentOnce
<1>2. ~Repeats(c)
  BY <1>1 DEF Repeats, Extra
<1>3. QED
  BY <1>1, <1>2, Moves DEF Ends, Continues, Stays

(* What is left of a call, by its place in send.                           *)
LEMMA LeftAt ==
  ASSUME NEW c \in Calls
  PROVE  /\ pc[c] = "idle" => Left(c) = 3 * Again(c) + 4
         /\ pc[c] \in {"token", "backoff"} => Left(c) = 3 * Again(c) + 3
         /\ pc[c] = "limiter" => Left(c) = 3 * Again(c) + 2
         /\ pc[c] = "attempt" => Left(c) = 3 * Again(c) + 1
         /\ pc[c] = "done" => Left(c) = 0
  BY DEF Left, Again

(* A call that moves comes nearer to its end.                              *)
LEMMA StepRunsDown ==
  ASSUME TypeOK, SentOnce, TypeOK', SentOnce', [Next]_vars, NEW c \in Calls, pc'[c] # pc[c]
  PROVE  Left(c)' \in Nat /\ Left(c)' < Left(c)
<1> USE MaxRetriesAssumption
<1>1. /\ req' = req
      /\ Ends(c) \/ Continues(c) \/ Repeats(c)
  BY Moves DEF Stays
<1>2. Again(c) \in Nat /\ Again(c)' \in Nat
  BY <1>1 DEF TypeOK, SentOnce, Again
<1>3. CASE Ends(c)
  <2>1. Left(c)' = 0
    BY <1>3 DEF Ends, Left
  <2>2. Left(c) \in Nat /\ Left(c) > 0
    BY <1>2, <1>3, LeftAt DEF TypeOK, Ends
  <2>3. QED
    BY <2>1, <2>2
<1>4. CASE Continues(c)
  <2>1. Again(c)' = Again(c)
    BY <1>1, <1>4 DEF Continues, Again
  <2>2. /\ pc'[c] = "token" => Left(c)' = 3 * Again(c)' + 3
        /\ pc'[c] = "limiter" => Left(c)' = 3 * Again(c)' + 2
        /\ pc'[c] = "attempt" => Left(c)' = 3 * Again(c)' + 1
    BY DEF Left, Again
  <2>3. QED
    BY <1>2, <1>4, <2>1, <2>2, LeftAt DEF Continues
<1>5. CASE Repeats(c)
  <2>1. Again(c)' = Again(c) - 1
    BY <1>1, <1>5 DEF TypeOK, Repeats, Again
  <2>2. Left(c)' = 3 * Again(c)' + 3
    BY <1>5 DEF Repeats, Left, Again
  <2>3. Left(c) = 3 * Again(c) + 2 \/ Left(c) = 3 * Again(c) + 1
    BY <1>5, LeftAt DEF Repeats
  <2>4. QED
    BY <1>2, <2>1, <2>2, <2>3
<1>6. QED
  BY <1>1, <1>3, <1>4, <1>5

(* send ends: with any number of retries, whatever fails and however calls *)
(* share their limiters, no call takes more than three steps for each      *)
(* repeated attempt and four besides, and an upload is sent once.          *)
THEOREM EverySendRunsDown == Spec => SendRunsDown
<1>1. Init => SentOnce
  BY DEF Init, SentOnce
<1>2. TypeOK /\ SentOnce /\ TypeOK' /\ SentOnce' /\ [Next]_vars
        => [\A c \in Calls : pc'[c] # pc[c] => Left(c)' \in Nat /\ Left(c)' < Left(c)]_vars
  BY StepRunsDown
<1>3. QED
  BY TypeInit, TypeStep, SentOnceStep, <1>1, <1>2, PTL DEF Spec, SendRunsDown
=============================================================================
