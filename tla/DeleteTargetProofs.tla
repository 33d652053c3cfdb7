----------------------- MODULE DeleteTargetProofs ----------------------
(***************************************************************************)
(* Proofs about DeleteTarget, for any number of callers with any rights,   *)
(* any kinds of target and any number of retries: a reported deletion      *)
(* happened, and only its author reports it.                               *)
(***************************************************************************)
EXTENDS DeleteTarget, TLAPS

USE KindsAssumption, NobodyAssumption, RetriesAssumption
USE DEF Tries

(* A failed attempt is retried within MaxRetries, or ends the call with an *)
(* error: neither claims anything of the target.                           *)
LEMMA AfterFailureKeeps ==
  ASSUME TypeOK, NEW c \in Callers, NEW e, AfterFailure(c, e)
  PROVE  /\ pc' \in [Callers -> {"idle", "read", "send", "sent", "confirm", "done"}]
         /\ try' \in [Callers -> Tries]
         /\ report' \in [Callers -> Reports]
         /\ \A d \in Callers : report'[d] \in {report[d], "error"}
         /\ \A d \in Callers : pc'[d] = "confirm" => pc[d] = "confirm"
<1>1. CASE ShouldRetry(e, DeleteRequest) /\ try[c] < Extra(DeleteRequest, MaxRetries)
  <2>1. try[c] + 1 \in Tries
    BY <1>1 DEF TypeOK, Extra, DeleteRequest
  <2>2. QED
    BY <1>1, <2>1 DEF TypeOK, AfterFailure
<1>2. CASE ~(ShouldRetry(e, DeleteRequest) /\ try[c] < Extra(DeleteRequest, MaxRetries))
  BY <1>2 DEF TypeOK, AfterFailure, Report, Reports
<1>3. QED
  BY <1>1, <1>2

(* A report ends the call and keeps the types.                             *)
LEMMA ReportType ==
  ASSUME TypeOK, NEW c \in Callers, NEW r \in Reports, Report(c, r)
  PROVE  /\ pc' \in [Callers -> {"idle", "read", "send", "sent", "confirm", "done"}]
         /\ report' \in [Callers -> Reports]
         /\ report'[c] = r
         /\ \A d \in Callers : d # c => report'[d] = report[d]
         /\ \A d \in Callers : pc'[d] = "confirm" => pc[d] = "confirm"
  BY DEF TypeOK, Report

(* A read that finds nothing, or a tombstone where one counts as gone, is  *)
(* right about a target its caller can see, an administrator's included.   *)
LEMMA AbsenceIsReal ==
  ASSUME TypeOK, NEW c \in Callers, Sees(c), NEW answer \in ReadAnswers(c),
         answer = "notFound" \/ (answer = "tombstone" /\ kind # "thread")
  PROVE  ~Left(kind, target)
  BY DEF TypeOK, Sees, ReadAnswers, ReadsAsAdmin, Left

(* A step that leaves the target alone keeps Inv if what it adds to what   *)
(* calls saw and reported is no claim, or a true one, and it begins no     *)
(* confirming read but that of a message or a membership.                  *)
LEMMA ClaimsKeep ==
  ASSUME Inv, TypeOK', UNCHANGED <<kind, target, remover, rights>>,
         \A c \in Callers : reply'[c] \in {reply[c], "none"},
         \A c \in Callers :
           pc'[c] = "confirm" => pc[c] = "confirm" \/ ConfirmsRefusal(kind),
         \A c \in Callers :
           \/ report'[c] \in {report[c], "error", "refused"}
           \/ report'[c] = "deleted" /\ remover = c
           \/ report'[c] = "gone" /\ (Sees(c) => ~Left(kind, target))
  PROVE  Inv'
<1>1. \A c \in Callers : CallInv(c)'
  BY DEF Inv, CallInv, Sees, ConfirmsRefusal
<1>2. QED
  BY <1>1 DEF Inv, Left

(* Every step of a call and of Google keeps the types.                     *)
LEMMA TypeStep == TypeOK /\ [Next]_vars => TypeOK'
<1> SUFFICES ASSUME TypeOK, [Next]_vars PROVE TypeOK'
  OBVIOUS
<1>1. ASSUME NEW c \in Callers, Begin(c) PROVE TypeOK'
  BY <1>1 DEF TypeOK, Begin
<1>2. ASSUME NEW c \in Callers, Read(c) PROVE TypeOK'
  BY <1>2 DEF TypeOK, Read, Report, Reports
<1>3. ASSUME NEW c \in Callers, Send(c) PROVE TypeOK'
  BY <1>3 DEF TypeOK, Send
<1>4. ASSUME NEW c \in Callers, Stop(c) PROVE TypeOK'
  BY <1>4 DEF TypeOK, Stop, Report, Reports
<1>5. ASSUME NEW c \in Callers, Break(c) PROVE TypeOK'
  BY <1>5, AfterFailureKeeps DEF TypeOK, Break
<1>6. ASSUME NEW c \in Callers, Take(c) PROVE TypeOK'
  <2>1. reply' \in [Callers -> Answers \cup {"none"}]
    BY <1>6 DEF TypeOK, Take
  <2>2. CASE AfterFailure(c, reply[c])
    BY <1>6, <2>1, <2>2, AfterFailureKeeps DEF TypeOK, Take
  <2>3. CASE UNCHANGED try /\ \E r \in {"deleted", "gone", "error", "refused"} : Report(c, r)
    BY <1>6, <2>1, <2>3 DEF TypeOK, Take, Report, Reports
  <2>4. CASE UNCHANGED <<try, report>> /\ pc' = [pc EXCEPT ![c] = "confirm"]
    BY <1>6, <2>1, <2>4 DEF TypeOK, Take
  <2>5. QED
    BY <1>6, <2>2, <2>3, <2>4 DEF Take
<1>7. ASSUME NEW c \in Callers, Confirm(c) PROVE TypeOK'
  BY <1>7 DEF TypeOK, Confirm, Report, Reports, ConfirmedGone
<1>8. ASSUME NEW c \in Callers, NEW t \in Tries, Google(c, t) PROVE TypeOK'
  BY <1>8 DEF TypeOK, Google
<1>9. CASE UNCHANGED vars
  BY <1>9 DEF TypeOK, vars
<1>10. QED
  BY <1>1, <1>2, <1>3, <1>4, <1>5, <1>6, <1>7, <1>8, <1>9 DEF Next

(* Google removes a target that is left, for one caller, and answers that  *)
(* caller alone with success; it answers 404 only for one that is gone.    *)
LEMMA GoogleStep ==
  ASSUME Inv, NEW c \in Callers, NEW t \in Tries, Google(c, t), TypeOK'
  PROVE  Inv'
<1> TypeOK /\ UNCHANGED <<kind, rights, pc, report>>
  BY DEF Inv, Google
<1>1. PICK answer \in Answers, lands \in BOOLEAN, left \in {"tombstone", "absent"} :
        /\ lands => Left(kind, target)
        /\ answer = "success" => lands
        /\ answer = "notFound" => ~Left(kind, target)
        /\ remover' = IF lands THEN c ELSE remover
        /\ ~Left(kind, left)
        /\ target' = IF lands THEN left ELSE target
        /\ reply' = [reply EXCEPT ![c] = answer] \/ reply' = reply
  BY DEF Google
<1>2. remover' = Nobody <=> Left(kind, target')
  BY <1>1 DEF Inv
<1>3. \A d \in Callers : remover = d => remover' = d
  BY <1>1 DEF Inv
<1>4. remover # Nobody => remover' # Nobody
  BY <1>1
<1>5. \A d \in Callers : reply'[d] = reply[d] \/ (d = c /\ reply'[d] = answer)
  BY <1>1 DEF TypeOK
<1>6. ASSUME NEW d \in Callers PROVE CallInv(d)'
  <2>1. CASE reply'[d] = reply[d]
    BY <1>3, <1>4, <2>1 DEF Inv, CallInv, Sees, ConfirmsRefusal
  <2>2. CASE d = c /\ reply'[d] = answer
    BY <1>1, <1>3, <1>4, <2>2 DEF Inv, CallInv, Sees, ConfirmsRefusal
  <2>3. QED
    BY <1>5, <2>1, <2>2
<1>7. QED
  BY <1>2, <1>6 DEF Inv, Left

(* Inv is inductive.                                                       *)
LEMMA InvStep == Inv /\ [Next]_vars => Inv'
<1> SUFFICES ASSUME Inv, [Next]_vars PROVE Inv'
  OBVIOUS
<1> TypeOK /\ TypeOK'
  BY TypeStep DEF Inv
<1>1. ASSUME NEW c \in Callers, Begin(c) \/ Send(c) PROVE Inv'
  BY <1>1, ClaimsKeep DEF Begin, Send, TypeOK
<1>2. ASSUME NEW c \in Callers, Read(c) PROVE Inv'
  <2>1. PICK answer \in ReadAnswers(c) :
          \/ /\ answer = "notFound" \/ (answer = "tombstone" /\ kind # "thread")
             /\ Report(c, "gone")
          \/ Report(c, "error")
          \/ UNCHANGED report /\ pc' = [pc EXCEPT ![c] = "send"]
    BY <1>2 DEF Read
  <2>2. CASE /\ answer = "notFound" \/ (answer = "tombstone" /\ kind # "thread")
             /\ Report(c, "gone")
    BY <1>2, <2>2, ReportType, AbsenceIsReal, ClaimsKeep DEF Read, Reports
  <2>3. CASE Report(c, "error")
    BY <1>2, <2>3, ReportType, ClaimsKeep DEF Read, Reports
  <2>4. CASE UNCHANGED report /\ pc' = [pc EXCEPT ![c] = "send"]
    BY <1>2, <2>4, ReportType, ClaimsKeep DEF Read, TypeOK, Reports
  <2>5. QED
    BY <2>1, <2>2, <2>3, <2>4
<1>3. ASSUME NEW c \in Callers, Stop(c) PROVE Inv'
  BY <1>3, ReportType, ClaimsKeep DEF Stop, Reports
<1>4. ASSUME NEW c \in Callers, Break(c) PROVE Inv'
  BY <1>4, AfterFailureKeeps, ClaimsKeep DEF Break, TypeOK
<1>5. ASSUME NEW c \in Callers, Take(c) PROVE Inv'
  <2>1. /\ UNCHANGED <<kind, target, remover, rights>>
        /\ \A d \in Callers : reply'[d] \in {reply[d], "none"}
    BY <1>5 DEF Take, TypeOK
  <2>2. CASE AfterFailure(c, reply[c])
    BY <2>1, <2>2, AfterFailureKeeps, ClaimsKeep
  <2>3. CASE reply[c] = "success" /\ Report(c, "deleted")
    <3>1. remover = c
      BY <2>3 DEF Inv, CallInv
    <3>2. QED
      BY <2>1, <2>3, <3>1, ReportType, ClaimsKeep DEF Reports
  <2>4. CASE reply[c] = "notFound" /\ Report(c, "gone")
    <3>1. ~Left(kind, target)
      BY <2>4 DEF Inv, CallInv
    <3>2. QED
      BY <2>1, <2>4, <3>1, ReportType, ClaimsKeep DEF Reports
  <2>5. CASE /\ UNCHANGED report /\ pc' = [pc EXCEPT ![c] = "confirm"]
             /\ ConfirmsRefusal(kind)
    BY <2>1, <2>5, ClaimsKeep DEF TypeOK
  <2>6. CASE \E r \in {"error", "refused"} : Report(c, r)
    BY <2>1, <2>6, ReportType, ClaimsKeep DEF Reports
  <2>7. QED
    BY <1>5, <2>2, <2>3, <2>4, <2>5, <2>6 DEF Take, IsAlreadyGone
<1>6. ASSUME NEW c \in Callers, Confirm(c) PROVE Inv'
  <2>1. PICK answer \in ReadAnswers(c) :
          Report(c, IF answer \in {"notFound", "tombstone"} THEN "gone" ELSE "refused")
    BY <1>6 DEF Confirm, ConfirmedGone
  <2>2. UNCHANGED <<kind, target, remover, rights, reply>>
    BY <1>6 DEF Confirm
  <2>3. CASE answer \in {"notFound", "tombstone"} /\ kind # "thread"
    BY <2>1, <2>2, <2>3, ReportType, AbsenceIsReal, ClaimsKeep DEF Reports
  <2>4. CASE answer \notin {"notFound", "tombstone"}
    BY <2>1, <2>2, <2>4, ReportType, ClaimsKeep DEF Reports
  <2>5. kind # "thread"
    BY <1>6 DEF Confirm, Inv, CallInv, ConfirmsRefusal
  <2>6. QED
    BY <2>3, <2>4, <2>5
<1>7. ASSUME NEW c \in Callers, NEW t \in Tries, Google(c, t) PROVE Inv'
  BY <1>7, GoogleStep
<1>8. CASE UNCHANGED vars
  BY <1>8, ClaimsKeep DEF vars
<1>9. QED
  BY <1>1, <1>2, <1>3, <1>4, <1>5, <1>6, <1>7, <1>8 DEF Next

(* Before any call the target is left and nothing was claimed of it.       *)
LEMMA InvInit == Init => Inv
<1> SUFFICES ASSUME Init PROVE Inv
  OBVIOUS
<1>1. TypeOK
  BY DEF Init, TypeOK, Reports
<1>2. \A c \in Callers : CallInv(c)
  BY DEF Init, CallInv
<1>3. QED
  BY <1>1, <1>2 DEF Init, Inv

(* Whoever calls, with whatever rights and answers, what each call saw and *)
(* reported agrees with what became of the target (deleteIdempotent).      *)
THEOREM InvAlways == Spec => []Inv
<1>1. Init => Inv
  BY InvInit
<1>2. Inv /\ [Next]_vars => Inv'
  BY InvStep
<1>3. QED
  BY <1>1, <1>2, PTL DEF Spec

(* A call that can see its target and reports it deleted, or already gone, *)
(* is right (deleteIdempotent, confirmGone).                               *)
THEOREM ReportedIsGone == Spec => []DoneMeansGone
<1>1. Inv => DoneMeansGone
  BY DEF Inv, CallInv, DoneMeansGone
<1>2. QED
  BY <1>1, InvAlways, PTL

(* A call that reports it deleted the target sent the request that did     *)
(* (deleteIdempotent's first result).                                      *)
THEOREM DeletedByCaller == Spec => []DeletedMeansMine
<1>1. Inv => DeletedMeansMine
  BY DEF Inv, CallInv, DeletedMeansMine
<1>2. QED
  BY <1>1, InvAlways, PTL
=============================================================================
