-------------------------- MODULE DeleteTarget ---------------------------
(***************************************************************************)
(* The destructive tools: several calls that delete one target, each with  *)
(* the read its service method makes first, the retried DELETE, and the    *)
(* read that tells a refusal from a target already gone                    *)
(* (deleteIdempotent, confirmGone and their six callers).                  *)
(*                                                                         *)
(* Left out: the witness a call repeats of its target, and dry runs, which *)
(* end before the DELETE.  A name is taken to be used once, so a target    *)
(* that is gone stays gone.                                                *)
(***************************************************************************)
EXTENDS RequestPolicy

CONSTANTS
  Callers,    \* the calls made on the target
  Kinds,      \* what the target may be
  MaxRetries  \* attempts after the first

Nobody == "nobody"

ASSUME KindsAssumption ==
  Kinds \subseteq {"message", "thread", "membership", "section", "pin", "emoji", "space"}
ASSUME NobodyAssumption == Nobody \notin Callers
ASSUME RetriesAssumption == MaxRetries \in Nat

VARIABLES
  kind,     \* what the target is
  target,   \* what Google holds of it
  remover,  \* whose request removed it
  rights,   \* what each caller may do, as Google sees it
  pc,       \* where each call is
  try,      \* the attempt it is at, from 0
  wire,     \* its attempts that Google has still to handle
  reply,    \* Google's answer to the attempt under way
  report    \* what the call reported

vars == <<kind, target, remover, rights, pc, try, wire, reply, report>>

-----------------------------------------------------------------------------
Tries == 0..MaxRetries

(* may: delete the target.  scope: granted the scope of the DELETE.        *)
(* member: can see the target as itself.  admin: calls an administrator's  *)
(* tool.                                                                   *)
Rights == [may : BOOLEAN, scope : BOOLEAN, member : BOOLEAN, admin : BOOLEAN]

(* The answers to a DELETE.  "forbidden" is a 403 that gives no reason,    *)
(* "noScope" the one for want of a scope; "otherwise" is one for a quota   *)
(* or an API that is not enabled, and any other refusal.                   *)
Answers ==
  {"success", "notFound", "forbidden", "noScope", "otherwise", "throttled", "failed"}

Reports == {"none", "deleted", "gone", "refused", "error"}

(* What differs between the callers of deleteIdempotent.                   *)
ReadsFirst(k)      == k \in {"message", "thread", "emoji", "space"}
LeavesTombstone(k) == k \in {"message", "membership"}
HasAdminForm(k)    == k \in {"membership", "space"}
ConfirmsRefusal(k) == k \in {"message", "membership"}

(* A thread whose first message was deleted still has replies to take.     *)
Left(k, t) == t = "there" \/ (k = "thread" /\ t = "tombstone")

TypeOK ==
  /\ kind \in Kinds
  /\ target \in {"there", "tombstone", "absent"}
  /\ remover \in Callers \cup {Nobody}
  /\ rights \in [Callers -> Rights]
  /\ pc \in [Callers -> {"idle", "read", "send", "sent", "confirm", "done"}]
  /\ try \in [Callers -> Tries]
  /\ wire \in [Callers -> SUBSET Tries]
  /\ reply \in [Callers -> Answers \cup {"none"}]
  /\ report \in [Callers -> Reports]

Init ==
  /\ kind \in Kinds
  /\ target \in {t \in {"there", "tombstone"} : Left(kind, t)}
  /\ remover = Nobody
  /\ rights \in [Callers -> Rights]
  /\ \A c \in Callers : rights[c].admin => HasAdminForm(kind)
  /\ pc = [c \in Callers |-> "idle"]
  /\ try = [c \in Callers |-> 0]
  /\ wire = [c \in Callers |-> {}]
  /\ reply = [c \in Callers |-> "none"]
  /\ report = [c \in Callers |-> "none"]

-----------------------------------------------------------------------------
Report(c, r) ==
  /\ pc' = [pc EXCEPT ![c] = "done"]
  /\ report' = [report EXCEPT ![c] = r]

(* A read is made under the call's own context, so an administrator's tool *)
(* reads as the administrator.  The mutant reads as the caller.            *)
ReadsAsAdmin_Mutant(c) == FALSE

ReadsAsAdmin(c) == rights[c].admin

(* What a read of the target answers.  A target the caller cannot see      *)
(* answers "notFound" or "forbidden"; a deleted space "forbidden"; the     *)
(* first message of a thread that is gone may read as a tombstone; any     *)
(* read may fail.                                                          *)
ReadAnswers(c) ==
  {"error"} \cup
    IF ~ReadsAsAdmin(c) /\ ~rights[c].member THEN {"notFound", "forbidden"}
    ELSE IF target # "absent" THEN {target}
    ELSE IF kind = "space" THEN {"forbidden"}
    ELSE {"notFound", "forbidden"} \cup IF kind = "thread" THEN {"tombstone"} ELSE {}

Begin(c) ==
  /\ pc[c] = "idle"
  /\ pc' = [pc EXCEPT ![c] = IF ReadsFirst(kind) THEN "read" ELSE "send"]
  /\ UNCHANGED <<kind, target, remover, rights, try, wire, reply, report>>

(* A target that reads as gone is reported without a DELETE, except that a *)
(* thread's first message can be a tombstone and its replies still there.  *)
Read(c) ==
  /\ pc[c] = "read"
  /\ \E answer \in ReadAnswers(c) :
       \/ /\ answer = "notFound" \/ (answer = "tombstone" /\ kind # "thread")
          /\ Report(c, "gone")
       \/ /\ answer \in {"error", "forbidden"}
          /\ Report(c, "error")
       \/ /\ answer = "there" \/ (answer = "tombstone" /\ kind = "thread")
          /\ pc' = [pc EXCEPT ![c] = "send"]
          /\ UNCHANGED report
  /\ UNCHANGED <<kind, target, remover, rights, try, wire, reply>>

Send(c) ==
  /\ pc[c] = "send"
  /\ pc' = [pc EXCEPT ![c] = "sent"]
  /\ wire' = [wire EXCEPT ![c] = @ \cup {try[c]}]
  /\ UNCHANGED <<kind, target, remover, rights, try, reply, report>>

(* The token, the limiter, the context or the dial fails.                  *)
Stop(c) ==
  /\ pc[c] = "send"
  /\ Report(c, "error")
  /\ UNCHANGED <<kind, target, remover, rights, try, wire, reply>>

DeleteRequest ==
  [method |-> "DELETE", api |-> "chat", readOnly |-> FALSE, idempotent |-> FALSE,
   repeatHarmless |-> FALSE, adminForm |-> TRUE, streamed |-> FALSE]

(* send's choice after an attempt that failed other than by a refusal.     *)
AfterFailure(c, e) ==
  IF ShouldRetry(e, DeleteRequest) /\ try[c] < Extra(DeleteRequest, MaxRetries)
  THEN /\ pc' = [pc EXCEPT ![c] = "send"]
       /\ try' = [try EXCEPT ![c] = @ + 1]
       /\ UNCHANGED report
  ELSE /\ Report(c, "error")
       /\ UNCHANGED try

Break(c) ==
  /\ pc[c] = "sent"
  /\ AfterFailure(c, "broken")
  /\ reply' = [reply EXCEPT ![c] = "none"]
  /\ UNCHANGED <<kind, target, remover, rights, wire>>

(* A missing scope is not an absence.                                      *)
IsAlreadyGone(answer) == answer = "notFound"

(* deleteIdempotent on the DELETE's answer.                                *)
Take(c) ==
  /\ pc[c] = "sent"
  /\ reply[c] # "none"
  /\ reply' = [reply EXCEPT ![c] = "none"]
  /\ \/ /\ reply[c] \in {"throttled", "failed"}
        /\ AfterFailure(c, reply[c])
     \/ /\ reply[c] = "success"
        /\ Report(c, "deleted")
        /\ UNCHANGED try
     \/ /\ IsAlreadyGone(reply[c])
        /\ Report(c, "gone")
        /\ UNCHANGED try
     \/ /\ reply[c] \in {"noScope", "otherwise"}
        /\ Report(c, "error")
        /\ UNCHANGED try
     \/ /\ reply[c] = "forbidden"
        /\ IF ConfirmsRefusal(kind)
           THEN pc' = [pc EXCEPT ![c] = "confirm"] /\ UNCHANGED report
           ELSE Report(c, "refused")
        /\ UNCHANGED try
  /\ UNCHANGED <<kind, target, remover, rights, wire>>

(* What a target that the confirming read finds gone is reported as.  The  *)
(* mutant reports it as deleted by the call.                               *)
ConfirmedGone_Mutant == "deleted"

ConfirmedGone == "gone"

Confirm(c) ==
  /\ pc[c] = "confirm"
  /\ \E answer \in ReadAnswers(c) :
       Report(c, IF answer \in {"notFound", "tombstone"} THEN ConfirmedGone ELSE "refused")
  /\ UNCHANGED <<kind, target, remover, rights, try, wire, reply>>

-----------------------------------------------------------------------------
(* Google handles a DELETE of caller c.                                    *)
Google(c, t) ==
  /\ t \in wire[c]
  /\ wire' = [wire EXCEPT ![c] = @ \ {t}]
  /\ \E answer \in Answers, lands \in BOOLEAN :
       /\ lands => /\ Left(kind, target) /\ rights[c].may /\ rights[c].scope
                   /\ answer \in {"success", "failed"}
       /\ answer = "success" => lands
       /\ answer = "noScope" => ~rights[c].scope
       /\ answer = "notFound" => ~Left(kind, target) /\ kind # "space"
       /\ answer = "forbidden" => ~Left(kind, target) \/ ~rights[c].may
       /\ remover' = IF lands THEN c ELSE remover
       /\ \E left \in {"tombstone", "absent"} :
            /\ ~Left(kind, left)
            /\ left = "tombstone" => LeavesTombstone(kind)
            /\ target' = IF lands THEN left ELSE target
       /\ reply' = IF pc[c] = "sent" /\ try[c] = t
                   THEN [reply EXCEPT ![c] = answer] ELSE reply
  /\ UNCHANGED <<kind, rights, pc, try, report>>

Next ==
  \/ \E c \in Callers :
       Begin(c) \/ Read(c) \/ Send(c) \/ Stop(c) \/ Break(c) \/ Take(c) \/ Confirm(c)
  \/ \E c \in Callers, t \in Tries : Google(c, t)

Spec == Init /\ [][Next]_vars

-----------------------------------------------------------------------------
(* The target is left until somebody's request removes it, and then that   *)
(* one removed it for good.  What a call saw or reported agrees with it,   *)
(* and only a target whose tombstone counts as gone is read to confirm.    *)
Sees(c) == rights[c].member \/ rights[c].admin

CallInv(c) ==
  /\ reply[c] = "success" \/ report[c] = "deleted" => remover = c
  /\ reply[c] = "notFound" \/ (report[c] = "gone" /\ Sees(c)) => remover # Nobody
  /\ pc[c] = "confirm" => ConfirmsRefusal(kind)

Inv ==
  /\ TypeOK
  /\ remover = Nobody <=> Left(kind, target)
  /\ \A c \in Callers : CallInv(c)

-----------------------------------------------------------------------------
(* A call that can see its target and reports it deleted, or already gone, *)
(* is right: a refusal, a missing scope or an administrator's view of a    *)
(* space is never taken for an absence (deleteIdempotent, IsAlreadyGone,   *)
(* WithAdminAccess).                                                       *)
DoneMeansGone ==
  \A c \in Callers :
    report[c] \in {"deleted", "gone"} /\ Sees(c) => ~Left(kind, target)

(* A call that reports it deleted the target sent the request that did:    *)
(* of several, one at most can say so (deleteIdempotent's first result).   *)
DeletedMeansMine == \A c \in Callers : report[c] = "deleted" => remover = c

(* The tools' "deleted" field as they describe it: false means the call    *)
(* deleted nothing.                                                        *)
GoneMeansNotMine == \A c \in Callers : report[c] = "gone" => remover # c
=============================================================================
