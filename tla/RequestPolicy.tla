------------------------- MODULE RequestPolicy -------------------------
(***************************************************************************)
(* The rules internal/gchat derives from a request and from the way one    *)
(* attempt of it failed: whether it writes, which limiter meters it,       *)
(* whether a second attempt is allowed, and whether the failure handed to  *)
(* the caller says that the write may have been applied.  A definition     *)
(* named X_Mutant is X with a bug a change could bring in; nothing uses it *)
(* but the runs that show a property notices the bug.                      *)
(*                                                                         *)
(* A request is the record the rules read; its name, query, body and       *)
(* scope are left out.  streamed stands for the argument retries = false   *)
(* of send, which only doUpload passes.                                    *)
(***************************************************************************)
EXTENDS Naturals

Methods == {"GET", "POST", "PATCH", "PUT", "DELETE"}
Apis    == {"chat", "upload", "people", "identity", "oidc"}

Requests == [method : Methods, api : Apis, readOnly : BOOLEAN,
             idempotent : BOOLEAN, repeatHarmless : BOOLEAN,
             adminForm : BOOLEAN, streamed : BOOLEAN]

(* How Google answers one attempt.  "conflict" is 409 ALREADY_EXISTS,      *)
(* "refused" every other answer from 300 to 499, "throttled" 429 and       *)
(* "failed" 500 and up.                                                    *)
Statuses == {"success", "conflict", "refused", "throttled", "failed"}

ApiErrors == Statuses \ {"success"}

(* How one attempt fails: the answers that are an APIError, and the        *)
(* failures that are not.  "unsent" never reached Google (the host         *)
(* allowlist refused it, or the dial failed), "broken" lost the connection *)
(* or the body after that, "oversize" is a body above maxResponseBytes.    *)
AttemptErrors == ApiErrors \cup {"unsent", "broken", "oversize"}

IsChat(r) == r.api \in {"chat", "upload"}

IsWrite(r) == r.method # "GET" /\ ~r.readOnly

SafeToRepeat(r) == r.method # "POST" \/ r.idempotent \/ r.readOnly

Limiters == {"write", "people", "groups", "read"}

LimiterOf_Mutant(r) ==
  IF IsWrite(r) THEN "write"
  ELSE IF r.api = "identity" THEN "groups"
  ELSE "people"

LimiterOf(r) ==
  IF IsWrite(r) THEN "write"
  ELSE IF r.api = "people" THEN "people"
  ELSE IF r.api = "identity" THEN "groups"
  ELSE "read"

Retryable(e) == e \in {"throttled", "failed"}

TurnedAway_Mutant(e) == e \in {"throttled", "failed"}

TurnedAway(e) == e = "throttled"

ShouldRetry(e, r) ==
  IF e \in ApiErrors
  THEN IF SafeToRepeat(r) THEN Retryable(e) ELSE TurnedAway(e)
  ELSE SafeToRepeat(r)

MayHaveApplied_Mutant(e, r) ==
  /\ ~SafeToRepeat(r)
  /\ ~r.repeatHarmless
  /\ e = "failed"

(* uncertain marks a transport failure where it happens, markUnsafeWrite a *)
(* server failure on its way out; neither marks a write whose repeat is    *)
(* safe or harmless.                                                       *)
MayHaveApplied(e, r) ==
  /\ ~SafeToRepeat(r)
  /\ ~r.repeatHarmless
  /\ e \in {"failed", "broken"}

(* The attempts a request may make after its first.                        *)
Extra_Mutant(r, maxRetries) == IF r.streamed THEN 0 ELSE maxRetries + 1

Extra(r, maxRetries) == IF r.streamed THEN 0 ELSE maxRetries

(* A create with no client-chosen key: the only writes a second attempt    *)
(* would apply twice.                                                      *)
Unrepeatable(r) == IsWrite(r) /\ ~SafeToRepeat(r)
=============================================================================
