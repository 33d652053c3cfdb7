--------------------------- MODULE ChatCalls ---------------------------
(***************************************************************************)
(* Calls to Google, from the moment a client method of internal/gchat      *)
(* builds its request to the result it returns: the checks of send, the    *)
(* access token, the limiter, the attempts with their backoff, and         *)
(* Google's side of each attempt.                                          *)
(*                                                                         *)
(* Calls run concurrently: the server answers tool calls in parallel and   *)
(* they share the four limiters.  A request that left the process stays on *)
(* the wire until Google handles it, which can be after the client gave up *)
(* on the attempt.                                                         *)
(***************************************************************************)
EXTENDS RequestPolicy, FiniteSets

CONSTANTS
  Calls,       \* the calls made, each with a request of its own
  Shapes,      \* the requests the client methods build
  Modes,       \* the contexts tool calls run under
  MaxRetries,  \* attempts after the first
  Burst        \* the most requests a limiter lets through at once

ASSUME ShapesAssumption == Shapes \subseteq Requests
ASSUME ModesAssumption == Modes \subseteq [dry : BOOLEAN, admin : BOOLEAN]
ASSUME MaxRetriesAssumption == MaxRetries \in Nat
ASSUME BurstAssumption == Burst \in [Limiters -> Nat \ {0}]

VARIABLES
  req,      \* the request of each call
  ctx,      \* its context: a dry run's, an administrator tool's
  pc,       \* where in send the call is
  try,      \* the attempt it is at, from 0
  over,     \* its context is canceled, or past or too near its deadline
  wire,     \* attempts Google has still to handle
  reply,    \* Google's answer to the attempt under way
  applied,  \* how often Google has applied the call's write
  result,   \* what the caller got
  bucket    \* requests each limiter lets through now

vars == <<req, ctx, pc, try, over, wire, reply, applied, result, bucket>>

-----------------------------------------------------------------------------
Tries == 0..MaxRetries

(* The errors of a call that no attempt produced.                          *)
OwnErrors == {"noAdminForm", "writeForbidden", "token", "context", "undecoded"}

Failures == AttemptErrors \cup OwnErrors

Results == [kind : {"none", "ok"}]
             \cup [kind : {"error"}, why : Failures, marked : BOOLEAN]

NoResult == [kind |-> "none"]
Success  == [kind |-> "ok"]
Failed(why, marked) == [kind |-> "error", why |-> why, marked |-> marked]

TypeOK ==
  /\ req \in [Calls -> Shapes]
  /\ ctx \in [Calls -> Modes]
  /\ pc \in [Calls -> {"idle", "token", "limiter", "attempt", "backoff", "done"}]
  /\ try \in [Calls -> Tries]
  /\ over \in [Calls -> BOOLEAN]
  /\ wire \in [Calls -> SUBSET Tries]
  /\ reply \in [Calls -> Statuses \cup {"none"}]
  /\ applied \in [Calls -> Nat]
  /\ result \in [Calls -> Results]
  /\ bucket \in [Limiters -> Nat]

Init ==
  /\ req \in [Calls -> Shapes]
  /\ ctx \in [Calls -> Modes]
  /\ pc = [c \in Calls |-> "idle"]
  /\ try = [c \in Calls |-> 0]
  /\ over = [c \in Calls |-> FALSE]
  /\ wire = [c \in Calls |-> {}]
  /\ reply = [c \in Calls |-> "none"]
  /\ applied = [c \in Calls |-> 0]
  /\ result = [c \in Calls |-> NoResult]
  /\ bucket = Burst

-----------------------------------------------------------------------------
Done(c, r) ==
  /\ pc' = [pc EXCEPT ![c] = "done"]
  /\ result' = [result EXCEPT ![c] = r]

(* send, before the token: an administrator's Chat call needs the form,    *)
(* and a dry run's may not write.                                          *)
Begin(c) ==
  LET lacksForm == IsChat(req[c]) /\ ctx[c].admin /\ ~req[c].adminForm
      forbidden == IsWrite(req[c]) /\ ctx[c].dry
  IN
  /\ pc[c] = "idle"
  /\ \/ /\ lacksForm
        /\ Done(c, Failed("noAdminForm", FALSE))
     \/ /\ ~lacksForm /\ forbidden
        /\ Done(c, Failed("writeForbidden", FALSE))
     \/ /\ ~lacksForm /\ ~forbidden
        /\ pc' = [pc EXCEPT ![c] = "token"]
        /\ UNCHANGED result
  /\ UNCHANGED <<req, ctx, try, over, wire, reply, applied, bucket>>

(* The token is resolved once, and a refusal is terminal.                  *)
Token(c) ==
  /\ pc[c] = "token"
  /\ \/ /\ pc' = [pc EXCEPT ![c] = "limiter"]
        /\ UNCHANGED result
     \/ Done(c, Failed("token", FALSE))
  /\ UNCHANGED <<req, ctx, try, over, wire, reply, applied, bucket>>

(* limiter.Wait lets the call through and the request goes out.            *)
Attempt(c) ==
  LET l == LimiterOf(req[c]) IN
  /\ pc[c] = "limiter"
  /\ ~over[c]
  /\ bucket[l] > 0
  /\ bucket' = [bucket EXCEPT ![l] = @ - 1]
  /\ pc' = [pc EXCEPT ![c] = "attempt"]
  /\ wire' = [wire EXCEPT ![c] = @ \cup {try[c]}]
  /\ reply' = [reply EXCEPT ![c] = "none"]
  /\ UNCHANGED <<req, ctx, try, over, applied, result>>

(* What send does with a failed attempt.                                   *)
AfterFailure(c, e) ==
  IF ShouldRetry(e, req[c]) /\ try[c] < Extra(req[c], MaxRetries)
  THEN /\ pc' = [pc EXCEPT ![c] = "backoff"]
       /\ try' = [try EXCEPT ![c] = @ + 1]
       /\ UNCHANGED result
  ELSE /\ Done(c, Failed(e, MayHaveApplied(e, req[c])))
       /\ UNCHANGED try

(* The attempt fails before anything left: the allowlist refuses the       *)
(* origin, or the dial fails.  The limiter has been passed.                *)
Unsent(c) ==
  LET l == LimiterOf(req[c]) IN
  /\ pc[c] = "limiter"
  /\ ~over[c]
  /\ bucket[l] > 0
  /\ bucket' = [bucket EXCEPT ![l] = @ - 1]
  /\ AfterFailure(c, "unsent")
  /\ UNCHANGED <<req, ctx, over, wire, reply, applied>>

(* limiter.Wait or the backoff's sleep ends with the context's error.      *)
GiveUp(c) ==
  /\ pc[c] \in {"limiter", "backoff"}
  /\ over[c]
  /\ Done(c, Failed("context", FALSE))
  /\ UNCHANGED <<req, ctx, try, over, wire, reply, applied, bucket>>

(* The backoff's timer fires.                                              *)
Wake(c) ==
  /\ pc[c] = "backoff"
  /\ pc' = [pc EXCEPT ![c] = "limiter"]
  /\ UNCHANGED <<req, ctx, try, over, wire, reply, applied, result, bucket>>

(* The connection breaks or its deadline passes: before an answer, or      *)
(* while the body of one is read.                                          *)
Break(c) ==
  /\ pc[c] = "attempt"
  /\ AfterFailure(c, "broken")
  /\ reply' = [reply EXCEPT ![c] = "none"]
  /\ UNCHANGED <<req, ctx, over, wire, applied, bucket>>

(* Google refused or failed the attempt, and the answer was read.          *)
TakeError(c) ==
  /\ pc[c] = "attempt"
  /\ reply[c] \in ApiErrors
  /\ AfterFailure(c, reply[c])
  /\ reply' = [reply EXCEPT ![c] = "none"]
  /\ UNCHANGED <<req, ctx, over, wire, applied, bucket>>

(* A successful answer is read and decoded.                                *)
TakeSuccess(c) ==
  /\ pc[c] = "attempt"
  /\ reply[c] = "success"
  /\ Done(c, Success)
  /\ reply' = [reply EXCEPT ![c] = "none"]
  /\ UNCHANGED <<req, ctx, try, over, wire, applied, bucket>>

(* An answer larger than attempt reads, whatever its status.  An upload's  *)
(* answer is cut at its bound instead, and then does not decode.           *)
TakeOversize(c) ==
  /\ pc[c] = "attempt"
  /\ reply[c] # "none"
  /\ ~req[c].streamed
  /\ AfterFailure(c, "oversize")
  /\ reply' = [reply EXCEPT ![c] = "none"]
  /\ UNCHANGED <<req, ctx, over, wire, applied, bucket>>

(* A successful answer whose JSON does not decode; do returns the decode   *)
(* error as it is, past send.  No delete reads its answer.                 *)
TakeUndecoded(c) ==
  /\ pc[c] = "attempt"
  /\ reply[c] = "success"
  /\ req[c].method # "DELETE"
  /\ Done(c, Failed("undecoded", FALSE))
  /\ reply' = [reply EXCEPT ![c] = "none"]
  /\ UNCHANGED <<req, ctx, try, over, wire, applied, bucket>>

(* The caller cancels, or its deadline is reached.                         *)
ContextEnds(c) ==
  /\ pc[c] \notin {"idle", "done"}
  /\ ~over[c]
  /\ over' = [over EXCEPT ![c] = TRUE]
  /\ UNCHANGED <<req, ctx, pc, try, wire, reply, applied, result, bucket>>

(* A limiter gains a token with time.                                      *)
Refill(l) ==
  /\ bucket[l] < Burst[l]
  /\ bucket' = [bucket EXCEPT ![l] = @ + 1]
  /\ UNCHANGED <<req, ctx, pc, try, over, wire, reply, applied, result>>

-----------------------------------------------------------------------------
(* Google handles attempt t of call c: the write is applied or not, and    *)
(* the answer reaches the client if it is still waiting on this attempt.   *)
(* An answer from 300 to 499 means the write was not applied; after a      *)
(* failure it may or may not have been.  A create carrying a key is        *)
(* applied once and then answers "conflict".                               *)
Google(c, t) ==
  /\ t \in wire[c]
  /\ wire' = [wire EXCEPT ![c] = @ \ {t}]
  /\ \E status \in Statuses, lands \in BOOLEAN :
       /\ lands => IsWrite(req[c]) /\ status \in {"success", "failed"}
       /\ req[c].idempotent /\ applied[c] > 0 => ~lands /\ status # "success"
       /\ status = "success" /\ IsWrite(req[c]) => lands
       /\ applied' = [applied EXCEPT ![c] = IF lands THEN @ + 1 ELSE @]
       /\ reply' = IF pc[c] = "attempt" /\ try[c] = t
                   THEN [reply EXCEPT ![c] = status] ELSE reply
  /\ UNCHANGED <<req, ctx, pc, try, over, result, bucket>>

-----------------------------------------------------------------------------
ClientStep(c) ==
  \/ Begin(c) \/ Token(c) \/ Attempt(c) \/ Unsent(c) \/ GiveUp(c) \/ Wake(c)
  \/ Break(c) \/ TakeError(c) \/ TakeSuccess(c) \/ TakeOversize(c)
  \/ TakeUndecoded(c)

Next ==
  \/ \E c \in Calls : ClientStep(c) \/ ContextEnds(c)
  \/ \E c \in Calls, t \in Tries : Google(c, t)
  \/ \E l \in Limiters : Refill(l)

Spec == Init /\ [][Next]_vars

(* Every attempt ends (http.Client has a timeout), every backoff's timer   *)
(* fires, and limiters refill with time; but nothing here makes the People *)
(* limiter refill.                                                         *)
FairSpec ==
  /\ Spec
  /\ \A c \in Calls : WF_vars(ClientStep(c))
  /\ \A l \in Limiters \ {"people"} : WF_vars(Refill(l))

-----------------------------------------------------------------------------
(* What holds of a create with no key while send runs.  Before an attempt, *)
(* and between attempts, nothing of it is at Google; an attempt under way  *)
(* is the only one on the wire; and once send returned, at most that one   *)
(* is still out, if its connection broke.                                  *)
AttemptInv(c) ==
  \/ reply[c] = "none" /\ wire[c] = {try[c]} /\ applied[c] = 0
  \/ reply[c] = "success" /\ wire[c] = {} /\ applied[c] = 1
  \/ reply[c] = "failed" /\ wire[c] = {} /\ applied[c] \in {0, 1}
  \/ reply[c] \in {"conflict", "refused", "throttled"} /\ wire[c] = {} /\ applied[c] = 0

DoneInv(c) ==
  /\ applied[c] \in {0, 1}
  /\ wire[c] # {} => applied[c] = 0 /\ \E t \in Tries : wire[c] = {t}
  /\ result[c].kind = "ok" => wire[c] = {} /\ applied[c] = 1
  /\ result[c].kind = "error" /\ ~result[c].marked /\ ~req[c].repeatHarmless =>
       /\ wire[c] = {}
       /\ result[c].why \notin {"oversize", "undecoded"} => applied[c] = 0

CallInv(c) ==
  /\ pc[c] = "done" <=> result[c].kind # "none"
  /\ Unrepeatable(req[c]) =>
       /\ pc[c] \in {"idle", "token", "limiter", "backoff"} => wire[c] = {} /\ applied[c] = 0
       /\ pc[c] = "attempt" => AttemptInv(c)
       /\ pc[c] = "done" => DoneInv(c)

Inv == TypeOK /\ \A c \in Calls : CallInv(c)

-----------------------------------------------------------------------------
(* A create with no key is applied at most once, however many attempts the *)
(* client makes and however late Google handles one it gave up on          *)
(* (shouldRetry, turnedAway).                                              *)
AtMostOnce == \A c \in Calls : Unrepeatable(req[c]) => applied[c] <= 1

(* The writes whose report the client answers for: an upload's repeat      *)
(* leaves only a copy nobody refers to, so its failure is not marked.      *)
Answerable(c) == Unrepeatable(req[c]) /\ ~req[c].repeatHarmless

Report(c) ==
  IF result[c].kind # "error" THEN IF result[c].kind = "ok" THEN "ok" ELSE "pending"
  ELSE IF result[c].marked THEN "unconfirmed"
  ELSE IF result[c].why \in {"oversize", "undecoded"} THEN "unread"
  ELSE "failed"

Outcome == INSTANCE WriteOutcome WITH
  Writes  <- Calls,
  effects <- [c \in Calls |-> IF Answerable(c) THEN applied[c] ELSE 0],
  report  <- [c \in Calls |-> IF Answerable(c) THEN Report(c) ELSE "pending"]

(* The reports of such writes keep WriteOutcome's promise: a failure that  *)
(* is not marked MayHaveApplied (markUnsafeWrite, uncertain) was not       *)
(* applied and has nothing left on the wire that could still apply it.     *)
HonestReports == Outcome!Spec

(* The most steps a call still takes: the attempts left to it, of which a  *)
(* streamed request has no second, each with a sleep, a limiter and an     *)
(* answer to wait for.                                                     *)
Left(c) ==
  LET again == (IF req[c].streamed THEN 0 ELSE MaxRetries) - try[c]
      within == [idle |-> 4, token |-> 3, backoff |-> 3, limiter |-> 2, attempt |-> 1]
  IN  IF pc[c] = "done" THEN 0 ELSE 3 * again + within[pc[c]]

(* Whatever Google answers and whatever breaks, every step of a call       *)
(* brings it nearer to its end: no mix of failures keeps send in its loop, *)
(* and the body of an upload, a file read as it goes, is not sent twice    *)
(* (send, retries).                                                        *)
SendRunsDown ==
  [][\A c \in Calls : pc'[c] # pc[c] => Left(c)' \in Nat /\ Left(c)' < Left(c)]_vars

(* A call to another API than People finishes even if the People limiter   *)
(* never lets anything through again: a burst of name lookups does not     *)
(* hold up the message read behind it (limiter, send).                     *)
LookupsDelayNobody ==
  \A c \in Calls : req[c].api # "people" => <>(pc[c] = "done")
=============================================================================
