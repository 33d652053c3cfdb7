----------------------------- MODULE LoginFlow -----------------------------
(***************************************************************************)
(* Login (internal/auth/auth.go): a loopback server waits for the browser  *)
(* to come back.  Any program of the machine can call it too, each request *)
(* is a goroutine of its own, and they hand their outcomes to one channel  *)
(* that holds one: the first to arrive is the login's.                     *)
(***************************************************************************)
EXTENDS Naturals, Sequences

CONSTANTS
  Requests   \* the requests the callback may serve

VARIABLES
  call,   \* where the login is, and the code it exchanges
  world,  \* the query of each request, and where its handler is
  past    \* the requests, in the order their outcomes were handed over

vars == <<call, world, past>>

(* A query carries this login's state or not, and a code, an error or      *)
(* neither.  Ours are those that came through Google's page.               *)
Queries == [ours : BOOLEAN, says : {"code", "error", "nothing"}]
Errors == {"mismatch", "denied", "noCode"}

OutcomeOf_Mutant(q) ==
  CASE q.says = "error" -> "denied"
    [] q.says = "code" -> "code"
    [] OTHER -> IF q.ours THEN "noCode" ELSE "mismatch"

(* The state is compared before anything else is read.                     *)
OutcomeOf(q) ==
  CASE ~q.ours -> "mismatch"
    [] q.ours /\ q.says = "error" -> "denied"
    [] q.ours /\ q.says = "nothing" -> "noCode"
    [] q.ours /\ q.says = "code" -> "code"

Init ==
  /\ world \in [query : [Requests -> Queries],
                handler : {[r \in Requests |-> "none"]}]
  /\ call = [at |-> "waiting", results |-> <<>>, by |-> {}]
  /\ past = [delivered |-> <<>>]

Handler(r, at) == world' = [world EXCEPT !.handler[r] = at]

(* The listener is open until the login has its outcome and shuts it down. *)
Callback(r) ==
  /\ call.at \in {"waiting", "exchange"}
  /\ world.handler[r] = "none"
  /\ Handler(r, "answered")
  /\ UNCHANGED <<call, past>>

Offered_Mutant(results, r) == Append(results, r)

Offered(results, r) == IF results = <<>> THEN <<r>> ELSE results

(* deliver: a full channel takes no second outcome, and no handler waits.  *)
Deliver(r) ==
  /\ world.handler[r] = "answered"
  /\ Handler(r, "ended")
  /\ call' = [call EXCEPT !.results = Offered(@, r)]
  /\ past' = [delivered |-> Append(past.delivered, r)]

Receive ==
  /\ call.at = "waiting" /\ call.results # <<>>
  /\ LET o == OutcomeOf(world.query[Head(call.results)])
     IN call' = [call EXCEPT !.results = <<>>, !.by = {Head(call.results)},
                             !.at = IF o = "code" THEN "exchange" ELSE o]
  /\ UNCHANGED <<world, past>>

TimesOut ==
  /\ call.at = "waiting"
  /\ call' = [call EXCEPT !.at = "timedOut"]
  /\ UNCHANGED <<world, past>>

(* The code is good once, with the verifier of this login, and Google may  *)
(* send no refresh token.                                                  *)
Exchange ==
  /\ call.at = "exchange"
  /\ \E end \in {"signedIn", "failed"} : call' = [call EXCEPT !.at = end]
  /\ UNCHANGED <<world, past>>

Done ==
  /\ call.at \in Errors \cup {"timedOut", "signedIn", "failed"}
  /\ \A r \in Requests : world.handler[r] # "answered"
  /\ UNCHANGED vars

Next ==
  \/ \E r \in Requests : Callback(r) \/ Deliver(r)
  \/ Receive \/ TimesOut \/ Exchange \/ Done

Spec == Init /\ [][Next]_vars

-----------------------------------------------------------------------------
TypeOK ==
  /\ world \in [query : [Requests -> Queries],
                handler : [Requests -> {"none", "answered", "ended"}]]
  /\ call.at \in Errors \cup {"waiting", "exchange", "timedOut", "signedIn", "failed"}
  /\ Len(call.results) <= 1 /\ call.by \subseteq Requests

(* The login is what the first request made of it, and of a request that   *)
(* did not come through this login's page it is only ever a mismatch:      *)
(* nobody else signs it in, or has it told that the person declined.       *)
FirstOutcomeIsTheLogin ==
  /\ \A r \in call.by : r = Head(past.delivered)
  /\ \A r \in call.by : ~world.query[r].ours => call.at = "mismatch"
=============================================================================
