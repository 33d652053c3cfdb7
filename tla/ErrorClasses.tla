---------------------------- MODULE ErrorClasses ----------------------------
(***************************************************************************)
(* What becomes of a failed call: internal/gchat parses Google's answer,   *)
(* internal/auth tells a token that is refused from one that could not be  *)
(* fetched, internal/service gives the failure one of its classes, and the *)
(* place that asked passes it on, explains it or turns it into another.    *)
(* Google says one thing in several ways: by the status, by a reason in    *)
(* the details of the envelope or in its older list, spelled in either of  *)
(* two ways, or by its message alone.                                      *)
(***************************************************************************)
EXTENDS Naturals, Sequences

VARIABLES
  call,   \* where the failure is, who asked, the error, what is told of it
  world,  \* what is wrong, the answer that says so, whether the call is over
  past    \* the request is a create with no key

vars == <<call, world, past>>

Word(w, spelled) == [word |-> w, spelled |-> spelled]
NoWord   == Word("", "camel")
NoCode   == ""
Spelled  == {"snake", "camel"}

ScopeWords    == {"accessTokenScopeInsufficient", "insufficientPermissions"}
QuotaWords    == {"dailyLimitExceeded", "quotaExceeded"}
RateWords     == {"rateLimitExceeded", "userRateLimitExceeded"}
DisabledWords == {"serviceDisabled", "accessNotConfigured"}

(* The lists of reasons, as errors.go spells them.                         *)
scopeReasons == {Word("accessTokenScopeInsufficient", "snake"), Word("insufficientPermissions", "camel")}
quotaReasons == {Word(w, "camel") : w \in QuotaWords}
rateReasons  == {Word(w, "camel") : w \in RateWords}
serviceDisabledReasons == {Word("serviceDisabled", "snake"), Word("accessNotConfigured", "camel")}

(* An answer: its HTTP status, its canonical code, the reasons of its      *)
(* details and of its older list, and whether the message is about scopes. *)
Answer(status, code, details, errors, ofScopes) ==
  [status |-> status, code |-> code, details |-> details, errors |-> errors, ofScopes |-> ofScopes]

Plain(s, code) == {Answer(s, code, <<>>, <<>>, FALSE)}

(* A reason comes in one of the two lists, which may hold others without   *)
(* one before it.                                                          *)
Reasoned(s, code, words) ==
  UNION {{Answer(s, code, <<NoWord, r>>, <<>>, FALSE), Answer(s, code, <<>>, <<r>>, FALSE)} :
           r \in [word : words, spelled : Spelled]}

(* What may be wrong, and the ways Google says it.                         *)
Said ==
  [noScope    |-> Reasoned(403, "PERMISSION_DENIED", ScopeWords)
                    \cup {Answer(403, c, <<>>, <<>>, TRUE) : c \in {NoCode, "PERMISSION_DENIED"}},
   badToken   |-> Plain(401, "UNAUTHENTICATED"),
   notThere   |-> Plain(404, "NOT_FOUND") \cup Plain(404, NoCode),
   denied     |-> Plain(403, "PERMISSION_DENIED") \cup Plain(403, NoCode),
   disabled   |-> Reasoned(403, "PERMISSION_DENIED", DisabledWords),
   quota      |-> Reasoned(403, NoCode, QuotaWords)
                    \cup Reasoned(429, "RESOURCE_EXHAUSTED", QuotaWords),
   rate       |-> Plain(429, "RESOURCE_EXHAUSTED") \cup Reasoned(429, NoCode, RateWords)
                    \cup Reasoned(403, NoCode, RateWords),
   badRequest |-> Plain(400, "INVALID_ARGUMENT"),
   exists     |-> Plain(409, "ALREADY_EXISTS"),
   failing    |-> Plain(500, "INTERNAL") \cup Plain(503, "UNAVAILABLE")]

(* And what keeps Google from answering at all: nobody signed in, or a     *)
(* refresh token that no longer works; a token that could not be fetched;  *)
(* a request that did not go out; a connection that broke after it did.    *)
Unanswered == {"signedOut", "invalidGrant", "tokenFailed", "unsent", "broken"}
Causes == DOMAIN Said \cup Unanswered

NoAnswer == Answer(0, NoCode, <<>>, <<>>, FALSE)
Error == [api |-> FALSE, reauthorize |-> FALSE, uncertain |-> FALSE, status |-> 0,
          code |-> NoCode, reason |-> NoWord, ofScopes |-> FALSE]

(* Who asked: a tool; a read on the way to a write, whose scope covers it; *)
(* a tool that gave Google an address, the adding of a member apart; the   *)
(* vetting of an invitation; a group's lookup by its address or its name;  *)
(* a resource; and the lookup of a group's name as a courtesy.             *)
Askers == {"tool", "witness", "person", "member", "directory", "group", "resource", "courtesy"}

Init ==
  /\ \E c \in Causes : world \in
       [cause : {c}, answer : IF c \in Unanswered THEN {NoAnswer} ELSE Said[c], ended : BOOLEAN]
  /\ call \in [at : {"asked"}, by : Askers, error : {Error}, class : {""},
               scope : {""}, readFirst : {FALSE}, told : {""}, hint : {FALSE}]
  /\ past \in [unrepeatable : BOOLEAN]
  /\ past.unrepeatable => call.by \in {"tool", "person", "member"}

-----------------------------------------------------------------------------
(* errors.go of internal/gchat.                                            *)
sameReason_Mutant(a, b) == a = b

sameReason(a, b) == a.word # "" /\ a.word = b.word

matchesReason(reason, want) == \E w \in want : sameReason(reason, w)

(* The details' first reason, or else the older list's.                    *)
FirstReason(a) ==
  LET words == a.details \o a.errors
      first == {i \in DOMAIN words : words[i].word # "" /\ \A j \in 1..(i - 1) : words[j].word = ""}
  IN IF first = {} THEN NoWord ELSE words[CHOOSE i \in first : TRUE]

parseAPIError(a, unrepeatable) ==
  [Error EXCEPT !.api = TRUE, !.status = a.status, !.code = a.code, !.reason = FirstReason(a),
                !.ofScopes = a.ofScopes, !.uncertain = unrepeatable /\ a.status >= 500]

IsMissingScope(e) ==
  e.api /\ e.status = 403 /\ (matchesReason(e.reason, scopeReasons) \/ e.ofScopes)

IsNotFound(e)        == e.api /\ (e.status = 404 \/ e.code = "NOT_FOUND")
IsAlreadyExists(e)   == e.api /\ (e.status = 409 \/ e.code = "ALREADY_EXISTS")
IsUnauthorized(e)    == e.api /\ e.status = 401
IsQuotaExceeded(e)   == e.api /\ matchesReason(e.reason, quotaReasons)
IsServiceDisabled(e) == e.api /\ e.status = 403 /\ matchesReason(e.reason, serviceDisabledReasons)

IsRateLimited(e) ==
  e.api /\ (e.status = 429 \/ (e.status = 403 /\ matchesReason(e.reason, rateReasons)))

IsForbidden(e) ==
  /\ e.api /\ e.status = 403
  /\ ~(IsMissingScope(e) \/ IsRateLimited(e) \/ IsQuotaExceeded(e) \/ IsServiceDisabled(e))

(* tokensource.go: of the token's failures, only a refused grant is one    *)
(* that signing in again mends.                                            *)
Token(cause) == [Error EXCEPT !.reauthorize = cause \in {"signedOut", "invalidGrant"}]

-----------------------------------------------------------------------------
(* errors.go of internal/service.  The order matters: one 403 is a missing *)
(* scope, a quota, a rate, an API that is off or a refusal.                *)
Classify(e) ==
  IF e.reauthorize THEN "auth"
  ELSE IF ~e.api THEN "unexpected"
  ELSE IF IsMissingScope(e) THEN "scope"
  ELSE IF IsUnauthorized(e) THEN "auth"
  ELSE IF IsNotFound(e) THEN "not_found"
  ELSE IF IsQuotaExceeded(e) THEN "quota"
  ELSE IF IsRateLimited(e) THEN "rate_limited"
  ELSE IF IsServiceDisabled(e) \/ IsForbidden(e) THEN "forbidden"
  ELSE IF e.status >= 500 THEN "server"
  ELSE IF e.status = 400 THEN "invalid"
  ELSE "upstream"

Classes == {"auth", "scope", "not_found", "invalid", "rate_limited", "quota", "forbidden",
            "server", "upstream", "unexpected"}

(* The scope a refusal names: the request's, or on the way to a write the  *)
(* write's.                                                                *)
needsScope(by) == IF by = "witness" THEN "write" ELSE "request"

(* What a failed lookup of the directory may still say for itself.         *)
worthReporting(class) ==
  class \in {"auth", "scope", "rate_limited", "quota", "server", "unexpected"}

(* Whether every further lookup of a group fails the same way: by what     *)
(* Google said, or because the call they are for is over.                  *)
degraded(e, ended) == IsMissingScope(e) \/ IsServiceDisabled(e) \/ IsUnauthorized(e) \/ ended

-----------------------------------------------------------------------------
Fails ==
  /\ call.at = "asked"
  /\ LET e == CASE world.answer # NoAnswer -> parseAPIError(world.answer, past.unrepeatable)
                [] world.cause \in {"unsent", "broken"} ->
                     [Error EXCEPT !.uncertain = past.unrepeatable /\ world.cause = "broken"]
                [] OTHER -> Token(world.cause)
     IN call' = [call EXCEPT !.at = "failed", !.error = e, !.class = Classify(e),
                             !.scope = IF IsMissingScope(e) THEN needsScope(call.by) ELSE "",
                             !.readFirst = e.uncertain]
  /\ UNCHANGED <<world, past>>

Tell(what, hint) == call' = [call EXCEPT !.at = "told", !.told = what, !.hint = hint]

(* tools.go fail: the class leads the text.                                *)
fail ==
  /\ call.at = "failed" /\ call.by \in {"tool", "witness"}
  /\ Tell(call.class, FALSE)
  /\ UNCHANGED <<world, past>>

(* add_member, before directoryHint: somebody who is in already.           *)
alreadyMember ==
  /\ call.at = "failed" /\ call.by = "member"
  /\ IsAlreadyExists(call.error)
  /\ Tell("alreadyMember", FALSE)
  /\ UNCHANGED <<world, past>>

(* The failure keeps its class and its text, and for some classes is       *)
(* followed by the advice to check the address.                            *)
directoryHint ==
  /\ call.at = "failed"
  /\ call.by = "person" \/ (call.by = "member" /\ ~IsAlreadyExists(call.error))
  /\ Tell(call.class, call.class \notin {"auth", "scope", "rate_limited"})
  /\ UNCHANGED <<world, past>>

refuseOutsider ==
  /\ call.at = "failed" /\ call.by = "directory"
  /\ Tell(IF worthReporting(call.class) THEN call.class ELSE "blocked", FALSE)
  /\ UNCHANGED <<world, past>>

(* FindGroup and checkGroup: a refusal is explained, for a group only its  *)
(* own members can see is answered like one that does not exist.           *)
FindGroup ==
  /\ call.at = "failed" /\ call.by = "group"
  /\ Tell(IF IsForbidden(call.error) \/ IsNotFound(call.error) THEN "notVisible" ELSE call.class, FALSE)
  /\ UNCHANGED <<world, past>>

resourceError ==
  /\ call.at = "failed" /\ call.by = "resource"
  /\ Tell(IF call.class \in {"not_found", "invalid"} THEN "resourceNotFound" ELSE call.class, FALSE)
  /\ UNCHANGED <<world, past>>

resolveGroups ==
  /\ call.at = "failed" /\ call.by = "courtesy"
  /\ Tell(IF degraded(call.error, world.ended) THEN "stop" ELSE "next", FALSE)
  /\ UNCHANGED <<world, past>>

Done == call.at = "told" /\ UNCHANGED vars

Next ==
  \/ Fails \/ fail \/ alreadyMember \/ directoryHint \/ refuseOutsider \/ FindGroup
  \/ resourceError \/ resolveGroups \/ Done

Spec == Init /\ [][Next]_vars

-----------------------------------------------------------------------------
TypeOK ==
  /\ call.at \in {"asked", "failed", "told"} /\ call.by \in Askers
  /\ call.class \in Classes \cup {""} /\ call.readFirst \in BOOLEAN /\ call.hint \in BOOLEAN
  /\ call.scope \in {"", "request", "write"} /\ world.cause \in Causes /\ world.ended \in BOOLEAN

SignInHelps == {"signedOut", "invalidGrant", "badToken", "noScope"}
Temporary   == {"rate", "quota", "failing", "tokenFailed", "unsent", "broken"}

(* The refusals of the request itself, as of an address Google cannot      *)
(* place.                                                                  *)
Refusals == {"notThere", "badRequest", "denied"}

(* However Google words it, the agent is told to sign in exactly when that *)
(* helps, naming the scope that lets the whole call through; to wait for a *)
(* rate and not for a quota; and to read first exactly when a create may   *)
(* be there.  It is told to check an address whenever Google refused the   *)
(* request, never when signing in or waiting helps, and never of somebody  *)
(* who is a member already, which add_member says instead; of the other    *)
(* causes nothing is said, and directoryHint adds the advice to them too.  *)
(* A directory that could answer later is reported, and one that will not  *)
(* vouches for nobody.  A group read as not visible was refused or is not  *)
(* there.  A resource is reported as not there exactly when it is not,     *)
(* bad requests apart, which resourceError reports as not there as well.   *)
(* Courtesies stop when the next would fail the same way.                  *)
AdviceFitsTheCause ==
  call.at = "told" =>
    LET c == world.cause IN
    /\ call.class \in {"auth", "scope"} <=> c \in SignInHelps
    /\ call.scope = (IF c # "noScope" THEN "" ELSE IF call.by = "witness" THEN "write" ELSE "request")
    /\ call.class = "rate_limited" <=> c = "rate"
    /\ call.class = "quota" <=> c = "quota"
    /\ call.class = "forbidden" <=> c \in {"denied", "disabled"}
    /\ call.class = "server" <=> c = "failing"
    /\ call.readFirst <=> past.unrepeatable /\ c \in {"failing", "broken"}
    /\ call.hint => call.by \in {"person", "member"} /\ c \notin SignInHelps \cup {"rate"}
    /\ call.by \in {"person", "member"} /\ c \in Refusals => call.hint
    /\ call.told = "alreadyMember" <=> call.by = "member" /\ c = "exists"
    /\ call.told = "alreadyMember" => ~call.hint
    /\ call.by = "directory" => (call.told = "blocked" <=> c \notin SignInHelps \cup Temporary)
    /\ call.by = "group" => (call.told = "notVisible" <=> c \in {"denied", "notThere"})
    /\ call.by = "resource" /\ c # "badRequest" => (call.told = "resourceNotFound" <=> c = "notThere")
    /\ call.by = "courtesy" =>
         (call.told = "stop" <=> c \in {"noScope", "badToken", "disabled"} \/ world.ended)
=============================================================================
