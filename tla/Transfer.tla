---------------------------- MODULE Transfer -----------------------------
(***************************************************************************)
(* One streamed transfer of internal/gchat, an upload or a download: the   *)
(* deadline while Google is awaited, the stall guard while bytes move, and *)
(* how the two hand over (transfer, stallGuard).                           *)
(*                                                                         *)
(* Time passes in ticks, and a deadline is Limit of them.  A timer's       *)
(* callback runs on a goroutine of its own, some time after the timer      *)
(* fires.  Reading the local file takes no time, so the guard of a request *)
(* body is stopped again before it can fire and is not a variable.  The    *)
(* caller's own context is taken not to end.                               *)
(***************************************************************************)
EXTENDS Naturals

CONSTANTS
  Directions,  \* "upload", "download"
  Answers,     \* "success", "error": a status of 300 and up
  Chunks,      \* the pieces of the file
  Limit        \* the client's timeout

ASSUME DirectionsAssumption == Directions \subseteq {"upload", "download"}
ASSUME AnswersAssumption == Answers \subseteq {"success", "error"}
ASSUME ChunksAssumption == Chunks \in Nat
ASSUME LimitAssumption == Limit \in Nat \ {0}

VARIABLES
  direction,
  request,   \* the request body: what the transport does with it
  unsent,    \* pieces of it not yet read from the file
  written,   \* Google took the piece in transit
  answer,    \* the headers of Google's answer
  answered,  \* the flag transfer sets once it has them
  unread,    \* pieces of the answer's body still to come
  reading,   \* a Read of it is outstanding
  waiting,   \* ticks left on the deadline for Google, 0 when stopped
  guard,     \* ticks left on the answer body's guard, 0 when stopped
  fired,     \* timers whose callback has still to run
  canceled,  \* the transfer's context
  quiet,     \* ticks without what is awaited moving: the upload and its
             \* answer first, then the answer's body
  gap,       \* quiet reached Limit, since the answer if there is one
  result     \* how the transfer ended

vars == <<direction, request, unsent, written, answer, answered, unread, reading,
          waiting, guard, fired, canceled, quiet, gap, result>>

body   == <<request, unsent, written>>
reply  == <<answer, answered, unread, reading>>
timers == <<waiting, guard, fired, canceled>>

TypeOK ==
  /\ direction \in Directions
  /\ request \in {"absent", "unread", "writing", "done"}
  /\ unsent \in 0..Chunks
  /\ written \in BOOLEAN
  /\ answer \in Answers \cup {"none"}
  /\ answered \in BOOLEAN
  /\ unread \in 0..Chunks + 1
  /\ reading \in BOOLEAN
  /\ waiting \in 0..Limit
  /\ guard \in 0..Limit
  /\ fired \subseteq {"waiting", "guard"}
  /\ canceled \in BOOLEAN
  /\ quiet \in 0..Limit
  /\ gap \in BOOLEAN
  /\ result \in {"none", "whole", "failed"}

(* transfer starts the deadline before it builds the request.              *)
Init ==
  /\ direction \in Directions
  /\ request = IF direction = "upload" THEN "unread" ELSE "absent"
  /\ unsent = Chunks
  /\ written = TRUE
  /\ answer = "none"
  /\ answered = FALSE
  /\ unread = IF direction = "upload" THEN 1 ELSE Chunks + 1
  /\ reading = FALSE
  /\ waiting = Limit
  /\ guard = 0
  /\ fired = {}
  /\ canceled = FALSE
  /\ quiet = 0
  /\ gap = FALSE
  /\ result = "none"

Running == result = "none"

-----------------------------------------------------------------------------
(* The request body.  The transport reads it once connected, and the first *)
(* read stops the deadline; between reads it writes to the connection.     *)
Connect ==
  /\ Running /\ request = "unread" /\ ~canceled
  /\ request' = "writing"
  /\ waiting' = 0
  /\ quiet' = 0
  /\ UNCHANGED <<direction, unsent, written, reply, guard, fired, canceled, gap, result>>

HasMore_Mutant == unsent >= 0

HasMore == unsent > 0

Fill ==
  /\ Running /\ request = "writing" /\ written /\ ~canceled
  /\ HasMore
  /\ unsent' = unsent - 1
  /\ written' = FALSE
  /\ UNCHANGED <<direction, request, reply, timers, quiet, gap, result>>

(* Google takes what is in transit.                                        *)
Drain ==
  /\ Running /\ request = "writing" /\ ~written /\ ~canceled
  /\ written' = TRUE
  /\ quiet' = IF answered THEN quiet ELSE 0
  /\ UNCHANGED <<direction, request, unsent, reply, timers, gap, result>>

(* The read that ends the body hands the deadline back, even after an      *)
(* answer that came before the body was sent.  The mutant does not.        *)
HandBack_Mutant == waiting

HandBack == Limit

EndOfBody ==
  /\ Running /\ request = "writing" /\ written /\ ~canceled
  /\ unsent = 0
  /\ request' = "done"
  /\ waiting' = HandBack
  /\ quiet' = IF answered THEN quiet ELSE 0
  /\ UNCHANGED <<direction, unsent, written, reply, guard, fired, canceled, gap, result>>

-----------------------------------------------------------------------------
(* The headers of an answer come in, for an upload possibly early.         *)
Answer ==
  /\ Running /\ answer = "none" /\ request # "unread" /\ ~canceled
  /\ answer' \in Answers
  /\ UNCHANGED <<direction, body, answered, unread, reading, timers, quiet, gap, result>>

(* Do has returned, and transfer sets the flag and stops the deadline.     *)
Arrived ==
  /\ Running /\ answer # "none" /\ ~answered
  /\ answered' = TRUE
  /\ waiting' = 0
  /\ quiet' = 0
  /\ gap' = FALSE
  /\ UNCHANGED <<direction, body, answer, unread, reading, guard, fired, canceled, result>>

(* Do returns an error: the context was canceled or the connection broke.  *)
DoFails ==
  /\ Running /\ ~answered
  /\ answered' = TRUE
  /\ waiting' = 0
  /\ result' = "failed"
  /\ UNCHANGED <<direction, body, answer, unread, reading, guard, fired, canceled, quiet, gap>>

(* The body of an error is read with no deadline, and its failure ignored. *)
TakeError ==
  /\ Running /\ answered /\ answer = "error"
  /\ result' = "failed"
  /\ UNCHANGED <<direction, body, reply, timers, quiet, gap>>

(* The caller asks for bytes: the guard's clock starts with the Read.      *)
Ask ==
  /\ Running /\ answered /\ answer = "success" /\ ~reading
  /\ reading' = TRUE
  /\ guard' = Limit
  /\ quiet' = 0
  /\ UNCHANGED <<direction, body, answer, answered, unread, waiting, fired, canceled, gap, result>>

(* The Read returns, and the guard's clock stops while the caller is busy  *)
(* with the bytes.                                                         *)
Receive ==
  /\ Running /\ reading /\ ~canceled
  /\ reading' = FALSE
  /\ guard' = 0
  /\ quiet' = 0
  /\ unread' = unread - 1
  /\ result' = IF unread = 1 THEN "whole" ELSE result
  /\ UNCHANGED <<direction, body, answer, answered, waiting, fired, canceled, gap>>

(* The Read fails: the context was canceled or the connection broke.       *)
ReadFails ==
  /\ Running /\ reading
  /\ reading' = FALSE
  /\ guard' = 0
  /\ result' = "failed"
  /\ UNCHANGED <<direction, body, answer, answered, unread, waiting, fired, canceled, quiet, gap>>

-----------------------------------------------------------------------------
(* The deadline's callback takes the mutex and looks at the flag first.    *)
(* The mutant cancels whatever the flag says.                              *)
Cut_Mutant == TRUE

Cut == ~answered

WaitingFires ==
  /\ "waiting" \in fired
  /\ fired' = fired \ {"waiting"}
  /\ canceled' = (canceled \/ Cut)
  /\ UNCHANGED <<direction, body, reply, waiting, guard, quiet, gap, result>>

GuardFires ==
  /\ "guard" \in fired
  /\ fired' = fired \ {"guard"}
  /\ canceled' = TRUE
  /\ UNCHANGED <<direction, body, reply, waiting, guard, quiet, gap, result>>

(* Google is awaited: until transfer has its answer, then for its body.    *)
Awaited == ~answered \/ reading \/ answer = "error"

Tick ==
  /\ Running
  /\ waiting' = IF waiting = 0 THEN 0 ELSE waiting - 1
  /\ guard' = IF guard = 0 THEN 0 ELSE guard - 1
  /\ fired' = fired \cup (IF waiting = 1 THEN {"waiting"} ELSE {})
                    \cup (IF guard = 1 THEN {"guard"} ELSE {})
  /\ quiet' = IF Awaited /\ quiet < Limit THEN quiet + 1 ELSE quiet
  /\ gap' = (gap \/ quiet' = Limit)
  /\ UNCHANGED <<direction, body, reply, canceled, result>>

Next ==
  \/ Connect \/ Fill \/ Drain \/ EndOfBody \/ Answer \/ Arrived \/ DoFails
  \/ TakeError \/ Ask \/ Receive \/ ReadFails \/ WaitingFires \/ GuardFires \/ Tick

Spec == Init /\ [][Next]_vars

(* Time passes, callbacks and the client's own steps run, and a canceled   *)
(* context ends what waits on it.  Google owes nothing: Connect, Drain,    *)
(* Answer, Receive and the reading of an error may never happen.           *)
FairSpec ==
  /\ Spec
  /\ WF_vars(Tick)
  /\ WF_vars(WaitingFires) /\ WF_vars(GuardFires)
  /\ WF_vars(Fill) /\ WF_vars(EndOfBody) /\ WF_vars(Arrived) /\ WF_vars(Ask)
  /\ WF_vars(canceled /\ (DoFails \/ ReadFails \/ TakeError))

-----------------------------------------------------------------------------
(* A transfer that is merely slow is not cut: only one that kept this side *)
(* waiting for a whole Limit is canceled, and a deadline that ran out just *)
(* before the answer never cancels the transfer after it (transfer's       *)
(* answered, stallGuard).  The time the caller takes between Reads does    *)
(* not count.                                                              *)
SlowIsNotCut == [][~canceled /\ canceled' => gap']_vars

(* No wait on a silent Google is left without a timer that ends it in      *)
(* time, whichever of the two hand-overs came last: before the request     *)
(* body moves, after its last byte and in the body of an answer, a timer   *)
(* runs that has no more ticks left than Limit allows, or one has gone off *)
(* and its callback is due (transfer, stallGuard).                         *)
SilenceIsTimed ==
  Running /\ ~canceled =>
    /\ ~answered /\ request # "writing" =>
         "waiting" \in fired \/ (waiting > 0 /\ waiting + quiet <= Limit)
    /\ reading => "guard" \in fired \/ (guard > 0 /\ guard + quiet <= Limit)

(* Whoever waits on a silent Google does not wait forever: before the      *)
(* request body moves, after its last byte, and in the body of a           *)
(* successful answer.                                                      *)
SilenceIsCut ==
  request # "writing" /\ answer # "error" ~>
    ~Running \/ request = "writing" \/ answer = "error"

(* transfer's comment: a connection that stops sending or stops reading is *)
(* still cut.                                                              *)
StalledTransferIsCut == <>~Running
=============================================================================
