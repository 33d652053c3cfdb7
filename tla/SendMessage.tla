--------------------------- MODULE SendMessage ---------------------------
(***************************************************************************)
(* send_message, from the agent that calls the tool to the messages in the *)
(* space: the id a message is created with, the retries that reuse it, the *)
(* read-back of a message that is already there, and the failure that      *)
(* tells the agent which id to repeat with.                                *)
(*                                                                         *)
(* The agent wants each text in the space once.  It sends a text in Keyed  *)
(* with a client_message_id of its own, as often and as concurrently as it *)
(* likes; any other text it sends without one, and sends it again only     *)
(* with the id a failure named.  A text's own key is written as the text,  *)
(* and the id minted in a call as the call.                                *)
(***************************************************************************)
EXTENDS RequestPolicy, FiniteSets

CONSTANTS
  Sends,      \* the calls of the tool
  Texts,      \* the texts the agent wants posted
  Keyed,      \* those it sends with a key of its own
  MaxRetries  \* attempts after the first

NoText == "no text"
NoId   == "no id"

ASSUME KeyedAssumption == Keyed \subseteq Texts
ASSUME IdsAssumption == Sends \cap Texts = {}
ASSUME NoneAssumption == NoText \notin Texts /\ NoId \notin Sends \cup Texts
ASSUME RetriesAssumption == MaxRetries \in Nat

VARIABLES
  text,     \* what each call posts, once begun
  id,       \* the message id it posts with
  pc,       \* where it is
  try,      \* the attempt it is at, from 0
  wire,     \* attempts Google has still to handle
  reply,    \* Google's answer to the attempt under way
  posted,   \* the text of the message created with each id
  told      \* what the agent was told of each call

vars == <<text, id, pc, try, wire, reply, posted, told>>

-----------------------------------------------------------------------------
Tries == 0..MaxRetries
Ids   == Sends \cup Texts

(* "named" is a failure that says the message may have been posted and     *)
(* gives the id to repeat with, "unnamed" one that does not.               *)
Tellings == {"nothing", "ok", "named", "unnamed", "canceled"}

(* An attempt carries its id itself: Google has no other way to know it.   *)
Attempts == [send : Sends, try : Tries, id : Ids]

TypeOK ==
  /\ text \in [Sends -> Texts \cup {NoText}]
  /\ id \in [Sends -> Ids \cup {NoId}]
  /\ pc \in [Sends -> {"idle", "checks", "post", "posting", "read", "done"}]
  /\ try \in [Sends -> Tries]
  /\ wire \subseteq Attempts
  /\ reply \in [Sends -> Statuses \cup {"none"}]
  /\ posted \in [Ids -> Texts \cup {NoText}]
  /\ told \in [Sends -> Tellings]

Init ==
  /\ text = [s \in Sends |-> NoText]
  /\ id = [s \in Sends |-> NoId]
  /\ pc = [s \in Sends |-> "idle"]
  /\ try = [s \in Sends |-> 0]
  /\ wire = {}
  /\ reply = [s \in Sends |-> "none"]
  /\ posted = [i \in Ids |-> NoText]
  /\ told = [s \in Sends |-> "nothing"]

-----------------------------------------------------------------------------
SendRequest ==
  [method |-> "POST", api |-> "chat", readOnly |-> FALSE, idempotent |-> TRUE,
   repeatHarmless |-> FALSE, adminForm |-> FALSE, streamed |-> FALSE]

(* rand.Text is taken to be fresh.                                         *)
NewMessageID(s) == s

(* The id an attempt is sent with.  The mutant mints one per attempt.      *)
AttemptId_Mutant(s) ==
  IF try[s] = 0 THEN id[s] ELSE CHOOSE r \in Sends : r # id[s]

AttemptId(s) == id[s]

(* sendFailure gives the id for a server failure and for one that is not   *)
(* an answer of Google's; refusals and rate limits go out as they are.     *)
SendFailure(why) ==
  IF why = "canceled" THEN "canceled"
  ELSE IF why \in {"failed", "unsent", "broken", "oversize", "undecoded", "deadline"}
       THEN "named"
       ELSE "unnamed"

Tell(s, what) ==
  /\ pc' = [pc EXCEPT ![s] = "done"]
  /\ told' = [told EXCEPT ![s] = what]

-----------------------------------------------------------------------------
(* The agent calls the tool.                                               *)
Call(s, t) ==
  LET earlier == {r \in Sends : text[r] = t}
      named   == {r \in earlier : told[r] = "named"}
  IN
  /\ pc[s] = "idle"
  /\ text' = [text EXCEPT ![s] = t]
  /\ IF t \in Keyed THEN id' = [id EXCEPT ![s] = t]
     ELSE IF earlier = {} THEN id' = [id EXCEPT ![s] = NewMessageID(s)]
     ELSE /\ \A r \in earlier : pc[r] = "done" /\ told[r] # "ok"
          /\ \E r \in named : id' = [id EXCEPT ![s] = id[r]]
  /\ pc' = [pc EXCEPT ![s] = "checks"]
  /\ UNCHANGED <<try, wire, reply, posted, told>>

(* The arguments, the named space, the quoted message and the token are    *)
(* checked before anything is sent; each can end the call.                 *)
Check(s) ==
  /\ pc[s] = "checks"
  /\ \/ /\ pc' = [pc EXCEPT ![s] = "post"]
        /\ UNCHANGED told
     \/ \E what \in {"unnamed", "named", "canceled"} : Tell(s, what)
  /\ UNCHANGED <<text, id, try, wire, reply, posted>>

Post(s) ==
  /\ pc[s] = "post"
  /\ pc' = [pc EXCEPT ![s] = "posting"]
  /\ wire' = wire \cup {[send |-> s, try |-> try[s], id |-> AttemptId(s)]}
  /\ UNCHANGED <<text, id, try, reply, posted, told>>

(* send's choice after a failed attempt.                                   *)
AfterFailure(s, e) ==
  IF ShouldRetry(e, SendRequest) /\ try[s] < Extra(SendRequest, MaxRetries)
  THEN /\ pc' = [pc EXCEPT ![s] = "post"]
       /\ try' = [try EXCEPT ![s] = @ + 1]
       /\ UNCHANGED told
  ELSE /\ Tell(s, SendFailure(e))
       /\ UNCHANGED try

Unsent(s) ==
  /\ pc[s] = "post"
  /\ AfterFailure(s, "unsent")
  /\ UNCHANGED <<text, id, wire, reply, posted>>

(* The context ends while the call waits to send.                          *)
GiveUp(s) ==
  /\ pc[s] = "post"
  /\ \E why \in {"canceled", "deadline"} : Tell(s, SendFailure(why))
  /\ UNCHANGED <<text, id, try, wire, reply, posted>>

(* The connection breaks, or what came back is too large.                  *)
Lose(s) ==
  /\ pc[s] = "posting"
  /\ \E e \in {"broken", "oversize"} :
       /\ e = "oversize" => reply[s] # "none"
       /\ AfterFailure(s, e)
  /\ reply' = [reply EXCEPT ![s] = "none"]
  /\ UNCHANGED <<text, id, wire, posted>>

(* An answer: success, unless it does not decode; "conflict" starts the    *)
(* read-back; the rest are failures.                                       *)
Take(s) ==
  /\ pc[s] = "posting"
  /\ reply[s] # "none"
  /\ reply' = [reply EXCEPT ![s] = "none"]
  /\ \/ /\ reply[s] = "success"
        /\ Tell(s, "ok") \/ Tell(s, SendFailure("undecoded"))
        /\ UNCHANGED try
     \/ /\ reply[s] = "conflict"
        /\ pc' = [pc EXCEPT ![s] = "read"]
        /\ UNCHANGED <<try, told>>
     \/ /\ reply[s] \notin {"success", "conflict"}
        /\ AfterFailure(s, reply[s])
  /\ UNCHANGED <<text, id, wire, posted>>

(* GetMessage reads back the message created under the id, retries of its  *)
(* own included.  Its failure is the failure of the call.  A message that  *)
(* was deleted meanwhile is read as what is left of it, or not found.      *)
ReadBack(s) ==
  /\ pc[s] = "read"
  /\ \/ Tell(s, "ok")
     \/ \E why \in ApiErrors \cup {"broken", "token", "canceled", "deadline", "undecoded"} :
          Tell(s, SendFailure(why))
  /\ UNCHANGED <<text, id, try, wire, reply, posted>>

(* Google handles an attempt.  An id is taken for good once a message was  *)
(* created with it, a deletion included, which is no action of its own:    *)
(* posted is what was created, and a read-back may fail in any case.       *)
Google(a) ==
  /\ a \in wire
  /\ wire' = wire \ {a}
  /\ \E status \in Statuses, lands \in BOOLEAN :
       /\ lands => posted[a.id] = NoText /\ status \in {"success", "failed"}
       /\ status = "success" => lands
       /\ status = "conflict" => posted[a.id] # NoText
       /\ posted' = IF lands THEN [posted EXCEPT ![a.id] = text[a.send]] ELSE posted
       /\ reply' = IF pc[a.send] = "posting" /\ try[a.send] = a.try
                   THEN [reply EXCEPT ![a.send] = status] ELSE reply
  /\ UNCHANGED <<text, id, pc, try, told>>

-----------------------------------------------------------------------------
Next ==
  \/ \E s \in Sends, t \in Texts : Call(s, t)
  \/ \E s \in Sends :
       Check(s) \/ Post(s) \/ Unsent(s) \/ GiveUp(s) \/ Lose(s) \/ Take(s) \/ ReadBack(s)
  \/ \E a \in wire : Google(a)

Spec == Init /\ [][Next]_vars

-----------------------------------------------------------------------------
(* An id stands for one text: its own, if it is a key, and otherwise that  *)
(* of the call that minted it.  The calls of a text agree on its id, and   *)
(* so do their attempts and what was posted.                               *)
Begun(s) == text[s] # NoText

IdInv(s) ==
  Begun(s) => IF text[s] \in Keyed THEN id[s] = text[s]
              ELSE id[s] \in Sends /\ text[id[s]] = text[s]

PhaseInv(s) == (pc[s] # "idle" <=> Begun(s)) /\ (reply[s] # "none" \/ told[s] # "nothing" => Begun(s))

Agree == \A r, s \in Sends : Begun(s) /\ text[r] = text[s] => id[r] = id[s]

WireInv == \A a \in wire : a.id = id[a.send] /\ Begun(a.send)

PostedInv == \A i \in Ids : posted[i] # NoText => \E s \in Sends : id[s] = i /\ text[s] = posted[i]

(* What a call saw of its id is its own text.                              *)
SeenInv(s) ==
  reply[s] \in {"success", "conflict"} \/ pc[s] = "read" \/ told[s] = "ok" =>
    posted[id[s]] = text[s]

Inv ==
  /\ TypeOK
  /\ Agree /\ WireInv /\ PostedInv
  /\ \A s \in Sends : IdInv(s) /\ PhaseInv(s) /\ SeenInv(s)

-----------------------------------------------------------------------------
(* Nobody finds the same text twice in the space, whatever was lost,       *)
(* retried or sent again: one id per logical send (NewMessageID), and the  *)
(* same id in the failure the agent repeats from (sendFailure).            *)
OneCopy == \A i, j \in Ids : posted[i] # NoText /\ posted[i] = posted[j] => i = j

(* A send reported as done posted its own text, even when all the client   *)
(* saw was that the id was taken (SendMessage's read-back).                *)
SuccessIsPosted == \A s \in Sends : told[s] = "ok" => posted[id[s]] = text[s]

(* sendFailure's comment: when the message may have been posted, the error *)
(* says so and gives the id.  A canceled call's caller reads no error.     *)
PostedFailureIsNamed ==
  \A s \in Sends : told[s] = "unnamed" /\ text[s] \notin Keyed => posted[id[s]] = NoText
=============================================================================
