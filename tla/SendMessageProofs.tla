----------------------- MODULE SendMessageProofs -----------------------
(***************************************************************************)
(* Proofs about SendMessage, for any number of calls, texts, keys and      *)
(* retries: one copy of each text, and success only for what was posted.   *)
(***************************************************************************)
EXTENDS SendMessage, TLAPS

USE KeyedAssumption, IdsAssumption, NoneAssumption, RetriesAssumption
USE DEF Tries, Ids

(* Telling the agent something keeps the types.                            *)
LEMMA TellType ==
  ASSUME TypeOK, NEW s \in Sends, NEW what \in Tellings, Tell(s, what)
  PROVE  /\ pc' \in [Sends -> {"idle", "checks", "post", "posting", "read", "done"}]
         /\ told' \in [Sends -> Tellings]
  BY DEF TypeOK, Tell

(* What sendFailure tells is one of the tellings.                          *)
LEMMA SendFailureType == \A why : SendFailure(why) \in Tellings
  BY DEF SendFailure, Tellings

(* A failed attempt is retried within MaxRetries, or ends the call.        *)
LEMMA AfterFailureType ==
  ASSUME TypeOK, NEW s \in Sends, NEW e, AfterFailure(s, e)
  PROVE  /\ pc' \in [Sends -> {"idle", "checks", "post", "posting", "read", "done"}]
         /\ told' \in [Sends -> Tellings]
         /\ try' \in [Sends -> Tries]
<1>1. CASE ShouldRetry(e, SendRequest) /\ try[s] < Extra(SendRequest, MaxRetries)
  <2>1. try[s] + 1 \in Tries
    BY <1>1 DEF TypeOK, Extra, SendRequest
  <2>2. QED
    BY <1>1, <2>1 DEF TypeOK, AfterFailure
<1>2. CASE ~(ShouldRetry(e, SendRequest) /\ try[s] < Extra(SendRequest, MaxRetries))
  BY <1>2, TellType, SendFailureType DEF TypeOK, AfterFailure
<1>3. QED
  BY <1>1, <1>2

(* A call that has begun has an id.                                        *)
LEMMA BegunHasId ==
  ASSUME Inv, NEW s \in Sends, Begun(s)
  PROVE  id[s] \in Ids
  BY DEF Inv, TypeOK, IdInv, Begun

(* Every step of the agent, a call and Google keeps the types.             *)
LEMMA TypeStep == Inv /\ [Next]_vars => TypeOK'
<1> SUFFICES ASSUME Inv, [Next]_vars PROVE TypeOK'
  OBVIOUS
<1> TypeOK
  BY DEF Inv
<1>1. ASSUME NEW s \in Sends, NEW t \in Texts, Call(s, t) PROVE TypeOK'
  <2>1. id' \in [Sends -> Ids \cup {NoId}]
    BY <1>1 DEF TypeOK, Call, NewMessageID
  <2>2. QED
    BY <1>1, <2>1 DEF TypeOK, Call
<1>2. ASSUME NEW s \in Sends, Check(s) PROVE TypeOK'
  <2>1. CASE pc' = [pc EXCEPT ![s] = "post"] /\ UNCHANGED told
    BY <1>2, <2>1 DEF TypeOK, Check
  <2>2. ASSUME NEW what \in {"unnamed", "named", "canceled"}, Tell(s, what) PROVE TypeOK'
    <3>1. what \in Tellings
      BY DEF Tellings
    <3>2. QED
      BY <1>2, <2>2, <3>1, TellType DEF TypeOK, Check
  <2>3. QED
    BY <1>2, <2>1, <2>2 DEF Check
<1>3. ASSUME NEW s \in Sends, Post(s) PROVE TypeOK'
  <2>1. AttemptId(s) \in Ids
    BY <1>3, BegunHasId DEF AttemptId, Inv, PhaseInv, Post
  <2>2. QED
    BY <1>3, <2>1 DEF TypeOK, Post, Attempts
<1>4. ASSUME NEW s \in Sends, Unsent(s) PROVE TypeOK'
  BY <1>4, AfterFailureType DEF TypeOK, Unsent
<1>5. ASSUME NEW s \in Sends, GiveUp(s) PROVE TypeOK'
  BY <1>5, TellType, SendFailureType DEF TypeOK, GiveUp
<1>6. ASSUME NEW s \in Sends, Lose(s) PROVE TypeOK'
  BY <1>6, AfterFailureType DEF TypeOK, Lose
<1>7. ASSUME NEW s \in Sends, Take(s) PROVE TypeOK'
  BY <1>7, AfterFailureType, TellType, SendFailureType DEF TypeOK, Take, Tellings
<1>8. ASSUME NEW s \in Sends, ReadBack(s) PROVE TypeOK'
  BY <1>8, TellType, SendFailureType DEF TypeOK, ReadBack, Tellings
<1>9. ASSUME NEW a \in wire, Google(a) PROVE TypeOK'
  BY <1>9 DEF TypeOK, Google, Attempts
<1>10. CASE UNCHANGED vars
  BY <1>10 DEF TypeOK, vars
<1>11. QED
  BY <1>1, <1>2, <1>3, <1>4, <1>5, <1>6, <1>7, <1>8, <1>9, <1>10 DEF Next

-----------------------------------------------------------------------------
(* A step that leaves texts and ids alone keeps what relates the two.      *)
LEMMA SameIds ==
  ASSUME Inv, UNCHANGED <<text, id>>
  PROVE  Agree' /\ \A s \in Sends : IdInv(s)' /\ (Begun(s)' <=> Begun(s))
  BY DEF Inv, Agree, IdInv, Begun

(* Two calls with one id have one text: an id is a key, or the call that   *)
(* minted it tells.                                                        *)
LEMMA IdDecides ==
  ASSUME Inv, NEW r \in Sends, NEW s \in Sends, Begun(r), Begun(s), id[r] = id[s]
  PROVE  text[r] = text[s]
  BY DEF Inv, TypeOK, IdInv, Begun

(* Whatever was posted under the id of a call is its text.                 *)
LEMMA PostedIsOwn ==
  ASSUME Inv, NEW s \in Sends, Begun(s), posted[id[s]] # NoText
  PROVE  posted[id[s]] = text[s]
<1>1. id[s] \in Ids
  BY BegunHasId
<1>2. PICK r \in Sends : id[r] = id[s] /\ text[r] = posted[id[s]]
  BY <1>1 DEF Inv, PostedInv
<1>3. QED
  BY <1>2, IdDecides DEF Begun

(* A call that only moves on, or fails, keeps what calls saw.              *)
LEMMA FailureKeeps ==
  ASSUME Inv, UNCHANGED <<text, id, posted>>, NEW s \in Sends, Begun(s),
         \/ \E what \in Tellings \ {"nothing", "ok"} : Tell(s, what)
         \/ /\ pc' = [pc EXCEPT ![s] = "post"]
            /\ UNCHANGED told,
         UNCHANGED reply \/ reply' = [reply EXCEPT ![s] = "none"]
  PROVE  \A r \in Sends : PhaseInv(r)' /\ SeenInv(r)'
<1>1. TypeOK /\ \A r \in Sends : PhaseInv(r) /\ SeenInv(r)
  BY DEF Inv
<1>2. pc'[s] \in {"done", "post"} /\ (told'[s] = "ok" => told[s] = "ok")
  BY <1>1 DEF TypeOK, Tell
<1>3. \A r \in Sends : r # s => pc'[r] = pc[r] /\ told'[r] = told[r]
  BY <1>1 DEF TypeOK, Tell
<1>4. \A r \in Sends : reply'[r] \in {reply[r], "none"}
  BY <1>1 DEF TypeOK
<1>5. QED
  BY <1>1, <1>2, <1>3, <1>4 DEF PhaseInv, SeenInv, Begun

(* So does one that retries or fails after a failed attempt.               *)
LEMMA AfterFailureKeeps ==
  ASSUME Inv, UNCHANGED <<text, id, posted>>, NEW s \in Sends, Begun(s), NEW e, AfterFailure(s, e),
         UNCHANGED reply \/ reply' = [reply EXCEPT ![s] = "none"]
  PROVE  \A r \in Sends : PhaseInv(r)' /\ SeenInv(r)'
  BY FailureKeeps DEF AfterFailure, SendFailure, Tellings

(* A call begins: with a key, with an id of its own that no call and no    *)
(* message has, or with the id a failed call of the same text named.       *)
LEMMA CallStep ==
  ASSUME Inv, NEW s \in Sends, NEW t \in Texts, Call(s, t), TypeOK'
  PROVE  Inv'
<1> TypeOK /\ text' = [text EXCEPT ![s] = t] /\ text' \in [Sends -> Texts \cup {NoText}]
  BY DEF Call, Inv, TypeOK
<1>1. ~Begun(s) /\ Begun(s)'
  BY DEF Inv, PhaseInv, Call, Begun, TypeOK
<1>2. \A r \in Sends : r # s => text'[r] = text[r] /\ id'[r] = id[r]
  BY DEF TypeOK, Call
<1>3. \A r \in Sends : Begun(r) => r # s /\ text'[r] = text[r] /\ id'[r] = id[r] /\ Begun(r)'
  BY <1>1, <1>2 DEF Begun
<1>4. /\ IdInv(s)'
      /\ \A r \in Sends : text[r] = t => id'[s] = id[r]
  <2>1. CASE t \in Keyed
    BY <2>1 DEF Call, IdInv, Begun, Inv, TypeOK
  <2>2. CASE t \notin Keyed /\ {r \in Sends : text[r] = t} = {}
    BY <2>2 DEF Call, IdInv, Begun, TypeOK, NewMessageID
  <2>3. CASE t \notin Keyed /\ {r \in Sends : text[r] = t} # {}
    <3>1. PICK q \in Sends : text[q] = t /\ id' = [id EXCEPT ![s] = id[q]]
      BY <2>3 DEF Call
    <3>2. Begun(q)
      BY <3>1 DEF Begun
    <3>3. id'[s] = id[q]
      BY <3>1 DEF TypeOK
    <3>4. id[q] \in Sends /\ text[id[q]] = t
      BY <2>3, <3>1, <3>2 DEF Inv, IdInv
    <3>5. text'[id[q]] = t
      BY <3>4
    <3>6. QED
      BY <2>3, <3>1, <3>2, <3>3, <3>4, <3>5 DEF IdInv, Inv, Agree
  <2>4. QED
    BY <2>1, <2>2, <2>3
<1>5. \A r \in Sends : IdInv(r)'
  <2>1. ASSUME NEW r \in Sends, r # s PROVE IdInv(r)'
    <3>1. CASE Begun(r)
      <4>1. IdInv(r)
        BY DEF Inv
      <4>2. CASE text[r] \in Keyed
        BY <3>1, <4>1, <4>2, <1>3 DEF IdInv
      <4>3. CASE text[r] \notin Keyed
        <5>1. id[r] \in Sends /\ text[id[r]] = text[r] /\ Begun(id[r])
          BY <3>1, <4>1, <4>3 DEF IdInv, Begun
        <5>2. QED
          BY <3>1, <4>3, <5>1, <1>3 DEF IdInv
      <4>4. QED
        BY <4>2, <4>3
    <3>2. CASE ~Begun(r)
      BY <2>1, <3>2, <1>2 DEF IdInv, Begun
    <3>3. QED
      BY <3>1, <3>2
  <2>2. QED
    BY <2>1, <1>4
<1>6. Agree'
  <2> SUFFICES ASSUME NEW q \in Sends, NEW r \in Sends, Begun(r)', text'[q] = text'[r]
               PROVE  id'[q] = id'[r]
    BY DEF Agree
  <2>1. CASE q = s
    BY <2>1, <1>2, <1>4
  <2>2. CASE r = s
    BY <2>2, <1>2, <1>4
  <2>3. CASE q # s /\ r # s
    BY <2>3, <1>2 DEF Inv, Agree, Begun
  <2>4. QED
    BY <2>1, <2>2, <2>3
<1>7. WireInv'
  <2> SUFFICES ASSUME NEW a \in wire PROVE a.id = id'[a.send] /\ Begun(a.send)'
    BY DEF WireInv, Call
  <2>1. a.send \in Sends
    BY DEF TypeOK, Attempts
  <2>2. QED
    BY <1>3, <2>1 DEF Inv, WireInv
<1>8. PostedInv'
  <2> SUFFICES ASSUME NEW i \in Ids, posted[i] # NoText
               PROVE  \E r \in Sends : id'[r] = i /\ text'[r] = posted[i]
    BY DEF PostedInv, Call
  <2>1. PICK r \in Sends : id[r] = i /\ text[r] = posted[i]
    BY DEF Inv, PostedInv
  <2>2. QED
    BY <2>1, <1>3 DEF Begun
<1>9. \A r \in Sends : PhaseInv(r)'
  <2>1. pc' = [pc EXCEPT ![s] = "checks"] /\ UNCHANGED <<reply, told>>
    BY DEF Call
  <2>2. QED
    BY <2>1, <1>1, <1>2 DEF Inv, PhaseInv, Begun, TypeOK
<1>10. \A r \in Sends : SeenInv(r)'
  <2>1. pc' = [pc EXCEPT ![s] = "checks"] /\ UNCHANGED <<reply, told, posted>>
    BY DEF Call
  <2>2. reply[s] = "none" /\ told[s] = "nothing"
    BY <1>1 DEF Inv, PhaseInv
  <2>3. QED
    BY <2>1, <2>2, <1>2 DEF Inv, SeenInv, TypeOK
<1>11. QED
  BY <1>5, <1>6, <1>7, <1>8, <1>9, <1>10 DEF Inv

(* A step of a call after its first, or of Google, or a deletion.          *)
LEMMA TakeStep ==
  ASSUME Inv, NEW s \in Sends, Take(s), TypeOK'
  PROVE  \A r \in Sends : PhaseInv(r)' /\ SeenInv(r)'
<1> TypeOK /\ Begun(s) /\ UNCHANGED <<text, id, posted>>
  BY DEF Inv, Take, PhaseInv
<1>1. reply' = [reply EXCEPT ![s] = "none"]
  BY DEF Take
<1>2. CASE reply[s] = "success" /\ Tell(s, "ok")
  <2>1. posted[id[s]] = text[s]
    BY <1>2 DEF Inv, SeenInv
  <2>2. QED
    BY <1>1, <1>2, <2>1 DEF Inv, Tell, PhaseInv, SeenInv, Begun, TypeOK
<1>3. CASE reply[s] = "success" /\ Tell(s, SendFailure("undecoded"))
  BY <1>1, <1>3, FailureKeeps DEF SendFailure, Tellings
<1>4. CASE reply[s] = "conflict" /\ pc' = [pc EXCEPT ![s] = "read"] /\ UNCHANGED told
  <2>1. posted[id[s]] = text[s]
    BY <1>4 DEF Inv, SeenInv
  <2>2. QED
    BY <1>1, <1>4, <2>1 DEF Inv, PhaseInv, SeenInv, Begun, TypeOK
<1>5. CASE AfterFailure(s, reply[s])
  BY <1>1, <1>5, AfterFailureKeeps
<1>6. QED
  BY <1>2, <1>3, <1>4, <1>5 DEF Take

(* A read-back succeeds on the text of its call, or the call fails.        *)
LEMMA ReadBackStep ==
  ASSUME Inv, NEW s \in Sends, ReadBack(s)
  PROVE  \A r \in Sends : PhaseInv(r)' /\ SeenInv(r)'
<1> TypeOK /\ Begun(s) /\ UNCHANGED <<text, id, posted, reply>> /\ posted[id[s]] = text[s]
  BY DEF Inv, ReadBack, PhaseInv, SeenInv
<1>1. CASE Tell(s, "ok")
  BY <1>1 DEF Inv, Tell, PhaseInv, SeenInv, Begun, TypeOK
<1>2. ASSUME NEW why, Tell(s, SendFailure(why)) PROVE \A r \in Sends : PhaseInv(r)' /\ SeenInv(r)'
  BY <1>2, FailureKeeps DEF SendFailure, Tellings
<1>3. QED
  BY <1>1, <1>2 DEF ReadBack

(* An attempt that lands posts the text of its call under the call's id,   *)
(* and is answered with success or a failure; "conflict" comes only when   *)
(* the id is taken, and then it is taken for the call's text.              *)
LEMMA GoogleStep ==
  ASSUME Inv, NEW a \in wire, Google(a), TypeOK'
  PROVE  Inv'
<1> TypeOK /\ UNCHANGED <<text, id, pc, told>> /\ wire' = wire \ {a}
  BY DEF Inv, Google
<1>1. a.send \in Sends /\ a.id = id[a.send] /\ Begun(a.send) /\ a.id \in Ids
  BY DEF Inv, WireInv, TypeOK, Attempts
<1>2. PICK status \in Statuses, lands \in BOOLEAN :
        /\ lands => posted[a.id] = NoText /\ status \in {"success", "failed"}
        /\ status = "success" => lands
        /\ status = "conflict" => posted[a.id] # NoText
        /\ posted' = IF lands THEN [posted EXCEPT ![a.id] = text[a.send]] ELSE posted
        /\ reply' = IF pc[a.send] = "posting" /\ try[a.send] = a.try
                    THEN [reply EXCEPT ![a.send] = status] ELSE reply
  BY DEF Google
<1>3. \A i \in Ids : posted[i] # NoText => posted'[i] = posted[i]
  BY <1>1, <1>2 DEF TypeOK
<1>4. posted'[a.id] # NoText => posted'[a.id] = text[a.send]
  <2>1. CASE lands
    BY <1>1, <1>2, <2>1 DEF TypeOK
  <2>2. CASE ~lands
    BY <1>1, <1>2, <2>2, PostedIsOwn
  <2>3. QED
    BY <2>1, <2>2
<1>5. PostedInv'
  <2> SUFFICES ASSUME NEW i \in Ids, posted'[i] # NoText
               PROVE  \E s \in Sends : id[s] = i /\ text[s] = posted'[i]
    BY DEF PostedInv
  <2>1. CASE i = a.id
    BY <1>1, <1>4, <2>1
  <2>2. CASE i # a.id
    <3>1. posted'[i] = posted[i]
      BY <1>1, <1>2, <2>2 DEF TypeOK
    <3>2. QED
      BY <3>1 DEF Inv, PostedInv
  <2>3. QED
    BY <2>1, <2>2
<1>6. \A s \in Sends : PhaseInv(s)'
  BY <1>1, <1>2 DEF Inv, PhaseInv, Begun, TypeOK
<1>7. \A s \in Sends : SeenInv(s)'
  <2> SUFFICES ASSUME NEW s \in Sends,
                      reply'[s] \in {"success", "conflict"} \/ pc[s] = "read" \/ told[s] = "ok"
               PROVE  posted'[id[s]] = text[s]
    BY DEF SeenInv
  <2>1. CASE reply[s] \in {"success", "conflict"} \/ pc[s] = "read" \/ told[s] = "ok"
    <3>1. posted[id[s]] = text[s] /\ Begun(s)
      BY <2>1 DEF Inv, SeenInv, PhaseInv
    <3>2. id[s] \in Ids /\ posted[id[s]] # NoText
      BY <3>1, BegunHasId DEF Begun
    <3>3. QED
      BY <1>3, <3>1, <3>2
  <2>2. CASE ~(reply[s] \in {"success", "conflict"} \/ pc[s] = "read" \/ told[s] = "ok")
    <3>1. s = a.send /\ status \in {"success", "conflict"}
      BY <1>2, <2>2 DEF TypeOK
    <3>2. posted'[a.id] # NoText
      <4>1. CASE status = "success"
        BY <1>1, <1>2, <4>1 DEF TypeOK, Begun
      <4>2. CASE status = "conflict"
        BY <1>1, <1>2, <1>3, <4>2
      <4>3. QED
        BY <3>1, <4>1, <4>2
    <3>3. QED
      BY <1>1, <1>4, <3>1, <3>2
  <2>3. QED
    BY <2>1, <2>2
<1>8. QED
  BY <1>5, <1>6, <1>7, SameIds DEF Inv, WireInv, TypeOK, Attempts

(* Inv is inductive.                                                       *)
LEMMA InvStep == Inv /\ [Next]_vars => Inv'
<1> SUFFICES ASSUME Inv, [Next]_vars PROVE Inv'
  OBVIOUS
<1>1. TypeOK'
  BY TypeStep
<1>2. ASSUME NEW s \in Sends, NEW t \in Texts, Call(s, t) PROVE Inv'
  BY <1>1, <1>2, CallStep
<1>3. ASSUME UNCHANGED <<text, id, posted>>, WireInv',
             \A r \in Sends : PhaseInv(r)' /\ SeenInv(r)'
      PROVE  Inv'
  BY <1>1, <1>3, SameIds DEF Inv, PostedInv
<1>4. ASSUME UNCHANGED <<text, id, wire>> PROVE WireInv'
  BY <1>4 DEF Inv, WireInv, Begun
<1>5. ASSUME NEW s \in Sends, Check(s) PROVE Inv'
  <2>1. UNCHANGED <<text, id, posted, wire, reply>> /\ Begun(s)
    BY <1>5 DEF Check, Inv, PhaseInv
  <2>2. CASE pc' = [pc EXCEPT ![s] = "post"] /\ UNCHANGED told
    BY <2>1, <2>2, <1>3, <1>4, FailureKeeps
  <2>3. ASSUME NEW what \in {"unnamed", "named", "canceled"}, Tell(s, what) PROVE Inv'
    <3>1. what \in Tellings \ {"nothing", "ok"}
      BY DEF Tellings
    <3>2. QED
      BY <2>1, <2>3, <3>1, <1>3, <1>4, FailureKeeps
  <2>4. QED
    BY <1>5, <2>2, <2>3 DEF Check
<1>6. ASSUME NEW s \in Sends, Post(s) PROVE Inv'
  <2>1. UNCHANGED <<text, id, posted, reply, told>> /\ Begun(s)
    BY <1>6 DEF Post, Inv, PhaseInv
  <2>2. WireInv'
    <3>1. \A a \in wire' : a \in wire \/ a = [send |-> s, try |-> try[s], id |-> id[s]]
      BY <1>6 DEF Post, AttemptId
    <3>2. QED
      BY <2>1, <3>1 DEF Inv, WireInv, Begun
  <2>3. \A r \in Sends : PhaseInv(r)' /\ SeenInv(r)'
    BY <1>6, <2>1 DEF Inv, Post, PhaseInv, SeenInv, Begun, TypeOK
  <2>4. QED
    BY <2>1, <2>2, <2>3, <1>3
<1>7. ASSUME NEW s \in Sends, Unsent(s) PROVE Inv'
  BY <1>7, <1>3, <1>4, AfterFailureKeeps DEF Unsent, Inv, PhaseInv
<1>8. ASSUME NEW s \in Sends, GiveUp(s) PROVE Inv'
  <2>1. UNCHANGED <<text, id, posted, wire, reply>> /\ Begun(s)
    BY <1>8 DEF GiveUp, Inv, PhaseInv
  <2>2. \E what \in Tellings \ {"nothing", "ok"} : Tell(s, what)
    BY <1>8 DEF GiveUp, SendFailure, Tellings
  <2>3. QED
    BY <2>1, <2>2, <1>3, <1>4, FailureKeeps
<1>9. ASSUME NEW s \in Sends, Lose(s) PROVE Inv'
  BY <1>9, <1>3, <1>4, AfterFailureKeeps DEF Lose, Inv, PhaseInv
<1>10. ASSUME NEW s \in Sends, Take(s) PROVE Inv'
  BY <1>10, <1>1, <1>3, <1>4, TakeStep DEF Take
<1>11. ASSUME NEW s \in Sends, ReadBack(s) PROVE Inv'
  BY <1>11, <1>3, <1>4, ReadBackStep DEF ReadBack
<1>12. ASSUME NEW a \in wire, Google(a) PROVE Inv'
  BY <1>12, <1>1, GoogleStep
<1>13. CASE UNCHANGED vars
  BY <1>13, <1>3, <1>4 DEF vars, Inv, PhaseInv, SeenInv, Begun
<1>14. QED
  BY <1>2, <1>5, <1>6, <1>7, <1>8, <1>9, <1>10, <1>11, <1>12, <1>13 DEF Next

(* Before any call no id is used and nothing is posted.                    *)
LEMMA InvInit == Init => Inv
<1> SUFFICES ASSUME Init PROVE Inv
  OBVIOUS
<1>1. TypeOK
  BY DEF Init, TypeOK, Statuses, Tellings
<1>2. QED
  BY <1>1 DEF Init, Inv, Agree, WireInv, PostedInv, IdInv, PhaseInv, SeenInv, Begun

(* An id stands for one text and what calls saw of it is theirs, in every  *)
(* reachable state (NewMessageID, sendFailure, the read-back).             *)
THEOREM InvAlways == Spec => []Inv
  BY InvInit, InvStep, PTL DEF Spec

(* No text is in the space twice, for any number of calls, retries and     *)
(* repeats: two messages with one text were posted by calls of that text,  *)
(* and those have one id.                                                  *)
THEOREM PostedOnce == Spec => []OneCopy
<1>1. Inv => OneCopy
  <2> SUFFICES ASSUME Inv, NEW i \in Ids, NEW j \in Ids, posted[i] # NoText, posted[i] = posted[j]
               PROVE  i = j
    BY DEF OneCopy
  <2>1. PICK r \in Sends : id[r] = i /\ text[r] = posted[i]
    BY DEF Inv, PostedInv
  <2>2. PICK s \in Sends : id[s] = j /\ text[s] = posted[j]
    BY DEF Inv, PostedInv
  <2>3. QED
    BY <2>1, <2>2 DEF Inv, Agree, Begun
<1>2. QED
  BY <1>1, InvAlways, PTL

(* A send that reports success posted its own text, whichever attempt of   *)
(* whichever call created the message (SendMessage's read-back).           *)
THEOREM SuccessIsTrue == Spec => []SuccessIsPosted
<1>1. Inv => SuccessIsPosted
  BY DEF Inv, SeenInv, SuccessIsPosted
<1>2. QED
  BY <1>1, InvAlways, PTL
=============================================================================
