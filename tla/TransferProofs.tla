--------------------------- MODULE TransferProofs ---------------------------
(***************************************************************************)
(* Proofs about Transfer, for any size of the file and any timeout.        *)
(***************************************************************************)
EXTENDS Transfer, TLAPS

USE DirectionsAssumption, AnswersAssumption, ChunksAssumption, LimitAssumption

(* The parts of the type invariant.                                        *)
Counts ==
  /\ unsent \in 0..Chunks /\ unread \in 0..Chunks + 1
  /\ waiting \in 0..Limit /\ guard \in 0..Limit /\ quiet \in 0..Limit

Flags ==
  /\ written \in BOOLEAN /\ answered \in BOOLEAN /\ reading \in BOOLEAN
  /\ canceled \in BOOLEAN /\ gap \in BOOLEAN

Places ==
  /\ direction \in Directions /\ request \in {"absent", "unread", "writing", "done"}
  /\ answer \in Answers \cup {"none"} /\ result \in {"none", "whole", "failed"}
  /\ fired \subseteq {"waiting", "guard"}

(* A transfer that runs has still to read the end of Google's answer,      *)
(* which does not come before the request was sent to someone.             *)
Unfinished ==
  /\ Running => unread > 0
  /\ answer # "none" => request # "unread"
  /\ reading => answered

(* The deadline, until the answer, and the answer body's guard count the   *)
(* ticks in which nothing moves: what is left of either is what is missing *)
(* to a gap.                                                               *)
DeadlineCounts ==
  ~answered /\ waiting > 0 => request # "writing" /\ waiting + quiet = Limit

GuardCounts ==
  guard > 0 => answered /\ answer = "success" /\ reading /\ guard + quiet = Limit

(* What runs is watched: until the answer by the deadline, unless the body *)
(* is on its way, and each Read by the guard, and a timer that no longer   *)
(* counts has its callback due.                                            *)
Watched ==
  Running /\ ~canceled =>
    /\ ~answered /\ request # "writing" => "waiting" \in fired \/ waiting > 0
    /\ reading => "guard" \in fired \/ guard > 0

(* A callback that will cut has a gap to cut for.                          *)
Due ==
  /\ "waiting" \in fired /\ ~answered => gap
  /\ "guard" \in fired => answered /\ gap

IInv ==
  /\ Counts /\ Flags /\ Places /\ Unfinished
  /\ DeadlineCounts /\ GuardCounts /\ Watched /\ Due

LEMMA TypeParts == TypeOK <=> Counts /\ Flags /\ Places
BY DEF TypeOK, Counts, Flags, Places

USE DEF Running, body, reply, timers

LEMMA InitKeeps == Init => IInv
<1> SUFFICES ASSUME Init PROVE IInv
  OBVIOUS
<1>1. Counts
  BY DEF Init, Counts
<1>2. Flags
  BY DEF Init, Flags
<1>3. Places
  BY DEF Init, Places
<1>4. Unfinished
  BY DEF Init, Unfinished
<1>5. DeadlineCounts
  BY DEF Init, DeadlineCounts
<1>6. GuardCounts
  BY DEF Init, GuardCounts
<1>7. Due
  BY DEF Init, Due
<1>8. Watched
  BY DEF Init, Watched
<1>9. QED
  BY <1>1, <1>2, <1>3, <1>4, <1>5, <1>6, <1>7, <1>8 DEF IInv

LEMMA RequestKeeps ==
  ASSUME IInv, Connect \/ Fill \/ Drain \/ EndOfBody
  PROVE  IInv'
<1>1. CASE Connect
  <2>1. Counts'
    BY <1>1 DEF Connect, IInv, Counts
  <2>2. Flags'
    BY <1>1 DEF Connect, IInv, Flags
  <2>3. Places'
    BY <1>1 DEF Connect, IInv, Places
  <2>4. Unfinished'
    BY <1>1 DEF Connect, IInv, Unfinished
  <2>5. DeadlineCounts'
    BY <1>1 DEF Connect, IInv, DeadlineCounts
  <2>6. GuardCounts'
    BY <1>1 DEF Connect, IInv, GuardCounts, Unfinished
  <2>7. Due'
    BY <1>1 DEF Connect, IInv, Due
  <2>8. Watched'
    BY <1>1 DEF Connect, IInv, Watched
  <2>9. QED
    BY <2>1, <2>2, <2>3, <2>4, <2>5, <2>6, <2>7, <2>8 DEF IInv
<1>2. CASE Fill
  <2>1. Counts'
    BY <1>2 DEF Fill, HasMore, IInv, Counts
  <2>2. Flags'
    BY <1>2 DEF Fill, HasMore, IInv, Flags
  <2>3. Places'
    BY <1>2 DEF Fill, HasMore, IInv, Places
  <2>4. Unfinished'
    BY <1>2 DEF Fill, HasMore, IInv, Unfinished
  <2>5. DeadlineCounts'
    BY <1>2 DEF Fill, HasMore, IInv, DeadlineCounts
  <2>6. GuardCounts'
    BY <1>2 DEF Fill, HasMore, IInv, GuardCounts
  <2>7. Due'
    BY <1>2 DEF Fill, HasMore, IInv, Due
  <2>8. Watched'
    BY <1>2 DEF Fill, HasMore, IInv, Watched
  <2>9. QED
    BY <2>1, <2>2, <2>3, <2>4, <2>5, <2>6, <2>7, <2>8 DEF IInv
<1>3. CASE Drain
  <2>1. Counts'
    BY <1>3 DEF Drain, IInv, Counts
  <2>2. Flags'
    BY <1>3 DEF Drain, IInv, Flags
  <2>3. Places'
    BY <1>3 DEF Drain, IInv, Places
  <2>4. Unfinished'
    BY <1>3 DEF Drain, IInv, Unfinished
  <2>5. DeadlineCounts'
    BY <1>3 DEF Drain, IInv, DeadlineCounts
  <2>6. GuardCounts'
    BY <1>3 DEF Drain, IInv, GuardCounts
  <2>7. Due'
    BY <1>3 DEF Drain, IInv, Due
  <2>8. Watched'
    BY <1>3 DEF Drain, IInv, Watched
  <2>9. QED
    BY <2>1, <2>2, <2>3, <2>4, <2>5, <2>6, <2>7, <2>8 DEF IInv
<1>4. CASE EndOfBody
  <2>1. Counts'
    BY <1>4 DEF EndOfBody, HandBack, IInv, Counts
  <2>2. Flags'
    BY <1>4 DEF EndOfBody, HandBack, IInv, Flags
  <2>3. Places'
    BY <1>4 DEF EndOfBody, HandBack, IInv, Places
  <2>4. Unfinished'
    BY <1>4 DEF EndOfBody, HandBack, IInv, Unfinished
  <2>5. DeadlineCounts'
    BY <1>4 DEF EndOfBody, HandBack, IInv, DeadlineCounts
  <2>6. GuardCounts'
    BY <1>4 DEF EndOfBody, HandBack, IInv, GuardCounts
  <2>7. Due'
    BY <1>4 DEF EndOfBody, HandBack, IInv, Due
  <2>8. Watched'
    BY <1>4 DEF EndOfBody, HandBack, IInv, Watched
  <2>9. QED
    BY <2>1, <2>2, <2>3, <2>4, <2>5, <2>6, <2>7, <2>8 DEF IInv
<1>5. QED
  BY <1>1, <1>2, <1>3, <1>4

LEMMA AnswerKeeps ==
  ASSUME IInv, Answer \/ Arrived \/ DoFails \/ TakeError \/ Ask \/ Receive \/ ReadFails
  PROVE  IInv'
<1>1. CASE Answer
  <2>1. Counts'
    BY <1>1 DEF Answer, IInv, Counts
  <2>2. Flags'
    BY <1>1 DEF Answer, IInv, Flags
  <2>3. Places'
    BY <1>1 DEF Answer, IInv, Places
  <2>4. Unfinished'
    BY <1>1 DEF Answer, IInv, Unfinished
  <2>5. DeadlineCounts'
    BY <1>1 DEF Answer, IInv, DeadlineCounts
  <2>6. GuardCounts'
    BY <1>1 DEF Answer, IInv, GuardCounts
  <2>7. Due'
    BY <1>1 DEF Answer, IInv, Due
  <2>8. Watched'
    BY <1>1 DEF Answer, IInv, Watched
  <2>9. QED
    BY <2>1, <2>2, <2>3, <2>4, <2>5, <2>6, <2>7, <2>8 DEF IInv
<1>2. CASE Arrived
  <2>1. Counts'
    BY <1>2 DEF Arrived, IInv, Counts
  <2>2. Flags'
    BY <1>2 DEF Arrived, IInv, Flags
  <2>3. Places'
    BY <1>2 DEF Arrived, IInv, Places
  <2>4. Unfinished'
    BY <1>2 DEF Arrived, IInv, Unfinished
  <2>5. DeadlineCounts'
    BY <1>2 DEF Arrived, IInv, DeadlineCounts
  <2>6. GuardCounts'
    BY <1>2 DEF Arrived, IInv, GuardCounts
  <2>7. Due'
    BY <1>2 DEF Arrived, IInv, Due
  <2>8. Watched'
    BY <1>2 DEF Arrived, IInv, Watched
  <2>9. QED
    BY <2>1, <2>2, <2>3, <2>4, <2>5, <2>6, <2>7, <2>8 DEF IInv
<1>3. CASE DoFails
  <2>1. Counts'
    BY <1>3 DEF DoFails, IInv, Counts
  <2>2. Flags'
    BY <1>3 DEF DoFails, IInv, Flags
  <2>3. Places'
    BY <1>3 DEF DoFails, IInv, Places
  <2>4. Unfinished'
    BY <1>3 DEF DoFails, IInv, Unfinished
  <2>5. DeadlineCounts'
    BY <1>3 DEF DoFails, IInv, DeadlineCounts
  <2>6. GuardCounts'
    BY <1>3 DEF DoFails, IInv, GuardCounts
  <2>7. Due'
    BY <1>3 DEF DoFails, IInv, Due
  <2>8. Watched'
    BY <1>3 DEF DoFails, IInv, Watched
  <2>9. QED
    BY <2>1, <2>2, <2>3, <2>4, <2>5, <2>6, <2>7, <2>8 DEF IInv
<1>4. CASE TakeError
  <2>1. Counts'
    BY <1>4 DEF TakeError, IInv, Counts
  <2>2. Flags'
    BY <1>4 DEF TakeError, IInv, Flags
  <2>3. Places'
    BY <1>4 DEF TakeError, IInv, Places
  <2>4. Unfinished'
    BY <1>4 DEF TakeError, IInv, Unfinished
  <2>5. DeadlineCounts'
    BY <1>4 DEF TakeError, IInv, DeadlineCounts
  <2>6. GuardCounts'
    BY <1>4 DEF TakeError, IInv, GuardCounts
  <2>7. Due'
    BY <1>4 DEF TakeError, IInv, Due
  <2>8. Watched'
    BY <1>4 DEF TakeError, IInv, Watched
  <2>9. QED
    BY <2>1, <2>2, <2>3, <2>4, <2>5, <2>6, <2>7, <2>8 DEF IInv
<1>5. CASE Ask
  <2>1. Counts'
    BY <1>5 DEF Ask, IInv, Counts
  <2>2. Flags'
    BY <1>5 DEF Ask, IInv, Flags
  <2>3. Places'
    BY <1>5 DEF Ask, IInv, Places
  <2>4. Unfinished'
    BY <1>5 DEF Ask, IInv, Unfinished
  <2>5. DeadlineCounts'
    BY <1>5 DEF Ask, IInv, DeadlineCounts
  <2>6. GuardCounts'
    BY <1>5 DEF Ask, IInv, GuardCounts
  <2>7. Due'
    BY <1>5 DEF Ask, IInv, Due
  <2>8. Watched'
    BY <1>5 DEF Ask, IInv, Watched
  <2>9. QED
    BY <2>1, <2>2, <2>3, <2>4, <2>5, <2>6, <2>7, <2>8 DEF IInv
<1>6. CASE Receive
  <2>1. Counts'
    BY <1>6 DEF Receive, IInv, Counts, Unfinished
  <2>2. Flags'
    BY <1>6 DEF Receive, IInv, Flags
  <2>3. Places'
    BY <1>6 DEF Receive, IInv, Places
  <2>4. Unfinished'
    BY <1>6 DEF Receive, IInv, Unfinished, Counts
  <2>5. DeadlineCounts'
    BY <1>6 DEF Receive, IInv, DeadlineCounts, Unfinished
  <2>6. GuardCounts'
    BY <1>6 DEF Receive, IInv, GuardCounts
  <2>7. Due'
    BY <1>6 DEF Receive, IInv, Due
  <2>8. Watched'
    BY <1>6 DEF Receive, IInv, Watched
  <2>9. QED
    BY <2>1, <2>2, <2>3, <2>4, <2>5, <2>6, <2>7, <2>8 DEF IInv
<1>7. CASE ReadFails
  <2>1. Counts'
    BY <1>7 DEF ReadFails, IInv, Counts
  <2>2. Flags'
    BY <1>7 DEF ReadFails, IInv, Flags
  <2>3. Places'
    BY <1>7 DEF ReadFails, IInv, Places
  <2>4. Unfinished'
    BY <1>7 DEF ReadFails, IInv, Unfinished
  <2>5. DeadlineCounts'
    BY <1>7 DEF ReadFails, IInv, DeadlineCounts
  <2>6. GuardCounts'
    BY <1>7 DEF ReadFails, IInv, GuardCounts
  <2>7. Due'
    BY <1>7 DEF ReadFails, IInv, Due
  <2>8. Watched'
    BY <1>7 DEF ReadFails, IInv, Watched
  <2>9. QED
    BY <2>1, <2>2, <2>3, <2>4, <2>5, <2>6, <2>7, <2>8 DEF IInv
<1>8. QED
  BY <1>1, <1>2, <1>3, <1>4, <1>5, <1>6, <1>7

LEMMA CallbackKeeps ==
  ASSUME IInv, WaitingFires \/ GuardFires
  PROVE  IInv' /\ (~canceled /\ canceled' => gap')
<1>1. CASE WaitingFires
  <2>1. Counts'
    BY <1>1 DEF WaitingFires, Cut, IInv, Counts
  <2>2. Flags'
    BY <1>1 DEF WaitingFires, Cut, IInv, Flags
  <2>3. Places'
    BY <1>1 DEF WaitingFires, Cut, IInv, Places
  <2>4. Unfinished'
    BY <1>1 DEF WaitingFires, Cut, IInv, Unfinished
  <2>5. DeadlineCounts'
    BY <1>1 DEF WaitingFires, Cut, IInv, DeadlineCounts
  <2>6. GuardCounts'
    BY <1>1 DEF WaitingFires, Cut, IInv, GuardCounts
  <2>7. Due'
    BY <1>1 DEF WaitingFires, Cut, IInv, Due
  <2>8. Watched'
    BY <1>1 DEF WaitingFires, Cut, IInv, Watched
  <2>9. ~canceled /\ canceled' => gap'
    BY <1>1 DEF WaitingFires, Cut, IInv, Due
  <2>10. QED
    BY <2>1, <2>2, <2>3, <2>4, <2>5, <2>6, <2>7, <2>8, <2>9 DEF IInv
<1>2. CASE GuardFires
  <2>1. Counts'
    BY <1>2 DEF GuardFires, IInv, Counts
  <2>2. Flags'
    BY <1>2 DEF GuardFires, IInv, Flags
  <2>3. Places'
    BY <1>2 DEF GuardFires, IInv, Places
  <2>4. Unfinished'
    BY <1>2 DEF GuardFires, IInv, Unfinished
  <2>5. DeadlineCounts'
    BY <1>2 DEF GuardFires, IInv, DeadlineCounts
  <2>6. GuardCounts'
    BY <1>2 DEF GuardFires, IInv, GuardCounts
  <2>7. Due'
    BY <1>2 DEF GuardFires, IInv, Due
  <2>8. Watched'
    BY <1>2 DEF GuardFires, IInv, Watched
  <2>9. ~canceled /\ canceled' => gap'
    BY <1>2 DEF GuardFires, IInv, Due
  <2>10. QED
    BY <2>1, <2>2, <2>3, <2>4, <2>5, <2>6, <2>7, <2>8, <2>9 DEF IInv
<1>3. QED
  BY <1>1, <1>2

LEMMA TickKeeps ==
  ASSUME IInv, Tick
  PROVE  IInv'
<1>1. /\ waiting \in 0..Limit /\ guard \in 0..Limit /\ quiet \in 0..Limit
      /\ unsent \in 0..Chunks /\ unread \in 0..Chunks + 1
  BY DEF IInv, Counts
<1>2. /\ waiting' = IF waiting = 0 THEN 0 ELSE waiting - 1
      /\ guard' = IF guard = 0 THEN 0 ELSE guard - 1
  BY DEF Tick
<1>3. UNCHANGED <<direction, body, reply, canceled, result>>
  BY DEF Tick
<1>4. quiet' = IF Awaited /\ quiet < Limit THEN quiet + 1 ELSE quiet
  BY DEF Tick
<1>5. /\ gap => gap'
      /\ quiet' = Limit => gap'
      /\ gap' \in BOOLEAN
  BY DEF Tick
<1>6. /\ fired \subseteq fired' /\ fired' \subseteq fired \cup {"waiting", "guard"}
      /\ "waiting" \in fired' <=> "waiting" \in fired \/ waiting = 1
      /\ "guard" \in fired' <=> "guard" \in fired \/ guard = 1
  BY DEF Tick
<1>7. Counts'
  BY <1>1, <1>2, <1>3, <1>4 DEF Counts
<1>8. Flags'
  BY <1>3, <1>5 DEF IInv, Flags
<1>9. Places'
  BY <1>3, <1>6 DEF IInv, Places
<1>10. Unfinished'
  BY <1>3 DEF IInv, Unfinished
<1>11. DeadlineCounts'
  <2>1. SUFFICES ASSUME ~answered', waiting' > 0
                 PROVE  request' # "writing" /\ waiting' + quiet' = Limit
    BY DEF DeadlineCounts
  <2>2. ~answered /\ waiting > 0 /\ waiting' = waiting - 1
    BY <1>1, <1>2, <1>3, <2>1
  <2>3. request # "writing" /\ waiting + quiet = Limit /\ Awaited
    BY <2>2 DEF IInv, DeadlineCounts, Awaited
  <2>4. quiet' = quiet + 1
    BY <1>1, <1>4, <2>2, <2>3
  <2>5. QED
    BY <1>1, <1>3, <2>2, <2>3, <2>4
<1>12. GuardCounts'
  <2>1. SUFFICES ASSUME guard' > 0
                 PROVE  /\ answered' /\ answer' = "success" /\ reading'
                        /\ guard' + quiet' = Limit
    BY DEF GuardCounts
  <2>2. guard > 0 /\ guard' = guard - 1
    BY <1>1, <1>2, <2>1
  <2>3. answered /\ answer = "success" /\ reading /\ guard + quiet = Limit /\ Awaited
    BY <2>2 DEF IInv, GuardCounts, Awaited
  <2>4. quiet' = quiet + 1
    BY <1>1, <1>4, <2>2, <2>3
  <2>5. QED
    BY <1>1, <1>3, <2>2, <2>3, <2>4
<1>13. Due'
  <2>1. ASSUME waiting = 1, ~answered PROVE gap'
    <3>1. waiting + quiet = Limit /\ Awaited
      BY <2>1 DEF IInv, DeadlineCounts, Awaited
    <3>2. QED
      BY <1>1, <1>4, <1>5, <2>1, <3>1
  <2>2. ASSUME guard = 1 PROVE answered /\ gap'
    <3>1. answered /\ guard + quiet = Limit /\ Awaited
      BY <2>2 DEF IInv, GuardCounts, Awaited
    <3>2. QED
      BY <1>1, <1>4, <1>5, <2>2, <3>1
  <2>3. QED
    BY <1>3, <1>5, <1>6, <2>1, <2>2 DEF IInv, Due
<1>14. Watched'
  <2>1. ASSUME waiting > 0 PROVE "waiting" \in fired' \/ waiting' > 0
    BY <1>1, <1>2, <1>6, <2>1
  <2>2. ASSUME guard > 0 PROVE "guard" \in fired' \/ guard' > 0
    BY <1>1, <1>2, <1>6, <2>2
  <2>3. QED
    BY <1>3, <1>6, <2>1, <2>2 DEF IInv, Watched
<1>15. QED
  BY <1>7, <1>8, <1>9, <1>10, <1>11, <1>12, <1>13, <1>14 DEF IInv

LEMMA StepKeeps == IInv /\ [Next]_vars => IInv'
<1> SUFFICES ASSUME IInv, [Next]_vars PROVE IInv'
  OBVIOUS
<1>1. CASE UNCHANGED vars
  <2>1. Counts' /\ Flags' /\ Places'
    BY <1>1 DEF vars, IInv, Counts, Flags, Places
  <2>2. Unfinished' /\ DeadlineCounts' /\ GuardCounts' /\ Watched' /\ Due'
    BY <1>1 DEF vars, IInv, Unfinished, DeadlineCounts, GuardCounts, Watched, Due
  <2>3. QED
    BY <2>1, <2>2 DEF IInv
<1>2. QED
  BY <1>1, RequestKeeps, AnswerKeeps, CallbackKeeps, TickKeeps DEF Next

(* The counters of a transfer stay in their bounds: no more is sent than   *)
(* the file has, and nothing is read past the end of the answer            *)
(* (client.go transfer).                                                   *)
THEOREM Typed == Spec => []TypeOK
<1>1. IInv => TypeOK
  BY TypeParts DEF IInv
<1>2. QED
  BY InitKeeps, StepKeeps, <1>1, PTL DEF Spec

(* However the deadline, the guard and their callbacks interleave with     *)
(* bytes and answers that come early or late: only a transfer that kept    *)
(* this side waiting for the whole timeout is canceled (client.go          *)
(* transfer, stallGuard).                                                  *)
THEOREM OnlySilenceIsCut == Spec => SlowIsNotCut
<1>1. IInv /\ [Next]_vars => [~canceled /\ canceled' => gap']_vars
  <2> SUFFICES ASSUME IInv, Next PROVE ~canceled /\ canceled' => gap'
    OBVIOUS
  <2>1. CASE WaitingFires \/ GuardFires
    BY <2>1, CallbackKeeps
  <2>2. CASE Connect \/ Fill \/ Drain \/ EndOfBody \/ Answer \/ Arrived \/ DoFails
             \/ TakeError \/ Ask \/ Receive \/ ReadFails \/ Tick
    BY <2>2 DEF Connect, Fill, Drain, EndOfBody, Answer, Arrived, DoFails, TakeError, Ask,
                Receive, ReadFails, Tick
  <2>3. QED
    BY <2>1, <2>2 DEF Next
<1>2. QED
  BY InitKeeps, StepKeeps, <1>1, PTL DEF Spec, SlowIsNotCut

(* Whatever order bytes, answers and callbacks come in, the two timers     *)
(* leave no silence of Google unwatched but the one while it is to take    *)
(* the request body's bytes: what waits has a deadline that ends within    *)
(* the timeout, counted from when the wait last moved, or one that has     *)
(* ended (client.go transfer, stallGuard).                                 *)
THEOREM SilenceIsWatched == Spec => []SilenceIsTimed
<1>1. IInv => SilenceIsTimed
  BY DEF IInv, Counts, Watched, DeadlineCounts, GuardCounts, SilenceIsTimed
<1>2. QED
  BY InitKeeps, StepKeeps, <1>1, PTL DEF Spec
=============================================================================
