------------------------- MODULE WriteOutcome --------------------------
(***************************************************************************)
(* What internal/gchat promises of a write that must not be made twice: it *)
(* takes effect at most once, and the report of it tells the truth.  "ok"  *)
(* is a write that took effect; "failed" one that did not and never will;  *)
(* "unconfirmed" one that may have, or may still.  "unread" is settled,    *)
(* either way: Google answered and the client could not use the answer.    *)
(***************************************************************************)
EXTENDS Naturals

CONSTANT Writes

VARIABLES
  effects,  \* how often each write has taken effect
  report    \* what its caller was told

vars == <<effects, report>>

Reports == {"pending", "ok", "failed", "unconfirmed", "unread"}

Init ==
  /\ effects = [w \in Writes |-> 0]
  /\ report = [w \in Writes |-> "pending"]

(* The write takes effect.  It can do so after its caller was told that    *)
(* the outcome is not known, never after a settled report.                 *)
Land(w) ==
  /\ effects[w] = 0
  /\ report[w] \in {"pending", "unconfirmed"}
  /\ effects' = [effects EXCEPT ![w] = 1]
  /\ UNCHANGED report

Tell(w, r) ==
  /\ report[w] = "pending"
  /\ r = "ok" => effects[w] = 1
  /\ r = "failed" => effects[w] = 0
  /\ report' = [report EXCEPT ![w] = r]
  /\ UNCHANGED effects

Next == \E w \in Writes : Land(w) \/ \E r \in Reports \ {"pending"} : Tell(w, r)

Spec == Init /\ [][Next]_vars
=============================================================================
