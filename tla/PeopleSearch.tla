---------------------------- MODULE PeopleSearch ----------------------------
(***************************************************************************)
(* SearchPeople (internal/service/people.go): the directory and the        *)
(* contacts are asked at once, either may fail, and what the others found  *)
(* is one list, each person once, up to the limit of the call.  Whoever    *)
(* was found with an address and a Chat id is learned.                     *)
(***************************************************************************)
EXTENDS SequencesExt

CONSTANTS
  People,     \* whom a search can find
  Learnable,  \* those with an address and an id Chat knows
  Limit       \* the limit of the call, for each source and for the answer

VARIABLES
  call,   \* the sources asked and what each answered, the list and the end
  world,  \* whom each source finds
  past    \* what was learned

vars == <<call, world, past>>

(* The order they are asked and merged in when the call names none.        *)
Sources == <<"DIRECTORY", "CONTACTS">>
Pending == <<"pending">>
Error   == <<"error">>

Init ==
  /\ world \in [Range(Sources) -> SUBSET People]
  /\ call \in {[at |-> "asking", sources |-> s, people |-> <<>>, succeeded |-> {},
                results |-> [t \in Range(s) |-> Pending]] :
                 s \in {Sources, <<"DIRECTORY">>, <<"CONTACTS">>}}
  /\ past = [learned |-> {}]

Pages(found) ==
  {page \in SUBSET found :
       IF Cardinality(found) > Limit THEN Cardinality(page) = Limit ELSE page = found}

(* One goroutine per source writes its own result: a page of whom the      *)
(* source finds, in its order, or a failure.                               *)
searchOneSource(s) ==
  /\ call.at = "asking" /\ call.results[s] = Pending
  /\ \E answer \in {Error} \cup UNION {SetToSeqs(page) : page \in Pages(world[s])} :
       call' = [call EXCEPT !.results[s] = answer]
  /\ UNCHANGED <<world, past>>

(* The people of the sources that answered, in the order of the sources.   *)
FoundBy(results, s) == IF results[s] = Error THEN <<>> ELSE results[s]

Listed(results, sources) ==
  IF Len(sources) = 1 THEN FoundBy(results, sources[1])
  ELSE FoundBy(results, sources[1]) \o FoundBy(results, sources[2])

(* Where a list names somebody it has not named before.                    *)
Firsts(list) == {i \in DOMAIN list : \A j \in 1..(i - 1) : list[j] # list[i]}

Nth(set, n) == CHOOSE i \in set : Cardinality({j \in set : j <= i}) = n

Merged_Mutant(results, sources) ==
  IF results[sources[1]] = Error THEN <<>> ELSE Listed(results, sources)

Merged(results, sources) ==
  LET all == Listed(results, sources)
  IN [n \in 1..Cardinality(Firsts(all)) |-> all[Nth(Firsts(all), n)]]

(* After the wait for every source.                                        *)
SearchPeople ==
  /\ call.at = "asking"
  /\ \A s \in DOMAIN call.results : call.results[s] # Pending
  /\ LET answered == {s \in DOMAIN call.results : call.results[s] # Error}
         list == Merged(call.results, call.sources)
     IN IF answered = {}
        THEN call' = [call EXCEPT !.at = "failed"] /\ UNCHANGED past
        ELSE /\ call' = [call EXCEPT !.at = "done", !.succeeded = answered,
                           !.people = SubSeq(list, 1, IF Len(list) < Limit THEN Len(list) ELSE Limit)]
             /\ past' = [learned |-> past.learned \cup (Range(list) \cap Learnable)]
  /\ UNCHANGED world

Done == call.at \in {"done", "failed"} /\ UNCHANGED vars

Next == (\E s \in DOMAIN call.results : searchOneSource(s)) \/ SearchPeople \/ Done

Spec == Init /\ [][Next]_vars

-----------------------------------------------------------------------------
TypeOK ==
  /\ world \in [Range(Sources) -> SUBSET People]
  /\ call.at \in {"asking", "done", "failed"}
  /\ Range(call.people) \subseteq People /\ Len(call.people) <= Limit
  /\ call.succeeded \subseteq Range(Sources) /\ past.learned \subseteq Learnable

(* One source's failure costs its own people and nothing else: the list    *)
(* holds everybody a source that answered returned, once, or is full; it   *)
(* is a failure only when every source failed; and nobody is learned whom  *)
(* no source that answered finds (people.go SearchPeople).                 *)
EverySourceCounts ==
  LET returned == UNION {Range(call.results[s]) : s \in call.succeeded}
  IN /\ call.at = "done" =>
          /\ IsInjective(call.people)
          /\ Range(call.people) \subseteq returned
          /\ Len(call.people) = Limit \/ Range(call.people) = returned
          /\ past.learned = returned \cap Learnable
     /\ call.at = "failed" => \A s \in DOMAIN call.results : call.results[s] = Error
=============================================================================
