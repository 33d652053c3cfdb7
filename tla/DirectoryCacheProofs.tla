------------------------ MODULE DirectoryCacheProofs ------------------------
(***************************************************************************)
(* Proofs about DirectoryCache, for any number of server processes, of     *)
(* lookups and of people, and any time an entry is kept.                   *)
(***************************************************************************)
EXTENDS DirectoryCache, TLAPS

USE HomeAssumption, DirectoryAssumption, TtlAssumption

(* Nothing but addresses reaches the disk.                                 *)
Clean(f) == f.state = "whole" => \A i \in Ids : f.entries[i].who # "nobody"

OnDisk ==
  /\ Clean(file) /\ Clean(tmp)
  /\ \A p \in Procs : Clean(data[p])

(* A process that has not read the file has answered nothing.              *)
Fresh == \A p \in Procs : ~loaded[p] => mem[p] = Empty /\ answer[p] = Empty

(* A lookup is told of nobody only for those the directory does not know.  *)
Told == \A j \in Jobs, i \in Ids : learned[j][i] = "nobody" => i \notin InDirectory

(* The lookups under way, and what they were told.                         *)
JobsOK ==
  /\ job \in [Jobs -> {"idle", "asking", "learned"}]
  /\ asked \in [Jobs -> SUBSET Ids]
  /\ learned \in [Jobs -> [Ids -> Person \cup {"none"}]]
  /\ Told

IInv == Inv /\ OnDisk /\ Fresh /\ Told /\ NobodyIsGooglesAnswer /\ AnsweredIsRemembered

-----------------------------------------------------------------------------
LEMMA NoEntryIs ==
  NoEntry \in Entries /\ Expired(NoEntry) /\ NoEntry.who = "none"
BY DEF NoEntry, Entries, Expired

LEMMA EntryIs ==
  ASSUME NEW e \in Entries
  PROVE  /\ e.who \in Person \cup {"none"} /\ e.age \in 0..Ttl + 1
         /\ e # NoEntry => e.who \in Person /\ e = [who |-> e.who, age |-> e.age]
BY DEF Entries, NoEntry, Person, Ages

LEMMA EmptyIs ==
  /\ Empty \in [Ids -> Entries]
  /\ \A i \in Ids : Expired(Empty[i]) /\ Empty[i].who = "none"
BY NoEntryIs DEF Empty

LEMMA NewEntryIs ==
  ASSUME NEW w \in Person
  PROVE  /\ [who |-> w, age |-> 0] \in Entries
         /\ ~Expired([who |-> w, age |-> 0])
BY DEF Entries, Ages, Expired

(* An entry that grows older says the same of the same person.             *)
LEMMA OlderIs ==
  ASSUME NEW e \in Entries
  PROVE  /\ Older(e) \in Entries /\ Older(e).who = e.who
         /\ ~Expired(Older(e)) => ~Expired(e)
<1>1. CASE e = NoEntry \/ Expired(e)
  BY <1>1 DEF Older
<1>2. CASE e # NoEntry /\ ~Expired(e)
  <2>1. e = [who |-> e.who, age |-> e.age] /\ e.who \in Person /\ e.age \in 0..Ttl
    BY <1>2, EntryIs DEF Expired
  <2>2. Older(e) = [who |-> e.who, age |-> e.age + 1]
    BY <1>2, <2>1 DEF Older
  <2>3. QED
    BY <1>2, <2>1, <2>2 DEF Entries, Ages, Expired
<1>3. QED
  BY <1>1, <1>2

LEMMA OlderFileIs ==
  ASSUME NEW f \in Files
  PROVE  /\ OlderFile(f) \in Files /\ OlderFile(f).state = f.state
         /\ Clean(f) => Clean(OlderFile(f))
<1>1. CASE f.state = "whole"
  <2>1. f = [state |-> "whole", entries |-> f.entries] /\ f.entries \in [Ids -> Entries]
    BY <1>1 DEF Files
  <2>2. OlderFile(f) = [state |-> "whole", entries |-> [i \in Ids |-> Older(f.entries[i])]]
    BY <1>1, <2>1 DEF OlderFile
  <2>3. QED
    BY <1>1, <2>1, <2>2, OlderIs DEF Files, Clean
<1>2. CASE f.state # "whole"
  BY <1>2 DEF OlderFile
<1>3. QED
  BY <1>1, <1>2

LEMMA FileIs ==
  ASSUME NEW f \in Files
  PROVE  /\ f.state \in {"missing", "torn", "whole"}
         /\ f.state = "whole" => f.entries \in [Ids -> Entries]
         /\ f = Missing <=> f.state = "missing"
         /\ f = Torn <=> f.state = "torn"
BY DEF Files, Missing, Torn

LEMMA SimpleFiles ==
  /\ Missing \in Files /\ Clean(Missing) /\ Missing.state = "missing"
  /\ Torn \in Files /\ Clean(Torn) /\ Torn.state = "torn" /\ Missing # Torn
BY DEF Missing, Torn, Files, Clean

(* What a process has once it has read the file: of what its memory said   *)
(* it keeps every answer, and the file adds nobody.                        *)
LEMMA LoadedIs ==
  ASSUME IInv, NEW p \in Procs
  PROVE  /\ Loaded(p) \in [Ids -> Entries]
         /\ \A i \in Ids : Loaded(p)[i].who = "nobody" =>
              answer[p][i].who = "nobody" /\ i \notin InDirectory
         /\ \A i \in Ids : ~Expired(answer[p][i]) => Loaded(p)[i] = answer[p][i]
<1> USE DEF IInv, Inv, TypeOK
<1>1. CASE loaded[p] \/ file.state # "whole"
  BY <1>1 DEF Loaded, NobodyIsGooglesAnswer, AnsweredIsRemembered
<1>2. CASE ~loaded[p] /\ file.state = "whole"
  <2>1. mem[p] = Empty /\ answer[p] = Empty
    BY <1>2 DEF Fresh
  <2>2. file.entries \in [Ids -> Entries] /\ \A i \in Ids : file.entries[i].who # "nobody"
    BY <1>2, FileIs DEF OnDisk, Clean
  <2>3. Loaded(p) = [i \in Ids |-> IF file.entries[i] # NoEntry THEN file.entries[i] ELSE mem[p][i]]
    BY <1>2 DEF Loaded
  <2>4. QED
    BY <2>1, <2>2, <2>3, EmptyIs
<1>3. QED
  BY <1>1, <1>2

(* What a save writes and what it leaves in memory are entries, the first  *)
(* names nobody, and the second forgets no answer that is still kept.      *)
LEMMA SavedIs ==
  ASSUME NEW entries \in [Ids -> Entries]
  PROVE  /\ Live(entries) \in [Ids -> Entries] /\ \A i \in Ids : Live(entries)[i].who # "nobody"
         /\ Kept(entries) \in [Ids -> Entries]
         /\ \A i \in Ids : Kept(entries)[i] \in {entries[i], NoEntry}
         /\ \A i \in Ids : ~Expired(entries[i]) => Kept(entries)[i] = entries[i]
BY NoEntryIs, EntryIs DEF Live, Kept, Person

LEMMA PutKeeps ==
  ASSUME IInv, NEW p \in Procs, NEW people \in [Ids -> Person \cup {"none"}],
         \A i \in Ids : people[i] = "nobody" => i \notin InDirectory,
         Put(p, people), UNCHANGED <<fd, file, tmp>>, JobsOK'
  PROVE  IInv'
<1> DEFINE old   == Loaded(p)
           news  == {i \in Ids : people[i] # "none" /\ (Expired(old[i]) \/ old[i].who # people[i])}
           new   == [i \in Ids |-> IF i \in news THEN [who |-> people[i], age |-> 0] ELSE old[i]]
           told  == [i \in Ids |->
                       IF i \in news THEN [who |-> people[i], age |-> 0] ELSE answer[p][i]]
           saves == \E i \in news : people[i] = "address"
           left  == IF saves THEN Kept(new) ELSE new
<1>0. TypeOK /\ Unlocked(p) /\ save[p] = "no" /\ data[p] = Missing /\ fd[p] = "none"
  BY DEF Put, Unlocked, IInv, Inv, TypeOK
<1>1. /\ loaded' = [loaded EXCEPT ![p] = TRUE]
      /\ mem' = [mem EXCEPT ![p] = left]
      /\ answer' = [answer EXCEPT ![p] = told]
      /\ saves => /\ save' = [save EXCEPT ![p] = "open"]
                  /\ data' = [data EXCEPT ![p] = [state |-> "whole", entries |-> Live(new)]]
      /\ ~saves => UNCHANGED <<save, data>>
  BY DEF Put
<1>2. /\ old \in [Ids -> Entries]
      /\ \A i \in Ids : old[i].who = "nobody" => answer[p][i].who = "nobody" /\ i \notin InDirectory
      /\ \A i \in Ids : ~Expired(answer[p][i]) => old[i] = answer[p][i]
  BY LoadedIs
<1>3. \A i \in news : [who |-> people[i], age |-> 0] \in Entries
  BY NewEntryIs
<1>4. /\ new \in [Ids -> Entries] /\ told \in [Ids -> Entries]
      /\ \A i \in Ids : new[i].who = "nobody" => told[i].who = "nobody" /\ i \notin InDirectory
      /\ \A i \in Ids : ~Expired(told[i]) => new[i] = told[i]
  <2>1. answer[p] \in [Ids -> Entries]
    BY <1>0 DEF TypeOK
  <2>2. QED
    BY <1>2, <1>3, <2>1
<1>5. /\ left \in [Ids -> Entries]
      /\ \A i \in Ids : left[i].who = "nobody" => told[i].who = "nobody" /\ i \notin InDirectory
      /\ \A i \in Ids : ~Expired(told[i]) => left[i] = told[i]
  <2> HIDE DEF old, news, new, told, saves
  <2>1. CASE saves
    <3>1. /\ Kept(new) \in [Ids -> Entries] /\ \A i \in Ids : Kept(new)[i] \in {new[i], NoEntry}
          /\ \A i \in Ids : ~Expired(new[i]) => Kept(new)[i] = new[i]
      BY <1>4, SavedIs
    <3>2. QED
      BY <1>4, <2>1, <3>1, NoEntryIs
  <2>2. CASE ~saves
    BY <1>4, <2>2
  <2>3. QED
    BY <2>1, <2>2
<1> HIDE DEF old, news, new, told, saves, left
<1> DEFINE written == [state |-> "whole", entries |-> Live(new)]
<1>6. written \in Files /\ Clean(written) /\ written.state = "whole"
  BY <1>4, SavedIs DEF Files, Clean
<1> HIDE DEF written
<1>7. /\ save' \in [Procs -> {"no", "open", "write", "rename"}] /\ data' \in [Procs -> Files]
      /\ \A q \in Procs \ {p} : save'[q] = save[q] /\ data'[q] = data[q]
      /\ \/ save'[p] = "open" /\ data'[p] = written
         \/ save'[p] = "no" /\ data'[p] = Missing
  <2>1. CASE saves
    <3>1. save' = [save EXCEPT ![p] = "open"] /\ data' = [data EXCEPT ![p] = written]
      BY <1>1, <2>1 DEF written
    <3>2. written \in Files
      BY <1>6
    <3>3. QED
      BY <1>0, <3>1, <3>2 DEF TypeOK
  <2>2. CASE ~saves
    BY <1>0, <1>1, <2>2 DEF TypeOK
  <2>3. QED
    BY <2>1, <2>2
<1>8. TypeOK'
  <2>1. /\ mem' \in [Procs -> [Ids -> Entries]] /\ answer' \in [Procs -> [Ids -> Entries]]
        /\ loaded' \in [Procs -> BOOLEAN]
        /\ file' \in Files /\ tmp' \in Files
        /\ fd' \in [Procs -> {"none", "tmp", "file"}]
    BY <1>0, <1>1, <1>4, <1>5 DEF TypeOK
  <2>2. QED
    BY <1>7, <2>1 DEF JobsOK, TypeOK
<1>9. Inv'
  <2>1. ASSUME NEW q \in Procs
        PROVE  /\ save'[q] = "no" <=> data'[q] = Missing
               /\ fd'[q] # "none" => save'[q] \in {"write", "rename"}
               /\ data'[q] # Torn
    <3>1. CASE q = p
      BY <1>0, <1>6, <1>7, <3>1 DEF Missing, Torn
    <3>2. CASE q # p
      BY <1>7, <3>2 DEF IInv, Inv
    <3>3. QED
      BY <3>1, <3>2
  <2>2. QED
    BY <1>8, <2>1 DEF Inv
<1>10. OnDisk'
  <2>1. ASSUME NEW q \in Procs
        PROVE  Clean(data'[q])
    <3>1. CASE q = p
      BY <1>6, <1>7, <3>1, SimpleFiles
    <3>2. CASE q # p
      BY <1>7, <3>2 DEF IInv, OnDisk
    <3>3. QED
      BY <3>1, <3>2
  <2>2. QED
    BY <2>1 DEF IInv, OnDisk
<1>11. Fresh'
  BY <1>0, <1>1 DEF Fresh, IInv, TypeOK, Empty
<1>12. NobodyIsGooglesAnswer'
  BY <1>0, <1>1, <1>5 DEF NobodyIsGooglesAnswer, IInv, TypeOK
<1>13. AnsweredIsRemembered'
  BY <1>0, <1>1, <1>5 DEF AnsweredIsRemembered, IInv, TypeOK
<1>14. QED
  BY <1>9, <1>10, <1>11, <1>12, <1>13 DEF IInv, JobsOK

LEMMA InitKeeps == Init => IInv
<1> SUFFICES ASSUME Init PROVE IInv
  OBVIOUS
<1>1. TypeOK
  BY EmptyIs, SimpleFiles DEF Init, TypeOK
<1>2. Inv
  BY <1>1, SimpleFiles DEF Init, Inv
<1>3. OnDisk /\ Fresh /\ Told
  BY SimpleFiles DEF Init, OnDisk, Fresh, Told
<1>4. NobodyIsGooglesAnswer /\ AnsweredIsRemembered
  BY EmptyIs DEF Init, NobodyIsGooglesAnswer, AnsweredIsRemembered
<1>5. QED
  BY <1>2, <1>3, <1>4 DEF IInv

LEMMA LearnKeeps ==
  ASSUME IInv, NEW p \in Procs, Learn(p)
  PROVE  IInv'
<1>1. PICK ids \in (SUBSET Ids) \ {{}} :
              Put(p, [i \in Ids |-> IF i \in ids THEN "address" ELSE "none"])
  BY DEF Learn
<1> DEFINE people == [i \in Ids |-> IF i \in ids THEN "address" ELSE "none"]
<1>2. /\ people \in [Ids -> Person \cup {"none"}]
      /\ \A i \in Ids : people[i] = "nobody" => i \notin InDirectory
  BY DEF Person
<1>3. UNCHANGED <<fd, file, tmp>> /\ JobsOK'
  BY DEF Learn, IInv, Inv, TypeOK, JobsOK, Told
<1> HIDE DEF people
<1>4. Put(p, people)
  BY <1>1 DEF people
<1>5. QED
  BY <1>2, <1>3, <1>4, PutKeeps

LEMMA RecordKeeps ==
  ASSUME IInv, NEW j \in Jobs, Record(j)
  PROVE  IInv'
<1>1. Home[j] \in Procs /\ learned[j] \in [Ids -> Person \cup {"none"}]
  BY DEF IInv, Inv, TypeOK
<1>2. \A i \in Ids : learned[j][i] = "nobody" => i \notin InDirectory
  BY DEF IInv, Told
<1>3. Put(Home[j], learned[j]) /\ UNCHANGED <<fd, file, tmp>>
  BY DEF Record
<1>4. JobsOK'
  BY DEF Record, JobsOK, Told, IInv, Inv, TypeOK, Person
<1>5. QED
  BY <1>1, <1>2, <1>3, <1>4, PutKeeps

(* What is in memory and what was answered, when neither changes.          *)
LEMMA SameMemory ==
  ASSUME IInv, UNCHANGED <<mem, loaded, answer>>
  PROVE  Fresh' /\ NobodyIsGooglesAnswer' /\ AnsweredIsRemembered'
BY DEF IInv, Fresh, NobodyIsGooglesAnswer, AnsweredIsRemembered, Empty

LEMMA SameJobs ==
  ASSUME IInv, UNCHANGED <<job, asked, learned>>
  PROVE  JobsOK'
BY DEF IInv, Inv, TypeOK, JobsOK, Told

(* The steps of a save.                                                    *)
LEMMA SavingKeeps ==
  ASSUME IInv, NEW p \in Procs, Open(p) \/ Write(p) \/ Rename(p) \/ SaveFails(p)
  PROVE  IInv'
<1>1. UNCHANGED <<mem, loaded, answer>> /\ UNCHANGED <<job, asked, learned>>
  BY DEF Open, Write, Rename, SaveFails
<1>2. Fresh' /\ NobodyIsGooglesAnswer' /\ AnsweredIsRemembered' /\ JobsOK'
  BY <1>1, SameMemory, SameJobs
<1>3. TypeOK' /\ OnDisk'
  <2>1. CASE Open(p)
    BY <2>1, <1>1, SimpleFiles DEF Open, IInv, Inv, TypeOK, OnDisk
  <2>2. CASE Write(p)
    <3>1. file' \in {file, data[p], Torn} /\ tmp' \in {tmp, data[p], Torn}
      BY <2>2 DEF Write
    <3>2. UNCHANGED <<data, fd>> /\ save' = [save EXCEPT ![p] = "rename"]
      BY <2>2 DEF Write
    <3>3. QED
      BY <3>1, <3>2, <1>1, SimpleFiles DEF IInv, Inv, TypeOK, OnDisk
  <2>3. CASE Rename(p)
    <3>1. file' \in {file, tmp} /\ tmp' = Missing
      BY <2>3 DEF Rename
    <3>2. fd' \in [Procs -> {"none", "tmp", "file"}]
      BY <2>3 DEF Rename, IInv, Inv, TypeOK
    <3>3. save' = [save EXCEPT ![p] = "no"] /\ data' = [data EXCEPT ![p] = Missing]
      BY <2>3 DEF Rename, EndSave
    <3>4. QED
      BY <3>1, <3>2, <3>3, <1>1, SimpleFiles DEF IInv, Inv, TypeOK, OnDisk
  <2>4. CASE SaveFails(p)
    <3>1. file' = file /\ tmp' \in {tmp, Missing}
      BY <2>4 DEF SaveFails
    <3>2. fd' = [fd EXCEPT ![p] = "none"]
      BY <2>4 DEF SaveFails
    <3>3. save' = [save EXCEPT ![p] = "no"] /\ data' = [data EXCEPT ![p] = Missing]
      BY <2>4 DEF SaveFails, EndSave
    <3>4. QED
      BY <3>1, <3>2, <3>3, <1>1, SimpleFiles DEF IInv, Inv, TypeOK, OnDisk
  <2>5. QED
    BY <2>1, <2>2, <2>3, <2>4
<1>4. ASSUME NEW q \in Procs
      PROVE  /\ save'[q] = "no" <=> data'[q] = Missing
             /\ fd'[q] # "none" => save'[q] \in {"write", "rename"}
             /\ data'[q] # Torn
  <2>1. CASE Open(p)
    BY <2>1 DEF Open, IInv, Inv, TypeOK
  <2>2. CASE Write(p)
    BY <2>2 DEF Write, IInv, Inv, TypeOK
  <2>3. CASE Rename(p)
    BY <2>3, SimpleFiles DEF Rename, EndSave, IInv, Inv, TypeOK
  <2>4. CASE SaveFails(p)
    BY <2>4, SimpleFiles DEF SaveFails, EndSave, IInv, Inv, TypeOK
  <2>5. QED
    BY <2>1, <2>2, <2>3, <2>4
<1>5. QED
  BY <1>2, <1>3, <1>4 DEF IInv, Inv, JobsOK

LEMMA RestartKeeps ==
  ASSUME IInv, NEW p \in Procs, Restart(p)
  PROVE  IInv'
<1> USE DEF IInv, Inv, TypeOK
<1>1. /\ mem' = [mem EXCEPT ![p] = Empty] /\ answer' = [answer EXCEPT ![p] = Empty]
      /\ loaded' = [loaded EXCEPT ![p] = FALSE] /\ fd' = [fd EXCEPT ![p] = "none"]
      /\ save' = [save EXCEPT ![p] = "no"] /\ data' = [data EXCEPT ![p] = Missing]
      /\ UNCHANGED <<file, tmp>>
  BY DEF Restart, EndSave
<1>2. JobsOK'
  BY DEF Restart, JobsOK, Told, Person
<1>3. TypeOK'
  BY <1>1, <1>2, EmptyIs, SimpleFiles DEF JobsOK
<1>4. Inv'
  <2>1. ASSUME NEW q \in Procs
        PROVE  /\ save'[q] = "no" <=> data'[q] = Missing
               /\ fd'[q] # "none" => save'[q] \in {"write", "rename"}
               /\ data'[q] # Torn
    BY <1>1, SimpleFiles
  <2>2. QED
    BY <1>3, <2>1
<1>5. OnDisk' /\ Fresh'
  BY <1>1, SimpleFiles DEF OnDisk, Fresh, Empty
<1>6. NobodyIsGooglesAnswer' /\ AnsweredIsRemembered'
  BY <1>1, EmptyIs DEF NobodyIsGooglesAnswer, AnsweredIsRemembered
<1> HIDE DEF Inv, TypeOK
<1>7. QED
  BY <1>2, <1>4, <1>5, <1>6 DEF JobsOK

LEMMA LookupKeeps ==
  ASSUME IInv, NEW j \in Jobs, Resolve(j) \/ Ask(j)
  PROVE  IInv'
<1>1. CASE Resolve(j)
  <2> DEFINE p == Home[j]
             found == Loaded(p)
  <2>1. /\ p \in Procs /\ loaded' = [loaded EXCEPT ![p] = TRUE] /\ mem' = [mem EXCEPT ![p] = found]
        /\ UNCHANGED <<save, data, fd, file, tmp, learned, answer>>
        /\ job' = [job EXCEPT ![j] = "asking"]
    BY <1>1 DEF Resolve, disk
  <2>2. /\ found \in [Ids -> Entries]
        /\ \A i \in Ids : found[i].who = "nobody" => answer[p][i].who = "nobody" /\ i \notin InDirectory
        /\ \A i \in Ids : ~Expired(answer[p][i]) => found[i] = answer[p][i]
    BY <2>1, LoadedIs
  <2>3. PICK misses \in SUBSET Ids : asked' = [asked EXCEPT ![j] = misses]
    BY <1>1 DEF Resolve
  <2> HIDE DEF p, found
  <2>4. JobsOK'
    BY <2>1, <2>3 DEF IInv, Inv, TypeOK, JobsOK, Told
  <2>5. Inv' /\ OnDisk'
    BY <2>1, <2>2, <2>4 DEF IInv, Inv, TypeOK, JobsOK, OnDisk
  <2>6. Fresh' /\ NobodyIsGooglesAnswer' /\ AnsweredIsRemembered'
    BY <2>1, <2>2
       DEF IInv, Inv, TypeOK, Fresh, NobodyIsGooglesAnswer, AnsweredIsRemembered, Empty
  <2>7. QED
    BY <2>4, <2>5, <2>6 DEF IInv, JobsOK
<1>2. CASE Ask(j)
  <2>1. PICK chunk \in SUBSET asked[j] \ {{}}, answers \in BOOLEAN :
          /\ asked' = [asked EXCEPT ![j] = @ \ chunk]
          /\ learned' = [learned EXCEPT ![j] =
               [i \in Ids |-> IF i \notin chunk THEN @[i]
                              ELSE IF ~answers THEN OfFailedChunk
                              ELSE IF i \in InDirectory THEN "address" ELSE "nobody"]]
    BY <1>2 DEF Ask
  <2>2. UNCHANGED <<mem, loaded, answer>> /\ UNCHANGED <<save, data, fd, file, tmp>>
    BY <1>2 DEF Ask, disk
  <2>3. job' \in [Jobs -> {"idle", "asking", "learned"}] /\ asked' \in [Jobs -> SUBSET Ids]
    BY <1>2, <2>1 DEF Ask, IInv, Inv, TypeOK
  <2>4. learned' \in [Jobs -> [Ids -> Person \cup {"none"}]] /\ Told'
    BY <2>1 DEF IInv, Inv, TypeOK, Told, Person, OfFailedChunk
  <2>5. Fresh' /\ NobodyIsGooglesAnswer' /\ AnsweredIsRemembered'
    BY <2>2, SameMemory
  <2>6. Inv' /\ OnDisk'
    BY <2>2, <2>3, <2>4 DEF IInv, Inv, TypeOK, OnDisk
  <2>7. QED
    BY <2>4, <2>5, <2>6 DEF IInv
<1>3. QED
  BY <1>1, <1>2

LEMMA TickKeeps ==
  ASSUME IInv, Tick
  PROVE  IInv'
<1> USE DEF IInv, Inv, TypeOK
<1>1. /\ mem' = [p \in Procs |-> [i \in Ids |-> Older(mem[p][i])]]
      /\ answer' = [p \in Procs |-> [i \in Ids |-> Older(answer[p][i])]]
      /\ file' = OlderFile(file) /\ tmp' = OlderFile(tmp)
      /\ data' = [p \in Procs |-> OlderFile(data[p])]
      /\ UNCHANGED <<loaded, save, fd, job, asked, learned>>
  BY DEF Tick
<1>2. JobsOK'
  BY <1>1, SameJobs
<1>3. TypeOK' /\ OnDisk'
  BY <1>1, <1>2, OlderIs, OlderFileIs DEF OnDisk
<1>4. Inv'
  <2>1. ASSUME NEW q \in Procs
        PROVE  /\ save'[q] = "no" <=> data'[q] = Missing
               /\ data'[q] # Torn
    <3>1. data'[q] \in Files /\ data'[q].state = data[q].state /\ data[q] \in Files
      BY <1>1, OlderFileIs
    <3>2. QED
      BY <1>1, <3>1, FileIs
  <2>2. QED
    BY <1>1, <1>3, <2>1
<1>5. Fresh'
  BY <1>1, EmptyIs DEF Fresh, Older, Empty
<1>6. NobodyIsGooglesAnswer'
  <2>1. ASSUME NEW p \in Procs, NEW i \in Ids
        PROVE  /\ mem'[p][i].who = mem[p][i].who
               /\ answer'[p][i].who = answer[p][i].who
    BY <1>1, OlderIs
  <2>2. NobodyIsGooglesAnswer
    OBVIOUS
  <2>3. QED
    <3> HIDE DEF IInv, Inv, TypeOK
    <3>1. QED
      BY <2>1, <2>2, Zenon DEF NobodyIsGooglesAnswer
<1>7. AnsweredIsRemembered'
  BY <1>1, OlderIs DEF AnsweredIsRemembered
<1> HIDE DEF Inv, TypeOK
<1>8. QED
  BY <1>2, <1>3, <1>4, <1>5, <1>6, <1>7 DEF JobsOK

(* The parts hold together: saves, lookups, answers and files.             *)
THEOREM Invariance == Spec => []IInv
<1>1. IInv /\ [Next]_vars => IInv'
  <2> SUFFICES ASSUME IInv, [Next]_vars PROVE IInv'
    OBVIOUS
  <2>1. CASE UNCHANGED vars
    <3>1. UNCHANGED <<mem, loaded, answer>> /\ UNCHANGED <<job, asked, learned>>
          /\ UNCHANGED <<save, data, fd, file, tmp>>
      BY <2>1 DEF vars
    <3>2. QED
      BY <3>1, SameMemory, SameJobs DEF IInv, Inv, TypeOK, OnDisk, JobsOK
  <2>2. QED
    BY <2>1, LearnKeeps, SavingKeeps, RestartKeeps, LookupKeeps, RecordKeeps, TickKeeps DEF Next
<1>2. QED
  BY InitKeeps, <1>1, PTL DEF Spec

(* A save is alone in its process: however the saves of several processes  *)
(* interleave on the file and its .tmp, and wherever one fails or its      *)
(* process ends, what it writes and has open are its own (cache.go Put and *)
(* saveLocked, under the mutex).                                           *)
THEOREM SavesAlone == Spec => []Inv
BY Invariance, PTL DEF IInv

(* Whatever chunks fail, whatever another process leaves in the shared     *)
(* file, torn or whole, and however lookups and saves interleave, a        *)
(* process takes a person for unknown only when the People API told it so, *)
(* and never someone it knows (cache.go, resolver.go lookup).              *)
THEOREM NobodyIsTold == Spec => []NobodyIsGooglesAnswer
BY Invariance, PTL DEF IInv

(* What a process was told it remembers for the whole time an entry is     *)
(* kept, a miss included: no save, failed save or load of the file makes   *)
(* it forget (cache.go Put, saveLocked and loadLocked).                    *)
THEOREM AnswersAreKept == Spec => []AnsweredIsRemembered
BY Invariance, PTL DEF IInv
=============================================================================
