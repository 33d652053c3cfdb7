------------------------- MODULE DirectoryCache --------------------------
(***************************************************************************)
(* The email cache of internal/directory: server processes that keep       *)
(* answers in memory and share one file, lookups running in each of them,  *)
(* and the addresses Chat names itself.                                    *)
(*                                                                         *)
(* A person is an address or nobody, and a display name is left out.  Of a *)
(* chunk that is answered, Google is taken to answer for everyone in it:   *)
(* lookup records as nobody whoever the answer holds no person for.  An    *)
(* entry's time is its age in ticks.  Get and Put run under the cache's    *)
(* mutex; a save keeps it, and its steps on the file interleave with other *)
(* processes', which write the same .tmp.                                  *)
(***************************************************************************)
EXTENDS Naturals

CONSTANTS
  Procs,        \* server processes of one profile
  Jobs,         \* lookups
  Home,         \* the process each lookup runs in
  Ids,          \* Chat user ids
  InDirectory,  \* those the People API has an address for
  Ttl           \* the age an entry is kept to

ASSUME HomeAssumption == Home \in [Jobs -> Procs]
ASSUME DirectoryAssumption == InDirectory \subseteq Ids
ASSUME TtlAssumption == Ttl \in Nat

VARIABLES
  mem,          \* each process's entries
  loaded,       \* it has read the file
  save,         \* where its save is
  data,         \* what the save writes
  fd,           \* the file its save has open
  file, tmp,    \* the cache file, and the one renamed over it
  job,          \* where each lookup is
  asked,        \* the ids it has still to ask the People API for
  learned,      \* what it was told, for the ids it was told about
  answer        \* how long ago each process recorded an answer on each id,
                \* and what it was

vars == <<mem, loaded, save, data, fd, file, tmp, job, asked, learned, answer>>

disk == <<save, data, fd, file, tmp>>

-----------------------------------------------------------------------------
Person  == {"address", "nobody"}
Ages    == 0..Ttl + 1
NoEntry == [who |-> "none", age |-> Ttl + 1]
Entries == [who : Person, age : Ages] \cup {NoEntry}

Expired(e) == e.age > Ttl

(* A file: missing, one that does not parse, or entries by id.             *)
Files == [state : {"missing", "torn"}] \cup [state : {"whole"}, entries : [Ids -> Entries]]

Missing == [state |-> "missing"]
Torn    == [state |-> "torn"]

TypeOK ==
  /\ mem \in [Procs -> [Ids -> Entries]]
  /\ loaded \in [Procs -> BOOLEAN]
  /\ save \in [Procs -> {"no", "open", "write", "rename"}]
  /\ data \in [Procs -> Files]
  /\ fd \in [Procs -> {"none", "tmp", "file"}]
  /\ file \in Files /\ tmp \in Files
  /\ job \in [Jobs -> {"idle", "asking", "learned"}]
  /\ asked \in [Jobs -> SUBSET Ids]
  /\ learned \in [Jobs -> [Ids -> Person \cup {"none"}]]
  /\ answer \in [Procs -> [Ids -> Entries]]

Empty == [i \in Ids |-> NoEntry]

Init ==
  /\ mem = [p \in Procs |-> Empty]
  /\ loaded = [p \in Procs |-> FALSE]
  /\ save = [p \in Procs |-> "no"]
  /\ data = [p \in Procs |-> Missing]
  /\ fd = [p \in Procs |-> "none"]
  /\ file = Missing /\ tmp = Missing
  /\ job = [j \in Jobs |-> "idle"]
  /\ asked = [j \in Jobs |-> {}]
  /\ learned = [j \in Jobs |-> [i \in Ids |-> "none"]]
  /\ answer = [p \in Procs |-> Empty]

-----------------------------------------------------------------------------
(* Get and Put wait for the mutex, which a save holds.  The mutant has     *)
(* none.                                                                   *)
Unlocked_Mutant(p) == TRUE

Unlocked(p) == save[p] = "no"

(* The entries after loadLocked: the file is read once, and one that does  *)
(* not parse counts as empty.                                              *)
Loaded(p) ==
  IF loaded[p] \/ file.state # "whole" THEN mem[p]
  ELSE [i \in Ids |-> IF file.entries[i] # NoEntry THEN file.entries[i] ELSE mem[p][i]]

(* What saveLocked writes: entries that have not expired, and no misses;   *)
(* and what it keeps in memory.  The mutant forgets the misses too.        *)
Live(entries) ==
  [i \in Ids |-> IF Expired(entries[i]) \/ entries[i].who # "address" THEN NoEntry ELSE entries[i]]

Kept_Mutant(entries) == Live(entries)

Kept(entries) == [i \in Ids |-> IF Expired(entries[i]) THEN NoEntry ELSE entries[i]]

(* Put, up to the file: people maps the ids told about.  An entry that     *)
(* says the same already keeps its time.                                   *)
Put(p, people) ==
  LET old   == Loaded(p)
      news  == {i \in Ids : people[i] # "none" /\ (Expired(old[i]) \/ old[i].who # people[i])}
      new   == [i \in Ids |-> IF i \in news THEN [who |-> people[i], age |-> 0] ELSE old[i]]
      saves == \E i \in news : people[i] = "address"
  IN
  /\ Unlocked(p)
  /\ loaded' = [loaded EXCEPT ![p] = TRUE]
  /\ mem' = [mem EXCEPT ![p] = IF saves THEN Kept(new) ELSE new]
  /\ answer' = [answer EXCEPT ![p] =
       [i \in Ids |-> IF i \in news THEN [who |-> people[i], age |-> 0] ELSE @[i]]]
  /\ IF saves
     THEN /\ save' = [save EXCEPT ![p] = "open"]
          /\ data' = [data EXCEPT ![p] = [state |-> "whole", entries |-> Live(new)]]
     ELSE UNCHANGED <<save, data>>

(* A listing hands over the addresses Chat sent with it.                   *)
Learn(p) ==
  /\ \E ids \in (SUBSET Ids) \ {{}} : Put(p, [i \in Ids |-> IF i \in ids THEN "address" ELSE "none"])
  /\ UNCHANGED <<fd, file, tmp, job, asked, learned>>

-----------------------------------------------------------------------------
(* saveLocked on the file: os.WriteFile opens and truncates, then writes;  *)
(* os.Rename puts the .tmp, as it then is, in the file's place.            *)
Open(p) ==
  /\ save[p] = "open"
  /\ tmp' = Torn
  /\ fd' = [fd EXCEPT ![p] = "tmp"]
  /\ save' = [save EXCEPT ![p] = "write"]
  /\ UNCHANGED <<mem, loaded, data, file, job, asked, learned, answer>>

(* What another process wrote since the truncation, or has open to write,  *)
(* makes a mixture, unless what is written covers it.  The file may have   *)
(* been renamed meanwhile.                                                 *)
Write(p) ==
  LET target  == IF fd[p] = "tmp" THEN tmp ELSE file
      shared  == \/ target.state = "whole"
                 \/ \E q \in Procs \ {p} : fd[q] = fd[p]
      written == {data[p]} \cup IF shared THEN {Torn} ELSE {}
  IN
  /\ save[p] = "write"
  /\ IF fd[p] = "tmp" THEN tmp' \in written /\ UNCHANGED file
     ELSE IF fd[p] = "file" THEN file' \in written /\ UNCHANGED tmp
     ELSE UNCHANGED <<file, tmp>>
  /\ save' = [save EXCEPT ![p] = "rename"]
  /\ UNCHANGED <<mem, loaded, data, fd, job, asked, learned, answer>>

EndSave(p) ==
  /\ save' = [save EXCEPT ![p] = "no"]
  /\ data' = [data EXCEPT ![p] = Missing]

Rename(p) ==
  /\ save[p] = "rename"
  /\ file' = IF tmp.state = "missing" THEN file ELSE tmp
  /\ tmp' = Missing
  /\ fd' = [q \in Procs |->
       IF q = p THEN "none"
       ELSE IF tmp.state = "missing" THEN fd[q]
       ELSE IF fd[q] = "tmp" THEN "file" ELSE "none"]
  /\ EndSave(p)
  /\ UNCHANGED <<mem, loaded, job, asked, learned, answer>>

(* A file operation fails: the save ends, and memory stays as it is.  A    *)
(* .tmp that cannot be renamed is removed.                                 *)
SaveFails(p) ==
  /\ save[p] # "no"
  /\ EndSave(p)
  /\ fd' = [fd EXCEPT ![p] = "none"]
  /\ tmp' = IF save[p] = "rename" THEN Missing ELSE tmp
  /\ UNCHANGED <<mem, loaded, file, job, asked, learned, answer>>

(* The process ends, in the middle of a save or not, and another starts.   *)
Restart(p) ==
  /\ loaded[p]
  /\ mem' = [mem EXCEPT ![p] = Empty]
  /\ answer' = [answer EXCEPT ![p] = Empty]
  /\ loaded' = [loaded EXCEPT ![p] = FALSE]
  /\ EndSave(p)
  /\ fd' = [fd EXCEPT ![p] = "none"]
  /\ job' = [j \in Jobs |-> IF Home[j] = p THEN "idle" ELSE job[j]]
  /\ asked' = [j \in Jobs |-> IF Home[j] = p THEN {} ELSE asked[j]]
  /\ learned' = [j \in Jobs |-> IF Home[j] = p THEN [i \in Ids |-> "none"] ELSE learned[j]]
  /\ UNCHANGED <<file, tmp>>

-----------------------------------------------------------------------------
(* Resolve reads the cache; what it misses is asked for.                   *)
Resolve(j) ==
  LET p == Home[j]
      found == Loaded(p)
  IN
  /\ job[j] = "idle" /\ Unlocked(p)
  /\ loaded' = [loaded EXCEPT ![p] = TRUE]
  /\ mem' = [mem EXCEPT ![p] = found]
  /\ \E ids \in SUBSET Ids :
       LET misses == {i \in ids : Expired(found[i])} IN
       /\ misses # {}
       /\ asked' = [asked EXCEPT ![j] = misses]
  /\ job' = [job EXCEPT ![j] = "asking"]
  /\ UNCHANGED <<disk, learned, answer>>

(* lookup asks for a chunk.  A chunk that fails is answered for nobody;    *)
(* the mutant takes its ids for people the directory does not know.        *)
OfFailedChunk_Mutant == "nobody"

OfFailedChunk == "none"

Ask(j) ==
  /\ job[j] = "asking"
  /\ \E chunk \in SUBSET asked[j] \ {{}} :
       /\ asked' = [asked EXCEPT ![j] = @ \ chunk]
       /\ \E answers \in BOOLEAN :
            learned' = [learned EXCEPT ![j] =
              [i \in Ids |-> IF i \notin chunk THEN @[i]
                             ELSE IF ~answers THEN OfFailedChunk
                             ELSE IF i \in InDirectory THEN "address" ELSE "nobody"]]
  /\ job' = [job EXCEPT ![j] = IF asked'[j] = {} THEN "learned" ELSE "asking"]
  /\ UNCHANGED <<mem, loaded, disk, answer>>

(* Resolve records the answers it got.                                     *)
Record(j) ==
  /\ job[j] = "learned"
  /\ Put(Home[j], learned[j])
  /\ job' = [job EXCEPT ![j] = "idle"]
  /\ learned' = [learned EXCEPT ![j] = [i \in Ids |-> "none"]]
  /\ UNCHANGED <<fd, file, tmp, asked>>

-----------------------------------------------------------------------------
Older(e) == IF e = NoEntry \/ Expired(e) THEN e ELSE [e EXCEPT !.age = @ + 1]

OlderFile(f) ==
  IF f.state = "whole" THEN [f EXCEPT !.entries = [i \in Ids |-> Older(@[i])]] ELSE f

Tick ==
  /\ mem' = [p \in Procs |-> [i \in Ids |-> Older(mem[p][i])]]
  /\ answer' = [p \in Procs |-> [i \in Ids |-> Older(answer[p][i])]]
  /\ file' = OlderFile(file)
  /\ tmp' = OlderFile(tmp)
  /\ data' = [p \in Procs |-> OlderFile(data[p])]
  /\ UNCHANGED <<loaded, save, fd, job, asked, learned>>

Next ==
  \/ \E p \in Procs : Learn(p) \/ Open(p) \/ Write(p) \/ Rename(p) \/ SaveFails(p) \/ Restart(p)
  \/ \E j \in Jobs : Resolve(j) \/ Ask(j) \/ Record(j)
  \/ Tick

Spec == Init /\ [][Next]_vars

-----------------------------------------------------------------------------
(* One save at a time in a process: what it writes, and the file it has    *)
(* open, are those of the save under way (the mutex of Put).               *)
Inv ==
  /\ TypeOK
  /\ \A p \in Procs :
       /\ save[p] = "no" <=> data[p] = Missing
       /\ fd[p] # "none" => save[p] \in {"write", "rename"}
       /\ data[p] # Torn

(* A process takes an id for nobody only if the People API told that       *)
(* process so: not because a chunk failed (lookup), not from the file that *)
(* another process wrote (saveLocked), however torn, and never for someone *)
(* the directory knows.                                                    *)
NobodyIsGooglesAnswer ==
  \A p \in Procs, i \in Ids :
    mem[p][i].who = "nobody" => answer[p][i].who = "nobody" /\ i \notin InDirectory

(* An answer, a miss included, is remembered for its whole time: nothing   *)
(* that is saved, failed or loaded makes a process ask for it again        *)
(* (Put, saveLocked).                                                      *)
AnsweredIsRemembered ==
  \A p \in Procs, i \in Ids : ~Expired(answer[p][i]) => mem[p][i] = answer[p][i]

(* D-35: a payload with no address still resolves someone Chat has named   *)
(* to this process.                                                        *)
SeenIsResolved ==
  [][\A p \in Procs, i \in Ids :
       mem[p][i].who = "address" /\ ~Expired(mem[p][i]) /\ loaded'[p] => mem'[p][i].who = "address"]_vars
=============================================================================
