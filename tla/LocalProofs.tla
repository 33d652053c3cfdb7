----------------------------- MODULE LocalProofs -----------------------------
(***************************************************************************)
(* Proofs about what the program does on the person's computer: the login's*)
(* listener, the downloads, what a profile keeps, and what the person is   *)
(* told of it, for any requests, downloads, logins and outages.            *)
(*                                                                         *)
(* Of a method X, XInv is what holds while X is the method called, XKept   *)
(* says that, and XAlways that it is always so.                            *)
(***************************************************************************)
EXTENDS Service, Integers, Sequences, FiniteSetTheorems, TLAPS

-----------------------------------------------------------------------------
(* A login that waits for its callback (auth.go).                          *)

(* While the login waits, the channel holds the first outcome or nothing   *)
(* was delivered yet.  Once it took one it is the first's, whatever else   *)
(* the channel is given, and a request that is not ours ended it.          *)
SignInInv ==
  /\ past = [delivered |-> past.delivered] /\ past.delivered \in Seq(Requests)
  /\ call = [at |-> call.at, results |-> call.results, by |-> call.by]
  /\ call.by \subseteq Requests
  /\ world = [query |-> world.query, handler |-> world.handler]
  /\ world.query \in [Requests -> SignIn!Queries]
  /\ call.at = "waiting" =>
       /\ call.by = {}
       /\ past.delivered = <<>> => call.results = <<>>
       /\ past.delivered # <<>> => call.results = <<Head(past.delivered)>>
  /\ call.by # {} => past.delivered # <<>>
  /\ SignIn!FirstOutcomeIsTheLogin

(* A request that does not carry this login's state is a mismatch.         *)
LEMMA OutcomeOfStranger == \A q \in SignIn!Queries : ~q.ours => SignIn!OutcomeOf(q) = "mismatch"
  BY DEF SignIn!Queries, SignIn!OutcomeOf

(* What is handed over later does not change what was first.               *)
LEMMA HeadOfAppend ==
  ASSUME NEW s \in Seq(Requests), NEW r \in Requests
  PROVE  /\ Append(s, r) \in Seq(Requests) /\ Append(s, r) # <<>>
         /\ s # <<>> => Head(Append(s, r)) = Head(s)
         /\ s = <<>> => Head(Append(s, r)) = r
  OBVIOUS

LEMMA SignInDeliver ==
  ASSUME SignInInv, NEW r \in Requests, SignIn!Deliver(r)
  PROVE  SignInInv'
<1>1. past'.delivered = Append(past.delivered, r) /\ past' = [delivered |-> past'.delivered]
  BY DEF SignIn!Deliver
<1>2. /\ call'.at = call.at /\ call'.by = call.by
      /\ call'.results = SignIn!Offered(call.results, r)
      /\ call' = [at |-> call'.at, results |-> call'.results, by |-> call'.by]
  BY DEF SignIn!Deliver, SignInInv
<1>3. world'.query = world.query /\ world' = [query |-> world'.query, handler |-> world'.handler]
  BY DEF SignIn!Deliver, SignIn!Handler, SignInInv
<1>4. /\ past'.delivered \in Seq(Requests) /\ past'.delivered # <<>>
      /\ past.delivered # <<>> => Head(past'.delivered) = Head(past.delivered)
      /\ past.delivered = <<>> => Head(past'.delivered) = r
  BY <1>1, HeadOfAppend DEF SignInInv
<1>5. call.at = "waiting" => call'.results = <<Head(past'.delivered)>>
  <2>1. CASE past.delivered = <<>>
    BY <1>2, <1>4, <2>1 DEF SignInInv, SignIn!Offered
  <2>2. CASE past.delivered # <<>>
    BY <1>2, <1>4, <2>2 DEF SignInInv, SignIn!Offered
  <2>3. QED
    BY <2>1, <2>2
<1>6. SignIn!FirstOutcomeIsTheLogin'
  BY <1>2, <1>3, <1>4 DEF SignInInv, SignIn!FirstOutcomeIsTheLogin
<1>7. QED
  BY <1>1, <1>2, <1>3, <1>4, <1>5, <1>6 DEF SignInInv

LEMMA SignInReceive ==
  ASSUME SignInInv, SignIn!Receive
  PROVE  SignInInv'
<1> DEFINE first == Head(call.results)
<1>1. call.at = "waiting" /\ call.results # <<>> /\ UNCHANGED <<world, past>>
  BY DEF SignIn!Receive
<1>2. past.delivered # <<>> /\ first = Head(past.delivered) /\ first \in Requests
  <2>1. past.delivered # <<>> /\ call.results = <<Head(past.delivered)>>
    BY <1>1 DEF SignInInv
  <2>2. QED
    BY <2>1 DEF SignInInv
<1>3. world.query[first] \in SignIn!Queries
  BY <1>2 DEF SignInInv
<1>4. /\ call'.by = {first}
      /\ call' = [at |-> call'.at, results |-> call'.results, by |-> call'.by]
      /\ call'.at = IF SignIn!OutcomeOf(world.query[first]) = "code" THEN "exchange"
                    ELSE SignIn!OutcomeOf(world.query[first])
  BY DEF SignIn!Receive, SignInInv
<1>5. call'.at # "waiting"
  BY <1>3, <1>4 DEF SignIn!OutcomeOf, SignIn!Queries
<1>6. ~world.query[first].ours => call'.at = "mismatch"
  BY <1>3, <1>4, OutcomeOfStranger
<1>7. QED
  BY <1>1, <1>2, <1>4, <1>5, <1>6 DEF SignInInv, SignIn!FirstOutcomeIsTheLogin

LEMMA SignInStep ==
  ASSUME SignInInv, [SignIn!Next]_(SignIn!vars)
  PROVE  SignInInv'
<1>1. ASSUME NEW r \in Requests, SignIn!Callback(r) PROVE SignInInv'
  BY <1>1 DEF SignIn!Callback, SignIn!Handler, SignInInv, SignIn!FirstOutcomeIsTheLogin
<1>2. ASSUME NEW r \in Requests, SignIn!Deliver(r) PROVE SignInInv'
  BY <1>2, SignInDeliver
<1>3. CASE SignIn!Receive
  BY <1>3, SignInReceive
<1>4. CASE SignIn!TimesOut
  BY <1>4 DEF SignIn!TimesOut, SignInInv, SignIn!FirstOutcomeIsTheLogin
<1>5. CASE SignIn!Exchange
  <2>1. call'.by = call.by /\ call'.results = call.results /\ call.at = "exchange"
    BY <1>5 DEF SignIn!Exchange, SignInInv
  <2>2. call'.at \in {"signedIn", "failed"}
    BY <1>5 DEF SignIn!Exchange, SignInInv
  <2>3. call' = [at |-> call'.at, results |-> call'.results, by |-> call'.by]
    BY <1>5 DEF SignIn!Exchange, SignInInv
  <2>4. QED
    BY <1>5, <2>1, <2>2, <2>3 DEF SignIn!Exchange, SignInInv, SignIn!FirstOutcomeIsTheLogin
<1>6. CASE SignIn!Done \/ UNCHANGED SignIn!vars
  BY <1>6 DEF SignIn!Done, SignIn!vars, SignInInv, SignIn!FirstOutcomeIsTheLogin
<1>7. QED
  BY <1>1, <1>2, <1>3, <1>4, <1>5, <1>6 DEF SignIn!Next

LEMMA SignInInit == SignIn!Init => SignInInv
  BY DEF SignIn!Init, SignInInv, SignIn!FirstOutcomeIsTheLogin

SignInKept == which = "signIn" => SignInInv

LEMMA SignInAlways == Spec => []SignInKept
<1>1. Init => SignInKept
  BY SignInInit DEF Init, SignInKept
<1>2. SignInKept /\ [Next]_vars => SignInKept'
  <2>1. SUFFICES ASSUME SignInKept, [Next]_vars, which' = "signIn" PROVE SignInInv'
    BY DEF SignInKept
  <2>2. which = "signIn" /\ [SignIn!Next]_(SignIn!vars)
    BY <2>1 DEF SignInKept, Next, vars, SignIn!vars
  <2>3. QED
    BY <2>1, <2>2, SignInStep DEF SignInKept
<1>3. QED
  BY <1>1, <1>2, PTL DEF Spec

(* However many requests come to the callback, and in whatever order their *)
(* handlers run, the login is what the first one delivered made of it, and *)
(* nobody else's request signs it in or declines it (auth.go).             *)
THEOREM FirstDecides == Spec => []FirstOutcomeIsTheLogin
<1>1. SignInKept => FirstOutcomeIsTheLogin
  BY DEF SignInKept, FirstOutcomeIsTheLogin, SignInInv
<1>2. QED
  BY <1>1, SignInAlways, PTL

-----------------------------------------------------------------------------
(* Downloads into a directory (localfiles.go, attachments.go).             *)

(* Nobody else is a download, and at least one name is tried.              *)
Named ==
  /\ "person" \notin Downloads /\ "nobody" \notin Downloads
  /\ MaxNameCollisions \in Nat /\ MaxNameCollisions >= 1

(* A download's file is the one of its name, if it made one.               *)
Elsewhere(d) == \A n \in Download!Names : world[n].whose = d => n = call[d].name

(* Where a download is says what it has in the directory.                  *)
HasFile(d) ==
  LET file == world[call[d].name]
  IN /\ Elsewhere(d)
     /\ d \in past.left => call[d].at = "failed"
     /\ call[d].at = "create" => \A n \in Download!Names : world[n].whose # d
     /\ call[d].at = "failed" => \/ \A n \in Download!Names : world[n].whose # d
                                 \/ d \in past.left /\ file = Download!Partial(d)
     /\ call[d].at \in {"fetch", "remove"} => file = Download!Partial(d)
     /\ call[d].at = "done" => file = Download!Whole(d) \/ d \in past.taken

DownloadInv ==
  /\ Download!TypeOK
  /\ past = [kept |-> past.kept, taken |-> past.taken, left |-> past.left,
              changes |-> past.changes]
  /\ \A d \in Downloads : HasFile(d)
  /\ \A n \in past.kept : world[n] = Download!Theirs

LEMMA DownloadCreate ==
  ASSUME Named, DownloadInv, NEW d \in Downloads, Download!Create(d)
  PROVE  DownloadInv'
<1> USE DEF Download!Names
<1> DEFINE n == call[d].name
<1>1. n \in Download!Names /\ call[d].at = "create" /\ UNCHANGED past
  BY DEF Download!Create, DownloadInv, Download!TypeOK
<1>2. CASE /\ Download!Free(n) /\ world' = [world EXCEPT ![n] = Download!Partial(d)]
           /\ Download!Go(d, "fetch")
  <2>1. Download!TypeOK'
    BY <1>1, <1>2 DEF DownloadInv, Download!TypeOK, Download!Go, Download!Partial
  <2>2. /\ world'[n] = Download!Partial(d) /\ world[n] = Download!NoFile
        /\ \A m \in Download!Names : m # n => world'[m] = world[m]
    BY <1>1, <1>2 DEF DownloadInv, Download!TypeOK, Download!Free
  <2>3. /\ call'[d].name = n /\ call'[d].at = "fetch"
        /\ \A e \in Downloads : e # d => call'[e] = call[e]
    BY <1>1, <1>2 DEF DownloadInv, Download!TypeOK, Download!Go
  <2>4. HasFile(d)'
    BY <1>1, <2>2, <2>3 DEF DownloadInv, HasFile, Elsewhere
  <2>5. ASSUME NEW e \in Downloads, e # d PROVE HasFile(e)'
    <3>1. \A m \in Download!Names : world'[m].whose = e <=> world[m].whose = e
      BY <2>2, <2>5 DEF Download!Partial, Download!NoFile, Named
    <3>2. call[e].name \in Download!Names /\ HasFile(e) /\ call'[e] = call[e]
      BY <2>3, <2>5 DEF DownloadInv, Download!TypeOK
    <3>3. call[e].name = n =>
            /\ call[e].at \notin {"fetch", "remove"}
            /\ call[e].at = "done" => e \in past.taken
            /\ call[e].at = "failed" => \A m \in Download!Names : world[m].whose # e
      BY <2>2, <3>2 DEF HasFile, Download!NoFile, Download!Partial, Download!Whole, Named
    <3>4. QED
      BY <1>1, <2>2, <3>1, <3>2, <3>3 DEF HasFile, Elsewhere
  <2>6. \A m \in past.kept : world[m] = Download!Theirs /\ m \in Download!Names /\ m # n
    BY <2>2 DEF DownloadInv, Download!TypeOK, Download!Theirs, Download!NoFile
  <2>7. QED
    BY <1>1, <2>1, <2>2, <2>4, <2>5, <2>6 DEF DownloadInv
<1>3. CASE UNCHANGED world /\ call' = [call EXCEPT ![d].name = n + 1] /\ n + 1 \in Download!Names
  <2>1. Download!TypeOK'
    BY <1>1, <1>3 DEF DownloadInv, Download!TypeOK
  <2>2. call'[d].at = "create" /\ \A e \in Downloads : e # d => call'[e] = call[e]
    BY <1>1, <1>3 DEF DownloadInv, Download!TypeOK
  <2>3. \A e \in Downloads : HasFile(e)'
    BY <1>1, <1>3, <2>2 DEF DownloadInv, HasFile, Elsewhere
  <2>4. QED
    BY <1>1, <1>3, <2>1, <2>3 DEF DownloadInv
<1>4. CASE UNCHANGED world /\ call' = [call EXCEPT ![d].at = "failed"]
  <2>1. Download!TypeOK'
    BY <1>1, <1>4 DEF DownloadInv, Download!TypeOK
  <2>2. call'[d].at = "failed" /\ \A e \in Downloads : e # d => call'[e] = call[e]
    BY <1>1, <1>4 DEF DownloadInv, Download!TypeOK
  <2>3. \A e \in Downloads : HasFile(e)'
    BY <1>1, <1>4, <2>2 DEF DownloadInv, HasFile, Elsewhere
  <2>4. QED
    BY <1>1, <1>4, <2>1, <2>3 DEF DownloadInv
<1>5. QED
  BY <1>2, <1>3, <1>4 DEF Download!Create, Download!Go

LEMMA DownloadFetch ==
  ASSUME Named, DownloadInv, NEW d \in Downloads, Download!Fetch(d)
  PROVE  DownloadInv'
<1> DEFINE n == call[d].name
<1>1. /\ n \in Download!Names /\ call[d].at = "fetch" /\ world[n] = Download!Partial(d)
      /\ UNCHANGED past
  BY DEF Download!Fetch, DownloadInv, Download!TypeOK, HasFile
<1>2. CASE world' = [world EXCEPT ![n] = Download!Whole(d)] /\ Download!Go(d, "done")
  <2>1. Download!TypeOK'
    BY <1>1, <1>2 DEF DownloadInv, Download!TypeOK, Download!Go, Download!Whole
  <2>2. world'[n] = Download!Whole(d) /\ \A m \in Download!Names : m # n => world'[m] = world[m]
    BY <1>1, <1>2 DEF DownloadInv, Download!TypeOK
  <2>3. /\ call'[d].name = n /\ call'[d].at = "done"
        /\ \A e \in Downloads : e # d => call'[e] = call[e]
    BY <1>1, <1>2 DEF DownloadInv, Download!TypeOK, Download!Go
  <2>4. \A e \in Downloads, m \in Download!Names : world'[m].whose = e <=> world[m].whose = e
    BY <1>1, <2>2 DEF Download!Partial, Download!Whole
  <2>5. HasFile(d)'
    BY <1>1, <2>2, <2>3, <2>4 DEF DownloadInv, HasFile, Elsewhere
  <2>6. ASSUME NEW e \in Downloads, e # d PROVE HasFile(e)'
    <3>1. call[e].name \in Download!Names /\ HasFile(e) /\ call'[e] = call[e]
      BY <2>3, <2>6 DEF DownloadInv, Download!TypeOK
    <3>2. call[e].name = n =>
            /\ call[e].at \notin {"fetch", "remove"}
            /\ call[e].at = "done" => e \in past.taken
            /\ call[e].at = "failed" => \A m \in Download!Names : world[m].whose # e
      BY <1>1, <2>6, <3>1 DEF HasFile, Download!Partial, Download!Whole
    <3>3. QED
      BY <1>1, <2>2, <2>4, <3>1, <3>2 DEF HasFile, Elsewhere
  <2>7. \A m \in past.kept : world[m] = Download!Theirs /\ m \in Download!Names /\ m # n
    BY <1>1 DEF DownloadInv, Download!TypeOK, Download!Theirs, Download!Partial
  <2>8. QED
    BY <1>1, <2>1, <2>2, <2>5, <2>6, <2>7 DEF DownloadInv
<1>3. CASE Download!Go(d, "remove") /\ UNCHANGED world
  <2>1. Download!TypeOK'
    BY <1>1, <1>3 DEF DownloadInv, Download!TypeOK, Download!Go
  <2>2. /\ call'[d].at = "remove" /\ call'[d].name = n
        /\ \A e \in Downloads : e # d => call'[e] = call[e]
    BY <1>1, <1>3 DEF DownloadInv, Download!TypeOK, Download!Go
  <2>3. \A e \in Downloads : HasFile(e)'
    BY <1>1, <1>3, <2>2 DEF DownloadInv, HasFile, Elsewhere
  <2>4. QED
    BY <1>1, <1>3, <2>1, <2>3 DEF DownloadInv
<1>4. QED
  BY <1>2, <1>3 DEF Download!Fetch

LEMMA DownloadRemove ==
  ASSUME Named, DownloadInv, NEW d \in Downloads, Download!Remove(d)
  PROVE  DownloadInv'
<1> DEFINE n == call[d].name
<1>1. /\ n \in Download!Names /\ call[d].at = "remove" /\ world[n] = Download!Partial(d)
      /\ UNCHANGED past
  BY DEF Download!Remove, DownloadInv, Download!TypeOK, HasFile
<1>2. Download!TypeOK'
  BY <1>1 DEF Download!Remove, DownloadInv, Download!TypeOK, Download!Go, Download!NoFile
<1>3. world'[n] = Download!NoFile /\ \A m \in Download!Names : m # n => world'[m] = world[m]
  BY <1>1 DEF Download!Remove, DownloadInv, Download!TypeOK
<1>4. /\ call'[d].name = n /\ call'[d].at = "failed"
      /\ \A e \in Downloads : e # d => call'[e] = call[e]
  BY <1>1 DEF Download!Remove, DownloadInv, Download!TypeOK, Download!Go
<1>5. HasFile(d)'
  <2>1. HasFile(d)
    BY DEF DownloadInv
  <2>2. \A m \in Download!Names : world'[m].whose # d
    BY <1>1, <1>3, <2>1 DEF HasFile, Elsewhere, Download!NoFile, Named
  <2>3. QED
    BY <1>4, <2>2 DEF HasFile, Elsewhere
<1>6. ASSUME NEW e \in Downloads, e # d PROVE HasFile(e)'
  <2>1. call[e].name \in Download!Names /\ HasFile(e) /\ call'[e] = call[e]
    BY <1>4, <1>6 DEF DownloadInv, Download!TypeOK
  <2>2. call[e].name = n =>
          /\ call[e].at \notin {"fetch", "remove"}
          /\ call[e].at = "done" => e \in past.taken
          /\ call[e].at = "failed" => \A m \in Download!Names : world[m].whose # e
    BY <1>1, <1>6, <2>1 DEF HasFile, Download!Partial, Download!Whole
  <2>3. \A m \in Download!Names : world'[m].whose = e <=> world[m].whose = e
    BY <1>1, <1>3, <1>6 DEF Download!Partial, Download!NoFile, Named
  <2>4. QED
    BY <1>1, <1>3, <2>1, <2>2, <2>3 DEF HasFile, Elsewhere
<1>7. \A m \in past.kept : world[m] = Download!Theirs /\ m \in Download!Names /\ m # n
  BY <1>1 DEF DownloadInv, Download!TypeOK, Download!Theirs, Download!Partial
<1>8. QED
  BY <1>1, <1>2, <1>3, <1>5, <1>6, <1>7 DEF DownloadInv

(* A partial file stays where it was, and only there.                      *)
LEMMA DownloadLeaves ==
  ASSUME Named, DownloadInv, NEW d \in Downloads, call[d].at \in {"fetch", "remove"},
         Download!LeaveBehind(d)
  PROVE  DownloadInv'
<1>1. /\ UNCHANGED world /\ past'.kept = past.kept /\ past'.taken = past.taken
      /\ past'.left = past.left \cup {d}
      /\ past' = [kept |-> past'.kept, taken |-> past'.taken, left |-> past'.left,
                  changes |-> past'.changes]
  BY DEF Download!LeaveBehind, DownloadInv
<1>2. /\ call'[d].name = call[d].name /\ call'[d].at = "failed"
      /\ \A e \in Downloads : e # d => call'[e] = call[e]
  BY DEF Download!LeaveBehind, DownloadInv, Download!TypeOK, Download!Go
<1>3. Download!TypeOK'
  BY <1>1 DEF Download!LeaveBehind, DownloadInv, Download!TypeOK, Download!Go
<1>4. HasFile(d)'
  BY <1>1, <1>2 DEF DownloadInv, HasFile, Elsewhere
<1>5. ASSUME NEW e \in Downloads, e # d PROVE HasFile(e)'
  <2>1. HasFile(e)
    BY DEF DownloadInv
  <2>2. QED
    BY <1>1, <1>2, <1>5, <2>1 DEF HasFile, Elsewhere
<1>6. QED
  BY <1>1, <1>3, <1>4, <1>5 DEF DownloadInv

(* The person takes away only files that nobody writes to, so that a       *)
(* download's is one that is done or was left behind.                      *)
LEMMA DownloadPerson ==
  ASSUME Named, DownloadInv, Download!Person
  PROVE  DownloadInv'
<1>1. UNCHANGED call
  BY DEF Download!Person
<1>2. ASSUME NEW n \in Download!Names, world[n] = Download!NoFile,
             world' = [world EXCEPT ![n] = Download!Theirs],
             past' = [past EXCEPT !.kept = @ \cup {n}, !.changes = @ + 1]
      PROVE  DownloadInv'
  <2>1. /\ past'.kept = past.kept \cup {n} /\ past'.taken = past.taken /\ past'.left = past.left
        /\ past' = [kept |-> past'.kept, taken |-> past'.taken, left |-> past'.left,
                    changes |-> past'.changes]
    BY <1>2 DEF DownloadInv
  <2>2. Download!TypeOK'
    BY <1>1, <1>2, <2>1 DEF DownloadInv, Download!TypeOK, Download!Theirs
  <2>3. world'[n] = Download!Theirs /\ \A m \in Download!Names : m # n => world'[m] = world[m]
    BY <1>2 DEF DownloadInv, Download!TypeOK
  <2>4. ASSUME NEW e \in Downloads PROVE HasFile(e)'
    <3>1. call[e].name \in Download!Names /\ HasFile(e)
      BY DEF DownloadInv, Download!TypeOK
    <3>2. call[e].name = n =>
            /\ call[e].at \notin {"fetch", "remove"}
            /\ call[e].at = "done" => e \in past.taken
            /\ call[e].at = "failed" => \A m \in Download!Names : world[m].whose # e
      BY <1>2, <3>1 DEF HasFile, Download!NoFile, Download!Partial, Download!Whole, Named
    <3>3. \A m \in Download!Names : world'[m].whose = e <=> world[m].whose = e
      BY <1>2, <2>3 DEF Download!NoFile, Download!Theirs, Named
    <3>4. QED
      BY <1>1, <2>1, <2>3, <3>1, <3>2, <3>3 DEF HasFile, Elsewhere
  <2>5. QED
    BY <2>1, <2>2, <2>3, <2>4 DEF DownloadInv, Download!TypeOK
<1>3. ASSUME NEW n \in Download!Names, world[n].whole \/ world[n].whose \in past.left,
             world' = [world EXCEPT ![n] = Download!NoFile],
             past' = [past EXCEPT !.kept = @ \ {n}, !.changes = @ + 1,
                                  !.taken = @ \cup {world[n].whose}]
      PROVE  DownloadInv'
  <2>1. /\ past'.kept = past.kept \ {n} /\ past'.taken = past.taken \cup {world[n].whose}
        /\ past'.left = past.left
        /\ past' = [kept |-> past'.kept, taken |-> past'.taken, left |-> past'.left,
                    changes |-> past'.changes]
    BY <1>3 DEF DownloadInv
  <2>2. Download!TypeOK'
    BY <1>1, <1>3, <2>1 DEF DownloadInv, Download!TypeOK, Download!NoFile
  <2>3. world'[n] = Download!NoFile /\ \A m \in Download!Names : m # n => world'[m] = world[m]
    BY <1>3 DEF DownloadInv, Download!TypeOK
  <2>4. ASSUME NEW e \in Downloads PROVE HasFile(e)'
    <3>1. call[e].name \in Download!Names /\ HasFile(e)
      BY DEF DownloadInv, Download!TypeOK
    <3>2. \A m \in Download!Names : world'[m].whose = e => world[m].whose = e
      BY <2>3 DEF Download!NoFile, Named
    <3>3. call[e].name = n => /\ call[e].at \notin {"fetch", "remove"}
                              /\ call[e].at = "done" => e \in past'.taken
                              /\ \A m \in Download!Names : world'[m].whose # e
      BY <1>3, <2>1, <2>3, <3>1, <3>2
         DEF HasFile, Elsewhere, Download!Partial, Download!Whole, Download!NoFile, Named
    <3>4. QED
      BY <1>1, <2>1, <2>3, <3>1, <3>2, <3>3 DEF HasFile, Elsewhere
  <2>5. QED
    BY <2>1, <2>2, <2>3, <2>4 DEF DownloadInv, Download!TypeOK
<1>4. QED
  BY <1>2, <1>3 DEF Download!Person

LEMMA DownloadStep ==
  ASSUME Named, DownloadInv, [Download!Next]_(Download!vars)
  PROVE  DownloadInv'
<1>1. CASE Download!Done \/ UNCHANGED Download!vars
  BY <1>1 DEF Download!Done, Download!vars, DownloadInv, Download!TypeOK, HasFile, Elsewhere
<1>2. CASE \E d \in Downloads : Download!RemoveFails(d) \/ Download!Killed(d)
  BY <1>2, DownloadLeaves DEF Download!RemoveFails, Download!Killed
<1>3. QED
  BY <1>1, <1>2, DownloadCreate, DownloadFetch, DownloadRemove, DownloadPerson DEF Download!Next

LEMMA DownloadInit ==
  ASSUME Named, Download!Init
  PROVE  DownloadInv
<1>1. 1 \in Download!Names
  BY DEF Download!Names, Named
<1>2. /\ Download!TypeOK
      /\ past = [kept |-> past.kept, taken |-> past.taken, left |-> past.left,
                 changes |-> past.changes]
  <2>1. call \in [Downloads -> [at : {"create", "fetch", "remove", "done", "failed"},
                                name : Download!Names]]
    BY <1>1 DEF Download!Init
  <2>2. past.kept \subseteq Download!Names
    BY DEF Download!Init
  <2>3. {Download!NoFile, Download!Theirs}
          \subseteq [whose : Downloads \cup {"person", "nobody"}, whole : BOOLEAN]
    BY DEF Download!NoFile, Download!Theirs
  <2>4. world \in [Download!Names
                     -> [whose : Downloads \cup {"person", "nobody"}, whole : BOOLEAN]]
    BY <2>3 DEF Download!Init
  <2>5. past = [kept |-> past.kept, taken |-> past.taken, left |-> past.left,
                 changes |-> past.changes]
    BY DEF Download!Init
  <2>6. QED
    BY <2>1, <2>2, <2>4, <2>5 DEF Download!TypeOK
<1>3. ASSUME NEW d \in Downloads PROVE HasFile(d)
  <2>1. call[d].at = "create" /\ past.left = {}
    BY DEF Download!Init
  <2>2. ASSUME NEW n \in Download!Names PROVE world[n].whose # d
    <3>1. world[n] = Download!NoFile \/ world[n] = Download!Theirs
      BY DEF Download!Init
    <3>2. Download!NoFile.whose # d /\ Download!Theirs.whose # d
      BY DEF Download!NoFile, Download!Theirs, Named
    <3>3. QED
      BY <3>1, <3>2
  <2>3. QED
    BY <2>1, <2>2 DEF HasFile, Elsewhere
<1>4. \A n \in past.kept : world[n] = Download!Theirs
  BY DEF Download!Init
<1>5. QED
  BY <1>2, <1>3, <1>4 DEF DownloadInv

DownloadKept == which = "download" => DownloadInv

LEMMA DownloadAlways == Spec => []DownloadKept
<1>1. Init => DownloadKept
  BY DownloadsAssumption, DownloadInit DEF Init, Named, DownloadKept
<1>2. DownloadKept /\ [Next]_vars => DownloadKept'
  <2>1. SUFFICES ASSUME DownloadKept, [Next]_vars, which' = "download" PROVE DownloadInv'
    BY DEF DownloadKept
  <2>2. which = "download" /\ [Download!Next]_(Download!vars)
    BY <2>1 DEF DownloadKept, Next, vars, Download!vars
  <2>3. QED
    BY <2>1, <2>2, DownloadsAssumption, DownloadStep DEF Named, DownloadKept
<1>3. QED
  BY <1>1, <1>2, PTL DEF Spec

(* Any number of downloads into the directory, with the person's own files *)
(* coming and going, removals that fail and servers that are killed, write *)
(* over no file, remove none but their own partial ones and leave no other *)
(* (localfiles.go Create, attachments.go DownloadAttachment).              *)
THEOREM NoFileIsLost == Spec => []FilesAreKept
<1>1. DownloadKept => FilesAreKept
  BY DEF DownloadKept, FilesAreKept, Download!FilesAreKept, DownloadInv, HasFile, Elsewhere
<1>2. QED
  BY <1>1, DownloadAlways, PTL

-----------------------------------------------------------------------------
(* Logins and logouts of a profile (account.go, credentials.go).           *)

ProfileBounded == MaxCommands \in Nat /\ MaxOutages \in Nat

LoginPoints  == {"browser", "keyring", "tidy", "write", "fill", "rename", "profile"}
LogoutPoints == {"resolve", "nothing", "canceled", "revoke", "delete", "remove",
                 "removeAnyway", "forget", "forgetCache"}

Points ==
  /\ call \in [at : LoginPoints \cup LogoutPoints \cup {"idle", "done", "failed"},
               op : {"none", "login", "logout"}, token : Profile!Tokens \cup {Profile!None}]
  /\ call.at \in LoginPoints => call.op = "login"
  /\ call.at \in LogoutPoints => call.op = "logout"

(* Every token anywhere was granted by an earlier login or by this one,    *)
(* and every login that was granted one is a command.                      *)
Granted ==
  /\ world.keyring <= past.granted /\ call.token <= past.granted
  /\ world.file # Profile!Torn /\ world.file <= past.granted
  /\ \A t \in past.revoked : t <= past.granted
  /\ past.granted <= past.commands
  /\ call.at = "browser" => past.granted < past.commands

(* The token a login holds is its own and honoured, and is where the step  *)
(* it is at says.                                                          *)
Holding ==
  /\ call.at \in LoginPoints \ {"browser"} \/ (call.op = "login" /\ call.at = "done") =>
       call.token \in Profile!Tokens /\ call.token \notin past.revoked
  /\ call.at = "revoke" => call.token \in Profile!Tokens
  /\ call.at = "tidy" => world.keyring = call.token
  /\ call.at = "rename" => world.tmp = call.token
  /\ call.op = "login" /\ call.at \in {"profile", "done"} =>
       world.keyring = call.token \/ world.file = call.token

(* What a logout has removed stays removed while it runs, and the profile  *)
(* is signed out before the file goes.                                     *)
Removing ==
  /\ call.at \in {"remove", "removeAnyway"} => ~past.signedIn
  /\ call.at \in {"remove", "forget", "forgetCache"} => world.keyring = Profile!None
  /\ call.at \in {"forget", "forgetCache"} => world.file = Profile!None
  /\ call.at = "forgetCache" => world.profile = Profile!None
  /\ call.op = "logout" /\ call.at = "done" =>
       world.keyring = Profile!None /\ world.file = Profile!None /\ world.profile = Profile!None

Stored == past.signedIn => world.keyring # Profile!None \/ world.file \in Profile!Tokens

ProfileInv == Profile!TypeOK /\ Points /\ Granted /\ Holding /\ Removing /\ Stored

USE DEF Profile!None, Profile!Torn, Profile!Tokens, Profile!Go, Profile!Put, Profile!Target,
        LoginPoints, LogoutPoints

LEMMA ProfileInit ==
  ASSUME MaxCommands \in Nat, MaxOutages \in Nat, Profile!Init
  PROVE  ProfileInv
BY DEF Profile!Init, ProfileInv, Profile!TypeOK, Points, Granted, Holding, Removing, Stored

LEMMA ProfileLogin ==
  ASSUME MaxCommands \in Nat, MaxOutages \in Nat, ProfileInv,
         Profile!Start \/ Profile!Login \/ Profile!SaveToKeyring \/ Profile!Tidy \/
         Profile!OpenFile \/ Profile!FillFile \/ Profile!Rename \/ Profile!SaveProfile
  PROVE  ProfileInv'
<1> USE DEF ProfileInv, Profile!TypeOK, Points, Granted, Holding, Removing, Stored
<1>1. CASE Profile!Start
  <2>1. Profile!TypeOK'
    BY <1>1 DEF Profile!Start
  <2>2. Points'
    BY <1>1 DEF Profile!Start
  <2>3. Granted'
    BY <1>1 DEF Profile!Start
  <2>4. Holding'
    BY <1>1 DEF Profile!Start
  <2>5. Removing'
    BY <1>1 DEF Profile!Start
  <2>6. Stored'
    BY <1>1 DEF Profile!Start
  <2>7. QED
    BY <2>1, <2>2, <2>3, <2>4, <2>5, <2>6
<1>2. CASE Profile!Login
  <2>1. /\ past.granted + 1 \in Profile!Tokens /\ past.granted + 1 <= past.commands
        /\ past.granted + 1 \notin past.revoked /\ UNCHANGED world
    BY <1>2 DEF Profile!Login
  <2>2. CASE /\ call' = [call EXCEPT !.at = "keyring", !.token = past.granted + 1]
             /\ past' = [past EXCEPT !.granted = @ + 1]
    <3>1. /\ call'.at = "keyring" /\ call'.op = "login" /\ call'.token = past.granted + 1
          /\ call' \in [at : {"keyring"}, op : {"login"}, token : Profile!Tokens]
      BY <1>2, <2>1, <2>2 DEF Profile!Login
    <3>2. /\ past'.granted = past.granted + 1 /\ past'.granted \in 0..MaxCommands
          /\ past'.commands = past.commands /\ past'.revoked = past.revoked
          /\ past'.signedIn = past.signedIn
      BY <2>1, <2>2
    <3>3. past' \in [signedIn : BOOLEAN, granted : 0..MaxCommands, commands : 0..MaxCommands,
                     outages : 0..MaxOutages, revoked : SUBSET Profile!Tokens]
      BY <2>2, <3>2
    <3>4. Profile!TypeOK' /\ Points'
      BY <2>1, <3>1, <3>3
    <3>5. Granted'
      <4>1. /\ world.keyring \in Nat /\ world.file \in Nat
            /\ \A t \in past.revoked : t \in Nat
            /\ past.granted \in Nat /\ past.commands \in Nat
        OBVIOUS
      <4>2. QED
        BY <2>1, <3>1, <3>2, <4>1
    <3>6. QED
      BY <2>1, <3>1, <3>2, <3>4, <3>5
  <2>3. CASE Profile!Go("failed") /\ UNCHANGED past
    BY <1>2, <2>1, <2>3
  <2>4. QED
    BY <1>2, <2>2, <2>3 DEF Profile!Login
<1>3. CASE Profile!SaveToKeyring
  <2>1. Profile!TypeOK'
    BY <1>3 DEF Profile!SaveToKeyring
  <2>2. Points'
    BY <1>3 DEF Profile!SaveToKeyring
  <2>3. Granted'
    BY <1>3 DEF Profile!SaveToKeyring
  <2>4. Holding'
    BY <1>3 DEF Profile!SaveToKeyring
  <2>5. Removing'
    BY <1>3 DEF Profile!SaveToKeyring
  <2>6. Stored'
    BY <1>3 DEF Profile!SaveToKeyring
  <2>7. QED
    BY <2>1, <2>2, <2>3, <2>4, <2>5, <2>6
<1>4. CASE Profile!Tidy
  <2>1. Profile!TypeOK'
    <3>1. CASE Profile!Put("file", Profile!None)
      BY <1>4, <3>1 DEF Profile!Tidy
    <3>2. CASE UNCHANGED world
      BY <1>4, <3>2 DEF Profile!Tidy
    <3>3. QED
      BY <1>4, <3>1, <3>2 DEF Profile!Tidy
  <2>2. Points'
    BY <1>4 DEF Profile!Tidy
  <2>3. Granted'
    BY <1>4 DEF Profile!Tidy
  <2>4. Holding'
    BY <1>4 DEF Profile!Tidy
  <2>5. Removing'
    BY <1>4 DEF Profile!Tidy
  <2>6. Stored'
    BY <1>4 DEF Profile!Tidy
  <2>7. QED
    BY <2>1, <2>2, <2>3, <2>4, <2>5, <2>6
<1>5. CASE Profile!OpenFile
  <2>1. Profile!TypeOK'
    BY <1>5 DEF Profile!OpenFile
  <2>2. Points'
    BY <1>5 DEF Profile!OpenFile
  <2>3. Granted'
    BY <1>5 DEF Profile!OpenFile
  <2>4. Holding'
    BY <1>5 DEF Profile!OpenFile
  <2>5. Removing'
    BY <1>5 DEF Profile!OpenFile
  <2>6. Stored'
    BY <1>5 DEF Profile!OpenFile
  <2>7. QED
    BY <2>1, <2>2, <2>3, <2>4, <2>5, <2>6
<1>6. CASE Profile!FillFile
  <2>1. Profile!TypeOK'
    BY <1>6 DEF Profile!FillFile
  <2>2. Points'
    BY <1>6 DEF Profile!FillFile
  <2>3. Granted'
    BY <1>6 DEF Profile!FillFile
  <2>4. Holding'
    BY <1>6 DEF Profile!FillFile
  <2>5. Removing'
    BY <1>6 DEF Profile!FillFile
  <2>6. Stored'
    BY <1>6 DEF Profile!FillFile
  <2>7. QED
    BY <2>1, <2>2, <2>3, <2>4, <2>5, <2>6
<1>7. CASE Profile!Rename
  <2>1. /\ world[Profile!Target] = call.token /\ call.token \in Profile!Tokens
        /\ call.at = "rename" /\ call.op = "login"
    BY <1>7 DEF Profile!Rename
  <2>2. CASE /\ world' = [world EXCEPT !.file = world[Profile!Target], !.tmp = Profile!None]
             /\ past' = [past EXCEPT !.signedIn = TRUE]
             /\ Profile!Go("profile")
    <3>1. /\ world' = [world EXCEPT !.file = call.token, !.tmp = Profile!None]
          /\ call' = [call EXCEPT !.at = "profile"]
      BY <2>1, <2>2
    <3>2. /\ call.token # Profile!Torn /\ call.token <= past.granted
          /\ call.token \notin past.revoked
      BY <2>1
    <3>3. Profile!TypeOK'
      BY <2>1, <2>2, <3>1
    <3>4. Points'
      BY <2>1, <3>1
    <3>5. Granted'
      BY <2>1, <2>2, <3>1, <3>2
    <3>6. Holding'
      BY <2>1, <2>2, <3>1, <3>2
    <3>7. Removing' /\ Stored'
      BY <2>1, <2>2, <3>1
    <3>8. QED
      BY <3>3, <3>4, <3>5, <3>6, <3>7
  <2>3. CASE Profile!Go("failed") /\ UNCHANGED <<world, past>>
    <3>1. call' = [call EXCEPT !.at = "failed"] /\ world' = world /\ past' = past
      BY <2>3
    <3>2. Profile!TypeOK' /\ Points'
      BY <2>1, <3>1
    <3>3. Granted' /\ Stored'
      BY <2>1, <3>1
    <3>4. Holding' /\ Removing'
      BY <2>1, <3>1
    <3>5. QED
      BY <3>2, <3>3, <3>4
  <2>4. QED
    BY <1>7, <2>2, <2>3 DEF Profile!Rename
<1>8. CASE Profile!SaveProfile
  <2>1. Profile!TypeOK'
    BY <1>8 DEF Profile!SaveProfile
  <2>2. Points'
    BY <1>8 DEF Profile!SaveProfile
  <2>3. Granted'
    BY <1>8 DEF Profile!SaveProfile
  <2>4. Holding'
    BY <1>8 DEF Profile!SaveProfile
  <2>5. Removing'
    BY <1>8 DEF Profile!SaveProfile
  <2>6. Stored'
    BY <1>8 DEF Profile!SaveProfile
  <2>7. QED
    BY <2>1, <2>2, <2>3, <2>4, <2>5, <2>6
<1>9. QED
  BY <1>1, <1>2, <1>3, <1>4, <1>5, <1>6, <1>7, <1>8

LEMMA ProfileLogout ==
  ASSUME MaxCommands \in Nat, MaxOutages \in Nat, ProfileInv,
         Profile!Confirm \/ Profile!Revoke \/ Profile!DeleteFromKeyring \/ Profile!RemoveFile \/
         Profile!Remove
  PROVE  ProfileInv'
<1> USE DEF ProfileInv, Profile!TypeOK, Points, Granted, Holding, Removing, Stored
<1>1. CASE Profile!Confirm
  <2>1. Profile!ResolveStored(world) \in Profile!Tokens \cup {Profile!None}
    BY DEF Profile!ResolveStored
  <2>2. call.op = "logout" /\ UNCHANGED <<world, past>>
    BY <1>1 DEF Profile!Confirm
  <2>3. CASE call' = [call EXCEPT !.at = "nothing"] \/ call' = [call EXCEPT !.at = "canceled"]
    <3>1. /\ call'.at \in {"nothing", "canceled"} /\ call'.op = "logout"
          /\ call'.token = call.token
          /\ call' \in [at : {"nothing", "canceled"}, op : {"logout"},
                        token : Profile!Tokens \cup {Profile!None}]
      BY <2>2, <2>3
    <3>2. QED
      BY <2>2, <3>1
  <2>4. CASE /\ call' = [call EXCEPT !.at = "revoke", !.token = Profile!ResolveStored(world)]
             /\ Profile!ResolveStored(world) # Profile!None
    <3>1. /\ call'.at = "revoke" /\ call'.op = "logout" /\ call'.token \in Profile!Tokens
          /\ call' \in [at : {"revoke"}, op : {"logout"}, token : Profile!Tokens]
      BY <2>1, <2>2, <2>4
    <3>2. call'.token <= past.granted
      BY <2>4 DEF Profile!ResolveStored
    <3>3. QED
      BY <2>2, <3>1, <3>2
  <2>5. QED
    BY <1>1, <2>3, <2>4 DEF Profile!Confirm
<1>2. CASE Profile!Revoke
  <2>1. Profile!TypeOK'
    <3>1. CASE /\ past' = [past EXCEPT !.revoked = @ \cup {call.token}]
               /\ call.token \in Profile!Tokens
      BY <1>2, <3>1 DEF Profile!Revoke
    <3>2. CASE UNCHANGED past
      BY <1>2, <3>2 DEF Profile!Revoke
    <3>3. QED
      BY <1>2, <3>1, <3>2 DEF Profile!Revoke
  <2>2. Points'
    BY <1>2 DEF Profile!Revoke
  <2>3. Granted'
    BY <1>2 DEF Profile!Revoke
  <2>4. Holding'
    BY <1>2 DEF Profile!Revoke
  <2>5. Removing'
    BY <1>2 DEF Profile!Revoke
  <2>6. Stored'
    BY <1>2 DEF Profile!Revoke
  <2>7. QED
    BY <2>1, <2>2, <2>3, <2>4, <2>5, <2>6
<1>3. CASE Profile!DeleteFromKeyring
  <2>1. Profile!TypeOK'
    <3>1. /\ past' = [past EXCEPT !.signedIn = FALSE]
          /\ call'.op = call.op /\ call'.token = call.token
      BY <1>3 DEF Profile!DeleteFromKeyring
    <3>2. world' = [world EXCEPT !.keyring = Profile!None] \/ world' = world
      BY <1>3 DEF Profile!DeleteFromKeyring
    <3>3. world' \in [keyring : Profile!Tokens \cup {Profile!None}, up : BOOLEAN,
                      file : Profile!Tokens \cup {Profile!None, Profile!Torn},
                      tmp : Profile!Tokens \cup {Profile!None, Profile!Torn},
                      profile : Profile!Tokens \cup {Profile!None}, cache : BOOLEAN]
      BY <3>2
    <3>4. past' \in [signedIn : BOOLEAN, granted : 0..MaxCommands, commands : 0..MaxCommands,
                     outages : 0..MaxOutages, revoked : SUBSET Profile!Tokens]
      BY <3>1
    <3>5. QED
      BY <3>1, <3>3, <3>4
  <2>2. Points'
    BY <1>3 DEF Profile!DeleteFromKeyring
  <2>3. Granted'
    BY <1>3 DEF Profile!DeleteFromKeyring
  <2>4. Holding'
    BY <1>3 DEF Profile!DeleteFromKeyring
  <2>5. Removing'
    BY <1>3 DEF Profile!DeleteFromKeyring
  <2>6. Stored'
    BY <1>3 DEF Profile!DeleteFromKeyring
  <2>7. QED
    BY <2>1, <2>2, <2>3, <2>4, <2>5, <2>6
<1>4. CASE Profile!RemoveFile
  <2>1. Profile!TypeOK'
    BY <1>4 DEF Profile!RemoveFile
  <2>2. Points'
    BY <1>4 DEF Profile!RemoveFile
  <2>3. Granted'
    BY <1>4 DEF Profile!RemoveFile
  <2>4. Holding'
    BY <1>4 DEF Profile!RemoveFile
  <2>5. Removing'
    BY <1>4 DEF Profile!RemoveFile
  <2>6. Stored'
    BY <1>4 DEF Profile!RemoveFile
  <2>7. QED
    BY <2>1, <2>2, <2>3, <2>4, <2>5, <2>6
<1>5. CASE Profile!Remove
  <2>1. Profile!TypeOK'
    <3>1. CASE Profile!Put("profile", Profile!None)
      BY <1>5, <3>1 DEF Profile!Remove
    <3>2. CASE Profile!Put("cache", FALSE)
      BY <1>5, <3>2 DEF Profile!Remove
    <3>3. CASE UNCHANGED world
      BY <1>5, <3>3 DEF Profile!Remove
    <3>4. QED
      BY <1>5, <3>1, <3>2, <3>3 DEF Profile!Remove
  <2>2. Points'
    BY <1>5 DEF Profile!Remove
  <2>3. Granted'
    BY <1>5 DEF Profile!Remove
  <2>4. Holding'
    BY <1>5 DEF Profile!Remove
  <2>5. Removing'
    BY <1>5 DEF Profile!Remove
  <2>6. Stored'
    BY <1>5 DEF Profile!Remove
  <2>7. QED
    BY <2>1, <2>2, <2>3, <2>4, <2>5, <2>6
<1>6. QED
  BY <1>1, <1>2, <1>3, <1>4, <1>5

LEMMA ProfileOthers ==
  ASSUME MaxCommands \in Nat, MaxOutages \in Nat, ProfileInv,
         Profile!Serve \/ Profile!Outage \/ Profile!Exit \/
         Profile!Rest \/ UNCHANGED Profile!vars
  PROVE  ProfileInv'
<1> USE DEF ProfileInv, Profile!TypeOK, Points, Granted, Holding, Removing, Stored
<1>1. CASE Profile!Serve
  <2>1. Profile!TypeOK'
    BY <1>1 DEF Profile!Serve
  <2>2. Points'
    BY <1>1 DEF Profile!Serve
  <2>3. Granted'
    BY <1>1 DEF Profile!Serve
  <2>4. Holding'
    BY <1>1 DEF Profile!Serve
  <2>5. Removing'
    BY <1>1 DEF Profile!Serve
  <2>6. Stored'
    BY <1>1 DEF Profile!Serve
  <2>7. QED
    BY <2>1, <2>2, <2>3, <2>4, <2>5, <2>6
<1>2. CASE Profile!Outage
  <2>1. Profile!TypeOK'
    <3>1. past.outages + 1 \in 0..MaxOutages
      BY <1>2 DEF Profile!Outage
    <3>2. past' \in [signedIn : BOOLEAN, granted : 0..MaxCommands, commands : 0..MaxCommands,
                     outages : 0..MaxOutages, revoked : SUBSET Profile!Tokens]
      BY <1>2, <3>1 DEF Profile!Outage
    <3>3. QED
      BY <1>2, <3>2 DEF Profile!Outage
  <2>2. Points'
    BY <1>2 DEF Profile!Outage
  <2>3. Granted'
    BY <1>2 DEF Profile!Outage
  <2>4. Holding'
    BY <1>2 DEF Profile!Outage
  <2>5. Removing'
    BY <1>2 DEF Profile!Outage
  <2>6. Stored'
    BY <1>2 DEF Profile!Outage
  <2>7. QED
    BY <2>1, <2>2, <2>3, <2>4, <2>5, <2>6
<1>3. CASE Profile!Exit
  <2>1. Profile!TypeOK'
    BY <1>3 DEF Profile!Exit
  <2>2. Points'
    BY <1>3 DEF Profile!Exit
  <2>3. Granted'
    BY <1>3 DEF Profile!Exit
  <2>4. Holding'
    BY <1>3 DEF Profile!Exit
  <2>5. Removing'
    BY <1>3 DEF Profile!Exit
  <2>6. Stored'
    BY <1>3 DEF Profile!Exit
  <2>7. QED
    BY <2>1, <2>2, <2>3, <2>4, <2>5, <2>6
<1>4. CASE Profile!Rest \/ UNCHANGED Profile!vars
  <2>1. Profile!TypeOK'
    BY <1>4 DEF Profile!Rest, Profile!vars
  <2>2. Points'
    BY <1>4 DEF Profile!Rest, Profile!vars
  <2>3. Granted'
    BY <1>4 DEF Profile!Rest, Profile!vars
  <2>4. Holding'
    BY <1>4 DEF Profile!Rest, Profile!vars
  <2>5. Removing'
    BY <1>4 DEF Profile!Rest, Profile!vars
  <2>6. Stored'
    BY <1>4 DEF Profile!Rest, Profile!vars
  <2>7. QED
    BY <2>1, <2>2, <2>3, <2>4, <2>5, <2>6
<1>5. QED
  BY <1>1, <1>2, <1>3, <1>4

LEMMA ProfileStep ==
  ASSUME MaxCommands \in Nat, MaxOutages \in Nat, ProfileInv, [Profile!Next]_(Profile!vars)
  PROVE  ProfileInv'
  BY ProfileLogin, ProfileLogout, ProfileOthers DEF Profile!Next

ProfileKept == which = "profile" => ProfileInv

LEMMA ProfileAlways == Spec => []ProfileKept
<1>1. Init => ProfileKept
  BY BoundsAssumption, ProfileInit DEF Init, ProfileKept
<1>2. ProfileKept /\ [Next]_vars => ProfileKept'
  <2>1. SUFFICES ASSUME ProfileKept, [Next]_vars, which' = "profile" PROVE ProfileInv'
    BY DEF ProfileKept
  <2>2. which = "profile" /\ [Profile!Next]_(Profile!vars)
    BY <2>1 DEF ProfileKept, Next, vars, Profile!vars
  <2>3. QED
    BY <2>1, <2>2, BoundsAssumption, ProfileStep DEF ProfileKept
<1>3. QED
  BY <1>1, <1>2, PTL DEF Spec

(* However often the person logs in and out, wherever a command fails or   *)
(* is killed, and however the keyring comes and goes: a profile that was   *)
(* signed in keeps a whole token, a login that saved stored one that is    *)
(* honoured, and a logout that ended well left nothing                     *)
(* (credentials.go Save and Delete, account.go cmdLogin and cmdLogout).    *)
THEOREM SignedInStays == Spec => []TokenIsKept
<1>1. ProfileKept => TokenIsKept
  BY DEF ProfileKept, TokenIsKept, Profile!TokenIsKept, ProfileInv, Profile!TypeOK,
         Points, Granted, Holding, Removing, Stored
<1>2. QED
  BY <1>1, ProfileAlways, PTL

-----------------------------------------------------------------------------
(* What a failed call is told as (errors.go).                              *)

(* What an error is taken for, by what is wrong and how it was asked for.  *)
Diagnosed(e, cause, unrepeatable) ==
  /\ Errors!Classify(e) \in {"auth", "scope"} <=> cause \in Errors!SignInHelps
  /\ Errors!IsMissingScope(e) <=> cause = "noScope"
  /\ Errors!Classify(e) = "rate_limited" <=> cause = "rate"
  /\ Errors!Classify(e) = "quota" <=> cause = "quota"
  /\ Errors!Classify(e) = "forbidden" <=> cause \in {"denied", "disabled"}
  /\ Errors!Classify(e) = "server" <=> cause = "failing"
  /\ Errors!Classify(e) = "not_found" <=> cause = "notThere"
  /\ Errors!Classify(e) = "invalid" <=> cause = "badRequest"
  /\ Errors!Classify(e) = "unexpected" <=> cause \in {"tokenFailed", "unsent", "broken"}
  /\ Errors!IsForbidden(e) <=> cause = "denied"
  /\ Errors!IsNotFound(e) <=> cause = "notThere"
  /\ Errors!IsAlreadyExists(e) <=> cause = "exists"
  /\ \A ended \in BOOLEAN :
       Errors!degraded(e, ended) <=> cause \in {"noScope", "badToken", "disabled"} \/ ended
  /\ e.uncertain = (unrepeatable /\ cause \in {"failing", "broken"})

LEMMA WordsWord == \A w, spelled : Errors!Word(w, spelled).word = w
  BY DEF Errors!Word

(* A reason is in a list of errors.go however it is spelled.               *)
LEMMA ReasonIsItsWord ==
  ASSUME NEW reason
  PROVE  /\ Errors!matchesReason(reason, Errors!scopeReasons) <=> reason.word \in Errors!ScopeWords
         /\ Errors!matchesReason(reason, Errors!quotaReasons) <=> reason.word \in Errors!QuotaWords
         /\ Errors!matchesReason(reason, Errors!rateReasons) <=> reason.word \in Errors!RateWords
         /\ Errors!matchesReason(reason, Errors!serviceDisabledReasons)
              <=> reason.word \in Errors!DisabledWords
<1> USE WordsWord DEF Errors!matchesReason, Errors!sameReason
<1>1. Errors!matchesReason(reason, Errors!scopeReasons) <=> reason.word \in Errors!ScopeWords
  BY DEF Errors!scopeReasons, Errors!ScopeWords
<1>2. Errors!matchesReason(reason, Errors!quotaReasons) <=> reason.word \in Errors!QuotaWords
  <2>1. "" \notin Errors!QuotaWords
    BY DEF Errors!QuotaWords
  <2>2. ASSUME NEW w \in Errors!quotaReasons, reason.word = w.word
        PROVE  reason.word \in Errors!QuotaWords
    BY <2>2 DEF Errors!quotaReasons
  <2>3. ASSUME reason.word \in Errors!QuotaWords
        PROVE  \E w \in Errors!quotaReasons : reason.word # "" /\ reason.word = w.word
    BY <2>1, <2>3 DEF Errors!quotaReasons
  <2>4. QED
    BY <2>2, <2>3
<1>3. Errors!matchesReason(reason, Errors!rateReasons) <=> reason.word \in Errors!RateWords
  <2>1. "" \notin Errors!RateWords
    BY DEF Errors!RateWords
  <2>2. ASSUME NEW w \in Errors!rateReasons, reason.word = w.word
        PROVE  reason.word \in Errors!RateWords
    BY <2>2 DEF Errors!rateReasons
  <2>3. ASSUME reason.word \in Errors!RateWords
        PROVE  \E w \in Errors!rateReasons : reason.word # "" /\ reason.word = w.word
    BY <2>1, <2>3 DEF Errors!rateReasons
  <2>4. QED
    BY <2>2, <2>3
<1>4. Errors!matchesReason(reason, Errors!serviceDisabledReasons)
        <=> reason.word \in Errors!DisabledWords
  BY DEF Errors!serviceDisabledReasons, Errors!DisabledWords
<1>5. QED
  BY <1>1, <1>2, <1>3, <1>4

(* The first word of the details and the older list, one after the other.  *)
LEMMA FirstWord ==
  ASSUME NEW a
  PROVE  /\ a.details = <<>> /\ a.errors = <<>> => Errors!FirstReason(a) = Errors!NoWord
         /\ \A none, r :
              /\ none.word = "" /\ r.word # ""
              /\ \/ a.details = <<none, r>> /\ a.errors = <<>>
                 \/ a.details = <<>> /\ a.errors = <<r>>
              => Errors!FirstReason(a) = r
<1> DEFINE First(all) ==
      {i \in DOMAIN all : all[i].word # "" /\ \A j \in 1..(i - 1) : all[j].word = ""}
<1>1. Errors!FirstReason(a) =
        IF First(a.details \o a.errors) = {} THEN Errors!NoWord
        ELSE (a.details \o a.errors)[CHOOSE i \in First(a.details \o a.errors) : TRUE]
  BY DEF Errors!FirstReason
<1>2. ASSUME a.details = <<>>, a.errors = <<>> PROVE Errors!FirstReason(a) = Errors!NoWord
  <2>1. <<>> \o <<>> = <<>>
    OBVIOUS
  <2>2. First(<<>>) = {}
    OBVIOUS
  <2>3. QED
    BY <1>1, <1>2, <2>1, <2>2
<1>3. ASSUME NEW none, NEW r, none.word = "", r.word # "", a.details = <<none, r>>, a.errors = <<>>
      PROVE  Errors!FirstReason(a) = r
  <2>1. <<none, r>> \o <<>> = <<none, r>>
    OBVIOUS
  <2>2. PICK all : all = <<none, r>>
    OBVIOUS
  <2>3. DOMAIN all = {1, 2} /\ all[1] = none /\ all[2] = r
    BY <2>2
  <2>4. 1..(1 - 1) = {} /\ 1..(2 - 1) = {1}
    OBVIOUS
  <2>5. First(all) = {2}
    <3>1. \A i \in First(all) : i = 2
      BY <1>3, <2>3
    <3>2. 2 \in First(all)
      BY <1>3, <2>3, <2>4
    <3>3. QED
      BY <3>1, <3>2
  <2> HIDE DEF First
  <2>6. QED
    BY <1>1, <1>3, <2>1, <2>2, <2>3, <2>5
<1>4. ASSUME NEW r, r.word # "", a.details = <<>>, a.errors = <<r>>
      PROVE  Errors!FirstReason(a) = r
  <2>1. <<>> \o <<r>> = <<r>>
    OBVIOUS
  <2>2. PICK all : all = <<r>>
    OBVIOUS
  <2>3. DOMAIN all = {1} /\ all[1] = r
    BY <2>2
  <2>4. 1..(1 - 1) = {}
    OBVIOUS
  <2>5. First(all) = {1}
    <3>1. \A i \in First(all) : i = 1
      BY <2>3
    <3>2. 1 \in First(all)
      BY <1>4, <2>3, <2>4
    <3>3. QED
      BY <3>1, <3>2
  <2> HIDE DEF First
  <2>6. QED
    BY <1>1, <1>4, <2>1, <2>2, <2>3, <2>5
<1>5. QED
  BY <1>2, <1>3, <1>4

(* What the parser makes of an answer whose first reason is this one.      *)
LEMMA Parsed ==
  ASSUME NEW a, NEW u \in BOOLEAN, NEW e, e = Errors!parseAPIError(a, u)
  PROVE  /\ e.api /\ ~e.reauthorize /\ e.status = a.status /\ e.code = a.code
         /\ e.reason = Errors!FirstReason(a) /\ e.ofScopes = a.ofScopes
         /\ e.uncertain = (u /\ a.status >= 500)
  BY DEF Errors!parseAPIError, Errors!Error

(* The word of an answer that gives no reason.                             *)
Silent == Errors!NoWord.word

LEMMA SilentIsNoReason ==
  /\ Silent = ""
  /\ Silent \notin Errors!ScopeWords /\ Silent \notin Errors!QuotaWords
  /\ Silent \notin Errors!RateWords /\ Silent \notin Errors!DisabledWords
<1>1. Silent = ""
  BY WordsWord, Zenon DEF Silent, Errors!NoWord
<1>2. /\ "" \notin Errors!ScopeWords /\ "" \notin Errors!QuotaWords
      /\ "" \notin Errors!RateWords /\ "" \notin Errors!DisabledWords
  BY Zenon DEF Errors!ScopeWords, Errors!QuotaWords, Errors!RateWords, Errors!DisabledWords
<1>3. QED
  BY <1>1, <1>2

(* What an answer says, and the words its first reason is one of.          *)
Says(a, status, code, words, ofScopes) ==
  /\ a.status = status /\ a.code = code /\ a.ofScopes = ofScopes
  /\ Errors!FirstReason(a).word \in words

LEMMA SaysPlainly ==
  ASSUME NEW status, NEW code, NEW ofScopes, NEW a,
         a = Errors!Answer(status, code, <<>>, <<>>, ofScopes)
  PROVE  Says(a, status, code, {Silent}, ofScopes)
<1>1. /\ a.status = status /\ a.code = code /\ a.ofScopes = ofScopes
      /\ a.details = <<>> /\ a.errors = <<>>
  BY DEF Errors!Answer
<1>2. Errors!FirstReason(a) = Errors!NoWord
  BY <1>1, FirstWord
<1>3. QED
  BY <1>1, <1>2 DEF Silent, Says

LEMMA SaysItsReason ==
  ASSUME NEW status, NEW code, NEW words, Silent \notin words,
         NEW a \in Errors!Reasoned(status, code, words)
  PROVE  Says(a, status, code, words, FALSE)
<1>1. PICK r \in [word : words, spelled : Errors!Spelled] :
        a \in {Errors!Answer(status, code, <<Errors!NoWord, r>>, <<>>, FALSE),
               Errors!Answer(status, code, <<>>, <<r>>, FALSE)}
  BY DEF Errors!Reasoned
<1>2. PICK none : none = Errors!NoWord
  OBVIOUS
<1>3. none.word = "" /\ r.word \in words /\ r.word # ""
  BY <1>2, SilentIsNoReason DEF Silent
<1>4. \/ a = Errors!Answer(status, code, <<none, r>>, <<>>, FALSE)
      \/ a = Errors!Answer(status, code, <<>>, <<r>>, FALSE)
  BY <1>1, <1>2
<1>5. /\ a.status = status /\ a.code = code /\ a.ofScopes = FALSE
      /\ \/ a.details = <<none, r>> /\ a.errors = <<>>
         \/ a.details = <<>> /\ a.errors = <<r>>
  <2>1. CASE a = Errors!Answer(status, code, <<none, r>>, <<>>, FALSE)
    BY <2>1 DEF Errors!Answer
  <2>2. CASE a = Errors!Answer(status, code, <<>>, <<r>>, FALSE)
    BY <2>2 DEF Errors!Answer
  <2>3. QED
    BY <1>4, <2>1, <2>2
<1>6. Errors!FirstReason(a) = r
  BY <1>3, <1>5, FirstWord
<1>7. QED
  BY <1>3, <1>5, <1>6 DEF Says

(* Every way Google says what is wrong, as the parser reads it.            *)
Worded(cause, status, code, word, ofScopes) ==
  /\ ofScopes \in BOOLEAN
  /\ code = "NOT_FOUND" => cause = "notThere"
  /\ code = "ALREADY_EXISTS" => cause = "exists"
  /\ ofScopes = TRUE => cause = "noScope"
  /\ \/ cause = "noScope"    /\ status = 403 /\ word \in Errors!ScopeWords
     \/ cause = "noScope"    /\ status = 403 /\ word = Silent /\ ofScopes = TRUE
     \/ cause = "badToken"   /\ status = 401 /\ word = Silent
     \/ cause = "notThere"   /\ status = 404 /\ word = Silent
     \/ cause = "denied"     /\ status = 403 /\ word = Silent
     \/ cause = "disabled"   /\ status = 403 /\ word \in Errors!DisabledWords
     \/ cause = "quota"      /\ (status = 403 \/ status = 429) /\ word \in Errors!QuotaWords
     \/ cause = "rate"       /\ \/ status = 429 /\ word = Silent
                                \/ (status = 403 \/ status = 429) /\ word \in Errors!RateWords
     \/ cause = "badRequest" /\ status = 400 /\ word = Silent
     \/ cause = "exists"     /\ status = 409 /\ word = Silent
     \/ cause = "failing"    /\ (status = 500 \/ status = 503) /\ word = Silent

LEMMA SaysPlain ==
  ASSUME NEW status, NEW code, NEW a \in Errors!Plain(status, code)
  PROVE  Says(a, status, code, {Silent}, FALSE)
<1>1. a = Errors!Answer(status, code, <<>>, <<>>, FALSE)
  BY DEF Errors!Plain
<1>2. QED
  BY <1>1, SaysPlainly

LEMMA SaidFields ==
  /\ DOMAIN Errors!Said = {"noScope", "badToken", "notThere", "denied", "disabled", "quota", "rate",
                           "badRequest", "exists", "failing"}
  /\ Errors!Said["noScope"] =
       Errors!Reasoned(403, "PERMISSION_DENIED", Errors!ScopeWords)
         \cup {Errors!Answer(403, code, <<>>, <<>>, TRUE) :
                 code \in {Errors!NoCode, "PERMISSION_DENIED"}}
  /\ Errors!Said["badToken"] =
       Errors!Plain(401, "UNAUTHENTICATED")
  /\ Errors!Said["notThere"] =
       Errors!Plain(404, "NOT_FOUND")
         \cup Errors!Plain(404, Errors!NoCode)
  /\ Errors!Said["denied"] =
       Errors!Plain(403, "PERMISSION_DENIED")
         \cup Errors!Plain(403, Errors!NoCode)
  /\ Errors!Said["disabled"] =
       Errors!Reasoned(403, "PERMISSION_DENIED", Errors!DisabledWords)
  /\ Errors!Said["quota"] =
       Errors!Reasoned(403, Errors!NoCode, Errors!QuotaWords)
         \cup Errors!Reasoned(429, "RESOURCE_EXHAUSTED", Errors!QuotaWords)
  /\ Errors!Said["rate"] =
       Errors!Plain(429, "RESOURCE_EXHAUSTED")
         \cup Errors!Reasoned(429, Errors!NoCode, Errors!RateWords)
         \cup Errors!Reasoned(403, Errors!NoCode, Errors!RateWords)
  /\ Errors!Said["badRequest"] =
       Errors!Plain(400, "INVALID_ARGUMENT")
  /\ Errors!Said["exists"] =
       Errors!Plain(409, "ALREADY_EXISTS")
  /\ Errors!Said["failing"] =
       Errors!Plain(500, "INTERNAL")
         \cup Errors!Plain(503, "UNAVAILABLE")
  BY DEF Errors!Said

LEMMA SaidIsWorded ==
  ASSUME NEW cause \in DOMAIN Errors!Said, NEW a \in Errors!Said[cause]
  PROVE  Worded(cause, a.status, a.code, Errors!FirstReason(a).word, a.ofScopes)
<1>1. Errors!NoCode \notin {"NOT_FOUND", "ALREADY_EXISTS"}
  BY Zenon DEF Errors!NoCode
<1> PICK status, code, word, ofScopes :
      /\ status = a.status /\ code = a.code /\ ofScopes = a.ofScopes
      /\ word = Errors!FirstReason(a).word
  OBVIOUS
<1> SUFFICES Worded(cause, status, code, word, ofScopes)
  OBVIOUS
<1>2. CASE cause = "noScope"
  <2>1. CASE a \in Errors!Reasoned(403, "PERMISSION_DENIED", Errors!ScopeWords)
    <3>1. Says(a, 403, "PERMISSION_DENIED", Errors!ScopeWords, FALSE)
      BY <2>1, SilentIsNoReason, SaysItsReason
    <3>2. /\ status = 403 /\ code \notin {"NOT_FOUND", "ALREADY_EXISTS"}
          /\ ofScopes = FALSE /\ word \in Errors!ScopeWords
      BY <3>1 DEF Says
    <3>3. QED
      BY <1>2, <3>2 DEF Worded
  <2>2. CASE a \in {Errors!Answer(403, c, <<>>, <<>>, TRUE) :
                      c \in {Errors!NoCode, "PERMISSION_DENIED"}}
    <3>1. PICK c \in {Errors!NoCode, "PERMISSION_DENIED"} :
            a = Errors!Answer(403, c, <<>>, <<>>, TRUE)
      BY <2>2
    <3>2. Says(a, 403, c, {Silent}, TRUE)
      <4>1. PICK s, yes : s = 403 /\ yes = TRUE
        OBVIOUS
      <4>2. a = Errors!Answer(s, c, <<>>, <<>>, yes)
        BY <3>1, <4>1
      <4>3. Says(a, s, c, {Silent}, yes)
        BY <4>2, SaysPlainly, Zenon
      <4>4. QED
        BY <4>1, <4>3
    <3>3. c \notin {"NOT_FOUND", "ALREADY_EXISTS"}
      BY <1>1
    <3>4. /\ status = 403 /\ code \notin {"NOT_FOUND", "ALREADY_EXISTS"}
          /\ ofScopes = TRUE /\ word = Silent
      BY <3>2, <3>3 DEF Says
    <3>5. QED
      BY <1>2, <3>4 DEF Worded
  <2>3. QED
    <3>1. a \in Errors!Said["noScope"]
      BY <1>2
    <3>2. Errors!Said["noScope"] =
            Errors!Reasoned(403, "PERMISSION_DENIED", Errors!ScopeWords)
              \cup {Errors!Answer(403, c, <<>>, <<>>, TRUE) :
                      c \in {Errors!NoCode, "PERMISSION_DENIED"}}
      BY SaidFields
    <3>3. QED
      BY <2>1, <2>2, <3>1, <3>2
<1>3. CASE cause = "badToken"
  <2>1. CASE a \in Errors!Plain(401, "UNAUTHENTICATED")
    <3>1. Says(a, 401, "UNAUTHENTICATED", {Silent}, FALSE)
      BY <2>1, SaysPlain
    <3>2. /\ status = 401 /\ code \notin {"NOT_FOUND", "ALREADY_EXISTS"}
          /\ ofScopes = FALSE /\ word = Silent
      BY <3>1 DEF Says
    <3>3. QED
      BY <1>3, <3>2 DEF Worded
  <2>2. QED
    <3>1. a \in Errors!Said["badToken"]
      BY <1>3
    <3>2. Errors!Said["badToken"] = Errors!Plain(401, "UNAUTHENTICATED")
      BY SaidFields
    <3>3. QED
      BY <2>1, <3>1, <3>2
<1>4. CASE cause = "notThere"
  <2>1. CASE a \in Errors!Plain(404, "NOT_FOUND")
    <3>1. Says(a, 404, "NOT_FOUND", {Silent}, FALSE)
      BY <2>1, SaysPlain
    <3>2. status = 404 /\ code = "NOT_FOUND" /\ ofScopes = FALSE /\ word = Silent
      BY <3>1 DEF Says
    <3>3. QED
      BY <1>4, <3>2 DEF Worded
  <2>2. CASE a \in Errors!Plain(404, Errors!NoCode)
    <3>1. Says(a, 404, Errors!NoCode, {Silent}, FALSE)
      BY <2>2, SaysPlain
    <3>2. /\ status = 404 /\ code \notin {"NOT_FOUND", "ALREADY_EXISTS"}
          /\ ofScopes = FALSE /\ word = Silent
      BY <1>1, <3>1 DEF Says
    <3>3. QED
      BY <1>4, <3>2 DEF Worded
  <2>3. QED
    <3>1. a \in Errors!Said["notThere"]
      BY <1>4
    <3>2. Errors!Said["notThere"] =
            Errors!Plain(404, "NOT_FOUND")
              \cup Errors!Plain(404, Errors!NoCode)
      BY SaidFields
    <3>3. QED
      BY <2>1, <2>2, <3>1, <3>2
<1>5. CASE cause = "denied"
  <2>1. CASE a \in Errors!Plain(403, "PERMISSION_DENIED")
    <3>1. Says(a, 403, "PERMISSION_DENIED", {Silent}, FALSE)
      BY <2>1, SaysPlain
    <3>2. /\ status = 403 /\ code \notin {"NOT_FOUND", "ALREADY_EXISTS"}
          /\ ofScopes = FALSE /\ word = Silent
      BY <3>1 DEF Says
    <3>3. QED
      BY <1>5, <3>2 DEF Worded
  <2>2. CASE a \in Errors!Plain(403, Errors!NoCode)
    <3>1. Says(a, 403, Errors!NoCode, {Silent}, FALSE)
      BY <2>2, SaysPlain
    <3>2. /\ status = 403 /\ code \notin {"NOT_FOUND", "ALREADY_EXISTS"}
          /\ ofScopes = FALSE /\ word = Silent
      BY <1>1, <3>1 DEF Says
    <3>3. QED
      BY <1>5, <3>2 DEF Worded
  <2>3. QED
    <3>1. a \in Errors!Said["denied"]
      BY <1>5
    <3>2. Errors!Said["denied"] =
            Errors!Plain(403, "PERMISSION_DENIED")
              \cup Errors!Plain(403, Errors!NoCode)
      BY SaidFields
    <3>3. QED
      BY <2>1, <2>2, <3>1, <3>2
<1>6. CASE cause = "disabled"
  <2>1. CASE a \in Errors!Reasoned(403, "PERMISSION_DENIED", Errors!DisabledWords)
    <3>1. Says(a, 403, "PERMISSION_DENIED", Errors!DisabledWords, FALSE)
      BY <2>1, SilentIsNoReason, SaysItsReason
    <3>2. /\ status = 403 /\ code \notin {"NOT_FOUND", "ALREADY_EXISTS"}
          /\ ofScopes = FALSE /\ word \in Errors!DisabledWords
      BY <3>1 DEF Says
    <3>3. QED
      BY <1>6, <3>2 DEF Worded
  <2>2. QED
    <3>1. a \in Errors!Said["disabled"]
      BY <1>6
    <3>2. Errors!Said["disabled"] = Errors!Reasoned(403, "PERMISSION_DENIED", Errors!DisabledWords)
      BY SaidFields
    <3>3. QED
      BY <2>1, <3>1, <3>2
<1>7. CASE cause = "quota"
  <2>1. CASE a \in Errors!Reasoned(403, Errors!NoCode, Errors!QuotaWords)
    <3>1. Says(a, 403, Errors!NoCode, Errors!QuotaWords, FALSE)
      BY <2>1, SilentIsNoReason, SaysItsReason
    <3>2. /\ status = 403 /\ code \notin {"NOT_FOUND", "ALREADY_EXISTS"}
          /\ ofScopes = FALSE /\ word \in Errors!QuotaWords
      BY <1>1, <3>1 DEF Says
    <3>3. QED
      BY <1>7, <3>2 DEF Worded
  <2>2. CASE a \in Errors!Reasoned(429, "RESOURCE_EXHAUSTED", Errors!QuotaWords)
    <3>1. Says(a, 429, "RESOURCE_EXHAUSTED", Errors!QuotaWords, FALSE)
      BY <2>2, SilentIsNoReason, SaysItsReason
    <3>2. /\ status = 429 /\ code \notin {"NOT_FOUND", "ALREADY_EXISTS"}
          /\ ofScopes = FALSE /\ word \in Errors!QuotaWords
      BY <3>1 DEF Says
    <3>3. QED
      BY <1>7, <3>2 DEF Worded
  <2>3. QED
    <3>1. a \in Errors!Said["quota"]
      BY <1>7
    <3>2. Errors!Said["quota"] =
            Errors!Reasoned(403, Errors!NoCode, Errors!QuotaWords)
              \cup Errors!Reasoned(429, "RESOURCE_EXHAUSTED", Errors!QuotaWords)
      BY SaidFields
    <3>3. QED
      BY <2>1, <2>2, <3>1, <3>2
<1>8. CASE cause = "rate"
  <2>1. CASE a \in Errors!Plain(429, "RESOURCE_EXHAUSTED")
    <3>1. Says(a, 429, "RESOURCE_EXHAUSTED", {Silent}, FALSE)
      BY <2>1, SaysPlain
    <3>2. /\ status = 429 /\ code \notin {"NOT_FOUND", "ALREADY_EXISTS"}
          /\ ofScopes = FALSE /\ word = Silent
      BY <3>1 DEF Says
    <3>3. QED
      BY <1>8, <3>2 DEF Worded
  <2>2. CASE a \in Errors!Reasoned(429, Errors!NoCode, Errors!RateWords)
    <3>1. Says(a, 429, Errors!NoCode, Errors!RateWords, FALSE)
      BY <2>2, SilentIsNoReason, SaysItsReason
    <3>2. /\ status = 429 /\ code \notin {"NOT_FOUND", "ALREADY_EXISTS"}
          /\ ofScopes = FALSE /\ word \in Errors!RateWords
      BY <1>1, <3>1 DEF Says
    <3>3. QED
      BY <1>8, <3>2 DEF Worded
  <2>3. CASE a \in Errors!Reasoned(403, Errors!NoCode, Errors!RateWords)
    <3>1. Says(a, 403, Errors!NoCode, Errors!RateWords, FALSE)
      BY <2>3, SilentIsNoReason, SaysItsReason
    <3>2. /\ status = 403 /\ code \notin {"NOT_FOUND", "ALREADY_EXISTS"}
          /\ ofScopes = FALSE /\ word \in Errors!RateWords
      BY <1>1, <3>1 DEF Says
    <3>3. QED
      BY <1>8, <3>2 DEF Worded
  <2>4. QED
    <3>1. a \in Errors!Said["rate"]
      BY <1>8
    <3>2. Errors!Said["rate"] =
            Errors!Plain(429, "RESOURCE_EXHAUSTED")
              \cup Errors!Reasoned(429, Errors!NoCode, Errors!RateWords)
              \cup Errors!Reasoned(403, Errors!NoCode, Errors!RateWords)
      BY SaidFields
    <3>3. QED
      BY <2>1, <2>2, <2>3, <3>1, <3>2
<1>9. CASE cause = "badRequest"
  <2>1. CASE a \in Errors!Plain(400, "INVALID_ARGUMENT")
    <3>1. Says(a, 400, "INVALID_ARGUMENT", {Silent}, FALSE)
      BY <2>1, SaysPlain
    <3>2. /\ status = 400 /\ code \notin {"NOT_FOUND", "ALREADY_EXISTS"}
          /\ ofScopes = FALSE /\ word = Silent
      BY <3>1 DEF Says
    <3>3. QED
      BY <1>9, <3>2 DEF Worded
  <2>2. QED
    <3>1. a \in Errors!Said["badRequest"]
      BY <1>9
    <3>2. Errors!Said["badRequest"] = Errors!Plain(400, "INVALID_ARGUMENT")
      BY SaidFields
    <3>3. QED
      BY <2>1, <3>1, <3>2
<1>10. CASE cause = "exists"
  <2>1. CASE a \in Errors!Plain(409, "ALREADY_EXISTS")
    <3>1. Says(a, 409, "ALREADY_EXISTS", {Silent}, FALSE)
      BY <2>1, SaysPlain
    <3>2. status = 409 /\ code # "NOT_FOUND" /\ ofScopes = FALSE /\ word = Silent
      BY <3>1 DEF Says
    <3>3. QED
      BY <1>10, <3>2 DEF Worded
  <2>2. QED
    <3>1. a \in Errors!Said["exists"]
      BY <1>10
    <3>2. Errors!Said["exists"] = Errors!Plain(409, "ALREADY_EXISTS")
      BY SaidFields
    <3>3. QED
      BY <2>1, <3>1, <3>2
<1>11. CASE cause = "failing"
  <2>1. CASE a \in Errors!Plain(500, "INTERNAL")
    <3>1. Says(a, 500, "INTERNAL", {Silent}, FALSE)
      BY <2>1, SaysPlain
    <3>2. /\ status = 500 /\ code \notin {"NOT_FOUND", "ALREADY_EXISTS"}
          /\ ofScopes = FALSE /\ word = Silent
      BY <3>1 DEF Says
    <3>3. QED
      BY <1>11, <3>2 DEF Worded
  <2>2. CASE a \in Errors!Plain(503, "UNAVAILABLE")
    <3>1. Says(a, 503, "UNAVAILABLE", {Silent}, FALSE)
      BY <2>2, SaysPlain
    <3>2. /\ status = 503 /\ code \notin {"NOT_FOUND", "ALREADY_EXISTS"}
          /\ ofScopes = FALSE /\ word = Silent
      BY <3>1 DEF Says
    <3>3. QED
      BY <1>11, <3>2 DEF Worded
  <2>3. QED
    <3>1. a \in Errors!Said["failing"]
      BY <1>11
    <3>2. Errors!Said["failing"] =
            Errors!Plain(500, "INTERNAL")
              \cup Errors!Plain(503, "UNAVAILABLE")
      BY SaidFields
    <3>3. QED
      BY <2>1, <2>2, <3>1, <3>2
<1>12. QED
  BY <1>2, <1>3, <1>4, <1>5, <1>6, <1>7, <1>8, <1>9, <1>10, <1>11, SaidFields

(* Whatever the words, the error is taken for what is wrong.               *)
LEMMA AnswersAreDiagnosed ==
  ASSUME NEW cause, NEW e, NEW u \in BOOLEAN,
         e.api, ~e.reauthorize, Worded(cause, e.status, e.code, e.reason.word, e.ofScopes),
         e.uncertain = (u /\ e.status >= 500)
  PROVE  Diagnosed(e, cause, u)
<1> DEFINE s == e.status
           w == e.reason.word
<1>1. e.ofScopes \in BOOLEAN
  BY DEF Worded
<1>2. /\ Errors!IsMissingScope(e) <=> s = 403 /\ (w \in Errors!ScopeWords \/ e.ofScopes)
      /\ Errors!IsQuotaExceeded(e) <=> w \in Errors!QuotaWords
      /\ Errors!IsRateLimited(e) <=> s = 429 \/ (s = 403 /\ w \in Errors!RateWords)
      /\ Errors!IsServiceDisabled(e) <=> s = 403 /\ w \in Errors!DisabledWords
      /\ Errors!IsForbidden(e) <=>
           /\ s = 403 /\ ~Errors!IsMissingScope(e) /\ ~Errors!IsRateLimited(e)
           /\ ~Errors!IsQuotaExceeded(e) /\ ~Errors!IsServiceDisabled(e)
  <2>1. Errors!IsMissingScope(e) <=> s = 403 /\ (w \in Errors!ScopeWords \/ e.ofScopes)
    BY <1>1, ReasonIsItsWord DEF Errors!IsMissingScope
  <2>2. Errors!IsQuotaExceeded(e) <=> w \in Errors!QuotaWords
    BY <1>1, ReasonIsItsWord DEF Errors!IsQuotaExceeded
  <2>3. Errors!IsRateLimited(e) <=> s = 429 \/ (s = 403 /\ w \in Errors!RateWords)
    BY <1>1, ReasonIsItsWord DEF Errors!IsRateLimited
  <2>4. Errors!IsServiceDisabled(e) <=> s = 403 /\ w \in Errors!DisabledWords
    BY <1>1, ReasonIsItsWord DEF Errors!IsServiceDisabled
  <2>5. Errors!IsForbidden(e) <=>
          /\ s = 403 /\ ~Errors!IsMissingScope(e) /\ ~Errors!IsRateLimited(e)
          /\ ~Errors!IsQuotaExceeded(e) /\ ~Errors!IsServiceDisabled(e)
    BY <1>1 DEF Errors!IsForbidden
  <2>6. QED
    BY <2>1, <2>2, <2>3, <2>4, <2>5
<1>3. /\ Errors!IsUnauthorized(e) <=> s = 401
      /\ Errors!IsNotFound(e) <=> s = 404 \/ e.code = "NOT_FOUND"
      /\ Errors!IsAlreadyExists(e) <=> s = 409 \/ e.code = "ALREADY_EXISTS"
      /\ \A ended \in BOOLEAN :
           Errors!degraded(e, ended) <=>
             Errors!IsMissingScope(e) \/ Errors!IsServiceDisabled(e) \/ s = 401 \/ ended
  BY <1>1 DEF Errors!IsUnauthorized, Errors!IsNotFound, Errors!IsAlreadyExists, Errors!degraded
<1>4. Errors!Classify(e) =
        IF Errors!IsMissingScope(e) THEN "scope"
        ELSE IF s = 401 THEN "auth"
        ELSE IF s = 404 \/ e.code = "NOT_FOUND" THEN "not_found"
        ELSE IF Errors!IsQuotaExceeded(e) THEN "quota"
        ELSE IF Errors!IsRateLimited(e) THEN "rate_limited"
        ELSE IF Errors!IsServiceDisabled(e) \/ Errors!IsForbidden(e) THEN "forbidden"
        ELSE IF s >= 500 THEN "server"
        ELSE IF s = 400 THEN "invalid"
        ELSE "upstream"
  BY <1>1, <1>3 DEF Errors!Classify
<1> DEFINE class == Errors!Classify(e)
<1> HIDE DEF s, w, class
<1>5. SUFFICES
        /\ class \in {"auth", "scope"} <=> cause \in Errors!SignInHelps
        /\ Errors!IsMissingScope(e) <=> cause = "noScope"
        /\ class = "rate_limited" <=> cause = "rate"
        /\ class = "quota" <=> cause = "quota"
        /\ class = "forbidden" <=> cause \in {"denied", "disabled"}
        /\ class = "server" <=> cause = "failing"
        /\ class = "not_found" <=> cause = "notThere"
        /\ class = "invalid" <=> cause = "badRequest"
        /\ class = "unexpected" <=> cause \in {"tokenFailed", "unsent", "broken"}
        /\ Errors!IsForbidden(e) <=> cause = "denied"
        /\ s = 404 \/ e.code = "NOT_FOUND" <=> cause = "notThere"
        /\ s = 409 \/ e.code = "ALREADY_EXISTS" <=> cause = "exists"
        /\ Errors!IsMissingScope(e) \/ Errors!IsServiceDisabled(e) \/ s = 401
             <=> cause \in {"noScope", "badToken", "disabled"}
        /\ s >= 500 <=> cause \in {"failing", "broken"}
  BY <1>1, <1>3 DEF Diagnosed, class, s
<1>6. Worded(cause, s, e.code, w, e.ofScopes)
  BY DEF s, w
<1>7. class = IF Errors!IsMissingScope(e) THEN "scope"
        ELSE IF s = 401 THEN "auth"
        ELSE IF s = 404 \/ e.code = "NOT_FOUND" THEN "not_found"
        ELSE IF Errors!IsQuotaExceeded(e) THEN "quota"
        ELSE IF Errors!IsRateLimited(e) THEN "rate_limited"
        ELSE IF Errors!IsServiceDisabled(e) \/ Errors!IsForbidden(e) THEN "forbidden"
        ELSE IF s >= 500 THEN "server"
        ELSE IF s = 400 THEN "invalid"
        ELSE "upstream"
  BY <1>4 DEF class
<1>8. /\ \A x \in Errors!ScopeWords : /\ x \notin Errors!QuotaWords
           /\ x \notin Errors!RateWords /\ x \notin Errors!DisabledWords
      /\ \A x \in Errors!QuotaWords : x \notin Errors!RateWords /\ x \notin Errors!DisabledWords
      /\ \A x \in Errors!RateWords : x \notin Errors!DisabledWords
      /\ Silent \notin Errors!ScopeWords /\ Silent \notin Errors!QuotaWords
      /\ Silent \notin Errors!RateWords /\ Silent \notin Errors!DisabledWords
  BY SilentIsNoReason
     DEF Errors!ScopeWords, Errors!QuotaWords, Errors!RateWords, Errors!DisabledWords
<1>9. CASE cause = "noScope"
  <2>1. /\ s = 403 /\ e.code \notin {"NOT_FOUND", "ALREADY_EXISTS"}
        /\ w \in Errors!ScopeWords \/ (w = Silent /\ e.ofScopes = TRUE)
    BY <1>6, <1>9 DEF Worded
  <2>2. /\ Errors!IsMissingScope(e) /\ ~Errors!IsQuotaExceeded(e) /\ ~Errors!IsRateLimited(e)
        /\ ~Errors!IsServiceDisabled(e) /\ ~Errors!IsForbidden(e)
    BY <1>1, <1>2, <1>8, <2>1
  <2>3. class = "scope"
    BY <1>7, <2>1, <2>2
  <2>4. QED
    BY <1>9, <2>1, <2>2, <2>3 DEF Errors!SignInHelps
<1>10. CASE cause = "badToken"
  <2>1. /\ s = 401 /\ e.code \notin {"NOT_FOUND", "ALREADY_EXISTS"}
        /\ w = Silent /\ ~e.ofScopes
    BY <1>6, <1>10 DEF Worded
  <2>2. /\ ~Errors!IsMissingScope(e) /\ ~Errors!IsQuotaExceeded(e) /\ ~Errors!IsRateLimited(e)
        /\ ~Errors!IsServiceDisabled(e) /\ ~Errors!IsForbidden(e)
    BY <1>1, <1>2, <1>8, <2>1
  <2>3. class = "auth"
    BY <1>7, <2>1, <2>2
  <2>4. QED
    BY <1>10, <2>1, <2>2, <2>3 DEF Errors!SignInHelps
<1>11. CASE cause = "notThere"
  <2>1. /\ s = 404 /\ e.code # "ALREADY_EXISTS"
        /\ w = Silent /\ ~e.ofScopes
    BY <1>6, <1>11 DEF Worded
  <2>2. /\ ~Errors!IsMissingScope(e) /\ ~Errors!IsQuotaExceeded(e) /\ ~Errors!IsRateLimited(e)
        /\ ~Errors!IsServiceDisabled(e) /\ ~Errors!IsForbidden(e)
    BY <1>1, <1>2, <1>8, <2>1
  <2>3. class = "not_found"
    BY <1>7, <2>1, <2>2
  <2>4. QED
    BY <1>11, <2>1, <2>2, <2>3 DEF Errors!SignInHelps
<1>12. CASE cause = "denied"
  <2>1. /\ s = 403 /\ e.code \notin {"NOT_FOUND", "ALREADY_EXISTS"}
        /\ w = Silent /\ ~e.ofScopes
    BY <1>6, <1>12 DEF Worded
  <2>2. /\ ~Errors!IsMissingScope(e) /\ ~Errors!IsQuotaExceeded(e) /\ ~Errors!IsRateLimited(e)
        /\ ~Errors!IsServiceDisabled(e) /\ Errors!IsForbidden(e)
    BY <1>1, <1>2, <1>8, <2>1
  <2>3. class = "forbidden"
    BY <1>7, <2>1, <2>2
  <2>4. QED
    BY <1>12, <2>1, <2>2, <2>3 DEF Errors!SignInHelps
<1>13. CASE cause = "disabled"
  <2>1. /\ s = 403 /\ e.code \notin {"NOT_FOUND", "ALREADY_EXISTS"}
        /\ w \in Errors!DisabledWords /\ ~e.ofScopes
    BY <1>6, <1>13 DEF Worded
  <2>2. /\ ~Errors!IsMissingScope(e) /\ ~Errors!IsQuotaExceeded(e) /\ ~Errors!IsRateLimited(e)
        /\ Errors!IsServiceDisabled(e) /\ ~Errors!IsForbidden(e)
    BY <1>1, <1>2, <1>8, <2>1
  <2>3. class = "forbidden"
    BY <1>7, <2>1, <2>2
  <2>4. QED
    BY <1>13, <2>1, <2>2, <2>3 DEF Errors!SignInHelps
<1>14. CASE cause = "quota"
  <2>1. /\ (s = 403 \/ s = 429) /\ e.code \notin {"NOT_FOUND", "ALREADY_EXISTS"}
        /\ w \in Errors!QuotaWords /\ ~e.ofScopes
    BY <1>6, <1>14 DEF Worded
  <2>2. /\ ~Errors!IsMissingScope(e) /\ Errors!IsQuotaExceeded(e)
        /\ ~Errors!IsServiceDisabled(e) /\ ~Errors!IsForbidden(e)
    BY <1>1, <1>2, <1>8, <2>1
  <2>3. class = "quota"
    BY <1>7, <2>1, <2>2
  <2>4. QED
    BY <1>14, <2>1, <2>2, <2>3 DEF Errors!SignInHelps
<1>15. CASE cause = "rate"
  <2>1. /\ (s = 429 \/ s = 403) /\ e.code \notin {"NOT_FOUND", "ALREADY_EXISTS"}
        /\ ((w = Silent /\ s = 429) \/ w \in Errors!RateWords) /\ ~e.ofScopes
    BY <1>6, <1>15 DEF Worded
  <2>2. /\ ~Errors!IsMissingScope(e) /\ ~Errors!IsQuotaExceeded(e) /\ Errors!IsRateLimited(e)
        /\ ~Errors!IsServiceDisabled(e) /\ ~Errors!IsForbidden(e)
    BY <1>1, <1>2, <1>8, <2>1
  <2>3. class = "rate_limited"
    BY <1>7, <2>1, <2>2
  <2>4. QED
    BY <1>15, <2>1, <2>2, <2>3 DEF Errors!SignInHelps
<1>16. CASE cause = "badRequest"
  <2>1. /\ s = 400 /\ e.code \notin {"NOT_FOUND", "ALREADY_EXISTS"}
        /\ w = Silent /\ ~e.ofScopes
    BY <1>6, <1>16 DEF Worded
  <2>2. /\ ~Errors!IsMissingScope(e) /\ ~Errors!IsQuotaExceeded(e) /\ ~Errors!IsRateLimited(e)
        /\ ~Errors!IsServiceDisabled(e) /\ ~Errors!IsForbidden(e)
    BY <1>1, <1>2, <1>8, <2>1
  <2>3. class = "invalid"
    BY <1>7, <2>1, <2>2
  <2>4. QED
    BY <1>16, <2>1, <2>2, <2>3 DEF Errors!SignInHelps
<1>17. CASE cause = "exists"
  <2>1. /\ s = 409 /\ e.code # "NOT_FOUND"
        /\ w = Silent /\ ~e.ofScopes
    BY <1>6, <1>17 DEF Worded
  <2>2. /\ ~Errors!IsMissingScope(e) /\ ~Errors!IsQuotaExceeded(e) /\ ~Errors!IsRateLimited(e)
        /\ ~Errors!IsServiceDisabled(e) /\ ~Errors!IsForbidden(e)
    BY <1>1, <1>2, <1>8, <2>1
  <2>3. class = "upstream"
    BY <1>7, <2>1, <2>2
  <2>4. QED
    BY <1>17, <2>1, <2>2, <2>3 DEF Errors!SignInHelps
<1>18. CASE cause = "failing"
  <2>1. /\ (s = 500 \/ s = 503) /\ e.code \notin {"NOT_FOUND", "ALREADY_EXISTS"}
        /\ w = Silent /\ ~e.ofScopes
    BY <1>6, <1>18 DEF Worded
  <2>2. /\ ~Errors!IsMissingScope(e) /\ ~Errors!IsQuotaExceeded(e) /\ ~Errors!IsRateLimited(e)
        /\ ~Errors!IsServiceDisabled(e) /\ ~Errors!IsForbidden(e)
    BY <1>1, <1>2, <1>8, <2>1
  <2>3. class = "server"
    BY <1>7, <2>1, <2>2
  <2>4. QED
    BY <1>18, <2>1, <2>2, <2>3 DEF Errors!SignInHelps
<1>19. QED
  BY <1>6, <1>9, <1>10, <1>11, <1>12, <1>13, <1>14, <1>15, <1>16, <1>17, <1>18 DEF Worded

(* So is a call that Google did not answer.                                *)
LEMMA SilenceIsDiagnosed ==
  ASSUME NEW cause \in Errors!Unanswered, NEW e, NEW u \in BOOLEAN,
         ~e.api, e.reauthorize <=> cause \in {"signedOut", "invalidGrant"},
         e.uncertain = (u /\ cause = "broken")
  PROVE  Diagnosed(e, cause, u)
<1>1. cause \in {"signedOut", "invalidGrant", "tokenFailed", "unsent", "broken"}
  BY DEF Errors!Unanswered
<1>2. /\ ~Errors!IsMissingScope(e) /\ ~Errors!IsServiceDisabled(e) /\ ~Errors!IsUnauthorized(e)
      /\ ~Errors!IsForbidden(e) /\ ~Errors!IsNotFound(e) /\ ~Errors!IsAlreadyExists(e)
      /\ \A ended \in BOOLEAN : Errors!degraded(e, ended) <=> ended
  BY DEF Errors!IsMissingScope, Errors!IsServiceDisabled, Errors!IsUnauthorized,
     Errors!IsForbidden, Errors!IsNotFound, Errors!IsAlreadyExists, Errors!degraded
<1>3. CASE cause \in {"signedOut", "invalidGrant"}
  <2>1. Errors!Classify(e) = "auth"
    BY <1>3 DEF Errors!Classify
  <2>2. QED
    BY <1>2, <1>3, <2>1 DEF Diagnosed, Errors!SignInHelps
<1>4. CASE cause \in {"tokenFailed", "unsent", "broken"}
  <2>1. Errors!Classify(e) = "unexpected"
    BY <1>4 DEF Errors!Classify
  <2>2. QED
    BY <1>2, <1>4, <2>1 DEF Diagnosed, Errors!SignInHelps
<1>5. QED
  BY <1>1, <1>3, <1>4

(* A failure is what is wrong, and it is told by what it is.               *)
Told ==
  /\ call.told = "alreadyMember" <=> call.by = "member" /\ Errors!IsAlreadyExists(call.error)
  /\ call.hint <=> /\ call.by = "person"
                        \/ (call.by = "member" /\ ~Errors!IsAlreadyExists(call.error))
                   /\ call.class \notin {"auth", "scope", "rate_limited"}
  /\ call.by = "directory" => call.told =
       IF Errors!worthReporting(call.class) THEN call.class ELSE "blocked"
  /\ call.by = "group" => call.told =
       IF Errors!IsForbidden(call.error) \/ Errors!IsNotFound(call.error) THEN "notVisible"
       ELSE call.class
  /\ call.by = "resource" => call.told =
       IF call.class \in {"not_found", "invalid"} THEN "resourceNotFound" ELSE call.class
  /\ call.by = "courtesy" => call.told =
       IF Errors!degraded(call.error, world.ended) THEN "stop" ELSE "next"

Wrong ==
  /\ past.unrepeatable \in BOOLEAN /\ world.ended \in BOOLEAN
  /\ \/ world.cause \in Errors!Unanswered /\ world.answer = Errors!NoAnswer
     \/ world.cause \in DOMAIN Errors!Said /\ world.answer \in Errors!Said[world.cause]

ErrorsInv ==
  /\ call = [at |-> call.at, by |-> call.by, error |-> call.error, class |-> call.class,
             scope |-> call.scope, readFirst |-> call.readFirst, told |-> call.told,
             hint |-> call.hint]
  /\ Errors!TypeOK /\ Wrong
  /\ call.at # "asked" =>
       /\ Diagnosed(call.error, world.cause, past.unrepeatable)
       /\ call.class = Errors!Classify(call.error)
       /\ call.scope = IF Errors!IsMissingScope(call.error) THEN Errors!needsScope(call.by) ELSE ""
       /\ call.readFirst = call.error.uncertain
  /\ call.at = "told" => Told

LEMMA ClassifyIsClass == \A e : Errors!Classify(e) \in Errors!Classes
  BY DEF Errors!Classify, Errors!Classes

LEMMA AnswersAreNotSilence ==
  ASSUME NEW cause \in DOMAIN Errors!Said, NEW a \in Errors!Said[cause]
  PROVE  a # Errors!NoAnswer
<1>1. Worded(cause, a.status, a.code, Errors!FirstReason(a).word, a.ofScopes)
  BY SaidIsWorded
<1>2. a.status # 0
  BY <1>1 DEF Worded
<1>3. Errors!NoAnswer.status = 0
  BY DEF Errors!NoAnswer, Errors!Answer
<1>4. QED
  BY <1>2, <1>3

LEMMA ErrorsInit ==
  ASSUME Errors!Init
  PROVE  ErrorsInv
<1>1. /\ call.at = "asked" /\ call.by \in Errors!Askers /\ call.class = "" /\ call.scope = ""
      /\ call.readFirst = FALSE /\ call.hint = FALSE
      /\ call = [at |-> call.at, by |-> call.by, error |-> call.error, class |-> call.class,
                 scope |-> call.scope, readFirst |-> call.readFirst, told |-> call.told,
                 hint |-> call.hint]
  BY DEF Errors!Init
<1>2. PICK c \in Errors!Causes : world \in
        [cause : {c},
         answer : IF c \in Errors!Unanswered THEN {Errors!NoAnswer} ELSE Errors!Said[c],
         ended : BOOLEAN]
  BY DEF Errors!Init
<1>3. /\ world.cause = c /\ world.ended \in BOOLEAN
      /\ world.answer \in IF c \in Errors!Unanswered THEN {Errors!NoAnswer} ELSE Errors!Said[c]
  BY <1>2
<1>4. Wrong
  <2>1. past.unrepeatable \in BOOLEAN
    BY DEF Errors!Init
  <2>2. c \in DOMAIN Errors!Said \/ c \in Errors!Unanswered
    BY DEF Errors!Causes
  <2>3. QED
    BY <1>3, <2>1, <2>2 DEF Wrong
<1>5. Errors!TypeOK
  BY <1>1, <1>3 DEF Errors!TypeOK, Errors!Causes
<1>6. QED
  BY <1>1, <1>4, <1>5 DEF ErrorsInv

LEMMA CallFails ==
  ASSUME ErrorsInv, Errors!Fails
  PROVE  ErrorsInv'
<1> PICK cause, answer, u : cause = world.cause /\ answer = world.answer /\ u = past.unrepeatable
  OBVIOUS
<1>1. PICK e :
        /\ e = CASE answer # Errors!NoAnswer -> Errors!parseAPIError(answer, u)
                 [] cause \in {"unsent", "broken"} ->
                      [Errors!Error EXCEPT !.uncertain = u /\ cause = "broken"]
                 [] OTHER -> Errors!Token(cause)
        /\ call' = [call EXCEPT !.at = "failed", !.error = e, !.class = Errors!Classify(e),
                                !.scope = IF Errors!IsMissingScope(e)
                                          THEN Errors!needsScope(call.by) ELSE "",
                                !.readFirst = e.uncertain]
        /\ UNCHANGED <<world, past>>
  BY DEF Errors!Fails
<1>2. /\ u \in BOOLEAN
      /\ \/ cause \in Errors!Unanswered /\ answer = Errors!NoAnswer
         \/ cause \in DOMAIN Errors!Said /\ answer \in Errors!Said[cause]
  BY DEF ErrorsInv, Wrong
<1>3. Diagnosed(e, cause, u)
  <2>1. CASE cause \in DOMAIN Errors!Said /\ answer \in Errors!Said[cause]
    <3>1. Worded(cause, answer.status, answer.code, Errors!FirstReason(answer).word,
                 answer.ofScopes)
      BY <2>1, SaidIsWorded
    <3>2. e = Errors!parseAPIError(answer, u)
      <4>1. answer # Errors!NoAnswer
        BY <2>1, AnswersAreNotSilence
      <4>2. cause \notin {"unsent", "broken"}
        BY <2>1, SaidFields
      <4>3. QED
        BY <1>1, <4>1, <4>2
    <3>3. /\ e.api /\ ~e.reauthorize /\ e.status = answer.status /\ e.code = answer.code
          /\ e.reason = Errors!FirstReason(answer) /\ e.ofScopes = answer.ofScopes
          /\ e.uncertain = (u /\ answer.status >= 500)
      BY <1>2, <3>2, Parsed
    <3>4. QED
      BY <1>2, <3>1, <3>3, AnswersAreDiagnosed
  <2>2. CASE cause \in Errors!Unanswered /\ answer = Errors!NoAnswer
    <3>1. e = IF cause \in {"unsent", "broken"}
              THEN [Errors!Error EXCEPT !.uncertain = u /\ cause = "broken"]
              ELSE Errors!Token(cause)
      BY <1>1, <2>2
    <3>2. CASE cause \in {"unsent", "broken"}
      <4>1. ~e.api /\ ~e.reauthorize /\ e.uncertain = (u /\ cause = "broken")
        BY <3>1, <3>2 DEF Errors!Error
      <4>2. QED
        BY <1>2, <2>2, <3>2, <4>1, SilenceIsDiagnosed
    <3>3. CASE cause \notin {"unsent", "broken"}
      <4>1. /\ ~e.api /\ e.uncertain = FALSE
            /\ e.reauthorize = (cause \in {"signedOut", "invalidGrant"})
        BY <3>1, <3>3 DEF Errors!Token, Errors!Error
      <4>2. QED
        BY <1>2, <2>2, <3>3, <4>1, SilenceIsDiagnosed
    <3>4. QED
      BY <3>2, <3>3
  <2>3. QED
    BY <1>2, <2>1, <2>2
<1>4. /\ call'.at = "failed" /\ call'.by = call.by /\ call'.error = e /\ call'.hint = call.hint
      /\ call'.class = Errors!Classify(e) /\ call'.readFirst = e.uncertain
      /\ call'.scope = IF Errors!IsMissingScope(e) THEN Errors!needsScope(call.by) ELSE ""
      /\ call' = [at |-> call'.at, by |-> call'.by, error |-> call'.error, class |-> call'.class,
                  scope |-> call'.scope, readFirst |-> call'.readFirst, told |-> call'.told,
                  hint |-> call'.hint]
  BY <1>1 DEF ErrorsInv
<1>5. Wrong' /\ world'.cause = cause /\ past'.unrepeatable = u
  BY <1>1 DEF ErrorsInv, Wrong
<1>6. Errors!TypeOK'
  <2>1. call'.readFirst \in BOOLEAN
    BY <1>2, <1>3, <1>4 DEF Diagnosed
  <2>2. call'.class \in Errors!Classes
    BY <1>4, ClassifyIsClass
  <2>3. call'.scope \in {"", "request", "write"}
    BY <1>4 DEF Errors!needsScope
  <2>4. /\ call'.by \in Errors!Askers /\ world'.cause \in Errors!Causes
        /\ call'.hint \in BOOLEAN /\ world'.ended \in BOOLEAN
    BY <1>1, <1>4 DEF ErrorsInv, Errors!TypeOK
  <2>5. QED
    BY <1>4, <2>1, <2>2, <2>3, <2>4 DEF Errors!TypeOK
<1>7. QED
  BY <1>3, <1>4, <1>5, <1>6 DEF ErrorsInv

(* Whoever tells it, the failure and what it was taken for stay.           *)
LEMMA FailureIsTold ==
  ASSUME ErrorsInv, call.at = "failed", NEW what, NEW hint \in BOOLEAN, Errors!Tell(what, hint),
         UNCHANGED <<world, past>>, Told'
  PROVE  ErrorsInv'
<1>1. /\ call'.at = "told" /\ call'.by = call.by /\ call'.error = call.error /\ call'.hint = hint
      /\ call'.class = call.class /\ call'.scope = call.scope /\ call'.readFirst = call.readFirst
      /\ call' = [at |-> call'.at, by |-> call'.by, error |-> call'.error, class |-> call'.class,
                  scope |-> call'.scope, readFirst |-> call'.readFirst, told |-> call'.told,
                  hint |-> call'.hint]
  BY DEF ErrorsInv, Errors!Tell
<1>2. Errors!TypeOK'
  BY <1>1 DEF ErrorsInv, Errors!TypeOK
<1>3. Wrong'
  BY DEF ErrorsInv, Wrong
<1>4. QED
  BY <1>1, <1>2, <1>3 DEF ErrorsInv

LEMMA Telling ==
  ASSUME ErrorsInv, NEW what, NEW hint, Errors!Tell(what, hint)
  PROVE  /\ call'.told = what /\ call'.hint = hint /\ call'.by = call.by /\ call'.error = call.error
         /\ call'.class = call.class
  BY DEF ErrorsInv, Errors!Tell

LEMMA ErrorsStep ==
  ASSUME ErrorsInv, Errors!Next \/ UNCHANGED vars
  PROVE  ErrorsInv'
<1>1. CASE UNCHANGED <<call, world, past>>
  <2>1. Errors!TypeOK'
    BY <1>1 DEF ErrorsInv, Errors!TypeOK
  <2>2. Wrong'
    BY <1>1 DEF ErrorsInv, Wrong
  <2>3. call.at = "told" => Told'
    BY <1>1 DEF ErrorsInv, Told
  <2>4. QED
    BY <1>1, <2>1, <2>2, <2>3 DEF ErrorsInv
<1>2. CASE Errors!Done \/ UNCHANGED vars
  BY <1>1, <1>2 DEF Errors!Done, Errors!vars, vars
<1>3. CASE Errors!Fails
  BY <1>3, CallFails
<1>4. /\ call.at # "asked" => call.class \in Errors!Classes
      /\ \A x \in Errors!Classes \cup {"blocked", "notVisible", "resourceNotFound", "stop", "next"} :
           x # "alreadyMember"
  BY ClassifyIsClass DEF ErrorsInv, Errors!Classes
<1>5. CASE Errors!fail
  <2>1. /\ call.at = "failed" /\ call.by \in {"tool", "witness"} /\ Errors!Tell(call.class, FALSE)
        /\ UNCHANGED <<world, past>>
    BY <1>5 DEF Errors!fail
  <2>2. Told'
    BY <1>4, <2>1, Telling DEF Told
  <2>3. QED
    BY <2>1, <2>2, FailureIsTold
<1>6. CASE Errors!alreadyMember
  <2>1. /\ call.at = "failed" /\ call.by = "member" /\ Errors!IsAlreadyExists(call.error)
        /\ Errors!Tell("alreadyMember", FALSE) /\ UNCHANGED <<world, past>>
    BY <1>6 DEF Errors!alreadyMember
  <2>2. Told'
    BY <2>1, Telling DEF Told
  <2>3. QED
    BY <2>1, <2>2, FailureIsTold
<1>7. CASE Errors!directoryHint
  <2>1. PICK hint \in BOOLEAN : hint <=> call.class \notin {"auth", "scope", "rate_limited"}
    OBVIOUS
  <2>2. /\ call.at = "failed" /\ Errors!Tell(call.class, hint) /\ UNCHANGED <<world, past>>
        /\ call.by = "person" \/ (call.by = "member" /\ ~Errors!IsAlreadyExists(call.error))
    BY <1>7, <2>1 DEF Errors!directoryHint
  <2>3. Told'
    <3>1. /\ call'.told = call.class /\ call'.hint = hint /\ call'.by = call.by
          /\ call'.error = call.error /\ call'.class = call.class
      BY <2>2, Telling
    <3>2. call.class # "alreadyMember"
      BY <1>4, <2>2
    <3>3. call'.by \notin {"directory", "group", "resource", "courtesy"}
      BY <2>2, <3>1
    <3>4. call'.hint <=> /\ call'.by = "person"
                              \/ (call'.by = "member" /\ ~Errors!IsAlreadyExists(call'.error))
                         /\ call'.class \notin {"auth", "scope", "rate_limited"}
      BY <2>1, <2>2, <3>1
    <3>5. ~(call'.by = "member" /\ Errors!IsAlreadyExists(call'.error))
      BY <2>2, <3>1
    <3>6. QED
      BY <3>1, <3>2, <3>3, <3>4, <3>5 DEF Told
  <2>4. QED
    BY <2>2, <2>3, FailureIsTold
<1>8. CASE Errors!refuseOutsider
  <2>1. PICK what : what = IF Errors!worthReporting(call.class) THEN call.class ELSE "blocked"
    OBVIOUS
  <2>2. /\ call.at = "failed" /\ call.by = "directory" /\ Errors!Tell(what, FALSE)
        /\ UNCHANGED <<world, past>>
    BY <1>8, <2>1 DEF Errors!refuseOutsider
  <2>3. Told'
    BY <1>4, <2>1, <2>2, Telling DEF Told
  <2>4. QED
    BY <2>2, <2>3, FailureIsTold
<1>9. CASE Errors!FindGroup
  <2>1. PICK what : what = IF Errors!IsForbidden(call.error) \/ Errors!IsNotFound(call.error)
                           THEN "notVisible" ELSE call.class
    OBVIOUS
  <2>2. /\ call.at = "failed" /\ call.by = "group" /\ Errors!Tell(what, FALSE)
        /\ UNCHANGED <<world, past>>
    BY <1>9, <2>1 DEF Errors!FindGroup
  <2>3. Told'
    BY <1>4, <2>1, <2>2, Telling DEF Told
  <2>4. QED
    BY <2>2, <2>3, FailureIsTold
<1>10. CASE Errors!resourceError
  <2>1. PICK what : what = IF call.class \in {"not_found", "invalid"}
                           THEN "resourceNotFound" ELSE call.class
    OBVIOUS
  <2>2. /\ call.at = "failed" /\ call.by = "resource" /\ Errors!Tell(what, FALSE)
        /\ UNCHANGED <<world, past>>
    BY <1>10, <2>1 DEF Errors!resourceError
  <2>3. Told'
    BY <1>4, <2>1, <2>2, Telling DEF Told
  <2>4. QED
    BY <2>2, <2>3, FailureIsTold
<1>11. CASE Errors!resolveGroups
  <2>1. PICK what : what = IF Errors!degraded(call.error, world.ended) THEN "stop" ELSE "next"
    OBVIOUS
  <2>2. /\ call.at = "failed" /\ call.by = "courtesy" /\ Errors!Tell(what, FALSE)
        /\ UNCHANGED <<world, past>>
    BY <1>11, <2>1 DEF Errors!resolveGroups
  <2>3. Told'
    BY <1>4, <2>1, <2>2, Telling DEF Told
  <2>4. QED
    BY <2>2, <2>3, FailureIsTold
<1>12. QED
  BY <1>2, <1>3, <1>5, <1>6, <1>7, <1>8, <1>9, <1>10, <1>11 DEF Errors!Next

(* What the failure was taken for decides what it is told as.              *)
LEMMA AdviceFits ==
  ASSUME ErrorsInv
  PROVE  Errors!AdviceFitsTheCause
<1> SUFFICES ASSUME call.at = "told" PROVE Errors!AdviceFitsTheCause
  BY DEF Errors!AdviceFitsTheCause
<1> DEFINE c == world.cause
<1>1. PICK e : e = call.error
  OBVIOUS
<1>2. /\ Diagnosed(e, c, past.unrepeatable) /\ call.class = Errors!Classify(e)
      /\ call.scope = (IF Errors!IsMissingScope(e) THEN Errors!needsScope(call.by) ELSE "")
      /\ call.readFirst = e.uncertain /\ past.unrepeatable \in BOOLEAN /\ Told
      /\ c \in Errors!Causes /\ world.ended \in BOOLEAN
  BY <1>1 DEF ErrorsInv, Wrong, Errors!TypeOK
<1>3. call.class \in Errors!Classes
  BY <1>2, ClassifyIsClass
<1>4. /\ call.class \in {"auth", "scope"} <=> c \in Errors!SignInHelps
      /\ call.class = "rate_limited" <=> c = "rate"
      /\ call.class = "quota" <=> c = "quota"
      /\ call.class = "forbidden" <=> c \in {"denied", "disabled"}
      /\ call.class = "server" <=> c = "failing"
      /\ call.class = "not_found" <=> c = "notThere"
      /\ call.class = "invalid" <=> c = "badRequest"
      /\ call.class = "unexpected" <=> c \in {"tokenFailed", "unsent", "broken"}
  BY <1>2 DEF Diagnosed
<1>5. call.scope = (IF c # "noScope" THEN ""
                    ELSE IF call.by = "witness" THEN "write" ELSE "request")
  <2>1. Errors!IsMissingScope(e) <=> c = "noScope"
    BY <1>2 DEF Diagnosed
  <2>2. QED
    BY <1>2, <2>1 DEF Errors!needsScope
<1>6. call.readFirst <=> past.unrepeatable /\ c \in {"failing", "broken"}
  BY <1>2 DEF Diagnosed
<1>7. /\ call.hint => call.by \in {"person", "member"} /\ c \notin Errors!SignInHelps \cup {"rate"}
      /\ call.by \in {"person", "member"} /\ c \in Errors!Refusals => call.hint
      /\ call.told = "alreadyMember" <=> call.by = "member" /\ c = "exists"
      /\ call.told = "alreadyMember" => ~call.hint
  <2>1. Errors!IsAlreadyExists(e) <=> c = "exists"
    BY <1>2 DEF Diagnosed
  <2>2. call.told = "alreadyMember" <=> call.by = "member" /\ c = "exists"
    BY <1>1, <1>2, <2>1 DEF Told
  <2>3. call.hint <=> /\ call.by = "person" \/ (call.by = "member" /\ c # "exists")
                      /\ c \notin Errors!SignInHelps \cup {"rate"}
    <3>1. call.class \in {"auth", "scope", "rate_limited"} <=> c \in Errors!SignInHelps \cup {"rate"}
      BY <1>4
    <3>2. call.hint <=> /\ call.by = "person"
                             \/ (call.by = "member" /\ ~Errors!IsAlreadyExists(call.error))
                        /\ call.class \notin {"auth", "scope", "rate_limited"}
      BY <1>2, Zenon DEF Told
    <3>3. QED
      BY <1>1, <2>1, <3>1, <3>2, Zenon
  <2>4. \A x \in Errors!Refusals : x # "exists" /\ x \notin Errors!SignInHelps \cup {"rate"}
    BY DEF Errors!Refusals, Errors!SignInHelps
  <2>5. QED
    BY <2>2, <2>3, <2>4
<1>8. call.by = "directory" =>
        (call.told = "blocked" <=> c \notin Errors!SignInHelps \cup Errors!Temporary)
  <2>1. Errors!worthReporting(call.class) <=> c \in Errors!SignInHelps \cup Errors!Temporary
    BY <1>4 DEF Errors!worthReporting, Errors!Temporary
  <2>2. call.class # "blocked"
    BY <1>3 DEF Errors!Classes
  <2>3. QED
    BY <1>2, <2>1, <2>2 DEF Told
<1>9. call.by = "group" => (call.told = "notVisible" <=> c \in {"denied", "notThere"})
  <2>1. /\ Errors!IsForbidden(e) <=> c = "denied"
        /\ Errors!IsNotFound(e) <=> c = "notThere"
    BY <1>2 DEF Diagnosed
  <2>2. call.class # "notVisible"
    BY <1>3 DEF Errors!Classes
  <2>3. QED
    BY <1>1, <1>2, <2>1, <2>2 DEF Told
<1>10. call.by = "resource" /\ c # "badRequest" =>
         (call.told = "resourceNotFound" <=> c = "notThere")
  <2>1. call.class # "resourceNotFound"
    BY <1>3 DEF Errors!Classes
  <2>2. QED
    BY <1>2, <1>4, <2>1 DEF Told
<1>11. call.by = "courtesy" =>
         (call.told = "stop" <=> c \in {"noScope", "badToken", "disabled"} \/ world.ended)
  <2>1. Errors!degraded(e, world.ended) <=> c \in {"noScope", "badToken", "disabled"} \/ world.ended
    BY <1>2 DEF Diagnosed
  <2>2. QED
    BY <1>1, <1>2, <2>1 DEF Told
<1>12. QED
  BY <1>4, <1>5, <1>6, <1>7, <1>8, <1>9, <1>10, <1>11 DEF Errors!AdviceFitsTheCause

ErrorsKept == which = "errors" => ErrorsInv

LEMMA ErrorsAlways == Spec => []ErrorsKept
<1>1. Init => ErrorsKept
  BY ErrorsInit DEF Init, ErrorsKept
<1>2. ErrorsKept /\ [Next]_vars => ErrorsKept'
  <2>1. SUFFICES ASSUME ErrorsKept, [Next]_vars, which' = "errors" PROVE ErrorsInv'
    BY DEF ErrorsKept
  <2>2. which = "errors" /\ (Errors!Next \/ UNCHANGED vars)
    BY <2>1 DEF ErrorsKept, Next, vars
  <2>3. QED
    BY <2>1, <2>2, ErrorsStep DEF ErrorsKept
<1>3. QED
  BY <1>1, <1>2, PTL DEF Spec

(* However Google words a failure, and whoever asked, the class told, the  *)
(* scope named and the mark to read first are those of its cause, checking *)
(* an address is advised whenever the request was refused and never where  *)
(* signing in or waiting for a rate helps or somebody is a member already, *)
(* and what is read as not visible, blocked or not there is so, a          *)
(* resource's bad requests apart (errors.go).                              *)
THEOREM FailuresAreTold == Spec => []AdviceFitsTheCause
<1>1. ErrorsKept => AdviceFitsTheCause
  BY AdviceFits DEF ErrorsKept, AdviceFitsTheCause
<1>2. QED
  BY <1>1, ErrorsAlways, PTL

-----------------------------------------------------------------------------
(* The server and the commands beside it (main.go, status.go, doctor.go).  *)

(* The paths of the fields that answers had and nobody reads.              *)
Reported(added) ==
  UNION {{<<a[1], p>> : p \in Commands!reportUnknown(a[2])} : a \in added}

Walking == {"whoami", "spaces", "messages", "members", "sections", "report"}

Machine ==
  /\ call = [server |-> call.server, by |-> call.by, at |-> call.at, spaces |-> call.spaces,
             signedIn |-> call.signedIn, store |-> call.store, seen |-> call.seen,
             skipped |-> call.skipped, drift |-> call.drift, exit |-> call.exit]
  /\ call.server = [at |-> call.server.at, store |-> call.server.store, exit |-> call.server.exit]
  /\ past = [changes |-> past.changes, changed |-> past.changed, failed |-> past.failed,
             tried |-> past.tried, added |-> past.added]
  /\ past.tried \in [Commands!Checks -> Nat]

(* doctor reports each check that failed, and each path of each new field. *)
Recorded ==
  /\ past.added \subseteq Commands!Checks \X Commands!NewFields /\ IsFiniteSet(past.added)
  /\ call.skipped = past.failed
  /\ call.seen = Reported(past.added)

NoSpaces == \E f \in past.failed : f.what = "spaces"

(* Where doctor's walk is, by how often it tried each listing.             *)
Walk ==
  /\ call.at \in Walking => call.by = "doctor"
  /\ call.at \in {"start", "whoami", "spaces"} =>
       ~NoSpaces /\ past.tried["messages"] = 0 /\ past.tried["members"] = 0
  /\ call.at = "messages" =>
       past.tried["messages"] = past.tried["members"] /\ past.tried["members"] < call.spaces
  /\ call.at = "members" =>
       past.tried["messages"] = past.tried["members"] + 1 /\ past.tried["members"] < call.spaces
  /\ call.at = "sections" =>
       past.tried["messages"] = call.spaces /\ past.tried["members"] = call.spaces
  /\ call.at = "report" \/ (call.by = "doctor" /\ call.at = "ended" /\ call.exit = 0) =>
       NoSpaces \/ /\ past.tried["sections"] > 0
                   /\ past.tried["messages"] = call.spaces /\ past.tried["members"] = call.spaces
  /\ call.by = "doctor" /\ call.at = "ended" /\ call.exit = 0 => call.drift = call.seen

(* On a machine that did not change since, status and the server say what  *)
(* is there now.                                                           *)
Alike ==
  call.by = "status" /\ ~past.changed =>
    /\ call.server.at # "start" =>
         /\ call.server.store = Commands!build.store
         /\ ~Commands!build.starts => call.server.at = "ended" /\ call.server.exit = 1
    /\ call.at # "start" =>
         /\ call.exit = IF Commands!Load THEN 0 ELSE 1
         /\ call.signedIn = Commands!newStatusReport.signedIn
         /\ call.store = Commands!newStatusReport.store

CommandsInv == Commands!TypeOK /\ Machine /\ Recorded /\ Walk /\ Alike

LEMMA CommandsCounts == \A S : Commands!Cardinality(S) = Cardinality(S)
  BY DEF Commands!Cardinality, Cardinality

LEMMA Stores ==
  /\ Commands!Resolve \in {"", "env", "keyring", "file"}
  /\ Commands!build.store \in {"", "env", "keyring", "file"}
  /\ Commands!newStatusReport.store \in {"", "env", "keyring", "file"}
  /\ Commands!newStatusReport.signedIn \in BOOLEAN
<1>1. Commands!Resolve \in {"", "env", "keyring", "file"}
  BY DEF Commands!Resolve
<1>2. Commands!loadTokenSource \in {"", "env", "keyring", "file"}
  BY <1>1 DEF Commands!loadTokenSource
<1>3. QED
  BY <1>1, <1>2 DEF Commands!build, Commands!newStatusReport

(* Each new field is named by one path, or by none if nobody can know it.  *)
LEMMA OnePath ==
  ASSUME NEW f \in Commands!NewFields
  PROVE  /\ Commands!reportUnknown(f) = {} <=> f \in Commands!Unnameable
         /\ \A p, q \in Commands!reportUnknown(f) : p = q
<1> DEFINE named == {i \in 2..Len(f) : f[i] = "added" /\ Commands!Kind[f[i - 1]] = "struct"}
<1>1. /\ Commands!Kind["Response"] = "struct" /\ Commands!Kind["rows"] = "list"
      /\ Commands!Kind["row"] = "struct" /\ Commands!Kind["labels"] = "map"
      /\ Commands!Kind["label"] = "struct" /\ Commands!Kind["value"] = "any"
      /\ Commands!Kind["added"] = "unknown"
  BY DEF Commands!Kind
<1> DEFINE unnameable == f \in Commands!Unnameable
<1>2. /\ named = {} <=> unnameable
      /\ \A i, k \in named : i = k
  <2>1. CASE f = <<"Response", "added">>
    <3>1. Len(f) = 2 /\ f[1] = "Response" /\ f[2] = "added"
      BY <2>1
    <3>2. named = {2}
      BY <1>1, <3>1
    <3>3. ~unnameable
      BY <3>1 DEF Commands!Unnameable
    <3>4. QED
      BY <3>2, <3>3
  <2>2. CASE f = <<"Response", "added", "added">>
    <3>1. Len(f) = 3 /\ f[1] = "Response" /\ f[2] = "added" /\ f[3] = "added"
      BY <2>2
    <3>2. named = {2}
      BY <1>1, <3>1
    <3>3. ~unnameable
      BY <3>1 DEF Commands!Unnameable
    <3>4. QED
      BY <3>2, <3>3
  <2>3. CASE f = <<"Response", "value", "added">>
    <3>1. Len(f) = 3 /\ f[1] = "Response" /\ f[2] = "value" /\ f[3] = "added"
      BY <2>3
    <3>2. named = {}
      BY <1>1, <3>1
    <3>3. unnameable
      BY <2>3 DEF Commands!Unnameable
    <3>4. QED
      BY <3>2, <3>3
  <2>4. CASE f = <<"Response", "rows", "row", "added">>
    <3>1. Len(f) = 4 /\ f[1] = "Response" /\ f[2] = "rows" /\ f[3] = "row" /\ f[4] = "added"
      BY <2>4
    <3>2. named = {4}
      BY <1>1, <3>1
    <3>3. ~unnameable
      BY <3>1 DEF Commands!Unnameable
    <3>4. QED
      BY <3>2, <3>3
  <2>5. CASE f = <<"Response", "labels", "added">>
    <3>1. Len(f) = 3 /\ f[1] = "Response" /\ f[2] = "labels" /\ f[3] = "added"
      BY <2>5
    <3>2. named = {}
      BY <1>1, <3>1
    <3>3. unnameable
      BY <2>5 DEF Commands!Unnameable
    <3>4. QED
      BY <3>2, <3>3
  <2>6. CASE f = <<"Response", "labels", "label", "added">>
    <3>1. Len(f) = 4 /\ f[1] = "Response" /\ f[2] = "labels" /\ f[3] = "label" /\ f[4] = "added"
      BY <2>6
    <3>2. named = {4}
      BY <1>1, <3>1
    <3>3. ~unnameable
      BY <3>1 DEF Commands!Unnameable
    <3>4. QED
      BY <3>2, <3>3
  <2>7. QED
    BY <2>1, <2>2, <2>3, <2>4, <2>5, <2>6 DEF Commands!NewFields
<1> DEFINE path(i) == SelectSeq(SubSeq(f, 1, i), LAMBDA n : n \notin {"row", "label"})
<1>3. Commands!reportUnknown(f) = {path(i) : i \in named}
  BY DEF Commands!reportUnknown
<1> HIDE DEF named, path, unnameable
<1>4. /\ Commands!reportUnknown(f) = {} <=> unnameable
      /\ \A p, q \in Commands!reportUnknown(f) : p = q
  BY <1>2, <1>3
<1>5. QED
  BY <1>4 DEF unnameable

LEMMA FewPaths ==
  ASSUME NEW added \in SUBSET (Commands!Checks \X Commands!NewFields), IsFiniteSet(added)
  PROVE  Cardinality(Reported(added)) <= Cardinality(added)
<1> DEFINE some == {a \in added : Commands!reportUnknown(a[2]) # {}}
           path == [a \in some |-> <<a[1], CHOOSE p \in Commands!reportUnknown(a[2]) : TRUE>>]
           paths == Reported(added)
<1>1. \A a \in added : a[1] \in Commands!Checks /\ a[2] \in Commands!NewFields
  OBVIOUS
<1>2. some \in SUBSET added /\ IsFiniteSet(some) /\ Cardinality(some) <= Cardinality(added)
  BY FS_Subset
<1>3. \A a \in some : path[a] \in paths
  BY DEF Reported
<1>4. ASSUME NEW t \in paths PROVE \E a \in some : path[a] = t
  <2>1. PICK a \in added : \E p \in Commands!reportUnknown(a[2]) : t = <<a[1], p>>
    BY DEF Reported
  <2>2. PICK p \in Commands!reportUnknown(a[2]) : t = <<a[1], p>>
    BY <2>1
  <2>3. a \in some /\ (CHOOSE q \in Commands!reportUnknown(a[2]) : TRUE) = p
    BY <1>1, OnePath
  <2>4. QED
    BY <2>2, <2>3
<1>5. path \in Surjection(some, paths)
  BY <1>3, <1>4 DEF Surjection
<1>6. Cardinality(paths) <= Cardinality(some) /\ IsFiniteSet(paths)
  BY <1>2, <1>5, FS_Surjection
<1>7. Cardinality(paths) \in Nat /\ Cardinality(some) \in Nat /\ Cardinality(added) \in Nat
  BY <1>2, <1>6, FS_CardinalityType
<1>8. QED
  BY <1>2, <1>6, <1>7

LEMMA CommandsInit ==
  ASSUME Commands!Init
  PROVE  CommandsInv
<1>9. call.server.at = "start" /\ call.server.store = "" /\ call.server.exit = 0
  <2>1. call.server = [at |-> "start", store |-> "", exit |-> 0]
    BY DEF Commands!Init
  <2>2. PICK server : server = call.server
    OBVIOUS
  <2>3. server = [at |-> "start", store |-> "", exit |-> 0]
    BY <2>1, <2>2
  <2>4. server.at = "start" /\ server.store = "" /\ server.exit = 0
    BY <2>3
  <2>5. QED
    BY <2>2, <2>4
<1>1. /\ call.server = [at |-> "start", store |-> "", exit |-> 0]
      /\ call.by \in {"status", "doctor", "unknown"} /\ call.at = "start" /\ call.spaces = 0
      /\ call.signedIn = FALSE /\ call.store = "" /\ call.seen = {} /\ call.skipped = {}
      /\ call.drift = {} /\ call.exit = 0
      /\ call = [server |-> call.server, by |-> call.by, at |-> call.at, spaces |-> call.spaces,
                 signedIn |-> call.signedIn, store |-> call.store, seen |-> call.seen,
                 skipped |-> call.skipped, drift |-> call.drift, exit |-> call.exit]
  BY DEF Commands!Init
<1>2. past = [changes |-> 0, changed |-> FALSE, failed |-> {},
              tried |-> [w \in Commands!Checks |-> 0], added |-> {}]
  BY DEF Commands!Init
<1>3. Commands!TypeOK
  <2>2. past.changes = 0 /\ past.changed = FALSE
    BY <1>2
  <2>3. 0 \in 0..SampledSpaces /\ 0 \in 0..MaxMachineChanges
    BY BoundsAssumption
  <2>4. {call.store, call.server.store} \subseteq {"", "env", "keyring", "file"}
    BY <1>1, <1>9
  <2>5. QED
    BY <1>1, <1>9, <2>2, <2>3, <2>4 DEF Commands!TypeOK
<1>4. Machine
  BY <1>1, <1>2 DEF Machine
<1>5. Recorded
  BY <1>1, <1>2, FS_EmptySet DEF Recorded, Reported
<1>6. Walk
  BY <1>1, <1>2 DEF Walk, Walking, NoSpaces, Commands!Checks
<1>7. Alike
  <2>1. call.server.at = "start" /\ call.at = "start"
    BY <1>1, <1>9
  <2>2. QED
    BY <2>1, Zenon DEF Alike
<1>8. QED
  BY <1>3, <1>4, <1>5, <1>6, <1>7 DEF CommandsInv

(* A step of the server leaves the command beside it alone.                *)
LEMMA ServerKeeps ==
  ASSUME CommandsInv, NEW server, call' = [call EXCEPT !.server = server],
         UNCHANGED <<world, past>>,
         server = [at |-> server.at, store |-> server.store, exit |-> server.exit],
         server.at \in {"start", "serving", "ended"}, server.exit \in {0, 1},
         server.store \in {"", "env", "keyring", "file"}
  PROVE  /\ Commands!TypeOK' /\ Machine' /\ Recorded' /\ Walk'
         /\ call'.server = server /\ call'.by = call.by /\ call'.at = call.at
         /\ call'.exit = call.exit /\ call'.signedIn = call.signedIn /\ call'.store = call.store
<1>1. /\ call'.server = server /\ call'.by = call.by /\ call'.at = call.at
      /\ call'.exit = call.exit /\ call'.signedIn = call.signedIn /\ call'.store = call.store
      /\ call'.spaces = call.spaces /\ call'.seen = call.seen /\ call'.skipped = call.skipped
      /\ call'.drift = call.drift
      /\ call' = [server |-> call'.server, by |-> call'.by, at |-> call'.at,
                   spaces |-> call'.spaces, signedIn |-> call'.signedIn, store |-> call'.store,
                   seen |-> call'.seen, skipped |-> call'.skipped, drift |-> call'.drift,
                   exit |-> call'.exit]
  BY DEF CommandsInv, Machine
<1>2. Commands!TypeOK'
  <2>1. {call'.store, call'.server.store} \subseteq {"", "env", "keyring", "file"}
    BY <1>1 DEF CommandsInv, Commands!TypeOK
  <2>2. QED
    BY <1>1, <2>1 DEF CommandsInv, Commands!TypeOK
<1>3. Machine'
  BY <1>1 DEF CommandsInv, Machine
<1>4. Recorded'
  BY <1>1 DEF CommandsInv, Recorded
<1>5. Walk'
  BY <1>1 DEF CommandsInv, Walk, NoSpaces
<1>6. QED
  BY <1>1, <1>2, <1>3, <1>4, <1>5

LEMMA ServerServes ==
  ASSUME CommandsInv, Commands!cmdServe
  PROVE  CommandsInv'
<1> DEFINE at   == IF Commands!build.starts THEN "serving" ELSE "ended"
           exit == IF Commands!build.starts THEN 0 ELSE 1
<1>1. PICK server : server = [at |-> at, store |-> Commands!build.store, exit |-> exit]
  OBVIOUS
<1>2. /\ call.server.at = "start" /\ UNCHANGED <<world, past>>
      /\ call' = [call EXCEPT !.server = server]
  BY <1>1 DEF Commands!cmdServe
<1>3. /\ server.at = at /\ server.store = Commands!build.store /\ server.exit = exit
      /\ server = [at |-> server.at, store |-> server.store, exit |-> server.exit]
  BY <1>1
<1>4. /\ Commands!TypeOK' /\ Machine' /\ Recorded' /\ Walk'
      /\ call'.server = server /\ call'.by = call.by /\ call'.at = call.at
      /\ call'.exit = call.exit /\ call'.signedIn = call.signedIn /\ call'.store = call.store
  BY <1>2, <1>3, Stores, ServerKeeps
<1>5. Commands!build' = Commands!build /\ Commands!newStatusReport' = Commands!newStatusReport
      /\ Commands!Load' = Commands!Load
  BY <1>2 DEF Commands!build, Commands!newStatusReport, Commands!Load, Commands!loadTokenSource,
       Commands!LoadClientSecret, Commands!clientConfig, Commands!Resolve
<1>6. Alike'
  <2>1. SUFFICES ASSUME call'.by = "status", ~past'.changed
        PROVE  /\ call'.server.at # "start" =>
                    /\ call'.server.store = Commands!build.store
                    /\ ~Commands!build.starts => call'.server.at = "ended" /\ call'.server.exit = 1
               /\ call'.at # "start" =>
                    /\ call'.exit = IF Commands!Load THEN 0 ELSE 1
                    /\ call'.signedIn = Commands!newStatusReport.signedIn
                    /\ call'.store = Commands!newStatusReport.store
    BY <1>5, Zenon DEF Alike
  <2>2. /\ call'.server.store = Commands!build.store
        /\ ~Commands!build.starts => call'.server.at = "ended" /\ call'.server.exit = 1
    BY <1>3, <1>4
  <2>3. call.by = "status" /\ ~past.changed /\ call'.at = call.at
    BY <1>2, <1>4, <2>1
  <2>4. QED
    BY <1>4, <2>2, <2>3 DEF CommandsInv, Alike
<1>7. QED
  BY <1>4, <1>6 DEF CommandsInv

LEMMA ServerEnds ==
  ASSUME CommandsInv, Commands!Run
  PROVE  CommandsInv'
<1>1. PICK exit \in {0, 1} :
        /\ call.server.at = "serving" /\ UNCHANGED <<world, past>>
        /\ call' = [call EXCEPT !.server.at = "ended", !.server.exit = exit]
  BY DEF Commands!Run
<1>2. PICK server : server = [call.server EXCEPT !.at = "ended", !.exit = exit]
  OBVIOUS
<1>3. call' = [call EXCEPT !.server = server]
  BY <1>1, <1>2
<1>4. PICK old : old = call.server
  OBVIOUS
<1>5. old = [at |-> old.at, store |-> old.store, exit |-> old.exit]
  BY <1>4 DEF CommandsInv, Machine
<1>6. /\ server.at = "ended" /\ server.store = old.store /\ server.exit = exit
      /\ server = [at |-> server.at, store |-> server.store, exit |-> server.exit]
  BY <1>2, <1>4, <1>5
<1>7. server.store \in {"", "env", "keyring", "file"}
  BY <1>4, <1>6 DEF CommandsInv, Commands!TypeOK
<1>8. /\ Commands!TypeOK' /\ Machine' /\ Recorded' /\ Walk'
      /\ call'.server = server /\ call'.by = call.by /\ call'.at = call.at
      /\ call'.exit = call.exit /\ call'.signedIn = call.signedIn /\ call'.store = call.store
  BY <1>1, <1>3, <1>6, <1>7, ServerKeeps
<1>9. Commands!build' = Commands!build /\ Commands!newStatusReport' = Commands!newStatusReport
      /\ Commands!Load' = Commands!Load
  BY <1>1 DEF Commands!build, Commands!newStatusReport, Commands!Load, Commands!loadTokenSource,
       Commands!LoadClientSecret, Commands!clientConfig, Commands!Resolve
<1>10. Alike'
  <2>1. SUFFICES ASSUME call'.by = "status", ~past'.changed
        PROVE  /\ call'.server.at # "start" =>
                    /\ call'.server.store = Commands!build.store
                    /\ ~Commands!build.starts => call'.server.at = "ended" /\ call'.server.exit = 1
               /\ call'.at # "start" =>
                    /\ call'.exit = IF Commands!Load THEN 0 ELSE 1
                    /\ call'.signedIn = Commands!newStatusReport.signedIn
                    /\ call'.store = Commands!newStatusReport.store
    BY <1>9, Zenon DEF Alike
  <2>2. call.by = "status" /\ ~past.changed
    BY <1>1, <1>8, <2>1
  <2>3. /\ call.server.store = Commands!build.store
        /\ Commands!build.starts
    BY <1>1, <2>2 DEF CommandsInv, Alike
  <2>4. call'.server.store = Commands!build.store
    BY <1>4, <1>6, <1>8, <2>3
  <2>5. QED
    BY <1>8, <2>2, <2>3, <2>4 DEF CommandsInv, Alike
<1>11. QED
  BY <1>8, <1>10 DEF CommandsInv

(* status, and a word that is no command, end at once.                     *)
LEMMA StatusEnds ==
  ASSUME CommandsInv, Commands!cmdStatus \/ Commands!run
  PROVE  CommandsInv'
<1>1. /\ call.at = "start" /\ call.by \in {"status", "unknown"} /\ UNCHANGED <<world, past>>
      /\ call'.at = "ended" /\ call'.exit \in {0, 1}
      /\ call'.server = call.server /\ call'.by = call.by
      /\ call'.spaces = call.spaces /\ call'.seen = call.seen /\ call'.skipped = call.skipped
      /\ call'.drift = call.drift
  BY DEF Commands!cmdStatus, Commands!run, CommandsInv, Machine
<1>2. /\ call.by = "status" =>
           /\ call'.exit = IF Commands!Load THEN 0 ELSE 1
           /\ call'.signedIn = Commands!newStatusReport.signedIn
           /\ call'.store = Commands!newStatusReport.store
      /\ call.by = "unknown" => call'.signedIn = call.signedIn /\ call'.store = call.store
  BY DEF Commands!cmdStatus, Commands!run, CommandsInv, Machine
<1>3. call' = [server |-> call'.server, by |-> call'.by, at |-> call'.at, spaces |-> call'.spaces,
               signedIn |-> call'.signedIn, store |-> call'.store, seen |-> call'.seen,
               skipped |-> call'.skipped, drift |-> call'.drift, exit |-> call'.exit]
  BY DEF Commands!cmdStatus, Commands!run, CommandsInv, Machine
<1>4. Commands!TypeOK'
  <2>1. call'.store \in {"", "env", "keyring", "file"} /\ call'.signedIn \in BOOLEAN
    BY <1>1, <1>2, Stores DEF CommandsInv, Commands!TypeOK
  <2>2. {call'.store, call'.server.store} \subseteq {"", "env", "keyring", "file"}
    BY <1>1, <2>1 DEF CommandsInv, Commands!TypeOK
  <2>3. QED
    BY <1>1, <2>1, <2>2 DEF CommandsInv, Commands!TypeOK
<1>5. Machine'
  BY <1>1, <1>3 DEF CommandsInv, Machine
<1>6. Recorded'
  BY <1>1 DEF CommandsInv, Recorded
<1>7. Walk'
  BY <1>1 DEF Walk, Walking
<1>8. Commands!build' = Commands!build /\ Commands!newStatusReport' = Commands!newStatusReport
      /\ Commands!Load' = Commands!Load
  BY <1>1 DEF Commands!build, Commands!newStatusReport, Commands!Load, Commands!loadTokenSource,
       Commands!LoadClientSecret, Commands!clientConfig, Commands!Resolve
<1>9. Alike'
  <2>1. SUFFICES ASSUME call'.by = "status", ~past'.changed
        PROVE  /\ call'.server.at # "start" =>
                    /\ call'.server.store = Commands!build.store
                    /\ ~Commands!build.starts => call'.server.at = "ended" /\ call'.server.exit = 1
               /\ call'.at # "start" =>
                    /\ call'.exit = IF Commands!Load THEN 0 ELSE 1
                    /\ call'.signedIn = Commands!newStatusReport.signedIn
                    /\ call'.store = Commands!newStatusReport.store
    BY <1>8, Zenon DEF Alike
  <2>2. call.by = "status" /\ ~past.changed /\ call'.server = call.server
    BY <1>1, <2>1
  <2>3. QED
    BY <1>2, <2>2 DEF CommandsInv, Alike
<1>10. QED
  BY <1>4, <1>5, <1>6, <1>7, <1>9 DEF CommandsInv

(* Whatever changes the machine, the command and the server run on.        *)
LEMMA MachineChanges ==
  ASSUME CommandsInv, Commands!Outage \/ Commands!Login \/ Commands!Logout
  PROVE  CommandsInv'
<1>1. /\ UNCHANGED call /\ past.changes < MaxMachineChanges
      /\ past' = [past EXCEPT !.changes = @ + 1,
                              !.changed = @ \/ call.at # "start" \/ call.server.at # "start"]
  BY DEF Commands!Outage, Commands!Login, Commands!Logout, Commands!Changes
<1>2. /\ past'.changes = past.changes + 1 /\ past'.failed = past.failed
      /\ past'.tried = past.tried /\ past'.added = past.added
      /\ past'.changed = (past.changed \/ call.at # "start" \/ call.server.at # "start")
      /\ past' = [changes |-> past'.changes, changed |-> past'.changed, failed |-> past'.failed,
                  tried |-> past'.tried, added |-> past'.added]
  BY <1>1 DEF CommandsInv, Machine
<1>3. past'.changed \in BOOLEAN
  BY <1>2 DEF CommandsInv, Commands!TypeOK
<1>4. past'.changes \in 0..MaxMachineChanges
  <2>1. MaxMachineChanges \in Nat
    BY BoundsAssumption
  <2>2. past.changes \in 0..MaxMachineChanges
    BY DEF CommandsInv, Commands!TypeOK
  <2>3. past.changes \in Nat /\ past.changes + 1 <= MaxMachineChanges
    BY <1>1, <2>1, <2>2
  <2>4. QED
    BY <1>2, <2>1, <2>3
<1>5. Commands!TypeOK'
  BY <1>1, <1>3, <1>4 DEF CommandsInv, Commands!TypeOK
<1>6. Machine'
  BY <1>1, <1>2 DEF CommandsInv, Machine
<1>7. Recorded'
  BY <1>1, <1>2 DEF CommandsInv, Recorded
<1>8. Walk'
  BY <1>1, <1>2 DEF CommandsInv, Walk, NoSpaces
<1>9. Alike'
  <2>1. CASE past'.changed
    BY <2>1 DEF Alike
  <2>2. CASE ~past'.changed
    <3>1. call'.at = "start" /\ call'.server.at = "start"
      BY <1>1, <1>2, <2>2
    <3>2. QED
      BY <3>1, Zenon DEF Alike
  <2>3. QED
    BY <2>1, <2>2
<1>10. QED
  BY <1>5, <1>6, <1>7, <1>8, <1>9 DEF CommandsInv

(* What a step of doctor leaves alone, and the place it goes to.           *)
DoctorGoes(at) ==
  /\ call.by = "doctor" /\ call'.by = "doctor" /\ call'.at = at
  /\ call'.server = call.server /\ call'.signedIn = call.signedIn
  /\ past'.changes = past.changes /\ past'.changed = past.changed
  /\ Machine'

LEMMA DoctorTypes ==
  ASSUME CommandsInv, NEW at \in Walking \cup {"ended"}, DoctorGoes(at),
         call'.exit \in {0, 1}, call'.spaces \in 0..SampledSpaces,
         call'.store \in {"", "env", "keyring", "file"}
  PROVE  Commands!TypeOK' /\ Alike'
<1>1. {call'.store, call'.server.store} \subseteq {"", "env", "keyring", "file"}
  BY DEF DoctorGoes, CommandsInv, Commands!TypeOK
<1>2. Commands!TypeOK'
  BY <1>1 DEF DoctorGoes, CommandsInv, Commands!TypeOK, Walking
<1>3. Alike'
  BY DEF DoctorGoes, Alike
<1>4. QED
  BY <1>2, <1>3

(* A check that fails, and one that is answered.                           *)
LEMMA CheckFails ==
  ASSUME CommandsInv, call.by = "doctor", NEW what \in Commands!Checks,
         NEW at \in Walking, Commands!Failed(what, at)
  PROVE  /\ DoctorGoes(at) /\ Recorded'
         /\ call'.exit = call.exit /\ call'.spaces = call.spaces /\ call'.store = call.store
         /\ past'.tried = [past.tried EXCEPT ![what] = @ + 1]
         /\ past.failed \subseteq past'.failed
         /\ \A f \in past'.failed : f \in past.failed \/ f.what = what
         /\ \E f \in past'.failed : f.what = what
<1>1. PICK reason \in {"scope", "undecoded"} :
        /\ call' = [[call EXCEPT !.at = at] EXCEPT !.skipped = Commands!skip(@, what, reason)]
        /\ past' = [past EXCEPT !.failed = @ \cup {[what |-> what, reason |-> reason]},
                                !.tried[what] = @ + 1]
  BY DEF Commands!Failed, Commands!Goto
<1>2. PICK f : f = [what |-> what, reason |-> reason]
  OBVIOUS
<1>3. /\ call'.by = call.by /\ call'.at = at /\ call'.server = call.server
      /\ call'.signedIn = call.signedIn /\ call'.exit = call.exit /\ call'.spaces = call.spaces
      /\ call'.store = call.store /\ call'.seen = call.seen /\ call'.drift = call.drift
      /\ call'.skipped = call.skipped \cup {f}
      /\ call' = [server |-> call'.server, by |-> call'.by, at |-> call'.at,
                   spaces |-> call'.spaces, signedIn |-> call'.signedIn, store |-> call'.store,
                   seen |-> call'.seen, skipped |-> call'.skipped, drift |-> call'.drift,
                   exit |-> call'.exit]
  BY <1>1, <1>2 DEF CommandsInv, Machine, Commands!skip
<1>4. /\ past'.changes = past.changes /\ past'.changed = past.changed
      /\ past'.failed = past.failed \cup {f} /\ past'.added = past.added
      /\ past'.tried = [past.tried EXCEPT ![what] = @ + 1]
      /\ past' = [changes |-> past'.changes, changed |-> past'.changed, failed |-> past'.failed,
                  tried |-> past'.tried, added |-> past'.added]
  BY <1>1, <1>2 DEF CommandsInv, Machine
<1>5. past'.tried \in [Commands!Checks -> Nat]
  BY <1>4 DEF CommandsInv, Machine
<1>6. Machine'
  BY <1>3, <1>4, <1>5 DEF CommandsInv, Machine
<1>7. Recorded'
  BY <1>3, <1>4 DEF CommandsInv, Recorded
<1>8. f.what = what
  BY <1>2
<1>9. QED
  BY <1>3, <1>4, <1>6, <1>7, <1>8 DEF DoctorGoes

(* A check that was answered, in a sample of n spaces.                     *)
CheckRead(what, at, n) ==
  /\ DoctorGoes(at) /\ Recorded'
  /\ call'.exit = call.exit /\ call'.spaces = n /\ call'.store = call.store
  /\ past'.tried = [past.tried EXCEPT ![what] = @ + 1]
  /\ past'.failed = past.failed

LEMMA CheckReads ==
  ASSUME CommandsInv, call.by = "doctor", NEW what \in Commands!Checks, NEW at \in Walking,
         NEW n, NEW next, next = [[call EXCEPT !.at = at] EXCEPT !.spaces = n],
         Commands!Read(what, next)
  PROVE  CheckRead(what, at, n)
<1>1. PICK new \in {{}} \cup {{f} : f \in Commands!NewFields} :
        /\ past' = [past EXCEPT !.added = @ \cup {<<what, f>> : f \in new}, !.tried[what] = @ + 1]
        /\ call' = [next EXCEPT !.seen =
             @ \cup {<<what, p>> : p \in UNION {Commands!reportUnknown(f) : f \in new}}]
  BY DEF Commands!Read
<1> DEFINE paths == {<<what, p>> : p \in UNION {Commands!reportUnknown(f) : f \in new}}
           fields == {<<what, f>> : f \in new}
<1>2. /\ next.by = call.by /\ next.at = at /\ next.server = call.server
      /\ next.signedIn = call.signedIn /\ next.exit = call.exit /\ next.spaces = n
      /\ next.store = call.store /\ next.seen = call.seen /\ next.drift = call.drift
      /\ next.skipped = call.skipped
      /\ next = [server |-> next.server, by |-> next.by, at |-> next.at, spaces |-> next.spaces,
                 signedIn |-> next.signedIn, store |-> next.store, seen |-> next.seen,
                 skipped |-> next.skipped, drift |-> next.drift, exit |-> next.exit]
  BY DEF CommandsInv, Machine
<1> HIDE DEF paths, fields
<1>3. /\ call' = [next EXCEPT !.seen = @ \cup paths]
      /\ past' = [past EXCEPT !.added = @ \cup fields, !.tried[what] = @ + 1]
  BY <1>1 DEF paths, fields
<1>4. /\ call'.by = call.by /\ call'.at = at /\ call'.server = call.server
      /\ call'.signedIn = call.signedIn /\ call'.exit = call.exit /\ call'.spaces = next.spaces
      /\ call'.store = call.store /\ call'.drift = call.drift /\ call'.skipped = call.skipped
      /\ call'.seen = call.seen \cup paths
      /\ call' = [server |-> call'.server, by |-> call'.by, at |-> call'.at,
                   spaces |-> call'.spaces, signedIn |-> call'.signedIn, store |-> call'.store,
                   seen |-> call'.seen, skipped |-> call'.skipped, drift |-> call'.drift,
                   exit |-> call'.exit]
  BY <1>2, <1>3
<1>5. /\ past'.changes = past.changes /\ past'.changed = past.changed
      /\ past'.failed = past.failed /\ past'.added = past.added \cup fields
      /\ past'.tried = [past.tried EXCEPT ![what] = @ + 1]
      /\ past' = [changes |-> past'.changes, changed |-> past'.changed, failed |-> past'.failed,
                  tried |-> past'.tried, added |-> past'.added]
  BY <1>3 DEF CommandsInv, Machine
<1>6. past'.tried \in [Commands!Checks -> Nat]
  BY <1>5 DEF CommandsInv, Machine
<1>7. Machine'
  BY <1>4, <1>5, <1>6 DEF CommandsInv, Machine
<1>8. fields \in SUBSET (Commands!Checks \X Commands!NewFields) /\ IsFiniteSet(fields)
  <2>1. CASE new = {}
    <3>1. fields = {}
      BY <2>1 DEF fields
    <3>2. QED
      BY <3>1, FS_EmptySet
  <2>2. CASE \E f \in Commands!NewFields : new = {f}
    <3>1. PICK f \in Commands!NewFields : new = {f}
      BY <2>2
    <3>2. fields = {<<what, f>>}
      BY <3>1 DEF fields
    <3>3. \A t \in fields : t \in Commands!Checks \X Commands!NewFields
      BY <3>2
    <3>4. IsFiniteSet({<<what, f>>})
      BY FS_Singleton
    <3>5. QED
      BY <3>2, <3>3, <3>4
  <2>3. QED
    BY <2>1, <2>2
<1>9. paths = Reported(fields)
  <2>1. ASSUME NEW t \in paths PROVE t \in Reported(fields)
    <3>1. PICK p \in UNION {Commands!reportUnknown(f) : f \in new} : t = <<what, p>>
      BY <2>1 DEF paths
    <3>2. PICK f \in new : p \in Commands!reportUnknown(f)
      BY <3>1
    <3>3. <<what, f>> \in fields /\ t \in {<<what, q>> : q \in Commands!reportUnknown(f)}
      BY <3>1, <3>2 DEF fields
    <3>4. QED
      BY <3>3 DEF Reported
  <2>2. ASSUME NEW t \in Reported(fields) PROVE t \in paths
    <3>1. PICK a \in fields : t \in {<<a[1], p>> : p \in Commands!reportUnknown(a[2])}
      BY <2>2 DEF Reported
    <3>2. PICK f \in new : a = <<what, f>>
      BY DEF fields
    <3>3. PICK p \in Commands!reportUnknown(f) : t = <<what, p>>
      BY <3>1, <3>2
    <3>4. QED
      BY <3>3 DEF paths
  <2>3. QED
    BY <2>1, <2>2
<1>10. Reported(past'.added) = Reported(past.added) \cup Reported(fields)
  BY <1>5 DEF Reported
<1>11. Recorded'
  <2>1. IsFiniteSet(past.added) /\ past.added \subseteq Commands!Checks \X Commands!NewFields
    BY DEF CommandsInv, Recorded
  <2>2. IsFiniteSet(past.added \cup fields)
    BY <1>8, <2>1, FS_Union
  <2>3. \A t \in past'.added : t \in Commands!Checks \X Commands!NewFields
    BY <1>5, <1>8, <2>1
  <2>4. call'.skipped = past'.failed
    BY <1>4, <1>5 DEF CommandsInv, Recorded
  <2>5. call'.seen = Reported(past'.added)
    BY <1>4, <1>9, <1>10 DEF CommandsInv, Recorded
  <2>6. QED
    BY <1>5, <2>2, <2>3, <2>4, <2>5 DEF Recorded
<1>12. QED
  BY <1>2, <1>4, <1>5, <1>7, <1>11 DEF DoctorGoes, CheckRead

(* How often each check was tried is a number.                             *)
LEMMA Tries ==
  ASSUME Machine
  PROVE  /\ past.tried["whoami"] \in Nat /\ past.tried["spaces"] \in Nat
         /\ past.tried["messages"] \in Nat /\ past.tried["members"] \in Nat
         /\ past.tried["sections"] \in Nat
  BY DEF Machine, Commands!Checks

(* A try of one check is no try of another.                                *)
LEMMA OneMore ==
  ASSUME Machine, NEW what \in Commands!Checks,
         past'.tried = [past.tried EXCEPT ![what] = @ + 1]
  PROVE  /\ past'.tried[what] = past.tried[what] + 1
         /\ \A w \in Commands!Checks : w # what => past'.tried[w] = past.tried[w]
  BY DEF Machine

LEMMA DoctorStarts ==
  ASSUME CommandsInv, Commands!cmdDoctor
  PROVE  CommandsInv'
<1> DEFINE at == IF Commands!build.starts THEN "whoami" ELSE "ended"
<1>1. /\ call.at = "start" /\ call.by = "doctor" /\ UNCHANGED past
      /\ call'.at = at /\ call'.by = call.by /\ call'.server = call.server
      /\ call'.signedIn = call.signedIn /\ call'.spaces = call.spaces
      /\ call'.seen = call.seen /\ call'.skipped = call.skipped /\ call'.drift = call.drift
      /\ call'.store = Commands!build.store
      /\ call'.exit = IF Commands!build.starts THEN 0 ELSE 1
      /\ call' = [server |-> call'.server, by |-> call'.by, at |-> call'.at,
                   spaces |-> call'.spaces, signedIn |-> call'.signedIn, store |-> call'.store,
                   seen |-> call'.seen, skipped |-> call'.skipped, drift |-> call'.drift,
                   exit |-> call'.exit]
  BY DEF Commands!cmdDoctor, Commands!Goto, CommandsInv, Machine
<1>2. Machine'
  BY <1>1 DEF CommandsInv, Machine
<1>3. DoctorGoes(at)
  BY <1>1, <1>2 DEF DoctorGoes
<1>4. at \in Walking \cup {"ended"}
  BY DEF Walking
<1>5. call'.exit \in {0, 1} /\ call'.spaces \in 0..SampledSpaces
  BY <1>1 DEF CommandsInv, Commands!TypeOK
<1>6. call'.store \in {"", "env", "keyring", "file"}
  BY <1>1, Stores
<1>7. Commands!TypeOK' /\ Alike'
  BY <1>3, <1>4, <1>5, <1>6, DoctorTypes
<1>8. Recorded'
  BY <1>1 DEF CommandsInv, Recorded
<1>9. Walk'
  <2>1. CASE Commands!build.starts
    BY <1>1, <2>1 DEF CommandsInv, Walk, NoSpaces, Walking
  <2>2. CASE ~Commands!build.starts
    BY <1>1, <2>2 DEF CommandsInv, Walk, NoSpaces, Walking
  <2>3. QED
    BY <2>1, <2>2
<1>10. QED
  BY <1>2, <1>7, <1>8, <1>9 DEF CommandsInv

(* A check that failed, or one that was read, leaves the invariant if the  *)
(* walk goes where its counts say.                                         *)
LEMMA AfterFailure ==
  ASSUME CommandsInv, call.by = "doctor", NEW what \in Commands!Checks,
         NEW at \in Walking, Commands!Failed(what, at), Walk'
  PROVE  CommandsInv'
<1>1. /\ DoctorGoes(at) /\ Recorded'
      /\ call'.exit = call.exit /\ call'.spaces = call.spaces /\ call'.store = call.store
  BY CheckFails
<1>2. /\ call'.exit \in {0, 1} /\ call'.spaces \in 0..SampledSpaces
      /\ call'.store \in {"", "env", "keyring", "file"}
  BY <1>1 DEF CommandsInv, Commands!TypeOK
<1>3. Commands!TypeOK' /\ Alike'
  BY <1>1, <1>2, DoctorTypes
<1>4. QED
  BY <1>1, <1>3 DEF CommandsInv, DoctorGoes

LEMMA AfterReading ==
  ASSUME CommandsInv, call.by = "doctor", NEW what \in Commands!Checks, NEW at \in Walking,
         NEW n \in 0..SampledSpaces, CheckRead(what, at, n), Walk'
  PROVE  CommandsInv'
<1>1. /\ DoctorGoes(at) /\ Recorded'
      /\ call'.exit = call.exit /\ call'.spaces = n /\ call'.store = call.store
  BY DEF CheckRead
<1>2. /\ call'.exit \in {0, 1} /\ call'.spaces \in 0..SampledSpaces
      /\ call'.store \in {"", "env", "keyring", "file"}
  BY <1>1 DEF CommandsInv, Commands!TypeOK
<1>3. Commands!TypeOK' /\ Alike'
  BY <1>1, <1>2, DoctorTypes
<1>4. QED
  BY <1>1, <1>3 DEF CommandsInv, DoctorGoes

(* A check after which the sample is the same.                             *)
LEMMA CheckGoesOn ==
  ASSUME CommandsInv, call.by = "doctor", NEW what \in Commands!Checks, NEW at \in Walking,
         Commands!Read(what, Commands!Goto(at))
  PROVE  CheckRead(what, at, call.spaces) /\ call.spaces \in 0..SampledSpaces
<1>1. PICK next : next = Commands!Goto(at)
  OBVIOUS
<1>2. PICK n : n = call.spaces
  OBVIOUS
<1>3. next = [[call EXCEPT !.at = at] EXCEPT !.spaces = n] /\ Commands!Read(what, next)
  BY <1>1, <1>2 DEF Commands!Goto, CommandsInv, Machine
<1>4. CheckRead(what, at, n)
  BY <1>3, CheckReads
<1>5. QED
  BY <1>2, <1>4 DEF CommandsInv, Commands!TypeOK

LEMMA DoctorAsksWho ==
  ASSUME CommandsInv, Commands!Whoami
  PROVE  CommandsInv'
<1>1. call.at = "whoami" /\ call.by = "doctor"
  BY DEF Commands!Whoami, CommandsInv, Walk, Walking
<1>2. CASE call' = [Commands!Goto("ended") EXCEPT !.exit = 1] /\ UNCHANGED past
  <2>1. /\ call'.at = "ended" /\ call'.by = call.by /\ call'.server = call.server
        /\ call'.signedIn = call.signedIn /\ call'.spaces = call.spaces
        /\ call'.seen = call.seen /\ call'.skipped = call.skipped /\ call'.drift = call.drift
        /\ call'.store = call.store /\ call'.exit = 1
        /\ call' = [server |-> call'.server, by |-> call'.by, at |-> call'.at,
                     spaces |-> call'.spaces, signedIn |-> call'.signedIn, store |-> call'.store,
                     seen |-> call'.seen, skipped |-> call'.skipped, drift |-> call'.drift,
                     exit |-> call'.exit]
    BY <1>2 DEF Commands!Goto, CommandsInv, Machine
  <2>2. Machine'
    BY <1>2, <2>1 DEF CommandsInv, Machine
  <2>3. DoctorGoes("ended")
    BY <1>1, <1>2, <2>1, <2>2 DEF DoctorGoes
  <2>4. /\ call'.exit \in {0, 1} /\ call'.spaces \in 0..SampledSpaces
        /\ call'.store \in {"", "env", "keyring", "file"}
    BY <2>1 DEF CommandsInv, Commands!TypeOK
  <2>5. Commands!TypeOK' /\ Alike'
    BY <2>3, <2>4, DoctorTypes
  <2>6. Recorded'
    BY <1>2, <2>1 DEF CommandsInv, Recorded
  <2>7. Walk'
    BY <2>1 DEF Walk, Walking
  <2>8. QED
    BY <2>2, <2>5, <2>6, <2>7 DEF CommandsInv
<1>3. CASE Commands!Read("whoami", Commands!Goto("spaces"))
  <2>1. "spaces" \in Walking /\ "whoami" \in Commands!Checks
    BY DEF Walking, Commands!Checks
  <2>2. CheckRead("whoami", "spaces", call.spaces) /\ call.spaces \in 0..SampledSpaces
    BY <1>1, <1>3, <2>1, CheckGoesOn
  <2>3. /\ DoctorGoes("spaces") /\ past'.failed = past.failed
        /\ past'.tried = [past.tried EXCEPT !["whoami"] = @ + 1]
    BY <2>2 DEF CheckRead
  <2>4. past'.tried["messages"] = 0 /\ past'.tried["members"] = 0
    BY <1>1, <2>1, <2>3, OneMore DEF CommandsInv, Walk, Commands!Checks
  <2>5. Walk'
    BY <1>1, <2>3, <2>4 DEF CommandsInv, Walk, Walking, NoSpaces, DoctorGoes
  <2>6. QED
    BY <1>1, <2>1, <2>2, <2>5, AfterReading
<1>4. QED
  BY <1>2, <1>3 DEF Commands!Whoami

LEMMA DoctorListsSpaces ==
  ASSUME CommandsInv, Commands!ListSpaces
  PROVE  CommandsInv'
<1>1. call.at = "spaces" /\ call.by = "doctor"
  BY DEF Commands!ListSpaces, CommandsInv, Walk, Walking
<1>2. /\ "spaces" \in Commands!Checks /\ "messages" \in Commands!Checks
      /\ "members" \in Commands!Checks /\ "messages" \in Walking /\ "sections" \in Walking
      /\ "report" \in Walking
  BY DEF Commands!Checks, Walking
<1>3. CASE Commands!Failed("spaces", "report")
  <2>1. DoctorGoes("report") /\ \E f \in past'.failed : f.what = "spaces"
    BY <1>1, <1>2, <1>3, CheckFails
  <2>2. Walk'
    BY <2>1 DEF Walk, Walking, NoSpaces, DoctorGoes
  <2>3. QED
    BY <1>1, <1>2, <1>3, <2>2, AfterFailure
<1>4. ASSUME NEW n \in 0..SampledSpaces,
             Commands!Read("spaces", [Commands!Goto(IF n = 0 THEN "sections" ELSE "messages")
                                        EXCEPT !.spaces = n])
      PROVE  CommandsInv'
  <2>1. PICK at : at = IF n = 0 THEN "sections" ELSE "messages"
    OBVIOUS
  <2>2. PICK next : next = [Commands!Goto(at) EXCEPT !.spaces = n]
    OBVIOUS
  <2>3. at \in Walking /\ Commands!Read("spaces", next)
    BY <1>2, <1>4, <2>1, <2>2
  <2>4. next = [[call EXCEPT !.at = at] EXCEPT !.spaces = n]
    BY <2>2 DEF Commands!Goto
  <2>5. CheckRead("spaces", at, n)
    BY <1>1, <1>2, <2>3, <2>4, CheckReads
  <2>6. /\ DoctorGoes(at) /\ past'.failed = past.failed /\ call'.spaces = n
        /\ past'.tried = [past.tried EXCEPT !["spaces"] = @ + 1]
    BY <2>5 DEF CheckRead
  <2>7. past'.tried["messages"] = 0 /\ past'.tried["members"] = 0
    BY <1>1, <1>2, <2>6, OneMore DEF CommandsInv, Walk
  <2>8. n = 0 \/ n > 0
    BY BoundsAssumption
  <2>9. Walk'
    BY <2>1, <2>6, <2>7, <2>8 DEF Walk, Walking, NoSpaces, DoctorGoes
  <2>10. QED
    BY <1>1, <1>2, <2>3, <2>5, <2>9, AfterReading
<1>5. QED
  BY <1>3, <1>4 DEF Commands!ListSpaces

LEMMA DoctorReadsMessages ==
  ASSUME CommandsInv, Commands!GetMessages
  PROVE  CommandsInv'
<1>1. call.at = "messages" /\ call.by = "doctor"
  BY DEF Commands!GetMessages, CommandsInv, Walk, Walking
<1>2. "messages" \in Commands!Checks /\ "members" \in Commands!Checks /\ "members" \in Walking
  BY DEF Commands!Checks, Walking
<1>3. /\ past.tried["messages"] = past.tried["members"] /\ past.tried["members"] < call.spaces
      /\ past.tried["members"] \in Nat
  BY <1>1, Tries DEF CommandsInv, Walk
<1>4. SUFFICES ASSUME DoctorGoes("members"), call'.spaces = call.spaces,
                      past'.tried = [past.tried EXCEPT !["messages"] = @ + 1]
               PROVE  Walk'
  <2>1. CASE Commands!Failed("messages", "members")
    <3>1. /\ DoctorGoes("members") /\ call'.spaces = call.spaces
          /\ past'.tried = [past.tried EXCEPT !["messages"] = @ + 1]
      BY <1>1, <1>2, <2>1, CheckFails
    <3>2. QED
      BY <1>1, <1>2, <1>4, <2>1, <3>1, AfterFailure
  <2>2. CASE Commands!Read("messages", Commands!Goto("members"))
    <3>1. CheckRead("messages", "members", call.spaces) /\ call.spaces \in 0..SampledSpaces
      BY <1>1, <1>2, <2>2, CheckGoesOn
    <3>2. /\ DoctorGoes("members") /\ call'.spaces = call.spaces
          /\ past'.tried = [past.tried EXCEPT !["messages"] = @ + 1]
      BY <3>1 DEF CheckRead
    <3>3. Walk'
      BY <1>4, <3>2
    <3>4. QED
      BY <1>1, <1>2, <3>1, <3>3, AfterReading
  <2>3. QED
    BY <2>1, <2>2 DEF Commands!GetMessages
<1>5. /\ past'.tried["messages"] = past.tried["messages"] + 1
      /\ past'.tried["members"] = past.tried["members"]
  BY <1>2, <1>4, OneMore DEF CommandsInv
<1>6. QED
  BY <1>3, <1>4, <1>5 DEF Walk, Walking, DoctorGoes

LEMMA DoctorListsMembers ==
  ASSUME CommandsInv, Commands!ListMembers
  PROVE  CommandsInv'
<1>1. call.at = "members" /\ call.by = "doctor"
  BY DEF Commands!ListMembers, CommandsInv, Walk, Walking
<1>2. PICK at : at = IF past.tried["members"] + 1 < call.spaces THEN "messages" ELSE "sections"
  OBVIOUS
<1>3. "messages" \in Commands!Checks /\ "members" \in Commands!Checks /\ at \in Walking
  BY <1>2 DEF Commands!Checks, Walking
<1>4. /\ past.tried["messages"] = past.tried["members"] + 1
      /\ past.tried["members"] < call.spaces /\ past.tried["members"] \in Nat
  BY <1>1, Tries DEF CommandsInv, Walk
<1>5. SUFFICES ASSUME DoctorGoes(at), call'.spaces = call.spaces,
                      past'.tried = [past.tried EXCEPT !["members"] = @ + 1]
               PROVE  Walk'
  <2>1. CASE Commands!Failed("members", at)
    <3>1. /\ DoctorGoes(at) /\ call'.spaces = call.spaces
          /\ past'.tried = [past.tried EXCEPT !["members"] = @ + 1]
      BY <1>1, <1>3, <2>1, CheckFails
    <3>2. QED
      BY <1>1, <1>3, <1>5, <2>1, <3>1, AfterFailure
  <2>2. CASE Commands!Read("members", Commands!Goto(at))
    <3>1. CheckRead("members", at, call.spaces) /\ call.spaces \in 0..SampledSpaces
      BY <1>1, <1>3, <2>2, CheckGoesOn
    <3>2. /\ DoctorGoes(at) /\ call'.spaces = call.spaces
          /\ past'.tried = [past.tried EXCEPT !["members"] = @ + 1]
      BY <3>1 DEF CheckRead
    <3>3. Walk'
      BY <1>5, <3>2
    <3>4. QED
      BY <1>1, <1>3, <3>1, <3>3, AfterReading
  <2>3. QED
    BY <1>2, <2>1, <2>2 DEF Commands!ListMembers
<1>6. /\ past'.tried["messages"] = past.tried["messages"]
      /\ past'.tried["members"] = past.tried["members"] + 1
  BY <1>3, <1>5, OneMore DEF CommandsInv
<1>7. call.spaces \in Nat
  <2>1. call.spaces \in 0..SampledSpaces
    BY DEF CommandsInv, Commands!TypeOK
  <2>2. QED
    BY <2>1
<1>8. CASE past.tried["members"] + 1 < call.spaces
  <2>1. at = "messages"
    BY <1>2, <1>8
  <2>2. QED
    BY <1>4, <1>5, <1>6, <1>7, <1>8, <2>1 DEF Walk, Walking, DoctorGoes
<1>9. CASE ~(past.tried["members"] + 1 < call.spaces)
  <2>1. at = "sections"
    BY <1>2, <1>9
  <2>2. QED
    BY <1>4, <1>5, <1>6, <1>7, <1>9, <2>1 DEF Walk, Walking, DoctorGoes
<1>10. QED
  BY <1>8, <1>9

LEMMA DoctorListsSections ==
  ASSUME CommandsInv, Commands!ListSections
  PROVE  CommandsInv'
<1>1. call.at = "sections" /\ call.by = "doctor"
  BY DEF Commands!ListSections, CommandsInv, Walk, Walking
<1>2. /\ "messages" \in Commands!Checks /\ "members" \in Commands!Checks
      /\ "sections" \in Commands!Checks /\ "report" \in Walking
  BY DEF Commands!Checks, Walking
<1>3. /\ past.tried["messages"] = call.spaces /\ past.tried["members"] = call.spaces
      /\ past.tried["sections"] \in Nat
  BY <1>1, Tries DEF CommandsInv, Walk
<1>4. SUFFICES ASSUME DoctorGoes("report"), call'.spaces = call.spaces,
                      past'.tried = [past.tried EXCEPT !["sections"] = @ + 1]
               PROVE  Walk'
  <2>1. CASE Commands!Failed("sections", "report")
    <3>1. /\ DoctorGoes("report") /\ call'.spaces = call.spaces
          /\ past'.tried = [past.tried EXCEPT !["sections"] = @ + 1]
      BY <1>1, <1>2, <2>1, CheckFails
    <3>2. QED
      BY <1>1, <1>2, <1>4, <2>1, <3>1, AfterFailure
  <2>2. CASE Commands!Read("sections", Commands!Goto("report"))
    <3>1. CheckRead("sections", "report", call.spaces) /\ call.spaces \in 0..SampledSpaces
      BY <1>1, <1>2, <2>2, CheckGoesOn
    <3>2. /\ DoctorGoes("report") /\ call'.spaces = call.spaces
          /\ past'.tried = [past.tried EXCEPT !["sections"] = @ + 1]
      BY <3>1 DEF CheckRead
    <3>3. Walk'
      BY <1>4, <3>2
    <3>4. QED
      BY <1>1, <1>2, <3>1, <3>3, AfterReading
  <2>3. QED
    BY <2>1, <2>2 DEF Commands!ListSections
<1>5. /\ past'.tried["messages"] = past.tried["messages"]
      /\ past'.tried["members"] = past.tried["members"]
      /\ past'.tried["sections"] = past.tried["sections"] + 1
  BY <1>2, <1>4, OneMore DEF CommandsInv
<1>6. past'.tried["sections"] > 0
  BY <1>3, <1>5
<1>7. QED
  BY <1>3, <1>4, <1>5, <1>6 DEF Walk, Walking, DoctorGoes

LEMMA DoctorReports ==
  ASSUME CommandsInv, Commands!WriteTo
  PROVE  CommandsInv'
<1>1. /\ call.at = "report" /\ call.by = "doctor" /\ UNCHANGED past
      /\ call'.at = "ended" /\ call'.by = call.by /\ call'.server = call.server
      /\ call'.signedIn = call.signedIn /\ call'.spaces = call.spaces
      /\ call'.seen = call.seen /\ call'.skipped = call.skipped /\ call'.drift = call.seen
      /\ call'.store = call.store /\ call'.exit = call.exit
      /\ call' = [server |-> call'.server, by |-> call'.by, at |-> call'.at,
                   spaces |-> call'.spaces, signedIn |-> call'.signedIn, store |-> call'.store,
                   seen |-> call'.seen, skipped |-> call'.skipped, drift |-> call'.drift,
                   exit |-> call'.exit]
  <2>1. call.by = "doctor"
    BY DEF Commands!WriteTo, CommandsInv, Walk, Walking
  <2>2. QED
    BY <2>1 DEF Commands!WriteTo, Commands!Goto, Commands!DriftPaths, CommandsInv, Machine
<1>2. Machine'
  BY <1>1 DEF CommandsInv, Machine
<1>3. DoctorGoes("ended")
  BY <1>1, <1>2 DEF DoctorGoes
<1>4. /\ call'.exit \in {0, 1} /\ call'.spaces \in 0..SampledSpaces
      /\ call'.store \in {"", "env", "keyring", "file"}
  BY <1>1 DEF CommandsInv, Commands!TypeOK
<1>5. Commands!TypeOK' /\ Alike'
  BY <1>3, <1>4, DoctorTypes
<1>6. Recorded'
  BY <1>1 DEF CommandsInv, Recorded
<1>7. Walk'
  BY <1>1 DEF CommandsInv, Walk, Walking, NoSpaces
<1>8. QED
  BY <1>2, <1>5, <1>6, <1>7 DEF CommandsInv

LEMMA CommandsStep ==
  ASSUME CommandsInv, Commands!Next \/ UNCHANGED vars
  PROVE  CommandsInv'
<1>1. CASE UNCHANGED <<call, world, past>>
  <2>1. Commands!TypeOK' /\ Machine' /\ Recorded' /\ Walk'
    <3>1. Commands!TypeOK'
      BY <1>1 DEF CommandsInv, Commands!TypeOK
    <3>2. Machine'
      BY <1>1 DEF CommandsInv, Machine
    <3>3. Recorded'
      BY <1>1 DEF CommandsInv, Recorded
    <3>4. Walk'
      BY <1>1 DEF CommandsInv, Walk, NoSpaces
    <3>5. QED
      BY <3>1, <3>2, <3>3, <3>4
  <2>2. Commands!build' = Commands!build /\ Commands!newStatusReport' = Commands!newStatusReport
        /\ Commands!Load' = Commands!Load
    BY <1>1 DEF Commands!build, Commands!newStatusReport, Commands!Load, Commands!loadTokenSource,
         Commands!LoadClientSecret, Commands!clientConfig, Commands!Resolve
  <2>3. Alike'
    BY <1>1, <2>2 DEF CommandsInv, Alike
  <2>4. QED
    BY <2>1, <2>3 DEF CommandsInv
<1>2. CASE Commands!Done
  BY <1>1, <1>2 DEF Commands!Done, Commands!vars
<1>3. CASE UNCHANGED vars
  BY <1>1, <1>3 DEF vars
<1>4. CASE Commands!cmdServe
  BY <1>4, ServerServes
<1>5. CASE Commands!Run
  BY <1>5, ServerEnds
<1>6. CASE Commands!cmdStatus \/ Commands!run
  BY <1>6, StatusEnds
<1>7. CASE Commands!cmdDoctor
  BY <1>7, DoctorStarts
<1>8. CASE Commands!Whoami
  BY <1>8, DoctorAsksWho
<1>9. CASE Commands!ListSpaces
  BY <1>9, DoctorListsSpaces
<1>10. CASE Commands!GetMessages
  BY <1>10, DoctorReadsMessages
<1>11. CASE Commands!ListMembers
  BY <1>11, DoctorListsMembers
<1>12. CASE Commands!ListSections
  BY <1>12, DoctorListsSections
<1>13. CASE Commands!WriteTo
  BY <1>13, DoctorReports
<1>14. CASE Commands!Outage \/ Commands!Login \/ Commands!Logout
  BY <1>14, MachineChanges
<1>15. QED
  BY <1>2, <1>3, <1>4, <1>5, <1>6, <1>7, <1>8, <1>9, <1>10, <1>11, <1>12, <1>13, <1>14
     DEF Commands!Next

(* What doctor reports, from what it recorded.                             *)
LEMMA CommandsTell ==
  ASSUME CommandsInv
  PROVE  Commands!CommandsTellTheServer
<1>1. Commands!DoctorIsThorough
  <2>1. SUFFICES ASSUME call.by = "doctor", call.at = "ended", call.exit = 0
        PROVE  /\ call.skipped = past.failed
               /\ (\A f \in past.failed : f.what # "spaces") =>
                    /\ past.tried.sections > 0
                    /\ past.tried.messages = call.spaces /\ past.tried.members = call.spaces
               /\ \A w \in Commands!Checks :
                    (\E p \in call.drift : p[1] = w)
                      <=> \E a \in past.added : a[1] = w /\ a[2] \notin Commands!Unnameable
               /\ Commands!Cardinality(call.drift) =< Commands!Cardinality(past.added)
    BY DEF Commands!DoctorIsThorough
  <2>2. call.skipped = past.failed
    BY DEF CommandsInv, Recorded
  <2>3. (\A f \in past.failed : f.what # "spaces") =>
          /\ past.tried.sections > 0
          /\ past.tried.messages = call.spaces /\ past.tried.members = call.spaces
    BY <2>1 DEF CommandsInv, Walk, NoSpaces
  <2>4. /\ call.drift = Reported(past.added) /\ IsFiniteSet(past.added)
        /\ past.added \subseteq Commands!Checks \X Commands!NewFields
    BY <2>1 DEF CommandsInv, Walk, Recorded
  <2>5. ASSUME NEW w \in Commands!Checks
        PROVE  (\E p \in call.drift : p[1] = w)
                 <=> \E a \in past.added : a[1] = w /\ a[2] \notin Commands!Unnameable
    <3>1. \A a \in past.added : a[2] \in Commands!NewFields
      BY <2>4
    <3>2. ASSUME NEW p \in call.drift, p[1] = w
          PROVE  \E a \in past.added : a[1] = w /\ a[2] \notin Commands!Unnameable
      <4>1. PICK a \in past.added : \E q \in Commands!reportUnknown(a[2]) : p = <<a[1], q>>
        BY <2>4 DEF Reported
      <4>2. a[1] = w /\ Commands!reportUnknown(a[2]) # {}
        BY <3>2, <4>1
      <4>3. QED
        BY <3>1, <4>2, OnePath
    <3>3. ASSUME NEW a \in past.added, a[1] = w, a[2] \notin Commands!Unnameable
          PROVE  \E p \in call.drift : p[1] = w
      <4>1. PICK q \in Commands!reportUnknown(a[2]) : TRUE
        BY <3>1, <3>3, OnePath
      <4>2. <<a[1], q>> \in call.drift
        BY <2>4 DEF Reported
      <4>3. <<a[1], q>>[1] = w
        BY <3>3
      <4>4. QED
        BY <4>2, <4>3
    <3>4. QED
      BY <3>2, <3>3
  <2>6. Commands!Cardinality(call.drift) =< Commands!Cardinality(past.added)
    <3>1. Cardinality(Reported(past.added)) <= Cardinality(past.added)
      BY <2>4, FewPaths
    <3>2. QED
      BY <2>4, <3>1, CommandsCounts
  <2>7. QED
    BY <2>2, <2>3, <2>5, <2>6
<1>2. Commands!StatusIsTheServers
  <2>1. SUFFICES ASSUME call.by = "status", call.at = "ended", call.server.at # "start",
                        ~past.changed
        PROVE  /\ call.exit = 1 => call.server.at = "ended" /\ call.server.exit = 1
               /\ call.signedIn => call.server.store \in {"", call.store}
               /\ call.signedIn /\ Commands!LoadClientSecret(Commands!clientConfig) =>
                    call.server.store = call.store
    BY DEF Commands!StatusIsTheServers
  <2>2. /\ call.server.store = Commands!build.store
        /\ ~Commands!build.starts => call.server.at = "ended" /\ call.server.exit = 1
        /\ call.exit = IF Commands!Load THEN 0 ELSE 1
        /\ call.signedIn = Commands!newStatusReport.signedIn
        /\ call.store = Commands!newStatusReport.store
    BY <2>1 DEF CommandsInv, Alike
  <2>3. Commands!build.starts = Commands!Load
    BY DEF Commands!build
  <2>4. ASSUME call.signedIn
        PROVE  /\ call.store = Commands!Resolve /\ Commands!Load
               /\ call.server.store = Commands!loadTokenSource
    BY <2>2, <2>4 DEF Commands!newStatusReport, Commands!build, Commands!Load
  <2>5. Commands!loadTokenSource =
          IF Commands!LoadClientSecret(Commands!clientConfig) THEN Commands!Resolve ELSE ""
    BY DEF Commands!loadTokenSource
  <2>6. call.exit = 1 => call.server.at = "ended" /\ call.server.exit = 1
    BY <2>2, <2>3
  <2>7. call.signedIn => call.server.store \in {"", call.store}
    BY <2>4, <2>5
  <2>8. call.signedIn /\ Commands!LoadClientSecret(Commands!clientConfig) =>
          call.server.store = call.store
    BY <2>4, <2>5
  <2>9. QED
    BY <2>6, <2>7, <2>8
<1>3. QED
  BY <1>1, <1>2 DEF Commands!CommandsTellTheServer

CommandsKept == which = "commands" => CommandsInv

LEMMA CommandsAlways == Spec => []CommandsKept
<1>1. Init => CommandsKept
  BY CommandsInit DEF Init, CommandsKept
<1>2. CommandsKept /\ [Next]_vars => CommandsKept'
  <2>1. SUFFICES ASSUME CommandsKept, [Next]_vars, which' = "commands" PROVE CommandsInv'
    BY DEF CommandsKept
  <2>2. which = "commands" /\ (Commands!Next \/ UNCHANGED vars)
    BY <2>1 DEF CommandsKept, Next, vars
  <2>3. QED
    BY <2>1, <2>2, CommandsStep DEF CommandsKept
<1>3. QED
  BY <1>1, <1>2, PTL DEF Spec

(* Whatever the machine has, whatever fails and whatever Google added: what*)
(* doctor reports is what it met, each check that failed with its reasons  *)
(* and each answer with a field nobody reads, and what status says of a    *)
(* machine nobody changed is what the server has (status.go, doctor.go,    *)
(* wire.go build).                                                         *)
THEOREM CommandsAreTrue == Spec => []CommandsTellTheServer
<1>1. CommandsKept => CommandsTellTheServer
  BY CommandsTell DEF CommandsKept, CommandsTellTheServer
<1>2. QED
  BY <1>1, CommandsAlways, PTL
=============================================================================
