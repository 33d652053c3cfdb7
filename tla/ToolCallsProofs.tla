--------------------------- MODULE ToolCallsProofs ---------------------------
(***************************************************************************)
(* Proofs about ToolCalls: for any settings, any grant kept from an        *)
(* earlier login and every path of every tool.  The paths of a method are  *)
(* put together from steps by ++ and ||, and what is proved of them is put *)
(* together the same way: which steps are on none of them, which are on    *)
(* every one, and which come only after or only before which others.       *)
(***************************************************************************)
EXTENDS ToolCalls, Integers, TLAPS

-----------------------------------------------------------------------------
(* What a step is: what it does or, of a request, what its kind of request *)
(* may do.  Nothing is "foreign": no scope that login does not know, and   *)
(* no lasting change by what is not a write.                               *)
Calls   == {"ask", "try", "absent", "forbidden"}
Lasting == {"DeleteMessage", "RemoveMember", "DeleteSection", "DeleteCustomEmoji", "DeleteSpace"}

Strange(r, e) ==
  \/ ~(r.scopes \subseteq Do!Client!All)
  \/ r.adminScope \notin Do!Client!AdminScopes \cup {Do!Client!None}
  \/ e \notin Do!Effects
  \/ ~Do!Client!IsWrite(r) /\ (e # "plain" \/ r.name \in Lasting)

Asks(r, e, x) ==
  \/ x = "request"
  \/ x = "write"       /\ Do!Client!IsWrite(r)
  \/ x = "onASpace"    /\ Do!Client!IsWrite(r) /\ r.name \in OnASpace
  \/ x = "lasting"     /\ (e \in {"manager", "audience"} \/ r.name \in Lasting)
  \/ x = "outsider"    /\ e = "outsider"
  \/ x = "formless"    /\ Do!Client!IsChat(r) /\ r.adminScope = Do!Client!None
  \/ x = "writeScope"  /\ \/ r.scopes \cap Do!Client!WriteScopes # {}
                          \/ r.adminScope \in Do!Client!AdminWriteScopes
  \/ x = "deleteScope" /\ r.adminScope = "AdminDelete"
  \/ x = "lookup"      /\ r.scopes \cap Lookups # {}
  \/ x = "foreign"     /\ Strange(r, e)

Is(s, x) ==
  \/ s.do \notin Calls /\ x = s.do
  \/ s.do \in Calls /\ Asks(s.req, s.effect, x) /\ (x = "lookup" => s.do \in {"ask", "absent"})

-----------------------------------------------------------------------------
(* What the steps of a set of paths have in common: all are there, none is *)
(* x, every path has a y, an x comes after a y, an x comes before any y.   *)
IsPath(p) == \E S : p \in Seq(S)
Paths(P)  == \A p \in P : IsPath(p)

Free(P, x)      == Paths(P) /\ \A p \in P : \A i \in 1..Len(p) : ~Is(p[i], x)
Has(P, y)       == Paths(P) /\ \A p \in P : \E i \in 1..Len(p) : Is(p[i], y)
After(P, x, y)  == Paths(P) /\ \A p \in P : \A i \in 1..Len(p) :
                     Is(p[i], x) => \E j \in 1..(i - 1) : Is(p[j], y)
Before(P, x, y) == Paths(P) /\ \A p \in P : \A i \in 1..Len(p) :
                     Is(p[i], x) => \A j \in 1..(i - 1) : ~Is(p[j], y)

LEMMA Thens == \A a, b : \A x \in Do!++(a, b) : \E p \in a, q \in b : x = p \o q
BY DEF Do!++

LEMMA Joined ==
  ASSUME NEW p, NEW q, IsPath(p), IsPath(q)
  PROVE  /\ IsPath(p \o q)
         /\ Len(p) \in Nat /\ Len(q) \in Nat
         /\ Len(p \o q) = Len(p) + Len(q)
         /\ \A i \in 1..Len(p) : (p \o q)[i] = p[i]
         /\ \A i \in 1..Len(p \o q) : i \notin 1..Len(p) =>
              i - Len(p) \in 1..Len(q) /\ (p \o q)[i] = q[i - Len(p)]
         /\ \A i \in 1..Len(q) : (p \o q)[Len(p) + i] = q[i]
<1>1. PICK S : p \in Seq(S)
  BY DEF IsPath
<1>2. PICK T : q \in Seq(T)
  BY DEF IsPath
<1>3. p \in Seq(S \cup T) /\ q \in Seq(S \cup T)
  BY <1>1, <1>2
<1>4. p \o q \in Seq(S \cup T)
  BY <1>3
<1>5. IsPath(p \o q)
  BY <1>4 DEF IsPath
<1>6. QED
  BY <1>3, <1>4, <1>5

LEMMA PathsOfBoth == \A a, b : Paths(a) /\ Paths(b) => Paths(Do!++(a, b))
<1>1. SUFFICES ASSUME NEW a, NEW b, Paths(a), Paths(b), NEW r \in Do!++(a, b)
               PROVE  IsPath(r)
  BY DEF Paths
<1>2. PICK p \in a, q \in b : r = p \o q
  BY Thens
<1>3. IsPath(p) /\ IsPath(q)
  BY <1>1 DEF Paths
<1>4. QED
  BY <1>2, <1>3, Joined

LEMMA FreeOfBoth == \A a, b, x : Free(a, x) /\ Free(b, x) => Free(Do!++(a, b), x)
<1>1. SUFFICES ASSUME NEW a, NEW b, NEW x, Free(a, x), Free(b, x),
                      NEW p \in a, NEW q \in b, NEW i \in 1..Len(p \o q)
               PROVE  ~Is((p \o q)[i], x)
  BY PathsOfBoth, Thens DEF Free
<1>2. IsPath(p) /\ IsPath(q)
  BY <1>1 DEF Free, Paths
<1>3. CASE i \in 1..Len(p)
  BY <1>1, <1>2, <1>3, Joined DEF Free
<1>4. CASE i \notin 1..Len(p)
  BY <1>1, <1>2, <1>4, Joined DEF Free
<1>5. QED
  BY <1>3, <1>4

LEMMA OneHasIt ==
  \A a, b, y : Paths(a) /\ Paths(b) /\ (Has(a, y) \/ Has(b, y)) => Has(Do!++(a, b), y)
<1>1. SUFFICES ASSUME NEW a, NEW b, NEW y, Paths(a), Paths(b), Has(a, y) \/ Has(b, y),
                      NEW p \in a, NEW q \in b
               PROVE  \E i \in 1..Len(p \o q) : Is((p \o q)[i], y)
  BY PathsOfBoth, Thens DEF Has
<1>2. IsPath(p) /\ IsPath(q)
  BY <1>1 DEF Paths
<1>3. CASE Has(a, y)
  <2>1. PICK i \in 1..Len(p) : Is(p[i], y)
    BY <1>3 DEF Has
  <2>2. i \in 1..Len(p \o q) /\ (p \o q)[i] = p[i]
    BY <1>2, Joined
  <2>3. QED
    BY <2>1, <2>2
<1>4. CASE Has(b, y)
  <2>1. PICK i \in 1..Len(q) : Is(q[i], y)
    BY <1>4 DEF Has
  <2>2. Len(p) + i \in 1..Len(p \o q) /\ (p \o q)[Len(p) + i] = q[i]
    BY <1>2, Joined
  <2>3. QED
    BY <2>1, <2>2
<1>5. QED
  BY <1>1, <1>3, <1>4

LEMMA AfterInBoth ==
  \A a, b, x, y : Paths(b) /\ After(a, x, y) /\ (Has(a, y) \/ After(b, x, y))
    => After(Do!++(a, b), x, y)
<1>1. SUFFICES ASSUME NEW a, NEW b, NEW x, NEW y, Paths(b), After(a, x, y),
                      Has(a, y) \/ After(b, x, y)
               PROVE  After(Do!++(a, b), x, y)
  OBVIOUS
<1>0. Paths(Do!++(a, b))
  BY <1>1, PathsOfBoth DEF After
<1>8. SUFFICES ASSUME NEW r \in Do!++(a, b), NEW i \in 1..Len(r), Is(r[i], x)
               PROVE  \E j \in 1..(i - 1) : Is(r[j], y)
  BY <1>0 DEF After
<1>9. PICK p \in a, q \in b : r = p \o q
  BY Thens
<1>7. i \in 1..Len(p \o q) /\ Is((p \o q)[i], x)
  BY <1>8, <1>9
<1>2. IsPath(p) /\ IsPath(q)
  BY <1>1 DEF After, Paths
<1>3. CASE i \in 1..Len(p)
  <2>1. PICK j \in 1..(i - 1) : Is(p[j], y)
    BY <1>1, <1>7, <1>2, <1>3, Joined DEF After
  <2>2. (p \o q)[j] = p[j]
    BY <1>2, <1>3, Joined
  <2>3. QED
    BY <1>9, <2>1, <2>2
<1>4. CASE i \notin 1..Len(p) /\ Has(a, y)
  <2>1. PICK j \in 1..Len(p) : Is(p[j], y)
    BY <1>4 DEF Has
  <2>2. (p \o q)[j] = p[j] /\ j \in 1..(i - 1)
    BY <1>2, <1>4, Joined
  <2>3. QED
    BY <1>9, <2>1, <2>2
<1>5. CASE i \notin 1..Len(p) /\ After(b, x, y)
  <2>1. i - Len(p) \in 1..Len(q) /\ Is(q[i - Len(p)], x)
    BY <1>1, <1>7, <1>2, <1>5, Joined
  <2>2. PICK j \in 1..(i - Len(p) - 1) : Is(q[j], y)
    BY <1>5, <2>1 DEF After
  <2>3. (p \o q)[Len(p) + j] = q[j] /\ Len(p) + j \in 1..(i - 1)
    BY <1>2, <1>5, <2>1, Joined
  <2>4. QED
    BY <1>9, <2>2, <2>3
<1>6. QED
  BY <1>1, <1>7, <1>3, <1>4, <1>5

LEMMA BeforeInBoth ==
  \A a, b, x, y : Before(a, x, y) /\ Before(b, x, y) /\ (Free(a, y) \/ Free(b, x))
    => Before(Do!++(a, b), x, y)
<1>1. SUFFICES ASSUME NEW a, NEW b, NEW x, NEW y, Before(a, x, y), Before(b, x, y),
                      Free(a, y) \/ Free(b, x)
               PROVE  Before(Do!++(a, b), x, y)
  OBVIOUS
<1>0. Paths(Do!++(a, b))
  BY <1>1, PathsOfBoth DEF Before
<1>7. SUFFICES ASSUME NEW p \in a, NEW q \in b,
                      NEW i \in 1..Len(p \o q), Is((p \o q)[i], x), NEW j \in 1..(i - 1)
               PROVE  ~Is((p \o q)[j], y)
  BY <1>0, Thens DEF Before
<1>2. IsPath(p) /\ IsPath(q)
  BY <1>1 DEF Before, Paths
<1>3. CASE i \in 1..Len(p)
  <2>1. Is(p[i], x) /\ (p \o q)[j] = p[j]
    BY <1>1, <1>7, <1>2, <1>3, Joined
  <2>2. QED
    BY <1>1, <1>7, <1>3, <2>1 DEF Before
<1>4. CASE i \notin 1..Len(p)
  <2>1. i - Len(p) \in 1..Len(q) /\ Is(q[i - Len(p)], x)
    BY <1>1, <1>7, <1>2, <1>4, Joined
  <2>2. Free(a, y)
    BY <1>1, <1>7, <2>1 DEF Free
  <2>3. CASE j \in 1..Len(p)
    BY <1>2, <2>2, <2>3, Joined DEF Free
  <2>4. CASE j \notin 1..Len(p)
    <3>1. j - Len(p) \in 1..(i - Len(p) - 1) /\ (p \o q)[j] = q[j - Len(p)]
      BY <1>2, <2>1, <2>4, Joined
    <3>2. QED
      BY <1>1, <1>7, <2>1, <3>1 DEF Before
  <2>5. QED
    BY <2>3, <2>4
<1>5. QED
  BY <1>3, <1>4

(* A choice of paths, and paths that may be left out.                      *)
LEMMA EitherPath ==
  \A a, b : /\ Paths(a) /\ Paths(b) => Paths(Do!||(a, b))
            /\ \A x : Free(a, x) /\ Free(b, x) => Free(Do!||(a, b), x)
            /\ \A y : Has(a, y) /\ Has(b, y) => Has(Do!||(a, b), y)
            /\ \A x, y : After(a, x, y) /\ After(b, x, y) => After(Do!||(a, b), x, y)
            /\ \A x, y : Before(a, x, y) /\ Before(b, x, y) => Before(Do!||(a, b), x, y)
BY DEF Paths, Free, Has, After, Before, Do!||

LEMMA NothingIsThere ==
  Paths(Do!Nothing) /\ \A x : Free(Do!Nothing, x)
<1>1. IsPath(<<>>)
  BY <<>> \in Seq({}) DEF IsPath
<1>2. QED
  BY <1>1 DEF Paths, Free, Do!Nothing

LEMMA MaybePath ==
  \A a : /\ Paths(a) => Paths(Do!Opt(a))
         /\ \A x : Free(a, x) => Free(Do!Opt(a), x)
         /\ \A x, y : After(a, x, y) => After(Do!Opt(a), x, y)
         /\ \A x, y : Before(a, x, y) => Before(Do!Opt(a), x, y)
<1>1. \A x, y : After(Do!Nothing, x, y) /\ Before(Do!Nothing, x, y)
  BY NothingIsThere DEF Free, After, Before
<1>2. QED
  BY <1>1, NothingIsThere, EitherPath DEF Do!Opt

LEMMA FreeOrders ==
  \A P, x : /\ Free(P, x) => Paths(P) /\ \A y : After(P, x, y) /\ Before(P, x, y)
            /\ \A y : Free(P, y) => Before(P, x, y)
BY DEF Free, After, Before

(* One step.                                                               *)
Only(s) == {<<s>>}

LEMMA OneStep ==
  \A s : /\ Paths(Only(s))
         /\ \A x : ~Is(s, x) => Free(Only(s), x)
         /\ \A y : Is(s, y) => Has(Only(s), y)
<1>1. SUFFICES ASSUME NEW s
               PROVE  /\ Paths(Only(s))
                      /\ \A x : ~Is(s, x) => Free(Only(s), x)
                      /\ \A y : Is(s, y) => Has(Only(s), y)
  OBVIOUS
<1>2. <<s>> \in Seq({s}) /\ Len(<<s>>) = 1 /\ <<s>>[1] = s
  OBVIOUS
<1>3. Paths(Only(s))
  BY <1>2 DEF Paths, IsPath, Only
<1>4. QED
  BY <1>2, <1>3 DEF Free, Has, Only

LEMMA StepOf ==
  \A do, r, e : LET s == Do!Step(do, r, e) IN s.do = do /\ s.req = r /\ s.effect = e
BY DEF Do!Step

LEMMA Ones ==
  /\ \A d : Do!Own(d) = Only(Do!Step(d, Do!NoRequest, "plain"))
  /\ \A e : Do!Vet(e) = Only(Do!Step("vet", Do!NoRequest, e))
  /\ \A r, e : Do!AskFor(r, e) = Only(Do!Step("ask", r, e))
  /\ \A r : /\ Do!Ask(r) = Only(Do!Step("ask", r, "plain"))
            /\ Do!Try(r) = Only(Do!Step("try", r, "plain"))
            /\ Do!Absent(r) = Only(Do!Step("absent", r, "plain"))
            /\ Do!Forbidden(r) = Only(Do!Step("forbidden", r, "plain"))
BY Zenon DEF Do!Own, Do!Vet, Do!AskFor, Do!Ask, Do!Try, Do!Absent, Do!Forbidden, Only

LEMMA OwnStep ==
  \A d : d \notin Calls => /\ Paths(Do!Own(d)) /\ Has(Do!Own(d), d)
                           /\ \A x : x # d => Free(Do!Own(d), x)
BY OneStep, StepOf, Ones DEF Is

LEMMA VetStep ==
  \A e : /\ Paths(Do!Vet(e)) /\ Has(Do!Vet(e), "vet")
         /\ \A x : x # "vet" => Free(Do!Vet(e), x)
BY OneStep, StepOf, Ones DEF Is, Calls

LEMMA AskStep ==
  \A r, e : /\ Paths(Do!AskFor(r, e))
            /\ \A x : ~Asks(r, e, x) => Free(Do!AskFor(r, e), x)
BY OneStep, StepOf, Ones DEF Is, Calls

LEMMA OtherStep ==
  \A r : /\ Paths(Do!Ask(r)) /\ Paths(Do!Try(r)) /\ Paths(Do!Absent(r)) /\ Paths(Do!Forbidden(r))
         /\ Free(Do!Try(r), "lookup") /\ Free(Do!Forbidden(r), "lookup")
         /\ \A x : ~Asks(r, "plain", x) => /\ Free(Do!Ask(r), x) /\ Free(Do!Try(r), x)
                                           /\ Free(Do!Absent(r), x) /\ Free(Do!Forbidden(r), x)
BY OneStep, StepOf, Ones DEF Is, Calls

-----------------------------------------------------------------------------
(* What the client's requests are, at the most.                            *)
Bounds(r, e, S) == \A x : Asks(r, e, x) => x \in S

USE DEF Bounds, Asks, Strange, Lasting, OnASpace, Lookups, Do!Effects, Do!Client!Get,
        Do!Client!Post, Do!Client!Patch, Do!Client!Delete, Do!Client!Mark,
        Do!Client!OrAdmin, Do!Client!Request, Do!Client!IsWrite, Do!Client!IsChat,
        Do!Client!None, Do!Client!All, Do!Client!Identity, Do!Client!WriteScopes,
        Do!Client!AdminScopes, Do!Client!AdminWriteScopes, Do!Client!EventScopes

LEMMA LooksAtChat ==
  /\ Bounds(Do!Client!ListMessages, "plain", {"request", "formless"})
  /\ Bounds(Do!Client!GetMessage, "plain", {"request", "formless"})
  /\ Bounds(Do!Client!DownloadMedia, "plain", {"request", "formless"})
  /\ Bounds(Do!Client!ListSpaces, "plain", {"request", "formless"})
  /\ Bounds(Do!Client!FindDirectMessage, "plain", {"request", "formless"})
  /\ Bounds(Do!Client!FindGroupChats, "plain", {"request", "formless"})
  /\ Bounds(Do!Client!ListSections, "plain", {"request", "formless"})
  /\ Bounds(Do!Client!ListSectionItems, "plain", {"request", "formless"})
  /\ Bounds(Do!Client!ListReactions, "plain", {"request", "formless"})
  /\ Bounds(Do!Client!ListPins, "plain", {"request", "formless"})
  /\ Bounds(Do!Client!GetSpaceReadState, "plain", {"request", "formless"})
  /\ Bounds(Do!Client!GetThreadReadState, "plain", {"request", "formless"})
  /\ Bounds(Do!Client!GetAvailability, "plain", {"request", "formless"})
  /\ Bounds(Do!Client!ListCustomEmojis, "plain", {"request", "formless"})
  /\ Bounds(Do!Client!GetCustomEmoji, "plain", {"request", "formless"})
  /\ Bounds(Do!Client!GetSpaceEvent, "plain", {"request", "formless"})
BY DEF Do!Client!ListMessages, Do!Client!GetMessage, Do!Client!DownloadMedia,
       Do!Client!ListSpaces, Do!Client!FindDirectMessage, Do!Client!FindGroupChats,
       Do!Client!ListSections, Do!Client!ListSectionItems, Do!Client!ListReactions,
       Do!Client!ListPins, Do!Client!GetSpaceReadState, Do!Client!GetThreadReadState,
       Do!Client!GetAvailability, Do!Client!ListCustomEmojis, Do!Client!GetCustomEmoji,
       Do!Client!GetSpaceEvent

LEMMA LooksAnywhere ==
  /\ Bounds(Do!Client!ListMembers, "plain", {"request"})
  /\ Bounds(Do!Client!GetMembership, "plain", {"request"})
  /\ Bounds(Do!Client!GetSpace, "plain", {"request"})
  /\ Bounds(Do!Client!SearchSpaces, "plain", {"request"})
  /\ Bounds(Do!Client!Userinfo, "plain", {"request"})
  /\ Bounds(Do!Client!SearchContacts, "plain", {"request"})
BY DEF Do!Client!ListMembers, Do!Client!GetMembership, Do!Client!GetSpace,
       Do!Client!SearchSpaces, Do!Client!Userinfo, Do!Client!SearchContacts

LEMMA LooksUp ==
  /\ Bounds(Do!Client!GetPeople, "plain", {"request", "lookup"})
  /\ Bounds(Do!Client!SearchDirectoryPeople, "plain", {"request", "lookup"})
  /\ Bounds(Do!Client!LookupGroup, "plain", {"request", "lookup"})
  /\ Bounds(Do!Client!GetGroup, "plain", {"request", "lookup"})
  /\ Bounds(Do!Client!ListGroupMembers, "plain", {"request", "lookup"})
BY DEF Do!Client!GetPeople, Do!Client!SearchDirectoryPeople, Do!Client!LookupGroup,
       Do!Client!GetGroup, Do!Client!ListGroupMembers

LEMMA WritesInChat ==
  /\ Bounds(Do!Client!UpdateMessage, "plain",
            {"request", "formless", "write", "writeScope"})
  /\ Bounds(Do!Client!SetupSpace, "plain", {"request", "formless", "write", "writeScope"})
  /\ Bounds(Do!Client!CreateSection, "plain",
            {"request", "formless", "write", "writeScope"})
  /\ Bounds(Do!Client!RenameSection, "plain",
            {"request", "formless", "write", "writeScope"})
  /\ Bounds(Do!Client!PositionSection, "plain",
            {"request", "formless", "write", "writeScope"})
  /\ Bounds(Do!Client!AddReaction, "plain", {"request", "formless", "write", "writeScope"})
  /\ Bounds(Do!Client!DeleteReaction, "plain",
            {"request", "formless", "write", "writeScope"})
  /\ Bounds(Do!Client!PinMessage, "plain", {"request", "formless", "write", "writeScope"})
  /\ Bounds(Do!Client!UnpinMessage, "plain", {"request", "formless", "write", "writeScope"})
  /\ Bounds(Do!Client!MarkActive, "plain", {"request", "formless", "write", "writeScope"})
  /\ Bounds(Do!Client!MarkAway, "plain", {"request", "formless", "write", "writeScope"})
  /\ Bounds(Do!Client!MarkDoNotDisturb, "plain",
            {"request", "formless", "write", "writeScope"})
  /\ Bounds(Do!Client!SetCustomStatus, "plain",
            {"request", "formless", "write", "writeScope"})
  /\ Bounds(Do!Client!CreateCustomEmoji, "plain",
            {"request", "formless", "write", "writeScope"})
BY DEF Do!Client!UpdateMessage, Do!Client!SetupSpace, Do!Client!CreateSection,
       Do!Client!RenameSection, Do!Client!PositionSection, Do!Client!AddReaction,
       Do!Client!DeleteReaction, Do!Client!PinMessage, Do!Client!UnpinMessage,
       Do!Client!MarkActive, Do!Client!MarkAway, Do!Client!MarkDoNotDisturb,
       Do!Client!SetCustomStatus, Do!Client!CreateCustomEmoji

LEMMA WritesInASpace ==
  /\ Bounds(Do!Client!SendMessage, "plain",
            {"request", "formless", "write", "writeScope", "onASpace"})
  /\ Bounds(Do!Client!UploadAttachment, "plain",
            {"request", "formless", "write", "writeScope", "onASpace"})
  /\ Bounds(Do!Client!UpdateSpaceReadState, "plain",
            {"request", "formless", "write", "writeScope", "onASpace"})
  /\ Bounds(Do!Client!UpdateSpaceNotificationSetting, "plain",
            {"request", "formless", "write", "writeScope", "onASpace"})
  /\ Bounds(Do!Client!MoveSectionItem, "plain",
            {"request", "formless", "write", "writeScope", "onASpace"})
BY DEF Do!Client!SendMessage, Do!Client!UploadAttachment, Do!Client!UpdateSpaceReadState,
       Do!Client!UpdateSpaceNotificationSetting, Do!Client!MoveSectionItem

LEMMA Deletes ==
  /\ Bounds(Do!Client!DeleteMessage, "plain",
            {"request", "formless", "write", "writeScope", "lasting"})
  /\ Bounds(Do!Client!DeleteSection, "plain",
            {"request", "formless", "write", "writeScope", "lasting"})
  /\ Bounds(Do!Client!DeleteCustomEmoji, "plain",
            {"request", "formless", "write", "writeScope", "lasting"})
BY DEF Do!Client!DeleteMessage, Do!Client!DeleteSection, Do!Client!DeleteCustomEmoji

LEMMA OtherRequests ==
  /\ \A unread, bySpace \in BOOLEAN :
       Bounds(Do!Client!SearchMessages(unread, bySpace), "plain", {"request", "formless"})
  /\ \A scopes \in SUBSET Do!Client!EventScopes :
       Bounds(Do!Client!ListSpaceEvents(scopes), "plain", {"request", "formless"})
  /\ Bounds(Do!Client!GetSpaceNotificationSetting, "plain",
            {"request", "formless", "writeScope"})
  /\ Bounds(Do!Client!UpdateMemberRole, "plain", {"request", "write", "writeScope"})
  /\ Bounds(Do!Client!UpdateMemberRole, "manager",
            {"request", "write", "writeScope", "lasting"})
  /\ Bounds(Do!Client!AddMember, "outsider",
            {"request", "write", "writeScope", "onASpace", "outsider"})
  /\ Bounds(Do!Client!RemoveMember, "plain", {"request", "write", "writeScope", "lasting"})
  /\ Bounds(Do!Client!UpdateSpace, "plain", {"request", "write", "writeScope", "onASpace"})
  /\ Bounds(Do!Client!UpdateSpace, "audience",
            {"request", "write", "writeScope", "onASpace", "lasting"})
  /\ Bounds(Do!Client!DeleteSpace, "plain",
            {"request", "write", "writeScope", "onASpace", "lasting", "deleteScope"})
<1>1. \A unread, bySpace \in BOOLEAN :
        Bounds(Do!Client!SearchMessages(unread, bySpace), "plain", {"request", "formless"})
  BY DEF Do!Client!SearchMessages
<1>2. \A scopes \in SUBSET Do!Client!EventScopes :
        Bounds(Do!Client!ListSpaceEvents(scopes), "plain", {"request", "formless"})
  BY DEF Do!Client!ListSpaceEvents
<1>3. Bounds(Do!Client!GetSpaceNotificationSetting, "plain",
             {"request", "formless", "writeScope"})
  BY DEF Do!Client!GetSpaceNotificationSetting
<1>4. Bounds(Do!Client!UpdateMemberRole, "plain", {"request", "write", "writeScope"})
  BY DEF Do!Client!UpdateMemberRole
<1>5. Bounds(Do!Client!UpdateMemberRole, "manager",
             {"request", "write", "writeScope", "lasting"})
  BY DEF Do!Client!UpdateMemberRole
<1>6. Bounds(Do!Client!AddMember, "outsider",
            {"request", "write", "writeScope", "onASpace", "outsider"})
  BY DEF Do!Client!AddMember
<1>7. Bounds(Do!Client!RemoveMember, "plain", {"request", "write", "writeScope", "lasting"})
  BY DEF Do!Client!RemoveMember
<1>8. Bounds(Do!Client!UpdateSpace, "plain", {"request", "write", "writeScope", "onASpace"})
  BY DEF Do!Client!UpdateSpace
<1>9. Bounds(Do!Client!UpdateSpace, "audience",
            {"request", "write", "writeScope", "onASpace", "lasting"})
  BY DEF Do!Client!UpdateSpace
<1>10. Bounds(Do!Client!DeleteSpace, "plain",
            {"request", "write", "writeScope", "onASpace", "lasting", "deleteScope"})
  BY DEF Do!Client!DeleteSpace
<1>. QED
  BY <1>1, <1>2, <1>3, <1>4, <1>5, <1>6, <1>7, <1>8, <1>9, <1>10

HIDE DEF Bounds, Asks, Strange, Lasting, OnASpace, Lookups, Do!Effects, Do!Client!Get,
         Do!Client!Post, Do!Client!Patch, Do!Client!Delete, Do!Client!Mark,
         Do!Client!OrAdmin, Do!Client!Request, Do!Client!IsWrite, Do!Client!IsChat,
         Do!Client!None, Do!Client!All, Do!Client!Identity, Do!Client!WriteScopes,
         Do!Client!AdminScopes, Do!Client!AdminWriteScopes, Do!Client!EventScopes

-----------------------------------------------------------------------------
(* What a step or a choice of paths adds, in the form the methods need it. *)
LEMMA PathRules ==
  /\ \A a, b : Paths(a) /\ Paths(b) => Paths(Do!++(a, b))
  /\ \A a, b : Paths(a) /\ Paths(b) => Paths(Do!||(a, b))
  /\ \A a, b, x : Free(a, x) /\ Free(b, x) => Free(Do!++(a, b), x)
  /\ \A a, b, x : Free(a, x) /\ Free(b, x) => Free(Do!||(a, b), x)
  /\ \A a, b, y : Has(a, y) /\ Paths(b) => Has(Do!++(a, b), y)
  /\ \A a, b, y : Paths(a) /\ Has(b, y) => Has(Do!++(a, b), y)
  /\ \A a, b, y : Has(a, y) /\ Has(b, y) => Has(Do!||(a, b), y)
  /\ \A a, b, x, y : After(a, x, y) /\ Has(a, y) /\ Paths(b) => After(Do!++(a, b), x, y)
  /\ \A a, b, x, y : After(a, x, y) /\ After(b, x, y) => After(Do!++(a, b), x, y)
  /\ \A a, b, x, y : After(a, x, y) /\ After(b, x, y) => After(Do!||(a, b), x, y)
  /\ \A a, b, x, y : Free(a, y) /\ Before(a, x, y) /\ Before(b, x, y) => Before(Do!++(a, b), x, y)
  /\ \A a, b, x, y : Before(a, x, y) /\ Free(b, x) => Before(Do!++(a, b), x, y)
  /\ \A a, b, x, y : Before(a, x, y) /\ Before(b, x, y) => Before(Do!||(a, b), x, y)
  /\ \A P, x, y : Free(P, x) => After(P, x, y)
  /\ \A P, x, y : Free(P, x) => Before(P, x, y)
  /\ \A P, x, y : Free(P, y) => Before(P, x, y)
<1>1. \A a, b : Paths(a) /\ Paths(b) => Paths(Do!++(a, b))
  BY PathsOfBoth
<1>2. \A a, b : Paths(a) /\ Paths(b) => Paths(Do!||(a, b))
  BY EitherPath
<1>3. \A a, b, x : Free(a, x) /\ Free(b, x) => Free(Do!++(a, b), x)
  BY FreeOfBoth
<1>4. \A a, b, x : Free(a, x) /\ Free(b, x) => Free(Do!||(a, b), x)
  BY EitherPath
<1>5. \A a, b, y : Has(a, y) /\ Paths(b) => Has(Do!++(a, b), y)
  BY OneHasIt DEF Has
<1>6. \A a, b, y : Paths(a) /\ Has(b, y) => Has(Do!++(a, b), y)
  BY OneHasIt DEF Has
<1>7. \A a, b, y : Has(a, y) /\ Has(b, y) => Has(Do!||(a, b), y)
  BY EitherPath
<1>8. \A a, b, x, y : After(a, x, y) /\ Has(a, y) /\ Paths(b) => After(Do!++(a, b), x, y)
  BY AfterInBoth
<1>9. \A a, b, x, y : After(a, x, y) /\ After(b, x, y) => After(Do!++(a, b), x, y)
  <2>1. \A b, x, y : After(b, x, y) => Paths(b)
    BY DEF After
  <2>2. QED
    BY <2>1, AfterInBoth
<1>10. \A a, b, x, y : After(a, x, y) /\ After(b, x, y) => After(Do!||(a, b), x, y)
  BY EitherPath
<1>11. \A a, b, x, y : Free(a, y) /\ Before(a, x, y) /\ Before(b, x, y) => Before(Do!++(a, b), x, y)
  BY BeforeInBoth DEF Before, Free
<1>12. \A a, b, x, y : Before(a, x, y) /\ Free(b, x) => Before(Do!++(a, b), x, y)
  BY BeforeInBoth DEF Before, Free
<1>13. \A a, b, x, y : Before(a, x, y) /\ Before(b, x, y) => Before(Do!||(a, b), x, y)
  BY EitherPath
<1>14. \A P, x, y : Free(P, x) => After(P, x, y)
  BY FreeOrders
<1>15. \A P, x, y : Free(P, x) => Before(P, x, y)
  BY FreeOrders
<1>16. \A P, x, y : Free(P, y) => Before(P, x, y)
  BY FreeOrders
<1>. QED
  BY <1>1, <1>2, <1>3, <1>4, <1>5, <1>6, <1>7, <1>8, <1>9, <1>10, <1>11, <1>12, <1>13,
     <1>14, <1>15, <1>16

LEMMA StepRules ==
  /\ Paths(Do!Nothing)
  /\ \A x : Free(Do!Nothing, x)
  /\ \A d : d \notin Calls => Paths(Do!Own(d))
  /\ \A d : d \notin Calls => Has(Do!Own(d), d)
  /\ \A d, x : d \notin Calls /\ x # d => Free(Do!Own(d), x)
  /\ \A e : Paths(Do!Vet(e))
  /\ \A e : Has(Do!Vet(e), "vet")
  /\ \A e, x : x # "vet" => Free(Do!Vet(e), x)
  /\ \A r, e : Paths(Do!AskFor(r, e))
  /\ \A r, e, x : ~Asks(r, e, x) => Free(Do!AskFor(r, e), x)
  /\ \A r : Paths(Do!Ask(r))
  /\ \A r : Paths(Do!Try(r))
  /\ \A r : Paths(Do!Absent(r))
  /\ \A r : Paths(Do!Forbidden(r))
  /\ \A r : Free(Do!Try(r), "lookup")
  /\ \A r : Free(Do!Forbidden(r), "lookup")
  /\ \A r, x : ~Asks(r, "plain", x) => Free(Do!Ask(r), x)
  /\ \A r, x : ~Asks(r, "plain", x) => Free(Do!Try(r), x)
  /\ \A r, x : ~Asks(r, "plain", x) => Free(Do!Absent(r), x)
  /\ \A r, x : ~Asks(r, "plain", x) => Free(Do!Forbidden(r), x)
  /\ Calls = {"ask", "try", "absent", "forbidden"}
BY NothingIsThere, OwnStep, VetStep, AskStep, OtherStep DEF Calls

-----------------------------------------------------------------------------
(* What a method that only looks keeps to, what one that writes, and one   *)
(* whose writes can be taken back.                                         *)
Reads(P) ==
  /\ Free(P, "foreign") /\ Free(P, "write") /\ Free(P, "writeScope") /\ Free(P, "deleteScope")
  /\ Before(P, "name", "request")

Changes(P) ==
  /\ Free(P, "foreign")
  /\ Before(P, "name", "write") /\ Before(P, "argument", "write")
  /\ After(P, "onASpace", "witness")

Mild(P) ==
  Free(P, "lasting") /\ Free(P, "deleteScope") /\ After(P, "outsider", "vet")

USE DEF Do!Argument, Do!Check, Do!NamedOnly, Do!Witness, Do!clampLimit, Do!parseArgTime,
        Do!renderBody, Do!requireAudience, Do!requireAudienceOrPrivate,
        Do!requireCustomEmoji, Do!requireDisplayName, Do!requireEmail, Do!requireEmails,
        Do!requireEnum, Do!requireGroup, Do!requireMembership, Do!requireMessage,
        Do!requireReaction, Do!requireSection, Do!requireSectionItem, Do!requireShape,
        Do!requireSpace, Do!requireSpaceEvent, Do!requireSpaceText, Do!requireText,
        Do!requireThread, Do!requireWindow, Do!requireWitness, Do!timeBound, Do!Opt,
        Do!Pages, Bounds

(* The check of the space a write names (spacecheck.go).                   *)
LEMMA CheckMembersIs ==
  /\ Paths(Do!checkMembers)
  /\ Free(Do!checkMembers, "foreign")
  /\ Free(Do!checkMembers, "name")
  /\ Free(Do!checkMembers, "argument")
  /\ Free(Do!checkMembers, "write")
  /\ Free(Do!checkMembers, "lasting")
  /\ Free(Do!checkMembers, "outsider")
  /\ Free(Do!checkMembers, "onASpace")
  /\ Free(Do!checkMembers, "formless")
  /\ Free(Do!checkMembers, "deleteScope")
  /\ Free(Do!checkMembers, "preview")
  /\ Has(Do!checkMembers, "witness")
BY PathRules, StepRules, LooksAnywhere, LooksUp
DEF Do!checkMembers, Do!callerID, Do!caller, Do!memberPage, Do!resolvePeople,
    Do!resolveGroups

LEMMA CheckedSpaceIs ==
  /\ Paths(Do!checkedSpace)
  /\ Free(Do!checkedSpace, "foreign")
  /\ Free(Do!checkedSpace, "name")
  /\ Free(Do!checkedSpace, "write")
  /\ Free(Do!checkedSpace, "lasting")
  /\ Free(Do!checkedSpace, "outsider")
  /\ Free(Do!checkedSpace, "onASpace")
  /\ After(Do!checkedSpace, "formless", "named")
  /\ Free(Do!checkedSpace, "deleteScope")
  /\ Has(Do!checkedSpace, "witness")
BY PathRules, StepRules, LooksAnywhere, LooksAtChat, CheckMembersIs
DEF Do!checkedSpace, Do!checkWitness, Do!checkName, Do!checkDirectMessage

(* The methods that look.                                                  *)
LEMMA ListMembersReads ==
  /\ Reads(Do!ListMembers)
  /\ Free(Do!ListMembers, "lookup")
  /\ After(Do!ListMembers, "formless", "named")
BY PathRules, StepRules, LooksAnywhere, LooksUp
DEF Reads, Do!ListMembers, Do!resolvePeople, Do!resolveGroups, Do!expandGroups,
    Do!expandGroup

LEMMA GetMemberReads ==
  /\ Reads(Do!GetMember)
  /\ Free(Do!GetMember, "lookup")
  /\ After(Do!GetMember, "formless", "named")
BY PathRules, StepRules, LooksAnywhere, LooksUp
DEF Reads, Do!GetMember, Do!resolveGroups, Do!resolvePeople

LEMMA SearchSpacesReads ==
  /\ Reads(Do!SearchSpaces)
  /\ Free(Do!SearchSpaces, "lookup")
  /\ After(Do!SearchSpaces, "formless", "named")
BY PathRules, StepRules, LooksAnywhere
DEF Reads, Do!SearchSpaces, Do!searchSpacesQuery

LEMMA GetSpaceReads ==
  /\ Reads(Do!GetSpace)
  /\ Free(Do!GetSpace, "lookup")
  /\ After(Do!GetSpace, "formless", "named")
BY PathRules, StepRules, LooksAnywhere
DEF Reads, Do!GetSpace

LEMMA GetMessagesReads ==
  /\ Reads(Do!GetMessages)
  /\ Free(Do!GetMessages, "lookup")
BY PathRules, StepRules, LooksAtChat, LooksUp
DEF Reads, Do!GetMessages, Do!enrich, Do!resolvePeople

LEMMA GetThreadReads ==
  /\ Reads(Do!GetThread)
  /\ Free(Do!GetThread, "lookup")
BY PathRules, StepRules, LooksAtChat, LooksUp
DEF Reads, Do!GetThread, Do!enrich, Do!resolvePeople

LEMMA GetMessageReads ==
  /\ Reads(Do!GetMessage)
  /\ Free(Do!GetMessage, "lookup")
BY PathRules, StepRules, LooksAtChat, LooksUp
DEF Reads, Do!GetMessage, Do!enrich, Do!resolvePeople

LEMMA WhoamiReads ==
  /\ Reads(Do!Whoami)
  /\ Free(Do!Whoami, "lookup")
BY PathRules, StepRules, LooksAnywhere
DEF Reads, Do!Whoami

LEMMA ListSpacesReads ==
  /\ Reads(Do!ListSpaces)
  /\ Free(Do!ListSpaces, "lookup")
BY PathRules, StepRules, LooksAtChat
DEF Reads, Do!ListSpaces

LEMMA FindGroupChatsReads ==
  /\ Reads(Do!FindGroupChats)
  /\ Free(Do!FindGroupChats, "lookup")
BY PathRules, StepRules, LooksAtChat
DEF Reads, Do!FindGroupChats

LEMMA ListSectionsReads ==
  /\ Reads(Do!ListSections)
  /\ Free(Do!ListSections, "lookup")
BY PathRules, StepRules, LooksAtChat
DEF Reads, Do!ListSections

LEMMA ListSectionItemsReads ==
  /\ Reads(Do!ListSectionItems)
  /\ Free(Do!ListSectionItems, "lookup")
BY PathRules, StepRules, LooksAtChat
DEF Reads, Do!ListSectionItems

LEMMA ListReactionsReads ==
  /\ Reads(Do!ListReactions)
  /\ Free(Do!ListReactions, "lookup")
BY PathRules, StepRules, LooksAtChat, LooksUp
DEF Reads, Do!ListReactions, Do!resolvePeople

LEMMA ListPinsReads ==
  /\ Reads(Do!ListPins)
  /\ Free(Do!ListPins, "lookup")
BY PathRules, StepRules, LooksAtChat
DEF Reads, Do!ListPins

LEMMA GetSpaceReadStateReads ==
  /\ Reads(Do!GetSpaceReadState)
  /\ Free(Do!GetSpaceReadState, "lookup")
BY PathRules, StepRules, LooksAtChat
DEF Reads, Do!GetSpaceReadState

LEMMA GetThreadReadStateReads ==
  /\ Reads(Do!GetThreadReadState)
  /\ Free(Do!GetThreadReadState, "lookup")
BY PathRules, StepRules, LooksAtChat
DEF Reads, Do!GetThreadReadState

LEMMA GetAvailabilityReads ==
  /\ Reads(Do!GetAvailability)
  /\ Free(Do!GetAvailability, "lookup")
BY PathRules, StepRules, LooksAtChat
DEF Reads, Do!GetAvailability

LEMMA ListCustomEmojisReads ==
  /\ Reads(Do!ListCustomEmojis)
  /\ Free(Do!ListCustomEmojis, "lookup")
BY PathRules, StepRules, LooksAtChat
DEF Reads, Do!ListCustomEmojis

LEMMA GetCustomEmojiReads ==
  /\ Reads(Do!GetCustomEmoji)
  /\ Free(Do!GetCustomEmoji, "lookup")
BY PathRules, StepRules, LooksAtChat
DEF Reads, Do!GetCustomEmoji

LEMMA GetSpaceEventReads ==
  /\ Reads(Do!GetSpaceEvent)
  /\ Free(Do!GetSpaceEvent, "lookup")
BY PathRules, StepRules, LooksAtChat
DEF Reads, Do!GetSpaceEvent

LEMMA FindGroupReads ==
  Reads(Do!FindGroup)
BY PathRules, StepRules, LooksUp
DEF Reads, Do!FindGroup, Do!resolveGroups

LEMMA DownloadAttachmentReads ==
  Reads(Do!DownloadAttachment)
BY PathRules, StepRules, LooksAtChat
DEF Reads, Do!DownloadAttachment, Do!files, Do!pickAttachment, Do!Create, Do!writeStream

LEMMA GetSpaceNotificationSettingReads ==
  /\ Free(Do!GetSpaceNotificationSetting, "foreign")
  /\ Free(Do!GetSpaceNotificationSetting, "write")
  /\ Free(Do!GetSpaceNotificationSetting, "deleteScope")
  /\ Before(Do!GetSpaceNotificationSetting, "name", "request")
  /\ Free(Do!GetSpaceNotificationSetting, "lookup")
BY PathRules, StepRules, OtherRequests
DEF Do!GetSpaceNotificationSetting

(* The methods that write.                                                 *)
LEMMA UpdateMessageChanges ==
  /\ Changes(Do!UpdateMessage)
  /\ Before(Do!UpdateMessage, "name", "request")
  /\ After(Do!UpdateMessage, "write", "preview")
  /\ Mild(Do!UpdateMessage)
BY PathRules, StepRules, LooksAtChat, WritesInChat
DEF Changes, Mild, Do!UpdateMessage, Do!refuseNewEveryone, Do!everyoneRefused

LEMMA CreateGroupChatChanges ==
  /\ Changes(Do!CreateGroupChat)
  /\ Before(Do!CreateGroupChat, "name", "request")
  /\ After(Do!CreateGroupChat, "write", "preview")
  /\ Mild(Do!CreateGroupChat)
BY PathRules, StepRules, WritesInChat
DEF Changes, Mild, Do!CreateGroupChat, Do!setupSpace

LEMMA CreateSpaceChanges ==
  /\ Changes(Do!CreateSpace)
  /\ Before(Do!CreateSpace, "name", "request")
  /\ After(Do!CreateSpace, "write", "preview")
  /\ Mild(Do!CreateSpace)
BY PathRules, StepRules, WritesInChat
DEF Changes, Mild, Do!CreateSpace, Do!audienceRefused, Do!setupSpace

LEMMA CreateSectionChanges ==
  /\ Changes(Do!CreateSection)
  /\ Before(Do!CreateSection, "name", "request")
  /\ After(Do!CreateSection, "write", "preview")
  /\ Mild(Do!CreateSection)
BY PathRules, StepRules, WritesInChat
DEF Changes, Mild, Do!CreateSection

LEMMA RenameSectionChanges ==
  /\ Changes(Do!RenameSection)
  /\ Before(Do!RenameSection, "name", "request")
  /\ After(Do!RenameSection, "write", "preview")
  /\ Mild(Do!RenameSection)
BY PathRules, StepRules, WritesInChat
DEF Changes, Mild, Do!RenameSection

LEMMA PositionSectionChanges ==
  /\ Changes(Do!PositionSection)
  /\ Before(Do!PositionSection, "name", "request")
  /\ After(Do!PositionSection, "write", "preview")
  /\ Mild(Do!PositionSection)
BY PathRules, StepRules, WritesInChat
DEF Changes, Mild, Do!PositionSection

LEMMA PinMessageChanges ==
  /\ Changes(Do!PinMessage)
  /\ Before(Do!PinMessage, "name", "request")
  /\ After(Do!PinMessage, "write", "preview")
  /\ Mild(Do!PinMessage)
BY PathRules, StepRules, WritesInChat
DEF Changes, Mild, Do!PinMessage

LEMMA UnpinMessageChanges ==
  /\ Changes(Do!UnpinMessage)
  /\ Before(Do!UnpinMessage, "name", "request")
  /\ After(Do!UnpinMessage, "write", "preview")
  /\ Mild(Do!UnpinMessage)
BY PathRules, StepRules, WritesInChat
DEF Changes, Mild, Do!UnpinMessage, Do!deleteIdempotent, Do!Unconfirmed

LEMMA SetAvailabilityChanges ==
  /\ Changes(Do!SetAvailability)
  /\ Before(Do!SetAvailability, "name", "request")
  /\ After(Do!SetAvailability, "write", "preview")
  /\ Mild(Do!SetAvailability)
BY PathRules, StepRules, WritesInChat
DEF Changes, Mild, Do!SetAvailability, Do!doNotDisturbBody

LEMMA SetCustomStatusChanges ==
  /\ Changes(Do!SetCustomStatus)
  /\ Before(Do!SetCustomStatus, "name", "request")
  /\ After(Do!SetCustomStatus, "write", "preview")
  /\ Mild(Do!SetCustomStatus)
BY PathRules, StepRules, WritesInChat
DEF Changes, Mild, Do!SetCustomStatus, Do!customStatusBody

LEMMA CreateCustomEmojiChanges ==
  /\ Changes(Do!CreateCustomEmoji)
  /\ Before(Do!CreateCustomEmoji, "name", "request")
  /\ After(Do!CreateCustomEmoji, "write", "preview")
  /\ Mild(Do!CreateCustomEmoji)
BY PathRules, StepRules, WritesInChat
DEF Changes, Mild, Do!CreateCustomEmoji, Do!files, Do!Open, Do!within

LEMMA MoveSpaceToSectionChanges ==
  /\ Changes(Do!MoveSpaceToSection)
  /\ Before(Do!MoveSpaceToSection, "name", "request")
  /\ After(Do!MoveSpaceToSection, "write", "preview")
  /\ Mild(Do!MoveSpaceToSection)
BY PathRules, StepRules, LooksAtChat, WritesInASpace, CheckedSpaceIs
DEF Changes, Mild, Do!MoveSpaceToSection, Do!locateSectionItem, Do!checkSpace

LEMMA UpdateSpaceNotificationSettingChanges ==
  /\ Changes(Do!UpdateSpaceNotificationSetting)
  /\ Before(Do!UpdateSpaceNotificationSetting, "name", "request")
  /\ After(Do!UpdateSpaceNotificationSetting, "write", "preview")
  /\ Mild(Do!UpdateSpaceNotificationSetting)
BY PathRules, StepRules, WritesInASpace, CheckedSpaceIs
DEF Changes, Mild, Do!UpdateSpaceNotificationSetting, Do!checkSpace

LEMMA UploadAttachmentChanges ==
  /\ Changes(Do!UploadAttachment)
  /\ Before(Do!UploadAttachment, "name", "request")
  /\ After(Do!UploadAttachment, "write", "preview")
  /\ Mild(Do!UploadAttachment)
BY PathRules, StepRules, WritesInASpace, CheckedSpaceIs
DEF Changes, Mild, Do!UploadAttachment, Do!files, Do!Open, Do!within, Do!checkSpace

LEMMA MarkSpaceReadChanges ==
  /\ Changes(Do!MarkSpaceRead)
  /\ Before(Do!MarkSpaceRead, "name", "request")
  /\ After(Do!MarkSpaceRead, "write", "preview")
  /\ Mild(Do!MarkSpaceRead)
BY PathRules, StepRules, WritesInASpace, CheckedSpaceIs
DEF Changes, Mild, Do!MarkSpaceRead, Do!setReadState, Do!checkSpace

LEMMA MarkSpaceUnreadChanges ==
  /\ Changes(Do!MarkSpaceUnread)
  /\ Before(Do!MarkSpaceUnread, "name", "request")
  /\ After(Do!MarkSpaceUnread, "write", "preview")
  /\ Mild(Do!MarkSpaceUnread)
BY PathRules, StepRules, WritesInASpace, CheckedSpaceIs
DEF Changes, Mild, Do!MarkSpaceUnread, Do!setReadState, Do!checkSpace

LEMMA SendMessageChanges ==
  /\ Changes(Do!SendMessage)
  /\ After(Do!SendMessage, "write", "preview")
  /\ Mild(Do!SendMessage)
BY PathRules, StepRules, LooksAtChat, WritesInASpace, CheckedSpaceIs
DEF Changes, Mild, Do!SendMessage, Do!everyoneRefused, Do!checkSpace, Do!quote, Do!post

LEMMA FindDirectMessageChanges ==
  /\ Changes(Do!FindDirectMessage)
  /\ Before(Do!FindDirectMessage, "name", "request")
  /\ Mild(Do!FindDirectMessage)
BY PathRules, StepRules, LooksAtChat, WritesInChat
DEF Changes, Mild, Do!FindDirectMessage

LEMMA AddReactionChanges ==
  /\ Changes(Do!AddReaction)
  /\ Before(Do!AddReaction, "name", "request")
  /\ Mild(Do!AddReaction)
BY PathRules, StepRules, LooksAnywhere, LooksAtChat, WritesInChat
DEF Changes, Mild, Do!AddReaction, Do!requireEmoji, Do!existingReaction, Do!callerID,
    Do!caller

LEMMA RemoveReactionChanges ==
  /\ Changes(Do!RemoveReaction)
  /\ Before(Do!RemoveReaction, "name", "request")
  /\ Mild(Do!RemoveReaction)
BY PathRules, StepRules, LooksAtChat, LooksUp, WritesInChat
DEF Changes, Mild, Do!RemoveReaction, Do!removeReactionByPerson, Do!requireEmoji,
    Do!resolvePeople

LEMMA DeleteMessageChanges ==
  /\ Changes(Do!DeleteMessage)
  /\ Before(Do!DeleteMessage, "name", "request")
  /\ After(Do!DeleteMessage, "write", "preview")
BY PathRules, StepRules, Deletes, LooksAtChat
DEF Changes, Do!DeleteMessage, Do!deleteMessage, Do!checkText, Do!deleteIdempotent,
    Do!confirmGone

LEMMA DeleteThreadChanges ==
  /\ Changes(Do!DeleteThread)
  /\ Before(Do!DeleteThread, "name", "request")
  /\ After(Do!DeleteThread, "write", "preview")
BY PathRules, StepRules, Deletes, LooksAtChat
DEF Changes, Do!DeleteThread, Do!deleteMessage, Do!checkText, Do!deleteIdempotent,
    Do!Unconfirmed

LEMMA DeleteSectionChanges ==
  /\ Changes(Do!DeleteSection)
  /\ Before(Do!DeleteSection, "name", "request")
  /\ After(Do!DeleteSection, "write", "preview")
BY PathRules, StepRules, Deletes
DEF Changes, Do!DeleteSection, Do!deleteIdempotent, Do!Unconfirmed

LEMMA DeleteCustomEmojiChanges ==
  /\ Changes(Do!DeleteCustomEmoji)
  /\ Before(Do!DeleteCustomEmoji, "name", "request")
  /\ After(Do!DeleteCustomEmoji, "write", "preview")
BY PathRules, StepRules, Deletes, LooksAtChat
DEF Changes, Do!DeleteCustomEmoji, Do!checkName, Do!deleteIdempotent, Do!Unconfirmed

LEMMA SetSpaceAudienceChanges ==
  /\ Changes(Do!SetSpaceAudience)
  /\ Before(Do!SetSpaceAudience, "name", "request")
  /\ After(Do!SetSpaceAudience, "write", "preview")
BY PathRules, StepRules, LooksAnywhere, OtherRequests
DEF Changes, Do!SetSpaceAudience, Do!checkName, Do!patchSpace, Do!sendSpacePatch

LEMMA AddExternalMemberChanges ==
  /\ Changes(Do!AddExternalMember)
  /\ Before(Do!AddExternalMember, "name", "request")
  /\ After(Do!AddExternalMember, "write", "preview")
BY PathRules, StepRules, LooksAnywhere, LooksUp, OtherRequests, CheckedSpaceIs
DEF Changes, Do!AddExternalMember, Do!addMember, Do!addPerson, Do!refuseOutsider,
    Do!admitsOutsiders, Do!directoryMembers, Do!outsiderRefused, Do!addGroup,
    Do!checkGroup, Do!refuseGroup, Do!invite, Do!checkSpace

LEMMA AddMemberChanges ==
  /\ Changes(Do!AddMember)
  /\ Before(Do!AddMember, "name", "request")
  /\ After(Do!AddMember, "write", "preview")
  /\ Mild(Do!AddMember)
BY PathRules, StepRules, LooksAnywhere, LooksUp, OtherRequests, CheckedSpaceIs
DEF Changes, Mild, Do!AddMember, Do!addMember, Do!addPerson, Do!refuseOutsider,
    Do!admitsOutsiders, Do!directoryMembers, Do!outsiderRefused, Do!addGroup,
    Do!checkGroup, Do!refuseGroup, Do!invite, Do!checkSpace

LEMMA UpdateSpaceChanges ==
  /\ Changes(Do!UpdateSpace)
  /\ Before(Do!UpdateSpace, "name", "request")
  /\ After(Do!UpdateSpace, "write", "preview")
  /\ Mild(Do!UpdateSpace)
  /\ After(Do!UpdateSpace, "formless", "named")
BY PathRules, StepRules, OtherRequests, CheckedSpaceIs
DEF Changes, Mild, Do!UpdateSpace, Do!makePrivate, Do!audienceRefused, Do!checkSpace,
    Do!patchSpace, Do!sendSpacePatch

LEMMA UpdateMemberRoleChanges ==
  /\ Changes(Do!UpdateMemberRole)
  /\ Before(Do!UpdateMemberRole, "name", "request")
  /\ After(Do!UpdateMemberRole, "write", "preview")
  /\ Mild(Do!UpdateMemberRole)
  /\ After(Do!UpdateMemberRole, "formless", "named")
BY PathRules, StepRules, OtherRequests
DEF Changes, Mild, Do!UpdateMemberRole, Do!updateMemberRole, Do!requireRole

LEMMA UpdateSpacePermissionsChanges ==
  /\ Changes(Do!UpdateSpacePermissions)
  /\ Before(Do!UpdateSpacePermissions, "name", "request")
  /\ After(Do!UpdateSpacePermissions, "write", "preview")
  /\ After(Do!UpdateSpacePermissions, "formless", "named")
BY PathRules, StepRules, OtherRequests, CheckedSpaceIs
DEF Changes, Do!UpdateSpacePermissions, Do!sendSpacePatch

LEMMA PromoteMemberChanges ==
  /\ Changes(Do!PromoteMember)
  /\ Before(Do!PromoteMember, "name", "request")
  /\ After(Do!PromoteMember, "write", "preview")
  /\ After(Do!PromoteMember, "formless", "named")
BY PathRules, StepRules, OtherRequests
DEF Changes, Do!PromoteMember, Do!updateMemberRole, Do!requireRole

LEMMA RemoveMemberChanges ==
  /\ Changes(Do!RemoveMember)
  /\ Before(Do!RemoveMember, "name", "request")
  /\ After(Do!RemoveMember, "write", "preview")
  /\ After(Do!RemoveMember, "formless", "named")
BY PathRules, StepRules, LooksAnywhere, OtherRequests
DEF Changes, Do!RemoveMember, Do!deleteIdempotent, Do!confirmGone

LEMMA AdminAddMemberChanges ==
  /\ Changes(Do!AdminAddMember)
  /\ Before(Do!AdminAddMember, "name", "request")
  /\ After(Do!AdminAddMember, "write", "preview")
  /\ After(Do!AdminAddMember, "formless", "named")
BY PathRules, StepRules, LooksAnywhere, LooksUp, OtherRequests, CheckedSpaceIs
DEF Changes, Do!AdminAddMember, Do!vetAdminInvitee, Do!caller, Do!selfRefused,
    Do!directoryMembers, Do!outsiderRefused, Do!invite, Do!checkSpace

LEMMA DeleteSpaceChanges ==
  /\ Changes(Do!DeleteSpace)
  /\ Before(Do!DeleteSpace, "name", "request")
  /\ After(Do!DeleteSpace, "write", "preview")
  /\ After(Do!DeleteSpace, "formless", "named")
BY PathRules, StepRules, LooksAnywhere, OtherRequests
DEF Changes, Do!DeleteSpace, Do!checkName, Do!deleteIdempotent, Do!Unconfirmed

(* What every path has in common with a set it is of, they all have.       *)
LEMMA AnyOf ==
  \A P : /\ \A x : (\A p \in P : \E Q : p \in Q /\ Free(Q, x)) => Free(P, x)
         /\ \A x, y : (\A p \in P : \E Q : p \in Q /\ Before(Q, x, y)) => Before(P, x, y)
BY DEF Free, Before, Paths

(* The methods that look in one of several ways.                           *)
LEMMA SearchMessagesReads ==
  /\ Reads(Do!SearchMessages)
  /\ Free(Do!SearchMessages, "lookup")
<1>1. \A x : x \notin {"argument", "name", "check", "request", "formless"} => Free(Do!searchFilter, x)
  BY PathRules, StepRules, LooksAnywhere
  DEF Do!searchFilter, Do!callerID, Do!caller
<1>2. Before(Do!searchFilter, "name", "request")
  BY PathRules, StepRules, LooksAnywhere
  DEF Do!searchFilter, Do!callerID, Do!caller
<1>3. ASSUME NEW p \in Do!searchUpstream
      PROVE  \E Q : /\ p \in Q
                    /\ \A x : x \notin {"argument", "name", "check", "request", "formless"} => Free(Q, x)
                    /\ Before(Q, "name", "request")
  <2>1. PICK unread, bySpace \in BOOLEAN :
          p \in Do!++(Do!++(Do!clampLimit, Do!searchFilter),
                      Do!Ask(Do!Client!SearchMessages(unread, bySpace)))
    BY SMT DEF Do!searchUpstream
  <2>2. Bounds(Do!Client!SearchMessages(unread, bySpace), "plain", {"request", "formless"})
    BY OtherRequests
  <2>3. QED
    BY <1>1, <1>2, <2>1, <2>2, PathRules, StepRules
<1>4. /\ \A x : x \notin {"argument", "name", "check", "request", "formless"} => Free(Do!searchUpstream, x)
      /\ Before(Do!searchUpstream, "name", "request")
  BY <1>3, AnyOf
<1>5. QED
  BY <1>4, PathRules, StepRules, LooksAtChat
  DEF Reads, Do!SearchMessages, Do!scanSpace, Do!withSenders, Do!searchTerm

LEMMA SearchPeopleReads ==
  Reads(Do!SearchPeople)
<1> DEFINE Others(r) == UNION {Do!||(Do!++(Do!Try(s), Do!Ask(r)), Do!++(Do!Ask(r), Do!Try(s))) :
                                 s \in Do!searchOneSource \ {r}}
           Sources   == UNION {Do!||(Do!Ask(r), Others(r)) : r \in Do!searchOneSource}
<1>1. ASSUME NEW r \in Do!searchOneSource, NEW x, x \notin {"request", "lookup"}
      PROVE  Free(Do!Ask(r), x) /\ Free(Do!Try(r), x)
  BY <1>1, StepRules, LooksAnywhere, LooksUp DEF Do!searchOneSource
<1>2. ASSUME NEW r \in Do!searchOneSource, NEW x, x \notin {"request", "lookup"}
      PROVE  Free(Others(r), x)
  <2>1. ASSUME NEW p \in Others(r)
        PROVE  \E Q : p \in Q /\ Free(Q, x)
    <3>1. PICK s \in Do!searchOneSource \ {r} :
            p \in Do!||(Do!++(Do!Try(s), Do!Ask(r)), Do!++(Do!Ask(r), Do!Try(s)))
      OBVIOUS
    <3>2. QED
      BY <1>1, <1>2, <3>1, PathRules
  <2>2. QED
    BY <2>1, AnyOf
<1>3. ASSUME NEW x, x \notin {"request", "lookup"}
      PROVE  Free(Sources, x)
  <2>1. ASSUME NEW p \in Sources
        PROVE  \E Q : p \in Q /\ Free(Q, x)
    <3>1. PICK r \in Do!searchOneSource : p \in Do!||(Do!Ask(r), Others(r))
      OBVIOUS
    <3>2. Free(Do!Ask(r), x) /\ Free(Others(r), x)
      BY <1>1, <1>2, <1>3
    <3>3. QED
      BY <3>1, <3>2, PathRules
  <2>2. QED
    BY <2>1, AnyOf
<1>4. Do!SearchPeople = Do!++(Do!++(Do!++(Do!Argument, Do!clampLimit), Do!narrowSources), Sources)
  BY DEF Do!SearchPeople
<1> HIDE DEF Sources
<1>5. QED
  BY <1>3, <1>4, PathRules, StepRules DEF Reads, Do!narrowSources

LEMMA ListSpaceEventsReads ==
  /\ Reads(Do!ListSpaceEvents)
  /\ Free(Do!ListSpaceEvents, "lookup")
<1>1. ASSUME NEW p \in Do!ListSpaceEvents
      PROVE  \E Q : /\ p \in Q
                    /\ \A x : x \notin {"argument", "name", "request", "formless"} => Free(Q, x)
                    /\ Before(Q, "name", "request")
  <2>1. PICK scopes \in SUBSET Do!Client!EventScopes :
          p \in Do!++(Do!++(Do!++(Do!++(Do!requireSpace, Do!eventTypes), Do!eventTime), Do!clampLimit),
                      Do!Ask(Do!Client!ListSpaceEvents(scopes)))
    BY SMT DEF Do!ListSpaceEvents
  <2>2. Bounds(Do!Client!ListSpaceEvents(scopes), "plain", {"request", "formless"})
    BY OtherRequests
  <2>3. QED
    BY <2>1, <2>2, PathRules, StepRules DEF Do!eventTypes, Do!eventTime
<1>2. \A x : x \notin {"argument", "name", "request", "formless"} => Free(Do!ListSpaceEvents, x)
  BY <1>1, AnyOf
<1>3. Before(Do!ListSpaceEvents, "name", "request")
  BY <1>1, AnyOf
<1>4. QED
  BY <1>2, <1>3 DEF Reads

HIDE DEF Do!Argument, Do!Check, Do!NamedOnly, Do!Witness, Do!clampLimit, Do!parseArgTime,
        Do!renderBody, Do!requireAudience, Do!requireAudienceOrPrivate,
        Do!requireCustomEmoji, Do!requireDisplayName, Do!requireEmail, Do!requireEmails,
        Do!requireEnum, Do!requireGroup, Do!requireMembership, Do!requireMessage,
        Do!requireReaction, Do!requireSection, Do!requireSectionItem, Do!requireShape,
        Do!requireSpace, Do!requireSpaceEvent, Do!requireSpaceText, Do!requireText,
        Do!requireThread, Do!requireWindow, Do!requireWitness, Do!timeBound, Do!Opt,
        Do!Pages, Bounds

-----------------------------------------------------------------------------
(* What a tool's kind, its toolset and its inputs promise of its paths.    *)
IsRead(t) == t.kind \in {"Read", "ReadWritesLocally"}

Sound(t) ==
  /\ Free(t.operation, "foreign")
  /\ t.name # "send_message" => Before(t.operation, "name", "request")
  /\ Before(t.operation, "name", "write")
  /\ Before(t.operation, "argument", "write")
  /\ ~IsRead(t) => After(t.operation, "onASpace", "witness")
  /\ t.dryRun => After(t.operation, "write", "preview")
  /\ IsRead(t) => Free(t.operation, "write")
  /\ IsRead(t) /\ ~t.writeScope => Free(t.operation, "writeScope")
  /\ t.kind = "Read" /\ t.name \notin {"search_people", "find_group"} => Free(t.operation, "lookup")
  /\ t.kind # "Destructive" => Free(t.operation, "deleteScope")
  /\ t.toolset = "Admin" => After(t.operation, "formless", "named")
  /\ ~IsRead(t) /\ t.kind # "Destructive" => Mild(t.operation)

(* A resource is read by the method of a tool, once its URI is in order.   *)
LEMMA ResourceReads ==
  \A P : /\ Reads(P) => Reads(resourceParts(P))
         /\ Free(P, "lookup") => Free(resourceParts(P), "lookup")
<1>1. ASSUME NEW P, NEW p \in resourceParts(P)
      PROVE  p \in Do!++(Do!Own("name"), P)
  BY <1>1 DEF resourceParts, Do!++, Do!Own
<1>2. \A P, x : x # "name" /\ Free(P, x) => Free(resourceParts(P), x)
  BY <1>1, AnyOf, PathRules, StepRules
<1>3. ASSUME NEW P, Before(P, "name", "request")
      PROVE  Before(resourceParts(P), "name", "request")
  <2>1. Before(Do!++(Do!Own("name"), P), "name", "request")
    BY <1>3, PathRules, StepRules
  <2>2. QED
    BY <1>1, <2>1, AnyOf
<1>4. QED
  BY <1>2, <1>3 DEF Reads

(* Every tool the server can register.                                     *)
LEMMA EveryToolIsSound == \A t \in Tools : Sound(t)
<1>1. Sound(admin_search_spaces)
  BY SearchSpacesReads, PathRules
  DEF Sound, IsRead, Reading, Tool, admin_search_spaces, Reads
<1>2. Sound(admin_get_space)
  BY GetSpaceReads, PathRules DEF Sound, IsRead, Reading, Tool, admin_get_space, Reads
<1>3. Sound(admin_list_members)
  BY ListMembersReads, PathRules DEF Sound, IsRead, Reading, Tool, admin_list_members, Reads
<1>4. Sound(admin_get_member)
  BY GetMemberReads, PathRules DEF Sound, IsRead, Reading, Tool, admin_get_member, Reads
<1>5. Sound(admin_update_space)
  BY UpdateSpaceChanges, PathRules
  DEF Sound, IsRead, Tool, admin_update_space, Changes, Mild
<1>6. Sound(admin_update_space_permissions)
  BY UpdateSpacePermissionsChanges, PathRules
  DEF Sound, IsRead, Tool, admin_update_space_permissions, Changes, Mild
<1>7. Sound(admin_update_member_role)
  BY UpdateMemberRoleChanges, PathRules
  DEF Sound, IsRead, Tool, admin_update_member_role, Changes, Mild
<1>8. Sound(admin_promote_member)
  BY PromoteMemberChanges, PathRules
  DEF Sound, IsRead, Tool, admin_promote_member, Changes, Mild
<1>9. Sound(admin_remove_member)
  BY RemoveMemberChanges, PathRules
  DEF Sound, IsRead, Tool, admin_remove_member, Changes, Mild
<1>10. Sound(admin_add_member)
  BY AdminAddMemberChanges, PathRules
  DEF Sound, IsRead, Tool, admin_add_member, Changes, Mild
<1>11. Sound(admin_delete_space)
  BY DeleteSpaceChanges, PathRules
  DEF Sound, IsRead, Tool, admin_delete_space, Changes, Mild
<1>12. Sound(download_attachment)
  BY DownloadAttachmentReads, PathRules DEF Sound, IsRead, Tool, download_attachment, Reads
<1>13. Sound(upload_attachment)
  BY UploadAttachmentChanges, PathRules
  DEF Sound, IsRead, Tool, upload_attachment, Changes, Mild
<1>14. Sound(list_space_events)
  BY ListSpaceEventsReads, PathRules
  DEF Sound, IsRead, Reading, Tool, list_space_events, Reads
<1>15. Sound(get_space_event)
  BY GetSpaceEventReads, PathRules DEF Sound, IsRead, Reading, Tool, get_space_event, Reads
<1>16. Sound(list_members)
  BY ListMembersReads, PathRules DEF Sound, IsRead, Reading, Tool, list_members, Reads
<1>17. Sound(add_member)
  BY AddMemberChanges, PathRules DEF Sound, IsRead, Tool, add_member, Changes, Mild
<1>18. Sound(add_external_member)
  BY AddExternalMemberChanges, PathRules
  DEF Sound, IsRead, Tool, add_external_member, Changes, Mild
<1>19. Sound(get_member)
  BY GetMemberReads, PathRules DEF Sound, IsRead, Reading, Tool, get_member, Reads
<1>20. Sound(update_member_role)
  BY UpdateMemberRoleChanges, PathRules
  DEF Sound, IsRead, Tool, update_member_role, Changes, Mild
<1>21. Sound(promote_member)
  BY PromoteMemberChanges, PathRules DEF Sound, IsRead, Tool, promote_member, Changes, Mild
<1>22. Sound(remove_member)
  BY RemoveMemberChanges, PathRules DEF Sound, IsRead, Tool, remove_member, Changes, Mild
<1>23. Sound(get_messages)
  BY GetMessagesReads, PathRules DEF Sound, IsRead, Reading, Tool, get_messages, Reads
<1>24. Sound(get_thread)
  BY GetThreadReads, PathRules DEF Sound, IsRead, Reading, Tool, get_thread, Reads
<1>25. Sound(get_message)
  BY GetMessageReads, PathRules DEF Sound, IsRead, Reading, Tool, get_message, Reads
<1>26. Sound(search_messages)
  BY SearchMessagesReads, PathRules DEF Sound, IsRead, Reading, Tool, search_messages, Reads
<1>27. Sound(send_message)
  BY SendMessageChanges, PathRules DEF Sound, IsRead, Tool, send_message, Changes, Mild
<1>28. Sound(update_message)
  BY UpdateMessageChanges, PathRules DEF Sound, IsRead, Tool, update_message, Changes, Mild
<1>29. Sound(delete_message)
  BY DeleteMessageChanges, PathRules DEF Sound, IsRead, Tool, delete_message, Changes, Mild
<1>30. Sound(delete_thread)
  BY DeleteThreadChanges, PathRules DEF Sound, IsRead, Tool, delete_thread, Changes, Mild
<1>31. Sound(find_group)
  BY FindGroupReads, PathRules DEF Sound, IsRead, Reading, Tool, find_group, Reads
<1>32. Sound(search_people)
  BY SearchPeopleReads, PathRules DEF Sound, IsRead, Reading, Tool, search_people, Reads
<1>33. Sound(get_availability)
  BY GetAvailabilityReads, PathRules
  DEF Sound, IsRead, Reading, Tool, get_availability, Reads
<1>34. Sound(set_availability)
  BY SetAvailabilityChanges, PathRules
  DEF Sound, IsRead, Tool, set_availability, Changes, Mild
<1>35. Sound(set_custom_status)
  BY SetCustomStatusChanges, PathRules
  DEF Sound, IsRead, Tool, set_custom_status, Changes, Mild
<1>36. Sound(list_custom_emojis)
  BY ListCustomEmojisReads, PathRules
  DEF Sound, IsRead, Reading, Tool, list_custom_emojis, Reads
<1>37. Sound(get_custom_emoji)
  BY GetCustomEmojiReads, PathRules
  DEF Sound, IsRead, Reading, Tool, get_custom_emoji, Reads
<1>38. Sound(create_custom_emoji)
  BY CreateCustomEmojiChanges, PathRules
  DEF Sound, IsRead, Tool, create_custom_emoji, Changes, Mild
<1>39. Sound(delete_custom_emoji)
  BY DeleteCustomEmojiChanges, PathRules
  DEF Sound, IsRead, Tool, delete_custom_emoji, Changes, Mild
<1>40. Sound(delete_space)
  BY DeleteSpaceChanges, PathRules DEF Sound, IsRead, Tool, delete_space, Changes, Mild
<1>41. Sound(list_reactions)
  BY ListReactionsReads, PathRules DEF Sound, IsRead, Reading, Tool, list_reactions, Reads
<1>42. Sound(add_reaction)
  BY AddReactionChanges, PathRules DEF Sound, IsRead, Tool, add_reaction, Changes, Mild
<1>43. Sound(remove_reaction)
  BY RemoveReactionChanges, PathRules
  DEF Sound, IsRead, Tool, remove_reaction, Changes, Mild
<1>44. Sound(list_sections)
  BY ListSectionsReads, PathRules DEF Sound, IsRead, Reading, Tool, list_sections, Reads
<1>45. Sound(list_section_items)
  BY ListSectionItemsReads, PathRules
  DEF Sound, IsRead, Reading, Tool, list_section_items, Reads
<1>46. Sound(create_section)
  BY CreateSectionChanges, PathRules DEF Sound, IsRead, Tool, create_section, Changes, Mild
<1>47. Sound(rename_section)
  BY RenameSectionChanges, PathRules DEF Sound, IsRead, Tool, rename_section, Changes, Mild
<1>48. Sound(delete_section)
  BY DeleteSectionChanges, PathRules DEF Sound, IsRead, Tool, delete_section, Changes, Mild
<1>49. Sound(position_section)
  BY PositionSectionChanges, PathRules
  DEF Sound, IsRead, Tool, position_section, Changes, Mild
<1>50. Sound(move_space_to_section)
  BY MoveSpaceToSectionChanges, PathRules
  DEF Sound, IsRead, Tool, move_space_to_section, Changes, Mild
<1>51. Sound(get_space)
  BY GetSpaceReads, PathRules DEF Sound, IsRead, Reading, Tool, get_space, Reads
<1>52. Sound(whoami)
  BY WhoamiReads, PathRules DEF Sound, IsRead, Reading, Tool, whoami, Reads
<1>53. Sound(list_spaces)
  BY ListSpacesReads, PathRules DEF Sound, IsRead, Reading, Tool, list_spaces, Reads
<1>54. Sound(search_spaces)
  BY SearchSpacesReads, PathRules DEF Sound, IsRead, Reading, Tool, search_spaces, Reads
<1>55. Sound(find_group_chats)
  BY FindGroupChatsReads, PathRules
  DEF Sound, IsRead, Reading, Tool, find_group_chats, Reads
<1>56. Sound(find_direct_message)
  BY FindDirectMessageChanges, PathRules
  DEF Sound, IsRead, Tool, find_direct_message, Changes, Mild
<1>57. Sound(create_group_chat)
  BY CreateGroupChatChanges, PathRules
  DEF Sound, IsRead, Tool, create_group_chat, Changes, Mild
<1>58. Sound(create_space)
  BY CreateSpaceChanges, PathRules DEF Sound, IsRead, Tool, create_space, Changes, Mild
<1>59. Sound(update_space)
  BY UpdateSpaceChanges, PathRules DEF Sound, IsRead, Tool, update_space, Changes, Mild
<1>60. Sound(set_space_audience)
  BY SetSpaceAudienceChanges, PathRules
  DEF Sound, IsRead, Tool, set_space_audience, Changes, Mild
<1>61. Sound(list_pinned_messages)
  BY ListPinsReads, PathRules DEF Sound, IsRead, Reading, Tool, list_pinned_messages, Reads
<1>62. Sound(pin_message)
  BY PinMessageChanges, PathRules DEF Sound, IsRead, Tool, pin_message, Changes, Mild
<1>63. Sound(unpin_message)
  BY UnpinMessageChanges, PathRules DEF Sound, IsRead, Tool, unpin_message, Changes, Mild
<1>64. Sound(get_space_read_state)
  BY GetSpaceReadStateReads, PathRules
  DEF Sound, IsRead, Reading, Tool, get_space_read_state, Reads
<1>65. Sound(get_thread_read_state)
  BY GetThreadReadStateReads, PathRules
  DEF Sound, IsRead, Reading, Tool, get_thread_read_state, Reads
<1>66. Sound(mark_space_read)
  BY MarkSpaceReadChanges, PathRules DEF Sound, IsRead, Tool, mark_space_read, Changes, Mild
<1>67. Sound(mark_space_unread)
  BY MarkSpaceUnreadChanges, PathRules
  DEF Sound, IsRead, Tool, mark_space_unread, Changes, Mild
<1>68. Sound(get_space_notification_setting)
  BY GetSpaceNotificationSettingReads, PathRules
  DEF Sound, IsRead, Reading, Tool, get_space_notification_setting, Reads
<1>69. Sound(update_space_notification_setting)
  BY UpdateSpaceNotificationSettingChanges, PathRules
  DEF Sound, IsRead, Tool, update_space_notification_setting, Changes, Mild
<1>70. Sound(space_resource)
  BY GetSpaceReads, ResourceReads, PathRules
  DEF Sound, IsRead, Reading, Tool, Reads, space_resource
<1>71. Sound(message_resource)
  BY GetMessageReads, ResourceReads, PathRules
  DEF Sound, IsRead, Reading, Tool, Reads, message_resource
<1>72. Sound(thread_resource)
  BY GetThreadReads, ResourceReads, PathRules
  DEF Sound, IsRead, Reading, Tool, Reads, thread_resource
<1>. QED
  BY <1>1, <1>2, <1>3, <1>4, <1>5, <1>6, <1>7, <1>8, <1>9, <1>10, <1>11, <1>12, <1>13,
     <1>14, <1>15, <1>16, <1>17, <1>18, <1>19, <1>20, <1>21, <1>22, <1>23, <1>24, <1>25,
     <1>26, <1>27, <1>28, <1>29, <1>30, <1>31, <1>32, <1>33, <1>34, <1>35, <1>36, <1>37,
     <1>38, <1>39, <1>40, <1>41, <1>42, <1>43, <1>44, <1>45, <1>46, <1>47, <1>48, <1>49,
     <1>50, <1>51, <1>52, <1>53, <1>54, <1>55, <1>56, <1>57, <1>58, <1>59, <1>60, <1>61,
     <1>62, <1>63, <1>64, <1>65, <1>66, <1>67, <1>68, <1>69, <1>70, <1>71, <1>72
  DEF Tools

LEMMA NamesAreTools == \A n \in DOMAIN Named : Named[n] \in Tools /\ Named[n].name = n
<1>1. SUFFICES ASSUME NEW n \in {t.name : t \in Tools}
               PROVE  Named[n] \in Tools /\ Named[n].name = n
  BY DEF Named
<1>2. Named[n] = CHOOSE t \in Tools : t.name = n
  BY Zenon, <1>1 DEF Named
<1>3. \E t \in Tools : t.name = n
  BY <1>1
<1>4. QED
  BY Zenon, <1>2, <1>3

-----------------------------------------------------------------------------
(* The step a call is about to take, after those it took: it is of the     *)
(* same path, and has what comes after or before to show for.              *)
Ahead(P, d, s) ==
  /\ \A x : Free(P, x) => ~Is(s, x)
  /\ \A x, y : After(P, x, y) /\ Is(s, x) => \E j \in 1..Len(d) : Is(d[j], y)
  /\ \A x, y : Before(P, x, y) /\ Is(s, x) => \A j \in 1..Len(d) : ~Is(d[j], y)

LEMMA NextStep ==
  ASSUME NEW P, NEW d, NEW r, IsPath(d), IsPath(r), r # <<>>, d \o r \in P
  PROVE  Ahead(P, d, Head(r))
<1>1. Len(r) \in Nat /\ Len(r) # 0 /\ r[1] = Head(r)
  BY DEF IsPath
<1>2. LET k == Len(d) + 1 IN
        /\ k \in 1..Len(d \o r) /\ (d \o r)[k] = Head(r)
        /\ Len(d) \in Nat /\ 1..(k - 1) = 1..Len(d)
        /\ \A j \in 1..Len(d) : (d \o r)[j] = d[j]
  BY <1>1, Joined
<1>3. QED
  BY <1>2 DEF Ahead, Free, After, Before

(* e is d and a step more. *)
Further(d, s, e) ==
  /\ IsPath(e)
  /\ \A i \in 1..Len(d) : i \in 1..Len(e) /\ e[i] = d[i]
  /\ \A i \in 1..Len(e) : i \in 1..Len(d) \/ e[i] = s
  /\ \E i \in 1..Len(e) : e[i] = s

LEMMA StepTaken ==
  \A d, r : IsPath(d) /\ IsPath(r) /\ r # <<>> =>
    \E e : Further(d, Head(r), e) /\ IsPath(Tail(r)) /\ e \o Tail(r) = d \o r
<1> TAKE d, r
<1> HAVE IsPath(d) /\ IsPath(r) /\ r # <<>>
<1>1. PICK S : d \in Seq(S)
  BY DEF IsPath
<1>2. PICK U : r \in Seq(U)
  BY DEF IsPath
<1> DEFINE V == S \cup U
<1>3. d \in Seq(V) /\ r \in Seq(V)
  BY <1>1, <1>2
<1> HIDE DEF V
<1> DEFINE e == Append(d, Head(r))
<1>4. Head(r) \in V /\ Tail(r) \in Seq(V) /\ Len(Tail(r)) = Len(r) - 1
  BY <1>3
<1>5. e \in Seq(V) /\ Len(e) = Len(d) + 1 /\ e[Len(d) + 1] = Head(r)
      /\ \A i \in 1..Len(d) : e[i] = d[i]
  BY <1>3, <1>4
<1>6. e \o Tail(r) = d \o r
  BY <1>3, <1>4, <1>5
<1>7. IsPath(e) /\ IsPath(Tail(r))
  BY <1>4, <1>5 DEF IsPath
<1>8. Further(d, Head(r), e)
  BY <1>3, <1>5, <1>7 DEF Further
<1>9. QED
  BY <1>6, <1>7, <1>8

(* What is read of a step when it is taken.                                *)
LEMMA TraitsOf ==
  \A s : /\ \A x \in {"name", "argument", "witness", "vet", "named", "preview"} :
              Is(s, x) <=> s.do = x
         /\ s.do \in Calls => Is(s, "request")
         /\ s.do \in Calls /\ Do!Client!IsWrite(s.req) => Is(s, "write")
BY DEF Is, Asks, Calls

(* What cannot be taken back is a write, and one of two kinds.             *)
LEMMA LastingIsTold ==
  \A s : s.do \in Calls /\ CannotBeTakenBack(s) /\ ~Is(s, "foreign") =>
    /\ Do!Client!IsWrite(s.req)
    /\ Is(s, "lasting") \/ (s.effect = "outsider" /\ Is(s, "outsider"))
BY DEF Is, Asks, Strange, CannotBeTakenBack, Lasting, Do!Effects

(* What login asks for covers a request of a tool that is registered.      *)
LEMMA LoginCovers ==
  ASSUME NEW t, NEW c, NEW s, registers(t, c), s.do \in {"ask", "absent"},
         ~Is(s, "foreign"),
         IsRead(t) /\ ~t.writeScope => ~Is(s, "writeScope"),
         t.kind # "Destructive" => ~Is(s, "deleteScope"),
         ForAdministrators(t) /\ Do!Client!IsChat(s.req) => s.req.adminScope # Do!Client!None
  PROVE  \A scope \in Do!Client!ScopesOf(s.req, ForAdministrators(t)) :
           /\ scope \in requestedScopes(c)
           /\ ~Is(s, "lookup") => scope \notin Lookups
<1>1. ~Strange(s.req, s.effect)
  BY DEF Is, Asks, Calls
<1>2. s.req.scopes \subseteq Do!Client!All
  BY <1>1 DEF Strange
<1>3. s.req.adminScope \in Do!Client!AdminScopes \cup {Do!Client!None}
  BY <1>1 DEF Strange
<1>4. c.readOnly => /\ s.req.scopes \cap Do!Client!WriteScopes = {}
                    /\ s.req.adminScope \notin Do!Client!AdminWriteScopes
  BY DEF registers, IsRead, Is, Asks, Calls
<1>5. s.req.adminScope = "AdminDelete" => DestructiveRegisters(c)
  BY DEF registers, Is, Asks, Calls
<1>6. ~Is(s, "lookup") => s.req.scopes \cap Lookups = {}
  BY DEF Is, Asks, Calls
<1>7. \A scope \in s.req.scopes :
        /\ scope \in requestedScopes(c)
        /\ ~Is(s, "lookup") => scope \notin Lookups
  <2>1. TAKE scope \in s.req.scopes
  <2>2. scope \in Do!Client!All /\ (c.readOnly => scope \notin Do!Client!WriteScopes)
    BY <1>2, <1>4
  <2>3. c.readOnly => ~Do!Client!CanWrite(scope)
    BY <2>2 DEF Do!Client!CanWrite, Do!Client!All, Do!Client!AdminWriteScopes,
                Do!Client!Identity, Do!Client!WriteScopes
  <2>4. QED
    BY <1>6, <2>2, <2>3 DEF requestedScopes, Do!Client!Requested
<1>8. ASSUME ForAdministrators(t), Do!Client!IsChat(s.req)
      PROVE  s.req.adminScope \in requestedScopes(c) /\ s.req.adminScope \notin Lookups
  <2>1. "Admin" \in c.toolsets
    BY <1>8 DEF registers, ForAdministrators
  <2>2. s.req.adminScope \in Do!Client!AdminScopes
    BY <1>3, <1>8
  <2>3. c.readOnly => ~Do!Client!CanWrite(s.req.adminScope)
    BY <1>4, <2>2 DEF Do!Client!CanWrite, Do!Client!AdminScopes, Do!Client!AdminWriteScopes,
                      Do!Client!WriteScopes
  <2>4. s.req.adminScope \notin Lookups
    BY <2>2 DEF Do!Client!AdminScopes, Do!Client!AdminWriteScopes, Lookups
  <2>5. QED
    BY <1>5, <2>1, <2>2, <2>3, <2>4 DEF requestedScopes, Do!Client!Requested
<1>9. QED
  BY <1>7, <1>8 DEF Do!Client!ScopesOf, Do!Client!AsAdmin

-----------------------------------------------------------------------------
(* The invariant: the tool that runs is registered, the steps left are the *)
(* end of a path of its method, of whose beginning the call has what it    *)
(* went through to show, and what it sent was right to send.               *)
Setup ==
  /\ granted = grantedScopes(asked, declined)
  /\ declined \in {{}, Lookups}
  /\ dry \in BOOLEAN /\ confirm \in BOOLEAN
  /\ outcome = "idle" => sent = {}
  /\ outcome # "idle" =>
       /\ tool \in DOMAIN Named /\ registers(Named[tool], config)
       /\ dry => Named[tool].dryRun
  /\ outcome = "running" /\ TakesConfirm(Named[tool]) => dry \/ confirm

Taken(d) ==
  /\ IsPath(d) /\ IsPath(rest) /\ d \o rest \in Named[tool].operation
  /\ \A i \in 1..Len(d) : /\ d[i].do = "witness" => witnessed
                          /\ d[i].do = "vet" => vetted
                          /\ d[i].do = "named" => ~Admin
                          /\ d[i].do = "preview" => ~dry
  /\ \A s \in sent : s.do \in Calls /\ \E i \in 1..Len(d) : d[i] = s

OnItsWay == outcome = "running" => \E d : Taken(d)

Right(s) ==
  /\ Do!Client!IsWrite(s.req) =>
       ~dry /\ ~config.readOnly /\ (s.req.name \in OnASpace => witnessed)
  /\ CannotBeTakenBack(s) =>
       (confirm /\ DestructiveRegisters(config)) \/ (s.effect = "outsider" /\ vetted)

SentRight == \A s \in sent : Right(s)

EndsWell ==
  /\ dry => outcome # "writeForbidden"
  /\ BadArgumentsChangeNothing
  /\ LoginCoversTools
  /\ AdminToolsHaveForms
  /\ ReadsOutliveLookups

IInv == Setup /\ OnItsWay /\ SentRight /\ EndsWell

(* A step taken leaves the rest of the path.                               *)
LEMMA GoesOn ==
  ASSUME NEW d, Taken(d), rest # <<>>, rest' = Tail(rest),
         UNCHANGED <<tool, dry>>, witnessed => witnessed', vetted => vetted',
         Head(rest).do = "witness" => witnessed',
         Head(rest).do = "vet" => vetted',
         Head(rest).do = "named" => ~Admin,
         Head(rest).do = "preview" => ~dry,
         \A s \in sent' : s \in sent \/ (s = Head(rest) /\ s.do \in Calls)
  PROVE  \E e : Taken(e)'
<1>1. IsPath(d) /\ IsPath(rest)
  BY DEF Taken
<1>2. PICK e : Further(d, Head(rest), e) /\ IsPath(Tail(rest)) /\ e \o Tail(rest) = d \o rest
  BY <1>1, StepTaken
<1>3. e \o rest' \in Named[tool'].operation
  BY <1>2 DEF Taken
<1>4. ASSUME NEW i \in 1..Len(e)
      PROVE  /\ e[i].do = "witness" => witnessed'
             /\ e[i].do = "vet" => vetted'
             /\ e[i].do = "named" => ~Admin'
             /\ e[i].do = "preview" => ~dry'
  BY <1>2, <1>4 DEF Taken, Admin, Further
<1>5. ASSUME NEW s \in sent'
      PROVE  s.do \in Calls /\ \E i \in 1..Len(e) : e[i] = s
  BY <1>2, <1>5 DEF Taken, Further
<1>6. QED
  BY <1>2, <1>3, <1>4, <1>5 DEF Taken, Further

(* What the step a call is at may be, of a tool that is registered.        *)
LEMMA AtStep ==
  ASSUME Setup, OnItsWay, outcome = "running", rest # <<>>
  PROVE  /\ Sound(Named[tool])
         /\ \E d : Taken(d) /\ Ahead(Named[tool].operation, d, Head(rest))
<1>1. PICK d : Taken(d)
  BY DEF OnItsWay
<1>2. Sound(Named[tool])
  BY NamesAreTools, EveryToolIsSound DEF Setup
<1>3. IsPath(d) /\ IsPath(rest) /\ d \o rest \in Named[tool].operation
  BY <1>1 DEF Taken
<1>4. QED
  BY <1>1, <1>2, <1>3, NextStep

(* Going on to the next step, and ending without a claim, keep it all.     *)
LEMMA MovesOn ==
  ASSUME IInv, outcome = "running", rest # <<>>, GoOn, Unsent,
         witnessed => witnessed', vetted => vetted',
         Head(rest).do = "witness" => witnessed',
         Head(rest).do = "vet" => vetted',
         Head(rest).do = "named" => ~Admin,
         Head(rest).do = "preview" => ~dry
  PROVE  IInv'
<1>1. Setup'
  BY DEF IInv, Setup, Unsent, settings, GoOn
<1>2. OnItsWay'
  <2>1. PICK d : Taken(d)
    BY DEF IInv, OnItsWay
  <2>2. \E e : Taken(e)'
    BY <2>1, GoesOn DEF GoOn, Unsent
  <2>3. QED
    BY <2>2 DEF OnItsWay
<1>3. SentRight'
  BY DEF IInv, SentRight, Right, Unsent, settings
<1>4. EndsWell'
  BY DEF IInv, EndsWell, BadArgumentsChangeNothing, LoginCoversTools, AdminToolsHaveForms,
         ReadsOutliveLookups, Writes, GoOn, Unsent, settings
<1>5. QED
  BY <1>1, <1>2, <1>3, <1>4 DEF IInv

LEMMA EndsHere ==
  ASSUME IInv, outcome = "running", NEW o, End(o), Unsent, UNCHANGED <<witnessed, vetted>>,
         o \in {"malformed", "invalid", "refused", "stale", "previewed", "done"},
         o = "malformed" => sent = {} \/ tool = "send_message",
         o \in {"malformed", "invalid"} => Writes = {}
  PROVE  IInv'
<1>1. Setup'
  BY DEF IInv, Setup, Unsent, settings, End
<1>2. OnItsWay'
  BY DEF OnItsWay, End
<1>3. SentRight'
  BY DEF IInv, SentRight, Right, Unsent, settings
<1>4. EndsWell'
  BY DEF IInv, EndsWell, BadArgumentsChangeNothing, LoginCoversTools, AdminToolsHaveForms,
         ReadsOutliveLookups, Writes, End, Unsent, settings
<1>5. QED
  BY <1>1, <1>2, <1>3, <1>4 DEF IInv

LEMMA CheckKeeps ==
  ASSUME IInv, Check
  PROVE  IInv'
<1>1. outcome = "running" /\ rest # <<>> /\ Head(rest).do \in {"name", "argument", "check"}
  BY DEF Check, At
<1>2. Sound(Named[tool]) /\ Setup
  BY <1>1, AtStep DEF IInv
<1>3. PICK d : Taken(d) /\ Ahead(Named[tool].operation, d, Head(rest))
  BY <1>1, AtStep DEF IInv
<1>4. CASE GoOn
  BY <1>1, <1>4, MovesOn DEF Check
<1>5. CASE Head(rest).do = "name" /\ End("malformed")
  <2>1. Is(Head(rest), "name")
    BY <1>5, TraitsOf
  <2>2. tool # "send_message" => sent = {}
    <3>1. Named[tool].name = tool
      BY <1>1, <1>2, NamesAreTools DEF Setup
    <3>2. QED
      BY <1>2, <1>3, <2>1, <3>1, TraitsOf DEF Sound, Taken, Ahead
  <2>3. Writes = {}
    BY <1>2, <1>3, <2>1, TraitsOf DEF Sound, Taken, Ahead, Writes
  <2>4. QED
    BY <1>1, <1>5, <2>2, <2>3, EndsHere DEF Check
<1>6. CASE Head(rest).do = "argument" /\ End("invalid")
  <2>1. Is(Head(rest), "argument")
    BY <1>6, TraitsOf
  <2>2. Writes = {}
    BY <1>2, <1>3, <2>1, TraitsOf DEF Sound, Taken, Ahead, Writes
  <2>3. QED
    BY <1>1, <1>6, <2>2, EndsHere DEF Check
<1>7. CASE Head(rest).do = "check" /\ End("refused")
  BY <1>1, <1>7, EndsHere DEF Check
<1>8. QED
  BY <1>4, <1>5, <1>6, <1>7 DEF Check

LEMMA OwnStepsKeep ==
  ASSUME IInv, Compare \/ Vet \/ refuseUnnamedUnderAdmin \/ PreviewEnds \/ Return
  PROVE  IInv'
<1>1. CASE Compare
  BY <1>1, MovesOn, EndsHere DEF Compare, At
<1>2. CASE Vet
  BY <1>2, MovesOn DEF Vet, At
<1>3. CASE refuseUnnamedUnderAdmin
  BY <1>3, MovesOn, EndsHere DEF refuseUnnamedUnderAdmin, At
<1>4. CASE PreviewEnds
  BY <1>4, MovesOn, EndsHere DEF PreviewEnds, At
<1>5. CASE Return
  BY <1>5, EndsHere DEF Return
<1>6. QED
  BY <1>1, <1>2, <1>3, <1>4, <1>5

(* A request the call comes to is right to send, is not one the client     *)
(* refuses, and needs no scope login did not ask for.                      *)
LEMMA SendKeeps ==
  ASSUME IInv, Send
  PROVE  IInv'
<1> DEFINE h == Head(rest)
           T == Named[tool]
<1>1. outcome = "running" /\ rest # <<>> /\ h.do \in Calls
  BY DEF Send, At, Calls
<1>2. Sound(T) /\ Setup
  BY <1>1, AtStep DEF IInv
<1>3. PICK d : Taken(d) /\ Ahead(T.operation, d, h)
  BY <1>1, AtStep DEF IInv
<1>4. registers(T, config) /\ (dry => T.dryRun) /\ T.name = tool
  BY <1>1, <1>2, NamesAreTools DEF Setup
<1>5. ~Is(h, "foreign")
  BY <1>2, <1>3 DEF Sound, Ahead
<1>6. ~writeForbidden
  <2>1. SUFFICES ASSUME dry, Do!Client!IsWrite(h.req)
                 PROVE  FALSE
    BY DEF writeForbidden, request
  <2>2. Is(h, "write")
    BY <1>1, <2>1, TraitsOf
  <2>3. PICK j \in 1..Len(d) : Is(d[j], "preview")
    BY <1>2, <1>3, <1>4, <2>1, <2>2 DEF Sound, Ahead
  <2>4. QED
    BY <1>3, <2>1, <2>3, TraitsOf DEF Taken
<1>7. ~noAdminForm
  <2>1. SUFFICES ASSUME Admin, Do!Client!IsChat(h.req), h.req.adminScope = Do!Client!None
                 PROVE  FALSE
    BY DEF noAdminForm, request
  <2>2. Is(h, "formless")
    BY <1>1, <2>1 DEF Is, Asks
  <2>3. PICK j \in 1..Len(d) : Is(d[j], "named")
    BY <1>2, <1>3, <2>1, <2>2 DEF Sound, Ahead, Admin, ForAdministrators
  <2>4. QED
    BY <1>3, <2>1, <2>3, TraitsOf DEF Taken
<1>8. Right(h)
  <2>1. CASE IsRead(T)
    <3>1. ~Do!Client!IsWrite(h.req)
      BY <1>1, <1>2, <1>3, <2>1, TraitsOf DEF Sound, Ahead
    <3>2. QED
      BY <1>1, <1>5, <3>1, LastingIsTold DEF Right
  <2>2. CASE ~IsRead(T)
    <3>1. ~config.readOnly
      BY <1>4, <2>2 DEF registers, IsRead
    <3>2. Do!Client!IsWrite(h.req) => ~dry
      BY <1>6 DEF writeForbidden, request
    <3>3. ASSUME Do!Client!IsWrite(h.req), h.req.name \in OnASpace
          PROVE  witnessed
      <4>1. Is(h, "onASpace")
        BY <1>1, <3>3 DEF Is, Asks
      <4>2. PICK j \in 1..Len(d) : Is(d[j], "witness")
        BY <1>2, <1>3, <2>2, <4>1 DEF Sound, Ahead
      <4>3. QED
        BY <1>3, <4>2, TraitsOf DEF Taken
    <3>4. ASSUME CannotBeTakenBack(h), T.kind = "Destructive"
          PROVE  confirm /\ DestructiveRegisters(config)
      BY <1>1, <1>2, <1>4, <1>5, <3>2, <3>4, LastingIsTold
      DEF Setup, TakesConfirm, registers
    <3>5. ASSUME CannotBeTakenBack(h), T.kind # "Destructive"
          PROVE  h.effect = "outsider" /\ vetted
      <4>1. Mild(T.operation)
        BY <1>2, <2>2, <3>5 DEF Sound
      <4>2. ~Is(h, "lasting")
        BY <1>3, <4>1 DEF Mild, Ahead
      <4>3. h.effect = "outsider" /\ Is(h, "outsider")
        BY <1>1, <1>5, <3>5, <4>2, LastingIsTold
      <4>4. PICK j \in 1..Len(d) : Is(d[j], "vet")
        BY <1>3, <4>1, <4>3 DEF Mild, Ahead
      <4>5. QED
        BY <1>3, <4>3, <4>4, TraitsOf DEF Taken
    <3>6. QED
      BY <3>1, <3>2, <3>3, <3>4, <3>5 DEF Right
  <2>3. QED
    BY <2>1, <2>2
<1>9. sent' = sent \cup {h} /\ UNCHANGED <<settings, tool, dry, confirm, witnessed, vetted>>
  BY <1>6, <1>7 DEF Send
<1>10. SentRight'
  BY <1>8, <1>9 DEF IInv, SentRight, Right, settings
<1>11. outcome' # "idle" /\ (outcome' = "running" => GoOn)
  BY <1>1, <1>6, <1>7 DEF Send, GoOn, End
<1>12. Setup'
  BY <1>1, <1>9, <1>11 DEF IInv, Setup, settings
<1>13. OnItsWay'
  <2>1. SUFFICES ASSUME GoOn
                 PROVE  \E e : Taken(e)'
    BY <1>11 DEF OnItsWay
  <2>2. h.do \notin {"witness", "vet", "named", "preview"}
    BY <1>1 DEF Calls
  <2>3. QED
    BY <1>1, <1>3, <1>9, <2>1, <2>2, GoesOn DEF GoOn
<1>14. outcome' = "scope" => ~Allowed /\ h.do \in {"ask", "absent"}
  BY <1>1, <1>6, <1>7 DEF Send, GoOn, End, Tolerated, Calls
<1>15. ASSUME asked = config, h.do \in {"ask", "absent"}, declined = {} \/ ~Is(h, "lookup")
       PROVE  Allowed
  <2>1. IsRead(T) /\ ~T.writeScope => ~Is(h, "writeScope")
    BY <1>2, <1>3 DEF Sound, Ahead
  <2>2. T.kind # "Destructive" => ~Is(h, "deleteScope")
    BY <1>2, <1>3 DEF Sound, Ahead
  <2>3. ForAdministrators(T) /\ Do!Client!IsChat(h.req) => h.req.adminScope # Do!Client!None
    BY <1>7 DEF noAdminForm, Admin, request
  <2>4. \A scope \in Do!Client!ScopesOf(h.req, ForAdministrators(T)) :
           /\ scope \in requestedScopes(config)
           /\ ~Is(h, "lookup") => scope \notin Lookups
    BY <1>4, <1>5, <1>15, <2>1, <2>2, <2>3, LoginCovers
  <2>5. granted = requestedScopes(config) \ declined /\ declined \in {{}, Lookups}
    BY <1>2, <1>15 DEF Setup, grantedScopes
  <2>6. QED
    BY <1>15, <2>4, <2>5 DEF Admin, Allowed, request, Do!Client!Satisfied
<1>16. EndsWell'
  <2>1. LoginCoversTools'
    BY <1>9, <1>14, <1>15 DEF LoginCoversTools, settings
  <2>2. ReadsOutliveLookups'
    <3>1. SUFFICES ASSUME asked = config, outcome' = "scope", T.kind = "Read",
                          tool \notin {"search_people", "find_group"}
                   PROVE  FALSE
      BY <1>9 DEF ReadsOutliveLookups, settings
    <3>2. ~Is(h, "lookup")
      BY <1>2, <1>3, <1>4, <3>1 DEF Sound, Ahead
    <3>3. QED
      BY <1>14, <1>15, <3>1, <3>2
  <2>3. outcome' \notin {"writeForbidden", "noAdminForm", "malformed", "invalid"}
    BY <1>1, <1>6, <1>7 DEF Send, GoOn, End
  <2>4. QED
    BY <2>1, <2>2, <2>3 DEF EndsWell, BadArgumentsChangeNothing, AdminToolsHaveForms
<1>17. QED
  BY <1>10, <1>12, <1>13, <1>16 DEF IInv

(* A call begins at the beginning of a path.                               *)
LEMMA CallKeeps ==
  ASSUME IInv, Call
  PROVE  IInv'
<1>1. PICK n \in DOMAIN Named, g, c \in BOOLEAN :
        /\ registers(Named[n], config) /\ (g => Named[n].dryRun)
        /\ tool' = n /\ dry' = g /\ confirm' = c
        /\ IF TakesConfirm(Named[n]) /\ ~g /\ ~c
           THEN outcome' = "invalid" /\ UNCHANGED rest
           ELSE outcome' = "running" /\ rest' \in Named[n].operation
  BY DEF Call
<1>2. outcome = "idle" /\ sent = {} /\ UNCHANGED <<settings, witnessed, vetted, sent>>
  BY DEF Call, IInv, Setup
<1>3. Setup'
  BY <1>1, <1>2 DEF IInv, Setup, settings
<1>4. OnItsWay'
  <2>1. SUFFICES ASSUME outcome' = "running"
                 PROVE  Taken(<<>>)'
    BY DEF OnItsWay
  <2>2. rest' \in Named[n].operation
    BY <1>1, <2>1
  <2>3. Free(Named[n].operation, "foreign")
    BY <1>1, NamesAreTools, EveryToolIsSound DEF Sound
  <2>4. IsPath(rest')
    BY <2>2, <2>3 DEF Free, Paths
  <2>5. IsPath(<<>>) /\ Len(<<>>) = 0
    BY <<>> \in Seq({}) DEF IsPath
  <2>6. <<>> \o rest' = rest'
    BY <2>4 DEF IsPath
  <2>7. QED
    BY <1>1, <1>2, <2>2, <2>4, <2>5, <2>6 DEF Taken
<1>5. SentRight' /\ EndsWell'
  BY <1>1, <1>2 DEF SentRight, EndsWell, BadArgumentsChangeNothing, LoginCoversTools,
                    AdminToolsHaveForms, ReadsOutliveLookups, Writes, settings
<1>6. QED
  BY <1>3, <1>4, <1>5 DEF IInv

LEMMA Invariance == Spec => []IInv
<1>1. Init => IInv
  BY DEF Init, IInv, Setup, OnItsWay, SentRight, EndsWell, BadArgumentsChangeNothing,
         LoginCoversTools, AdminToolsHaveForms, ReadsOutliveLookups, Writes
<1>2. IInv /\ [Next]_vars => IInv'
  <2>1. SUFFICES ASSUME IInv, [Next]_vars
                 PROVE  IInv'
    OBVIOUS
  <2>2. CASE Call
    BY <2>1, <2>2, CallKeeps
  <2>3. CASE Check
    BY <2>1, <2>3, CheckKeeps
  <2>4. CASE Compare \/ Vet \/ refuseUnnamedUnderAdmin \/ PreviewEnds \/ Return
    BY <2>1, <2>4, OwnStepsKeep
  <2>5. CASE Send
    BY <2>1, <2>5, SendKeeps
  <2>6. CASE UNCHANGED vars
    BY <2>1, <2>6 DEF vars, IInv, Setup, OnItsWay, Taken, Admin, SentRight, Right, EndsWell,
                      BadArgumentsChangeNothing, LoginCoversTools, AdminToolsHaveForms,
                      ReadsOutliveLookups, Writes
  <2>7. QED
    BY <2>1, <2>2, <2>3, <2>4, <2>5, <2>6 DEF Next, Done
<1>3. QED
  BY <1>1, <1>2, PTL DEF Spec

-----------------------------------------------------------------------------
(* A dry run sends no write, and is answered and not refused: on every     *)
(* path of every tool that takes dry_run the preview comes before the      *)
(* first write (service.go Preview, client.go do).                         *)
THEOREM DryRunsLook == Spec => []DryRunsOnlyLook
<1>1. IInv => DryRunsOnlyLook
  BY DEF IInv, SentRight, Right, EndsWell, DryRunsOnlyLook, Writes
<1>2. QED
  BY <1>1, Invariance, PTL

(* A malformed name costs no request, a message to quote apart, and no     *)
(* argument is refused after a write (names.go, service.go).               *)
THEOREM RefusedChangesNothing == Spec => []BadArgumentsChangeNothing
<1>1. IInv => BadArgumentsChangeNothing
  BY DEF IInv, EndsWell
<1>2. QED
  BY <1>1, Invariance, PTL

(* A read-only server writes nothing, with whatever token: what it         *)
(* registers has no write on any of its paths (register.go registers).     *)
THEOREM ReadOnlyOnlyReads == Spec => []ReadOnlyChangesNothing
<1>1. IInv => ReadOnlyChangesNothing
  BY DEF IInv, SentRight, Right, ReadOnlyChangesNothing, Writes
<1>2. QED
  BY <1>1, Invariance, PTL

(* Whatever the toolsets, login under the settings the server runs with    *)
(* asks for the scope of every request of every tool it registers          *)
(* (scopes.go Requested, register.go registers).                           *)
THEOREM LoginIsEnough == Spec => []LoginCoversTools
<1>1. IInv => LoginCoversTools
  BY DEF IInv, EndsWell
<1>2. QED
  BY <1>1, Invariance, PTL

(* An administrator's tool reaches only requests with an administrator's   *)
(* form: those without one come after the step that refuses it (client.go  *)
(* do, spacecheck.go refuseUnnamedUnderAdmin).                             *)
THEOREM EveryAdminToolWorks == Spec => []AdminToolsHaveForms
<1>1. IInv => AdminToolsHaveForms
  BY DEF IInv, EndsWell
<1>2. QED
  BY <1>1, Invariance, PTL

(* Without the scopes of the lookups a tool that reads still reads: what   *)
(* asks for them is only tried (service.go resolvePeople, groups.go        *)
(* resolveGroups).                                                         *)
THEOREM NamesAreACourtesy == Spec => []ReadsOutliveLookups
<1>1. IInv => ReadsOutliveLookups
  BY DEF IInv, EndsWell
<1>2. QED
  BY <1>1, Invariance, PTL

(* On every path of every tool a write to a space comes after the          *)
(* comparison of the space with what the call names (server.go             *)
(* writeInstructions, spacecheck.go checkSpace).                           *)
THEOREM NoUnseenSpaceIsWritten == Spec => []WritesAreWitnessed
<1>1. IInv => WritesAreWitnessed
  BY DEF IInv, SentRight, Right, WritesAreWitnessed, Writes
<1>2. QED
  BY <1>1, Invariance, PTL

(* What cannot be taken back was confirmed, on a server whose destructive  *)
(* tools are on; a member added without that was vetted before             *)
(* (register.go wrap, members.go addMember).                               *)
THEOREM NothingLastsUnconfirmed == Spec => []LastingIsConfirmed
<1>1. IInv => LastingIsConfirmed
  BY DEF IInv, SentRight, Right, LastingIsConfirmed
<1>2. QED
  BY <1>1, Invariance, PTL

=============================================================================
