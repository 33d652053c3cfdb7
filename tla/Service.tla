------------------------------ MODULE Service ------------------------------
(***************************************************************************)
(* The service methods that read, decide and then act, each on the data it *)
(* acts on, while others change it: one behaviour is one call of one of    *)
(* them.  They share no state of the server, so that a run of any of them  *)
(* is a run of the one chosen first.                                       *)
(***************************************************************************)
EXTENDS Naturals, FiniteSets

CONSTANTS
  Texts, Blank,             \* what a field of a space may hold, and the empty text
  MaxSends, MaxEdits,       \* bounds: attempts of one patch, and edits of the space
  Members,                  \* of a conversation, 1..n; the caller is 0
  MemberPageSize, MaxWitnessPages,
  MaxMoves,                 \* bound: members who come and go
  Addresses, Primary,       \* what an invitation may name; the caller's own
  Owner, Caller, GroupAccount, \* whose each address is
  SidebarSpaces, Sections,
  Reactors, Reactor,        \* who reacts, 1..n, the caller among them
  ReactionPageSize,
  Messages,                 \* of a space, 1..n
  Matching, Nameless,       \* those a pattern matches, those with no name
  MessagePageSize, MaxScanPages, ScanLimit,
  Findable, Learnable,      \* whom a search finds, whom it may learn
  SearchLimit,
  PageGroups,               \* of a page of members, 1..n
  MaxExpandedGroups,
  MaxCommands, MaxOutages,  \* bounds: logins and logouts, changes of the keyring
  Requests,                 \* to the callback of a login
  Downloads, MaxNameCollisions,
  SampledSpaces, MaxAdded,  \* bounds: what doctor samples, new fields it is sent
  MaxChanges, MaxMachineChanges   \* bounds: what others do during a call, a command

ASSUME BoundsAssumption ==
  {MaxSends, MaxEdits, MaxMoves, MaxCommands, MaxOutages, SampledSpaces, MaxChanges,
   MaxMachineChanges} \subseteq Nat

ASSUME PagesAssumption ==
  {MemberPageSize, MaxWitnessPages, ReactionPageSize, MessagePageSize, MaxScanPages, ScanLimit,
   MaxExpandedGroups} \subseteq Nat \ {0}

(* Whatever Google lists is in an order, and there is an end to it.        *)
ASSUME ListedAssumption ==
  /\ \A listed \in {Members, Reactors, Messages, PageGroups} :
       listed \subseteq Nat \ {0} /\ IsFiniteSet(listed)
  /\ Reactor \in Reactors
  /\ Matching \cup Nameless \subseteq Messages

(* An address is one account's or a group's, the caller's own is not.      *)
ASSUME OwnerAssumption == Primary \in Addresses /\ Owner[Primary] = Caller /\ Caller # GroupAccount

(* What is no answer of a source is nobody's name.                         *)
ASSUME FindableAssumption ==
  /\ IsFiniteSet(Findable) /\ {"pending", "error"} \cap Findable = {}
  /\ SearchLimit \in Nat \ {0}

ASSUME DownloadsAssumption ==
  Downloads \cap {"person", "nobody"} = {} /\ MaxNameCollisions \in Nat \ {0}

VARIABLES which, call, world, past

vars == <<which, call, world, past>>

Update   == INSTANCE SpaceUpdate
Witness  == INSTANCE ConversationWitness WITH
              People <- Members, PageSize <- MemberPageSize, MaxPages <- MaxWitnessPages
Vetting  == INSTANCE MemberVetting WITH Group <- GroupAccount, Me <- Caller
Move     == INSTANCE SectionMove WITH Spaces <- SidebarSpaces, MaxMoves <- MaxChanges
React    == INSTANCE Reactions WITH
              People <- Reactors, Me <- Reactor, PageSize <- ReactionPageSize
Scan     == INSTANCE SearchScan WITH
              PageSize <- MessagePageSize, MaxPages <- MaxScanPages, Limit <- ScanLimit
Search   == INSTANCE PeopleSearch WITH People <- Findable, Limit <- SearchLimit
Groups   == INSTANCE GroupExpansion WITH Groups <- PageGroups
Profile  == INSTANCE Accounts
SignIn   == INSTANCE LoginFlow
Download == INSTANCE LocalFiles
Errors   == INSTANCE ErrorClasses
Commands == INSTANCE CommandLine WITH Spaces <- SampledSpaces, MaxChanges <- MaxMachineChanges

Init ==
  \/ which = "update"   /\ Update!Init
  \/ which = "witness"  /\ Witness!Init
  \/ which = "vetting"  /\ Vetting!Init
  \/ which = "move"     /\ Move!Init
  \/ which = "react"    /\ React!Init
  \/ which = "scan"     /\ Scan!Init
  \/ which = "search"   /\ Search!Init
  \/ which = "groups"   /\ Groups!Init
  \/ which = "profile"  /\ Profile!Init
  \/ which = "signIn"   /\ SignIn!Init
  \/ which = "download" /\ Download!Init
  \/ which = "errors"   /\ Errors!Init
  \/ which = "commands" /\ Commands!Init

Next ==
  /\ \/ which = "update"   /\ Update!Next
     \/ which = "witness"  /\ Witness!Next
     \/ which = "vetting"  /\ Vetting!Next
     \/ which = "move"     /\ Move!Next
     \/ which = "react"    /\ React!Next
     \/ which = "scan"     /\ Scan!Next
     \/ which = "search"   /\ Search!Next
     \/ which = "groups"   /\ Groups!Next
     \/ which = "profile"  /\ Profile!Next
     \/ which = "signIn"   /\ SignIn!Next
     \/ which = "download" /\ Download!Next
     \/ which = "errors"   /\ Errors!Next
     \/ which = "commands" /\ Commands!Next
  /\ UNCHANGED which

Spec == Init /\ [][Next]_vars

-----------------------------------------------------------------------------
(* What each method's call, world and past may be.                         *)
TypeOK ==
  /\ which = "update"   => Update!TypeOK
  /\ which = "witness"  => Witness!TypeOK
  /\ which = "vetting"  => Vetting!TypeOK
  /\ which = "move"     => Move!TypeOK
  /\ which = "react"    => React!TypeOK
  /\ which = "scan"     => Scan!TypeOK
  /\ which = "search"   => Search!TypeOK
  /\ which = "groups"   => Groups!TypeOK
  /\ which = "profile"  => Profile!TypeOK
  /\ which = "signIn"   => SignIn!TypeOK
  /\ which = "download" => Download!TypeOK
  /\ which = "errors"   => Errors!TypeOK
  /\ which = "commands" => Commands!TypeOK

(* An update clears and restores nothing it does not name (spaces.go).     *)
UnnamedIsOthers == which = "update" => Update!UnnamedIsOthers

(* A write goes to a conversation of exactly those the call gave, as far   *)
(* as its reads can tell (spacecheck.go).                                  *)
WriteNamesTheMembers == which = "witness" => Witness!WriteNamesTheMembers

(* Whoever is added had been vouched for, or was confirmed (members.go).   *)
AddsWhomItVetted == which = "vetting" => Vetting!AddsWhomItVetted

(* A move files the space it names, or none (sections.go).                 *)
FilesTheNamedSpace == which = "move" => Move!FilesTheNamedSpace

(* A reaction reported or removed is the one of the person (reactions.go). *)
ReportsTheirReaction == which = "react" => React!ReportsTheirReaction

(* A scan that says it read everything did (search.go).                    *)
QuietScanIsComplete == which = "scan" => Scan!QuietScanIsComplete

(* The failure of one source of people costs only its own (people.go).     *)
EverySourceCounts == which = "search" => Search!EverySourceCounts

(* Every group's row has its members or says why not (members.go).         *)
EveryGroupIsAccountedFor == which = "groups" => Groups!EveryGroupIsAccountedFor

(* Logging in never loses a token, logging out leaves none (account.go).   *)
TokenIsKept == which = "profile" => Profile!TokenIsKept

(* The first outcome of the callback is the login's (auth.go).             *)
FirstOutcomeIsTheLogin == which = "signIn" => SignIn!FirstOutcomeIsTheLogin

(* Downloads keep every file but their own partial ones (localfiles.go).   *)
FilesAreKept == which = "download" => Download!FilesAreKept

(* A failure is told as what it is, however Google words it (errors.go).   *)
AdviceFitsTheCause == which = "errors" => Errors!AdviceFitsTheCause

(* What status and doctor say is what a server would meet (status.go,      *)
(* doctor.go).                                                             *)
CommandsTellTheServer == which = "commands" => Commands!CommandsTellTheServer
=============================================================================
