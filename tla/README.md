# A TLA+ model of google-chat-mcp

google-chat-mcp is an MCP server that lets an agent read and write Google Chat as the person signed in. An agent calls a tool; a handler in `internal/tools` calls a method of `internal/service`; the service makes one or more calls through `internal/gchat`, which talks to Google. What can go wrong lies between those steps: a request that was lost, or landed and was reported lost; a retry; a read that is stale when the write behind it goes out; two calls on one thing; a timer that fires late; two processes with one file. This directory models those parts, checks them with TLC and proves with TLAPS what matters most of the client, of sending and deleting, of transfers, of the directory cache, of the methods that read a space before they change it, of login, of what a profile keeps and of downloads.

## The system

| part | state | operations | what must hold |
|---|---|---|---|
| `gchat/client.go`, `errors.go`: calls to Google | four rate limiters; per call its attempt, answer and context | `send`, `do`, `attempt`, `shouldRetry`, `backoff`, the guards for dry runs and administrators | a write that must not be repeated is not; a failure says whether the write may be there; lookups delay nobody |
| `gchat/media.go`: transfers | a deadline, two stall guards, the transfer's context, the `answered` flag | `transfer`, `stallGuard.Read`, `doUpload`, `DownloadMedia` | slow is not cut, stalled is |
| `gchat/*.go`: one method per API call | none | build a request and decode its answer | the request is what its rules need: keyed, read-only, with or without an administrator's form |
| `service/messages.go`: messages | none | `SendMessage`, `UpdateMessage`, the deletes, reads | one copy of what was sent once; the failure says how to repeat it |
| `service/service.go`: shared helpers | the cached caller | `deleteIdempotent`, `confirmGone`, `caller` | "deleted" and "already gone" are true |
| `service/spaces.go`, `spacecheck.go`: spaces and the witness of a space | none | `UpdateSpace`, `CreateSpace`, `FindDirectMessage`, `checkSpace` | a write goes to the space the agent meant; a patch clears nothing it was not asked to |
| `service/members.go`, `groups.go` | none | add, vet, promote, remove, list | nobody from outside is added unasked; an administrator does not add itself |
| `service/sections.go`, `reactions.go`, `spacestate.go`, `presence.go` | none | locate then move, add then find, pin, mark, delete | what is reported is what Google holds |
| `service/search.go`, `events.go`, `people.go` | none | paging, two concurrent sources | a partial result says it is partial |
| `service/attachments.go`, `localfiles.go` | the download directory | `Open`, `Create`, write, remove | no file is overwritten, no partial file is kept |
| `directory/cache.go`, `resolver.go` | memory, a file shared by processes | `Get`, `Put`, `Resolve`, `Learn` | a miss is Google's answer; an answer is kept for its time |
| `auth`, `credentials`, `userconfig` | keyring, token file, profile | `Login`, `Save`, `Resolve`, `Delete` | a token is neither lost nor half written, and logout leaves none |
| `config`, `scopes`, `tools/register.go`, `server` | the configuration | which tools exist, under which mode; `wrap` | a dry run writes nothing, a destructive call is confirmed, a tool asks for the scopes its calls need |
| `tools/resources.go`, `render.go` | none | three resources; text | a resource's failure is what went wrong |
| `cmd/google-chat-mcp`, `doctor`, `gchat/drift.go` | the profile, the token stores, the paths of unknown fields | `serve`, `status`, `doctor`, `login`, `logout` | what the commands say is what a server would meet |
| `redact`, `leakcheck`, `version` | none of consequence | text filters | not modelled |
| `scripts/gates`, `internal/evals`, `internal/livecheck`, `packaging` | outside the running program | | not modelled |

They interact by calls: tools to service, service to client and to directory, client to Google, directory to Google through the client. The state that calls share is the limiters, the caches and the file; everything else is at Google. Tool calls run in parallel, one goroutine each, and share no lock but those of the caches. Whatever a call waits for can end with its context.

The behaviour that is hard: the three outcomes of an attempt (done, not done, unknown) combined with retries and with answers that come after the client gave up; deletes that race; timers whose callbacks run after they were stopped; a cache that is read before a lookup and written after it, by processes that know nothing of each other. `PROJECT.json` lists the hazards by source line with the properties that cover each, and says what they leave out.

## Modules

| module | models | uses |
|---|---|---|
| `RequestPolicy` | the pure rules of the client: write or read, limiter, retry, mark | |
| `ChatCalls` | concurrent calls through `send`, their attempts, Google | `RequestPolicy` |
| `WriteOutcome` | abstract: a write takes effect at most once and its report is true | |
| `Scopes` | every OAuth scope, what implies what, what login asks for | |
| `ClientMethods` | the request of every method of the client: API, method, marks, administrator's form, scopes | `Scopes`, `RequestPolicy` |
| `Operations` | every service method as the sequences of steps a call of it may take | `ClientMethods` |
| `Tools` | every tool and resource: kind, toolset, `dry_run`, method | `Operations` |
| `ToolCalls` | one call of one tool, under the server's settings and the token's grant | `Tools` |
| `SendMessage` | `send_message` from the agent to the space | `RequestPolicy` |
| `DeleteTarget` | the seven uses of `deleteIdempotent` | `RequestPolicy` |
| `Transfer` | one streamed transfer and its timers | |
| `DirectoryCache` | the email cache in several processes, the lookups that fill it | |
| `SpaceUpdate` | `UpdateSpace`'s read and its retried patch, beside an editor | |
| `ConversationWitness` | `checkMembers`: pages of members who come and go | |
| `MemberVetting` | whom `add_member`, `add_external_member` and `admin_add_member` may add | |
| `SectionMove` | `MoveSpaceToSection`: look up, compare, move | |
| `Reactions` | adding a reaction that may be there, removing one by its person | |
| `SearchScan` | the pages of `search_messages` and their flags | |
| `PeopleSearch` | `SearchPeople`'s two sources and their merge | |
| `GroupExpansion` | `list_members` with the members of groups | |
| `Accounts` | what `login` and `logout` leave in the keyring, the token file and the profile | |
| `LoginFlow` | the loopback callback and its one outcome | |
| `LocalFiles` | downloads into the one directory | |
| `ErrorClasses` | what becomes of a failure, from Google's wording to the agent's | |
| `CommandLine` | `serve`, `status`, `doctor` and the drift of answers | |
| `Service` | the thirteen modules above from `SpaceUpdate` on, side by side | each of them |
| `MCChatCalls`, `MCDirectoryCache`, `MCToolCalls`, `MCService` | the instances that are checked | |
| `ChatCallsProofs`, `SendMessageProofs`, `DeleteTargetProofs`, `TransferProofs`, `DirectoryCacheProofs`, `ToolCallsProofs` | the theorems of one module | that module |
| `ServiceProofs`, `LocalProofs` | the theorems of `Service`: of methods that act on what others change and those that read page by page, and the types of all; of what is kept on the machine (`ServiceProofs` extends it) | `Service` |

A definition whose name ends in `_Mutant` is a plausible bug in the definition after it. It is used only to see that each property notices one.

### RequestPolicy and ChatCalls

A request is the record of what `send` looks at: method, API, `readOnly`, `idempotent`, `repeatHarmless`, whether it has an administrator's form, and whether it is an upload (`retries = false`). `IsWrite`, `SafeToRepeat`, `LimiterOf`, `ShouldRetry` and `MayHaveApplied` are the functions of the same names in `client.go` and `errors.go`; `MayHaveApplied` joins `uncertain` and `markUnsafeWrite`.

`ChatCalls` runs calls through `pc`: `idle`, `token`, `limiter`, `attempt`, `backoff`, `done`. `Begin` is the two guards at the top of `send`; `Token` the one resolution of the token; `Attempt` passes the limiter and puts the attempt on `wire`; `Google` takes it from there whenever it likes, applies it or not, and answers only an attempt that is still awaited. `Break`, `TakeError`, `TakeSuccess`, `TakeOversize` and `TakeUndecoded` are the ways `attempt` and `do` end; `AfterFailure` is the switch at the end of `send`'s loop. `ContextEnds` can come at any time and takes effect where the code waits: at the limiter and in the backoff (a canceled attempt is a `Break`).

Google is not in the repository. What the model takes of it: an answer from 300 to 499 means that the write was not applied; after an answer of 500 and up it may or may not have been; a create that carries a key is applied once and answers 409 afterwards. `unsent` stands for a refused origin or a failed dial, which put nothing on the wire.

`HonestReports` is a refinement: `WriteOutcome` with `effects` mapped to `applied` and `report` to the result the caller got, for the writes the client answers for (creates with no key that are not uploads). `WriteOutcome` lets a write take effect once, before it was reported or after it was reported as unconfirmed, and lets "ok" be told only of a write that took effect and "failed" only of one that did not and never will. The errors `oversize` and `undecoded` are `unread`: Google answered and the client could not use the answer. `errors.go` does not mark those, so the promise for them is only that the matter is settled.

### SendMessage

The agent wants each text in the space once. A call gets an id (`client_message_id`, or one minted per call), is checked, posts with retries, reads back on 409, and fails through `sendFailure`, which adds the id for a server failure or an error it does not classify. The agent repeats a text only with an id that a failure named, or with a key it chose itself, possibly concurrently. An attempt keeps its own id on the wire. An id stays taken after its message was deleted, which is what makes a late attempt harmless; a deletion is therefore no action: `posted` is what was created, and a read-back may succeed or fail whatever became of the message.

### DeleteTarget

Callers with arbitrary rights delete one target. The kind of the target decides what its method does: whether it reads first (message, thread, emoji, space), whether a refusal is settled by a read (message, membership), whether a tombstone stays, whether an administrator's form exists. Reads are made under the call's own context, so an administrator reads as one. What is assumed of Google: 404 answers a DELETE only for a target that is not there, a DELETE without the right to it answers 403, a name is not used again. `DoneMeansGone` speaks of callers that can see the target: to anyone else an absence and a refusal look the same.

### Transfer

Time is in ticks, the client's timeout is `Limit` of them, and a timer that fires puts its callback in `fired`, to run at any later moment. `waiting` is the deadline while Google is awaited, `guard` the guard of the answer's body, `canceled` the transfer's context. `quiet` and `gap` are history: how long what is awaited has not moved, and whether that ever reached `Limit`. Reading the local file takes no time, so the request body's own guard never fires and has no variable; that is also the reason the code gives it. The caller's context does not end.

`SilenceIsTimed` says of each state what `SilenceIsCut` says of a behaviour, and how soon: where Google is awaited a timer runs with no more ticks left than the limit allows, counted from when the wait last moved, or its callback is due. Both leave out the time in which Google is to take the request body's bytes, where no timer runs (see `StalledTransferIsCut`), and the reading of an error's body.

### DirectoryCache

Processes have memory and share the file and its `.tmp`; one process's save is the three steps open, write, rename, holding the mutex. `fd` says which file a process's write goes to, since a rename by another process moves a file that is open. A write beside another process's gives a whole file or a torn one. A lookup reads the cache, asks for its misses in chunks that fail or not, and records what was answered; `Learn` feeds in an address Chat named. A tick ages every entry. `answer` is history: what each process recorded last on each id. Display names are left out: an entry is an address or nobody. Of Google it is assumed that a chunk which is answered answers for everyone in it: `lookup` (`resolver.go:144-155`) records as nobody whoever the answer holds no person for, whether by a status of their own or a missing row, and its comment takes a reply to a chunk for an answer about every id in it.

### ClientMethods, Operations, Tools and ToolCalls

These four are the server from above, one layer each, and follow the code's own division. `ClientMethods` has an operator per method of `internal/gchat`, named as there, that yields the request it builds. `Operations` has an operator per method of `internal/service`: a set of sequences of steps, put together with `++` (one after the other), `Opt` and `\cup` in the order the method makes its calls. A step is a check of what the call gives (`name`, `argument`) or of what was read (`check`), a request that must succeed (`ask`) or need not (`try`, `absent`, `forbidden`), the comparison with the witness, the vetting of a person, or the point where a dry run ends. What was read is not kept; instead every sequence it could lead to is there. `Tools` has an operator per tool with what its registration says, and the three resources.

`ToolCalls` runs one of them: `registers` and `Call` are the registration and `wrap`, `Send` is the client's guards and Google's answer by scope, and `rest` is what is left of the method. The settings are the server's; the grant comes from a login under the same settings, or from one under the widest, and the person may have unticked the scopes of the lookups. `MCChatCalls` takes its request shapes from `ClientMethods`.

### The modules of one method each

`SpaceUpdate`, `ConversationWitness`, `MemberVetting`, `SectionMove`, `Reactions`, `SearchScan`, `PeopleSearch`, `GroupExpansion`, `Accounts`, `LoginFlow`, `LocalFiles`, `ErrorClasses` and `CommandLine` have three variables each: `call`, what the call or the command knows and where it is; `world`, what Google, the disk or the other processes hold; `past`, what the property remembers. Others change `world` between any two steps, up to a named bound. The parts they model keep no common state, so `Service` runs them side by side: a behaviour chooses one module and follows it. Each property is stated in its module and named again there, and `MCService` gives the constants of the instance that is checked.

- `SpaceUpdate`: a patch of the description or the guidelines carries both, one as it was read. `Patch` may be applied without its answer arriving and is sent again. An edit that falls between the read and the patch is taken back; that is the code's own word (`spaces.go:746`), and `UnnamedIsOthers` says that nothing older than the call's read comes back and nothing is cleared.
- `ConversationWitness`: a page is read, then resolved; the write follows when the addresses are those given. Since the pages are read one after another, the promise is about who was there at some time and who all along.
- `MemberVetting`: the address is resolved (aliases and the caller's own included), the directory vouches, is silent or does not answer; groups are never vouched for; the space may be read again.
- `SectionMove`: an entry's name holds its section, so that a move by hand renames it. Nothing compares the space with an entry that the caller itself passes (`given`), and the property leaves that case out.
- `Reactions`: reactions come and go between a call's read and its write. `InReach` keeps the promise about somebody who is not found to the one page the code reads.
- `SearchScan`: pages from the newest message down while messages come and go. `Nameless` are rows that cannot be used.
- `Accounts`: a command may be killed between any two steps, and each step on disk or in the keyring may fail. `Target` is the file that a write truncates.
- `LoginFlow`: a request's handler computes an outcome and offers it to a channel of one; the login takes the first.
- `LocalFiles`: a download makes its file where there is none, fills it, and removes it by name when it fails. A removal may fail, which the code passes over, and a download may end between any two steps with its server; either leaves the partial file behind (`past.left`), and the promise is that nothing else is ever left, lost or written over.
- `ErrorClasses`: `world` is what is wrong and one of the ways Google says it (status, reason in either spelling, message), and whether the call the lookup is for has ended; the answer passes `parseAPIError`, the token source, `Classify`, and the place that asked. `add_member` answers for somebody who is in already before it comes to `directoryHint`, and is an asker of its own (`member`). The advice that `directoryHint` adds to the text is `hint`.
- `CommandLine`: one machine with a profile, a client secret, an environment and two token stores, on which a server starts and a command runs.

## Runs

| run | question | instance |
|---|---|---|
| `ChatCalls_one` | `Inv`, `AtMostOnce`, `HonestReports`, `SendRunsDown` | one call of every shape `ClientMethods` builds, 4 contexts, 2 retries |
| `ChatCalls_live` | `LookupsDelayNobody` | two concurrent calls of 3 shapes, 1 retry, bursts of 1 |
| `SendMessage_repeat` | `Inv`, `OneCopy`, `SuccessIsPosted` | three calls, two texts, one of them keyed, 1 retry |
| `SendMessage_unnamed` | `PostedFailureIsNamed`, violated | one call, 1 retry |
| `DeleteTarget_pair` | `Inv`, `DoneMeansGone`, `DeletedMeansMine` | two callers, all rights, all seven kinds, 1 retry |
| `DeleteTarget_false` | `GoneMeansNotMine`, violated | one caller, 1 retry |
| `Transfer_silent` | `TypeOK`, `SilenceIsTimed`, `SlowIsNotCut`, `SilenceIsCut` | both directions, both answers, 2 pieces, limit 2 |
| `Transfer_upload` | `StalledTransferIsCut`, violated | an upload |
| `DirectoryCache_procs` | `Inv`, `NobodyIsGooglesAnswer`, `AnsweredIsRemembered` | two processes, one lookup, two people, entries that last one tick |
| `DirectoryCache_seen` | `SeenIsResolved`, violated | one process, one lookup, one person |
| `ToolCalls_once` | `DryRunsOnlyLook`, `BadArgumentsChangeNothing`, `ReadOnlyChangesNothing`, `LoginCoversTools`, `AdminToolsHaveForms`, `ReadsOutliveLookups`, `WritesAreWitnessed`, `LastingIsConfirmed` | one call of every tool on every path, all settings, two sets of toolsets, three grants |
| `MCService_data` | `TypeOK` and the thirteen properties of the modules of one method each | the constants in `MCService_data.cfg` |

The bounds. One retry is the smallest number at which an attempt that the client gave up on is still out while the next runs; `ChatCalls_one` takes two, so that a middle attempt exists. Two callers and two processes are what the races need, since every step concerns one actor and the shared object. Three sends give a text sent, failed and sent again beside a keyed one. Bursts of 1 make two calls compete for a token. Two ids let one be known to the directory and one not, in one chunk or in two. A limit of 2 ticks lets a timer be started, half run and be stopped. `Ttl = 0` makes entries expire at the second tick.

`ToolCalls_once` has one call since a tool call shares nothing the properties look at with another; `All` and `Admin` between them register every tool, each with and without the switches. A page that is followed by another stands for any number: no step depends on how many came before. In `MCService` a page holds one or two rows and the caps are two or three, so that there is a row past the page, a page past the cap and a match past the limit; three people beside the caller are read one to a page, so that three pages may be one too few, and one or two changes by others are enough to come before, between and after the reads; four groups with a cap of three leave one past it, one asked first and two asked side by side; four commands are a login, a logout that is killed, a login and one more; three requests to the callback are one from Google's page and two that are not, before and after it; two downloads and three names let one take the second name while the other's partial file goes. `doctor` is run with the keyring reachable and no token in the environment or the file, since what it starts from is the server's own start, which `status` covers in full.

Deadlock is checked for `DirectoryCache`, where a tick is always possible, and in `ToolCalls_once` and `MCService_data`, where a call that ended stutters in a step of its own (`Done`, `Rest`) and any other stop is an error. The remaining systems end: every call is done, or a transfer has its result.

Fairness. `ChatCalls_live` assumes that a call's own steps happen: an attempt ends because `http.Client` has a timeout, a backoff because its timer fires; and that limiters refill with time, except the People limiter, whose starvation is the question. It assumes nothing of Google. `Transfer` assumes that time passes, that callbacks run, that the client's own steps (filling from the file, ending the body, taking the answer, asking for bytes) happen and that a canceled context ends what waits on it. Connecting, taking bytes, answering and sending bytes are Google's and are not fair, so it may stop anywhere.

### What the violated properties show

Each states what a comment or a description in the repository says, and each trace is short enough to read. `PROJECT.json` quotes the lines.

- `PostedFailureIsNamed`: a first attempt lands and fails, its retries are turned away with 429 (or the read-back after a 409 is refused), and the error is the last one: it neither says that the message may have been posted nor gives the id. Sending again then posts a second copy.
- `GoneMeansNotMine`: a DELETE that landed is retried and answers 404, and the tool reports that it deleted nothing. With a space the retry answers 403, and the call fails with a refusal although the space is gone.
- `StalledTransferIsCut`: a peer that stops reading an upload blocks the transport's write, where no timer runs. The body of an error answer is also read with no timer, which `SilenceIsCut` leaves out.
- `SeenIsResolved`: a lookup's miss is recorded over an address that Chat named while the lookup was under way.

Read with the code and not made a run:

- `docs/architecture.md` (D-38) says that a write with no idempotency key is retried only after a 429, while PATCH, PUT and DELETE are retried after any server or transport failure.
- `errors.go` describes `MayHaveApplied` without excepting an answer that is too large or does not decode.
- `transfer`'s comment rules out a deadline that cancels a transfer that already succeeded; between the return of `Do` and `arrived` one still can, which is why `gap` counts until `Arrived`.
- `names.go:6` says that resource names are checked before anything reaches Google. The message to quote in `send_message` is checked after the space was read, as `BadArgumentsChangeNothing` states.
- `spaces.go:747` calls the window of `UpdateSpace` one request wide. The witness of an unnamed conversation (its members, up to ten pages, and their lookup) and the retries of the patch lie in it as well.
- `spacecheck.go:15-16` speaks of ten pages of the largest page Google serves; a page there is `maxMemberLimit`, 200 (`members.go:16-20`).
- A token saved to the file because the keyring refused it is shadowed by an older one in the keyring when that can be read again, also by one that a logout killed before its removal had revoked. `logout` then revokes only the token that resolves, and removes both. `logout` with a keyring that cannot be read and no file reports that there is nothing to do.
- `status` of an account with no profile reports that it is not signed in, also when `GCM_REFRESH_TOKEN` or a store holds a token and every tool works (`status.go`, `README.md:156`). `StatusIsTheServers` therefore speaks of accounts that status calls signed in.
- `directoryHint`'s comment (`spaces.go:566-576`) gives the advice to check an address for one that Google cannot place, and leaves out sign-in, scope and rate limit, whose answer is already in them. The code adds it to every other class too: quota, server, a disabled API, a token that could not be fetched, a connection that broke. `AdviceFitsTheCause` asks for it on refusals, rules it out where signing in or waiting for a rate helps, and says nothing of the rest.
- `resourceError` reports `invalid` as not found, besides what is not there; its comment (`resources.go:139-141`) says that anything else keeps its class. The property leaves bad requests apart.
- `RemoveReaction` reads one page. Of somebody past it the code says `removed: false`, which its comment (`reactions.go:298-301`) says must not also mean that it could not tell.
- A download whose partial file could not be removed says that nothing was kept (`attachments.go:84-88`, `:172-173`).
- `doctor`'s count of dropped rows is that of the sections alone.
- A server keeps the token it started with, and may write the directory cache again after `logout` removed it.
- `degraded` does not count a refused sign-in (`ErrReauthorize`) among the failures every request shares, so that each group of a page meets it again.

## Proofs

`ChatCallsProofs` proves, for any set of calls, any request shapes and contexts, any number of retries and any bursts (under the assumptions named in `ChatCalls`: shapes are requests, modes are pairs of flags, retries are a natural number, bursts are positive):

- `TypeCorrect`: `Spec => []TypeOK`.
- `CreatesOnce`: `Spec => []AtMostOnce`.
- `ReportsAreHonest`: `Spec => HonestReports`, the refinement of `WriteOutcome`.
- `EverySendRunsDown`: `Spec => SendRunsDown`, the end that every step of a call brings nearer.

`AtMostOnce` is not inductive. Two attempts on the wire at once would break it in the next two steps, so the invariant says where an attempt of an unrepeatable create can be. `Inv` is `TypeOK` and, for each call, `CallInv`: before and between attempts nothing of it is at Google and nothing was applied (a 429, a failed dial or nothing at all came before); during an attempt exactly that one is out, or it was answered and the answer fits what was applied (`AttemptInv`); after the call at most that one is still out, and only if the failure was marked or the write is an upload (`DoneInv`). TLC checks `Inv` in `ChatCalls_one`. `InvStep` proves each action apart; `Untouched` settles the calls a step does not concern and `AfterFailureInv` the one definition three failing actions share. The refinement then follows step by step: `ReportStep` for a call that returns, `FailureStep` for those that may retry, `GoogleStep` for a landing, `OutcomeStutter` for the rest.

`SendRunsDown` is a variant function for `send`'s loop: `Left` counts the steps a call may still take, and each step lowers it without passing zero. `Moves` sorts every step of the system by what it does to one call (it ends it, goes to the next place, takes another attempt or does nothing), and `SentOnceStep` is the invariant this needs, that a streamed request never leaves its first attempt; with it, `Left` is a natural number. So a call takes no more than three steps for each repeated attempt and four besides, whatever other calls do. It can stand still only where it waits: for its token, its limiter, an answer or a timer. That is the part of `LookupsDelayNobody` that needs no fairness.

`SendMessageProofs` proves, for any number of calls, texts, keys and retries (assumed: keyed texts are texts, the ids of calls and keys are apart, and the values for "no text" and "no id" are neither):

- `PostedOnce`: `Spec => []OneCopy`.
- `SuccessIsTrue`: `Spec => []SuccessIsPosted`.

Both follow from `InvAlways`. Their `Inv` says that two calls of one text have one id, and that an id is the key of its text or the call that minted it (`Agree`, `IdInv`); that every attempt on the wire and every message carries the id of a call of its text (`WireInv`, `PostedInv`); and that a success, a conflict or a read-back was seen only by a call whose text is the one posted (`SeenInv`). `OneCopy` alone is not inductive: an attempt that is still out may post a second copy unless its id is known to be the first one's. `CallStep` is the hard case, where a call begins with a new id, a key or the id a failure named; `GoogleStep` is the other, where a late attempt lands.

`DeleteTargetProofs` proves, for any number of callers with any rights, any kinds among the seven and any number of retries (assumed: the value for "nobody" is not a caller):

- `ReportedIsGone`: `Spec => []DoneMeansGone`.
- `DeletedByCaller`: `Spec => []DeletedMeansMine`.

Here `Inv` ties the target to who removed it: it is left exactly while there is no remover, a call that saw success is the remover, and one that saw 404, or reported the target gone and could see it, came after some remover. It also says that a confirming read is made only for a message or a membership, since a thread's tombstone is no absence. `AbsenceIsReal` is what a read shows, `GoogleStep` what a DELETE does, and `ClaimsKeep` the rest: a step that leaves the target alone is harmless if what it claims is true.

TLC checks these three `Inv` in the passing runs of their modules.

`TransferProofs` proves, for transfers of any length and any limit:

- `Typed`: `Spec => []TypeOK`.
- `OnlySilenceIsCut`: `Spec => SlowIsNotCut`.
- `SilenceIsWatched`: `Spec => []SilenceIsTimed`.

A timer's callback may run long after the timer fired, so that `SlowIsNotCut` needs to know why each callback that is still to run is there. The invariant says that one of them is there, or the context is canceled, only after a silence of the whole limit, and that what is left on a timer that runs and the silence it measures make up the limit (`DeadlineCounts`, `GuardCounts`). `Watched` adds that each hand-over leaves the wait that begins with a timer that runs, or one that has fired. Together they give `SilenceIsTimed`: the timer of a wait on a silent Google goes off neither too early nor too late. TLC checks this invariant on the instance of `Transfer_silent` as well.

`DirectoryCacheProofs` proves, for any number of processes, lookups and people and any lifetime of an entry:

- `SavesAlone`: `Spec => []Inv`.
- `NobodyIsTold`: `Spec => []NobodyIsGooglesAnswer`.
- `AnswersAreKept`: `Spec => []AnsweredIsRemembered`.

The three are proved together as parts of `IInv` (`Invariance`). What makes it inductive is what every file may hold: no file that can ever be read, neither the cache, nor the `.tmp`, nor one that a process holds open under its lock, has an entry that says nobody, since misses are not saved (`Kept`); so a load, which replaces memory, cannot bring one in.

`ToolCallsProofs` proves the eight properties of `ToolCalls`, for every tool on every path of its method, any settings and toolsets and any grant kept from an earlier login (assumed: what a login of before asked for is settings that `Build` could give):

- `DryRunsLook`, `RefusedChangesNothing`, `ReadOnlyOnlyReads`, `LoginIsEnough`, `EveryAdminToolWorks`, `NamesAreACourtesy`, `NoUnseenSpaceIsWritten`, `NothingLastsUnconfirmed`, in the order of the table of runs.

They are facts about paths, and the paths of a method are thousands, put together from steps by `++` and `||`. So the proof is put together likewise. A step has traits (`Is`: it is a write, a write to a space, a lookup, a preview, a comparison), and of a set of paths four things are said: which traits none of its steps has (`Free`), which some step of every path has (`Has`), and which come only behind, or only before, which others (`After`, `Before`). `PathRules` says how each carries over `++` and `||`; the requests are settled one by one, then each helper and each method by the rules, in the order of the source, and `EveryToolIsSound` states of the 72 tools and resources what their kind promises (`Sound`). The invariant `IInv` then follows a call along one path: `OnItsWay` says that what is left is the end of a path of the tool's method, that what it sent comes from the part behind it, and that it is witnessed, vetted, named or past the preview if that part had the step. None of the eight is inductive without it, since a step's write is fine only for what came before it on the same path. TLC checks the eight over the same paths in `ToolCalls_once`, but not `OnItsWay`, for which it would have to search the paths of the method in every state.

The remaining two modules are about `Service`, whose constants are arbitrary but for the assumptions it names: bounds are natural numbers, pages and caps positive, what Google lists is a finite set of positive numbers (its order), the caller's own address is the caller's, and no download is called "person" or "nobody". Each theorem reads `Spec => []P`, where `P` is the property of the module that the behaviour chose; its inductive invariant is about that module's three variables: of a method X, `XInv` is what holds while X is chosen, `XKept` says so, and `XAlways` that it is always so.

`ServiceProofs`:

- `NothingElseChanges`: `UnnamedIsOthers`. Inductive (`UpdateInv`) is that what the call read is, for a field it does not name, among what others gave the field since, which a patch then writes back.
- `OnlyTheNamedSpace`: `FilesTheNamedSpace`. `HeldEntry` says that the entry a call found is its space's, under a section the space was in since the call began, and `MovedSpace` what the call has moved at each of its steps; without `HeldEntry` a move of another's entry could not be excluded.
- `OnlyTheVettedComeIn`: `AddsWhomItVetted`. `VettingInv` says that an address that came past the directory is cleared (`Cleared`), which a later change of the space does not take back, and that only that address is ever added.
- `TheirReactionIsReported`: `ReportsTheirReaction`. What a page shows is what was there when it was read (`Reacted`), and somebody who was there throughout is on the first page if it has room for all who ever were (`Missed`), by counting.
- `WhoIsThereIsNamed`: `WriteNamesTheMembers`. `Stayed` relates the members now to those that ever and always were; `PagesHeld` is the heart: each full page takes its whole size from those who ever were up to the token, so that the cap is not met before everybody within reach was listed, and whoever stayed and comes before the token has been told; `Compared` carries it to the write.
- `QuietScansAreComplete`: `QuietScanIsComplete`. `FoundSoFar` says that every match that stood throughout and is newer than the last row of the last page is among those found, or a flag is raised; a message posted while the scan runs is newer than the window.
- `NoGroupIsSilent`: `EveryGroupIsAccountedFor`. `Rows` gives every row that is settled its reason; `Asked` says that after a failure which all would share nothing is left to ask.
- `NoSourceCostsAnother`: `EverySourceCounts`, for any people, limit and answers. `SearchInv` is the property with what a list of results may be: a list of people or one of the two marks, which are no such lists. The work is in the merge: that taking the first of each name from two lists, up to a limit, keeps everybody, once, or fills the list (`Firsts`, `Nth`).

The last five read page by page. They rest on lemmas about a page: that a least element exists (`Least`, by well-founded induction), that the first rows of a finite set are there, are as many as the page holds, and that whatever is left lies behind them.

`EveryMethodIsTyped` is the type invariant of `Service` as a whole, with the modules of `LocalProofs`, which `ServiceProofs` therefore extends. For most modules it follows from the invariant above. `WitnessTyped`, `ScanTyped`, `GroupsTyped` and `SignInTyped` add what those invariants do not speak of, each in an induction that takes the module's invariant as given.

`LocalProofs`:

- `FirstDecides`: `FirstOutcomeIsTheLogin`, for any set of requests. `SignInInv` ties the channel's one place to the order of delivery.
- `NoFileIsLost`: `FilesAreKept`, for any number of downloads and names. `DownloadInv` says where each download's file is (`Elsewhere`, `HasFile`): a removal by name is safe because the name's file is still the partial one that this download made, and a partial file stays only where its removal failed or its server was killed.
- `SignedInStays`: `TokenIsKept`, for any number of commands and outages. `TokenIsKept` is not inductive: a rename keeps a token only if the `.tmp` is whole (`Holding`), the token of a login is honoured only because no number is granted twice (`Granted`), and a logout that ends well found the keyring empty some steps before (`Removing`). Each step is proved conjunct by conjunct.
- `FailuresAreTold`: `AdviceFitsTheCause`, for every cause, wording and caller: the class, the scope and the mark to read first are those of the cause, and the advice to check an address comes with every refusal and never where signing in or waiting for a rate helps. `ErrorsInv` says that an error keeps its diagnosis (`Diagnosed`: each test of the error holds for exactly the causes it is for) from the parser to the caller, and what each caller makes of it (`Told`). The lemmas before it go through Google's wordings group by group (`Worded`), since the order of the tests, a reason's spelling and a message without a reason decide together.
- `CommandsAreTrue`: `CommandsTellTheServer`, for any number of spaces and of changes by others. `CommandsInv` counts how often `doctor` tried each listing at each step (`Walk`), ties what it reports to what it met (`Recorded`), and says that on a machine that stayed as it was `status` and the server both say what is there now (`Alike`).

TLC was run on the invariants of `Service` over the instance of `MCService_data` before they were proved.

A few definitions of the model are in the form the provers can use: `||` names the choice between paths, `NoCode` names the empty string, a set of answers is built over one variable, and a list's first matches are numbered (`Nth`) where a recursive filter would read shorter.

Only model-checked:

- The liveness properties `LookupsDelayNobody` and `SilenceIsCut`. TLAPS does not reason about fairness and ENABLED. What each rests on besides fairness is proved: that every step brings a call nearer to its end, and that a wait on a silent Google has a timer.
- What a recursive definition computes for every input, as the provers have no induction over data. Where the model needs a list's first matches it numbers them instead.

## Not modelled

URL building and escaping, redirects, the lengths of backoffs and the parsing of Retry-After; JSON and the decoding of known fields; Markdown, rendering, wording and schemas; the shapes of names, times, durations and settings (what is refused, and where, is modelled; how it is recognised is not); the translation of event types; the order of the sidebar; file modes and profile names; the MCP protocol, which is the SDK's; redaction and the leak check, which are filters over text; and everything under `scripts`, `internal/evals`, `internal/livecheck` and `packaging`, which is not part of the program that runs. `PROJECT.json` gives each part's status, and says of each hazard what its properties leave out. Two hazards have no property: what an agent is told that reuses a `client_message_id` with another text, and two calls that both set up a direct message, since what Google does with the second is its own.

A property about two tool calls that change one target beyond the pairs modelled here (deletes, sends, a patch beside an editor) would need the data of both; `Operations` keeps the order of a method's steps and not what they read.
