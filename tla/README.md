# Exchatge desktop client: specifications

TLA+ modules, TLC runs and TLAPS proofs about the C program in this repository:
a chat client whose users set up end-to-end encrypted conversations through a
server that relays what it cannot read. File and line references are to the
repository, e.g. `net.c:791` is `src/net.c` line 791. The server is another
repository; it is modelled only from what `net.c` sends to it and expects back.

Contents: [the system](#the-system) · [modules](#modules) ·
[runs](#what-the-runs-show) · [bounds](#bounds) · [fairness](#fairness) ·
[proofs](#what-is-proved) · [findings](#findings) ·
[not modelled](#not-modelled) · [plan](#plan)

## The system

### Threads

Three threads share everything below. An `assert` is live in every build and
ends the process; the modules keep it as a step that sets `failed`/`aborted` to
the name of the assertion.

| thread | loop | does |
|---|---|---|
| UI thread | `lifecycleLoop`, 60 times a second (`lifecycle.c`) | draws, handles input, calls the handlers of `logic.c` |
| async thread | `asyncActionsThreadLooper` (`lifecycle.c:60-72`) | pops one job of a FIFO queue, runs it, blocks in it as long as it takes |
| net thread | an SDL timer, every 500 ms → `logicNetListen` → `netListen` | reads one message after another from the server, calls back into `logic.c` |

Whatever takes long, or must not run on the net thread, is queued with
`lifecycleAsync`. While a job runs for the user the controls are off
(`beginLoading`/`finishLoading`, `renderSetControlsBlocking`).

### Components

| component | state | operations | hard about it | what makes it correct |
|---|---|---|---|---|
| **reader-writer lock** `utils/rwMutex.c` | an atomic counter over a recursive SDL mutex | read/write lock and unlock | the count and the mutex are two steps; last reader out may not be first in; writers nest | writers exclude each other; nobody reads while another writes; unlock assertions hold |
| **conversation set-up** `net.c:472-483, 783-992`, `logic.c:398-434, 938-1033` | `settingUpConversation`, `exchangingFile`, `conversationSetupMessages`; jobs; the conversations table | invite, accept, decline, exchange of keys and stream headers, deletion | both sides may start, time out after 15 s, abandon; messages of all users go to one queue; flags tested and raised without a lock | both sides hold streams of one session or only the invitee holds none; a set-up ends; stored conversations match |
| **catching up** `logic.c:276-366, 1155-1163`, `net.c:689-781` | `fetchingUsers`, `fetchingMessages`, `ignoreUsualMessages`, `missingMessagesFetchers`, `userIdsToFetchMessagesFrom`, the users list | refresh the list, then fetch per conversation what is younger than its youngest message | flags fall after the callback that queues the next request; messages relayed meanwhile; a broken connection leaves counters and jobs | nothing is missed, nothing stored twice, controls come back |
| **session** `net.c:160-470, 567-627, 1097-1170`, `logic.c:239-274, 820-926` | `this` of `net.c`, `state`, the connection's cipher streams | connect, sign and exchange keys with the server, register, log in, disconnect | time-outs; `netClean` against callbacks; `onDisconnected` before the clean-up; two threads encrypt with one stream | states in order; one connection at a time; server sees messages in the order of the stream |
| **file exchange** `net.c:485-522, 994-1095`, `logic.c:436-756` | `exchangingFile`, `fileExchangeMessages`, the file | ask, accept, send chunks, hash | end is 15 s of silence; chunks are not matched with their sender | a file is whole or absent; the flag falls |
| **job queue and main loop** `lifecycle.c` | `asyncActionsQueue`, `running`, timer and thread | push, run, leave | leaving with jobs queued or running | nothing runs after clean-up |
| **queue, list** `collections/` | elements, a reader-writer lock | push, pop, wait and pop, drop; sorted add, binary search | check and act under separate locks; destroy under a waiter | FIFO; no lost element; no failed assertion |
| **database** `database/database.c` | conversations (key: user), messages (keys: conversation, time, sender; foreign key to conversations), the machine id | add, remove, exists, coder streams, most recent time | `executeSingle` asserts an insertion succeeded | no insertion meets a row |
| **cryptography** `crypto.c` | key pairs, shared keys, secret streams, padding | exchange keys, make streams, encrypt, decrypt, pad | streams are stateful | both sides derive the same keys |
| **wire format** `net.c:312-470` | – | pack and unpack messages and user records | sizes | unpack undoes pack |
| **conversation page** `logic.c:162-227, 961-977, 1035-1153` | `messagesList`, the current user, its streams | open, send, receive, return | an invite or deletion removes what a page shows | what is stored is what is shown |
| **user interface** `render/` | page, controls, inputs | draw, take input, call back | the list is drawn while it is refreshed | input only when controls are on |
| **options** `options.c` | a text file, the machine's id | make, parse line by line, write and cut off the credentials in place | found by an offset in the text; a kill between two steps | other options survive; the credentials asked for last |
| **records**, **entry point** `user.c`, `conversationMessage.c`, `main.c` | plain structs | make, copy | – | – |

How they interact: the UI thread calls `logic.c`, which turns a click into a job;
the job calls `net.c`, `crypto.c` and `database.c`; `net.c` sends, or waits on a
queue the net thread fills; the net thread calls back into `logic.c`, which
queues jobs and sets the controls. The places where this is hard to test are in
`PROJECT.json` under `hazards`, each with the properties that watch it, or why
none does.

## Modules

| module | models | extends / refines | proofs |
|---|---|---|---|
| `RWMutex` | `utils/rwMutex.c` | – | `RWMutex_proofs` |
| `Fifo` | what a queue promises: values come out once, in order | – | – |
| `Queue` | `collections/queue.c`, step by step over its lock | refines `Fifo` | `Queue_proofs` |
| `SetUpAgreement` | what a set-up promises, by its outcome alone | – | – |
| `ConversationSetUp` | the handshake at every client, with the jobs and callbacks around it | refines `SetUpAgreement` | `ConversationSetUp_proofs` |
| `MessageFetch` | log in, refresh and catching up of one client | – | `MessageFetch_proofs` |
| `Session` | one client's connections, from the start of the program to its next start | – | `Session_proofs` |
| `FileDelivery` | what the exchange of files promises: offers and what is kept | – | – |
| `FileExchange` | files, at every client | refines `FileDelivery` | `FileExchange_proofs` |
| `Database` | the two tables, as a value with its operations | – | – |
| `Sizes` | sizes from a text to a message | – | `Pages_proofs` |
| `Pages` | the pages, lists and jobs of a logged in client | extends `Database`, `Sizes` | `Pages_proofs` |
| `Options` | the options file over many runs | – | `Options_proofs` |

`MC*` modules give the constants values for TLC; one for each module that is run.

The modules cut the client along what competes for the same state. Set-up and
files compete for two flags, so `ConversationSetUp` has the flags, jobs and
controls of both, and `FileExchange` the rest of files. Refresh and fetching
compete with relayed messages (`MessageFetch`); connections with the page, jobs
and clean-up (`Session`); drawing with jobs that change lists (`Pages`). Each of
these has the job queue as a sequence: that the array and lock of `queue.c` are
as good as a sequence is what `Queue` refining `Fifo` says, and that its lock
excludes is what `RWMutex` says of a lock that is only written under.

### RWMutex

`counter` is `rwMutex->counter`, `owner` and `depth` the recursive mutex,
`pc[t]` whether a thread is between the atomic counter step and the mutex call
that follows. `ReadLock` is `++counter == 1`, `ReadLockAcquire` the
`SDL_LockMutex` after it, `ReadUnlock` and `ReadUnlockRelease` likewise,
`WriteLock` and `WriteUnlock` are one step each. `SDL_UnlockMutex` by a thread
that does not hold the mutex fails and the assertion around it ends the process.
`readerThreads` is chosen once: the users of the lock (`list.c`, `queue.c`,
`logic.c`, `net.c`, `render.c`) differ in which threads read under it.

### Fifo, Queue

`values` and `size` are the queue's fields, `holder` who holds its lock, `pc`
where a thread is in which operation. What `queue.c` does under the lock is two
steps (`PushGrows`, `PushStores`; `PopReads`, `PopDrops`; `ClearResets`,
`ClearFrees`), and what it does without the lock falls between: the loop of
`queueWaitAndPop` (`Looks`, `Waits`) and the assertion of `queuePop`
(`PopAsserts`). `queueDestroy` asks nobody (`netClean` calls it while the async
thread may be waiting), so `Destroy` may come at any time; what a thread that is
inside does with the freed queue afterwards is `UsesFreed`: it returns, fails an
assertion, or works on memory that is not the queue's any more. Who consumes is
chosen once. `Fifo` has the contents and what was handed out; the
mapping takes the array for the contents, so that a push becomes one when the
value is stored and a pop when the array is replaced.

### ConversationSetUp

All clients run the same code; every variable is a function of the client.

| variable | code |
|---|---|
| `channel[s][r]` | messages the server has taken from `s` and not given to `r` |
| `setupQueue` | `conversationSetupMessages`, net.c:134 |
| `settingUp`, `exchangingFile` | the flags of `net.c` |
| `claim` | the net thread between its test of the flags (net.c:476, 492) and raising one (479, 493) |
| `jobs`, `task` | the job queue; where the async thread is in the job it runs: a dialog, one of the four `queueWaitAndPop`s, or back in `logic.c` with the outcome |
| `allowInput`, `listed`, `fetching` | controls; the users list; what is being fetched (one round, see MessageFetch for the steps) |
| `conversations` | the conversations table: with whom, under which session |
| `made` | history: streams handed out by `netCreateConversation` and `netReplyToConversationSetUpInvite` |

An invite of somebody who is in no list is `ReceiveStrangersInvite`: the flag goes
up, the job finds nobody and leaves without taking it down (logic.c:410).

Actions, inviter: `ChooseStart` (click) → `RunStart` (sends the invite) →
`InviterGetsKeys` → `InviterGetsHeaders` → `Return`. Invitee: `Receive` (the
invite; any other set-up message is queued) → `Claim` → `RunReply` →
`AnswerAccept` or `AnswerDecline` → `InviteeGetsKeysDone` →
`InviteeGetsHeadersDone` → `Return`. `Abandon` is every `goto` out of either
function: a wait that timed out, a message of the wrong flag or size, a
decryption that failed. Deletion, refresh and file exchange are there with the
flags, jobs and rows they touch, because set-up competes with them.

Cryptography is symbolic: a key pair is a fresh name, a session the pair of
public keys it came from, and a stream header encrypted under it opens under the
same session only (`crypto_kx`, `crypto_secretbox`/`cryptoDecryptSingle`).

`SetUpAgreement` has one variable, the streams handed out: the inviter's come
first, from a key of each user that was in no session before; the invitee's come
second, from the same keys, once. Since `made` has the same name in both
modules, the refinement mapping is the identity on it.

### MessageFetch

One client with its three threads, and the server as the set of messages kept
for each peer, what it relays at once, and one request it has yet to answer.
`fetch` (logic.c) and `netc` (net.c) are the counters and flags; `asking` is the
async thread between the increment of `missingMessagesFetchers` and the request
(logic.c:277-284); `net` is where the net thread is *after* the callback of a
last bundle or message: `usersDone` (net.c:779), `compare` (logic.c:360) and
`messagesDone` (net.c:755 and 764 on), while the async thread may run what the callback
queued. `listed` is whether `usersList` is empty, on which `list.c:96` asserts.

A message is its conversation and the time it was sent. A conversation was set
up at time 0, and nothing is asked for up to `MinimalPossibleTimestamp`, one
after that (logic.c:281). The server may refuse either request. A refused list
gives the controls back and leaves `fetchingUsers` up (`ErrorReceived`); a
refused request for messages is ignored by net.c:423 and leaves the flag, the
counter and the controls as they are (`ServerRefuses`, remembered in
`refused`). Not in the model: the creation and deletion of conversations
(ConversationSetUp), bundles (a list of users is one answer).

### Session

Three modules of the code each have their own idea of the connection:
`netInitialized` and `state` of `logic.c`, `this` and `state` of `net.c`, the
`page` and controls of `render.c`. `async` is where the async thread is in a job
(`netInit`, the four steps of the key exchange, the comparison of net.c:339,
what comes after it), `net` where the net thread is in what it took from the
server: after a log in, between the parts of `onDisconnected`, before `netClean`
and in the loop of `netListen` after it. `life` is `lifecycle.c`: running,
leaving, gone; `Restart` is the next start, with the disk as it was left.

| actions | code |
|---|---|
| `CredentialsEntered`, `PageQueried`, `AutoLoggingInChanged`, `UserChosen`, `PageChanged`, `ConversationLeft`, `UpdateClicked`, ... | the handlers of `logic.c` on the pages |
| `RunShow`, `RunCredentials`, `NetInit`, `HandshakeStep`, `HandshakeFails`, `NetInitReturns`, `NetInitialized`, `SendCredentials`, `RunRequest` | the jobs of an attempt, in the async thread |
| `RunProcessUsers`, `RunContinue`, `RunSetUp`, `RunDelete` | the jobs of a session; what `RunSetUp` waits for is in ConversationSetUp |
| `LoggedIn`, `LogInRefused`, `RegisterResult`, `InviteReceived`, `ErrorReceived`, `Disconnected`, `OnDisconnected...`, `ListenAgain`, `ListenNowhere` | `netListen` with `processMessage` and the callbacks, in the net thread |
| `Quit`, `Clean`, `Restart` | `lifecycle.c`, `logicClean`, `netClean` |
| `ServerAnswers`, `ServerFails` | external |

`progress` counts the steps of the key exchange that were really gone through,
`netState` is what the code believes; `leftOver` is what the memory of the next
`this` may hold, because `netInit` does not set `state`. `Send` puts a request
on the link as it is: what is sent before the connection is secured makes the
server close it. `twice` is history: credentials were taken while an attempt
with others was queued or connecting, which `onDisconnected` lets happen by
taking `netInitialized` down before it resets `state`. `late` is history too: a
page of a session was opened, or a user chosen there, when the connection was
gone, as the refresh does with which set-up, deletion and a reply to an invite
end (`UpdateUsersList`, logic.c:1155). And so is `early`: the net thread found a
connection closed between the end of `netInit` and the assignment of
`netInitialized` (`NetInitialized`, logic.c:861), which then stays up with net.c's
`this` gone. The flags of catching up are MessageFetch's: here a list that is
asked for is answered. A member of `Credentials` is a name with its password: two of them are two users, or one and
a mistyped password.

### FileDelivery, FileExchange

All clients run the same code. `rwops` is the one file handle of `logic.c`,
`got` stands for what was written, its hash and its counter, `async[c]` for
where the async thread is in `beginFileExchange` or `replyToFileExchangeRequest`
and what `net.c` does below them. The UI thread chooses a file (`FileChosen`) or
another conversation (`ConversationOpened`); the net thread looks at
`exchangingFile` for a request (`TakeRequest`, which leaves in `raising` what it is
about to do) and raises it in a step of its own (`RaiseFlag`), for it takes no
lock, and queues the rest (`TakeFileMessage`). Time-outs (`AnswerTimesOut`,
`ReceiveEnds`) may come at any time. A chunk is a piece of a file sealed for one
conversation; what is read may have `Changed`, and the file grown or shrunk,
since it was offered (`PiecesOf`; a file that is empty by then fails logic.c:717).
`Leave` is a client that goes.

`FileDelivery` has the offers and what is kept. Only `RunSend` makes an offer,
only `Received` keeps, everything between is a stutter.

### Database, Sizes, Pages

`Database` has the two tables as sets of rows, and the operations of
`database.c` as operators with their keys: the conditions named `May...` are
those under which a statement ends with `SQLITE_DONE`, on which `executeSingle`
asserts. `Sizes` has the constants of `net.c` and `crypto.c` a text's length goes
through.

`Pages` is what the user of a logged in client sees. `ui`, `size` and `row` are
the frame the UI thread draws: the list's size (`BeginDraw`), then row after row
(`DrawRow`), then clicks (`Choose...`, `Click...`) on what was drawn. The async
thread's jobs are cut where another thread may see them: sending is
`SendStores`, `SendSeals`, `SendGoesOut`, each of which reads `toUserId`
(logic.c:1115-1136); opening a conversation clears the list, fills it and shows
the page; a refresh empties the list of users and lists them anew. At first the
list has any number of the registered users, in their order, none included, and
conversations with some of them: what a log in may have left there. The rows of
a query are in any order that the time they are ordered by allows
(`getMessages`, a set of sequences). Missing messages
are fetched of one user after another (`left`): the net thread hands the last of
a user over and queues the next (`FetchEnds`), then compares the counter
(`FetchChecks`) while the async thread may have begun the next fetch (`More`,
`MoreAsks`); with two conversations the controls come back, or the client aborts,
after the first (logic.c:360-366). `causes`
collects what may go wrong later: the properties say that nothing else does.

### Options

`file` is the options file as a sequence of lines. `Reads` is `optionsInit`: a
line is parsed as the first option whose name stands anywhere in it, the last
line of an option counts, and credentials open with the key of the machine that
sealed them. A payload is random base64 and may spell an option's name
(`Spellings`); its line is then read as that option. The host is copied without
its end (options.c:89-96): what is read of it may run on (`HostReadings`).
`Writes` and `TurnsOff` are `processCredentials` and
`logicOnAutoLoggingInChanged`, which find the payload's offset anew and
overwrite in place or truncate. `Ends` closes or kills a run at any step, also
between making the file and filling it; the next run may be on another machine.
The first files are a constant, of which is assumed what a text file is: lines,
with the values an option may have. `Marks` are the values that are no account's:
what a line holds that was torn, misread, never set, or does not open. `spelled` is history:
a payload that was written spelled a name.

## What the runs show

| run | kind | shows |
|---|---|---|
| `rwmutex` | pass | Three threads, every nesting and every choice of readers: writers exclude each other however reads are released in between; where only one thread reads, it never meets another writer and no unlock assertion fails. The invariant of the proof holds. |
| `queue` | pass | Three threads push three values, pop, clear and destroy: the queue implements `Fifo` whoever consumes; with one consumer no assertion fails before it is destroyed, and what is pushed is handed out. |
| `setup_three` | pass | Three clients, one of whom another does not know yet, two starts and a deletion: crossing, declined, late and mixed handshakes implement `SetUpAgreement`; two stored conversations match; an insertion never meets a row; the invariant of the proof (`MatchInv`) holds. |
| `setup_pair` | pass | Two clients, an invite of somebody in no list, two starts and a file exchange: a set-up with a user of the list ends, with `settingUpConversation` down; the controls come back in every case; or the client has aborted. |
| `fetch` | pass | None, one or two conversations, messages at three times (one our own), two log ins with a break of the connection in between, a refresh, refusals: replies come only when expected, controls come back unless a request for messages is refused, and nothing is missed but what was ignored on arrival, sent before a reconnection or a refusal, or sent within a unit of time of the set-up. With at most one conversation, no message is stored twice and no second request can be started while one is out. |
| `fetch_ignored` | violation | A message ignored during a refresh is lost. |
| `session` | pass | Registering, logging in by hand and at the start, refusals, time-outs, connections that break at any step, leaving and starting again: at rest `logic.c` and `net.c` agree on whether there is a connection; a connection is taken for secured only if it is, or the memory was an earlier one's; requests carry the session's token; who is logged in has the database under their own password; logging in stays possible; controls come back; leaving ends. Conversations, invites and refreshes may outlive their connection. The exceptions are named: `early`, `late`, `twice`, `leftOver`. |
| `session_database` | violation | The first password typed makes the database, before the server has seen it. |
| `files` | pass | Three clients, two requests: what is kept is a whole copy of what was offered to the one who keeps it; a file is sent only after an acceptance of its size, though it may change, grow or shrink meanwhile; the handle is open exactly while its job needs it; exchanges end at both sides, but for requests of unlisted users. |
| `files_acceptance` | violation | A late answer of a third user starts the sending to one who has not accepted. |
| `pages` | pass | Sending, receiving, opening, refreshing, and fetching of one user after another: messages go where the page said and pages show what is stored, except after the named causes; without any of them nothing ends the client. |
| `options` | pass | Eleven files, two machines, two accounts, runs killed anywhere: a file as the client makes it keeps its other options and the credentials asked for last, and is read as it was meant unless a payload spells an option's name. |

Each property of a passing run has a mutant in `PROJECT.json`: an operator,
defined beside the code's own, that is wrong the way a plausible bug is, under
which TLC finds the property violated.

Three statements are in the modules and not in any run, because the code
violates them and the runs that showed it made room for others:
`ReaderExclusion` of `RWMutex` (two reading threads), `FlagAsserts` of
`ConversationSetUp` (net.c:791) and `FetchersMatch` of `MessageFetch` (three
conversations). Added to `RWMutex.cfg`, `SetUpPair.cfg`, and `Fetch.cfg` with
a list of three, TLC finds each violated.

## Bounds

- `MaxNest = 2` (RWMutex): one thread nests write sections at most twice; the
  counter and depth are bounded by it and by the number of threads. Two levels
  are enough for a nested section to be left while the outer one is still held.
- Three threads, as the client has, and three values (Queue): with two values
  left in the array a pop moves the second, and a third can be pushed meanwhile.
- `Budget` (ConversationSetUp): starts, deletions and file exchanges in all the
  clients together. Two starts cross, follow one another, or are one of each of
  two inviters at one invitee; a deletion between makes the tables differ. Waits
  may end at any time, so every late or left-over message is reached. Three
  clients is the least at which a third user's messages mix in.
- `MaxTime = 3`, `MaxLogIns = 2`, `MaxUpdates = 1`, one message of our own
  (MessageFetch): an older, a missed and a younger message; a break, a new
  connection and a refresh after it; two conversations make the fetches chain,
  three are needed only for the counter to differ from the queue's length. The
  first clock reading is 0 or 1: the time of the set-up, or one later.
  Every clock is the same one, and no two messages share a time.
- `MaxAttempts = 2`, `MaxActs = 3`, `MaxStarts = 2` (Session): a refused or
  broken attempt and one after it, or one in each of two runs of the program,
  with a request or two of the user's in between. Two attempts that overlap need
  a third before them, whose connection breaks (`MaxAttempts = 4`, `MaxActs = 2`,
  `MaxStarts = 1` reach them, in a run too long to be kept); the proofs, which
  have no bound, cover them.
- `MaxAsks = 2`, one file of one chunk, three clients (FileExchange): two
  requests that cross, follow one another or come from two users to one, or a
  request and a client that leaves; the content of a file is whole or not by its one chunk. The order of several chunks, and
  chunks of several files mixed in one, are for the proof, which has no bound.
  `Growth = 1`: a file is longer than was offered by one chunk at most.
  The lists are cut to where the third user does not know the second (`files`):
  the full lists are in `files_acceptance`.
- `MaxActs = 3`, two other users, texts of 135 and 136 bytes (Pages): what one
  act sets off is met by two more; 136 is what the page allows, 135 the longest
  that fits. `now` moves on only when a row depends on it. `CalmIsSafe` was checked
  with four acts as well.
- Options has no bound on steps: payloads that spell no name, one that is then
  misread and one that ends the run (`Few`), eleven first files and finitely many lines make
  it finite.
- History variables (`made`, `since`, `dropped`, `accepted`, `causes`, `late`,
  `twice`, `early`, `refused`, `spelled`, `wanted`, ...) guard nothing.

Deadlock is checked in every run: `Rest` and `Gone` are explicit stuttering
steps for a system that has nothing left to do, or has aborted.

## Fairness

- The async thread is weakly fair: it is a loop that runs whatever is queued
  (lifecycle.c:60-72), and each of its waits ends after 15 seconds at most
  (`TIMEOUT`, net.c:54, handed to `queueWaitAndPop`): `Abandon` in set-up,
  `HandshakeFails` in Session, `AnswerTimesOut` and `ReceiveEnds` in
  FileExchange. Messages can keep a waiting thread from its time-out, but only
  finitely many.
- The net thread is weakly fair in MessageFetch, Session and FileExchange (an
  SDL timer calls it every 500 ms). In ConversationSetUp only `Claim`,
  `UsersFetched` and `MessagesFetched` are: it comes out of a callback and the
  server answers its requests. `Receive` has no fairness: a message of another
  user need not come.
- The users answer their dialogs (`Answer`; `Accept` or `Decline` in
  FileExchange, within the async thread, which waits for it). Nothing is assumed of what they click,
  of connections that break, or of a message of theirs.
- The server answers a request (`ServerAnswers`; or refuses it, `ServerRefuses`,
  in MessageFetch). A connection that breaks
  instead is `Disconnected`. The steps of Session's key exchange have no
  fairness: a server may fall silent there.
- `Clean` of Session is weakly fair: `lifecycleClean` runs to its end.
- In Queue a thread goes on with an operation it has begun, and a consumer calls
  `queueWaitAndPop` again, as the loop of lifecycle.c does.

## What is proved

Checked by TLAPS for every value of the constants, under the named assumptions
of the modules, which type the constants and keep `None`, `NoThread`, `NoValue`
and `Changed` apart from real values.

- `RWMutex_proofs!LockInvHolds`, `WritersExclude`. That two writers never meet
  is not inductive: a reader's release could give a writer's mutex away. The
  invariant accounts for every level of the mutex: `depth` is the writer's own
  sections, plus one for the readers as a group (`ReadersLevel`: taken by the
  first, given back by the last), plus one for each thread about to release
  (`Leaving`); and whoever is in a write section is the owner (`WriterOwns`). A
  release then leaves the levels of a writer's sections untouched, or the thread
  is not the owner and the process aborts.
- `RWMutex_proofs!SingleReaderIsSafe`. With one reading thread, the readers'
  level belongs to that thread, so the owner of the mutex is the reader as long
  as it reads or leaves.
- `ConversationSetUp_proofs!SetUpInvHolds`, `AgreementIsImplemented`. The
  handshake implements `SetUpAgreement` for any number of clients, any lists and
  any budget. `AgreementHolds` needs to know, when the inviter accepts a header,
  that the keys in it are fresh and its peer's: which no message says of itself.
  `SetUpInv` carries that: all keys in transit have been made
  (`KeysAreGenerated`); an invitee's key is with the user it answers and nobody
  else (`ServerKeyIsWithPeer`), an inviter's likewise, seen from what is
  answered to it (`ClientKeyIsWithPeer`); a key of an invitee goes into one
  session (`OneSessionPerServerKey`); and the inviter's streams exist before its
  last message does (`InviterHasFirst`). Most actions leave all of it alone
  because they only take messages away (`QuietWire`, `QuietStep`); the five that
  send or derive keys have a lemma each.
- `Queue_proofs!FifoIsImplemented`, `TypesHold`, `SizeIsRight`,
  `OneConsumerIsSafe`, for any threads, values and consumers. The array is only
  changed under the lock, but the invariant has to say so: whoever is inside an
  operation holds the lock (`Holding`), and a thread between reading and
  dropping has the head of the array in its hand (`Carries`), so that dropping
  is `Fifo`'s `Pop` of that very value. `SizeIsRight` needs what is true within
  each operation (`Sized`): one more than the array in a push, still the old
  one in a pop, 0 in a clear. For a single consumer the invariant adds that
  nobody else is ever in an operation that takes (`OnlyConsumers`), so that the
  size it has seen to be above 0 stays so until it pops (`Finds`).
- `ConversationSetUp_proofs!MatchInvHolds`, `ConversationsAlwaysMatch`,
  `InsertionsSucceed`. Two stored conversations can be compared only together
  with the streams a client is about to store: `Held(c, p)` is both. Equality of
  what is held (`HeldMatch`) is not inductive: the inviter gets its streams from
  a header that may have been sent long before. So the invariant follows the set-up.
  When the header of an invitee is on its way to the inviter that waits for it
  (`Matched`), the invitee has nothing of the inviter yet, because
  `replyToConversationSetUpInvite` forgets what it had before it answers
  (`NothingHeldYet`); once the inviter has its streams and the invitee still
  waits (`Ahead`), the inviter has only those the invitee will get
  (`HeldAhead`). `RowFree` says that nothing stores a row while the async thread
  is in a set-up; only of clients that are alive, for the assertion in
  `updateUsersList` leaves a client that has ended with its row stored.
- `FileExchange_proofs!DeliveryIsImplemented`, `TypesHold`. The exchange of
  files implements `FileDelivery` for any users, lists, files and sizes.
  `Matches` compares the hash, so what is kept is whole; what has to be carried
  along is that the file was offered *to this user by that one*. `OfferInv` says
  so of the request wherever it is: on the wire (`OnWire`), with the net thread
  (`InRaising`), in the queue of jobs (`InJobs`), in the hands of the async thread (`InHands`). Each place is a
  sequence or a record over the set of what has been offered, which only grows.
- `FileExchange_proofs!AcceptanceComesFirst`. The same argument for answers
  (`AcceptInv`): an answer with a size is on the wire, and in the queue the async
  thread pops, only if it was given to this client. Sizes are above 0, a decline
  says 0, and so what starts the sending is an acceptance of that size; of whom,
  the code does not ask (see Findings).
- `FileExchange_proofs!HandleIsForItsJob`. `OpenForItsJob` alone would let a
  second job send from the same handle. `HandleInv`: the handle is open for
  reading exactly if a sending is queued or under way, for writing exactly if
  something is received, and at most one sending is queued, none while one is
  under way.
- `MessageFetch_proofs!TypesHold`, `RepliesAreExpected`, for any lists and any
  number of log ins, refreshes and messages. That `missingMessagesFetchers` and
  the counts in replies stay natural rests on the mailbox (`MailInv`). A reply is
  expected because of one thing at a time the client waits for an answer, in one
  of three places: asked for, on its way, or in the wake of the net thread's
  callback, and in each the flag is up (`FlagInv`). That needs the order of what
  is on its way (`TurnInv`: only the last answer says that none follows), that
  no job of an earlier connection is queued behind a log in (`LogInInv`), and
  that a broken connection leaves nothing (`OfflineInv`).
- `MessageFetch_proofs!NoSecondRequest`, with at most one conversation.
  Catching up is a token: greeted, queued, asked for, being answered, being asked
  for, compared (`PlaceInv`), and the controls of a connected user are off while
  it is in any of these (`ControlsInv`). With two conversations they come back
  after the first.
- `MessageFetch_proofs!NothingStoredTwice`, with at most one conversation. No
  message waits twice or behind a new list (`Ordered(jobs, Behind)`); when
  messages are asked for all that came before are stored, so the answers are
  younger than what is stored (`AskInv`); and what is on its way is neither
  stored nor waiting (`NewInv`), because usual messages are ignored from the
  list on until the request (`IgnoreInv`).
- `MessageFetch_proofs!CountsMatch`, with at most one conversation: the
  assertions that compare or require `missingMessagesFetchers` in the callbacks
  and on a refresh do not fail. `CountInv`: it is 1 from before the messages are
  asked for until the last one is taken, 0 when the counts are compared and
  whenever the user may refresh or a refreshed list is on its way (`Listing`); a
  request that is refused may leave the 1 behind with the controls off, and a
  connection that breaks on the page to log in. No run states this theorem.
- `MessageFetch_proofs!NothingElseMissed`, for any number of conversations, log
  ins, refreshes and broken connections. The invariant follows each message:
  `Known(p, t)` says what has become of it, namely too old (for `since` or for the set-up), ignored, stored,
  waiting in a job, on its way, or in an answer to come. What is `Hidden(p)`, none of
  these, must be younger than the most recent message of the conversation, for
  that is where the next request begins. With a connection it is either before
  the first list, when nothing is written and what is relayed waits in front of
  the list (`FreshInv`); or p is still `Due`: its messages are being asked for,
  or it is in `userIdsToFetchMessagesFrom` while nothing of p comes and the user
  cannot write (`Quiet`), or the job that asks is queued in front of whatever
  makes the conversation younger (`Ahead`). After a refusal all there is by
  then counts as too old. `PastInv` carries this over a broken
  connection that leaves jobs behind: what is stored or queued then is older
  than the break.
- `Session_proofs!TypesHold`, `ModulesAgreeAlways`, `SecuredOrLeftOver`. The
  invariant says where the connection is when (`ConnInv`): `netThis` exists
  exactly while `netInitialized` says so, the key exchange is under way, or the
  net thread is taking it down; and what is on the link then (`LinkInv`).
  Both are given up once a connection was found closed before it was noted
  (`early`; `Wired` is the rest), which the program gets out of only by being
  started anew; types hold then too, and so does `SecureInv`, which follows the
  state that `netInit` compares back to the key exchange, or to what the memory
  held.
- `Session_proofs!OwnDatabase`, `RequestsCarryTheToken`. Unless attempts
  overlap (`twice`), an attempt under way means that there is no connection and
  no job of a session queued behind one (`OnceInv`); so the attempt that opened
  the database is the one its connection logs in (`KeyInv`, `OwnerInv`), and
  what fetches or shows the users was queued by the net thread after it stored
  the token, and is gone before the next connection (`TokenInv`, `InsideInv`); an
  invite, whose job may end with a refresh, reaches only who is logged in
  (`InviteInv`). After `early` none of this is needed: there is no other
  connection, nobody is logged in on it and nothing is asked (`DoomInv`).
- `Session_proofs!LogInStaysPossible`, of overlapping attempts too. Nothing
  comes to rest half way: a state other than unauthenticated has an attempt
  queued or connecting, a connection, or its `onDisconnected` under way
  (`StateInv`); a connection without its pages has something coming that goes on
  with it (`PendingInv`).
- `Pages_proofs!TypesHold`, for any users, acts and texts: a job has the
  parameters its handler reads, a row of the users list is the user registered
  at its place, a message's conversation is stored (the foreign key).
- `Pages_proofs!SentAsShown`. `SendInv`: as long as a click may hit, the page is
  the one that was drawn, for others change it under the lock only; texts differ
  from one another, so that a row of the database can be told to be this
  message's; and unless toUserId was changed too early (`"overtaken"`), every
  message and page on its way is for toUserId, and so is the page shown.
- `Pages_proofs!CalmGoesOn`. With no cause so far (`CalmInv`) only messages and
  at most one page are on their way; while the page is, the controls are blocked
  and the list of users is shown (`Opening`), so that no row of a conversation
  is drawn while its list is emptied; rows that are drawn are there
  (`RowsThere`); whoever a job is for is listed and has a conversation
  (`Reachable`); a paste meets the page it looked at (`Pasting`).
- `Pages_proofs!PagesShowWhatIsStored`. Lengths are compared at rest; on the way
  it is the texts (`ShowInv`). A text is in one place, stored or waiting in one
  job (`FreshInv`). The texts of the page shown, with one that is stored and not
  yet shown, are those stored for toUserId with those that are shown and not yet
  stored (`ListShown`). The list is filled while toUserId is another user's, so
  that needs that nothing is written meanwhile: pages are opened from the users'
  page only (`FromUsers`), and nothing to send is queued behind one
  (`NothingSent`). What the user can start there instead waits behind the
  opening, whose end then gives the controls back early; without that, the list
  is empty before and complete after it is filled (`Filling`). And a conversation
  that is started has no older messages that its empty list would leave out
  (`Told`).
- `Pages_proofs!ShorterTextsGoThrough`, `LongestTextDoesNotFit`. Padded and
  encrypted, each text of 1 to 135 bytes fits a message and is acceptable where
  it arrives; one of 136 bytes, which the page allows, does not fit.
- `Options_proofs!TypesHold`, `Remembered`, `StartsGoOn`, for any well formed
  first file, any machines, accounts and number of runs. `Kept`: the file is the
  first or default one with other credentials in its last line, whatever their
  payload spells, and those are wanted (`Derived`); or it has not been made, or was left empty by a kill
  (`Unmade`). The payload is in the last line, so there is nothing behind it for
  truncating or overwriting to hit. What the payload spells matters to parsing
  alone, so the assertions of a start are safe while none has spelled a name, and
  the other options are read as they were whenever the present one does not.

Only model-checked: the liveness properties (`SetUpEnds`, `ControlsReturn` of
three modules, `LeavingEnds`, `ExchangeEnds`, `Delivered`), as fairness is out
of the prover's reach, and with it ENABLED. Facts that need induction
over data, and RECURSIVE operators, are out of reach as well; no module declares
one.

## Findings

The first three are runs that expect a violation; the others were met on the way
and are in the models as what the code does, most as a value of `failed` or of
`causes`.

1. **An ignored message is lost** (`net.c:556`), against the comment there.
   What is asked for is younger than the youngest message in the conversation,
   of either direction; a message dropped during a refresh falls behind it as
   soon as a younger one is stored or sent.
2. **The database's password** (`logic.c:847`). A log in makes the database
   before the server is asked: a mistyped first password stays the database's.
3. **Who accepted the file** (`net.c:1022`). The sender of an answer is not
   compared: a late answer of another user, of the same size, starts the sending.
4. **Readers beside a writer** (`rwMutex.c:39`). The first reader counts itself
   before it waits for the mutex; a second finds the count at 2 and does not
   wait. `list.h` and `queue.h` promise thread safety on top of it.
5. **A start meets an invite** (`net.c:791`). The controls go off when the start
   is queued, but the net thread may take an invite in between; the start then
   finds the flag up and its assertion ends the client.
6. **Unlisted users** (`logic.c:410, 598`). An invite or a file request of a user
   who is not in the list is never answered, and the flag stays up until the
   next connection: `SetUpEnds` and `ExchangeEnds` are of users in the list.
7. **Three conversations** (`logic.c:360`). The counter is back at 0 after the
   first conversation while a user is still queued: the client aborts, unless
   the next fetch has begun by then. With two the user is no longer queued, and
   the client aborts if the next fetch has begun. With one the counts agree
   (`CountsMatch`).
8. **Attempts that overlap the end of a connection** (`logic.c:911`,
   `net.c:269`, `net.c:620`, `logic.c:1014`). Controls come back, and the log in
   page opens, before the connection is cleaned up: a quick attempt meets an
   assertion, or has its key exchange read by the other thread; a user chosen in
   that moment leaves a state that turns every log in down.
   Two attempts can be under way at once (`logic.c:836`): the second reopens the
   database under its own password below the connection of the first.
   And the net thread, still in its loop, can find a new connection closed before
   `netInitialized` is assigned (`logic.c:861`), which then stays up with no
   connection there: no log in is taken any more, or an assertion ends the client.
9. **A state that was never set** (`net.c:339`).
10. **What a message is sent with** (`logic.c:1115`). `toUserId` is read three
    times while others may change it.
11. **The longest text** (`logic.c:1123`). 136 bytes are allowed, and assert.
12. **Controls are a flag, not a count** (`logic.c:236`).
13. **Lists and pages change under a frame** (`render.c:799`, `logic.c:794`,
    `logic.c:971`): a row that is gone, a buffer of another page, a freed user.
14. **A peer's clock ahead** (`logic.c:283`), and **a message to a client that
    lists nobody** (`list.c:96`): looking its sender up asserts that the list is
    not empty. Met in the proof of `CalmIsSafe`.
15. **The options file** (`options.c:186, 223, 230, 290, 303`): an empty line, a name
    within a value, options after the credentials, a kill while it is made. The
    credentials' payload is random base64, and may spell an option's name itself:
    the line is then read as that option, the log in is lost, and a theme or a
    language ends every start. The host is copied without its final zero.
16. **Refused requests** (`net.c:423`). The refusal of a request for messages is
    ignored: flag, counter and blocked controls stay until the connection breaks.
    A refused list gives the controls back and leaves its flag up, which the next
    refresh asserts it is not (net.c:694).
17. **The set-up's own millisecond** (`logic.c:281`). What is sent within it or the
    next, and not relayed, is never asked for.
18. **A refresh at the end of a job** (`logic.c:1155`). A set-up, deletion or
    reply that ends after its connection opens the users page over the log in,
    and the list is asked for without a connection, or on the next one with the
    anonymous token; the controls may not come back.
19. **A file that shrinks** (`logic.c:717`) to nothing while it is to be sent fails
    an assertion.
20. **The flag of files** (`net.c:492`) is tested and raised in two steps, with an
    exchange of the user's own beginning or ending in between.
21. **Queues destroyed under a waiter** (`net.c:1101`).

Met as well: a connection that breaks while messages are fetched leaves
`missingMessagesFetchers` at 1, and the first list of the next one meets the
assertion at logic.c:288. `InsertSucceeds` and `BlockedWhileFetching` of
MessageFetch are stated for at most one conversation because with two the
controls come back, and relayed messages are let in, after the first; the same
message can then be relayed and fetched and its second insertion aborts
(database.c:109). A message
relayed before a refresh empties the list is looked up in an empty list
(list.c:96). A decline has a body of two bytes (net.c:897) where the comment at
net.c:71 says its size is 0.

## Not modelled

- The layout of bytes: packing and unpacking of messages and users' records, the
  loop over a bundle's records (net.c:773), base64, paths, texts and the layout
  of pages. Sequential code that keeps no state.
- SQL, and the encryption of a row's fields. A conversation's streams are taken
  to come back from the database as they went in.
- The sorted insertion of `list.c`: rows are listed in the order the server has.
- The administrator's broadcast from the UI thread (logic.c:764), which
  encrypts with the stream the async thread uses: Session sends in one step.
- An options file of more than `MAX_FILE_SIZE` bytes.
- A message that cannot be sent for want of a connection: in set-up it is one of
  the reasons to `Abandon`; in MessageFetch it shows as `Disconnected`; in
  FileExchange connections hold. Session has the broken connections.
- libsodium, SQLite, SDL, nuklear: libraries. The server: from what the client
  sends and expects. The tests under `test/`: read as documentation.

## Plan

Every safety invariant and action property that a run checks is proved. Left:

1. Catching up with several conversations: which of the assertions on
   `missingMessagesFetchers` still hold, and that messages of one conversation
   are never asked for twice at a time.
2. Lemmas on queues that several proof modules state for themselves (what a
   push, a pop or a join does to the elements and their order).
