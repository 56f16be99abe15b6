---------------------------- MODULE FileExchange ----------------------------
(***************************************************************************)
(* The exchange of files between users: src/src/net.c (the requests, the   *)
(* answer, the chunks) with the jobs of src/src/logic.c around it.  In     *)
(* every client                                                            *)
(*   - the UI thread opens the file to be sent and queues its job,         *)
(*   - the async thread sends a file or receives one, and blocks in it,    *)
(*   - the net thread raises exchangingFile for a request and queues all   *)
(*     else that has to do with files for the async thread.                *)
(*                                                                         *)
(* A file is a sequence of pieces, a chunk one of them encrypted for a     *)
(* conversation; it opens with the streams of that conversation only, in   *)
(* any order (they are restored for each chunk).  Sizes are in chunks.     *)
(* Time-outs come at any time; a client may leave, what is sent to it then *)
(* is not taken.  Conversations exist between all who know one another,    *)
(* and the connections hold.                                               *)
(***************************************************************************)
EXTENDS Naturals, Sequences, SequencesExt, FiniteSets

CONSTANTS
  Clients,
  None,      (* no client, no file                                         *)
  Files,     (* what can be chosen                                         *)
  Size,      (* Size[f]: how many chunks it makes                          *)
  Changed,   (* what is read when the file is not what was offered         *)
  Lists,     (* who may be in whose list of users                          *)
  MaxAsks,   (* bound: how often a file is chosen or a client leaves       *)
  Growth     (* bound: by how many chunks a file grows while it is sent    *)

ASSUME FilesAssumption ==
  /\ Size \in [Files -> Nat \ {0}]
  /\ Changed \notin Files /\ None \notin Files \cup {Changed} \cup Clients
ASSUME ListsAssumption == Lists \subseteq [Clients -> SUBSET Clients]
ASSUME BoundAssumption == MaxAsks \in Nat /\ Growth \in Nat

Sizes == {Size[f] : f \in Files}
(* What is read of the file f, which may have changed, grown or shrunk.    *)
PiecesOf(f) == ({f} \X (1..Size[f])) \cup ({Changed} \X (1..(Size[f] + Growth)))
Pieces == UNION {PiecesOf(f) : f \in Files}
Whole == [f \in Files |-> [i \in 1..Size[f] |-> <<f, i>>]]

(* A request carries size and hash, the hash stands for the file.          *)
Messages ==
       [kind : {"ask"}, from : Clients, size : Sizes, what : Files]
  \cup [kind : {"answer"}, from : Clients, size : Sizes \cup {0}, what : {None}]
  \cup [kind : {"chunk"}, from : Clients, size : {1}, what : Pieces \X Clients]
Message(kind, from, size, what) == [kind |-> kind, from |-> from, size |-> size, what |-> what]

Replies == [op : {"reply"}, peer : Clients, file : Files]
Jobs == [op : {"send"}, peer : {None}, file : Files] \cup Replies
Job(op, peer, file) == [op |-> op, peer |-> peer, file |-> file]

Steps == {"answer", "sending", "sent", "dialog", "receiving", "received"}
Idle == [at |-> "idle", peer |-> None, file |-> None, index |-> 0]

VARIABLES
  known,           (* known[c]: who is in c's list of users; it stays      *)
  channel,         (* channel[c][d]: from c to d, through the server       *)
  exchangingFile,  (* net.c                                                *)
  fileExchangeMessages,  (* net.c                                          *)
  raising,         (* the job of the request for which the net thread has  *)
                   (* seen exchangingFile down and is about to raise it    *)
  toUserId,        (* logic.c: with whom the open conversation is          *)
  rwops,           (* logic.c: closed, reading or writing                  *)
  got,             (* logic.c: what went into the file, its hash, counter  *)
  jobs,            (* lifecycle.c: asyncActionsQueue                       *)
  async,           (* the async thread: where it is in which exchange      *)
  allowInput,      (* render.c: the controls are on                        *)
  offered, kept,   (* as in FileDelivery; what is kept is on the disk      *)
  accepted,        (* history: <<by, from, size>> of the acceptances sent  *)
  unanswered,      (* history: a request was left without an answer        *)
  gone,            (* who has left                                         *)
  failed,          (* failed[c]: the assertion that ended c, or "none"     *)
  asks             (* what was done of the bound                           *)

netc    == <<exchangingFile, fileExchangeMessages>>
logic   == <<toUserId, rwops, got>>
users   == <<known, gone>>
history == <<offered, kept, accepted, unanswered>>
vars    == <<channel, netc, logic, jobs, async, allowInput, history, users, raising, failed, asks>>

TypeOK ==
  /\ known \in Lists
  /\ channel \in [Clients -> [Clients -> Seq(Messages)]]
  /\ exchangingFile \in [Clients -> BOOLEAN]
  /\ fileExchangeMessages \in [Clients -> Seq(Messages)]
  /\ raising \in [Clients -> Replies \cup {None}]
  /\ toUserId \in [Clients -> Clients]
  /\ rwops \in [Clients -> {"closed", "reading", "writing"}]
  /\ got \in [Clients -> Seq(Pieces)]
  /\ jobs \in [Clients -> Seq(Jobs)]
  /\ async \in [Clients -> [at : Steps, peer : Clients, file : Files, index : Nat] \cup {Idle}]
  /\ allowInput \in [Clients -> BOOLEAN]
  /\ offered \subseteq Clients \X Clients \X Files
  /\ kept \in [Clients -> SUBSET (Clients \X Seq(Pieces))]
  /\ accepted \subseteq Clients \X Clients \X Sizes
  /\ unanswered \in [Clients -> BOOLEAN] /\ gone \subseteq Clients
  /\ failed \in [Clients -> {"none", "rwops", "exchangingFile", "index", "chunk"}]
  /\ asks \in 0..MaxAsks

(* Everyone is on the page of a conversation, who has one to talk to. *)
Init ==
  /\ known \in Lists
  /\ channel = [c \in Clients |-> [d \in Clients |-> <<>>]]
  /\ exchangingFile = [c \in Clients |-> FALSE]
  /\ fileExchangeMessages = [c \in Clients |-> <<>>]
  /\ raising = [c \in Clients |-> None]
  /\ toUserId \in {t \in [Clients -> Clients] :
                    \A c \in Clients : IF known[c] = {} THEN t[c] = c ELSE t[c] \in known[c]}
  /\ rwops = [c \in Clients |-> "closed"] /\ got = [c \in Clients |-> <<>>]
  /\ jobs = [c \in Clients |-> <<>>] /\ async = [c \in Clients |-> Idle]
  /\ allowInput = [c \in Clients |-> TRUE]
  /\ offered = {} /\ kept = [c \in Clients |-> {}]
  /\ accepted = {} /\ unanswered = [c \in Clients |-> FALSE]
  /\ gone = {} /\ failed = [c \in Clients |-> "none"] /\ asks = 0

-----------------------------------------------------------------------------
Alive(c) == failed[c] = "none" /\ c \notin gone

(* A failed assert ends the process: nothing else of the step is left. *)
Abort(c, assertion) ==
  /\ failed' = [failed EXCEPT ![c] = assertion]
  /\ UNCHANGED <<channel, netc, logic, jobs, async, allowInput, history, users, raising, asks>>

Set(f, c, value) == [f EXCEPT ![c] = value]
Send(from, to, message) == channel' = [channel EXCEPT ![from][to] = Append(@, message)]
At(c, step) == Alive(c) /\ async[c].at = step
Goes(c, step) == async' = [async EXCEPT ![c].at = step]

(* beginLoading, finishLoading *)
BeginLoading(c) == allowInput' = Set(allowInput, c, FALSE)
FinishLoading(c) == allowInput' = Set(allowInput, c, TRUE)

(* finishFileExchanging *)
LowerFlag(c) == exchangingFile' = Set(exchangingFile, c, FALSE)
KeepFlag(c) == UNCHANGED exchangingFile

ReleaseFlag(c) == LowerFlag(c)
FinishFileExchanging(c) ==
  /\ fileExchangeMessages' = Set(fileExchangeMessages, c, <<>>)
  /\ ReleaseFlag(c)

-----------------------------------------------------------------------------
(* The UI thread.                                                          *)

(* The conversation with another user is opened. *)
ConversationOpened(c, d) ==
  /\ Alive(c) /\ allowInput[c] /\ d \in known[c] \ {toUserId[c]} /\ asks < MaxAsks
  /\ toUserId' = Set(toUserId, c, d)
  /\ UNCHANGED <<channel, netc, rwops, got, jobs, async, allowInput, history, users, raising, failed, asks>>

(* logicFileChooseResultHandler, with a file that can be opened. *)
FileChosen(c, f) ==
  /\ Alive(c) /\ allowInput[c] /\ toUserId[c] \in known[c] /\ asks < MaxAsks
  /\ \/ /\ rwops[c] = "closed"
        /\ rwops' = Set(rwops, c, "reading")
        /\ BeginLoading(c)
        /\ jobs' = [jobs EXCEPT ![c] = Append(@, Job("send", None, f))]
        /\ asks' = asks + 1
        /\ UNCHANGED <<channel, netc, toUserId, got, async, history, users, raising, failed>>
     \/ rwops[c] # "closed" /\ Abort(c, "rwops")

(* lifecycleClean and logicClean, once the async thread has ended its job. *)
Leave(c) ==
  /\ At(c, "idle")
  /\ asks < MaxAsks
  /\ \/ /\ rwops[c] = "closed"
        /\ gone' = gone \cup {c}
        /\ asks' = asks + 1
        /\ UNCHANGED <<known, channel, netc, logic, jobs, async, allowInput, history, raising, failed>>
     \/ rwops[c] # "closed" /\ Abort(c, "rwops")

-----------------------------------------------------------------------------
(* The net thread.                                                         *)

Takes(d, c) == Alive(c) /\ raising[c] = None /\ channel[d][c] # <<>>
Taken(d, c) == channel' = [channel EXCEPT ![d][c] = Tail(@)]

(* processFileExchangeRequestMessage: while anything is exchanged, a       *)
(* request is dropped...                                                   *)
TakeRequest(d, c) ==
  LET m == Head(channel[d][c]) IN
  /\ Takes(d, c) /\ m.kind = "ask"
  /\ Taken(d, c)
  /\ raising' = Set(raising, c, IF exchangingFile[c] THEN None ELSE Job("reply", m.from, m.what))
  /\ UNCHANGED <<netc, logic, jobs, async, allowInput, history, users, failed, asks>>

(* ...otherwise, and without a lock, the flag goes up, and logic.c's       *)
(* onFileExchangeInviteReceived queues the job.                            *)
RaiseFlag(c) ==
  /\ Alive(c) /\ raising[c] # None
  /\ exchangingFile' = Set(exchangingFile, c, TRUE)
  /\ BeginLoading(c)
  /\ jobs' = [jobs EXCEPT ![c] = Append(@, raising[c])]
  /\ raising' = Set(raising, c, None)
  /\ UNCHANGED <<channel, fileExchangeMessages, logic, async, history, users, failed, asks>>

(* processMessage, FLAG_FILE and the answers of FLAG_FILE_ASK *)
TakeFileMessage(d, c) ==
  LET m == Head(channel[d][c]) IN
  /\ Takes(d, c) /\ m.kind # "ask"
  /\ Taken(d, c)
  /\ fileExchangeMessages' = [fileExchangeMessages EXCEPT ![c] = Append(@, m)]
  /\ UNCHANGED <<exchangingFile, logic, jobs, async, allowInput, history, users, raising, failed, asks>>

-----------------------------------------------------------------------------
(* The async thread, sending.                                              *)

Runs(c, op) == At(c, "idle") /\ jobs[c] # <<>> /\ Head(jobs[c]).op = op
Pop(c) == jobs' = [jobs EXCEPT ![c] = Tail(@)]

(* beginFileExchange: the checksum, then netBeginFileExchange. *)
RunSend(c) ==
  LET f == Head(jobs[c]).file IN
  /\ Runs(c, "send")
  /\ \/ /\ ~exchangingFile[c]
        /\ exchangingFile' = Set(exchangingFile, c, TRUE)
        /\ fileExchangeMessages' = Set(fileExchangeMessages, c, <<>>)
        /\ Send(c, toUserId[c], Message("ask", c, Size[f], f))
        /\ offered' = offered \cup {<<c, toUserId[c], f>>}
        /\ async' = Set(async, c, [at |-> "answer", peer |-> toUserId[c], file |-> f, index |-> 0])
        /\ Pop(c)
        /\ UNCHANGED <<logic, allowInput, kept, accepted, unanswered, users, raising, failed, asks>>
     \/ exchangingFile[c] /\ Abort(c, "exchangingFile")

(* The answer must be the size that was offered; who sent it is not asked. *)
SizeMatches(c, m) == m.kind = "answer" /\ m.size = Size[async[c].file]
AnyAnswer(c, m) == m.kind = "answer"

Accepts(c, m) == SizeMatches(c, m)

TakeAnswer(c) ==
  LET m == Head(fileExchangeMessages[c]) IN
  /\ At(c, "answer") /\ fileExchangeMessages[c] # <<>>
  /\ IF Accepts(c, m)
       THEN /\ fileExchangeMessages' = [fileExchangeMessages EXCEPT ![c] = Tail(@)]
            /\ Goes(c, "sending")
            /\ UNCHANGED exchangingFile
       ELSE FinishFileExchanging(c) /\ Goes(c, "sent")
  /\ UNCHANGED <<channel, logic, jobs, allowInput, history, users, raising, failed, asks>>

(* queueWaitAndPop returns after TIMEOUT. *)
TimesOut(c) == Goes(c, "sent")
ReturnsAtOnce(c) == Goes(c, "idle")

StopWaiting(c) == TimesOut(c)

AnswerTimesOut(c) ==
  /\ At(c, "answer")
  /\ FinishFileExchanging(c)
  /\ StopWaiting(c)
  /\ UNCHANGED <<channel, logic, jobs, allowInput, history, users, raising, failed, asks>>

(* nextFileChunkSupplier: the next piece of the file as it is now, for the *)
(* conversation that is open now.  SDL_RWread finds as much as there is by *)
(* then: the file may have grown since it was offered...                   *)
SendChunk(c) ==
  LET i == async[c].index + 1 IN
  /\ At(c, "sending")
  /\ \E p \in PiecesOf(async[c].file) :
       p[2] = i /\ Send(c, async[c].peer, Message("chunk", c, 1, <<p, toUserId[c]>>))
  /\ async' = [async EXCEPT ![c].index = i]
  /\ UNCHANGED <<netc, logic, jobs, allowInput, history, users, raising, failed, asks>>

(* ...or shrunk, but there must be a first piece (logic.c:717). *)
SendEnds(c) ==
  /\ At(c, "sending")
  /\ \/ /\ async[c].index > 0
        /\ FinishFileExchanging(c)
        /\ Goes(c, "sent")
        /\ UNCHANGED <<channel, logic, jobs, allowInput, history, users, raising, failed, asks>>
     \/ async[c].index = 0 /\ Abort(c, "index")

(* Back in beginFileExchange: the file is closed. *)
Close(c) == rwops' = Set(rwops, c, "closed")
LeaveOpen(c) == UNCHANGED rwops

CloseFile(c) == Close(c)

Sent(c) ==
  /\ At(c, "sent")
  /\ CloseFile(c)
  /\ FinishLoading(c)
  /\ async' = Set(async, c, Idle)
  /\ UNCHANGED <<channel, netc, toUserId, got, jobs, history, users, raising, failed, asks>>

-----------------------------------------------------------------------------
(* The async thread, receiving.                                            *)

(* replyToFileExchangeRequest: a user who is not in the list is not        *)
(* answered; otherwise the user is asked, and the thread waits.            *)
RunReply(c) ==
  LET j == Head(jobs[c]) IN
  /\ Runs(c, "reply")
  /\ Pop(c)
  /\ IF j.peer \in known[c]
       THEN /\ async' = Set(async, c, [at |-> "dialog", peer |-> j.peer, file |-> j.file, index |-> 0])
            /\ UNCHANGED <<allowInput, unanswered>>
       ELSE /\ unanswered' = Set(unanswered, c, TRUE)
            /\ FinishLoading(c)
            /\ UNCHANGED async
  /\ UNCHANGED <<channel, netc, logic, offered, kept, accepted, users, raising, failed, asks>>

(* The user declines, or no file can be made to write to; too late, there  *)
(* is no answer any more.  netReplyToFileExchangeInvite lowers the flag.   *)
Decline(c) ==
  /\ At(c, "dialog")
  /\ \/ /\ exchangingFile[c]
        /\ \/ Send(c, async[c].peer, Message("answer", c, 0, None))
           \/ UNCHANGED channel
        /\ FinishFileExchanging(c)
        /\ FinishLoading(c)
        /\ async' = Set(async, c, Idle)
        /\ UNCHANGED <<logic, jobs, history, users, raising, failed, asks>>
     \/ ~exchangingFile[c] /\ Abort(c, "exchangingFile")

(* The user accepts: a file is opened to write to, and the size sent       *)
(* back... *)
Accept(c) ==
  LET f == async[c].file IN
  /\ At(c, "dialog")
  /\ \/ /\ rwops[c] = "closed" /\ exchangingFile[c]
        /\ rwops' = Set(rwops, c, "writing")
        /\ got' = Set(got, c, <<>>)
        /\ fileExchangeMessages' = Set(fileExchangeMessages, c, <<>>)
        /\ \/ /\ Send(c, async[c].peer, Message("answer", c, Size[f], None))
              /\ accepted' = accepted \cup {<<c, async[c].peer, Size[f]>>}
              /\ Goes(c, "receiving")
              /\ UNCHANGED exchangingFile
           \/ /\ ReleaseFlag(c)   \* too late
              /\ Goes(c, "received")
              /\ UNCHANGED <<channel, accepted>>
        /\ UNCHANGED <<toUserId, jobs, allowInput, offered, kept, unanswered, users, raising, failed, asks>>
     \/ rwops[c] # "closed" /\ Abort(c, "rwops")
     \/ rwops[c] = "closed" /\ ~exchangingFile[c] /\ Abort(c, "exchangingFile")

(* ...then nextFileChunkReceiver writes whatever chunks come, if they open *)
(* with the streams of the conversation with the user who asked.           *)
ReceiveChunk(c) ==
  LET m == Head(fileExchangeMessages[c]) IN
  /\ At(c, "receiving") /\ fileExchangeMessages[c] # <<>>
  /\ \/ /\ m.kind # "chunk"
        /\ fileExchangeMessages' = [fileExchangeMessages EXCEPT ![c] = Tail(@)]
        /\ UNCHANGED <<got, failed>>
     \/ /\ m.kind = "chunk" /\ m.from = async[c].peer /\ m.what[2] = c
        /\ got' = [got EXCEPT ![c] = Append(@, m.what[1])]
        /\ fileExchangeMessages' = [fileExchangeMessages EXCEPT ![c] = Tail(@)]
        /\ UNCHANGED failed
     \/ /\ m.kind = "chunk" /\ ~(m.from = async[c].peer /\ m.what[2] = c)
        /\ failed' = [failed EXCEPT ![c] = "chunk"]
        /\ UNCHANGED <<got, fileExchangeMessages>>
  /\ UNCHANGED <<channel, exchangingFile, toUserId, rwops, jobs, async, allowInput, history, users, raising, asks>>

(* Nothing came for the length of the time-out: that is the end. *)
ReceiveEnds(c) ==
  /\ At(c, "receiving")
  /\ FinishFileExchanging(c)
  /\ Goes(c, "received")
  /\ UNCHANGED <<channel, logic, jobs, allowInput, history, users, raising, failed, asks>>

(* Back in replyToFileExchangeRequest: the file is kept if size and hash   *)
(* are those of the request, else it is removed.                           *)
HashesEqual(c) == got[c] = Whole[async[c].file]
SizesEqual(c) == Len(got[c]) = Size[async[c].file]

Matches(c) == HashesEqual(c)

Received(c) ==
  /\ At(c, "received")
  /\ CloseFile(c)
  /\ kept' = IF Matches(c) THEN [kept EXCEPT ![c] = @ \cup {<<async[c].peer, got[c]>>}] ELSE kept
  /\ FinishLoading(c)
  /\ async' = Set(async, c, Idle)
  /\ UNCHANGED <<channel, netc, toUserId, got, jobs, offered, accepted, unanswered, users, raising, failed, asks>>

-----------------------------------------------------------------------------
UIThread(c) ==
  \/ \E d \in Clients : ConversationOpened(c, d)
  \/ \E f \in Files : FileChosen(c, f)

AsyncThread(c) ==
  \/ RunSend(c) \/ TakeAnswer(c) \/ AnswerTimesOut(c) \/ SendChunk(c) \/ SendEnds(c) \/ Sent(c)
  \/ RunReply(c) \/ Decline(c) \/ Accept(c) \/ ReceiveChunk(c) \/ ReceiveEnds(c) \/ Received(c)

NetThread(c) ==
  \/ \E d \in Clients : TakeRequest(d, c) \/ TakeFileMessage(d, c)
  \/ RaiseFlag(c)

(* Nothing is under way. *)
Rest ==
  /\ \A c \in Clients : Alive(c) => async[c] = Idle /\ jobs[c] = <<>> /\ raising[c] = None
  /\ \A c, d \in Clients : Alive(d) => channel[c][d] = <<>>
  /\ UNCHANGED vars

Next ==
  \/ \E c \in Clients : UIThread(c) \/ AsyncThread(c) \/ NetThread(c) \/ Leave(c)
  \/ Rest

Spec == Init /\ [][Next]_vars

(* The loops of the threads go on, the user answers the dialog in the end, *)
(* and what waits for the others stops at its time-out, since no more than *)
(* finitely many messages can keep it from that.                           *)
Fairness == \A c \in Clients : WF_vars(AsyncThread(c)) /\ WF_vars(NetThread(c))
FairSpec == Spec /\ Fairness

-----------------------------------------------------------------------------
(* Correctness.                                                            *)

(* The promise of FileDelivery: what is kept is a whole copy of a file     *)
(* that was offered to the one who keeps it, whatever chunks of whatever   *)
(* exchange arrived meanwhile, and whatever became of the file since.      *)
Delivery == INSTANCE FileDelivery WITH offered <- offered, kept <- kept
DeliveryHolds == Delivery!Spec

(* The sender sends after an acceptance of the size it offered that was    *)
(* meant for it (the only condition net.c:1021 to 1026 asks for)...        *)
SentAfterAcceptance ==
  \A c \in Clients : At(c, "sending") =>
    \E d \in Clients : <<d, c, Size[async[c].file]>> \in accepted

(* ...but not of the one it sends to: "returns true if another user        *)
(* (identified by toId) accepted the invite" (net.h:90)                    *)
SentToAcceptor ==
  \A c \in Clients : At(c, "sending") =>
    <<async[c].peer, c, Size[async[c].file]>> \in accepted

(* A file is open to be read exactly while its job is queued or sends it,  *)
(* to be written exactly while something is received: nothing is left      *)
(* open, on any way out (logic.c:537, 637, 667 and 1192 rely on it).       *)
OpenForItsJob ==
  \A c \in Clients : Alive(c) =>
    /\ rwops[c] = "reading" <=>
         \/ async[c].at \in {"answer", "sending", "sent"}
         \/ \E j \in Range(jobs[c]) : j.op = "send"
    /\ rwops[c] = "writing" <=> async[c].at \in {"receiving", "received"}

(* An exchange ends at both sides: the controls come back, and             *)
(* exchangingFile comes down, or every later file and conversation would   *)
(* be refused; but for a request of a user who is not in the list          *)
(* (logic.c:598).                                                          *)
Busy(c) == exchangingFile[c] \/ ~allowInput[c]
Free(c) == allowInput[c] /\ (~exchangingFile[c] \/ unanswered[c])
ExchangeEnds == \A c \in Clients : Busy(c) ~> (Free(c) \/ ~Alive(c))
=============================================================================
