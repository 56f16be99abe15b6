------------------------- MODULE ConversationSetUp -------------------------
(***************************************************************************)
(* How two users come to share a conversation's keys: the four-message     *)
(* handshake of src/src/net.c between clients that run the same code, with *)
(* the jobs of src/src/logic.c that start it, answer it and store what it  *)
(* yields.  A client has three threads:                                    *)
(*   - the UI thread, which queues jobs for the user while controls are on *)
(*   - the async thread, which runs one job at a time and blocks in it;    *)
(*   - the net thread, which takes what the server relays: an invite       *)
(*     becomes a job, every other set-up message goes to one queue,        *)
(*     whoever sent it.                                                    *)
(*                                                                         *)
(* Key pairs are fresh names, a session is the pair of public keys it was  *)
(* derived from, and what is encrypted under a session's keys is that      *)
(* session: only a holder of the same keys can read it.  The server is     *)
(* external: it relays messages between two users in order.  Time is left  *)
(* out: a wait of 15 seconds may end at any moment, whatever the queue     *)
(* holds.                                                                  *)
(***************************************************************************)
EXTENDS Naturals, Sequences, Functions

CONSTANTS
  Clients,  (* the users, each with one client logged in                   *)
  Knows,    (* Knows[c]: the users in c's list, as the server last sent it *)
  Budget,   (* bound: how many starts, deletions and file exchanges happen *)
  None      (* no peer, no key, no session, no job                         *)

ASSUME KnowsAssumption == Knows \in [Clients -> SUBSET Clients]
ASSUME BudgetAssumption == Budget \in [{"start", "delete", "file"} -> Nat]

(* A public key: whose, made in which role of crypto_kx (the inviter acts  *)
(* as the client, the invitee as the server), the how-manyth it made.      *)
KeysOf(role) == [owner : Clients, role : {role}, nth : Nat \ {0}]
ServerKeys == KeysOf("server")
ClientKeys == KeysOf("client")
Keys == ServerKeys \cup ClientKeys
(* Session keys are derived from the two public keys. *)
Sessions == [server : ServerKeys, client : ClientKeys]

ASSUME NoneAssumption == None \notin Clients /\ None \notin Keys /\ None \notin Sessions

(* FLAG_EXCHANGE_KEYS is three messages, told apart by their size: 1 asks, *)
(* 2 declines and 32 carries the invitee's public key.                     *)
Messages ==
       [flag : {"invite", "deny"}, body : {None}]
  \cup [flag : {"keys"}, body : ServerKeys]
  \cup [flag : {"keysDone"}, body : ClientKeys]
  \cup [flag : {"headers", "headersDone"}, body : Sessions]
Message(flag, body) == [flag |-> flag, body |-> body]

Jobs ==
       [op : {"start", "delete", "sendFile"}, peer : Clients]
  \cup [op : {"reply", "receiveFile"}, peer : Clients \cup {None}]
  \cup [op : {"fetchUsers", "processUsers"}, peer : {None}]
Job(op, peer) == [op |-> op, peer |-> peer]

(* Where the async thread is: outside a job, about to refresh the list of  *)
(* users, in a dialog, in one of the four waits of a set-up, back in       *)
(* logic.c with the outcome, or in a file exchange.                        *)
Waits == {"waitKeys", "waitHeaders", "waitKeysDone", "waitHeadersDone"}
Tasks == [at : {"idle", "refresh", "dialog", "return", "fileDialog", "file"} \cup Waits,
          peer : Clients \cup {None},
          own : Keys \cup {None},
          session : Sessions \cup {None}]
Task(at, peer, own, session) ==
  [at |-> at, peer |-> peer, own |-> own, session |-> session]
Idle == Task("idle", None, None, None)

Asserts == {"none", "netCreateConversation", "netReplyToInvite", "netFetchUsers",
            "netFetchMessages", "processFetchedUsers", "updateUsersList",
            "listBinarySearch", "addConversation", "netBeginFileExchange",
            "netReplyToFileExchangeInvite"}

VARIABLES
  channel,        (* channel[s][r]: on its way from s to r, in order       *)
  setupQueue,     (* net.c: conversationSetupMessages                      *)
  settingUp,      (* net.c: settingUpConversation                          *)
  exchangingFile, (* net.c                                                 *)
  claim,          (* the net thread has seen both flags down and is about  *)
                  (* to raise one for this job                             *)
  jobs,           (* lifecycle.c: asyncActionsQueue                        *)
  task,           (* the async thread                                      *)
  allowInput,     (* render.c: the controls are on                         *)
  listed,         (* logic.c: usersList holds users                        *)
  fetching,       (* net.c: fetchingUsers, fetchingMessages                *)
  conversations,  (* the database's conversations table                    *)
  made,           (* history: the <<peer, session>> for which set-up       *)
                  (* returned coder streams                                *)
  keysMade,       (* key pairs generated so far                            *)
  failed,         (* the assertion that ended this client, or "none"       *)
  left            (* what is left of Budget                                *)

wire  == <<channel, setupQueue>>
flags == <<settingUp, exchangingFile>>
ui    == <<allowInput, listed, fetching>>
store == <<conversations, made>>
vars  == <<wire, flags, claim, jobs, task, ui, store, keysMade, failed, left>>

TypeOK ==
  /\ channel \in [Clients -> [Clients -> Seq(Messages)]]
  /\ setupQueue \in [Clients -> Seq(Messages)]
  /\ settingUp \in [Clients -> BOOLEAN]
  /\ exchangingFile \in [Clients -> BOOLEAN]
  /\ claim \in [Clients -> Jobs \cup {None}]
  /\ jobs \in [Clients -> Seq(Jobs)]
  /\ task \in [Clients -> Tasks]
  /\ allowInput \in [Clients -> BOOLEAN]
  /\ listed \in [Clients -> BOOLEAN]
  /\ fetching \in [Clients -> {"none", "users", "messages"}]
  /\ conversations \in [Clients -> [Clients -> Sessions \cup {None}]]
  /\ made \in [Clients -> SUBSET (Clients \X Sessions)]
  /\ keysMade \in [Clients -> Nat]
  /\ failed \in [Clients -> Asserts]
  /\ left \in [{"start", "delete", "file"} -> Nat]

(* Every client has logged in and received its users list. *)
Init ==
  /\ channel = [s \in Clients |-> [r \in Clients |-> <<>>]]
  /\ setupQueue = [c \in Clients |-> <<>>]
  /\ settingUp = [c \in Clients |-> FALSE]
  /\ exchangingFile = [c \in Clients |-> FALSE]
  /\ claim = [c \in Clients |-> None]
  /\ jobs = [c \in Clients |-> <<>>]
  /\ task = [c \in Clients |-> Idle]
  /\ allowInput = [c \in Clients |-> TRUE]
  /\ listed = [c \in Clients |-> TRUE]
  /\ fetching = [c \in Clients |-> "none"]
  /\ conversations = [c \in Clients |-> [p \in Clients |-> None]]
  /\ made = [c \in Clients |-> {}]
  /\ keysMade = [c \in Clients |-> 0]
  /\ failed = [c \in Clients |-> "none"]
  /\ left = Budget

-----------------------------------------------------------------------------
(* Steps the actions are made of.                                          *)

Alive(c) == failed[c] = "none"
Busy(c) == settingUp[c] \/ exchangingFile[c]

(* A failed assert: the process of c is gone, the rest stays as it was. *)
Abort(c, assertion) ==
  /\ failed' = [failed EXCEPT ![c] = assertion]
  /\ UNCHANGED <<wire, flags, claim, jobs, task, ui, store, keysMade, left>>

Send(c, p, flag, body) ==
  channel' = [channel EXCEPT ![c][p] = Append(@, Message(flag, body))]

(* lifecycleAsync *)
Push(c, op, peer) == jobs' = [jobs EXCEPT ![c] = Append(@, Job(op, peer))]

Spend(what) == left[what] > 0 /\ left' = [left EXCEPT ![what] = @ - 1]

BeginLoading(c) == allowInput' = [allowInput EXCEPT ![c] = FALSE]
FinishLoading(c) == allowInput' = [allowInput EXCEPT ![c] = TRUE]

(* finishSettingUpConversation *)
FinishSettingUp(c) ==
  /\ setupQueue' = [setupQueue EXCEPT ![c] = <<>>]
  /\ settingUp' = [settingUp EXCEPT ![c] = FALSE]

Enter(c, t) == task' = [task EXCEPT ![c] = t]
NextKey(c, role) == [owner |-> c, role |-> role, nth |-> keysMade[c] + 1]
MakeKey(c) == keysMade' = [keysMade EXCEPT ![c] = @ + 1]

-----------------------------------------------------------------------------
(* The UI thread.  Nothing can be chosen while the controls are off, nor   *)
(* from a list that is being refreshed.                                    *)

MayChoose(c) == Alive(c) /\ allowInput[c] /\ listed[c]

ChooseStart(c, p) ==
  /\ MayChoose(c) /\ p \in Knows[c] \ {c}
  /\ Spend("start")
  /\ BeginLoading(c)
  /\ Push(c, "start", p)
  /\ UNCHANGED <<wire, flags, claim, task, listed, fetching, store, keysMade, failed>>

ChooseDelete(c, p) ==
  /\ MayChoose(c) /\ p \in Knows[c] \ {c}
  /\ Spend("delete")
  /\ BeginLoading(c)
  /\ Push(c, "delete", p)
  /\ UNCHANGED <<wire, flags, claim, task, listed, fetching, store, keysMade, failed>>

(* A file is chosen on a conversation's page. *)
ChooseFile(c, p) ==
  /\ MayChoose(c) /\ conversations[c][p] # None
  /\ Spend("file")
  /\ BeginLoading(c)
  /\ Push(c, "sendFile", p)
  /\ UNCHANGED <<wire, flags, claim, task, listed, fetching, store, keysMade, failed>>

-----------------------------------------------------------------------------
(* The net thread.  It tests the two flags and raises one of them in two   *)
(* steps, with no lock held in between.                                    *)

(* processMessage: an invite is dropped while a flag is up; any other      *)
(* set-up message is queued, and who sent it is never looked at.           *)
Receive(c, s) ==
  /\ Alive(c) /\ claim[c] = None
  /\ channel[s][c] # <<>>
  /\ channel' = [channel EXCEPT ![s][c] = Tail(@)]
  /\ LET m == Head(channel[s][c]) IN
     IF m.flag = "invite"
       THEN /\ claim' = [claim EXCEPT ![c] = IF Busy(c) THEN None ELSE Job("reply", s)]
            /\ UNCHANGED setupQueue
       ELSE /\ setupQueue' = [setupQueue EXCEPT ![c] = Append(@, m)]
            /\ UNCHANGED claim
  /\ UNCHANGED <<flags, jobs, task, ui, store, keysMade, failed, left>>

(* An invite of somebody who is in no list, None: registered since, say.   *)
(* What such a user sends later changes nothing here.                      *)
ReceiveStrangersInvite(c) ==
  /\ Alive(c) /\ claim[c] = None
  /\ ~Busy(c)
  /\ Spend("start")
  /\ claim' = [claim EXCEPT ![c] = Job("reply", None)]
  /\ UNCHANGED <<wire, flags, jobs, task, ui, store, keysMade, failed>>

(* Somebody asks to send c a file: a user of the list or, None, another. *)
ReceiveFileAsk(c, s) ==
  /\ Alive(c) /\ claim[c] = None /\ s # c
  /\ ~Busy(c)
  /\ Spend("file")
  /\ claim' = [claim EXCEPT ![c] = Job("receiveFile", s)]
  /\ UNCHANGED <<wire, flags, jobs, task, ui, store, keysMade, failed>>

(* The flag goes up and the callback queues the job with controls off. *)
Claim(c) ==
  /\ Alive(c) /\ claim[c] # None
  /\ IF claim[c].op = "reply"
       THEN settingUp' = [settingUp EXCEPT ![c] = TRUE] /\ UNCHANGED exchangingFile
       ELSE exchangingFile' = [exchangingFile EXCEPT ![c] = TRUE] /\ UNCHANGED settingUp
  /\ BeginLoading(c)
  /\ jobs' = [jobs EXCEPT ![c] = Append(@, claim[c])]
  /\ claim' = [claim EXCEPT ![c] = None]
  /\ UNCHANGED <<wire, task, listed, fetching, store, keysMade, failed, left>>

(* The last bundle of users came in: it is handed to the async thread.     *)
(* (MessageFetch has the catching up step by step; here it is what may     *)
(* stand in a set-up's way, one round of it for all the conversations.)    *)
UsersFetched(c) ==
  /\ Alive(c) /\ claim[c] = None /\ fetching[c] = "users"
  /\ Push(c, "processUsers", None)
  /\ fetching' = [fetching EXCEPT ![c] = "none"]
  /\ UNCHANGED <<wire, flags, claim, task, allowInput, listed, store, keysMade, failed, left>>

(* The last missing message of the conversations came in. *)
MessagesFetched(c) ==
  /\ Alive(c) /\ claim[c] = None /\ fetching[c] = "messages"
  /\ fetching' = [fetching EXCEPT ![c] = "none"]
  /\ FinishLoading(c)
  /\ UNCHANGED <<wire, flags, claim, jobs, task, listed, store, keysMade, failed, left>>

-----------------------------------------------------------------------------
(* The async thread: jobs other than set-up.                               *)

Runs(c, op) ==
  Alive(c) /\ task[c].at = "idle" /\ jobs[c] # <<>> /\ Head(jobs[c]).op = op
Pop(c) == jobs' = [jobs EXCEPT ![c] = Tail(@)]

(* updateUsersList: the list is emptied and its refresh is queued; not     *)
(* while missing messages are fetched.                                     *)
RefreshAllowed(c) == fetching[c] # "messages"
RefreshList(c) ==
  /\ listed' = [listed EXCEPT ![c] = FALSE]
  /\ Push(c, "fetchUsers", None)

(* deleteConversation, up to the controls coming back... *)
RunDelete(c) ==
  /\ Runs(c, "delete")
  /\ conversations' = [conversations EXCEPT ![c][Head(jobs[c]).peer] = None]
  /\ Pop(c)
  /\ FinishLoading(c)
  /\ Enter(c, Task("refresh", None, None, None))
  /\ UNCHANGED <<wire, flags, claim, listed, fetching, made, keysMade, failed, left>>

(* ...and the refresh of the list, which takes them away again. *)
Refresh(c) ==
  /\ Alive(c) /\ task[c].at = "refresh"
  /\ \/ /\ RefreshAllowed(c)
        /\ RefreshList(c)
        /\ BeginLoading(c)
        /\ Enter(c, Idle)
        /\ UNCHANGED <<wire, flags, claim, fetching, store, keysMade, failed, left>>
     \/ ~RefreshAllowed(c) /\ Abort(c, "updateUsersList")

(* netFetchUsers *)
RunFetchUsers(c) ==
  /\ Runs(c, "fetchUsers")
  /\ \/ /\ fetching[c] = "none"
        /\ fetching' = [fetching EXCEPT ![c] = "users"]
        /\ Pop(c)
        /\ UNCHANGED <<wire, flags, claim, task, allowInput, listed, store, keysMade, failed, left>>
     \/ fetching[c] # "none" /\ Abort(c, "netFetchUsers")

(* processFetchedUsers: the controls come back at once, or after missing   *)
(* messages are fetched if there is a conversation.                        *)
RunProcessUsers(c) ==
  /\ Runs(c, "processUsers")
  /\ \/ /\ fetching[c] # "messages"
        /\ \A p \in Clients : conversations[c][p] = None
        /\ Pop(c)
        /\ listed' = [listed EXCEPT ![c] = TRUE]
        /\ FinishLoading(c)
        /\ UNCHANGED <<wire, flags, claim, task, fetching, store, keysMade, failed, left>>
     \/ /\ fetching[c] = "none"
        /\ \E p \in Clients : conversations[c][p] # None
        /\ Pop(c)
        /\ listed' = [listed EXCEPT ![c] = TRUE]
        /\ fetching' = [fetching EXCEPT ![c] = "messages"]
        /\ UNCHANGED <<wire, flags, claim, task, allowInput, store, keysMade, failed, left>>
     \/ /\ fetching[c] = "users"
        /\ \E p \in Clients : conversations[c][p] # None
        /\ Abort(c, "netFetchMessages")
     \/ fetching[c] = "messages" /\ Abort(c, "processFetchedUsers")

(* beginFileExchange up to netBeginFileExchange's wait. *)
RunSendFile(c) ==
  /\ Runs(c, "sendFile")
  /\ \/ /\ ~Busy(c)
        /\ exchangingFile' = [exchangingFile EXCEPT ![c] = TRUE]
        /\ Pop(c)
        /\ Enter(c, Task("file", Head(jobs[c]).peer, None, None))
        /\ UNCHANGED <<wire, settingUp, claim, ui, store, keysMade, failed, left>>
     \/ Busy(c) /\ Abort(c, "netBeginFileExchange")

(* replyToFileExchangeRequest: findUser, then the dialog. A sender who is  *)
(* not in the list gets no answer, and exchangingFile stays up.            *)
RunReceiveFile(c) ==
  /\ Runs(c, "receiveFile")
  /\ LET p == Head(jobs[c]).peer IN
     \/ /\ listed[c] /\ p \in Knows[c]
        /\ Pop(c)
        /\ Enter(c, Task("fileDialog", p, None, None))
        /\ UNCHANGED <<wire, flags, claim, ui, store, keysMade, failed, left>>
     \/ /\ listed[c] /\ p \notin Knows[c]
        /\ Pop(c)
        /\ FinishLoading(c)
        /\ UNCHANGED <<wire, flags, claim, task, listed, fetching, store, keysMade, failed, left>>
     \/ ~listed[c] /\ Abort(c, "listBinarySearch")

(* netReplyToFileExchangeInvite begins once the user has answered. *)
AnswerFile(c) ==
  /\ Alive(c) /\ task[c].at = "fileDialog"
  /\ \/ /\ ~settingUp[c] /\ exchangingFile[c]
        /\ Enter(c, Task("file", task[c].peer, None, None))
        /\ UNCHANGED <<wire, flags, claim, jobs, ui, store, keysMade, failed, left>>
     \/ /\ settingUp[c] \/ ~exchangingFile[c]
        /\ Abort(c, "netReplyToFileExchangeInvite")

(* finishFileExchanging, then finishLoading in logic.c. *)
EndFile(c) ==
  /\ Alive(c) /\ task[c].at = "file"
  /\ exchangingFile' = [exchangingFile EXCEPT ![c] = FALSE]
  /\ Enter(c, Idle)
  /\ FinishLoading(c)
  /\ UNCHANGED <<wire, settingUp, claim, jobs, listed, fetching, store, keysMade, failed, left>>

-----------------------------------------------------------------------------
(* The async thread: the inviter, startConversation and                    *)
(* netCreateConversation.                                                  *)

RunStart(c) ==
  /\ Runs(c, "start")
  /\ LET p == Head(jobs[c]).peer IN
     \/ /\ conversations[c][p] # None
        /\ Pop(c)
        /\ FinishLoading(c)
        /\ UNCHANGED <<wire, flags, claim, task, listed, fetching, store, keysMade, failed, left>>
     \/ /\ conversations[c][p] = None /\ ~Busy(c)
        /\ Pop(c)
        /\ settingUp' = [settingUp EXCEPT ![c] = TRUE]
        /\ setupQueue' = [setupQueue EXCEPT ![c] = <<>>]
        /\ Send(c, p, "invite", None)
        /\ Enter(c, Task("waitKeys", p, None, None))
        /\ UNCHANGED <<exchangingFile, claim, ui, store, keysMade, failed, left>>
     \/ /\ conversations[c][p] = None /\ Busy(c)
        /\ Abort(c, "netCreateConversation")

(* The next set-up message, when the thread waits for one of this kind.    *)
Gets(c, at, flag) ==
  /\ Alive(c) /\ task[c].at = at
  /\ setupQueue[c] # <<>> /\ Head(setupQueue[c]).flag = flag
Got(c) == Head(setupQueue[c]).body
TakeMessage(c) == setupQueue' = [setupQueue EXCEPT ![c] = Tail(@)]

(* cryptoDecryptSingle: what was encrypted under a session's key opens     *)
(* under that session's key and no other.                                  *)
OpensUnder(body, session) == body = session
DecryptionUnchecked(body, session) == TRUE

Decrypts(body, session) == OpensUnder(body, session)

(* The invitee's public key: make a key pair, send its public half. *)
InviterGetsKeys(c) ==
  LET own == NextKey(c, "client") IN
  /\ Gets(c, "waitKeys", "keys")
  /\ TakeMessage(c)
  /\ MakeKey(c)
  /\ Send(c, task[c].peer, "keysDone", own)
  /\ Enter(c, Task("waitHeaders", task[c].peer, own, [server |-> Got(c), client |-> own]))
  /\ UNCHANGED <<flags, claim, jobs, ui, store, failed, left>>

(* The invitee's stream header: the inviter has both streams, sends its    *)
(* own header and is done.                                                 *)
InviterGetsHeaders(c) ==
  LET s == task[c].session  p == task[c].peer IN
  /\ Gets(c, "waitHeaders", "headers")
  /\ Decrypts(Got(c), s)
  /\ Send(c, p, "headersDone", s)
  /\ FinishSettingUp(c)
  /\ made' = [made EXCEPT ![c] = @ \cup {<<p, s>>}]
  /\ Enter(c, Task("return", p, None, s))
  /\ UNCHANGED <<exchangingFile, claim, jobs, ui, conversations, keysMade, failed, left>>

-----------------------------------------------------------------------------
(* The async thread: the invitee, replyToConversationSetUpInvite and       *)
(* netReplyToConversationSetUpInvite.                                      *)

(* An invite makes the conversation one may still have with the inviter    *)
(* void, before anything is asked or found out.                            *)
ForgetConversation(c, p) ==
  conversations' = [conversations EXCEPT ![c] = [q \in Clients |-> IF q = p THEN None ELSE @[q]]]
KeepConversation(c, p) == UNCHANGED conversations

Outdated(c, p) == ForgetConversation(c, p)

RunReply(c) ==
  /\ Runs(c, "reply")
  /\ LET p == Head(jobs[c]).peer IN
     /\ Outdated(c, p)
     /\ \/ /\ listed[c] /\ p \in Knows[c]
           /\ Pop(c)
           /\ Enter(c, Task("dialog", p, None, None))
           /\ UNCHANGED <<allowInput, failed>>
        \/ /\ listed[c] /\ p \notin Knows[c]      \* goto releaseLocks
           /\ Pop(c)
           /\ FinishLoading(c)
           /\ UNCHANGED <<task, failed>>
        \/ /\ ~listed[c]
           /\ failed' = [failed EXCEPT ![c] = "listBinarySearch"]
           /\ UNCHANGED <<jobs, task, allowInput>>
  /\ UNCHANGED <<wire, flags, claim, listed, fetching, made, keysMade, left>>

(* The invite dialog has been answered. *)
Answers(c) == Alive(c) /\ task[c].at = "dialog" /\ settingUp[c] /\ ~exchangingFile[c]

AnswerAsserts(c) ==
  /\ Alive(c) /\ task[c].at = "dialog"
  /\ ~settingUp[c] \/ exchangingFile[c]
  /\ Abort(c, "netReplyToInvite")

AnswerAccept(c) ==
  LET own == NextKey(c, "server") IN
  /\ Answers(c)
  /\ setupQueue' = [setupQueue EXCEPT ![c] = <<>>]
  /\ MakeKey(c)
  /\ Send(c, task[c].peer, "keys", own)
  /\ Enter(c, Task("waitKeysDone", task[c].peer, own, None))
  /\ UNCHANGED <<flags, claim, jobs, ui, store, failed, left>>

(* Declined, or answered over 15 seconds after the invite came: the        *)
(* inviter is told only in the first case.                                 *)
AnswerDecline(c) ==
  /\ Answers(c)
  /\ FinishSettingUp(c)
  /\ Send(c, task[c].peer, "deny", None) \/ UNCHANGED channel
  /\ Enter(c, Task("return", task[c].peer, None, None))
  /\ UNCHANGED <<exchangingFile, claim, jobs, ui, store, keysMade, failed, left>>

(* The inviter's public key: derive the session, send the stream header. *)
InviteeGetsKeysDone(c) ==
  LET p == task[c].peer
      s == [server |-> task[c].own, client |-> Got(c)] IN
  /\ Gets(c, "waitKeysDone", "keysDone")
  /\ TakeMessage(c)
  /\ Send(c, p, "headers", s)
  /\ Enter(c, Task("waitHeadersDone", p, task[c].own, s))
  /\ UNCHANGED <<flags, claim, jobs, ui, store, keysMade, failed, left>>

(* The inviter's stream header: the invitee has both streams. *)
InviteeGetsHeadersDone(c) ==
  LET s == task[c].session  p == task[c].peer IN
  /\ Gets(c, "waitHeadersDone", "headersDone")
  /\ Decrypts(Got(c), s)
  /\ FinishSettingUp(c)
  /\ made' = [made EXCEPT ![c] = @ \cup {<<p, s>>}]
  /\ Enter(c, Task("return", p, None, s))
  /\ UNCHANGED <<channel, exchangingFile, claim, jobs, ui, conversations, keysMade, failed, left>>

-----------------------------------------------------------------------------
(* Both roles: how a set-up fails and what comes after it.                 *)

(* 15 seconds without a message, or a message of another flag or size, a   *)
(* key exchange or a decryption that fails, a message that cannot be sent. *)
LeaveSetUp(c) == FinishSettingUp(c)
LeaveFlagUp(c) == setupQueue' = [setupQueue EXCEPT ![c] = <<>>] /\ UNCHANGED settingUp

GiveUp(c) == LeaveSetUp(c)

Abandon(c) ==
  /\ Alive(c) /\ task[c].at \in Waits
  /\ GiveUp(c)
  /\ Enter(c, Task("return", task[c].peer, None, None))
  /\ UNCHANGED <<channel, exchangingFile, claim, jobs, ui, store, keysMade, failed, left>>

(* No streams came out: the user is told, and the controls come back. *)
ReleaseLocks(c) == FinishLoading(c)
KeepLocks(c) == UNCHANGED allowInput

WithoutStreams(c) == ReleaseLocks(c)

(* Back in startConversation or replyToConversationSetUpInvite: without    *)
(* coder streams only the controls come back; with them the conversation   *)
(* is stored (which fails if there is one) and the list refreshed first.   *)
Return(c) ==
  LET p == task[c].peer  s == task[c].session IN
  /\ Alive(c) /\ task[c].at = "return"
  /\ \/ /\ s = None
        /\ WithoutStreams(c)
        /\ Enter(c, Idle)
        /\ UNCHANGED <<wire, flags, claim, jobs, listed, fetching, store, keysMade, failed, left>>
     \/ /\ s # None
        /\ IF conversations[c][p] # None
             THEN Abort(c, "addConversation")
             ELSE /\ conversations' = [conversations EXCEPT ![c][p] = s]
                  /\ IF ~RefreshAllowed(c)
                       THEN /\ failed' = [failed EXCEPT ![c] = "updateUsersList"]
                            /\ UNCHANGED <<jobs, task, allowInput, listed>>
                       ELSE /\ RefreshList(c)
                            /\ FinishLoading(c)
                            /\ Enter(c, Idle)
                            /\ UNCHANGED failed
                  /\ UNCHANGED <<wire, flags, claim, fetching, made, keysMade, left>>

-----------------------------------------------------------------------------
ChoosesJob(c) ==
  \E p \in Clients : ChooseStart(c, p) \/ ChooseDelete(c, p) \/ ChooseFile(c, p)

NetThread(c) ==
  \/ \E s \in Clients : Receive(c, s)
  \/ ReceiveStrangersInvite(c)
  \/ \E s \in Clients \cup {None} : ReceiveFileAsk(c, s)
  \/ Claim(c) \/ UsersFetched(c) \/ MessagesFetched(c)

Answer(c) ==
  \/ AnswerAsserts(c) \/ AnswerAccept(c) \/ AnswerDecline(c) \/ AnswerFile(c)

AsyncThread(c) ==
  \/ RunStart(c) \/ InviterGetsKeys(c) \/ InviterGetsHeaders(c)
  \/ RunReply(c) \/ InviteeGetsKeysDone(c) \/ InviteeGetsHeadersDone(c)
  \/ Abandon(c) \/ Return(c)
  \/ RunDelete(c) \/ Refresh(c) \/ RunFetchUsers(c) \/ RunProcessUsers(c)
  \/ RunSendFile(c) \/ RunReceiveFile(c) \/ EndFile(c)

(* Nothing is under way at any client that still runs, and the users have  *)
(* done all they were going to do.                                         *)
Rest ==
  /\ \A c \in Clients : Alive(c) =>
       /\ task[c] = Idle /\ jobs[c] = <<>> /\ claim[c] = None /\ fetching[c] = "none"
       /\ \A s \in Clients : channel[s][c] = <<>>
  /\ UNCHANGED vars

Next ==
  \/ \E c \in Clients : ChoosesJob(c) \/ NetThread(c) \/ Answer(c) \/ AsyncThread(c)
  \/ Rest

Spec == Init /\ [][Next]_vars

(* The async thread is a loop that runs whatever is queued and whose waits *)
(* time out; the net thread, once in a callback, comes out of it; the      *)
(* server answers its requests; the users answer their dialogs.  There is  *)
(* no fairness for Receive: a message need not arrive.                     *)
Fairness ==
  \A c \in Clients :
    /\ WF_vars(AsyncThread(c)) /\ WF_vars(Answer(c))
    /\ WF_vars(Claim(c)) /\ WF_vars(UsersFetched(c)) /\ WF_vars(MessagesFetched(c))

FairSpec == Spec /\ Fairness

-----------------------------------------------------------------------------
(* Correctness.                                                            *)

(* Whatever invites cross, whoever answers late and however messages of    *)
(* different handshakes mix in the one queue of a client, set-up makes     *)
(* coder streams as SetUpAgreement says: first at the inviter, from a key  *)
(* of each of the two, then with the same keys at the invitee or never.    *)
(* (netCreateConversation and netReplyToConversationSetUpInvite, which do  *)
(* not look at who sent what they pop.)                                    *)
Agreement == INSTANCE SetUpAgreement
AgreementHolds == Agreement!Spec

(* When both users have a conversation stored with one another, it is the  *)
(* same one, however often either deleted it, set it up anew or gave up    *)
(* half way (replyToConversationSetUpInvite forgets the one it has first). *)
ConversationsMatch ==
  \A c, p \in Clients :
    conversations[c][p] # None /\ conversations[p][c] # None =>
      conversations[c][p] = conversations[p][c]

(* The insertion into the conversations table (logic.c:417 and 948), whose *)
(* primary key is the user, never meets a row (database.c:109): nothing    *)
(* else stores one while the async thread waits in a set-up.               *)
InsertSucceeds == \A c \in Clients : failed[c] # "addConversation"

(* net.c:791 and 887: a set-up starts with both flags down and an invite   *)
(* is answered with its own flag up.                                       *)
FlagAsserts ==
  \A c \in Clients : failed[c] \notin {"netCreateConversation", "netReplyToInvite"}

(* A set-up is under way: the async thread is in it, or the invite of a    *)
(* user of the list waits for it.                                          *)
UnderWay(c) ==
  /\ settingUp[c]
  /\ \/ task[c].at \in Waits \cup {"dialog"}
     \/ \E p \in Knows[c] : Job("reply", p) \in Range(jobs[c])

(* A set-up with a user of the list ends, whatever the other side does: a  *)
(* flag left up would keep the client from every later conversation and    *)
(* file.  (The invite of a user who is not in the list does leave it up:   *)
(* logic.c:410 leaves before net.c is told an answer.)                     *)
SetUpEnds == \A c \in Clients : UnderWay(c) ~> (~settingUp[c] \/ ~Alive(c))

(* The controls a job or an invite takes away from the user come back.     *)
ControlsReturn == \A c \in Clients : ~allowInput[c] ~> (allowInput[c] \/ ~Alive(c))

-----------------------------------------------------------------------------
(* The inductive invariant behind AgreementHolds: what a message on its    *)
(* way tells of the one who sent it, and at what stage a key can be where. *)

(* What c will pop from its one queue, if it waits long enough. *)
Pending(c) == Range(setupQueue[c]) \cup UNION {Range(channel[s][c]) : s \in Clients}

(* A waiting thread has a peer and, from the second message on, a key pair *)
(* of its own, which is the one its session is derived from.               *)
Shapes ==
  \A c \in Clients : LET t == task[c] IN
    /\ t.at \in Waits \cup {"dialog"} => t.peer \in Clients
    /\ t.at = "waitKeysDone" => t.own \in ServerKeys
    /\ t.at = "waitHeadersDone" => t.session \in Sessions /\ t.own = t.session.server
    /\ t.at = "waitHeaders" => t.session \in Sessions /\ t.own = t.session.client
    /\ t.at \in {"waitKeysDone", "waitHeadersDone", "waitHeaders"} => t.own.owner = c

(* No key is about that its owner has yet to make. *)
Generated(key) == key.nth <= keysMade[key.owner]
BothGenerated(session) == Generated(session.server) /\ Generated(session.client)
KeysAreGenerated ==
  \A c \in Clients :
    /\ \A m \in Pending(c) :
         /\ m.flag \in {"keys", "keysDone"} => Generated(m.body)
         /\ m.flag \in {"headers", "headersDone"} => BothGenerated(m.body)
    /\ \A x \in made[c] : BothGenerated(x[2])
    /\ task[c].own # None => Generated(task[c].own)
    /\ task[c].session # None => BothGenerated(task[c].session)

(* The invitee's key is with its peer and nobody else... *)
ServerKeyIsWithPeer ==
  \A c, p \in Clients : LET k == task[c].own IN
    task[c].at \in {"waitKeysDone", "waitHeadersDone"} =>
      /\ \A m \in Pending(p) : m.flag = "keys" /\ m.body = k => p = task[c].peer
      /\ task[p].at = "waitHeaders" /\ task[p].session.server = k => p = task[c].peer
      /\ \A x \in made[p] : x[2].server = k => p = task[c].peer /\ p # c

(* ...and so is the inviter's, as what its peer answers to it shows. *)
ClientKeyIsWithPeer ==
  \A c, p \in Clients : LET k == task[c].own IN
    task[c].at = "waitHeaders" =>
      /\ \A m \in Pending(p) :
           /\ m.flag = "keysDone" /\ m.body = k => p = task[c].peer
           /\ m.flag = "headers" /\ m.body.client = k => m.body.server.owner = task[c].peer
      /\ \A x \in made[p] : x[2].client # k

(* An invitee's key goes into one session. *)
OneSessionPerServerKey ==
  \A c, p \in Clients :
    /\ \A m \in Pending(c) : m.flag = "headers" =>
         /\ \A n \in Pending(p) : n.flag = "headers" /\ n.body.server = m.body.server => n.body = m.body
         /\ \A x \in made[p] : x[2].server = m.body.server => x[2] = m.body
    /\ task[c].at = "waitKeysDone" =>
         /\ \A m \in Pending(p) : m.flag = "headers" => m.body.server # task[c].own
         /\ \A x \in made[p] : x[2].server # task[c].own

(* The inviter has its streams before it sends the last message. *)
InviterHasFirst ==
  \A c \in Clients : \A m \in Pending(c) :
    m.flag = "headersDone" => <<m.body.server.owner, m.body>> \in made[m.body.client.owner]

SetUpInv ==
  /\ TypeOK /\ Shapes /\ KeysAreGenerated
  /\ ServerKeyIsWithPeer /\ ClientKeyIsWithPeer
  /\ OneSessionPerServerKey /\ InviterHasFirst

-----------------------------------------------------------------------------
(* The inductive invariant behind ConversationsMatch and InsertSucceeds:   *)
(* what two users may have of one another at each stage of a set-up.       *)

(* What c has of p: the conversation it stored or comes back to store. *)
Held(c, p) ==
  {s \in {conversations[c][p], task[c].session} \ {None} :
     s = conversations[c][p] \/ (task[c].at = "return" /\ task[c].peer = p)}

(* c waits for the stream header of p, which is on its way. *)
Matched(c, p) ==
  /\ task[c].at = "waitHeaders" /\ task[c].peer = p
  /\ Message("headers", task[c].session) \in Pending(c)

(* p waits for the stream header of c, which has its streams already. *)
Ahead(c, p) ==
  /\ task[p].at = "waitHeadersDone" /\ task[p].peer = c
  /\ <<p, task[p].session>> \in made[c]

HeldMatch ==
  \A c, p \in Clients : \A s \in Held(c, p), t \in Held(p, c) : s = t

(* While the inviter is about to get its streams the invitee has nothing   *)
(* of it yet, for it forgot what it had when it was invited...             *)
NothingHeldYet ==
  \A c, p \in Clients : Matched(c, p) =>
    p # c /\ Held(p, c) = {} /\ ~Matched(p, c) /\ ~Ahead(c, p)

(* ...and then the inviter has nothing but what the invitee waits for.     *)
HeldAhead ==
  \A c, p \in Clients : Ahead(c, p) =>
    Held(c, p) \subseteq {task[p].session} /\ ~Ahead(p, c)

(* Between a set-up's first check and its insertion nobody stores a row.   *)
RowFree ==
  \A c \in Clients :
    Alive(c) /\ task[c].at \in Waits \cup {"dialog", "return"} =>
      task[c].peer \in Clients /\ conversations[c][task[c].peer] = None

MatchInv ==
  /\ SetUpInv
  /\ HeldMatch /\ NothingHeldYet /\ HeldAhead
  /\ RowFree /\ InsertSucceeds
=============================================================================
