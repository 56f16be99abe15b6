------------------------------- MODULE Session -------------------------------
(***************************************************************************)
(* A client's sessions with the server, from the start of the program to   *)
(* its end and to its next start: src/src/logic.c (credentials, log in,    *)
(* disconnection), src/src/net.c (the connection) and src/src/lifecycle.c  *)
(* (threads and leaving).  Three threads of one client:                    *)
(*   - the UI thread, with the pages on which the user acts,               *)
(*   - the async thread, which runs queued jobs and makes the connection,  *)
(*   - the net thread (a timer's callback), which takes what the server    *)
(*     sends and cleans the connection up when it is broken.               *)
(* Each keeps its own idea of the connection: logic.c in netInitialized    *)
(* and state, net.c in this and in a state of its own, render.c in page.   *)
(*                                                                         *)
(* The server is external.  A member of Credentials is a user name with    *)
(* its password; no two have the same password.                            *)
(***************************************************************************)
EXTENDS Naturals, Sequences, SequencesExt

CONSTANTS
  Credentials,  (* what users may type in                                  *)
  None,         (* no credentials                                          *)
  MaxAttempts,  (* bound: how often credentials are entered                *)
  MaxActs,      (* bound: what the user does besides                       *)
  MaxStarts     (* bound: how often the program is started                 *)

ASSUME CredentialsAssumption == None \notin Credentials
ASSUME BoundsAssumption ==
  MaxAttempts \in Nat /\ MaxActs \in Nat /\ MaxStarts \in Nat \ {0}

(* net.c's States, and what SDL_malloc may hold where they are kept. *)
Handshake == <<"keyReceived", "keySent", "headerReceived", "established">>
NetStates == Range(Handshake) \cup {"authenticated", "finishedWithError", "undefined"}

Tokens == {"anonymous", "session"}
Requests == [kind : {"logIn", "register"}, who : Credentials, token : Tokens]
       \cup [kind : {"fetchUsers", "shutdown", "broadcast"}, who : {None}, token : Tokens]
Replies == {"loggedIn", "logInRefused", "registered", "registerRefused",
            "users", "invite", "error", "closed"}

Attempts == {"logIn", "register"}
Jobs == [op : Attempts, who : Credentials]
   \cup [op : {"show", "fetchUsers", "processUsers", "shutdown"}, who : {None}]
   \cup [op : {"continue", "start", "delete", "reply"}, who : {None}]  \* conversations
Job(op, who) == [op |-> op, who |-> who]

VARIABLES
  accounts,       (* the server: who is registered                         *)
  toServer, toClient, closing,  (* the connection, and whether the server  *)
                  (* is done with it                                       *)
  dbKey,          (* on disk: whose password the database is made under    *)
  saved,          (* on disk: the credentials for logging in at the start  *)
  life,           (* lifecycle.c: running; leaving; gone                   *)
  jobs,           (* lifecycle.c: asyncActionsQueue                        *)
  async, job,     (* the async thread: where it is in which job            *)
  net,            (* the net thread: where it is                           *)
  state,          (* logic.c: state, of the user                           *)
  netInitialized, databaseInitialized, autoLoggingIn,   (* logic.c         *)
  netThis,        (* net.c: this                                           *)
  netState,       (* net.c: state                                          *)
  leftOver,       (* what the memory of the next this may hold as state    *)
  progress,       (* how many steps of the key exchange were gone through  *)
  token,          (* net.c: token                                          *)
  loggedInAs,     (* the server: who is logged in on this connection       *)
  page, allowInput,  (* render.c                                           *)
  attempts, acts, starts,  (* what was done of the bounds                  *)
  late,           (* history: a page of a session was opened, or a user    *)
                  (* chosen on it, when its connection was gone            *)
  twice,          (* history: credentials were taken while an attempt with *)
                  (* others was under way                                  *)
  early,          (* history: a connection was found closed before logic.c *)
                  (* had noted that it was made                            *)
  failed          (* the assertion that ended the client, or "none"        *)

link  == <<toServer, toClient, closing>>
disk  == <<dbKey, saved>>
logic == <<state, netInitialized, databaseInitialized, autoLoggingIn>>
netc  == <<netThis, netState, leftOver, progress, token, loggedInAs>>
ui    == <<page, allowInput>>
bound == <<attempts, acts, starts>>
history == <<late, twice, early>>
vars  == <<accounts, link, disk, life, jobs, async, job, net, logic, netc, ui,
           bound, history, failed>>

TypeOK ==
  /\ accounts \subseteq Credentials
  /\ toServer \in Seq(Requests) /\ toClient \in Seq(Replies) /\ closing \in BOOLEAN
  /\ dbKey \in Credentials \cup {None} /\ saved \in Credentials \cup {None}
  /\ life \in {"running", "leaving", "gone"}
  /\ jobs \in Seq(Jobs) /\ job \in Jobs
  /\ async \in {"idle", "netInit", "handshake", "compare", "secured", "credentials"}
  /\ net \in {"idle", "loggedIn", "disconnected", "finishLoading", "showLogIn", "netClean", "listen"}
  /\ state \in {"unauthenticated", "awaiting", "authenticated", "exchanging"}
  /\ netInitialized \in BOOLEAN /\ databaseInitialized \in BOOLEAN /\ autoLoggingIn \in BOOLEAN
  /\ netThis \in BOOLEAN /\ netState \in NetStates /\ leftOver \in NetStates
  /\ progress \in 0..Len(Handshake) /\ token \in Tokens /\ loggedInAs \in Credentials \cup {None}
  /\ page \in {"splash", "logIn", "register", "users", "conversation", "admin"}
  /\ allowInput \in BOOLEAN
  /\ attempts \in 0..MaxAttempts /\ acts \in 0..MaxActs /\ starts \in 1..MaxStarts
  /\ late \in BOOLEAN /\ twice \in BOOLEAN /\ early \in BOOLEAN
  /\ failed \in {"none", "netInitialized", "netThis", "netInit", "netLogIn", "netFetchUsers",
                 "netCurrentUserId", "netShutdownServer", "netSendBroadcast",
                 "netCreateConversation", "netReplyToConversationSetUpInvite",
                 "databaseInitialized", "netListen", "receive", "netClean", "freed"}

(* logicInit *)
Init ==
  /\ accounts \in SUBSET Credentials
  /\ toServer = <<>> /\ toClient = <<>> /\ closing = FALSE
  /\ dbKey = None /\ saved = None
  /\ life = "running" /\ jobs = <<Job("show", None)>>
  /\ state = "unauthenticated" /\ netInitialized = FALSE
  /\ databaseInitialized = FALSE /\ autoLoggingIn = FALSE
  /\ leftOver = "undefined"
  /\ page = "splash" /\ allowInput = TRUE
  /\ async = "idle" /\ job = Job("show", None) /\ net = "idle"
  /\ netThis = FALSE /\ netState = "undefined" /\ progress = 0
  /\ token = "anonymous" /\ loggedInAs = None
  /\ attempts = 0 /\ acts = 0 /\ starts = 1
  /\ late = FALSE /\ twice = FALSE /\ early = FALSE /\ failed = "none"

-----------------------------------------------------------------------------
Alive == failed = "none" /\ life # "gone"
Secured == progress = Len(Handshake)

(* A failed assert ends the process: nothing else of the step is left. *)
Abort(assertion) ==
  /\ failed' = assertion
  /\ UNCHANGED <<accounts, link, disk, life, jobs, async, job, net, logic, netc, ui, bound, history>>

(* lifecycleAsync: dropped once the program is leaving. *)
Push(j) == jobs' = IF life = "running" THEN Append(jobs, j) ELSE jobs

(* netSend: what is sent after the server is done gets nowhere; what is    *)
(* sent without the key exchange it cannot read, and ends the connection.  *)
Request(kind, who) == [kind |-> kind, who |-> who, token |-> token]
Send(request) ==
  \/ closing /\ UNCHANGED link
  \/ ~closing /\ Secured /\ toServer' = Append(toServer, request) /\ UNCHANGED <<toClient, closing>>
  \/ ~closing /\ ~Secured /\ toServer' = <<>> /\ toClient' = Append(toClient, "closed") /\ closing' = TRUE

FinishLoading == allowInput' = TRUE
KeepLoading == UNCHANGED allowInput

-----------------------------------------------------------------------------
(* The server.                                                             *)

Answers(request) ==
  CASE request.kind = "logIn" ->
         IF request.who \in accounts THEN <<"loggedIn">> ELSE <<"logInRefused", "closed">>
    [] request.kind = "register" ->
         IF request.who \in accounts THEN <<"registerRefused", "closed">> ELSE <<"registered", "closed">>
    [] request.kind = "fetchUsers" -> <<"users">>
    [] request.kind = "shutdown" -> <<"closed">>
    [] request.kind = "broadcast" -> <<>>

ServerAnswers ==
  LET request == Head(toServer) IN
  /\ Alive /\ toServer # <<>>
  /\ toClient' = toClient \o Answers(request)
  /\ closing' = Contains(Answers(request), "closed")
  /\ toServer' = IF closing' THEN <<>> ELSE Tail(toServer)
  /\ accounts' = IF request.kind = "register" THEN accounts \cup {request.who} ELSE accounts
  /\ loggedInAs' = IF Contains(Answers(request), "loggedIn") THEN request.who ELSE loggedInAs
  /\ UNCHANGED <<disk, life, jobs, async, job, net, logic, netThis, netState, leftOver, progress,
                 token, ui, bound, history, failed>>

(* It passes on another user's invite to a conversation, refuses what an   *)
(* administrator asks for, or the connection breaks.                       *)
ServerFails ==
  /\ Alive /\ netThis /\ Secured /\ ~closing /\ acts < MaxActs /\ acts' = acts + 1
  /\ \/ /\ toServer # <<>> /\ Head(toServer).kind \in {"shutdown", "broadcast"}
        /\ toClient' = Append(toClient, "error") /\ toServer' = Tail(toServer)
        /\ UNCHANGED closing
     \/ /\ loggedInAs # None
        /\ toClient' = Append(toClient, "invite")
        /\ UNCHANGED <<toServer, closing>>
     \/ /\ toClient' = Append(toClient, "closed") /\ toServer' = <<>>
        /\ closing' = TRUE
  /\ UNCHANGED <<accounts, disk, life, jobs, async, job, net, logic, netc, ui,
                 attempts, starts, history, failed>>

-----------------------------------------------------------------------------
(* The UI thread.  Input is taken while allowInput.                        *)

Acts(pages) ==
  /\ Alive /\ life = "running" /\ allowInput /\ page \in pages
  /\ acts < MaxActs /\ acts' = acts + 1
  /\ UNCHANGED <<attempts, starts>>

(* An attempt is queued, or makes its connection. *)
Connecting == async \in {"netInit", "handshake", "compare", "secured"}
UnderWay(queue) == Connecting \/ \E j \in Range(queue) : j.op \in Attempts

(* logicOnCredentialsReceived, which the UI thread calls, or a job. *)
TakeCredentials(op, who, rest) ==
  \/ /\ state = "unauthenticated" /\ ~netInitialized
     /\ state' = "awaiting"
     /\ allowInput' = FALSE
     /\ twice' = (twice \/ UnderWay(rest))
     /\ jobs' = IF life = "running" THEN Append(rest, Job(op, who)) ELSE rest
     /\ UNCHANGED <<accounts, link, disk, life, async, job, net, netInitialized,
                    databaseInitialized, autoLoggingIn, netc, page, late, early, failed>>
  \/ state = "unauthenticated" /\ netInitialized /\ Abort("netInitialized")

CredentialsEntered(who) ==
  /\ Alive /\ life = "running" /\ allowInput /\ page \in {"logIn", "register"}
  /\ attempts < MaxAttempts
  /\ TakeCredentials(page, who, jobs)
  /\ failed' = "none" => attempts' = attempts + 1 /\ UNCHANGED <<acts, starts>>

(* logicOnLoginRegisterPageQueriedByUser *)
PageQueried ==
  /\ Acts({"logIn", "register"})
  /\ page' = IF page = "logIn" THEN "register" ELSE "logIn"
  /\ UNCHANGED <<accounts, link, disk, life, jobs, async, job, net, logic, netc, allowInput, history, failed>>

(* logicOnAutoLoggingInChanged: what was saved is cut off the file when it *)
(* is turned off.                                                          *)
AutoLoggingInChanged ==
  /\ Acts({"logIn"})
  /\ saved' = IF autoLoggingIn THEN None ELSE saved
  /\ autoLoggingIn' = ~autoLoggingIn
  /\ UNCHANGED <<accounts, link, dbKey, life, jobs, async, job, net, state, netInitialized,
                 databaseInitialized, netc, ui, history, failed>>

(* logicOnUserForConversationChosen: none is started with who is offline. *)
UserChosen ==
  /\ Acts({"users"})
  /\ state' = "exchanging"
  /\ \/ /\ allowInput' = FALSE
        /\ \E op \in {"continue", "start", "delete"} : Push(Job(op, None))
     \/ UNCHANGED <<allowInput, jobs>>
  /\ late' = (late \/ ~netInitialized)
  /\ UNCHANGED <<accounts, link, disk, life, async, job, net, netInitialized,
                 databaseInitialized, autoLoggingIn, netc, page, twice, early, failed>>

(* logicOnAdminActionsPageRequested *)
PageChanged ==
  /\ Acts({"users", "admin"})
  /\ page' = IF page = "users" THEN "admin" ELSE "users"
  /\ UNCHANGED <<accounts, link, disk, life, jobs, async, job, net, logic, netc, allowInput, history, failed>>

(* logicOnReturnFromConversationPageRequested *)
ConversationLeft ==
  \/ /\ Acts({"conversation"}) /\ databaseInitialized
     /\ page' = "users"
     /\ UNCHANGED <<accounts, link, disk, life, jobs, async, job, net, logic, netc, allowInput, history, failed>>
  \/ /\ Alive /\ life = "running" /\ allowInput /\ page = "conversation" /\ acts < MaxActs
     /\ ~databaseInitialized /\ Abort("databaseInitialized")

(* logicOnUpdateUsersListClicked, by the user: the list is asked for anew. *)
UpdateClicked ==
  \/ /\ Acts({"users"}) /\ databaseInitialized
     /\ allowInput' = FALSE
     /\ Push(Job("fetchUsers", None))
     /\ late' = (late \/ ~netInitialized)
     /\ UNCHANGED <<accounts, link, disk, life, async, job, net, logic, netc, page, twice, early, failed>>
  \/ /\ Alive /\ life = "running" /\ allowInput /\ page = "users" /\ acts < MaxActs
     /\ ~databaseInitialized /\ Abort("databaseInitialized")

(* logicOnServerShutdownRequested *)
ShutdownRequested ==
  /\ Acts({"admin"}) /\ netInitialized
  /\ allowInput' = FALSE
  /\ Push(Job("shutdown", None))
  /\ UNCHANGED <<accounts, link, disk, life, async, job, net, logic, netc, page, history, failed>>

(* logicOnBroadcastMessageSendRequested, sent by the UI thread itself. *)
BroadcastRequested ==
  /\ Alive /\ life = "running" /\ allowInput /\ page = "admin" /\ acts < MaxActs
  /\ \/ /\ netInitialized /\ netThis
        /\ Send(Request("broadcast", None))
        /\ acts' = acts + 1
        /\ UNCHANGED <<accounts, disk, life, jobs, async, job, net, logic, netc,
                       ui, attempts, starts, history, failed>>
     \/ ~(netInitialized /\ netThis) /\ Abort("netSendBroadcast")

(* SDL_QUIT: lifecycleLoop is left for lifecycleClean, which takes the     *)
(* timer away and waits for the async thread.                              *)
Quit ==
  /\ Alive /\ life = "running"
  /\ life' = "leaving"
  /\ UNCHANGED <<accounts, link, disk, jobs, async, job, net, logic, netc, ui, bound, history, failed>>

(* When that has ended its job, the rest of lifecycleClean: jobs are       *)
(* dropped and modules cleaned, by the UI thread.  A callback of the timer *)
(* that is still running works on what was freed.                          *)
Clean ==
  /\ Alive /\ life = "leaving" /\ async = "idle"
  /\ \/ /\ life' = "gone"
        /\ netInitialized => netThis
        /\ jobs' = <<>>
        /\ netThis' = (netThis /\ ~netInitialized)
        /\ closing' = FALSE /\ toServer' = <<>> /\ toClient' = <<>>
        /\ databaseInitialized' = FALSE
        /\ net' = "idle"
        /\ UNCHANGED <<accounts, disk, async, job, state, netInitialized, autoLoggingIn,
                       netState, leftOver, progress, token, loggedInAs, ui, bound, history, failed>>
     \/ netInitialized /\ ~netThis /\ Abort("netClean")
     \/ net # "idle" /\ Abort("freed")

(* optionsCredentials() != NULL *)
CredentialsStored == saved # None
CredentialsExpected == TRUE

LogsInAtStart == CredentialsStored

(* The program is started anew: only what is on the disk is left.  Saved   *)
(* credentials mean that the user is logged in without being asked.        *)
Restart ==
  /\ life = "gone" /\ failed = "none"
  /\ starts < MaxStarts /\ starts' = starts + 1
  /\ life' = "running" /\ jobs' = <<Job("show", None)>>
  /\ state' = "unauthenticated" /\ netInitialized' = FALSE
  /\ databaseInitialized' = FALSE /\ autoLoggingIn' = LogsInAtStart
  /\ leftOver' = "undefined"
  /\ page' = "splash" /\ allowInput' = TRUE
  /\ netThis' = FALSE /\ netState' = "undefined" /\ progress' = 0
  /\ token' = "anonymous" /\ loggedInAs' = None
  /\ late' = FALSE /\ twice' = FALSE /\ early' = FALSE
  /\ UNCHANGED <<accounts, link, disk, async, job, net, attempts, acts, failed>>

-----------------------------------------------------------------------------
(* The async thread.                                                       *)

Runs(op) ==
  /\ Alive /\ life = "running" /\ async = "idle"
  /\ jobs # <<>> /\ Head(jobs).op = op
Pop == jobs' = Tail(jobs)

(* showLoginPageOrPerformAutoLoggingIn *)
RunShow ==
  /\ Runs("show")
  /\ \/ /\ ~autoLoggingIn
        /\ Pop
        /\ page' = "logIn"
        /\ UNCHANGED <<accounts, link, disk, life, async, job, net, logic, netc, allowInput, history, failed>>
     \/ /\ autoLoggingIn
        /\ TakeCredentials("logIn", saved, Tail(jobs))
  /\ UNCHANGED bound

(* databaseInit: a new database is made under the password, an old one     *)
(* opens under its own.                                                    *)
KeyMatches(who) == dbKey \in {None, who}
KeyUnchecked(who) == TRUE

checkKey(who) == KeyMatches(who)

(* Leaving an attempt without a connection. *)
AttemptFails ==
  /\ state' = "unauthenticated"
  /\ page' = IF autoLoggingIn THEN "logIn" ELSE page
  /\ FinishLoading

(* processCredentials, up to netInit: before a log in the credentials are  *)
(* saved, and the database is opened under the password.                   *)
RunCredentials ==
  LET who == Head(jobs).who IN
  /\ Runs("logIn") \/ Runs("register")
  /\ Pop
  /\ job' = Head(jobs)
  /\ IF Head(jobs).op = "register"
       THEN async' = "netInit" /\ UNCHANGED <<disk, databaseInitialized, state, ui>>
       ELSE /\ saved' = IF autoLoggingIn THEN who ELSE saved
            /\ databaseInitialized' = checkKey(who)
            /\ IF checkKey(who)
                 THEN /\ dbKey' = IF dbKey = None THEN who ELSE dbKey
                      /\ async' = "netInit"
                      /\ UNCHANGED <<state, ui>>
                 ELSE AttemptFails /\ UNCHANGED <<dbKey, async>>
  /\ UNCHANGED <<accounts, link, life, net, netInitialized, autoLoggingIn, netc, bound, history, failed>>

(* netClean: this is freed, and its state may be found in the next one. *)
CleanUp ==
  /\ netThis' = FALSE /\ leftOver' = netState
  /\ toServer' = <<>> /\ toClient' = <<>> /\ closing' = FALSE
LeaveThis ==
  /\ UNCHANGED <<netThis, leftOver, link>>

GivesUp == CleanUp

(* netInit: no socket and no connection, or the key exchange is next.  The *)
(* state is what the memory holds.                                         *)
NetInit ==
  /\ Alive /\ async = "netInit"
  /\ \/ /\ ~netThis
        /\ netThis' = TRUE /\ async' = "handshake"
        /\ netState' \in {"undefined", leftOver}
        /\ progress' = 0 /\ token' = "anonymous" /\ loggedInAs' = None
        /\ UNCHANGED <<accounts, link, disk, life, jobs, job, net, logic, leftOver, ui, bound, history, failed>>
     \/ /\ ~netThis
        /\ async' = "idle" /\ netInitialized' = FALSE
        /\ AttemptFails
        /\ UNCHANGED <<accounts, link, disk, life, jobs, job, net, databaseInitialized, autoLoggingIn,
                       netc, bound, history, failed>>
     \/ netThis /\ Abort("netThis")

(* initiateSecuredConnection: the steps of the key exchange in order...    *)
HandshakeStep ==
  /\ Alive /\ async = "handshake"
  /\ progress' = progress + 1
  /\ netState' = Handshake[progress']
  /\ async' = IF progress' = Len(Handshake) THEN "compare" ELSE "handshake"
  /\ UNCHANGED <<accounts, link, disk, life, jobs, job, net, logic, netThis, leftOver, token,
                 loggedInAs, ui, bound, history, failed>>

(* ...each of which may fail, or wait for the server until it times out.   *)
TimesOut == async' = "compare"
WaitsOn == UNCHANGED async

StopWaiting == TimesOut

HandshakeFails ==
  /\ Alive /\ async = "handshake"
  /\ StopWaiting
  /\ UNCHANGED <<accounts, link, disk, life, jobs, job, net, logic, netc, ui, bound, history, failed>>

(* state != STATE_SECURE_CONNECTION_ESTABLISHED *)
StateEstablished == netState = "established"
StateHeaderReceived == netState \in {"headerReceived", "established"}

Established == StateEstablished

(* The end of netInit: the state tells whether there is a connection; if   *)
(* there is none, processCredentials tells the user...                     *)
NetInitReturns ==
  /\ Alive /\ async = "compare"
  /\ \/ /\ netThis /\ Established
        /\ async' = "secured"
        /\ UNCHANGED <<accounts, link, disk, life, jobs, job, net, logic, netc, ui, bound, history, failed>>
     \/ /\ netThis /\ ~Established
        /\ netInitialized' = FALSE
        /\ async' = "idle"
        /\ GivesUp
        /\ AttemptFails
        /\ UNCHANGED <<accounts, disk, life, jobs, job, net, databaseInitialized, autoLoggingIn,
                       netState, progress, token, loggedInAs, bound, history, failed>>
     \/ ~netThis /\ Abort("netInit")

(* ...and if there is one, notes it.                                       *)
NetInitialized ==
  /\ Alive /\ async = "secured"
  /\ netInitialized' = TRUE
  /\ async' = "credentials"
  /\ UNCHANGED <<accounts, link, disk, life, jobs, job, net, state, databaseInitialized,
                 autoLoggingIn, netc, ui, bound, history, failed>>

(* netLogIn, netRegister *)
SendCredentials ==
  /\ Alive /\ async = "credentials"
  /\ \/ /\ netThis
        /\ Send(Request(job.op, job.who))
        /\ async' = "idle"
        /\ UNCHANGED <<accounts, disk, life, jobs, job, net, logic, netc, ui, bound, history, failed>>
     \/ ~netThis /\ Abort("netLogIn")

(* netFetchUsers and netShutdownServer *)
RunRequest(op, assertion) ==
  /\ Runs(op)
  /\ \/ /\ netThis
        /\ Send(Request(op, None))
        /\ Pop
        /\ UNCHANGED <<accounts, disk, life, async, job, net, logic, netc, ui,
                       bound, history, failed>>
     \/ ~netThis /\ Abort(assertion)

(* processFetchedUsers, with no messages to fetch *)
RunProcessUsers ==
  /\ Runs("processUsers")
  /\ \/ /\ netThis /\ databaseInitialized
        /\ Pop
        /\ page' = "users"
        /\ late' = (late \/ ~netInitialized)
        /\ FinishLoading
        /\ UNCHANGED <<accounts, link, disk, life, async, job, net, logic, netc, bound, twice, early, failed>>
     \/ ~(netThis /\ databaseInitialized) /\ Abort("netCurrentUserId")

(* continueConversation: with the conversation or without one. *)
RunContinue ==
  /\ Runs("continue")
  /\ \/ /\ databaseInitialized
        /\ Pop
        /\ page' \in {"conversation", page}
        /\ late' = (late \/ ~netInitialized)
        /\ FinishLoading
        /\ UNCHANGED <<accounts, link, disk, life, async, job, net, logic, netc, bound, twice, early, failed>>
     \/ ~databaseInitialized /\ Abort("databaseInitialized")

(* updateUsersList, at the end of a job. *)
UpdateUsersList ==
  /\ page' = "users"
  /\ late' = (late \/ ~netInitialized)
  /\ jobs' = Append(Tail(jobs), Job("fetchUsers", None))

(* startConversation and replyToConversationSetUpInvite, which wait for    *)
(* the other side: this is their end, and the connection may have gone     *)
(* since they began (ConversationSetUp has what is between).               *)
RunSetUp(op, assertion) ==
  /\ Runs(op)
  /\ \/ /\ databaseInitialized
        /\ \/ /\ UpdateUsersList
              /\ state' = IF op = "reply" THEN "exchanging" ELSE state
           \/ Pop /\ UNCHANGED <<page, late, state>>
        /\ FinishLoading
        /\ UNCHANGED <<accounts, link, disk, life, async, job, net, netInitialized, databaseInitialized,
                       autoLoggingIn, netc, bound, twice, early, failed>>
     \/ ~databaseInitialized /\ Abort("databaseInitialized")
     \/ ~netThis /\ Abort(assertion)

(* deleteConversation: its controls come back with the list. *)
RunDelete ==
  /\ Runs("delete")
  /\ \/ /\ databaseInitialized
        /\ UpdateUsersList
        /\ allowInput' = FALSE
        /\ UNCHANGED <<accounts, link, disk, life, async, job, net, logic, netc, bound, twice, early, failed>>
     \/ ~databaseInitialized /\ Abort("databaseInitialized")

-----------------------------------------------------------------------------
(* The net thread.                                                         *)

(* netListen, receive: only with logic.c's leave does it look. *)
Takes(reply) ==
  /\ Alive /\ netInitialized /\ net = "idle"
  /\ toClient # <<>> /\ Head(toClient) = reply
  /\ toClient' = Tail(toClient)
  /\ UNCHANGED <<toServer, closing>>

(* processMessagesFromServer, FLAG_LOGGED_IN: the token first... *)
StoreToken == token' = "session"
StoreNoToken == UNCHANGED token

TokenReceived == StoreToken

LoggedIn ==
  /\ Takes("loggedIn")
  /\ netState' = "authenticated"
  /\ TokenReceived
  /\ net' = "loggedIn"
  /\ UNCHANGED <<accounts, disk, life, jobs, async, job, logic, netThis, leftOver, progress,
                 loggedInAs, ui, bound, history, failed>>

(* ...then logic.c's onLogInResult, which has the users fetched. *)
OnLoggedIn ==
  /\ Alive /\ net = "loggedIn"
  /\ net' = "idle"
  /\ state' = "authenticated"
  /\ Push(Job("fetchUsers", None))
  /\ UNCHANGED <<accounts, link, disk, life, async, job, netInitialized, databaseInitialized,
                 autoLoggingIn, netc, ui, bound, history, failed>>

(* processErrors, FLAG_LOG_IN: the user may try again. *)
LogInRefused ==
  /\ Takes("logInRefused")
  /\ netState' = "finishedWithError"
  /\ state' = "unauthenticated"
  /\ page' = "logIn"
  /\ FinishLoading
  /\ UNCHANGED <<accounts, disk, life, jobs, async, job, net, netInitialized, databaseInitialized,
                 autoLoggingIn, netThis, leftOver, progress, token, loggedInAs, bound, history, failed>>

(* FLAG_REGISTERED, and FLAG_REGISTER in processErrors: onRegisterResult   *)
(* leaves the controls as they are.                                        *)
RegisterResult ==
  /\ \/ Takes("registered") /\ UNCHANGED netState
     \/ Takes("registerRefused") /\ netState' = "finishedWithError"
  /\ state' = "unauthenticated"
  /\ UNCHANGED <<accounts, disk, life, jobs, async, job, net, netInitialized, databaseInitialized,
                 autoLoggingIn, netThis, leftOver, progress, token, loggedInAs, ui, bound, history, failed>>

(* onUsersFetched *)
UsersFetched ==
  /\ Takes("users")
  /\ Push(Job("processUsers", None))
  /\ UNCHANGED <<accounts, disk, life, async, job, net, logic, netc, ui, bound, history, failed>>

(* onConversationSetUpInviteReceived *)
InviteReceived ==
  /\ Takes("invite")
  /\ allowInput' = FALSE
  /\ Push(Job("reply", None))
  /\ UNCHANGED <<accounts, disk, life, async, job, net, logic, netc, page, bound, history, failed>>

(* onErrorReceived *)
ErrorReceived ==
  /\ Takes("error")
  /\ FinishLoading
  /\ UNCHANGED <<accounts, disk, life, jobs, async, job, net, logic, netc, page, bound, history, failed>>

(* Nothing more can be read: logic.c's onDisconnected, step by step...     *)
Disconnected ==
  /\ Takes("closed")
  /\ netInitialized' = FALSE
  /\ net' = "disconnected"
  /\ UNCHANGED <<accounts, disk, life, jobs, async, job, state, databaseInitialized, autoLoggingIn,
                 netc, ui, bound, history, failed>>

ForgetUser == state' = "unauthenticated"
RememberUser == UNCHANGED state

UserGone == ForgetUser

OnDisconnected ==
  /\ Alive /\ net = "disconnected"
  /\ UserGone
  /\ net' = "finishLoading"
  /\ UNCHANGED <<accounts, link, disk, life, jobs, async, job, netInitialized, databaseInitialized,
                 autoLoggingIn, netc, ui, bound, history, failed>>

ControlsBack == FinishLoading

OnDisconnectedControls ==
  /\ Alive /\ net = "finishLoading"
  /\ ControlsBack
  /\ net' = "showLogIn"
  /\ UNCHANGED <<accounts, link, disk, life, jobs, async, job, logic, netc, page, bound, history, failed>>

OnDisconnectedPage ==
  /\ Alive /\ net = "showLogIn"
  /\ page' = "logIn"
  /\ net' = "netClean"
  /\ UNCHANGED <<accounts, link, disk, life, jobs, async, job, logic, netc, allowInput, bound, history, failed>>

(* ...and after it net.c's own netClean... *)
OnDisconnectedClean ==
  /\ Alive /\ net = "netClean"
  /\ CleanUp
  /\ net' = "listen"
  /\ UNCHANGED <<accounts, disk, life, jobs, async, job, logic, netState, progress, token, loggedInAs,
                 ui, bound, history, failed>>

(* ...and the loop of netListen again, which does not ask logic.c: if a    *)
(* new connection is being made by then, this thread may take of its key   *)
(* exchange, or reach for what netInit frees, or find it closed before     *)
(* logic.c has noted that it is there.                                     *)
ListenAgain ==
  /\ Alive /\ net = "listen"
  /\ \/ /\ net' = "idle"
        /\ UNCHANGED <<accounts, link, disk, life, jobs, async, job, logic, netc, ui, bound, history, failed>>
     \/ /\ netThis /\ (async = "handshake" \/ (async = "compare" /\ ~Established))
        /\ Abort("receive")
     \/ /\ netThis /\ ((async = "compare" /\ Established) \/ async = "secured")
        /\ toClient # <<>> /\ Head(toClient) = "closed" /\ toClient' = Tail(toClient)
        /\ netInitialized' = FALSE
        /\ net' = "disconnected"
        /\ early' = TRUE
        /\ UNCHANGED <<accounts, toServer, closing, disk, life, jobs, async, job, state,
                       databaseInitialized, autoLoggingIn, netc, ui, bound, late, twice, failed>>

(* The timer's next call of netListen, where logic.c takes a connection    *)
(* for made that net.c has not.                                            *)
ListenNowhere ==
  /\ Alive /\ life = "running" /\ net = "idle" /\ netInitialized /\ ~netThis
  /\ Abort("netListen")

-----------------------------------------------------------------------------
UserActs ==
  \/ \E who \in Credentials : CredentialsEntered(who)
  \/ PageQueried \/ AutoLoggingInChanged \/ UserChosen \/ PageChanged
  \/ ConversationLeft \/ UpdateClicked \/ ShutdownRequested \/ BroadcastRequested \/ Quit \/ Restart

AsyncThread ==
  \/ RunShow \/ RunCredentials \/ NetInit \/ HandshakeFails
  \/ NetInitReturns \/ NetInitialized \/ SendCredentials
  \/ RunRequest("fetchUsers", "netFetchUsers") \/ RunRequest("shutdown", "netShutdownServer")
  \/ RunProcessUsers \/ RunContinue \/ RunDelete
  \/ RunSetUp("start", "netCreateConversation") \/ RunSetUp("reply", "netReplyToConversationSetUpInvite")

NetThread ==
  \/ LoggedIn \/ OnLoggedIn \/ LogInRefused \/ RegisterResult \/ UsersFetched
  \/ InviteReceived \/ ErrorReceived
  \/ Disconnected \/ OnDisconnected \/ OnDisconnectedControls \/ OnDisconnectedPage
  \/ OnDisconnectedClean \/ ListenAgain \/ ListenNowhere

(* Nothing is under way, or the client is gone. *)
Quiet ==
  /\ life = "running" /\ jobs = <<>> /\ async = "idle" /\ net = "idle"
  /\ toServer = <<>> /\ toClient = <<>>
Rest == (Alive => Quiet) /\ UNCHANGED vars

Next ==
  \/ UserActs \/ AsyncThread \/ HandshakeStep \/ NetThread \/ Clean
  \/ ServerAnswers \/ ServerFails \/ Rest

Spec == Init /\ [][Next]_vars

(* The loops of the two threads go on, lifecycleClean is not stopped, the  *)
(* server answers and closes a connection it has refused or registered on. *)
(* It need not answer in the key exchange: a wait there ends by its        *)
(* time-out if by nothing else.                                            *)
Fairness ==
  WF_vars(AsyncThread) /\ WF_vars(NetThread) /\ WF_vars(Clean) /\ WF_vars(ServerAnswers)
FairSpec == Spec /\ Fairness

-----------------------------------------------------------------------------
(* Correctness.                                                            *)

(* With no connection being made or taken down, the three modules agree on *)
(* whether there is one: logic.c asks netInitialized before it calls       *)
(* net.c, whose operations assert its this.  But a connection that is      *)
(* found closed before logic.c has noted it is noted after it is gone.     *)
ModulesAgree ==
  Alive /\ async = "idle" /\ net = "idle" /\ ~early => netInitialized = netThis

(* netInit takes a connection for secured by a state it never set          *)
(* (net.c:339); it is right unless that memory held the state of an        *)
(* earlier connection that was closed before anyone had logged in on it.   *)
SecuredUnlessLeftOver ==
  async = "credentials" /\ netThis => Secured \/ leftOver = "established"

(* What is asked of the server beyond the log in carries the token of the  *)
(* session, though it is the async thread that asks and the net thread     *)
(* that is given the token, in another connection perhaps.  What may be    *)
(* asked without it is what is left over: of a page that was opened late,  *)
(* by a job that ended after its connection, over the next attempt to log  *)
(* in.  And of two attempts under way at once the second makes its         *)
(* connection under the jobs of the first.                                 *)
RequestsAuthenticated ==
  \A request \in Range(toServer) :
    request.kind \in Attempts \/ request.token = "session" \/ late \/ twice

(* Who is logged in has the database opened under their own password       *)
(* (logic.c:847), whoever was before; but of two attempts under way at     *)
(* once the second opens it anew while the first may be logged in          *)
(* (logic.c:836).                                                          *)
DatabaseOwner ==
  Alive /\ netInitialized /\ loggedInAs # None /\ ~twice =>
    databaseInitialized /\ dbKey = loggedInAs

(* "password that's used to sign in also used to encrypt messages & other  *)
(* stuff in the database" (logic.c:847): with no attempt under way, the    *)
(* database is made under the password of an account.                      *)
DatabaseUnderSignInPassword ==
  Quiet /\ state = "unauthenticated" => dbKey \in accounts \cup {None}

(* When all has come to rest on the page to log in, logging in is          *)
(* possible: neither the state nor netInitialized turns it down            *)
(* (logic.c:910, 911).  A user chosen in the moment the connection was     *)
(* taken down, or after, leaves a state that does, and a connection noted  *)
(* after it is gone leaves netInitialized.                                 *)
LogInPossible ==
  Alive /\ Quiet /\ page \in {"logIn", "register"} /\ ~late /\ ~early =>
    state = "unauthenticated" /\ ~netInitialized

(* The controls that an attempt, a request or a conversation takes away    *)
(* come back: after refusals, time-outs and broken connections too.  What  *)
(* takes them away for a list when the connection is gone already may take *)
(* them for good: onDisconnected has given them back before.               *)
ControlsReturn == ~allowInput ~> (allowInput \/ ~Alive \/ late)

(* Leaving ends, though it waits for the job that runs. *)
LeavingEnds == life = "leaving" ~> ~Alive
=============================================================================
