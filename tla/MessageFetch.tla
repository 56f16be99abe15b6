---------------------------- MODULE MessageFetch ----------------------------
(***************************************************************************)
(* How a client catches up: the refresh of the users list and the fetching *)
(* of missing messages that follows it, src/src/logic.c over src/src/net.c *)
(* of one client with three threads:                                       *)
(*   - the UI thread, where the user logs in, asks for a refresh and sends *)
(*   - the async thread, which runs the queued jobs one by one;            *)
(*   - the net thread, which takes what the server sends.  It calls back   *)
(*     into logic.c and takes a fetching flag down only after that, while  *)
(*     the async thread may already run what the callback queued.          *)
(*                                                                         *)
(* The server is external: it keeps every message for us, relays it at     *)
(* once when we are logged in, and answers a request with what it has then *)
(* in one order with what it relays, or refuses it.  Clocks agree, and no  *)
(* two messages have the same time; a message is its conversation and its  *)
(* time.  A conversation was set up at time 0, in the unit of time before  *)
(* the first messages or earlier, and stays (ConversationSetUp has the     *)
(* rest).  A broken connection is noticed and cleaned up in one step, and  *)
(* connecting anew is one more.                                            *)
(***************************************************************************)
EXTENDS Naturals, Sequences, SequencesExt

CONSTANTS
  Lists,      (* the users we may have conversations with, each a sequence, *)
              (* in the order of the list of users                          *)
  None,       (* no peer                                                    *)
  MaxTime,    (* bound: messages are sent at times up to this               *)
  MaxLogIns,  (* bound: how often the user logs in                          *)
  MaxUpdates  (* bound: how often the user asks for a refresh               *)

Peers == UNION {Range(list) : list \in Lists}

ASSUME ListsAssumption ==
  /\ \A list \in Lists : list \in Seq(Peers) /\ IsInjective(list)
  /\ None \notin Peers
ASSUME BoundsAssumption == MaxTime \in Nat \ {0} /\ MaxLogIns \in Nat /\ MaxUpdates \in Nat

Times == 0..MaxTime

(* What the server sends: messages relayed as they come, messages that     *)
(* were asked for, with how many are to follow, or that there are none;    *)
(* the list, or that it refuses the list.                                  *)
Replies ==
       [kind : {"loggedIn", "users", "error"}, peer : {None}, time : {0}, more : {0}]
  \cup [kind : {"live"}, peer : Peers, time : Times, more : {0}]
  \cup [kind : {"fetched"}, peer : Peers, time : Times, more : Times]
  \cup [kind : {"nothing"}, peer : Peers, time : {0}, more : {0}]
Reply(kind, peer, time, more) == [kind |-> kind, peer |-> peer, time |-> time, more |-> more]

Requests == [peer : Peers, after : Times] \cup [peer : {None}, after : {0}]
Request(peer, after) == [peer |-> peer, after |-> after]
ASSUME RequestsAssumption == None \notin Requests

Jobs ==
       [op : {"logIn", "fetchUsers", "processUsers"}, peer : {None}, time : {0}]
  \cup [op : {"fetchMessages", "send"}, peer : Peers, time : {0}]
  \cup [op : {"received"}, peer : Peers, time : Times]
Job(op, peer, time) == [op |-> op, peer |-> peer, time |-> time]

Asserts == {"none", "netFetchUsers", "netFetchMessages", "processFetchedUsers",
            "updateUsersList", "listBinarySearch", "databaseAddMessage",
            "sendMessage", "missingMessagesFetchers", "fetchersMatch",
            "fetchMissingMessages"}

VARIABLES
  withConversation, (* which of Lists it is: it never changes              *)
  now,            (* when the latest message was sent                      *)
  mailbox,        (* the server: the times of p's messages to us, in order *)
  request,        (* on its way to the server                              *)
  toClient,       (* on its way from it, in order                          *)
  connected,      (* net.c: this                                           *)
  fetchingUsers, fetchingMessages, ignoreUsualMessages,  (* net.c          *)
  missingMessagesFetchers, userIdsToFetchMessagesFrom,   (* logic.c        *)
  listed,         (* logic.c: usersList holds users                        *)
  page,           (* render.c: the log in page, or those behind it         *)
  allowInput,     (* render.c: the controls are on                         *)
  jobs,           (* lifecycle.c: asyncActionsQueue                        *)
  asking,         (* the async thread, about to ask for p's messages       *)
  net,            (* the net thread: where it is in a callback's wake      *)
  stored, own,    (* the database: times of messages from and to p         *)
  dropped,        (* history: messages ignored on arrival                  *)
  since,          (* history: when a connection last broke, or was made    *)
                  (* anew with the old list still there, or a request was  *)
                  (* refused                                               *)
  refused,        (* history: one for messages was, on this connection     *)
  failed,         (* the assertion that ended the client, or "none"        *)
  logIns, updates (* what was done of the bounds                           *)

server == <<withConversation, now, mailbox, request, toClient>>
netc   == <<connected, fetchingUsers, fetchingMessages, ignoreUsualMessages>>
fetch  == <<missingMessagesFetchers, userIdsToFetchMessagesFrom>>
ui     == <<page, allowInput, logIns, updates>>
store  == <<stored, own>>
past   == <<dropped, since, refused>>
vars   == <<server, netc, fetch, listed, ui, jobs, asking, net, store, past, failed>>

TypeOK ==
  /\ withConversation \in Lists
  /\ now \in Times
  /\ mailbox \in [Peers -> Seq(Times)]
  /\ request \in Requests \cup {None}
  /\ toClient \in Seq(Replies)
  /\ connected \in BOOLEAN /\ fetchingUsers \in BOOLEAN
  /\ fetchingMessages \in BOOLEAN /\ ignoreUsualMessages \in BOOLEAN
  /\ missingMessagesFetchers \in Nat
  /\ userIdsToFetchMessagesFrom \in Seq(Peers)
  /\ listed \in BOOLEAN /\ page \in {"logIn", "users"} /\ allowInput \in BOOLEAN
  /\ jobs \in Seq(Jobs)
  /\ asking \in Peers \cup {None}
  /\ net \in {"idle", "usersDone", "compare", "messagesDone"}
  /\ stored \in [Peers -> SUBSET Times] /\ own \in [Peers -> SUBSET Times]
  /\ dropped \in [Peers -> SUBSET Times] /\ since \in Times /\ refused \in BOOLEAN
  /\ failed \in Asserts
  /\ logIns \in 0..MaxLogIns /\ updates \in 0..MaxUpdates

(* databaseGetConversationTimestamp, and one more: nothing older than that *)
(* is asked for.                                                           *)
ConversationTimestamp == 0
MinimalPossibleTimestamp == ConversationTimestamp + 1

(* The program has just started. *)
Init ==
  /\ withConversation \in Lists
  /\ now \in {ConversationTimestamp, MinimalPossibleTimestamp}
  /\ mailbox = [p \in Peers |-> <<>>]
  /\ request = None /\ toClient = <<>>
  /\ connected = FALSE /\ fetchingUsers = FALSE
  /\ fetchingMessages = FALSE /\ ignoreUsualMessages = FALSE
  /\ missingMessagesFetchers = 0 /\ userIdsToFetchMessagesFrom = <<>>
  /\ listed = FALSE /\ page = "logIn" /\ allowInput = TRUE
  /\ jobs = <<>> /\ asking = None /\ net = "idle"
  /\ stored = [p \in Peers |-> {}] /\ own = [p \in Peers |-> {}]
  /\ dropped = [p \in Peers |-> {}] /\ since = 0 /\ refused = FALSE
  /\ failed = "none" /\ logIns = 0 /\ updates = 0

-----------------------------------------------------------------------------
Alive == failed = "none"

(* A failed assert ends the process: nothing else of the step is left. *)
Abort(assertion) ==
  /\ failed' = assertion
  /\ UNCHANGED <<server, netc, fetch, listed, ui, jobs, asking, net, store, past>>

(* lifecycleAsync *)
Push(job) == jobs' = Append(jobs, job)

-----------------------------------------------------------------------------
(* The server and the others.                                              *)

PeerSends(p) ==
  /\ Alive /\ p \in Range(withConversation) /\ now < MaxTime
  /\ now' = now + 1
  /\ mailbox' = [mailbox EXCEPT ![p] = Append(@, now + 1)]
  /\ toClient' = IF connected THEN Append(toClient, Reply("live", p, now + 1, 0)) ELSE toClient
  /\ UNCHANGED <<withConversation, request, netc, fetch, listed, ui, jobs, asking, net, store, past, failed>>

(* The first k of p's messages are old, the others are asked for. *)
NewFrom(p, time, k) ==
  /\ \A i \in 1..k : mailbox[p][i] <= time
  /\ \A i \in (k + 1)..Len(mailbox[p]) : mailbox[p][i] > time
AnswerFrom(p, k) ==
  LET new == Len(mailbox[p]) - k IN
  IF new = 0 THEN <<Reply("nothing", p, 0, 0)>>
  ELSE [i \in 1..new |-> Reply("fetched", p, mailbox[p][k + i], new - i)]

ServerAnswers ==
  /\ Alive /\ request # None
  /\ \/ /\ request.peer = None
        /\ \E kind \in {"users", "error"} : toClient' = Append(toClient, Reply(kind, None, 0, 0))
     \/ /\ request.peer # None
        /\ \E k \in 0..Len(mailbox[request.peer]) :
             /\ NewFrom(request.peer, request.after, k)
             /\ toClient' = toClient \o AnswerFrom(request.peer, k)
  /\ request' = None
  /\ UNCHANGED <<withConversation, now, mailbox, netc, fetch, listed, ui, jobs, asking, net, store, past, failed>>

(* processErrors, FLAG_FETCH_MESSAGES: such an error is not looked at, so  *)
(* that it makes no difference whether and when it comes.                  *)
ServerRefuses ==
  /\ Alive /\ request # None /\ request.peer # None
  /\ request' = None
  /\ refused' = TRUE /\ since' = now
  /\ UNCHANGED <<withConversation, now, mailbox, toClient, netc, fetch, listed, ui, jobs, asking, net, store,
                 dropped, failed>>

-----------------------------------------------------------------------------
(* The UI thread.                                                          *)

(* logicOnCredentialsReceived *)
LogInClicked ==
  /\ Alive /\ page = "logIn" /\ allowInput /\ ~connected
  /\ logIns < MaxLogIns /\ logIns' = logIns + 1
  /\ allowInput' = FALSE
  /\ Push(Job("logIn", None, 0))
  /\ UNCHANGED <<server, netc, fetch, listed, page, updates, asking, net, store, past, failed>>

(* logicOnUpdateUsersListClicked *)
UpdateClicked ==
  /\ Alive /\ page = "users" /\ allowInput /\ updates < MaxUpdates
  /\ \/ /\ missingMessagesFetchers = 0
        /\ updates' = updates + 1
        /\ allowInput' = FALSE
        /\ listed' = FALSE
        /\ Push(Job("fetchUsers", None, 0))
        /\ UNCHANGED <<server, netc, fetch, page, logIns, asking, net, store, past, failed>>
     \/ missingMessagesFetchers # 0 /\ Abort("updateUsersList")

(* logicOnSendClicked, on the page of a conversation chosen from the list: *)
(* the controls stay on.                                                   *)
SendClicked(p) ==
  /\ p \in Range(withConversation)
  /\ Alive /\ page = "users" /\ allowInput /\ listed /\ now < MaxTime
  /\ \A q \in Peers : own[q] = {} /\ ~Contains(jobs, Job("send", q, 0))  \* bound: we send once
  /\ Push(Job("send", p, 0))
  /\ UNCHANGED <<server, netc, fetch, listed, ui, asking, net, store, past, failed>>

-----------------------------------------------------------------------------
(* The async thread.                                                       *)

Runs(op) == Alive /\ asking = None /\ jobs # <<>> /\ Head(jobs).op = op
Pop == jobs' = Tail(jobs)

(* processCredentials: the connection is made, with all its state new, and *)
(* the server takes the credentials; or no connection is made.             *)
RunLogIn ==
  /\ Runs("logIn")
  /\ Pop
  /\ \/ /\ connected' = TRUE
        /\ fetchingUsers' = FALSE /\ fetchingMessages' = FALSE /\ ignoreUsualMessages' = FALSE
        /\ toClient' = <<Reply("loggedIn", None, 0, 0)>>
        /\ since' = IF listed THEN now ELSE since
        /\ UNCHANGED allowInput
     \/ /\ allowInput' = TRUE
        /\ UNCHANGED <<netc, toClient, since>>
  /\ UNCHANGED <<withConversation, now, mailbox, request, fetch, listed, page, logIns, updates, asking, net, store, dropped, refused, failed>>

(* netFetchUsers *)
RunFetchUsers ==
  /\ Runs("fetchUsers")
  /\ \/ /\ connected /\ ~fetchingUsers /\ ~fetchingMessages
        /\ fetchingUsers' = TRUE
        /\ request' = Request(None, 0)
        /\ Pop
        /\ UNCHANGED <<withConversation, now, mailbox, toClient, connected, fetchingMessages, ignoreUsualMessages,
                       fetch, listed, ui, asking, net, store, past, failed>>
     \/ /\ ~connected \/ fetchingUsers \/ fetchingMessages
        /\ Abort("netFetchUsers")

KeepsControls == UNCHANGED allowInput
FreesControls == allowInput' = TRUE

HoldsControls == KeepsControls

(* processFetchedUsers: with conversations, the messages of the first are  *)
(* asked for and the controls stay off.                                    *)
RunProcessUsers ==
  /\ Runs("processUsers")
  /\ \/ /\ connected /\ missingMessagesFetchers = 0
        /\ Pop
        /\ listed' = TRUE /\ page' = "users"
        /\ IF withConversation = <<>>
             THEN /\ userIdsToFetchMessagesFrom' = <<>>
                  /\ ignoreUsualMessages' = FALSE
                  /\ allowInput' = TRUE
                  /\ UNCHANGED <<missingMessagesFetchers, asking>>
             ELSE /\ userIdsToFetchMessagesFrom' = Tail(withConversation)
                  /\ missingMessagesFetchers' = 1
                  /\ asking' = Head(withConversation)
                  /\ HoldsControls
                  /\ UNCHANGED ignoreUsualMessages
        /\ UNCHANGED <<server, connected, fetchingUsers, fetchingMessages, logIns, updates,
                       net, store, past, failed>>
     \/ /\ ~connected \/ missingMessagesFetchers # 0
        /\ Abort("processFetchedUsers")

(* fetchMissingMessagesFromUser, from its wrapper: counted before asked. *)
RunFetchMessages ==
  /\ Runs("fetchMessages")
  /\ Pop
  /\ missingMessagesFetchers' = missingMessagesFetchers + 1
  /\ asking' = Head(jobs).peer
  /\ UNCHANGED <<server, netc, userIdsToFetchMessagesFrom, listed, ui, net, store, past, failed>>

(* databaseGetMostRecentMessageTimestamp: of either direction, or 0, when  *)
(* the conversation was set up.                                            *)
MostRecent(p) == Max(stored[p] \cup own[p] \cup {0})
OneTooFar(p) == Max({MostRecent(p), MinimalPossibleTimestamp}) + 1

AsksAfter(p) == Max({MostRecent(p), MinimalPossibleTimestamp})

(* ...and its end, netFetchMessages; the clock must have moved on since    *)
(* the latest message.                                                     *)
AskForMessages ==
  /\ Alive /\ asking # None
  /\ \/ /\ connected /\ ~fetchingUsers /\ ~fetchingMessages
        /\ fetchingMessages' = TRUE
        /\ request' = Request(asking, AsksAfter(asking))
        /\ asking' = None
        /\ UNCHANGED <<withConversation, now, mailbox, toClient, connected, fetchingUsers, ignoreUsualMessages,
                       fetch, listed, ui, jobs, net, store, past, failed>>
     \/ /\ ~connected \/ fetchingUsers \/ fetchingMessages
        /\ Abort("netFetchMessages")
     \/ now \in stored[asking] \cup own[asking] /\ Abort("fetchMissingMessages")

(* processReceivedMessage: the sender is looked up in the list, which must *)
(* not be empty, and the message stored, which must not be there already.  *)
RunReceived ==
  LET p == Head(jobs).peer  t == Head(jobs).time IN
  /\ Runs("received")
  /\ \/ /\ listed /\ t \notin stored[p]
        /\ stored' = [stored EXCEPT ![p] = @ \cup {t}]
        /\ Pop
        /\ UNCHANGED <<server, netc, fetch, listed, ui, asking, net, own, past, failed>>
     \/ ~listed /\ Abort("listBinarySearch")
     \/ listed /\ t \in stored[p] /\ Abort("databaseAddMessage")

(* sendMessage: stored under our clock, then sent. *)
RunSend ==
  /\ Runs("send")
  /\ \/ /\ connected /\ now < MaxTime
        /\ now' = now + 1
        /\ own' = [own EXCEPT ![Head(jobs).peer] = @ \cup {now + 1}]
        /\ Pop
        /\ UNCHANGED <<withConversation, mailbox, request, toClient, netc, fetch, listed, ui, asking, net, stored, past, failed>>
     \/ /\ connected /\ now = MaxTime  \* bound: the clock has run out
        /\ Pop
        /\ UNCHANGED <<server, netc, fetch, listed, ui, asking, net, store, past, failed>>
     \/ ~connected /\ Abort("sendMessage")

-----------------------------------------------------------------------------
(* The net thread.                                                         *)

Takes(kind) ==
  /\ Alive /\ connected /\ net = "idle"
  /\ toClient # <<>> /\ Head(toClient).kind = kind
Taken == toClient' = Tail(toClient)

(* onLogInResult *)
LoggedIn ==
  /\ Takes("loggedIn")
  /\ Taken
  /\ Push(Job("fetchUsers", None, 0))
  /\ UNCHANGED <<withConversation, now, mailbox, request, netc, fetch, listed, ui, asking, net, store, past, failed>>

(* FLAG_PROCEED in processMessage: dropped while anything is fetched. *)
TakesUsual == ~fetchingUsers /\ ~fetchingMessages /\ ~ignoreUsualMessages
TakesUnlessFetching == ~fetchingUsers /\ ~fetchingMessages

Accepts == TakesUsual

LiveMessage ==
  LET m == Head(toClient) IN
  /\ Takes("live")
  /\ Taken
  /\ \/ /\ Accepts
        /\ Push(Job("received", m.peer, m.time))
        /\ UNCHANGED dropped
     \/ /\ ~Accepts
        /\ dropped' = [dropped EXCEPT ![m.peer] = @ \cup {m.time}]
        /\ UNCHANGED jobs
  /\ UNCHANGED <<withConversation, now, mailbox, request, netc, fetch, listed, ui, asking, net, store, since, refused, failed>>

(* onNextUsersBundleFetched with the last bundle, and its callback... *)
UsersFetched ==
  /\ Takes("users")
  /\ Taken
  /\ ignoreUsualMessages' = TRUE
  /\ Push(Job("processUsers", None, 0))
  /\ net' = "usersDone"
  /\ UNCHANGED <<withConversation, now, mailbox, request, connected, fetchingUsers, fetchingMessages,
                 fetch, listed, ui, asking, store, past, failed>>

(* ...after which the flag falls. *)
UsersDone ==
  /\ Alive /\ net = "usersDone"
  /\ fetchingUsers' = FALSE
  /\ net' = "idle"
  /\ UNCHANGED <<server, connected, fetchingMessages, ignoreUsualMessages,
                 fetch, listed, ui, jobs, asking, store, past, failed>>

(* processErrors and onErrorReceived: the flag stays up. *)
ErrorReceived ==
  /\ Takes("error")
  /\ Taken
  /\ allowInput' = TRUE
  /\ since' = now
  /\ UNCHANGED <<withConversation, now, mailbox, request, netc, fetch, listed, page, logIns, updates,
                 jobs, asking, net, store, dropped, refused, failed>>

(* onNextMessageFetched (or onEmptyMessagesFetchReplyReceived): a message  *)
(* becomes a job; with the last one, asking for those of the next          *)
(* conversation does too...                                                *)
ReceivedJobs(m) ==
  IF m.kind = "fetched" THEN <<Job("received", m.peer, m.time)>> ELSE <<>>
NextFetch ==
  IF userIdsToFetchMessagesFrom = <<>> THEN <<>>
  ELSE <<Job("fetchMessages", Head(userIdsToFetchMessagesFrom), 0)>>

(* index == count - 1 *)
NoneFollows(m) == m.more = 0
OneFollows(m) == m.more <= 1

IsLast(m) == NoneFollows(m)

NextMessageFetched ==
  LET m == Head(toClient) IN
  /\ Takes("fetched") \/ Takes("nothing")
  /\ \/ /\ missingMessagesFetchers > 0 /\ ~IsLast(m)
        /\ jobs' = jobs \o ReceivedJobs(m)
        /\ Taken
        /\ UNCHANGED <<fetch, net, failed>>
     \/ /\ missingMessagesFetchers > 0 /\ IsLast(m)
        /\ jobs' = jobs \o ReceivedJobs(m) \o NextFetch
        /\ Taken
        /\ missingMessagesFetchers' = missingMessagesFetchers - 1
        /\ userIdsToFetchMessagesFrom' =
             IF userIdsToFetchMessagesFrom = <<>> THEN <<>> ELSE Tail(userIdsToFetchMessagesFrom)
        /\ net' = "compare"
        /\ UNCHANGED failed
     \/ /\ missingMessagesFetchers = 0
        /\ failed' = "missingMessagesFetchers"
        /\ UNCHANGED <<toClient, fetch, jobs, net>>
  /\ UNCHANGED <<withConversation, now, mailbox, request, netc, listed, ui, asking, store, past>>

(* ...then the two counts are compared, and when nothing is left to fetch  *)
(* usual messages are let in and the controls given back...                *)
FinishFetching == ignoreUsualMessages' = FALSE /\ allowInput' = TRUE
FinishQuietly == ignoreUsualMessages' = FALSE /\ UNCHANGED allowInput

Release == FinishFetching

Compare ==
  /\ Alive /\ net = "compare"
  /\ \/ /\ missingMessagesFetchers # Len(userIdsToFetchMessagesFrom)
        /\ Abort("fetchersMatch")
     \/ /\ missingMessagesFetchers = Len(userIdsToFetchMessagesFrom)
        /\ net' = "messagesDone"
        /\ IF missingMessagesFetchers # 0
             THEN UNCHANGED <<ignoreUsualMessages, allowInput>>
             ELSE Release
        /\ UNCHANGED <<server, connected, fetchingUsers, fetchingMessages, fetch, listed,
                       page, logIns, updates, jobs, asking, store, past, failed>>

(* ...and at last the flag falls. *)
MessagesDone ==
  /\ Alive /\ net = "messagesDone"
  /\ fetchingMessages' = FALSE
  /\ net' = "idle"
  /\ UNCHANGED <<server, connected, fetchingUsers, ignoreUsualMessages,
                 fetch, listed, ui, jobs, asking, store, past, failed>>

(* onDisconnected of both modules: everything net.c kept is gone, logic.c  *)
(* keeps its list, its counter and its jobs.                               *)
Disconnected ==
  /\ Alive /\ connected /\ net = "idle"
  /\ connected' = FALSE
  /\ request' = None /\ toClient' = <<>>
  /\ allowInput' = TRUE /\ page' = "logIn"
  /\ since' = now /\ refused' = FALSE
  /\ UNCHANGED <<withConversation, now, mailbox, fetchingUsers, fetchingMessages, ignoreUsualMessages, fetch,
                 listed, logIns, updates, jobs, asking, net, store, dropped, failed>>

-----------------------------------------------------------------------------
UIThread == LogInClicked \/ UpdateClicked \/ \E p \in Peers : SendClicked(p)

AsyncThread ==
  \/ RunLogIn \/ RunFetchUsers \/ RunProcessUsers \/ RunFetchMessages
  \/ AskForMessages \/ RunReceived \/ RunSend

NetThread ==
  \/ LoggedIn \/ LiveMessage \/ UsersFetched \/ UsersDone \/ ErrorReceived
  \/ NextMessageFetched \/ Compare \/ MessagesDone

(* Nothing is under way, or the client is gone. *)
Rest ==
  /\ Alive => jobs = <<>> /\ asking = None /\ net = "idle" /\ request = None /\ toClient = <<>>
  /\ UNCHANGED vars

Next ==
  \/ UIThread \/ AsyncThread \/ NetThread \/ Disconnected
  \/ ServerAnswers \/ ServerRefuses \/ \E p \in Peers : PeerSends(p)
  \/ Rest

Spec == Init /\ [][Next]_vars

(* The loops of the two threads go on, and the server answers or refuses.  *)
Fairness ==
  WF_vars(AsyncThread) /\ WF_vars(NetThread) /\ WF_vars(ServerAnswers \/ ServerRefuses)
FairSpec == Spec /\ Fairness

-----------------------------------------------------------------------------
(* Correctness.                                                            *)

(* The answers the net thread takes are those somebody waits for: the      *)
(* assertions on the fetching flags (net.c:751, 760 and 769) hold, though  *)
(* the flags fall only in the wake of the callbacks.                       *)
RepliesExpected ==
  connected => \A r \in Range(toClient) :
    /\ r.kind \in {"users", "error"} => fetchingUsers
    /\ r.kind \in {"fetched", "nothing"} => fetchingMessages

(* With at most one conversation to fetch for, fetching is over when the   *)
(* controls come back (with more it is not: the counter is back at 0 after *)
(* the first, and whether the next is asked for yet makes no difference).  *)
OneToFetch == Len(withConversation) <= 1

(* Then no message is stored twice (database.c:109, on the primary key),   *)
(* though the same message is relayed, fetched, and fetched again later... *)
InsertSucceeds == OneToFetch => failed # "databaseAddMessage"

(* ...and while a request is with the server or its answer on the way, the *)
(* user cannot start another (logic.c:325, "release locks" only when there *)
(* is nothing to fetch).                                                   *)
Fetching ==
  connected /\ (request # None \/ \E r \in Range(toClient) : r.kind \notin {"live", "loggedIn"})
BlockedWhileFetching == OneToFetch => (Fetching => ~allowInput)

(* Messages of p the client can no longer ask for, has not got and will    *)
(* not get from what is under way.                                         *)
UnderWay(p) ==
  {t \in Times : \/ \E j \in Range(jobs) : j = Job("received", p, t)
                 \/ \E r \in Range(toClient) : r.peer = p /\ r.time = t
                 \/ request # None /\ request.peer = p /\ request.after < t}
Missed(p) ==
  {t \in Range(mailbox[p]) : t < MostRecent(p)} \ (stored[p] \cup UnderWay(p))

(* Catching up works: nothing is missed for good but what was ignored on   *)
(* arrival, what was sent within a unit of time of the conversation's set  *)
(* up, once a connection has broken what was sent before the new one was   *)
(* made (what was relayed and not read is hidden by a younger message of   *)
(* our own, what was sent in between by one that is relayed before the     *)
(* list is refreshed: the old list is still there), and what was sent      *)
(* before the server refused a request: nothing more is asked for then.    *)
OnlyIgnoredMissed ==
  \A p \in Peers : \A t \in Missed(p) :
    t \in dropped[p] \/ t <= since \/ t <= MinimalPossibleTimestamp


(* The assertions on missingMessagesFetchers, logic.c:351 and 360.         *)
FetchersMatch == failed \notin {"fetchersMatch", "missingMessagesFetchers"}

(* The controls that a log in or a refresh takes away come back, unless    *)
(* the server refuses a request for messages: nobody waits any longer then *)
(* but for the connection to break.                                        *)
ControlsReturn == ~allowInput ~> (allowInput \/ ~Alive \/ refused)
=============================================================================
