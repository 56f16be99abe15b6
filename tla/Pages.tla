------------------------------- MODULE Pages --------------------------------
(***************************************************************************)
(* What the user of a logged in client sees and does: the pages of         *)
(* src/src/render/render.c, drawn by the UI thread, and behind them the    *)
(* lists and jobs of src/src/logic.c and the database.  The UI thread, the *)
(* async thread that runs the jobs and the net thread that calls back      *)
(* share the page, the two lists and toUserId.  A frame is drawn under     *)
(* render's lock, which keeps the others from changing page and controls   *)
(* but not from changing the lists: each list locks itself for one         *)
(* operation at a time.                                                    *)
(*                                                                         *)
(* Left out: the admin's page, files (FileExchange), the handshake and the *)
(* messages that are fetched (ConversationSetUp, MessageFetch), a broken   *)
(* connection (Session).  acts bounds what the user, the peers and the     *)
(* server do.                                                              *)
(***************************************************************************)
EXTENDS Database, Sizes

CONSTANTS
  Registered,   (* the other users, in the order the server lists them     *)
  Me, NoUser,
  TextSizes,    (* how long texts are that the user writes                 *)
  MaxActs       (* bound: acts of the user, the peers and the server       *)

Peers == Range(Registered)

ASSUME UsersAssumption ==
  /\ Registered \in Seq(Peers) /\ Registered # <<>>
  /\ Me \notin Peers /\ NoUser \notin Peers \cup {Me}
ASSUME TextsAssumption == TextSizes \subseteq 1..MaxMessagePlainPayloadSize
ASSUME ActsAssumption == MaxActs \in Nat

VARIABLES
  page, named, blocked,   (* state, conversationName and ~allowInput of render.c *)
  pressed,                (* an input event waits for the next frame       *)
  ui, size, row,          (* the page the UI thread draws, and how far it  *)
                          (* is; or what else it does                      *)
  usersList, messagesList, toUserId,   (* logic.c                          *)
  db,
  jobs, at,               (* the queue of jobs, and the first one's step   *)
  asked, fetching,        (* net.c: users, missing messages are on the way *)
                          (* (on), or their last is handed over (last)     *)
  left, ignoring,         (* userIdsToFetchMessagesFrom, as places in      *)
                          (* Registered, and ignoreUsualMessages           *)
  now,                    (* logicCurrentTimeMillis, as far as rows show it *)
  acts, sent, causes,     (* history: what was done, sent and went before  *)
  failed                  (* what ended the process, or "none"             *)

view   == <<page, named, blocked>>
frame  == <<ui, size, row, pressed>>
lists  == <<usersList, messagesList, toUserId>>
thread == <<jobs, at>>
net    == <<asked, fetching, left, ignoring>>
past   == <<acts, sent, causes>>
vars   == <<view, frame, lists, db, thread, net, now, past, failed>>

Ops   == {"send", "receive", "continue", "start", "delete", "reply", "fetch", "users", "more"}
Drawings == {"users", "conversation", "chooser"}
Steps == {"first", "seal", "out", "show", "fill", "page", "ask", "begin", "clear",
          "list", "finish", "rows", "get"}
Held  == {"continue", "start", "delete", "reply", "fetch", "users", "more"}
Causes == {"invite", "start", "delete", "update", "early", "sameTime", "overtaken",
           "longest", "ahead", "alone"}

(* A job and its parameters.  For a send, user is whom the page named when *)
(* it was clicked, which the code does not keep; freed says that the User  *)
(* a continue points at is freed.                                          *)
Job(op, u, text) ==
  [op |-> op, user |-> u, text |-> text, size |-> 0, time |-> 0, sealed |-> NoUser,
   freed |-> FALSE]

Jobs ==
  [op : Ops, user : Peers \cup {NoUser}, text : 0..MaxActs, size : TextSizes \cup {0},
   time : Nat, sealed : Peers \cup {NoUser}, freed : BOOLEAN]
IsJob(j) ==
  /\ j.op \in {"send", "receive"} => j.text # 0
  /\ j.op \in {"receive", "continue", "start", "delete", "reply", "more"} => j.user \in Peers
  /\ j.time <= now + 1

(* Texts are told apart by their number. *)
UserRows == [id : Peers, exists : BOOLEAN]
Entries == [from : Peers \cup {Me}, text : 1..MaxActs]
ConversationRows == [user : Peers, streams : Peers]
MessageRows ==
  [timestamp : Nat, conversation : Peers, from : Peers \cup {Me}, text : 1..MaxActs]
Sent ==
  [text : 1..MaxActs, shown : Peers \cup {NoUser}, sealed : Peers \cup {NoUser}, to : Peers \cup {NoUser}]
Ends == {"none", "get", "outside", "fetchers", "search", "paste", "insert", "streams",
         "size", "freed", "future"}

TypeOK ==
  /\ page \in Drawings
  /\ named \in Peers \cup {NoUser} /\ toUserId \in Peers \cup {NoUser}
  /\ blocked \in BOOLEAN /\ pressed \in BOOLEAN
  /\ ui \in Drawings \cup {"idle", "look", "text", "path"}
  /\ size \in Nat /\ row \in Nat /\ row <= size
  /\ usersList \in Seq(UserRows)
  /\ \A i \in DOMAIN usersList : usersList[i].id = Registered[i]
  /\ messagesList \in Seq(Entries)
  /\ db \in [conversations : SUBSET ConversationRows, messages : SUBSET MessageRows]
  /\ \A m \in db.messages : conversationExists(db, m.conversation) /\ m.timestamp <= now + 1
  /\ jobs \in Seq(Jobs) /\ \A i \in DOMAIN jobs : IsJob(jobs[i])
  /\ at \in Steps
  /\ asked \in BOOLEAN /\ fetching \in {"no", "on", "last"}
  /\ left \subseteq 1..Len(Registered) /\ ignoring \in BOOLEAN
  /\ now \in Nat /\ acts \in 0..MaxActs
  /\ sent \subseteq Sent /\ causes \subseteq Causes
  /\ failed \in Ends

-----------------------------------------------------------------------------
UserRow(u, exists) == [id |-> u, exists |-> exists]

(* Logged in, with or without conversations, with the users listed who     *)
(* were registered then.                                                   *)
Init ==
  /\ page = "users" /\ named = NoUser /\ blocked = FALSE /\ pressed = FALSE
  /\ ui = "idle" /\ size = 0 /\ row = 0
  /\ \E n \in 0..Len(Registered) : \E known \in SUBSET {Registered[i] : i \in 1..n} :
       /\ db = [NoRows EXCEPT !.conversations = {Conversation(u, u) : u \in known}]
       /\ usersList = [i \in 1..n |-> UserRow(Registered[i], Registered[i] \in known)]
  /\ messagesList = <<>> /\ toUserId = NoUser
  /\ jobs = <<>> /\ at = "first"
  /\ asked = FALSE /\ fetching = "no" /\ left = {} /\ ignoring = FALSE
  /\ now = 1
  /\ acts = 0 /\ sent = {} /\ causes = {}
  /\ failed = "none"

-----------------------------------------------------------------------------
(* Parts of actions.                                                       *)

Alive == failed = "none"
cur == Head(jobs)
Drawing == ui \in Drawings
RenderFree == Alive /\ ~Drawing

Abort(what) ==
  /\ failed' = what
  /\ UNCHANGED <<view, frame, lists, db, thread, net, now, past>>

(* Something is done from outside, and may be what goes wrong later. *)
Acts(why) == acts < MaxActs /\ acts' = acts + 1 /\ causes' = causes \cup why

Push(job) == jobs' = Append(jobs, job)

(* The jobs that are not done, with the one that runs. *)
Pending == Range(jobs)

(* finishLoading gives the controls back even if others hold them, for     *)
(* blocked is a flag and not a count.                                      *)
HeldBesides(others) ==
  asked \/ fetching = "on" \/ \E j \in others : j.op \in Held
Early(others) == IF HeldBesides(others) THEN {"early"} ELSE {}

(* missingMessagesFetchers, and what netFetchUsers and netFetchMessages    *)
(* assert not to be.                                                       *)
fetchers == (IF fetching = "on" THEN 1 ELSE 0) + (IF at = "get" THEN 1 ELSE 0)
Fetching == asked \/ fetching # "no"

(* toUserId becomes u while a message or a page for another is under way,  *)
(* or a page for another is shown.                                         *)
Overtakes(u) ==
  /\ u # toUserId
  /\ \/ \E j \in Pending : j.op \in {"send", "continue"}
     \/ page # "users"
Overtaken(u) == IF Overtakes(u) THEN {"overtaken"} ELSE {}

(* listBinarySearch asserts that the list is not empty. *)
Listed(u) == \E i \in DOMAIN usersList : usersList[i].id = u

(* listClear frees the users that a queued or running continue points at. *)
Freed(j) == [j EXCEPT !.freed = @ \/ j.op = "continue"]

Entry(from, text) == [from |-> from, text |-> text]
AddFront(entry) == messagesList' = <<entry>> \o messagesList

Times == {now, now + 1}

-----------------------------------------------------------------------------
(* The UI thread: events, then a frame.                                    *)

(* renderProcessEvent drops what the user does while controls are blocked. *)
Press ==
  /\ Alive /\ ui = "idle" /\ ~blocked /\ ~pressed
  /\ pressed' = TRUE
  /\ UNCHANGED <<view, ui, size, row, lists, db, thread, net, now, past, failed>>

(* drawPage takes the lock; a page with a list asks how long it is. *)
ListOf(shown) == CASE shown = "users" -> usersList
                   [] shown = "conversation" -> messagesList
                   [] shown = "chooser" -> <<>>
Drawn == ListOf(ui)

BeginDraw ==
  /\ Alive /\ ui = "idle"
  /\ ui' = page /\ size' = Len(ListOf(page)) /\ row' = 0
  /\ UNCHANGED <<view, pressed, lists, db, thread, net, now, past, failed>>

(* listGet asserts that the list is not empty and does not compare the     *)
(* index with the size: what is there no more is read all the same.        *)
DrawRow ==
  /\ Alive /\ Drawing /\ row < size
  /\ \/ /\ row < Len(Drawn)
        /\ row' = row + 1
        /\ UNCHANGED <<view, ui, size, pressed, lists, db, thread, net, now, past, failed>>
     \/ Drawn = <<>> /\ Abort("get")
     \/ Drawn # <<>> /\ row >= Len(Drawn) /\ Abort("outside")

EndDraw ==
  /\ Alive /\ Drawing /\ row = size
  /\ ui' = "idle" /\ size' = 0 /\ row' = 0 /\ pressed' = FALSE
  /\ UNCHANGED <<view, lists, db, thread, net, now, past, failed>>

(* A button of the page that is drawn is hit: its callback runs inside the *)
(* frame, on the UI thread, which holds the lock (and may take it anew).   *)
HitOn(shown) ==
  /\ Alive /\ ui = shown /\ pressed
  /\ pressed' = FALSE
  /\ UNCHANGED <<ui, row, failed>>
HitRow == HitOn("users") /\ row < size /\ row < Len(usersList) /\ UNCHANGED size
HitBelow(shown) == HitOn(shown) /\ row = size /\ UNCHANGED size

(* logicOnUserForConversationChosen: whoever is chosen is toUserId at once *)
(* and the list is emptied; the rest is a job.                             *)
Chosen(u) == toUserId' = u
ChosenLater(u) == UNCHANGED toUserId

Chooses(u) == Chosen(u)

Choose(op, why) ==
  /\ HitRow
  /\ LET u == usersList[row + 1].id IN
     /\ usersList[row + 1].exists = (op # "start")
     /\ Acts(why \cup Overtaken(u))
     /\ Chooses(u)
     /\ messagesList' = <<>>
     /\ Push(Job(op, u, 0))
  /\ blocked' = TRUE
  /\ UNCHANGED <<page, named, usersList, db, at, net, now, sent>>

ChooseContinue == Choose("continue", {})
ChooseDelete == Choose("delete", {"delete"})
ChooseStart == Choose("start", {"start"})

(* An offline user cannot be invited: the user is told so. *)
ChooseOffline ==
  /\ HitRow
  /\ LET u == usersList[row + 1].id IN
     /\ ~usersList[row + 1].exists
     /\ Acts(Overtaken(u))
     /\ Chooses(u)
  /\ messagesList' = <<>>
  /\ UNCHANGED <<view, usersList, db, thread, net, now, sent>>

(* logicOnUpdateUsersListClicked asserts that nothing is fetched; its      *)
(* button is above the list, which is empty when it is drawn.              *)
ClickUpdate ==
  \/ /\ HitOn("users") /\ row = 0 /\ size' = 0 /\ fetchers = 0
     /\ Acts({"update"})
     /\ blocked' = TRUE
     /\ usersList' = <<>>
     /\ jobs' = Append([i \in DOMAIN jobs |-> Freed(jobs[i])], Job("fetch", NoUser, 0))
     /\ UNCHANGED <<page, named, messagesList, toUserId, db, at, net, now, sent>>
  \/ Alive /\ ui = "users" /\ row = 0 /\ pressed /\ fetchers # 0 /\ Abort("fetchers")

(* logicOnReturnFromConversationPageRequested; the rows of the messages    *)
(* are still drawn.                                                        *)
ClickBack ==
  /\ HitOn("conversation") /\ row = 0 /\ UNCHANGED size
  /\ page' = "users"
  /\ UNCHANGED <<named, blocked, lists, db, thread, net, now, past>>

(* logicOnSendClicked: the message is shown at once and sent by a job,     *)
(* which is not told to whom.                                              *)
ClickSend ==
  /\ HitBelow("conversation")
  /\ \E n \in TextSizes :
       /\ Acts(IF n = MaxMessagePlainPayloadSize THEN {"longest"} ELSE {})
       /\ Push([Job("send", named, acts + 1) EXCEPT !.size = n])
  /\ AddFront(Entry(Me, acts + 1))
  /\ UNCHANGED <<view, usersList, toUserId, db, at, net, now, sent>>

(* logicOnFileChooserRequested, and its way back (a file is not chosen):   *)
(* the page that opens is named for toUserId.                              *)
ClickFile ==
  /\ HitBelow("conversation")
  /\ page' = "chooser"
  /\ UNCHANGED <<named, blocked, lists, db, thread, net, now, past>>

ClickNoFile ==
  \/ /\ HitBelow("chooser") /\ Listed(toUserId)
     /\ page' = "conversation" /\ named' = toUserId /\ blocked' = FALSE
     /\ causes' = causes \cup Early(Pending)
     /\ UNCHANGED <<lists, db, thread, net, now, acts, sent>>
  \/ Alive /\ ui = "chooser" /\ pressed /\ ~Listed(toUserId) /\ Abort("search")

(* clipboardPaste asks three times which page is shown, and the buffer it  *)
(* alters asserts that it still is; controls that are blocked do not keep  *)
(* the user from it.                                                       *)
PasteLooks ==
  /\ Alive /\ ui = "idle" /\ page \in {"conversation", "chooser"}
  /\ Acts({})
  /\ ui' = "look"
  /\ UNCHANGED <<view, size, row, pressed, lists, db, thread, net, now, sent, failed>>

PasteChooses ==
  /\ Alive /\ ui = "look"
  /\ ui' = IF page = "conversation" THEN "text" ELSE "path"
  /\ UNCHANGED <<view, size, row, pressed, lists, db, thread, net, now, past, failed>>

PasteFits == page = (IF ui = "text" THEN "conversation" ELSE "chooser")

PasteAlters ==
  /\ Alive /\ ui \in {"text", "path"}
  /\ \/ /\ PasteFits
        /\ ui' = "idle"
        /\ UNCHANGED <<view, size, row, pressed, lists, db, thread, net, now, past, failed>>
     \/ ~PasteFits /\ Abort("paste")

-----------------------------------------------------------------------------
(* The async thread: jobs, one after another.                              *)

Runs(op, step) == Alive /\ jobs # <<>> /\ cur.op = op /\ at = step
On(op, step) == Runs(op, step) /\ UNCHANGED <<frame, net, acts, failed>>
Done == jobs' = Tail(jobs) /\ at' = "first"
To(step) == at' = step /\ UNCHANGED jobs

(* A job that held the controls ends. *)
Finish ==
  /\ RenderFree
  /\ blocked' = FALSE
  /\ causes' = causes \cup Early(Range(Tail(jobs)))
  /\ Done

(* sendMessage reads toUserId three times: for the row... *)
SendStores ==
  \/ /\ On("send", "first")
     /\ \E t \in Times :
          LET m == Message(t, toUserId, Me, cur.text) IN
          /\ MayAddMessage(db, m)
          /\ db' = addMessage(db, m) /\ now' = t
     /\ To("seal")
     /\ UNCHANGED <<view, lists, sent, causes>>
  \/ /\ Runs("send", "first")
     /\ ~MayAddMessage(db, Message(now, toUserId, Me, cur.text))
     /\ IF conversationExists(db, toUserId)
        THEN /\ failed' = "insert" /\ causes' = causes \cup {"sameTime"}
             /\ UNCHANGED <<view, frame, lists, db, thread, net, now, acts, sent>>
        ELSE Abort("insert")

(* ...for the streams, once the text with its padding fits a message...    *)
SendSeals ==
  \/ /\ On("send", "seal") /\ Fits(cur.size) /\ conversationExists(db, toUserId)
     /\ jobs' = [jobs EXCEPT ![1].sealed = getConversation(db, toUserId)]
     /\ at' = "out"
     /\ UNCHANGED <<view, lists, db, now, sent, causes>>
  \/ Runs("send", "seal") /\ Fits(cur.size) /\ ~conversationExists(db, toUserId)
     /\ Abort("streams")
  \/ Runs("send", "seal") /\ ~Fits(cur.size) /\ Abort("size")

(* ...and for the message itself. *)
SendGoesOut ==
  /\ On("send", "out")
  /\ sent' = sent \cup {[text |-> cur.text, shown |-> cur.user,
                         sealed |-> cur.sealed, to |-> toUserId]}
  /\ Done
  /\ UNCHANGED <<view, lists, db, now, causes>>

(* processReceivedMessage: a message of a stranger or without conversation *)
(* is dropped; it is shown if it is from toUserId.                         *)
FromCurrent == cur.user = toUserId
FromAnyone == TRUE

ForPage == FromCurrent

Receive ==
  \/ /\ On("receive", "first") /\ usersList # <<>>
     /\ IF Listed(cur.user) /\ conversationExists(db, cur.user)
        THEN LET m == Message(cur.time, cur.user, cur.user, cur.text) IN
             /\ MayAddMessage(db, m)
             /\ db' = addMessage(db, m)
             /\ IF ForPage THEN To("show") ELSE Done
        ELSE Done /\ UNCHANGED db
     /\ UNCHANGED <<view, lists, now, sent, causes>>
  \/ Runs("receive", "first") /\ usersList = <<>> /\ Abort("search")
  \/ /\ Runs("receive", "first") /\ Listed(cur.user) /\ conversationExists(db, cur.user)
     /\ ~MayAddMessage(db, Message(cur.time, cur.user, cur.user, cur.text))
     /\ failed' = "insert" /\ causes' = causes \cup {"sameTime"}
     /\ UNCHANGED <<view, frame, lists, db, thread, net, now, acts, sent>>

ReceiveShows ==
  /\ On("receive", "show")
  /\ AddFront(Entry(cur.user, cur.text))
  /\ Done
  /\ UNCHANGED <<view, usersList, toUserId, db, now, sent, causes>>

(* continueConversation, with tryLoadPreviousMessages: the list is emptied *)
(* and filled anew, then the page is shown.                                *)
Continue ==
  /\ On("continue", "first")
  /\ IF conversationExists(db, cur.user)
     THEN messagesList' = <<>> /\ To("fill") /\ UNCHANGED <<blocked, causes>>
     ELSE Finish /\ UNCHANGED messagesList
  /\ UNCHANGED <<page, named, usersList, toUserId, db, now, sent>>

Loaded(u) ==
  {[i \in DOMAIN rows |-> Entry(rows[i].from, rows[i].text)] : rows \in getMessages(db, u)}

ContinueFills ==
  \/ /\ On("continue", "fill")
     /\ \E previous \in Loaded(cur.user) :
          /\ previous = <<>> \/ Listed(cur.user)
          /\ messagesList' = messagesList \o previous
     /\ To("page")
     /\ UNCHANGED <<view, usersList, toUserId, db, now, sent, causes>>
  \/ /\ Runs("continue", "fill")
     /\ OfUser(db.messages, cur.user) # {} /\ ~Listed(cur.user) /\ Abort("search")

ContinueShows ==
  \/ /\ On("continue", "page")
     /\ page' = "conversation" /\ named' = cur.user
     /\ Finish
     /\ UNCHANGED <<lists, db, now, sent>>
  \/ Runs("continue", "page") /\ RenderFree /\ cur.freed /\ Abort("freed")

(* startConversation, when netCreateConversation fails and when it         *)
(* succeeds; the handshake is ConversationSetUp's.                         *)
Start ==
  /\ On("start", "first")
  /\ \/ Finish /\ UNCHANGED db
     \/ /\ MayAddConversation(db, cur.user)
        /\ db' = addConversation(db, cur.user, cur.user)
        /\ To("begin") /\ UNCHANGED <<blocked, causes>>
  /\ UNCHANGED <<page, named, lists, now, sent>>

(* deleteConversation *)
Removed(u) == removeMessages(removeConversation(db, u), u)

Delete ==
  /\ On("delete", "first") /\ RenderFree
  /\ db' = IF conversationExists(db, cur.user) THEN Removed(cur.user) ELSE db
  /\ blocked' = FALSE /\ causes' = causes \cup Early(Range(Tail(jobs)))
  /\ To("begin")
  /\ UNCHANGED <<page, named, lists, now, sent>>

(* replyToConversationSetUpInvite: what there was is removed before the    *)
(* user is asked.                                                          *)
Reply ==
  /\ On("reply", "first")
  /\ messagesList' = <<>>
  /\ db' = IF conversationExists(db, cur.user) THEN Removed(cur.user) ELSE db
  /\ To("ask")
  /\ UNCHANGED <<view, usersList, toUserId, now, sent, causes>>

ReplyAsks ==
  \/ /\ On("reply", "ask") /\ usersList # <<>>
     /\ \/ To("finish") /\ UNCHANGED <<toUserId, db, causes>>   \* unknown, declined, failed
        \/ /\ Listed(cur.user) /\ MayAddConversation(db, cur.user)
           /\ toUserId' = cur.user
           /\ causes' = causes \cup Overtaken(cur.user)
           /\ db' = addConversation(db, cur.user, cur.user)
           /\ To("begin")
     /\ UNCHANGED <<view, usersList, messagesList, now, sent>>
  \/ Runs("reply", "ask") /\ usersList = <<>> /\ Abort("search")

(* updateUsersList, the last of a start or an accepted invite but one, and *)
(* the last of a deletion: it holds the controls, empties the list, which  *)
(* takes no lock of render's, and shows it.                                *)
Refreshing(step) == \E op \in {"start", "reply", "delete"} : Runs(op, step)

RefreshBegins ==
  \/ /\ Refreshing("begin") /\ UNCHANGED <<frame, net, acts, failed>> /\ RenderFree /\ fetchers = 0
     /\ blocked' = TRUE
     /\ To("clear")
     /\ UNCHANGED <<page, named, lists, db, now, sent, causes>>
  \/ Refreshing("begin") /\ fetchers # 0 /\ Abort("fetchers")

RefreshClears ==
  /\ Refreshing("clear") /\ UNCHANGED <<frame, net, acts, failed>>
  /\ usersList' = <<>>
  /\ jobs' = [i \in DOMAIN jobs |-> Freed(jobs[i])]
  /\ at' = "list"
  /\ UNCHANGED <<view, messagesList, toUserId, db, now, sent, causes>>

RefreshShows ==
  /\ Refreshing("list") /\ UNCHANGED <<frame, net, acts, failed>> /\ RenderFree
  /\ page' = "users"
  /\ IF cur.op = "delete"
     THEN jobs' = Append(Tail(jobs), Job("fetch", NoUser, 0)) /\ at' = "first"
     ELSE Push(Job("fetch", NoUser, 0)) /\ at' = "finish"
  /\ UNCHANGED <<named, blocked, lists, db, now, sent, causes>>

(* releaseLocks: the controls are given back, though the list is fetched. *)
Finishes ==
  /\ \E op \in {"start", "reply"} : On(op, "finish")
  /\ Finish
  /\ UNCHANGED <<page, named, lists, db, now, sent>>

(* netFetchUsers *)
Fetch ==
  \/ /\ Runs("fetch", "first") /\ ~Fetching
     /\ asked' = TRUE
     /\ Done
     /\ UNCHANGED <<view, frame, lists, db, fetching, left, ignoring, now, past, failed>>
  \/ Runs("fetch", "first") /\ Fetching /\ Abort("fetchers")

(* processFetchedUsers: the list is emptied, filled row by row and shown;  *)
(* then messages are fetched, of one user after another                    *)
(* (fetchMissingMessagesFromUser), if the last that is stored is earlier   *)
(* than now, and not of this millisecond.                                  *)
Users ==
  \/ /\ On("users", "first") /\ fetchers = 0
     /\ usersList' = <<>>
     /\ jobs' = [i \in DOMAIN jobs |-> Freed(jobs[i])]
     /\ at' = "rows"
     /\ UNCHANGED <<view, messagesList, toUserId, db, now, sent, causes>>
  \/ Runs("users", "first") /\ fetchers # 0 /\ Abort("fetchers")

UsersAdds ==
  /\ On("users", "rows") /\ Len(usersList) < Len(Registered)
  /\ LET u == Registered[Len(usersList) + 1]
     IN  usersList' = Append(usersList, UserRow(u, conversationExists(db, u)))
  /\ UNCHANGED <<view, messagesList, toUserId, db, thread, now, sent, causes>>

ToFetch == {i \in DOMAIN usersList : usersList[i].exists}
First(i, places) == i \in places /\ \A k \in places : i <= k
Earlier(u, time) == getMostRecentMessageTimestamp(db, u) < time

UsersShows ==
  /\ Runs("users", "rows") /\ RenderFree /\ Len(usersList) = Len(Registered)
  /\ \/ /\ ToFetch = {}
        /\ page' = "users"
        /\ ignoring' = FALSE
        /\ Finish
        /\ UNCHANGED <<named, frame, lists, db, asked, fetching, left, now, acts, sent, failed>>
     \/ /\ ~Fetching
        /\ page' = "users"
        /\ fetching' = "on"
        /\ \E i \in ToFetch, t \in Times :
             /\ First(i, ToFetch) /\ left' = ToFetch \ {i}
             /\ Earlier(usersList[i].id, t) /\ now' = t
        /\ Done
        /\ UNCHANGED <<named, blocked, frame, lists, db, asked, ignoring, past, failed>>
     \/ /\ \E i \in ToFetch : First(i, ToFetch) /\ ~Earlier(usersList[i].id, now)
        /\ Abort("future")
     \/ ToFetch # {} /\ Fetching /\ Abort("fetchers")

(* fetchMissingMessagesFromUserWrapper, for the users after the first:     *)
(* missingMessagesFetchers is raised, then netFetchMessages called.        *)
More ==
  \/ /\ Runs("more", "first")
     /\ \E t \in Times : Earlier(cur.user, t) /\ now' = t
     /\ To("get")
     /\ UNCHANGED <<view, frame, lists, db, net, past, failed>>
  \/ Runs("more", "first") /\ ~Earlier(cur.user, now) /\ Abort("future")

MoreAsks ==
  \/ /\ Runs("more", "get") /\ ~Fetching
     /\ fetching' = "on"
     /\ Done
     /\ UNCHANGED <<view, frame, lists, db, asked, left, ignoring, now, past, failed>>
  \/ Runs("more", "get") /\ Fetching /\ Abort("fetchers")

-----------------------------------------------------------------------------
(* The net thread's callbacks.                                             *)

NetFree == Alive /\ fetching # "last"

UsersArrive ==
  /\ NetFree /\ asked
  /\ asked' = FALSE
  /\ ignoring' = TRUE
  /\ Push(Job("users", NoUser, 0))
  /\ UNCHANGED <<view, frame, lists, db, at, fetching, left, now, past, failed>>

(* onNextMessageFetched, for the last of a user: the next user is left to  *)
(* a job...                                                                *)
FetchEnds ==
  /\ Alive /\ fetching = "on"
  /\ fetching' = "last"
  /\ \/ left = {} /\ UNCHANGED <<left, jobs>>
     \/ \E i \in left :
          /\ First(i, left) /\ left' = left \ {i}
          /\ Push(Job("more", Registered[i], 0))
  /\ UNCHANGED <<view, frame, lists, db, at, asked, ignoring, now, past, failed>>

(* ...which missingMessagesFetchers must match, before or after it has     *)
(* begun; if it is zero the controls are given back, though the messages   *)
(* of one user more are to come.                                           *)
FetchChecks ==
  /\ fetching = "last"
  /\ \/ /\ Alive /\ fetchers = Cardinality(left) /\ fetchers # 0
        /\ fetching' = "no"
        /\ UNCHANGED <<view, frame, lists, db, thread, asked, left, ignoring, now, past, failed>>
     \/ /\ RenderFree /\ fetchers = 0 /\ left = {}
        /\ fetching' = "no" /\ ignoring' = FALSE
        /\ blocked' = FALSE
        /\ causes' = causes \cup Early(Pending)
        /\ UNCHANGED <<page, named, frame, lists, db, thread, asked, left, now, acts, sent, failed>>
     \/ Alive /\ fetchers # Cardinality(left) /\ Abort("fetchers")

(* onMessageReceived, with a time of the sender's clock, which may be      *)
(* ahead of this one; nobody may have been listed yet.                     *)
Untimely(t, when) ==
  (IF t > when THEN {"ahead"} ELSE {}) \cup (IF usersList = <<>> THEN {"alone"} ELSE {})

MessageArrives(u) ==
  /\ NetFree /\ ~ignoring
  /\ \E t \in Times :
       /\ now' \in {now, t}
       /\ Acts(Untimely(t, now'))
       /\ Push([Job("receive", u, acts + 1) EXCEPT !.time = t])
  /\ UNCHANGED <<view, frame, lists, db, at, net, sent, failed>>

(* onConversationSetUpInviteReceived; another set-up is not under way. *)
InviteArrives(u) ==
  /\ NetFree /\ RenderFree /\ \A j \in Pending : j.op \notin {"start", "reply"}
  /\ Acts({"invite"})
  /\ blocked' = TRUE
  /\ Push(Job("reply", u, 0))
  /\ UNCHANGED <<page, named, frame, lists, db, at, net, now, sent, failed>>

(* onErrorReceived *)
ErrorArrives ==
  /\ NetFree /\ RenderFree
  /\ Acts(Early(Pending))
  /\ blocked' = FALSE
  /\ UNCHANGED <<page, named, frame, lists, db, thread, net, now, sent, failed>>

-----------------------------------------------------------------------------
Clicks ==
  \/ ChooseContinue \/ ChooseDelete \/ ChooseStart \/ ChooseOffline
  \/ ClickUpdate \/ ClickBack \/ ClickSend \/ ClickFile \/ ClickNoFile

UIThread ==
  \/ Press \/ BeginDraw \/ DrawRow \/ EndDraw \/ Clicks
  \/ PasteLooks \/ PasteChooses \/ PasteAlters

AsyncThread ==
  \/ SendStores \/ SendSeals \/ SendGoesOut \/ Receive \/ ReceiveShows
  \/ Continue \/ ContinueFills \/ ContinueShows
  \/ Start \/ Delete \/ Reply \/ ReplyAsks
  \/ RefreshBegins \/ RefreshClears \/ RefreshShows \/ Finishes
  \/ Fetch \/ Users \/ UsersAdds \/ UsersShows \/ More \/ MoreAsks

NetThread ==
  \/ UsersArrive \/ FetchEnds \/ FetchChecks \/ ErrorArrives
  \/ \E u \in Peers : MessageArrives(u) \/ InviteArrives(u)

(* The process has ended. *)
Rest == ~Alive /\ UNCHANGED vars

Next == UIThread \/ AsyncThread \/ NetThread \/ Rest

Spec == Init /\ [][Next]_vars

-----------------------------------------------------------------------------
(* Correctness.                                                            *)

(* A message goes to the user whose page it was written on, is stored in   *)
(* that conversation and sealed with its streams, though sendMessage is    *)
(* told none of it and reads toUserId three times: as long as toUserId is  *)
(* not changed under a message, or a page, that is on its way.             *)
SentToShown ==
  "overtaken" \notin causes =>
    /\ \A s \in sent : s.to = s.shown /\ s.sealed = s.shown
    /\ \A m \in db.messages : m.from = Me =>
         \A s \in sent : s.text = m.text => m.conversation = s.shown

(* When nothing is on its way, an open page shows the messages that are    *)
(* stored for it, no more and no less: what was sent, received and loaded  *)
(* by two threads.  An invite empties the list under the page; whoever     *)
(* opens a page twice, with controls given back too early, and writes in   *)
(* between has his message emptied from it.                                *)
Quiet == ui = "idle" /\ jobs = <<>>
ShowsStored ==
  /\ Quiet /\ Alive /\ page = "conversation"
  /\ causes \cap {"overtaken", "invite", "early"} = {}
  => /\ named = toUserId
     /\ {e.text : e \in Range(messagesList)} = {m.text : m \in OfUser(db.messages, named)}
     /\ Len(messagesList) = Cardinality(OfUser(db.messages, named))

(* Reading, writing, leaving and opening conversations never ends the      *)
(* client, whatever order the threads take: what does is rooted in an      *)
(* invite, a start, a deletion, a refresh, controls given back too early,  *)
(* another user chosen too early, two messages in one millisecond, a text  *)
(* as long as the page lets it be, which no message takes, a peer's clock  *)
(* that is ahead, or a message to a client that was alone when it logged   *)
(* in and lists nobody.                                                    *)
CalmIsSafe == causes = {} => Alive
=============================================================================
