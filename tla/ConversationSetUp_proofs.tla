---------------------- MODULE ConversationSetUp_proofs ----------------------
(***************************************************************************)
(* Proofs about ConversationSetUp, for any number of users, whatever they  *)
(* know of one another and however often they start set-ups, delete        *)
(* conversations and exchange files.                                       *)
(***************************************************************************)
EXTENDS ConversationSetUp, SequenceTheorems, TLAPS

-----------------------------------------------------------------------------
(* Queues.                                                                 *)

(* What is read from the head of a queue was in it. *)
LEMMA HeadOfQueue ==
  ASSUME NEW S, NEW q \in Seq(S), q # <<>>
  PROVE  Head(q) \in S /\ Head(q) \in Range(q)
  BY DEF Range

(* Taking from a queue puts nothing into it... *)
LEMMA TailOfQueue ==
  ASSUME NEW S, NEW q \in Seq(S), q # <<>>
  PROVE  Tail(q) \in Seq(S) /\ Range(Tail(q)) \subseteq Range(q)
  BY DEF Range

(* ...and appending to it puts in nothing else. *)
LEMMA AppendToQueue ==
  ASSUME NEW S, NEW q \in Seq(S), NEW e \in S
  PROVE  Append(q, e) \in Seq(S) /\ Range(Append(q, e)) \subseteq Range(q) \cup {e}
  BY DEF Range

-----------------------------------------------------------------------------
(* Types.                                                                  *)

(* What is sent, popped and entered has the type of its place. *)
LEMMA SendType ==
  ASSUME TypeOK, NEW c \in Clients, NEW p \in Clients, NEW flag, NEW body,
         Message(flag, body) \in Messages, Send(c, p, flag, body)
  PROVE  channel' \in [Clients -> [Clients -> Seq(Messages)]]
  BY AppendToQueue DEF TypeOK, Send

LEMMA PushType ==
  ASSUME TypeOK, NEW c \in Clients, NEW op, NEW peer,
         Job(op, peer) \in Jobs, Push(c, op, peer)
  PROVE  jobs' \in [Clients -> Seq(Jobs)]
  BY AppendToQueue DEF TypeOK, Push

LEMMA RunsType ==
  ASSUME TypeOK, NEW c \in Clients, NEW op, Runs(c, op)
  PROVE  /\ Head(jobs[c]) \in Jobs /\ Head(jobs[c]).op = op
         /\ Pop(c) => jobs' \in [Clients -> Seq(Jobs)]
<1>1. jobs[c] \in Seq(Jobs) /\ jobs[c] # <<>>
  BY DEF TypeOK, Runs
<1>2. Head(jobs[c]) \in Jobs /\ Tail(jobs[c]) \in Seq(Jobs)
  BY <1>1, HeadOfQueue, TailOfQueue
<1> QED
  BY <1>2 DEF TypeOK, Runs, Pop

LEMMA GetsType ==
  ASSUME TypeOK, NEW c \in Clients, NEW at, NEW flag, Gets(c, at, flag)
  PROVE  /\ Head(setupQueue[c]) \in Messages /\ Head(setupQueue[c]).flag = flag
         /\ Head(setupQueue[c]) \in Range(setupQueue[c])
         /\ TakeMessage(c) => setupQueue' \in [Clients -> Seq(Messages)]
<1>1. setupQueue[c] \in Seq(Messages) /\ setupQueue[c] # <<>>
  BY DEF TypeOK, Gets
<1>2. /\ Head(setupQueue[c]) \in Messages /\ Head(setupQueue[c]) \in Range(setupQueue[c])
      /\ Tail(setupQueue[c]) \in Seq(Messages)
  BY <1>1, HeadOfQueue, TailOfQueue
<1> QED
  BY <1>2 DEF TypeOK, Gets, TakeMessage

LEMMA EnterType ==
  ASSUME TypeOK, NEW c \in Clients, NEW t \in Tasks, Enter(c, t)
  PROVE  task' \in [Clients -> Tasks]
  BY DEF TypeOK, Enter

LEMMA JobTypes ==
  ASSUME NEW p \in Clients
  PROVE  /\ \A op \in {"start", "reply", "delete", "sendFile", "receiveFile"} : Job(op, p) \in Jobs
         /\ \A op \in {"reply", "receiveFile", "fetchUsers", "processUsers"} : Job(op, None) \in Jobs
  BY DEF Job, Jobs

LEMMA MessageTypes ==
  /\ \A flag \in {"invite", "deny"} : Message(flag, None) \in Messages
  /\ \A k \in ServerKeys : Message("keys", k) \in Messages
  /\ \A k \in ClientKeys : Message("keysDone", k) \in Messages
  /\ \A flag \in {"headers", "headersDone"}, s \in Sessions : Message(flag, s) \in Messages
  BY DEF Message, Messages

LEMMA NextKeyType ==
  ASSUME TypeOK, NEW c \in Clients
  PROVE  /\ NextKey(c, "server") \in ServerKeys
         /\ NextKey(c, "client") \in ClientKeys
         /\ MakeKey(c) => keysMade' \in [Clients -> Nat]
  BY DEF TypeOK, NextKey, MakeKey, ServerKeys, ClientKeys, KeysOf

(* What the bodies of the messages with keys and sessions are. *)
LEMMA BodyTypes ==
  ASSUME NEW m \in Messages
  PROVE  /\ m.flag = "keys" => m.body \in ServerKeys
         /\ m.flag = "keysDone" => m.body \in ClientKeys
         /\ m.flag \in {"headers", "headersDone"} => m.body \in Sessions
  BY DEF Messages

-----------------------------------------------------------------------------
(* The steps that set-up takes no part in, and those of it in which no key *)
(* moves: no message with a key is sent, no key is made, nobody comes out  *)
(* with streams, and a thread that takes a step is left without a key.     *)

KeyLess(t) ==
  /\ t.at \notin {"waitKeysDone", "waitHeadersDone", "waitHeaders"}
  /\ t.own = None /\ t.session = None
  /\ t.at \in Waits \cup {"dialog"} => t.peer \in Clients

Quiet ==
  /\ made' = made /\ keysMade' = keysMade
  /\ \A c \in Clients : \A m \in Pending(c)' : m \in Pending(c) \/ m.flag \in {"invite", "deny"}
  /\ \A c \in Clients : task'[c] = task[c] \/ KeyLess(task'[c])

LEMMA SpendType ==
  ASSUME TypeOK, NEW what \in {"start", "delete", "file"}, Spend(what)
  PROVE  left' \in [{"start", "delete", "file"} -> Nat]
  BY DEF TypeOK, Spend

LEMMA LoadingTypes ==
  ASSUME TypeOK, NEW c \in Clients, BeginLoading(c) \/ FinishLoading(c)
  PROVE  allowInput' \in [Clients -> BOOLEAN]
  BY DEF TypeOK, BeginLoading, FinishLoading

LEMMA KeepPending ==
  ASSUME TypeOK, NEW r \in Clients, channel' = channel,
         Range(setupQueue'[r]) \subseteq Range(setupQueue[r])
  PROVE  Pending(r)' \subseteq Pending(r)
  BY DEF Pending

LEMMA SendPending ==
  ASSUME TypeOK, NEW c \in Clients, NEW p \in Clients, NEW flag, NEW body,
         Message(flag, body) \in Messages, Send(c, p, flag, body),
         NEW r \in Clients, Range(setupQueue'[r]) \subseteq Range(setupQueue[r]),
         NEW m \in Pending(r)'
  PROVE  m \in Pending(r) \/ (r = p /\ m = Message(flag, body))
<1>1. CASE m \in Range(setupQueue'[r])
  BY <1>1 DEF Pending
<1>2. CASE \E s \in Clients : m \in Range(channel'[s][r])
  <2>1. PICK s \in Clients : m \in Range(channel'[s][r])
    BY <1>2
  <2>2. CASE s = c /\ r = p
    <3>1. channel[s][r] \in Seq(Messages) /\ channel'[s][r] = Append(channel[s][r], Message(flag, body))
      BY <2>2 DEF TypeOK, Send
    <3>2. m \in Range(channel[s][r]) \/ m = Message(flag, body)
      BY <2>1, <3>1, AppendToQueue
    <3> QED
      BY <2>2, <3>2 DEF Pending
  <2>3. CASE ~(s = c /\ r = p)
    <3>1. channel'[s][r] = channel[s][r]
      BY <2>3 DEF TypeOK, Send
    <3> QED
      BY <2>1, <3>1 DEF Pending
  <2> QED
    BY <2>2, <2>3
<1> QED
  BY <1>1, <1>2 DEF Pending

(* A queue that was emptied, or from which one message was taken. *)
LEMMA EmptiedQueue ==
  ASSUME TypeOK, NEW c \in Clients, NEW r \in Clients,
         \/ setupQueue' = [setupQueue EXCEPT ![c] = <<>>]
         \/ setupQueue' = setupQueue
  PROVE  /\ Range(setupQueue'[r]) \subseteq Range(setupQueue[r])
         /\ setupQueue' \in [Clients -> Seq(Messages)]
<1>1. setupQueue'[r] = <<>> \/ setupQueue'[r] = setupQueue[r]
  BY DEF TypeOK
<1>2. Range(<<>>) = {} /\ <<>> \in Seq(Messages)
  BY EmptySeq DEF Range
<1>3. Range(setupQueue'[r]) \subseteq Range(setupQueue[r])
  BY <1>1, <1>2
<1>4. setupQueue' \in [Clients -> Seq(Messages)]
  <2>1. setupQueue \in [Clients -> Seq(Messages)] /\ <<>> \in Seq(Messages)
    BY <1>2 DEF TypeOK
  <2>2. CASE setupQueue' = [setupQueue EXCEPT ![c] = <<>>]
    BY <2>1, <2>2
  <2>3. CASE setupQueue' = setupQueue
    BY <2>1, <2>3
  <2> QED
    BY <2>2, <2>3
<1> QED
  BY <1>3, <1>4

LEMMA TakenQueue ==
  ASSUME TypeOK, NEW c \in Clients, NEW r \in Clients, setupQueue[c] # <<>>, TakeMessage(c)
  PROVE  Range(setupQueue'[r]) \subseteq Range(setupQueue[r])
<1>1. setupQueue[c] \in Seq(Messages) /\ setupQueue[c] # <<>>
  BY DEF TypeOK
<1>2. Range(Tail(setupQueue[c])) \subseteq Range(setupQueue[c])
  BY <1>1, TailOfQueue
<1> QED
  BY <1>2 DEF TypeOK, TakeMessage

LEMMA QuietWire ==
  ASSUME UNCHANGED <<channel, setupQueue, made, keysMade>>,
         \A c \in Clients : task'[c] = task[c] \/ KeyLess(task'[c])
  PROVE  Quiet
  BY DEF Quiet, Pending

LEMMA KeyLessTasks ==
  /\ \A at \in {"idle", "refresh", "return", "fileDialog", "file"}, p \in Clients \cup {None} :
       Task(at, p, None, None) \in Tasks /\ KeyLess(Task(at, p, None, None))
  /\ \A at \in {"dialog", "waitKeys"}, p \in Clients :
       Task(at, p, None, None) \in Tasks /\ KeyLess(Task(at, p, None, None))
  BY DEF Task, Tasks, KeyLess, Waits

LEMMA EnterKeyLess ==
  ASSUME TypeOK, NEW c \in Clients, NEW t \in Tasks, KeyLess(t), Enter(c, t)
  PROVE  /\ task' \in [Clients -> Tasks]
         /\ \A r \in Clients : task'[r] = task[r] \/ KeyLess(task'[r])
         /\ UNCHANGED <<channel, setupQueue, made, keysMade>> => Quiet
<1>1. \A r \in Clients : task'[r] = task[r] \/ KeyLess(task'[r])
  BY DEF TypeOK, Enter
<1> QED
  BY <1>1, EnterType, QuietWire

LEMMA ChooseStep ==
  ASSUME TypeOK, NEW c \in Clients, ChoosesJob(c)
  PROVE  TypeOK' /\ Quiet
<1>1. PICK p \in Clients : ChooseStart(c, p) \/ ChooseDelete(c, p) \/ ChooseFile(c, p)
  BY DEF ChoosesJob
<1>2. PICK op \in {"start", "delete", "sendFile"}, what \in {"start", "delete", "file"} :
        /\ Spend(what) /\ BeginLoading(c) /\ Push(c, op, p)
        /\ UNCHANGED <<wire, flags, claim, task, listed, fetching, store, keysMade, failed>>
  BY <1>1 DEF ChooseStart, ChooseDelete, ChooseFile
<1>3. left' \in [{"start", "delete", "file"} -> Nat] /\ allowInput' \in [Clients -> BOOLEAN]
  BY <1>2, SpendType, LoadingTypes
<1>4. jobs' \in [Clients -> Seq(Jobs)]
  BY <1>2, JobTypes, PushType
<1>5. Quiet
  BY <1>2, QuietWire DEF wire, store
<1> QED
  BY <1>2, <1>3, <1>4, <1>5 DEF TypeOK, wire, flags, store

LEMMA AbortStep ==
  ASSUME TypeOK, NEW c \in Clients, NEW assertion \in Asserts, Abort(c, assertion)
  PROVE  TypeOK' /\ Quiet
<1>1. Quiet
  BY QuietWire DEF Abort, wire, store
<1> QED
  BY <1>1 DEF Abort, TypeOK, wire, flags, ui, store

LEMMA ReceiveStep ==
  ASSUME TypeOK, NEW c \in Clients, NEW s \in Clients, Receive(c, s)
  PROVE  TypeOK' /\ Quiet
<1> DEFINE q == channel[s][c]  m == Head(q)
<1>1. q \in Seq(Messages) /\ q # <<>>
  BY DEF TypeOK, Receive
<1>2. /\ m \in Messages /\ m \in Range(q)
      /\ Tail(q) \in Seq(Messages) /\ Range(Tail(q)) \subseteq Range(q)
  BY <1>1, HeadOfQueue, TailOfQueue
<1>3. channel' \in [Clients -> [Clients -> Seq(Messages)]]
  BY <1>2 DEF TypeOK, Receive
<1>4. \A r \in Clients : Range(setupQueue'[r]) \subseteq Range(setupQueue[r]) \cup (IF r = c THEN {m} ELSE {})
  <2> SUFFICES ASSUME NEW r \in Clients
               PROVE  Range(setupQueue'[r]) \subseteq Range(setupQueue[r]) \cup (IF r = c THEN {m} ELSE {})
    OBVIOUS
  <2>1. CASE r = c /\ m.flag # "invite"
    <3>1. setupQueue[c] \in Seq(Messages) /\ setupQueue'[c] = Append(setupQueue[c], m)
      BY <2>1 DEF TypeOK, Receive
    <3> QED
      BY <3>1, <2>1, <1>2, AppendToQueue
  <2>2. CASE ~(r = c /\ m.flag # "invite")
    BY <2>2 DEF TypeOK, Receive
  <2> QED
    BY <2>1, <2>2
<1>5. setupQueue' \in [Clients -> Seq(Messages)]
  <2>1. Append(setupQueue[c], m) \in Seq(Messages)
    BY <1>2, AppendToQueue DEF TypeOK
  <2>2. setupQueue \in [Clients -> Seq(Messages)]
    BY DEF TypeOK
  <2>3. \/ setupQueue' = [setupQueue EXCEPT ![c] = Append(setupQueue[c], m)]
        \/ setupQueue' = setupQueue
    BY DEF Receive
  <2> HIDE DEF m
  <2>4. CASE setupQueue' = [setupQueue EXCEPT ![c] = Append(setupQueue[c], m)]
    BY <2>1, <2>2, <2>4
  <2> QED
    BY <2>2, <2>3, <2>4
<1>6. \A r, t \in Clients : Range(channel'[t][r]) \subseteq Range(channel[t][r])
  BY <1>2 DEF TypeOK, Receive
<1>7. \A r \in Clients : Pending(r)' \subseteq Pending(r)
  <2> SUFFICES ASSUME NEW r \in Clients, NEW x \in Pending(r)'
               PROVE  x \in Pending(r)
    OBVIOUS
  <2>1. CASE x \in Range(setupQueue'[r])
    <3>1. x \in Range(setupQueue[r]) \/ (r = c /\ x \in Range(channel[s][c]))
      BY <1>2, <1>4, <2>1
    <3> QED
      BY <3>1 DEF Pending
  <2>2. CASE \E t \in Clients : x \in Range(channel'[t][r])
    BY <1>6, <2>2 DEF Pending
  <2> QED
    BY <2>1, <2>2 DEF Pending
<1>8. Quiet
  BY <1>7 DEF Quiet, Receive, store
<1>9. claim' \in [Clients -> Jobs \cup {None}]
  <2>1. Job("reply", s) \in Jobs /\ claim \in [Clients -> Jobs \cup {None}]
    BY JobTypes DEF TypeOK
  <2>2. \/ claim' = [claim EXCEPT ![c] = IF Busy(c) THEN None ELSE Job("reply", s)]
        \/ claim' = claim
    BY DEF Receive
  <2> QED
    BY <2>1, <2>2
<1>10. UNCHANGED <<flags, jobs, task, ui, store, keysMade, failed, left>>
  BY DEF Receive
<1>11. TypeOK'
  BY <1>3, <1>5, <1>9, <1>10 DEF TypeOK, flags, ui, store
<1> QED
  BY <1>8, <1>11

LEMMA StrangerStep ==
  ASSUME TypeOK, NEW c \in Clients, ReceiveStrangersInvite(c)
  PROVE  TypeOK' /\ Quiet
<1>1. Job("reply", None) \in Jobs
  BY JobTypes
<1>2. Quiet
  BY QuietWire DEF ReceiveStrangersInvite, wire, store
<1>3. left' \in [{"start", "delete", "file"} -> Nat]
  BY SpendType DEF ReceiveStrangersInvite
<1> QED
  BY <1>1, <1>2, <1>3 DEF TypeOK, ReceiveStrangersInvite, wire, flags, ui, store

LEMMA FileAskStep ==
  ASSUME TypeOK, NEW c \in Clients, NEW s \in Clients \cup {None}, ReceiveFileAsk(c, s)
  PROVE  TypeOK' /\ Quiet
<1>1. Job("receiveFile", s) \in Jobs
  BY JobTypes
<1>2. Quiet
  BY QuietWire DEF ReceiveFileAsk, wire, store
<1>3. left' \in [{"start", "delete", "file"} -> Nat]
  BY SpendType DEF ReceiveFileAsk
<1> QED
  BY <1>1, <1>2, <1>3 DEF TypeOK, ReceiveFileAsk, wire, flags, ui, store

LEMMA ClaimStep ==
  ASSUME TypeOK, NEW c \in Clients, Claim(c)
  PROVE  TypeOK' /\ Quiet
<1>1. claim[c] \in Jobs
  BY DEF TypeOK, Claim
<1>2. jobs' \in [Clients -> Seq(Jobs)]
  <2>1. Append(jobs[c], claim[c]) \in Seq(Jobs)
    BY <1>1, AppendToQueue DEF TypeOK
  <2> QED
    BY <2>1 DEF TypeOK, Claim
<1>3. allowInput' \in [Clients -> BOOLEAN]
  BY LoadingTypes DEF Claim
<1>4. Quiet
  BY QuietWire DEF Claim, wire, store
<1>5. settingUp' \in [Clients -> BOOLEAN] /\ exchangingFile' \in [Clients -> BOOLEAN]
  BY DEF TypeOK, Claim
<1>6. claim' \in [Clients -> Jobs \cup {None}]
  BY DEF TypeOK, Claim
<1> QED
  BY <1>2, <1>3, <1>4, <1>5, <1>6 DEF TypeOK, Claim, wire, store

LEMMA FetchedStep ==
  ASSUME TypeOK, NEW c \in Clients, UsersFetched(c) \/ MessagesFetched(c)
  PROVE  TypeOK' /\ Quiet
<1>1. Quiet
  BY QuietWire DEF UsersFetched, MessagesFetched, wire, store
<1>2. jobs' \in [Clients -> Seq(Jobs)]
  BY JobTypes, PushType DEF TypeOK, UsersFetched, MessagesFetched
<1>3. allowInput' \in [Clients -> BOOLEAN]
  BY LoadingTypes DEF TypeOK, UsersFetched, MessagesFetched
<1>4. fetching' \in [Clients -> {"none", "users", "messages"}]
  BY DEF TypeOK, UsersFetched, MessagesFetched
<1> QED
  BY <1>1, <1>2, <1>3, <1>4 DEF TypeOK, UsersFetched, MessagesFetched, wire, flags, store

LEMMA NetThreadStep ==
  ASSUME TypeOK, NEW c \in Clients, NetThread(c)
  PROVE  TypeOK' /\ Quiet
  BY ReceiveStep, StrangerStep, FileAskStep, ClaimStep, FetchedStep DEF NetThread

LEMMA DeleteStep ==
  ASSUME TypeOK, NEW c \in Clients, RunDelete(c) \/ Refresh(c)
  PROVE  TypeOK' /\ Quiet
<1>1. CASE RunDelete(c)
  <2>1. jobs' \in [Clients -> Seq(Jobs)]
    BY <1>1, RunsType DEF RunDelete
  <2>2. task' \in [Clients -> Tasks] /\ Quiet
    <3>1. Enter(c, Task("refresh", None, None, None))
      BY <1>1 DEF RunDelete
    <3> QED
      BY <1>1, <3>1, KeyLessTasks, EnterKeyLess DEF RunDelete, wire
  <2>3. allowInput' \in [Clients -> BOOLEAN]
    BY <1>1, LoadingTypes DEF RunDelete
  <2>4. conversations' \in [Clients -> [Clients -> Sessions \cup {None}]]
    BY <1>1 DEF TypeOK, RunDelete
  <2> QED
    BY <1>1, <2>1, <2>2, <2>3, <2>4 DEF TypeOK, RunDelete, wire, flags
<1>2. CASE Refresh(c) /\ RefreshAllowed(c)
  <2>1. /\ RefreshList(c) /\ BeginLoading(c) /\ Enter(c, Idle)
        /\ UNCHANGED <<wire, flags, claim, fetching, store, keysMade, failed, left>>
    BY <1>2 DEF Refresh
  <2>2. jobs' \in [Clients -> Seq(Jobs)]
    BY <2>1, JobTypes, PushType DEF RefreshList
  <2>3. task' \in [Clients -> Tasks] /\ Quiet
    BY <2>1, KeyLessTasks, EnterKeyLess DEF Idle, wire, store
  <2>4. allowInput' \in [Clients -> BOOLEAN] /\ listed' \in [Clients -> BOOLEAN]
    BY <2>1, LoadingTypes DEF TypeOK, RefreshList
  <2> QED
    BY <2>1, <2>2, <2>3, <2>4 DEF TypeOK, wire, flags, store
<1>3. CASE Refresh(c) /\ ~RefreshAllowed(c)
  BY <1>3, AbortStep DEF Refresh, Asserts
<1> QED
  BY <1>1, <1>2, <1>3

LEMMA FetchUsersStep ==
  ASSUME TypeOK, NEW c \in Clients, RunFetchUsers(c)
  PROVE  TypeOK' /\ Quiet
<1>1. CASE fetching[c] # "none"
  BY <1>1, AbortStep DEF RunFetchUsers, Asserts
<1>2. CASE fetching[c] = "none"
  <2>1. jobs' \in [Clients -> Seq(Jobs)]
    BY <1>2, RunsType DEF RunFetchUsers
  <2>2. Quiet
    BY <1>2, QuietWire DEF RunFetchUsers, wire, store
  <2>3. fetching' \in [Clients -> {"none", "users", "messages"}]
    BY <1>2 DEF TypeOK, RunFetchUsers
  <2> QED
    BY <1>2, <2>1, <2>2, <2>3 DEF TypeOK, RunFetchUsers, wire, flags, store
<1> QED
  BY <1>1, <1>2

LEMMA ProcessUsersStep ==
  ASSUME TypeOK, NEW c \in Clients, RunProcessUsers(c)
  PROVE  TypeOK' /\ Quiet
<1>1. CASE Abort(c, "netFetchMessages") \/ Abort(c, "processFetchedUsers")
  BY <1>1, AbortStep DEF Asserts
<1>2. CASE ~(Abort(c, "netFetchMessages") \/ Abort(c, "processFetchedUsers"))
  <2>1. /\ Pop(c)
        /\ listed' = [listed EXCEPT ![c] = TRUE]
        /\ \/ FinishLoading(c) /\ fetching' = fetching
           \/ fetching' = [fetching EXCEPT ![c] = "messages"] /\ allowInput' = allowInput
        /\ UNCHANGED <<wire, flags, claim, task, store, keysMade, failed, left>>
    BY <1>2 DEF RunProcessUsers
  <2>2. jobs' \in [Clients -> Seq(Jobs)]
    BY <2>1, RunsType DEF RunProcessUsers
  <2>3. Quiet
    BY <2>1, QuietWire DEF wire, store
  <2>4. fetching' \in [Clients -> {"none", "users", "messages"}] /\ listed' \in [Clients -> BOOLEAN]
    BY <2>1 DEF TypeOK
  <2>5. allowInput' \in [Clients -> BOOLEAN]
    BY <2>1, LoadingTypes DEF TypeOK
  <2> QED
    BY <2>1, <2>2, <2>3, <2>4, <2>5 DEF TypeOK, wire, flags, store
<1> QED
  BY <1>1, <1>2

LEMMA FileStep ==
  ASSUME TypeOK, NEW c \in Clients,
         RunSendFile(c) \/ RunReceiveFile(c) \/ AnswerFile(c) \/ EndFile(c)
  PROVE  TypeOK' /\ Quiet
<1>1. CASE RunSendFile(c) /\ ~Busy(c)
  <2>1. jobs' \in [Clients -> Seq(Jobs)] /\ Head(jobs[c]).peer \in Clients \cup {None}
    BY <1>1, RunsType DEF RunSendFile, Jobs
  <2>2. task' \in [Clients -> Tasks] /\ Quiet
    <3>1. Enter(c, Task("file", Head(jobs[c]).peer, None, None))
      BY <1>1 DEF RunSendFile
    <3> QED
      BY <1>1, <2>1, <3>1, KeyLessTasks, EnterKeyLess DEF RunSendFile, wire, store
  <2>3. exchangingFile' \in [Clients -> BOOLEAN]
    BY <1>1 DEF TypeOK, RunSendFile
  <2> QED
    BY <1>1, <2>1, <2>2, <2>3 DEF TypeOK, RunSendFile, wire, ui, store
<1>2. CASE RunSendFile(c) /\ Busy(c)
  BY <1>2, AbortStep DEF RunSendFile, Asserts
<1>3. CASE RunReceiveFile(c) /\ listed[c]
  <2> DEFINE p == Head(jobs[c]).peer
  <2>1. jobs' \in [Clients -> Seq(Jobs)] /\ p \in Clients \cup {None}
    BY <1>3, RunsType DEF RunReceiveFile, Jobs
  <2>2. /\ \/ Enter(c, Task("fileDialog", p, None, None)) /\ allowInput' = allowInput
           \/ task' = task /\ FinishLoading(c)
        /\ UNCHANGED <<wire, flags, claim, listed, fetching, store, keysMade, failed, left>>
    BY <1>3 DEF RunReceiveFile, ui
  <2>3. task' \in [Clients -> Tasks] /\ Quiet
    <3>1. CASE Enter(c, Task("fileDialog", p, None, None))
      BY <2>1, <2>2, <3>1, KeyLessTasks, EnterKeyLess DEF wire, store
    <3>2. CASE task' = task
      BY <2>2, <3>2, QuietWire DEF TypeOK, wire, store
    <3> QED
      BY <2>2, <3>1, <3>2
  <2>4. allowInput' \in [Clients -> BOOLEAN]
    BY <2>2, LoadingTypes DEF TypeOK
  <2> QED
    BY <2>1, <2>2, <2>3, <2>4 DEF TypeOK, wire, flags, store
<1>4. CASE RunReceiveFile(c) /\ ~listed[c]
  BY <1>4, AbortStep DEF RunReceiveFile, Asserts
<1>5. CASE AnswerFile(c)
  <2>1. task[c].peer \in Clients \cup {None}
    BY DEF TypeOK, Tasks
  <2>2. CASE Abort(c, "netReplyToFileExchangeInvite")
    BY <2>2, AbortStep DEF Asserts
  <2>3. CASE /\ Enter(c, Task("file", task[c].peer, None, None))
             /\ UNCHANGED <<wire, flags, claim, jobs, ui, store, keysMade, failed, left>>
    <3>1. task' \in [Clients -> Tasks] /\ Quiet
      BY <2>1, <2>3, KeyLessTasks, EnterKeyLess DEF wire, store
    <3> QED
      BY <2>3, <3>1 DEF TypeOK, wire, flags, ui, store
  <2> QED
    BY <1>5, <2>2, <2>3 DEF AnswerFile
<1>6. CASE EndFile(c)
  <2>1. task' \in [Clients -> Tasks] /\ Quiet
    <3>1. Enter(c, Task("idle", None, None, None))
      BY <1>6 DEF EndFile, Idle
    <3> QED
      BY <1>6, <3>1, KeyLessTasks, EnterKeyLess DEF EndFile, wire, store
  <2>2. allowInput' \in [Clients -> BOOLEAN]
    BY <1>6, LoadingTypes DEF EndFile
  <2>3. exchangingFile' \in [Clients -> BOOLEAN]
    BY <1>6 DEF TypeOK, EndFile
  <2> QED
    BY <1>6, <2>1, <2>2, <2>3 DEF TypeOK, EndFile, wire, store
<1> QED
  BY <1>1, <1>2, <1>3, <1>4, <1>5, <1>6

(* Messages without a key may be sent, while the own queue is emptied.     *)
LEMMA QuietSend ==
  ASSUME TypeOK, NEW c \in Clients, NEW p \in Clients, NEW flag \in {"invite", "deny"},
         Send(c, p, flag, None) \/ channel' = channel,
         setupQueue' = [setupQueue EXCEPT ![c] = <<>>],
         UNCHANGED <<made, keysMade>>,
         \A r \in Clients : task'[r] = task[r] \/ KeyLess(task'[r])
  PROVE  /\ channel' \in [Clients -> [Clients -> Seq(Messages)]]
         /\ setupQueue' \in [Clients -> Seq(Messages)]
         /\ Quiet
<1>1. /\ setupQueue' \in [Clients -> Seq(Messages)]
      /\ \A r \in Clients : Range(setupQueue'[r]) \subseteq Range(setupQueue[r])
  BY EmptiedQueue
<1>2. Message(flag, None) \in Messages /\ Message(flag, None).flag = flag
  BY MessageTypes DEF Message
<1>3. \A r \in Clients : \A m \in Pending(r)' : m \in Pending(r) \/ m.flag \in {"invite", "deny"}
  <2> SUFFICES ASSUME NEW r \in Clients, NEW m \in Pending(r)'
               PROVE  m \in Pending(r) \/ m.flag \in {"invite", "deny"}
    OBVIOUS
  <2>1. CASE Send(c, p, flag, None)
    <3>1. m \in Pending(r) \/ (r = p /\ m = Message(flag, None))
      BY <1>1, <1>2, <2>1, SendPending
    <3> QED
      BY <1>2, <3>1
  <2>2. CASE channel' = channel
    BY <1>1, <2>2, KeepPending
  <2> QED
    BY <2>1, <2>2
<1>4. channel' \in [Clients -> [Clients -> Seq(Messages)]]
  BY <1>2, SendType DEF TypeOK
<1> QED
  BY <1>1, <1>3, <1>4 DEF Quiet

LEMMA StartStep ==
  ASSUME TypeOK, NEW c \in Clients, RunStart(c)
  PROVE  TypeOK' /\ Quiet
<1> DEFINE p == Head(jobs[c]).peer
<1>1. p \in Clients /\ (Pop(c) => jobs' \in [Clients -> Seq(Jobs)])
  BY RunsType DEF RunStart, Jobs
<1>2. CASE /\ Pop(c) /\ FinishLoading(c)
           /\ UNCHANGED <<wire, flags, claim, task, listed, fetching, store, keysMade, failed, left>>
  <2>1. Quiet
    BY <1>2, QuietWire DEF wire, store
  <2>2. allowInput' \in [Clients -> BOOLEAN]
    BY <1>2, LoadingTypes
  <2> QED
    BY <1>1, <1>2, <2>1, <2>2 DEF TypeOK, wire, flags, store
<1>3. CASE /\ Pop(c)
           /\ settingUp' = [settingUp EXCEPT ![c] = TRUE]
           /\ setupQueue' = [setupQueue EXCEPT ![c] = <<>>]
           /\ Send(c, p, "invite", None)
           /\ Enter(c, Task("waitKeys", p, None, None))
           /\ UNCHANGED <<exchangingFile, claim, ui, store, keysMade, failed, left>>
  <2>1. /\ task' \in [Clients -> Tasks]
        /\ \A r \in Clients : task'[r] = task[r] \/ KeyLess(task'[r])
    BY <1>1, <1>3, KeyLessTasks, EnterKeyLess
  <2>2. /\ channel' \in [Clients -> [Clients -> Seq(Messages)]]
        /\ setupQueue' \in [Clients -> Seq(Messages)]
        /\ Quiet
    BY <1>1, <1>3, <2>1, QuietSend DEF store
  <2>3. settingUp' \in [Clients -> BOOLEAN]
    BY <1>3 DEF TypeOK
  <2> QED
    BY <1>1, <1>3, <2>1, <2>2, <2>3 DEF TypeOK, ui, store
<1>4. CASE Abort(c, "netCreateConversation")
  BY <1>4, AbortStep DEF Asserts
<1> QED
  BY <1>2, <1>3, <1>4 DEF RunStart

(* Forgetting one conversation, which a stranger has none of. *)
LEMMA ForgetIs ==
  ASSUME TypeOK, NEW c \in Clients, NEW p, ForgetConversation(c, p)
  PROVE  /\ conversations' \in [Clients -> [Clients -> Sessions \cup {None}]]
         /\ \A r, q \in Clients : \/ conversations'[r][q] = conversations[r][q]
                                  \/ conversations'[r][q] = None
         /\ p \in Clients => conversations'[c][p] = None
<1> DEFINE kept == [q \in Clients |-> IF q = p THEN None ELSE conversations[c][q]]
<1>1. conversations' = [conversations EXCEPT ![c] = kept]
  BY DEF ForgetConversation
<1>2. kept \in [Clients -> Sessions \cup {None}]
  BY DEF TypeOK
<1>3. /\ \A q \in Clients : kept[q] = conversations[c][q] \/ kept[q] = None
      /\ p \in Clients => kept[p] = None
  OBVIOUS
<1> HIDE DEF kept
<1> QED
  BY <1>1, <1>2, <1>3 DEF TypeOK

LEMMA ReplyStep ==
  ASSUME TypeOK, NEW c \in Clients, RunReply(c)
  PROVE  TypeOK' /\ Quiet
<1> DEFINE p == Head(jobs[c]).peer
<1>1. /\ Pop(c) => jobs' \in [Clients -> Seq(Jobs)]
      /\ Enter(c, Task("dialog", p, None, None)) => p \in Clients
  <2>1. Knows[c] \subseteq Clients
    BY KnowsAssumption
  <2>2. task' # task => p \in Clients
    BY <2>1 DEF RunReply
  <2>3. Enter(c, Task("dialog", p, None, None)) => task' # task
    BY DEF TypeOK, RunReply, Runs, Enter, Task
  <2> QED
    BY <2>2, <2>3, RunsType DEF RunReply
<1>2. /\ conversations' \in [Clients -> [Clients -> Sessions \cup {None}]]
      /\ UNCHANGED <<wire, flags, claim, listed, fetching, made, keysMade, left>>
  BY ForgetIs DEF RunReply, Outdated
<1>3. /\ jobs' \in [Clients -> Seq(Jobs)]
      /\ failed' \in [Clients -> Asserts]
  BY <1>1 DEF TypeOK, RunReply, Asserts
<1>4. allowInput' \in [Clients -> BOOLEAN]
  BY LoadingTypes DEF TypeOK, RunReply
<1>5. task' \in [Clients -> Tasks] /\ Quiet
  <2>1. CASE Enter(c, Task("dialog", p, None, None))
    BY <1>1, <1>2, <2>1, KeyLessTasks, EnterKeyLess DEF wire
  <2>2. CASE task' = task
    BY <1>2, <2>2, QuietWire DEF TypeOK, wire
  <2> QED
    BY <2>1, <2>2 DEF RunReply
<1> QED
  BY <1>2, <1>3, <1>4, <1>5 DEF TypeOK, wire, flags

LEMMA GiveUpStep ==
  ASSUME TypeOK, Shapes, NEW c \in Clients, AnswerDecline(c) \/ Abandon(c)
  PROVE  TypeOK' /\ Quiet
<1>1. task[c].peer \in Clients
  BY DEF Shapes, AnswerDecline, Answers, Abandon
<1>2. /\ FinishSettingUp(c)
      /\ Send(c, task[c].peer, "deny", None) \/ channel' = channel
      /\ Enter(c, Task("return", task[c].peer, None, None))
      /\ UNCHANGED <<exchangingFile, claim, jobs, ui, store, keysMade, failed, left>>
  BY DEF AnswerDecline, Abandon, GiveUp, LeaveSetUp
<1>3. /\ task' \in [Clients -> Tasks]
      /\ \A r \in Clients : task'[r] = task[r] \/ KeyLess(task'[r])
  BY <1>1, <1>2, KeyLessTasks, EnterKeyLess
<1>4. /\ channel' \in [Clients -> [Clients -> Seq(Messages)]]
      /\ setupQueue' \in [Clients -> Seq(Messages)]
      /\ Quiet
  BY <1>1, <1>2, <1>3, QuietSend DEF FinishSettingUp, store
<1>5. settingUp' \in [Clients -> BOOLEAN]
  BY <1>2 DEF TypeOK, FinishSettingUp
<1> QED
  BY <1>2, <1>3, <1>4, <1>5 DEF TypeOK, ui, store

LEMMA ReturnStep ==
  ASSUME TypeOK, NEW c \in Clients, Return(c)
  PROVE  TypeOK' /\ Quiet
<1> DEFINE p == task[c].peer  s == task[c].session
<1>1. p \in Clients \cup {None} /\ s \in Sessions \cup {None}
  BY DEF TypeOK, Tasks
<1>2. CASE Abort(c, "addConversation")
  BY <1>2, AbortStep DEF Asserts
<1>3. CASE ~Abort(c, "addConversation")
  <2>1. /\ conversations' \in [Clients -> [Clients -> Sessions \cup {None}]]
        /\ UNCHANGED <<wire, flags, claim, fetching, made, keysMade, left>>
    <3>1. /\ \/ conversations' = conversations
             \/ s # None /\ conversations' = [conversations EXCEPT ![c][p] = s]
          /\ UNCHANGED <<wire, flags, claim, fetching, made, keysMade, left>>
      BY <1>3 DEF Return, store
    <3>2. conversations' \in [Clients -> [Clients -> Sessions \cup {None}]]
      <4>1. CASE conversations' = conversations
        BY <4>1 DEF TypeOK
      <4>2. CASE s \in Sessions /\ conversations' = [conversations EXCEPT ![c][p] = s]
        <5> DEFINE row == [conversations[c] EXCEPT ![p] = s]
        <5>1. row \in [Clients -> Sessions \cup {None}]
          BY <4>2 DEF TypeOK
        <5>2. conversations' = [conversations EXCEPT ![c] = row]
          BY <4>2
        <5> HIDE DEF row
        <5> QED
          BY <5>1, <5>2 DEF TypeOK
      <4> QED
        BY <1>1, <3>1, <4>1, <4>2
    <3> QED
      BY <3>1, <3>2
  <2>2. /\ Enter(c, Idle) \/ task' = task
        /\ RefreshList(c) \/ UNCHANGED <<jobs, listed>>
        /\ FinishLoading(c) \/ allowInput' = allowInput
        /\ failed' = failed \/ failed' = [failed EXCEPT ![c] = "updateUsersList"]
    BY <1>3 DEF Return, WithoutStreams, ReleaseLocks
  <2>3. task' \in [Clients -> Tasks] /\ Quiet
    <3>1. CASE Enter(c, Idle)
      BY <2>1, <3>1, KeyLessTasks, EnterKeyLess DEF Idle, wire
    <3>2. CASE task' = task
      BY <2>1, <3>2, QuietWire DEF TypeOK, wire
    <3> QED
      BY <2>2, <3>1, <3>2
  <2>4. jobs' \in [Clients -> Seq(Jobs)] /\ listed' \in [Clients -> BOOLEAN]
    BY <2>2, JobTypes, PushType DEF TypeOK, RefreshList
  <2>5. allowInput' \in [Clients -> BOOLEAN] /\ failed' \in [Clients -> Asserts]
    BY <2>2, LoadingTypes DEF TypeOK, Asserts
  <2> QED
    BY <2>1, <2>3, <2>4, <2>5 DEF TypeOK, wire, flags
<1> QED
  BY <1>2, <1>3

-----------------------------------------------------------------------------
(* The inductive invariant.                                                *)

KeyWaits == {"waitKeysDone", "waitHeadersDone", "waitHeaders"}
KeyFlags == {"keys", "keysDone", "headers", "headersDone"}

LEMMA QuietStep ==
  ASSUME SetUpInv, TypeOK', Quiet
  PROVE  SetUpInv'
<1>1. /\ made' = made /\ keysMade' = keysMade
      /\ \A c \in Clients : \A m \in Pending(c)' : m.flag \in KeyFlags => m \in Pending(c)
      /\ \A c \in Clients : task'[c].at \in KeyWaits => task'[c] = task[c]
  BY DEF Quiet, KeyLess, KeyFlags, KeyWaits
<1>2. \A k : Generated(k) => Generated(k)'
  BY <1>1 DEF Generated
<1>3. Shapes'
  BY DEF SetUpInv, Shapes, Quiet, KeyLess
<1>4. KeysAreGenerated'
  <2> SUFFICES ASSUME NEW c \in Clients
               PROVE  /\ \A m \in Pending(c)' :
                           /\ m.flag \in {"keys", "keysDone"} => Generated(m.body)'
                           /\ m.flag \in {"headers", "headersDone"} => BothGenerated(m.body)'
                      /\ \A x \in made'[c] : BothGenerated(x[2])'
                      /\ (task[c].own # None => Generated(task[c].own))'
                      /\ (task[c].session # None => BothGenerated(task[c].session))'
    BY DEF KeysAreGenerated
  <2>1. task'[c] = task[c] \/ KeyLess(task'[c])
    BY DEF Quiet
  <2>2. task'[c] = task[c] \/ (task'[c].own = None /\ task'[c].session = None)
    BY <2>1 DEF KeyLess
  <2> QED
    BY <1>1, <1>2, <2>2 DEF SetUpInv, KeysAreGenerated, BothGenerated, KeyFlags
<1>5. ServerKeyIsWithPeer'
  BY <1>1 DEF SetUpInv, ServerKeyIsWithPeer, KeyFlags, KeyWaits
<1>6. ClientKeyIsWithPeer'
  BY <1>1 DEF SetUpInv, ClientKeyIsWithPeer, KeyFlags, KeyWaits
<1>7. OneSessionPerServerKey'
  BY <1>1 DEF SetUpInv, OneSessionPerServerKey, KeyFlags, KeyWaits
<1>8. InviterHasFirst'
  BY <1>1 DEF SetUpInv, InviterHasFirst, KeyFlags
<1> QED
  BY <1>3, <1>4, <1>5, <1>6, <1>7, <1>8 DEF SetUpInv

LEMMA PendingType ==
  ASSUME TypeOK, NEW r \in Clients
  PROVE  Pending(r) \subseteq Messages
<1>1. \A q \in Seq(Messages) : Range(q) \subseteq Messages
  BY DEF Range
<1> QED
  BY <1>1 DEF TypeOK, Pending

(* A key just made was nowhere before.                                     *)
LEMMA FreshKey ==
  ASSUME TypeOK, NEW c \in Clients, NEW role, MakeKey(c)
  PROVE  /\ ~Generated(NextKey(c, role)) /\ NextKey(c, role).owner = c
         /\ NextKey(c, role).nth <= keysMade'[c]
         /\ \A k \in Keys : Generated(k) => Generated(k)'
<1>1. /\ \A r \in Clients : keysMade[r] \in Nat
      /\ keysMade'[c] = keysMade[c] + 1
      /\ \A r \in Clients \ {c} : keysMade'[r] = keysMade[r]
  BY DEF TypeOK, MakeKey
<1>2. \A k \in Keys : k.owner \in Clients /\ k.nth \in Nat
  BY DEF Keys, ServerKeys, ClientKeys, KeysOf
<1>3. NextKey(c, role).owner = c /\ NextKey(c, role).nth = keysMade[c] + 1
  BY DEF NextKey
<1>4. \A k \in Keys : Generated(k) => Generated(k)'
  BY <1>1, <1>2 DEF Generated
<1>5. ~Generated(NextKey(c, role))
  BY <1>1, <1>3 DEF Generated
<1> QED
  BY <1>1, <1>3, <1>4, <1>5

LEMMA AcceptStep ==
  ASSUME SetUpInv, NEW c \in Clients, AnswerAccept(c)
  PROVE  SetUpInv'
<1> DEFINE own == NextKey(c, "server")  p == task[c].peer
<1> USE DEF SetUpInv
<1>1. p \in Clients /\ own \in ServerKeys /\ Message("keys", own) \in Messages
  BY NextKeyType, MessageTypes DEF Shapes, AnswerAccept, Answers
<1>2. /\ setupQueue' = [setupQueue EXCEPT ![c] = <<>>] /\ MakeKey(c) /\ Send(c, p, "keys", own)
      /\ Enter(c, Task("waitKeysDone", p, own, None))
      /\ made' = made
      /\ UNCHANGED <<flags, claim, jobs, ui, store, failed, left>>
  BY DEF AnswerAccept, store
<1>3. TypeOK'
  <2>1. Task("waitKeysDone", p, own, None) \in Tasks
    BY <1>1 DEF Task, Tasks, Waits, Keys
  <2>2. task' \in [Clients -> Tasks] /\ keysMade' \in [Clients -> Nat]
    BY <1>2, <2>1, EnterType, NextKeyType
  <2>3. channel' \in [Clients -> [Clients -> Seq(Messages)]] /\ setupQueue' \in [Clients -> Seq(Messages)]
    BY <1>1, <1>2, SendType, EmptiedQueue
  <2> QED
    BY <1>2, <2>2, <2>3 DEF TypeOK, flags, ui, store
<1>4. \A r \in Clients : \A m \in Pending(r)' :
        m \in Pending(r) \/ (r = p /\ m = Message("keys", own))
  BY <1>1, <1>2, EmptiedQueue, SendPending
<1>5. /\ task'[c] = [at |-> "waitKeysDone", peer |-> p, own |-> own, session |-> None]
      /\ \A r \in Clients \ {c} : task'[r] = task[r]
  BY <1>2 DEF TypeOK, Enter, Task
<1>6. /\ ~Generated(own) /\ own.owner = c /\ own.nth <= keysMade'[own.owner]
      /\ \A k \in Keys : Generated(k) => Generated(k)'
  BY <1>2, FreshKey
<1>7. \A r \in Clients : Pending(r) \subseteq Messages
  BY PendingType
<1>8. \A r \in Clients : task[r] \in Tasks /\ made[r] \subseteq Clients \X Sessions
  BY DEF TypeOK
<1>9. Message("keys", own).flag = "keys" /\ Message("keys", own).body = own
  BY DEF Message
<1> HIDE DEF own, p
<1>10. Shapes'
  BY <1>1, <1>5, <1>6 DEF Shapes
<1>11. KeysAreGenerated'
  <2>1. \A s \in Sessions : BothGenerated(s) => BothGenerated(s)'
    BY <1>6 DEF BothGenerated, Sessions, Keys
  <2>2. ASSUME NEW r \in Clients, NEW m \in Pending(r)'
        PROVE  /\ m.flag \in {"keys", "keysDone"} => Generated(m.body)'
               /\ m.flag \in {"headers", "headersDone"} => BothGenerated(m.body)'
    <3>1. CASE m \in Pending(r)
      <4>1. m \in Messages
        BY <1>7, <3>1
      <4> QED
        BY <1>6, <2>1, <3>1, <4>1, BodyTypes DEF KeysAreGenerated, Keys
    <3>2. CASE m = Message("keys", own)
      <4>1. m.flag = "keys" /\ m.body = own
        BY <1>9, <3>2
      <4>2. own.nth <= keysMade'[own.owner]
        BY <1>6
      <4> QED
        BY <4>1, <4>2 DEF Generated
    <3> QED
      BY <1>4, <3>1, <3>2
  <2>3. ASSUME NEW r \in Clients
        PROVE  \A y \in made'[r] : BothGenerated(y[2])'
    BY <1>2, <1>8, <2>1 DEF KeysAreGenerated
  <2>4. ASSUME NEW r \in Clients
        PROVE  /\ task'[r].own # None => Generated(task[r].own)'
               /\ task'[r].session # None => BothGenerated(task[r].session)'
    <3>1. CASE r = c
      BY <1>5, <1>6, <3>1 DEF Generated
    <3>2. CASE r # c
      <4>1. /\ task'[r] = task[r]
            /\ task[r].own # None => task[r].own \in Keys /\ Generated(task[r].own)
            /\ task[r].session # None => task[r].session \in Sessions /\ BothGenerated(task[r].session)
        BY <1>5, <1>8, <3>2 DEF KeysAreGenerated, Tasks
      <4> QED
        BY <1>6, <2>1, <4>1 DEF Generated, BothGenerated
    <3> QED
      BY <3>1, <3>2
  <2> QED
    BY <2>2, <2>3, <2>4 DEF KeysAreGenerated
<1>12. ServerKeyIsWithPeer'
  <2> SUFFICES ASSUME NEW x \in Clients, NEW q \in Clients,
                      task'[x].at \in {"waitKeysDone", "waitHeadersDone"}
               PROVE  /\ \A m \in Pending(q)' : m.flag = "keys" /\ m.body = task'[x].own => q = task'[x].peer
                      /\ task'[q].at = "waitHeaders" /\ task'[q].session.server = task'[x].own => q = task'[x].peer
                      /\ \A y \in made'[q] : y[2].server = task'[x].own => q = task'[x].peer /\ q # x
    BY DEF ServerKeyIsWithPeer
  <2>1. CASE x = c
    <3>1. task'[x].own = own /\ task'[x].peer = p
      BY <2>1, <1>5
    <3>2. \A m \in Pending(q) : m.flag = "keys" => m.body # own
      BY <1>6 DEF KeysAreGenerated
    <3>3. task'[q].at = "waitHeaders" => task'[q].session.server # own
      <4>1. CASE q # c /\ task[q].at = "waitHeaders"
        BY <1>5, <1>6, <4>1, NoneAssumption DEF KeysAreGenerated, BothGenerated, Shapes
      <4> QED
        BY <1>5, <4>1
    <3>4. \A y \in made[q] : y[2].server # own
      BY <1>6 DEF KeysAreGenerated, BothGenerated
    <3> QED
      BY <1>2, <1>4, <1>9, <3>1, <3>2, <3>3, <3>4
  <2>2. CASE x # c
    <3>1. task'[x] = task[x] /\ task[x].own.owner = x
      BY <2>2, <1>5 DEF Shapes
    <3>2. task'[q].at = "waitHeaders" => task'[q] = task[q]
      BY <1>5
    <3> QED
      BY <1>2, <1>4, <1>6, <1>9, <2>2, <3>1, <3>2 DEF ServerKeyIsWithPeer
  <2> QED
    BY <2>1, <2>2
<1>13. ClientKeyIsWithPeer'
  BY <1>2, <1>4, <1>5, <1>9 DEF ClientKeyIsWithPeer
<1>14. OneSessionPerServerKey'
  BY <1>2, <1>4, <1>5, <1>6, <1>9 DEF OneSessionPerServerKey, KeysAreGenerated, BothGenerated
<1>15. InviterHasFirst'
  BY <1>2, <1>4, <1>9 DEF InviterHasFirst
<1> QED
  BY <1>3, <1>10, <1>11, <1>12, <1>13, <1>14, <1>15

LEMMA InviterKeysStep ==
  ASSUME SetUpInv, NEW c \in Clients, InviterGetsKeys(c)
  PROVE  SetUpInv'
<1> USE DEF SetUpInv
<1>0. PICK p \in Clients, own \in ClientKeys, k \in ServerKeys :
        p = task[c].peer /\ own = NextKey(c, "client") /\ k = Got(c)
  <2>1. Gets(c, "waitKeys", "keys")
    BY DEF InviterGetsKeys
  <2>2. Got(c) \in ServerKeys
    BY <2>1, GetsType, BodyTypes DEF Got
  <2> QED
    BY <2>1, <2>2, NextKeyType DEF Shapes, Gets, Waits
<1> DEFINE s == [server |-> k, client |-> own]
<1>1. Message("keysDone", own) \in Messages /\ task[c].at = "waitKeys" /\ s \in Sessions
  BY MessageTypes DEF InviterGetsKeys, Gets, Sessions
<1>2. /\ TakeMessage(c) /\ MakeKey(c) /\ Send(c, p, "keysDone", own)
      /\ Enter(c, Task("waitHeaders", p, own, s))
      /\ made' = made
      /\ UNCHANGED <<flags, claim, jobs, ui, store, failed, left>>
  BY <1>0 DEF InviterGetsKeys, store
<1>3. /\ setupQueue[c] # <<>> /\ setupQueue' \in [Clients -> Seq(Messages)]
      /\ \E m \in Pending(c) : m.flag = "keys" /\ m.body = k
  <2>1. Gets(c, "waitKeys", "keys") /\ setupQueue[c] # <<>>
    BY DEF InviterGetsKeys, Gets
  <2>2. Head(setupQueue[c]) \in Pending(c) /\ Head(setupQueue[c]).flag = "keys"
    BY <2>1, GetsType DEF Pending
  <2> QED
    BY <1>0, <1>2, <2>1, <2>2, GetsType DEF Got
<1>4. TypeOK'
  <2>1. Task("waitHeaders", p, own, s) \in Tasks
    BY <1>1, <1>3 DEF Task, Tasks, Waits, Keys
  <2>2. task' \in [Clients -> Tasks] /\ keysMade' \in [Clients -> Nat]
    BY <1>2, <2>1, EnterType, NextKeyType
  <2>3. channel' \in [Clients -> [Clients -> Seq(Messages)]]
    BY <1>1, <1>2, SendType
  <2> QED
    BY <1>2, <1>3, <2>2, <2>3 DEF TypeOK, flags, ui, store
<1>5. \A r \in Clients : \A m \in Pending(r)' :
        m \in Pending(r) \/ (r = p /\ m = Message("keysDone", own))
  BY <1>1, <1>2, <1>3, TakenQueue, SendPending
<1>6. /\ task'[c] = [at |-> "waitHeaders", peer |-> p, own |-> own, session |-> s]
      /\ \A r \in Clients \ {c} : task'[r] = task[r]
  BY <1>2 DEF TypeOK, Enter, Task
<1>7. /\ ~Generated(own) /\ own.owner = c /\ own.nth <= keysMade'[own.owner]
      /\ \A key \in Keys : Generated(key) => Generated(key)'
  BY <1>0, <1>2, FreshKey
<1>8. /\ \A r \in Clients : Pending(r) \subseteq Messages
      /\ \A r \in Clients : task[r] \in Tasks /\ made[r] \subseteq Clients \X Sessions
  BY PendingType DEF TypeOK
<1>9. /\ Message("keysDone", own).flag = "keysDone" /\ Message("keysDone", own).body = own
      /\ s.server = k /\ s.client = own
  BY DEF Message
<1> HIDE DEF s
<1>10. Shapes'
  BY <1>1, <1>3, <1>6, <1>7, <1>9 DEF Shapes
<1>11. KeysAreGenerated'
  <2>1. /\ Generated(own)' /\ Generated(k)'
    BY <1>1, <1>3, <1>7 DEF KeysAreGenerated, Generated, Keys
  <2>2. \A t \in Sessions : BothGenerated(t) => BothGenerated(t)'
    BY <1>7 DEF BothGenerated, Sessions, Keys
  <2> SUFFICES ASSUME NEW x \in Clients
               PROVE  /\ \A m \in Pending(x)' :
                           /\ m.flag \in {"keys", "keysDone"} => Generated(m.body)'
                           /\ m.flag \in {"headers", "headersDone"} => BothGenerated(m.body)'
                      /\ \A y \in made'[x] : BothGenerated(y[2])'
                      /\ (task[x].own # None => Generated(task[x].own))'
                      /\ (task[x].session # None => BothGenerated(task[x].session))'
    BY DEF KeysAreGenerated
  <2>3. ASSUME NEW m \in Pending(x)'
        PROVE  /\ m.flag \in {"keys", "keysDone"} => Generated(m.body)'
               /\ m.flag \in {"headers", "headersDone"} => BothGenerated(m.body)'
    BY <1>5, <1>7, <1>8, <1>9, <2>1, <2>2, BodyTypes DEF KeysAreGenerated, Keys
  <2>4. \A y \in made'[x] : BothGenerated(y[2])'
    BY <1>2, <1>8, <2>2 DEF KeysAreGenerated
  <2>5. CASE x = c
    BY <1>6, <1>9, <2>1, <2>3, <2>4, <2>5 DEF BothGenerated
  <2>6. CASE x # c
    <3>1. task'[x] = task[x] /\ task[x].own \in Keys \cup {None} /\ task[x].session \in Sessions \cup {None}
      BY <1>6, <1>8, <2>6 DEF Tasks
    <3> QED
      BY <1>7, <2>2, <2>3, <2>4, <3>1 DEF KeysAreGenerated
  <2> QED
    BY <2>5, <2>6
<1>12. ServerKeyIsWithPeer'
  <2> SUFFICES ASSUME NEW x \in Clients, NEW q \in Clients,
                      task'[x].at \in {"waitKeysDone", "waitHeadersDone"}
               PROVE  /\ \A m \in Pending(q)' : m.flag = "keys" /\ m.body = task'[x].own => q = task'[x].peer
                      /\ task'[q].at = "waitHeaders" /\ task'[q].session.server = task'[x].own => q = task'[x].peer
                      /\ \A y \in made'[q] : y[2].server = task'[x].own => q = task'[x].peer /\ q # x
    BY DEF ServerKeyIsWithPeer
  <2>1. task'[x] = task[x]
    BY <1>6
  <2>2. k = task[x].own => c = task[x].peer
    BY <1>3, <2>1 DEF ServerKeyIsWithPeer
  <2>3. task'[q].at = "waitHeaders" /\ task'[q].session.server = task'[x].own => q = task'[x].peer
    BY <1>6, <1>9, <2>1, <2>2 DEF ServerKeyIsWithPeer
  <2> QED
    BY <1>2, <1>5, <1>9, <2>1, <2>3 DEF ServerKeyIsWithPeer
<1>13. ClientKeyIsWithPeer'
  <2> SUFFICES ASSUME NEW x \in Clients, NEW q \in Clients, task'[x].at = "waitHeaders"
               PROVE  /\ \A m \in Pending(q)' :
                           /\ m.flag = "keysDone" /\ m.body = task'[x].own => q = task'[x].peer
                           /\ m.flag = "headers" /\ m.body.client = task'[x].own =>
                                m.body.server.owner = task'[x].peer
                      /\ \A y \in made'[q] : y[2].client # task'[x].own
    BY DEF ClientKeyIsWithPeer
  <2>1. CASE x = c
    <3>1. task'[x].own = own /\ task'[x].peer = p
      BY <1>6, <2>1
    <3>2. /\ \A m \in Pending(q) : m.flag = "keysDone" => m.body # own
          /\ \A m \in Pending(q) : m.flag = "headers" => m.body.client # own
          /\ \A y \in made[q] : y[2].client # own
      BY <1>7 DEF KeysAreGenerated, BothGenerated
    <3> QED
      BY <1>2, <1>5, <1>9, <3>1, <3>2
  <2>2. CASE x # c
    <3>1. task'[x] = task[x] /\ task[x].own.owner = x
      BY <1>6, <2>2 DEF Shapes
    <3> QED
      BY <1>2, <1>5, <1>7, <1>9, <2>2, <3>1 DEF ClientKeyIsWithPeer
  <2> QED
    BY <2>1, <2>2
<1>14. OneSessionPerServerKey'
  BY <1>2, <1>5, <1>6, <1>9 DEF OneSessionPerServerKey
<1>15. InviterHasFirst'
  BY <1>2, <1>5, <1>9 DEF InviterHasFirst
<1> QED
  BY <1>4, <1>10, <1>11, <1>12, <1>13, <1>14, <1>15

LEMMA InviterHeadersStep ==
  ASSUME SetUpInv, NEW c \in Clients, InviterGetsHeaders(c)
  PROVE  SetUpInv' /\ Agreement!Next
<1> USE DEF SetUpInv
<1>0. PICK p \in Clients, s \in Sessions : p = task[c].peer /\ s = task[c].session
  BY DEF InviterGetsHeaders, Gets, Shapes, Waits
<1>1. /\ task[c].at = "waitHeaders" /\ task[c].own = s.client /\ s.client.owner = c
      /\ Message("headersDone", s) \in Messages
  BY <1>0, MessageTypes DEF InviterGetsHeaders, Gets, Shapes
<1>2. /\ Gets(c, "waitHeaders", "headers") /\ Got(c) = s
      /\ Send(c, p, "headersDone", s)
      /\ FinishSettingUp(c)
      /\ made' = [made EXCEPT ![c] = @ \cup {<<p, s>>}]
      /\ Enter(c, Task("return", p, None, s))
      /\ UNCHANGED <<exchangingFile, claim, jobs, ui, conversations, keysMade, failed, left>>
  BY <1>0 DEF InviterGetsHeaders, Decrypts, OpensUnder
<1>3. PICK m0 \in Pending(c) : m0.flag = "headers" /\ m0.body = s
  BY <1>2, GetsType DEF Got, Pending
<1>4. TypeOK'
  <2>1. Task("return", p, None, s) \in Tasks
    BY DEF Task, Tasks, Waits
  <2>2. task' \in [Clients -> Tasks]
    BY <1>2, <2>1, EnterType
  <2>3. channel' \in [Clients -> [Clients -> Seq(Messages)]] /\ setupQueue' \in [Clients -> Seq(Messages)]
    BY <1>1, <1>2, SendType, EmptiedQueue DEF FinishSettingUp
  <2>4. made' \in [Clients -> SUBSET (Clients \X Sessions)] /\ settingUp' \in [Clients -> BOOLEAN]
    BY <1>2 DEF TypeOK, FinishSettingUp
  <2> QED
    BY <1>2, <2>2, <2>3, <2>4 DEF TypeOK, ui
<1>5. \A r \in Clients : \A m \in Pending(r)' :
        m \in Pending(r) \/ (r = p /\ m = Message("headersDone", s))
  <2>1. \A r \in Clients : Range(setupQueue'[r]) \subseteq Range(setupQueue[r])
    BY <1>2, EmptiedQueue DEF FinishSettingUp
  <2> QED
    BY <1>1, <1>2, <2>1, SendPending
<1>6. /\ task'[c] = [at |-> "return", peer |-> p, own |-> None, session |-> s]
      /\ \A r \in Clients \ {c} : task'[r] = task[r]
  BY <1>2 DEF TypeOK, Enter, Task
<1>7. /\ \A r \in Clients : \A y : y \in made'[r] <=> y \in made[r] \/ (r = c /\ y = <<p, s>>)
      /\ keysMade' = keysMade
  BY <1>2 DEF TypeOK
<1>8. /\ \A r \in Clients : Pending(r) \subseteq Messages
      /\ \A r \in Clients : task[r] \in Tasks /\ made[r] \subseteq Clients \X Sessions
  BY PendingType DEF TypeOK
<1>9. Message("headersDone", s).flag = "headersDone" /\ Message("headersDone", s).body = s
  BY DEF Message
(* The session's other key is the peer's, and nobody has streams of either. *)
<1>10. /\ s.server.owner = p
       /\ \A r \in Clients : \A y \in made[r] : y[2].client # s.client /\ y[2].server # s.server
  <2>1. s.server.owner = p
    BY <1>0, <1>1, <1>3 DEF ClientKeyIsWithPeer
  <2>2. \A r \in Clients : \A y \in made[r] : y[2].client # s.client
    BY <1>1 DEF ClientKeyIsWithPeer
  <2>3. \A r \in Clients : \A y \in made[r] : y[2].server = s.server => y[2] = s
    BY <1>3 DEF OneSessionPerServerKey
  <2> QED
    BY <2>1, <2>2, <2>3
<1>11. Shapes'
  BY <1>6 DEF Shapes, Waits
<1>12. KeysAreGenerated'
  BY <1>0, <1>1, <1>5, <1>6, <1>7, <1>9, NoneAssumption
     DEF KeysAreGenerated, Generated, BothGenerated
<1>13. ServerKeyIsWithPeer'
  <2> SUFFICES ASSUME NEW x \in Clients, NEW q \in Clients,
                      task'[x].at \in {"waitKeysDone", "waitHeadersDone"}
               PROVE  /\ \A m \in Pending(q)' : m.flag = "keys" /\ m.body = task'[x].own => q = task'[x].peer
                      /\ task'[q].at = "waitHeaders" /\ task'[q].session.server = task'[x].own => q = task'[x].peer
                      /\ \A y \in made'[q] : y[2].server = task'[x].own => q = task'[x].peer /\ q # x
    BY DEF ServerKeyIsWithPeer
  <2>1. task'[x] = task[x] /\ x # c
    BY <1>6
  <2>2. s.server = task[x].own => c = task[x].peer
    BY <1>0, <1>1, <2>1 DEF ServerKeyIsWithPeer
  <2>3. task'[q].at = "waitHeaders" => task'[q] = task[q]
    BY <1>6
  <2> QED
    BY <1>5, <1>7, <1>9, <2>1, <2>2, <2>3 DEF ServerKeyIsWithPeer
<1>14. ClientKeyIsWithPeer'
  <2> SUFFICES ASSUME NEW x \in Clients, NEW q \in Clients, task'[x].at = "waitHeaders"
               PROVE  /\ \A m \in Pending(q)' :
                           /\ m.flag = "keysDone" /\ m.body = task'[x].own => q = task'[x].peer
                           /\ m.flag = "headers" /\ m.body.client = task'[x].own =>
                                m.body.server.owner = task'[x].peer
                      /\ \A y \in made'[q] : y[2].client # task'[x].own
    BY DEF ClientKeyIsWithPeer
  <2>1. task'[x] = task[x] /\ x # c /\ task[x].own.owner = x
    BY <1>6 DEF Shapes
  <2> QED
    BY <1>1, <1>5, <1>7, <1>9, <2>1 DEF ClientKeyIsWithPeer
<1>15. OneSessionPerServerKey'
  <2>1. \A r \in Clients : \A m \in Pending(r) : m.flag = "headers" /\ m.body.server = s.server => m.body = s
    BY <1>3 DEF OneSessionPerServerKey
  <2>2. \A r \in Clients : task[r].at = "waitKeysDone" => task[r].own # s.server
    BY <1>3 DEF OneSessionPerServerKey
  <2>3. \A r \in Clients : task'[r].at = "waitKeysDone" => task'[r] = task[r]
    BY <1>6
  <2>4. \A r \in Clients : \A m \in Pending(r)' : m.flag = "headers" => m \in Pending(r)
    BY <1>5, <1>9
  <2> QED
    BY <1>7, <2>1, <2>2, <2>3, <2>4 DEF OneSessionPerServerKey
<1>16. InviterHasFirst'
  <2> SUFFICES ASSUME NEW r \in Clients, NEW m \in Pending(r)', m.flag = "headersDone"
               PROVE  <<m.body.server.owner, m.body>> \in made'[m.body.client.owner]
    BY DEF InviterHasFirst
  <2>1. CASE m \in Pending(r)
    <3>1. m.body.client.owner \in Clients
      BY <1>8, <2>1, BodyTypes DEF Sessions, ClientKeys, KeysOf
    <3> QED
      BY <1>7, <2>1, <3>1 DEF InviterHasFirst
  <2>2. CASE m = Message("headersDone", s)
    BY <1>1, <1>7, <1>9, <1>10, <2>2
  <2> QED
    BY <1>5, <2>1, <2>2
<1>17. Agreement!Next
  <2>1. s.client \in ClientKeys /\ s.server \in ServerKeys
    BY DEF Sessions
  <2>2. ClientKeys \cap ServerKeys = {}
    BY DEF ClientKeys, ServerKeys, KeysOf
  <2>3. \A key \in Agreement!UsedKeys : \E r \in Clients : \E y \in made[r] :
          key = y[2].server \/ key = y[2].client
    BY DEF Agreement!UsedKeys
  <2>4. \A r \in Clients : \A y \in made[r] : y[2].server \in ServerKeys /\ y[2].client \in ClientKeys
    BY <1>8 DEF Sessions
  <2>5. {s.client, s.server} \cap Agreement!UsedKeys = {}
    BY <1>10, <2>1, <2>2, <2>3, <2>4
  <2>6. Agreement!InviterGets(c, p, s)
    BY <1>1, <1>2, <1>10, <2>5 DEF Agreement!InviterGets, Agreement!Gets
  <2>7. <<p, s>> \in made'[c] \ made[c]
    BY <1>7, <1>10
  <2> QED
    BY <2>6, <2>7 DEF Agreement!Next
<1> QED
  BY <1>4, <1>11, <1>12, <1>13, <1>14, <1>15, <1>16, <1>17

LEMMA InviteeKeysStep ==
  ASSUME SetUpInv, NEW c \in Clients, InviteeGetsKeysDone(c)
  PROVE  SetUpInv'
<1> USE DEF SetUpInv
<1>0. PICK p \in Clients, own \in ServerKeys, k \in ClientKeys :
        p = task[c].peer /\ own = task[c].own /\ k = Got(c)
  <2>1. Gets(c, "waitKeysDone", "keysDone")
    BY DEF InviteeGetsKeysDone
  <2>2. Got(c) \in ClientKeys
    BY <2>1, GetsType, BodyTypes DEF Got
  <2> QED
    BY <2>1, <2>2 DEF Shapes, Gets, Waits
<1> DEFINE s == [server |-> own, client |-> k]
<1>1. /\ Message("headers", s) \in Messages /\ s \in Sessions
      /\ task[c].at = "waitKeysDone" /\ own.owner = c
  BY <1>0, MessageTypes DEF InviteeGetsKeysDone, Gets, Sessions, Shapes
<1>2. /\ TakeMessage(c) /\ Send(c, p, "headers", s)
      /\ Enter(c, Task("waitHeadersDone", p, own, s))
      /\ made' = made /\ keysMade' = keysMade
      /\ UNCHANGED <<flags, claim, jobs, ui, store, failed, left>>
  BY <1>0 DEF InviteeGetsKeysDone, store
<1>3. /\ setupQueue[c] # <<>> /\ setupQueue' \in [Clients -> Seq(Messages)]
      /\ \E m \in Pending(c) : m.flag = "keysDone" /\ m.body = k
  <2>1. Gets(c, "waitKeysDone", "keysDone") /\ setupQueue[c] # <<>>
    BY DEF InviteeGetsKeysDone, Gets
  <2>2. Head(setupQueue[c]) \in Pending(c) /\ Head(setupQueue[c]).flag = "keysDone"
    BY <2>1, GetsType DEF Pending
  <2> QED
    BY <1>0, <1>2, <2>1, <2>2, GetsType DEF Got
<1>4. TypeOK'
  <2>1. Task("waitHeadersDone", p, own, s) \in Tasks
    BY <1>1 DEF Task, Tasks, Waits, Keys
  <2>2. task' \in [Clients -> Tasks]
    BY <1>2, <2>1, EnterType
  <2>3. channel' \in [Clients -> [Clients -> Seq(Messages)]]
    BY <1>1, <1>2, SendType
  <2> QED
    BY <1>2, <1>3, <2>2, <2>3 DEF TypeOK, flags, ui, store
<1>5. \A r \in Clients : \A m \in Pending(r)' :
        m \in Pending(r) \/ (r = p /\ m = Message("headers", s))
  <2>1. \A r \in Clients : Range(setupQueue'[r]) \subseteq Range(setupQueue[r])
    BY <1>2, <1>3, TakenQueue
  <2> QED
    BY <1>1, <1>2, <2>1, SendPending
<1>6. /\ task'[c] = [at |-> "waitHeadersDone", peer |-> p, own |-> own, session |-> s]
      /\ \A r \in Clients \ {c} : task'[r] = task[r]
  BY <1>2 DEF TypeOK, Enter, Task
<1>7. /\ Message("headers", s).flag = "headers" /\ Message("headers", s).body = s
      /\ s.server = own /\ s.client = k
  BY DEF Message
<1> HIDE DEF s
<1>8. Shapes'
  BY <1>1, <1>6, <1>7 DEF Shapes
<1>9. KeysAreGenerated'
  <2>1. Generated(k) /\ Generated(own)
    BY <1>0, <1>3, NoneAssumption DEF KeysAreGenerated, Keys
  <2> QED
    BY <1>2, <1>5, <1>6, <1>7, <2>1 DEF KeysAreGenerated, Generated, BothGenerated
<1>10. ServerKeyIsWithPeer'
  <2>1. \A r \in Clients : /\ task'[r].at \in {"waitKeysDone", "waitHeadersDone"} =>
                              /\ task[r].at \in {"waitKeysDone", "waitHeadersDone"}
                              /\ task'[r].own = task[r].own /\ task'[r].peer = task[r].peer
                           /\ task'[r].at = "waitHeaders" => task'[r] = task[r]
    BY <1>0, <1>1, <1>6
  <2>2. \A r \in Clients : \A m \in Pending(r)' : m.flag = "keys" => m \in Pending(r)
    BY <1>5, <1>7
  <2> QED
    BY <1>2, <2>1, <2>2 DEF ServerKeyIsWithPeer
<1>11. ClientKeyIsWithPeer'
  <2>1. \A x \in Clients : task[x].at = "waitHeaders" /\ task[x].own = k => task[x].peer = c
    BY <1>3 DEF ClientKeyIsWithPeer
  <2>2. \A x \in Clients : task'[x].at = "waitHeaders" => task'[x] = task[x]
    BY <1>6
  <2> QED
    BY <1>1, <1>2, <1>5, <1>7, <2>1, <2>2 DEF ClientKeyIsWithPeer
<1>12. OneSessionPerServerKey'
  <2>1. \A q \in Clients : /\ \A n \in Pending(q) : n.flag = "headers" => n.body.server # own
                           /\ \A y \in made[q] : y[2].server # own
    BY <1>0, <1>1 DEF OneSessionPerServerKey
  <2>2. \A x \in Clients : task'[x].at = "waitKeysDone" =>
                             task'[x] = task[x] /\ task[x].own # own
    BY <1>1, <1>6 DEF Shapes
  <2>3. \A q \in Clients : \A n \in Pending(q)' : n.flag = "headers" =>
          \/ n \in Pending(q) /\ n.body.server # own
          \/ n.body = s
    BY <1>5, <1>7, <2>1
  <2> QED
    BY <1>2, <1>7, <2>1, <2>2, <2>3 DEF OneSessionPerServerKey
<1>13. InviterHasFirst'
  BY <1>2, <1>5, <1>7 DEF InviterHasFirst
<1> QED
  BY <1>4, <1>8, <1>9, <1>10, <1>11, <1>12, <1>13

LEMMA InviteeHeadersStep ==
  ASSUME SetUpInv, NEW c \in Clients, InviteeGetsHeadersDone(c)
  PROVE  SetUpInv' /\ Agreement!Next
<1> USE DEF SetUpInv
<1>0. PICK p \in Clients, s \in Sessions : p = task[c].peer /\ s = task[c].session
  BY DEF InviteeGetsHeadersDone, Gets, Shapes, Waits
<1>1. /\ task[c].at = "waitHeadersDone" /\ task[c].own = s.server /\ s.server.owner = c
      /\ s.client.owner \in Clients
  BY <1>0 DEF InviteeGetsHeadersDone, Gets, Shapes, Sessions, ClientKeys, KeysOf
<1>2. /\ Gets(c, "waitHeadersDone", "headersDone") /\ Got(c) = s
      /\ FinishSettingUp(c)
      /\ made' = [made EXCEPT ![c] = @ \cup {<<p, s>>}]
      /\ Enter(c, Task("return", p, None, s))
      /\ UNCHANGED <<channel, exchangingFile, claim, jobs, ui, conversations, keysMade, failed, left>>
  BY <1>0 DEF InviteeGetsHeadersDone, Decrypts, OpensUnder
<1>3. PICK m0 \in Pending(c) : m0.flag = "headersDone" /\ m0.body = s
  BY <1>2, GetsType DEF Got, Pending
<1>4. TypeOK'
  <2>1. Task("return", p, None, s) \in Tasks
    BY DEF Task, Tasks, Waits
  <2>2. task' \in [Clients -> Tasks]
    BY <1>2, <2>1, EnterType
  <2>3. setupQueue' \in [Clients -> Seq(Messages)]
    BY <1>2, EmptiedQueue DEF FinishSettingUp
  <2>4. made' \in [Clients -> SUBSET (Clients \X Sessions)] /\ settingUp' \in [Clients -> BOOLEAN]
    BY <1>2 DEF TypeOK, FinishSettingUp
  <2> QED
    BY <1>2, <2>2, <2>3, <2>4 DEF TypeOK, ui
<1>5. \A r \in Clients : Pending(r)' \subseteq Pending(r)
  BY <1>2, EmptiedQueue, KeepPending DEF FinishSettingUp
<1>6. /\ task'[c] = [at |-> "return", peer |-> p, own |-> None, session |-> s]
      /\ \A r \in Clients \ {c} : task'[r] = task[r]
  BY <1>2 DEF TypeOK, Enter, Task
<1>7. /\ \A r \in Clients : \A y : y \in made'[r] <=> y \in made[r] \/ (r = c /\ y = <<p, s>>)
      /\ keysMade' = keysMade
  BY <1>2 DEF TypeOK
(* The inviter has the same streams, it is the peer, and c has them not.    *)
<1>8. /\ <<c, s>> \in made[p] /\ s.client.owner = p
      /\ <<p, s>> \notin made[c]
  <2>1. <<c, s>> \in made[s.client.owner]
    BY <1>1, <1>3 DEF InviterHasFirst
  <2>2. s.client.owner = p
    BY <1>0, <1>1, <2>1 DEF ServerKeyIsWithPeer
  <2>3. <<p, s>> \notin made[c]
    BY <1>0, <1>1 DEF ServerKeyIsWithPeer
  <2> QED
    BY <2>1, <2>2, <2>3
<1>9. Shapes'
  BY <1>6 DEF Shapes, Waits
<1>10. KeysAreGenerated'
  BY <1>0, <1>3, <1>5, <1>6, <1>7, NoneAssumption
     DEF KeysAreGenerated, Generated, BothGenerated
<1>11. \A r \in Clients : task'[r].at \in KeyWaits => task'[r] = task[r] /\ r # c
  BY <1>6 DEF KeyWaits
<1>12. ServerKeyIsWithPeer'
  BY <1>1, <1>5, <1>7, <1>11 DEF ServerKeyIsWithPeer, KeyWaits, Shapes
<1>13. ClientKeyIsWithPeer'
  BY <1>5, <1>7, <1>8, <1>11 DEF ClientKeyIsWithPeer, KeyWaits
<1>14. OneSessionPerServerKey'
  BY <1>5, <1>7, <1>8, <1>11 DEF OneSessionPerServerKey, KeyWaits
<1>15. InviterHasFirst'
  <2> SUFFICES ASSUME NEW r \in Clients, NEW m \in Pending(r)', m.flag = "headersDone"
               PROVE  <<m.body.server.owner, m.body>> \in made'[m.body.client.owner]
    BY DEF InviterHasFirst
  <2>1. m \in Pending(r) /\ m.body.client.owner \in Clients
    BY <1>5, PendingType, BodyTypes DEF Sessions, ClientKeys, KeysOf
  <2> QED
    BY <1>7, <2>1 DEF InviterHasFirst
<1>16. Agreement!Next
  <2>1. Agreement!InviteeGets(c, p, s)
    BY <1>1, <1>2, <1>8 DEF Agreement!InviteeGets, Agreement!Gets
  <2>2. <<p, s>> \in made'[c] \ made[c]
    BY <1>7, <1>8
  <2> QED
    BY <2>1, <2>2 DEF Agreement!Next
<1> QED
  BY <1>4, <1>9, <1>10, <1>12, <1>13, <1>14, <1>15, <1>16

-----------------------------------------------------------------------------
(* Every step keeps the invariant, and what it makes is agreed upon. *)
LEMMA InitSetUpInv == Init => SetUpInv
<1> SUFFICES ASSUME Init PROVE SetUpInv
  OBVIOUS
<1>1. <<>> \in Seq(Messages) /\ <<>> \in Seq(Jobs) /\ Range(<<>>) = {}
  BY EmptySeq DEF Range
<1>2. TypeOK
  BY <1>1, BudgetAssumption DEF Init, TypeOK, Idle, Task, Tasks, Asserts
<1>3. \A c \in Clients : Pending(c) = {} /\ made[c] = {} /\ task[c] = Task("idle", None, None, None)
  BY <1>1 DEF Init, Pending, Idle
<1> QED
  BY <1>2, <1>3 DEF SetUpInv, Task, Waits, Shapes, KeysAreGenerated, ServerKeyIsWithPeer, ClientKeyIsWithPeer,
                    OneSessionPerServerKey, InviterHasFirst

LEMMA NextStep ==
  ASSUME SetUpInv, [Next]_vars
  PROVE  SetUpInv' /\ [Agreement!Next]_made
<1> USE DEF SetUpInv
<1>1. CASE UNCHANGED vars
  <2>1. TypeOK' /\ Quiet
    BY <1>1, QuietWire DEF TypeOK, vars, wire, flags, ui, store
  <2> QED
    BY <2>1, QuietStep DEF Quiet
<1>2. ASSUME NEW c \in Clients, ChoosesJob(c) \/ NetThread(c)
      PROVE  TypeOK' /\ Quiet
  BY <1>2, ChooseStep, NetThreadStep
<1>3. ASSUME NEW c \in Clients, Answer(c), ~AnswerAccept(c)
      PROVE  TypeOK' /\ Quiet
  BY <1>3, GiveUpStep, FileStep, AbortStep DEF Answer, AnswerAsserts, Asserts
<1>4. ASSUME NEW c \in Clients, AsyncThread(c),
             ~InviterGetsKeys(c), ~InviterGetsHeaders(c),
             ~InviteeGetsKeysDone(c), ~InviteeGetsHeadersDone(c)
      PROVE  TypeOK' /\ Quiet
  BY <1>4, StartStep, ReplyStep, GiveUpStep, ReturnStep, DeleteStep, FetchUsersStep,
     ProcessUsersStep, FileStep DEF AsyncThread
<1>5. ASSUME TypeOK', Quiet PROVE SetUpInv' /\ [Agreement!Next]_made
  BY <1>5, QuietStep DEF Quiet
<1>6. ASSUME NEW c \in Clients,
             \/ AnswerAccept(c) \/ InviterGetsKeys(c) \/ InviterGetsHeaders(c)
             \/ InviteeGetsKeysDone(c) \/ InviteeGetsHeadersDone(c)
      PROVE  SetUpInv' /\ [Agreement!Next]_made
  <2>1. CASE AnswerAccept(c)
    BY <2>1, AcceptStep DEF AnswerAccept, store
  <2>2. CASE InviterGetsKeys(c)
    BY <2>2, InviterKeysStep DEF InviterGetsKeys, store
  <2>3. CASE InviteeGetsKeysDone(c)
    BY <2>3, InviteeKeysStep DEF InviteeGetsKeysDone, store
  <2>4. CASE InviterGetsHeaders(c)
    BY <2>4, InviterHeadersStep
  <2>5. CASE InviteeGetsHeadersDone(c)
    BY <2>5, InviteeHeadersStep
  <2> QED
    BY <1>6, <2>1, <2>2, <2>3, <2>4, <2>5
<1> QED
  BY <1>1, <1>2, <1>3, <1>4, <1>5, <1>6 DEF Next, Rest

(* The inductive invariant: types, and what messages and keys tell.        *)
THEOREM SetUpInvHolds == Spec => []SetUpInv
<1> QED
  BY InitSetUpInv, NextStep, PTL DEF Spec

(* Set-up implements SetUpAgreement: streams are first made by the inviter *)
(* from unused keys of the two users, then with the same keys by its       *)
(* invitee or never (net.c, netCreateConversation and                      *)
(* netReplyToConversationSetUpInvite, whoever else's messages they pop).   *)
THEOREM AgreementIsImplemented == Spec => AgreementHolds
<1>1. Init => Agreement!Init
  BY DEF Init, Agreement!Init
<1> QED
  BY <1>1, InitSetUpInv, NextStep, PTL DEF Spec, AgreementHolds, Agreement!Spec

-----------------------------------------------------------------------------
(* What two users have of one another.                                     *)

InSetUp == Waits \cup {"dialog", "return"}

LEMMA HeldIs ==
  ASSUME NEW c \in Clients, NEW p \in Clients, NEW s
  PROVE  s \in Held(c, p) <=>
           /\ s # None
           /\ \/ s = conversations[c][p]
              \/ task[c].at = "return" /\ task[c].peer = p /\ s = task[c].session
  BY DEF Held

(* A step at which nobody comes to hold more, no stream header is sent to  *)
(* an inviter that waits for it and no inviter gets ahead of an invitee.   *)
Calm ==
  /\ \A c, p \in Clients : Held(c, p)' \subseteq Held(c, p)
  /\ \A c, p \in Clients : Matched(c, p)' => Matched(c, p)
  /\ \A c, p \in Clients : Ahead(c, p)' => Ahead(c, p) /\ task'[p] = task[p]

LEMMA CalmStep ==
  ASSUME HeldMatch, NothingHeldYet, HeldAhead, Calm
  PROVE  HeldMatch' /\ NothingHeldYet' /\ HeldAhead'
<1>1. HeldMatch'
  BY DEF HeldMatch, Calm
<1>2. NothingHeldYet'
  BY DEF NothingHeldYet, Calm
<1>3. HeldAhead'
  BY DEF HeldAhead, Calm
<1> QED
  BY <1>1, <1>2, <1>3

LEMMA QuietIsCalm ==
  ASSUME Quiet, \A c, p \in Clients : Held(c, p)' \subseteq Held(c, p)
  PROVE  Calm
<1>1. \A c \in Clients : task'[c].at \in {"waitHeaders", "waitHeadersDone"} => task'[c] = task[c]
  BY DEF Quiet, KeyLess
<1>2. \A c \in Clients : \A s : Message("headers", s) \in Pending(c)' => Message("headers", s) \in Pending(c)
  <2>1. \A s : Message("headers", s).flag = "headers"
    BY DEF Message
  <2> QED
    BY <2>1 DEF Quiet
<1>3. \A c, p \in Clients : Matched(c, p)' => Matched(c, p)
  BY <1>1, <1>2 DEF Matched
<1>4. \A c, p \in Clients : Ahead(c, p)' => Ahead(c, p) /\ task'[p] = task[p]
  BY <1>1 DEF Ahead, Quiet
<1> QED
  BY <1>3, <1>4 DEF Calm

(* A step of c that stores nothing and in which c stays where it is in a   *)
(* set-up, goes on to the next stage of it or is in none.                  *)
Onward(c) ==
  /\ conversations' = conversations
  /\ \/ failed' = failed
     \/ \E a \in Asserts \ {"none", "addConversation"} : failed' = [failed EXCEPT ![c] = a]
  /\ \A r \in Clients \ {c} : task'[r] = task[r]
  /\ \/ task'[c] = task[c]
     \/ task'[c].at \notin InSetUp
     \/ /\ Alive(c) /\ task[c].at \in InSetUp
        /\ task'[c].at \in InSetUp /\ task'[c].peer = task[c].peer

LEMMA OnwardRows ==
  ASSUME TypeOK, RowFree, InsertSucceeds, NEW c \in Clients, Onward(c)
  PROVE  RowFree' /\ InsertSucceeds'
<1>1. \A r \in Clients : Alive(r)' => Alive(r)
  BY DEF TypeOK, Onward, Alive
<1>2. InsertSucceeds'
  BY DEF TypeOK, Onward, InsertSucceeds
<1>3. RowFree'
  <2> SUFFICES ASSUME NEW r \in Clients, Alive(r)', task'[r].at \in InSetUp
               PROVE  task'[r].peer \in Clients /\ conversations[r][task'[r].peer] = None
    BY DEF RowFree, InSetUp, Onward
  <2>1. Alive(r) /\ task[r].at \in InSetUp /\ task'[r].peer = task[r].peer
    BY <1>1 DEF Onward
  <2> QED
    BY <2>1 DEF RowFree, InSetUp
<1> QED
  BY <1>2, <1>3

LEMMA OnwardHeld ==
  ASSUME NEW c \in Clients, Onward(c),
         task'[c] # task[c] => task'[c].at # "return" \/ task'[c].session = None
  PROVE  \A x, p \in Clients : Held(x, p)' \subseteq Held(x, p)
  BY DEF Onward, Held

(* What is entered, by the clients it is entered at. *)
LEMMA EnterIs ==
  ASSUME TypeOK, NEW c \in Clients, NEW at, NEW peer, NEW own, NEW session,
         Enter(c, Task(at, peer, own, session))
  PROVE  /\ task'[c].at = at /\ task'[c].peer = peer
         /\ task'[c].own = own /\ task'[c].session = session
         /\ \A r \in Clients \ {c} : task'[r] = task[r]
  BY DEF TypeOK, Enter, Task

(* The steps that leave the conversations alone and make no streams. *)
LEMMA OtherSteps ==
  ASSUME TypeOK, NEW c \in Clients,
         \/ ChoosesJob(c) \/ NetThread(c) \/ AnswerAsserts(c) \/ AnswerFile(c)
         \/ Refresh(c) \/ RunFetchUsers(c) \/ RunProcessUsers(c)
         \/ RunSendFile(c) \/ RunReceiveFile(c) \/ EndFile(c)
  PROVE  Onward(c) /\ \A x, p \in Clients : Held(x, p)' \subseteq Held(x, p)
<1>1. /\ conversations' = conversations
      /\ \/ failed' = failed
         \/ \E a \in Asserts \ {"none", "addConversation"} : failed' = [failed EXCEPT ![c] = a]
  <2>1. ASSUME NEW a \in Asserts \ {"none", "addConversation"}, Abort(c, a)
        PROVE  conversations' = conversations /\ failed' = [failed EXCEPT ![c] = a]
    BY <2>1 DEF Abort, store
  <2>2. /\ {"netReplyToInvite", "netReplyToFileExchangeInvite", "updateUsersList", "netFetchUsers"}
             \subseteq Asserts \ {"none", "addConversation"}
        /\ {"netFetchMessages", "processFetchedUsers", "netBeginFileExchange", "listBinarySearch"}
             \subseteq Asserts \ {"none", "addConversation"}
    BY DEF Asserts
  <2>3. CASE ChoosesJob(c)
    BY <2>3 DEF ChoosesJob, ChooseStart, ChooseDelete, ChooseFile, store
  <2>4. CASE NetThread(c)
    BY <2>4 DEF NetThread, Receive, ReceiveStrangersInvite, ReceiveFileAsk, Claim, UsersFetched, MessagesFetched, store
  <2>5. CASE AnswerAsserts(c) \/ AnswerFile(c)
    BY <2>1, <2>2, <2>5 DEF AnswerAsserts, AnswerFile, store
  <2>6. CASE Refresh(c) \/ RunFetchUsers(c)
    BY <2>1, <2>2, <2>6 DEF Refresh, RunFetchUsers, store
  <2>7. CASE RunProcessUsers(c)
    BY <2>1, <2>2, <2>7 DEF RunProcessUsers, store
  <2>8. CASE RunSendFile(c) \/ RunReceiveFile(c)
    BY <2>1, <2>2, <2>8 DEF RunSendFile, RunReceiveFile, store
  <2>9. CASE EndFile(c)
    BY <2>9 DEF EndFile, store
  <2> QED
    BY <2>3, <2>4, <2>5, <2>6, <2>7, <2>8, <2>9
<1>2. \/ task' = task
      \/ \E at \in {"idle", "fileDialog", "file"} : \E p, own, s : Enter(c, Task(at, p, own, s))
  <2>1. \A a : Abort(c, a) => task' = task
    BY DEF Abort
  <2>2. CASE ChoosesJob(c) \/ NetThread(c)
    BY <2>2 DEF ChoosesJob, ChooseStart, ChooseDelete, ChooseFile,
                NetThread, Receive, ReceiveStrangersInvite, ReceiveFileAsk, Claim,
                UsersFetched, MessagesFetched
  <2>3. CASE AnswerAsserts(c) \/ AnswerFile(c)
    BY <2>1, <2>3 DEF AnswerAsserts, AnswerFile
  <2>4. CASE Refresh(c) \/ RunFetchUsers(c) \/ RunProcessUsers(c)
    BY <2>1, <2>4 DEF Refresh, RunFetchUsers, RunProcessUsers, Idle
  <2>5. CASE RunSendFile(c) \/ RunReceiveFile(c) \/ EndFile(c)
    BY <2>1, <2>5 DEF RunSendFile, RunReceiveFile, EndFile, Idle
  <2> QED
    BY <2>2, <2>3, <2>4, <2>5
<1>3. /\ \A r \in Clients \ {c} : task'[r] = task[r]
      /\ task'[c] = task[c] \/ task'[c].at \in {"idle", "fileDialog", "file"}
  BY <1>2, EnterIs
<1>4. Onward(c)
  BY <1>1, <1>3 DEF Onward, InSetUp, Waits
<1>5. \A x, p \in Clients : Held(x, p)' \subseteq Held(x, p)
  BY <1>3, <1>4, OnwardHeld
<1> QED
  BY <1>4, <1>5

LEMMA StartKeepsMatch ==
  ASSUME TypeOK, RowFree, InsertSucceeds, NEW c \in Clients, RunStart(c)
  PROVE  /\ RowFree' /\ InsertSucceeds'
         /\ \A x, q \in Clients : Held(x, q)' \subseteq Held(x, q)
<1> DEFINE p == Head(jobs[c]).peer
<1>1. p \in Clients
  BY RunsType DEF RunStart, Jobs
<1>2. CASE Abort(c, "netCreateConversation") \/ UNCHANGED <<task, store, failed>>
  <2>1. Onward(c)
    BY <1>2 DEF Onward, Abort, store, Asserts
  <2>2. task' = task
    BY <1>2 DEF Abort
  <2> QED
    BY <2>1, <2>2, OnwardRows, OnwardHeld
<1>3. CASE /\ conversations[c][p] = None
           /\ Enter(c, Task("waitKeys", p, None, None))
           /\ UNCHANGED <<store, failed>>
  <2>1. /\ task'[c].at = "waitKeys" /\ task'[c].peer = p
        /\ \A r \in Clients \ {c} : task'[r] = task[r]
        /\ conversations' = conversations /\ failed' = failed
    BY <1>3, EnterIs DEF store
  <2>2. RowFree'
    BY <1>1, <1>3, <2>1 DEF RowFree, Alive
  <2>3. InsertSucceeds'
    BY <2>1 DEF InsertSucceeds
  <2>4. \A x, q \in Clients : Held(x, q)' \subseteq Held(x, q)
    BY <2>1 DEF Held
  <2> QED
    BY <2>2, <2>3, <2>4
<1> QED
  BY <1>2, <1>3 DEF RunStart

(* A conversation is forgotten. *)
LEMMA ForgetKeepsMatch ==
  ASSUME TypeOK, RowFree, InsertSucceeds, NEW c \in Clients, RunDelete(c) \/ RunReply(c)
  PROVE  /\ RowFree' /\ InsertSucceeds'
         /\ \A x, q \in Clients : Held(x, q)' \subseteq Held(x, q)
<1> DEFINE p == Head(jobs[c]).peer
<1>1. Alive(c) /\ task[c].at = "idle"
  BY DEF RunDelete, RunReply, Runs
<1>2. /\ \A r, q \in Clients : \/ conversations'[r][q] = conversations[r][q]
                               \/ conversations'[r][q] = None
      /\ p \in Clients => conversations'[c][p] = None
  <2>1. CASE RunDelete(c)
    <3>1. conversations' = [conversations EXCEPT ![c][p] = None]
      BY <2>1 DEF RunDelete
    <3> HIDE DEF p
    <3> QED
      BY <3>1 DEF TypeOK
  <2>2. CASE RunReply(c)
    BY <2>2, ForgetIs DEF RunReply, Outdated
  <2> QED
    BY <2>1, <2>2
<1>3. /\ \A r \in Clients \ {c} : task'[r] = task[r]
      /\ \/ task'[c] = task[c]
         \/ task'[c].at = "refresh"
         \/ task'[c].at = "dialog" /\ task'[c].peer = p /\ p \in Clients
  <2>1. \/ task' = task
        \/ Enter(c, Task("refresh", None, None, None))
        \/ Enter(c, Task("dialog", p, None, None)) /\ p \in Clients
    BY KnowsAssumption DEF RunDelete, RunReply
  <2> QED
    BY <2>1, EnterIs
<1>4. failed' = failed \/ failed' = [failed EXCEPT ![c] = "listBinarySearch"]
  BY DEF RunDelete, RunReply
<1>5. InsertSucceeds'
  BY <1>4 DEF TypeOK, InsertSucceeds
<1>6. \A r \in Clients : Alive(r)' => Alive(r)
  BY <1>4 DEF TypeOK, Alive
<1> HIDE DEF p
<1>7. RowFree'
  <2> SUFFICES ASSUME NEW r \in Clients, Alive(r)', task'[r].at \in InSetUp
               PROVE  task'[r].peer \in Clients /\ conversations'[r][task'[r].peer] = None
    BY DEF RowFree, InSetUp
  <2>1. CASE task'[r] = task[r]
    BY <1>2, <1>6, <2>1 DEF RowFree, InSetUp
  <2>2. CASE task'[r] # task[r]
    BY <1>1, <1>2, <1>3, <2>2 DEF InSetUp, Waits
  <2> QED
    BY <2>1, <2>2
<1>8. \A x, q \in Clients : Held(x, q)' \subseteq Held(x, q)
  BY <1>2, <1>3 DEF Held
<1> QED
  BY <1>5, <1>7, <1>8

LEMMA GiveUpKeepsMatch ==
  ASSUME TypeOK, RowFree, InsertSucceeds, NEW c \in Clients, AnswerDecline(c) \/ Abandon(c)
  PROVE  /\ RowFree' /\ InsertSucceeds'
         /\ \A x, q \in Clients : Held(x, q)' \subseteq Held(x, q)
<1>1. /\ Alive(c) /\ task[c].at \in InSetUp
      /\ Enter(c, Task("return", task[c].peer, None, None))
      /\ conversations' = conversations /\ failed' = failed
  BY DEF AnswerDecline, Answers, Abandon, InSetUp, store
<1>2. /\ task'[c].at = "return" /\ task'[c].peer = task[c].peer /\ task'[c].session = None
      /\ \A r \in Clients \ {c} : task'[r] = task[r]
  BY <1>1, EnterIs
<1>3. Onward(c)
  BY <1>1, <1>2 DEF Onward, InSetUp
<1> QED
  BY <1>2, <1>3, OnwardRows, OnwardHeld

(* The insertion finds no row, and stores what the two agree on. *)
LEMMA ReturnKeepsMatch ==
  ASSUME TypeOK, RowFree, InsertSucceeds, NEW c \in Clients, Return(c)
  PROVE  /\ RowFree' /\ InsertSucceeds'
         /\ \A x, q \in Clients : Held(x, q)' \subseteq Held(x, q)
<1> DEFINE p == task[c].peer  s == task[c].session
<1>1. /\ Alive(c) /\ task[c].at = "return"
      /\ p \in Clients /\ conversations[c][p] = None
  BY DEF Return, RowFree
<1>2. CASE s = None
  <2>1. Enter(c, Idle) /\ conversations' = conversations /\ failed' = failed
    BY <1>2 DEF Return, store
  <2>2. task'[c].at = "idle" /\ \A r \in Clients \ {c} : task'[r] = task[r]
    BY <2>1, EnterIs DEF Idle
  <2>3. Onward(c)
    BY <2>1, <2>2 DEF Onward, InSetUp, Waits
  <2> QED
    BY <2>2, <2>3, OnwardRows, OnwardHeld
<1>3. CASE s # None
  <2>1. /\ conversations' = [conversations EXCEPT ![c][p] = s]
        /\ \/ failed' = [failed EXCEPT ![c] = "updateUsersList"] /\ task' = task
           \/ failed' = failed /\ Enter(c, Idle)
    BY <1>1, <1>3 DEF Return
  <2>2. /\ \A r \in Clients \ {c} : task'[r] = task[r] /\ conversations'[r] = conversations[r]
        /\ conversations'[c][p] = s
        /\ \A q \in Clients \ {p} : conversations'[c][q] = conversations[c][q]
    BY <1>1, <2>1 DEF TypeOK, Enter
  <2>3. task'[c] = task[c] \/ task'[c].at = "idle"
    BY <2>1, EnterIs DEF Idle
  <2>4. \/ ~Alive(c)'
        \/ task'[c].at = "idle"
    BY <2>1, EnterIs DEF TypeOK, Alive, Idle
  <2>5. \A r \in Clients : Alive(r)' => Alive(r)
    BY <2>1 DEF TypeOK, Alive
  <2>6. InsertSucceeds'
    BY <2>1 DEF TypeOK, InsertSucceeds
  <2> HIDE DEF p, s
  <2>7. RowFree'
    BY <2>2, <2>4, <2>5 DEF RowFree, Waits
  <2>8. \A x, q \in Clients : Held(x, q)' \subseteq Held(x, q)
    <3> SUFFICES ASSUME NEW x \in Clients, NEW q \in Clients, NEW t \in Held(x, q)'
                 PROVE  t \in Held(x, q)
      OBVIOUS
    <3>1. t # None /\ (t = conversations'[x][q] \/ (task'[x].at = "return" /\ task'[x].peer = q /\ t = task'[x].session))
      BY DEF Held
    <3>2. CASE x # c
      BY <2>2, <3>1, <3>2, HeldIs
    <3>3. CASE x = c /\ q # p
      BY <2>2, <2>3, <3>1, <3>3, HeldIs
    <3>4. CASE x = c /\ q = p
      <4>1. t = s
        BY <2>2, <2>3, <3>1, <3>4 DEF p, s
      <4> QED
        BY <1>1, <3>1, <3>4, <4>1, HeldIs DEF p, s
    <3> QED
      BY <3>2, <3>3, <3>4
  <2> QED
    BY <2>6, <2>7, <2>8
<1> QED
  BY <1>2, <1>3

(* The invitee's key goes out: no stream header is about yet. *)
LEMMA AcceptKeepsMatch ==
  ASSUME SetUpInv, RowFree, InsertSucceeds, NEW c \in Clients, AnswerAccept(c)
  PROVE  RowFree' /\ InsertSucceeds' /\ Calm
<1> DEFINE own == NextKey(c, "server")  p == task[c].peer
<1> USE DEF SetUpInv
<1>1. p \in Clients /\ Message("keys", own) \in Messages /\ own # None
  BY NextKeyType, MessageTypes, NoneAssumption DEF Shapes, AnswerAccept, Answers, Keys
<1>2. /\ setupQueue' = [setupQueue EXCEPT ![c] = <<>>] /\ Send(c, p, "keys", own)
      /\ Enter(c, Task("waitKeysDone", p, own, None))
      /\ made' = made /\ conversations' = conversations /\ failed' = failed
      /\ Alive(c) /\ task[c].at = "dialog"
  BY DEF AnswerAccept, Answers, store
<1>3. /\ task'[c].at = "waitKeysDone" /\ task'[c].peer = p
      /\ \A r \in Clients \ {c} : task'[r] = task[r]
  BY <1>2, EnterIs
<1>4. Onward(c)
  BY <1>2, <1>3 DEF Onward, InSetUp, Waits
<1>5. \A x, q \in Clients : Held(x, q)' \subseteq Held(x, q)
  BY <1>3, <1>4, OnwardHeld
<1>6. \A r \in Clients : \A m \in Pending(r)' : m \in Pending(r) \/ m = Message("keys", own)
  BY <1>1, <1>2, EmptiedQueue, SendPending
<1>7. \A x, q \in Clients : Matched(x, q)' => Matched(x, q)
  <2>1. \A s : Message("headers", s) # Message("keys", own)
    BY DEF Message
  <2> QED
    BY <1>3, <1>6, <2>1 DEF Matched
<1>8. \A x, q \in Clients : Ahead(x, q)' => Ahead(x, q) /\ task'[q] = task[q]
  BY <1>2, <1>3 DEF Ahead
<1> QED
  BY <1>4, <1>5, <1>7, <1>8, OnwardRows DEF Calm

(* The inviter's key is fresh: nobody has answered to it. *)
LEMMA InviterKeysKeepMatch ==
  ASSUME SetUpInv, RowFree, InsertSucceeds, NEW c \in Clients, InviterGetsKeys(c)
  PROVE  RowFree' /\ InsertSucceeds' /\ Calm
<1> USE DEF SetUpInv
<1> DEFINE p == task[c].peer  own == NextKey(c, "client")  s == [server |-> Got(c), client |-> own]
<1>1. /\ Gets(c, "waitKeys", "keys") /\ TakeMessage(c) /\ MakeKey(c)
      /\ Send(c, p, "keysDone", own)
      /\ Enter(c, Task("waitHeaders", p, own, s))
      /\ made' = made /\ conversations' = conversations /\ failed' = failed
  BY DEF InviterGetsKeys, store
<1>2. /\ p \in Clients /\ Message("keysDone", own) \in Messages
      /\ Alive(c) /\ task[c].at = "waitKeys" /\ setupQueue[c] # <<>>
  BY <1>1, NextKeyType, MessageTypes DEF Shapes, Gets, Waits
<1>3. /\ task'[c].at = "waitHeaders" /\ task'[c].peer = p /\ task'[c].session = s
      /\ \A r \in Clients \ {c} : task'[r] = task[r]
  BY <1>1, EnterIs
<1>4. ~Generated(own) /\ s.client = own
  BY <1>1, FreshKey
<1> HIDE DEF s, own, p
<1>5. Onward(c)
  BY <1>1, <1>2, <1>3 DEF Onward, InSetUp, Waits, p
<1>6. \A x, q \in Clients : Held(x, q)' \subseteq Held(x, q)
  BY <1>3, <1>5, OnwardHeld
<1>7. \A r \in Clients : \A m \in Pending(r)' : m \in Pending(r) \/ m = Message("keysDone", own)
  BY <1>1, <1>2, TakenQueue, SendPending
<1>8. \A x, q \in Clients : Matched(x, q)' => Matched(x, q)
  <2>1. \A t : /\ Message("headers", t) # Message("keysDone", own)
               /\ Message("headers", t).flag = "headers" /\ Message("headers", t).body = t
    BY DEF Message
  <2>2. Message("headers", s) \notin Pending(c)
    BY <1>4, <2>1 DEF KeysAreGenerated, BothGenerated
  <2> QED
    BY <1>3, <1>7, <2>1, <2>2 DEF Matched
<1>9. \A x, q \in Clients : Ahead(x, q)' => Ahead(x, q) /\ task'[q] = task[q]
  BY <1>1, <1>3 DEF Ahead
<1> QED
  BY <1>5, <1>6, <1>8, <1>9, OnwardRows DEF Calm

(* The invitee sends its stream header: to an inviter that waits for it    *)
(* with the same session, if any, and then both wait for one another.      *)
LEMMA InviteeKeysKeepMatch ==
  ASSUME MatchInv, NEW c \in Clients, InviteeGetsKeysDone(c)
  PROVE  RowFree' /\ InsertSucceeds' /\ HeldMatch' /\ NothingHeldYet' /\ HeldAhead'
<1> USE DEF MatchInv, SetUpInv
<1>0. PICK p, own, s :
        p = task[c].peer /\ own = task[c].own /\ s = [server |-> own, client |-> Got(c)]
  OBVIOUS
<1>1. /\ Gets(c, "waitKeysDone", "keysDone") /\ TakeMessage(c)
      /\ Send(c, p, "headers", s)
      /\ Enter(c, Task("waitHeadersDone", p, own, s))
      /\ made' = made /\ conversations' = conversations /\ failed' = failed
  BY <1>0 DEF InviteeGetsKeysDone, store
<1>2. /\ p \in Clients /\ conversations[c][p] = None
      /\ Alive(c) /\ task[c].at = "waitKeysDone" /\ setupQueue[c] # <<>>
  BY <1>0, <1>1 DEF RowFree, Gets, Waits
<1>3. PICK m0 \in Pending(c) : m0.flag = "keysDone" /\ m0.body = s.client
  BY <1>0, <1>1, GetsType DEF Got, Pending
<1>4. Message("headers", s) \in Messages
  <2>1. m0 \in Messages /\ own \in ServerKeys
    BY <1>0, <1>2, PendingType DEF Shapes
  <2>2. s \in Sessions
    BY <1>0, <1>3, <2>1, BodyTypes DEF Sessions
  <2> QED
    BY <2>2, MessageTypes
<1>5. /\ task'[c].at = "waitHeadersDone" /\ task'[c].peer = p /\ task'[c].session = s
      /\ \A r \in Clients \ {c} : task'[r] = task[r]
  BY <1>0, <1>1, EnterIs
<1>6. s.server = own
  BY <1>0
<1>7. Onward(c)
  BY <1>0, <1>1, <1>2, <1>5 DEF Onward, InSetUp, Waits
<1>8. RowFree' /\ InsertSucceeds'
  BY <1>7, OnwardRows
<1>9. /\ \A x, q \in Clients : Held(x, q)' \subseteq Held(x, q)
      /\ Held(c, p)' = {}
  <2>1. \A x, q \in Clients : Held(x, q)' \subseteq Held(x, q)
    BY <1>5, <1>7, OnwardHeld
  <2>2. Held(c, p)' = {}
    BY <1>0, <1>1, <1>2, <1>5 DEF Held
  <2> QED
    BY <2>1, <2>2
<1>10. \A r \in Clients : \A m \in Pending(r)' : m \in Pending(r) \/ (r = p /\ m = Message("headers", s))
  BY <1>0, <1>1, <1>2, <1>4, TakenQueue, SendPending
(* No streams were made from the invitee's key. *)
<1>11. \A x, q \in Clients : Ahead(x, q)' => Ahead(x, q) /\ q # c /\ task'[q] = task[q]
  <2>1. \A x \in Clients : <<c, s>> \notin made[x]
    BY <1>0, <1>2, <1>6 DEF OneSessionPerServerKey
  <2>2. \A x \in Clients : ~Ahead(x, c)'
    BY <1>0, <1>1, <1>5, <2>1 DEF Ahead
  <2> QED
    BY <1>0, <1>1, <1>5, <2>2 DEF Ahead
<1>12. \A x, q \in Clients : Matched(x, q)' => Matched(x, q) \/ (x = p /\ q = c /\ x # c)
  <2> SUFFICES ASSUME NEW x \in Clients, NEW q \in Clients, Matched(x, q)', ~Matched(x, q)
               PROVE  x = p /\ q = c /\ x # c
    OBVIOUS
  <2>1. x # c /\ task'[x] = task[x] /\ task[x].at = "waitHeaders" /\ task[x].peer = q
    BY <1>5 DEF Matched
  <2>2. x = p /\ Message("headers", task[x].session) = Message("headers", s)
    BY <1>10, <2>1 DEF Matched
  <2>3. task[x].own = s.client
    BY <2>1, <2>2 DEF Message, Shapes
  <2>4. q = c
    BY <1>3, <2>1, <2>3 DEF ClientKeyIsWithPeer
  <2> QED
    BY <2>1, <2>2, <2>4
<1>13. \A q \in Clients : ~Matched(c, q)'
  BY <1>5 DEF Matched
<1>14. HeldMatch'
  BY <1>9 DEF HeldMatch
<1>15. NothingHeldYet'
  <2> SUFFICES ASSUME NEW x \in Clients, NEW q \in Clients, Matched(x, q)'
               PROVE  q # x /\ Held(q, x)' = {} /\ ~Matched(q, x)' /\ ~Ahead(x, q)'
    BY DEF NothingHeldYet
  <2>1. CASE Matched(x, q)
    <3>1. q # x /\ Held(q, x) = {} /\ ~Matched(q, x) /\ ~Ahead(x, q)
      BY <2>1 DEF NothingHeldYet
    <3>2. ~Matched(q, x)'
      BY <1>12, <1>13, <3>1
    <3> QED
      BY <1>9, <1>11, <3>1, <3>2
  <2>2. CASE x = p /\ q = c /\ x # c
    BY <1>9, <1>11, <1>13, <2>2
  <2> QED
    BY <1>12, <2>1, <2>2
<1>16. HeldAhead'
  BY <1>9, <1>11 DEF HeldAhead
<1> QED
  BY <1>8, <1>14, <1>15, <1>16

(* The inviter has its streams: from now on it is ahead of its invitee, if *)
(* that still waits for them.                                              *)
LEMMA InviterHeadersKeepMatch ==
  ASSUME MatchInv, NEW c \in Clients, InviterGetsHeaders(c)
  PROVE  RowFree' /\ InsertSucceeds' /\ HeldMatch' /\ NothingHeldYet' /\ HeldAhead'
<1> USE DEF MatchInv, SetUpInv
<1>0. PICK p, s : p = task[c].peer /\ s = task[c].session
  OBVIOUS
<1>1. /\ Gets(c, "waitHeaders", "headers") /\ Got(c) = s
      /\ Send(c, p, "headersDone", s)
      /\ setupQueue' = [setupQueue EXCEPT ![c] = <<>>]
      /\ made' = [made EXCEPT ![c] = @ \cup {<<p, s>>}]
      /\ Enter(c, Task("return", p, None, s))
      /\ conversations' = conversations /\ failed' = failed
  BY <1>0 DEF InviterGetsHeaders, Decrypts, OpensUnder, FinishSettingUp
<1>2. /\ p \in Clients /\ conversations[c][p] = None
      /\ Alive(c) /\ task[c].at = "waitHeaders"
      /\ s \in Sessions /\ Message("headersDone", s) \in Messages
  BY <1>0, <1>1, MessageTypes DEF RowFree, Gets, Waits, Shapes
<1>3. Matched(c, p)
  <2>1. Head(setupQueue[c]) \in Messages /\ Head(setupQueue[c]).flag = "headers" /\ Head(setupQueue[c]) \in Pending(c)
    BY <1>0, <1>1, GetsType DEF Pending
  <2>2. Head(setupQueue[c]) = Message("headers", s)
    BY <1>0, <1>1, <2>1 DEF Got, Message, Messages
  <2> QED
    BY <1>0, <1>2, <2>1, <2>2 DEF Matched
<1>4. p # c /\ Held(p, c) = {} /\ ~Matched(p, c) /\ ~Ahead(c, p)
  BY <1>0, <1>2, <1>3 DEF NothingHeldYet
<1>5. /\ task'[c].at = "return" /\ task'[c].peer = p /\ task'[c].session = s
      /\ \A r \in Clients \ {c} : task'[r] = task[r]
  BY <1>0, <1>1, EnterIs
<1>6. Onward(c)
  BY <1>0, <1>1, <1>2, <1>5 DEF Onward, InSetUp, Waits
<1>7. RowFree' /\ InsertSucceeds'
  BY <1>6, OnwardRows
<1>8. \A r \in Clients : \A m \in Pending(r)' : m \in Pending(r) \/ m = Message("headersDone", s)
  BY <1>0, <1>1, <1>2, EmptiedQueue, SendPending
<1>9. \A x, q \in Clients : Matched(x, q)' => Matched(x, q) /\ x # c
  <2>1. \A t : Message("headers", t) # Message("headersDone", s)
    BY DEF Message
  <2> QED
    BY <1>5, <1>8, <2>1 DEF Matched
<1>10. \A x, q \in Clients : Held(x, q)' \subseteq Held(x, q) \/ (x = c /\ q = p)
  BY <1>0, <1>1, <1>5 DEF Held
<1>11. Held(c, p)' = {s}
  <2>1. s # None
    BY <1>0, <1>2, NoneAssumption
  <2> QED
    BY <1>0, <1>1, <1>2, <1>5, <2>1 DEF Held
<1>12. \A x, q \in Clients : Ahead(x, q)' =>
         /\ q # c /\ task'[q] = task[q]
         /\ Ahead(x, q) \/ (x = c /\ q = p /\ task[q].session = s)
  <2>1. \A r \in Clients : \A y : y \in made'[r] <=> y \in made[r] \/ (r = c /\ y = <<p, s>>)
    BY <1>0, <1>1 DEF TypeOK
  <2> QED
    BY <1>5, <2>1 DEF Ahead
<1>13. HeldMatch'
  <2> SUFFICES ASSUME NEW x \in Clients, NEW q \in Clients, NEW t \in Held(x, q)', NEW u \in Held(q, x)'
               PROVE  t = u
    BY DEF HeldMatch
  <2>1. ~(x = p /\ q = c) /\ ~(x = c /\ q = p)
    BY <1>4, <1>10
  <2> QED
    BY <1>10, <2>1 DEF HeldMatch
<1>14. NothingHeldYet'
  <2> SUFFICES ASSUME NEW x \in Clients, NEW q \in Clients, Matched(x, q)'
               PROVE  q # x /\ Held(q, x)' = {} /\ ~Matched(q, x)' /\ ~Ahead(x, q)'
    BY DEF NothingHeldYet
  <2>1. Matched(x, q) /\ x # c
    BY <1>9
  <2>2. q # x /\ Held(q, x) = {} /\ ~Matched(q, x) /\ ~Ahead(x, q)
    BY <2>1 DEF NothingHeldYet
  <2>3. Held(q, x)' = {}
    BY <1>4, <1>10, <2>1, <2>2
  <2> QED
    BY <1>9, <1>12, <2>1, <2>2, <2>3
<1>15. HeldAhead'
  <2> SUFFICES ASSUME NEW x \in Clients, NEW q \in Clients, Ahead(x, q)'
               PROVE  Held(x, q)' \subseteq {task'[q].session} /\ ~Ahead(q, x)'
    BY DEF HeldAhead
  <2>1. CASE x = c /\ q = p /\ task[q].session = s
    BY <1>11, <1>12, <2>1
  <2>2. CASE Ahead(x, q) /\ ~(x = c /\ q = p)
    <3>1. Held(x, q) \subseteq {task[q].session} /\ ~Ahead(q, x)
      BY <2>2 DEF HeldAhead
    <3>2. ~Ahead(q, x)'
      BY <1>12, <3>1
    <3> QED
      BY <1>10, <1>12, <2>2, <3>1, <3>2
  <2> QED
    BY <1>4, <1>12, <2>1, <2>2
<1> QED
  BY <1>7, <1>13, <1>14, <1>15

(* The invitee has its streams, and they are what the inviter has. *)
LEMMA InviteeHeadersKeepMatch ==
  ASSUME MatchInv, NEW c \in Clients, InviteeGetsHeadersDone(c)
  PROVE  RowFree' /\ InsertSucceeds' /\ HeldMatch' /\ NothingHeldYet' /\ HeldAhead'
<1> USE DEF MatchInv, SetUpInv
<1>0. PICK p, s : p = task[c].peer /\ s = task[c].session
  OBVIOUS
<1>1. /\ Gets(c, "waitHeadersDone", "headersDone") /\ Got(c) = s
      /\ channel' = channel
      /\ setupQueue' = [setupQueue EXCEPT ![c] = <<>>]
      /\ made' = [made EXCEPT ![c] = @ \cup {<<p, s>>}]
      /\ Enter(c, Task("return", p, None, s))
      /\ conversations' = conversations /\ failed' = failed
  BY <1>0 DEF InviteeGetsHeadersDone, Decrypts, OpensUnder, FinishSettingUp
<1>2. /\ p \in Clients /\ conversations[c][p] = None
      /\ Alive(c) /\ task[c].at = "waitHeadersDone"
      /\ s \in Sessions /\ s.server.owner = c /\ task[c].own = s.server
  BY <1>0, <1>1 DEF RowFree, Gets, Waits, Shapes
(* The inviter is ahead of it. *)
<1>3. Ahead(p, c) /\ p # c
  <2>1. PICK m \in Pending(c) : m.flag = "headersDone" /\ m.body = s
    BY <1>0, <1>1, GetsType DEF Got, Pending
  <2>2. s.client.owner \in Clients
    BY <1>0, <1>2 DEF Sessions, ClientKeys, KeysOf
  <2>3. <<c, s>> \in made[s.client.owner]
    BY <1>0, <1>2, <2>1 DEF InviterHasFirst
  <2>4. s.client.owner = p /\ p # c
    BY <1>0, <1>2, <2>2, <2>3 DEF ServerKeyIsWithPeer
  <2> QED
    BY <1>0, <1>2, <2>3, <2>4 DEF Ahead
<1>4. Held(p, c) \subseteq {s} /\ ~Ahead(c, p) /\ ~Matched(p, c)
  BY <1>0, <1>2, <1>3 DEF HeldAhead, NothingHeldYet
<1>5. /\ task'[c].at = "return" /\ task'[c].peer = p /\ task'[c].session = s
      /\ \A r \in Clients \ {c} : task'[r] = task[r]
  BY <1>0, <1>1, EnterIs
<1>6. Onward(c)
  BY <1>0, <1>1, <1>2, <1>5 DEF Onward, InSetUp, Waits
<1>7. RowFree' /\ InsertSucceeds'
  BY <1>6, OnwardRows
<1>8. \A r \in Clients : Pending(r)' \subseteq Pending(r)
  BY <1>0, <1>1, EmptiedQueue, KeepPending
<1>9. \A x, q \in Clients : Matched(x, q)' => Matched(x, q) /\ x # c
  BY <1>5, <1>8 DEF Matched
<1>10. \A x, q \in Clients : Held(x, q)' \subseteq Held(x, q) \/ (x = c /\ q = p)
  BY <1>0, <1>1, <1>5 DEF Held
<1>11. Held(c, p)' \subseteq {s}
  BY <1>0, <1>1, <1>2, <1>5 DEF Held
<1>12. \A x, q \in Clients : Ahead(x, q)' => q # c /\ task'[q] = task[q] /\ Ahead(x, q)
  <2>1. \A r \in Clients : \A y : y \in made'[r] <=> y \in made[r] \/ (r = c /\ y = <<p, s>>)
    BY <1>0, <1>1 DEF TypeOK
  <2>2. ~(task[p].at = "waitHeadersDone" /\ task[p].session = s)
    BY <1>0, <1>2, <1>3 DEF Shapes
  <2> QED
    BY <1>5, <2>1, <2>2 DEF Ahead
<1>13. HeldMatch'
  <2> SUFFICES ASSUME NEW x \in Clients, NEW q \in Clients, NEW t \in Held(x, q)', NEW u \in Held(q, x)'
               PROVE  t = u
    BY DEF HeldMatch
  <2>1. CASE (x = p /\ q = c) \/ (x = c /\ q = p)
    BY <1>3, <1>4, <1>10, <1>11, <2>1
  <2>2. CASE ~(x = p /\ q = c) /\ ~(x = c /\ q = p)
    BY <1>10, <2>2 DEF HeldMatch
  <2> QED
    BY <2>1, <2>2
<1>14. NothingHeldYet'
  <2> SUFFICES ASSUME NEW x \in Clients, NEW q \in Clients, Matched(x, q)'
               PROVE  q # x /\ Held(q, x)' = {} /\ ~Matched(q, x)' /\ ~Ahead(x, q)'
    BY DEF NothingHeldYet
  <2>1. Matched(x, q) /\ x # c
    BY <1>9
  <2>2. q # x /\ Held(q, x) = {} /\ ~Matched(q, x) /\ ~Ahead(x, q)
    BY <2>1 DEF NothingHeldYet
  <2>3. Held(q, x)' = {}
    BY <1>4, <1>10, <2>1, <2>2
  <2> QED
    BY <1>9, <1>12, <2>2, <2>3
<1>15. HeldAhead'
  <2> SUFFICES ASSUME NEW x \in Clients, NEW q \in Clients, Ahead(x, q)'
               PROVE  Held(x, q)' \subseteq {task'[q].session} /\ ~Ahead(q, x)'
    BY DEF HeldAhead
  <2>1. Ahead(x, q) /\ q # c /\ task'[q] = task[q]
    BY <1>12
  <2>2. Held(x, q) \subseteq {task[q].session} /\ ~Ahead(q, x)
    BY <2>1 DEF HeldAhead
  <2>3. ~(x = c /\ q = p)
    BY <1>4, <2>1
  <2> QED
    BY <1>10, <1>12, <2>1, <2>2, <2>3
<1> QED
  BY <1>7, <1>13, <1>14, <1>15

LEMMA InitMatchInv == Init => MatchInv
<1> SUFFICES ASSUME Init PROVE MatchInv
  OBVIOUS
<1>1. /\ \A c, p \in Clients : conversations[c][p] = None
      /\ \A c \in Clients : task[c].at = "idle" /\ failed[c] = "none"
  BY DEF Init, Idle, Task
<1>2. \A c, p \in Clients : Held(c, p) = {} /\ ~Matched(c, p) /\ ~Ahead(c, p)
  BY <1>1 DEF Held, Matched, Ahead
<1>3. RowFree /\ InsertSucceeds
  BY <1>1 DEF RowFree, InsertSucceeds, Waits
<1> QED
  BY <1>2, <1>3, InitSetUpInv DEF MatchInv, HeldMatch, NothingHeldYet, HeldAhead

LEMMA MatchStep ==
  ASSUME MatchInv, [Next]_vars
  PROVE  MatchInv'
<1> USE DEF MatchInv
<1>1. SetUpInv' /\ TypeOK
  BY NextStep DEF SetUpInv
<1>2. ASSUME RowFree' /\ InsertSucceeds' /\ Calm
      PROVE  MatchInv'
  BY <1>1, <1>2, CalmStep
<1>3. ASSUME RowFree' /\ InsertSucceeds', Quiet,
             \A x, p \in Clients : Held(x, p)' \subseteq Held(x, p)
      PROVE  MatchInv'
  BY <1>2, <1>3, QuietIsCalm
<1>4. CASE UNCHANGED vars
  <2>1. Quiet /\ RowFree' /\ InsertSucceeds'
    BY <1>4, QuietWire DEF vars, wire, store, RowFree, InsertSucceeds, Alive
  <2>2. \A x, p \in Clients : Held(x, p)' = Held(x, p)
    BY <1>4 DEF vars, store, Held
  <2> QED
    BY <1>3, <2>1, <2>2
<1>5. ASSUME NEW c \in Clients,
             \/ ChoosesJob(c) \/ NetThread(c) \/ AnswerAsserts(c) \/ AnswerFile(c)
             \/ Refresh(c) \/ RunFetchUsers(c) \/ RunProcessUsers(c)
             \/ RunSendFile(c) \/ RunReceiveFile(c) \/ EndFile(c)
      PROVE  MatchInv'
  <2>1. Quiet
    BY <1>1, <1>5, ChooseStep, NetThreadStep, FileStep, DeleteStep, FetchUsersStep, ProcessUsersStep, AbortStep
       DEF AnswerAsserts, Asserts
  <2> QED
    BY <1>1, <1>3, <1>5, <2>1, OtherSteps, OnwardRows
<1>6. ASSUME NEW c \in Clients,
             RunStart(c) \/ RunReply(c) \/ AnswerDecline(c) \/ Abandon(c) \/ Return(c) \/ RunDelete(c)
      PROVE  MatchInv'
  <2>1. Quiet
    BY <1>1, <1>6, StartStep, ReplyStep, GiveUpStep, ReturnStep, DeleteStep DEF SetUpInv
  <2> QED
    BY <1>1, <1>3, <1>6, <2>1, StartKeepsMatch, ForgetKeepsMatch, GiveUpKeepsMatch, ReturnKeepsMatch
<1>7. ASSUME NEW c \in Clients,
             \/ AnswerAccept(c) \/ InviterGetsKeys(c) \/ InviterGetsHeaders(c)
             \/ InviteeGetsKeysDone(c) \/ InviteeGetsHeadersDone(c)
      PROVE  MatchInv'
  BY <1>1, <1>2, <1>7, AcceptKeepsMatch, InviterKeysKeepMatch, InviteeKeysKeepMatch,
     InviterHeadersKeepMatch, InviteeHeadersKeepMatch
<1> QED
  BY <1>4, <1>5, <1>6, <1>7 DEF Next, Rest, Answer, AsyncThread

(* The invariant that holds what two users have of one another together    *)
(* with the stage of the set-up between them.                              *)
THEOREM MatchInvHolds == Spec => []MatchInv
<1> QED
  BY InitMatchInv, MatchStep, PTL DEF Spec

(* The conversations two users have stored with one another are the same,  *)
(* for replyToConversationSetUpInvite forgets the one it has before it     *)
(* answers, and set-up makes the inviter's streams before the invitee's.   *)
THEOREM ConversationsAlwaysMatch == Spec => []ConversationsMatch
<1>1. MatchInv => ConversationsMatch
  <2> SUFFICES ASSUME MatchInv, NEW c \in Clients, NEW p \in Clients,
                      conversations[c][p] # None, conversations[p][c] # None
               PROVE  conversations[c][p] = conversations[p][c]
    BY DEF ConversationsMatch
  <2>1. conversations[c][p] \in Held(c, p) /\ conversations[p][c] \in Held(p, c)
    BY DEF Held
  <2> QED
    BY <2>1 DEF MatchInv, HeldMatch
<1> QED
  BY <1>1, MatchInvHolds, PTL

(* databaseAddConversation's insertion never meets a row: startConversation *)
(* and replyToConversationSetUpInvite see to that before they wait.         *)
THEOREM InsertionsSucceed == Spec => []InsertSucceeds
<1>1. MatchInv => InsertSucceeds
  BY DEF MatchInv
<1> QED
  BY <1>1, MatchInvHolds, PTL
=============================================================================
