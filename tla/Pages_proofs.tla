---------------------------- MODULE Pages_proofs -----------------------------
(***************************************************************************)
(* Proofs about Pages, for any number of other users and of acts, and      *)
(* about the sizes of the texts they write (Sizes).                        *)
(***************************************************************************)
EXTENDS Pages, FiniteSetTheorems, TLAPS

-----------------------------------------------------------------------------
(* Sequences.                                                              *)

LEMMA OneLess ==
  ASSUME NEW S, NEW q \in Seq(S), q # <<>>
  PROVE  /\ Len(q) \in Nat \ {0} /\ DOMAIN q = 1..Len(q) /\ 1 \in DOMAIN q
         /\ Head(q) = q[1] /\ Head(q) \in S
         /\ Tail(q) \in Seq(S) /\ Len(Tail(q)) = Len(q) - 1
         /\ DOMAIN Tail(q) = 1 .. Len(q) - 1
         /\ \A i \in DOMAIN Tail(q) : i + 1 \in DOMAIN q /\ Tail(q)[i] = q[i + 1]
  OBVIOUS

LEMMA OneMore ==
  ASSUME NEW S, NEW q \in Seq(S), NEW e \in S
  PROVE  /\ Append(q, e) \in Seq(S) /\ Len(Append(q, e)) = Len(q) + 1 /\ Len(q) \in Nat
         /\ DOMAIN q = 1 .. Len(q) /\ DOMAIN Append(q, e) = 1 .. Len(q) + 1
         /\ \A i \in DOMAIN q : Append(q, e)[i] = q[i]
         /\ Append(q, e)[Len(q) + 1] = e
         /\ Append(q, e) # <<>>
  OBVIOUS

LEMMA Joined ==
  ASSUME NEW S, NEW q \in Seq(S), NEW r \in Seq(S)
  PROVE  q \o r \in Seq(S)
  OBVIOUS

LEMMA NothingIn ==
  ASSUME NEW S
  PROVE  <<>> \in Seq(S) /\ DOMAIN <<>> = {} /\ Len(<<>>) = 0
  OBVIOUS

LEMMA ElementsOf ==
  ASSUME NEW S, NEW q \in Seq(S), NEW i \in DOMAIN q
  PROVE  q[i] \in S /\ i \in 1 .. Len(q)
  OBVIOUS

LEMMA MappedSequence ==
  ASSUME NEW S, NEW n \in Nat, NEW f, DOMAIN f = 1 .. n, f = [i \in 1 .. n |-> f[i]],
         \A i \in 1 .. n : f[i] \in S
  PROVE  f \in Seq(S) /\ Len(f) = n
  OBVIOUS

-----------------------------------------------------------------------------
(* Sizes: which texts go through from the page they are written on to the  *)
(* one they are read on.                                                   *)

LEMMA Limits ==
  /\ MaxMessageBodySize = 160
  /\ maxUnencryptedMessageBodySize = 143
  /\ MaxMessagePlainPayloadSize = 136
BY DEF MaxMessageBodySize, MaxMessageSize, MessageHeadSize, TokenSize, IntSize, LongSize,
       maxUnencryptedMessageBodySize, EncryptedSize, MaxMessagePlainPayloadSize, PaddingBlockSize

(* Padding takes 1 to 8 bytes, up to whole blocks. *)
LEMMA Padding ==
  ASSUME NEW n \in Nat
  PROVE  /\ PaddedSize(n) \in Nat
         /\ PaddedSize(n) % 8 = 0
         /\ n + 1 <= PaddedSize(n) /\ PaddedSize(n) <= n + 8
BY DEF PaddedSize, PaddingBlockSize

(* A text shorter than the longest fits a message, whatever its length     *)
(* (logic.c:1123), and what the message carries is accepted and unpadded   *)
(* where it arrives (logic.c:168).                                         *)
THEOREM ShorterTextsGoThrough ==
  \A n \in 1 .. MaxMessagePlainPayloadSize - 1 :
    Fits(n) /\ Acceptable(EncryptedSize(PaddedSize(n)))
<1> TAKE n \in 1 .. MaxMessagePlainPayloadSize - 1
<1>1. n \in Nat /\ n <= 135
  BY Limits
<1>2. PaddedSize(n) \in Nat /\ PaddedSize(n) % 8 = 0 /\ PaddedSize(n) > 0
  BY <1>1, Padding
<1>3. PaddedSize(n) <= 136
  BY <1>1 DEF PaddedSize, PaddingBlockSize
<1>4. Fits(n)
  BY <1>2, <1>3, Limits DEF Fits, EncryptedSize
<1>5. EncryptedSize(PaddedSize(n)) - EncryptedSize(0) = PaddedSize(n)
  BY <1>2 DEF EncryptedSize
<1>6. Acceptable(EncryptedSize(PaddedSize(n)))
  BY <1>2, <1>3, <1>5, Limits DEF Acceptable, PaddingBlockSize
<1>7. QED
  BY <1>4, <1>6

(* The longest text that logicMaxMessagePlainPayloadSize allows is the one *)
(* that does not: sendMessage's assertion fails on it (logic.c:1123).      *)
THEOREM LongestTextDoesNotFit == ~Fits(MaxMessagePlainPayloadSize)
<1>1. PaddedSize(136) = 144
  BY DEF PaddedSize, PaddingBlockSize
<1>2. QED
  BY <1>1, Limits DEF Fits, EncryptedSize

-----------------------------------------------------------------------------
(* The type invariant in parts; the messages of the database are besides   *)
(* finitely many, so that they can be put in order.                        *)

ViewOK ==
  /\ page \in Drawings /\ blocked \in BOOLEAN
  /\ named \in Peers \cup {NoUser} /\ toUserId \in Peers \cup {NoUser}
FrameOK ==
  /\ ui \in Drawings \cup {"idle", "look", "text", "path"} /\ pressed \in BOOLEAN
  /\ size \in Nat /\ row \in Nat /\ row <= size
UsersOK ==
  /\ usersList \in Seq(UserRows)
  /\ \A i \in DOMAIN usersList : usersList[i].id = Registered[i]
MessagesOK == messagesList \in Seq(Entries)
DbOK ==
  /\ db \in [conversations : SUBSET ConversationRows, messages : SUBSET MessageRows]
  /\ \A m \in db.messages : conversationExists(db, m.conversation) /\ m.timestamp <= now + 1
  /\ IsFiniteSet(db.messages)
JobsOK == jobs \in Seq(Jobs) /\ \A i \in DOMAIN jobs : IsJob(jobs[i])
StateOK ==
  /\ at \in Steps /\ asked \in BOOLEAN /\ fetching \in {"no", "on", "last"}
  /\ left \subseteq 1..Len(Registered) /\ ignoring \in BOOLEAN /\ now \in Nat
PastOK == acts \in 0..MaxActs /\ sent \subseteq Sent /\ causes \subseteq Causes
EndOK == failed \in Ends

Parts ==
  /\ ViewOK /\ FrameOK /\ UsersOK /\ MessagesOK /\ DbOK /\ JobsOK
  /\ StateOK /\ PastOK /\ EndOK

LEMMA TypesAre == Parts => TypeOK
  BY DEF TypeOK, Parts, ViewOK, FrameOK, UsersOK, MessagesOK, DbOK, JobsOK, StateOK, PastOK, EndOK

LEMMA Kept ==
  ASSUME Parts
  PROVE  /\ UNCHANGED <<page, blocked, named, toUserId>> => ViewOK'
         /\ UNCHANGED <<ui, pressed, size, row>> => FrameOK'
         /\ UNCHANGED usersList => UsersOK'
         /\ UNCHANGED messagesList => MessagesOK'
         /\ UNCHANGED <<db, now>> => DbOK'
         /\ UNCHANGED <<jobs, now>> => JobsOK'
         /\ UNCHANGED <<at, asked, fetching, left, ignoring, now>> => StateOK'
         /\ UNCHANGED <<acts, sent, causes>> => PastOK'
         /\ UNCHANGED failed => EndOK'
<1> USE DEF Parts
<1>1. UNCHANGED <<page, blocked, named, toUserId>> => ViewOK'
  BY DEF ViewOK
<1>2. UNCHANGED <<ui, pressed, size, row>> => FrameOK'
  BY DEF FrameOK
<1>3. UNCHANGED usersList => UsersOK'
  BY DEF UsersOK
<1>4. UNCHANGED messagesList => MessagesOK'
  BY DEF MessagesOK
<1>5. UNCHANGED <<db, now>> => DbOK'
  BY DEF DbOK, conversationExists
<1>6. UNCHANGED <<jobs, now>> => JobsOK'
  BY DEF JobsOK, IsJob
<1>7. UNCHANGED <<at, asked, fetching, left, ignoring, now>> => StateOK'
  BY DEF StateOK
<1>8. UNCHANGED <<acts, sent, causes>> => PastOK'
  BY DEF PastOK
<1>9. UNCHANGED failed => EndOK'
  BY DEF EndOK
<1> QED
  BY <1>1, <1>2, <1>3, <1>4, <1>5, <1>6, <1>7, <1>8, <1>9

LEMMA AllKept ==
  ASSUME Parts, UNCHANGED vars
  PROVE  Parts'
  BY Kept DEF vars, view, frame, lists, thread, net, past, Parts

LEMMA AbortTypes ==
  ASSUME Parts, NEW what \in Ends, Abort(what)
  PROVE  Parts'
  BY Kept DEF Abort, view, frame, lists, thread, net, past, Parts, EndOK

(* The jobs, of which the first one runs. *)
LEMMA RunsType ==
  ASSUME Parts, jobs # <<>>
  PROVE  /\ cur \in Jobs /\ IsJob(cur) /\ cur = jobs[1] /\ 1 \in DOMAIN jobs
         /\ Tail(jobs) \in Seq(Jobs) /\ \A i \in DOMAIN Tail(jobs) : IsJob(Tail(jobs)[i])
  BY OneLess DEF Parts, JobsOK, cur

LEMMA JobFields ==
  ASSUME NEW j \in Jobs
  PROVE  /\ j.op \in Ops /\ j.user \in Peers \cup {NoUser} /\ j.text \in 0..MaxActs
         /\ j.size \in TextSizes \cup {0} /\ j.time \in Nat
         /\ j.sealed \in Peers \cup {NoUser} /\ j.freed \in BOOLEAN
  BY DEF Jobs

LEMMA NewJob ==
  ASSUME Parts, NEW u \in Peers \cup {NoUser}, NEW text \in 0..MaxActs, NEW op \in Ops
  PROVE  /\ Job(op, u, text) \in Jobs
         /\ Job(op, u, text).op = op /\ Job(op, u, text).user = u /\ Job(op, u, text).text = text
         /\ Job(op, u, text).time = 0
         /\ \A n \in TextSizes : LET j == [Job(op, u, text) EXCEPT !.size = n] IN
              j \in Jobs /\ j.op = op /\ j.user = u /\ j.text = text /\ j.time = 0
         /\ \A t \in Nat : LET j == [Job(op, u, text) EXCEPT !.time = t] IN
              j \in Jobs /\ j.op = op /\ j.user = u /\ j.text = text /\ j.time = t
  BY DEF Job, Jobs

(* Time goes on. *)
LEMMA LaterJobs ==
  ASSUME Parts, now' \in Nat, now <= now', NEW j \in Jobs, IsJob(j)
  PROVE  IsJob(j)'
  BY DEF Parts, StateOK, IsJob, Jobs

LEMMA PushTypes ==
  ASSUME Parts, now' \in Nat, now <= now', NEW q \in Seq(Jobs), \A i \in DOMAIN q : IsJob(q[i]),
         NEW j \in Jobs, IsJob(j)', jobs' = Append(q, j)
  PROVE  JobsOK'
<1>1. Append(q, j) \in Seq(Jobs)
  BY OneMore
<1>2. ASSUME NEW i \in DOMAIN Append(q, j) PROVE IsJob(Append(q, j)[i])'
  <2>1. CASE i \in DOMAIN q
    BY <2>1, OneMore, ElementsOf, LaterJobs
  <2>2. CASE i = Len(q) + 1
    BY <2>2, OneMore
  <2> QED
    BY <2>1, <2>2, <1>2, OneMore
<1> QED
  BY <1>1, <1>2 DEF JobsOK

LEMMA FreedTypes ==
  ASSUME Parts
  PROVE  LET q == [i \in DOMAIN jobs |-> Freed(jobs[i])] IN
         /\ q \in Seq(Jobs) /\ DOMAIN q = DOMAIN jobs /\ Len(q) = Len(jobs)
         /\ \A i \in DOMAIN q :
              /\ IsJob(q[i])
              /\ q[i].op = jobs[i].op /\ q[i].user = jobs[i].user /\ q[i].text = jobs[i].text
              /\ q[i].sealed = jobs[i].sealed
<1> DEFINE q == [i \in DOMAIN jobs |-> Freed(jobs[i])]
<1>1. jobs \in Seq(Jobs) /\ DOMAIN jobs = 1 .. Len(jobs) /\ Len(jobs) \in Nat
  BY DEF Parts, JobsOK
<1>2. ASSUME NEW j \in Jobs
      PROVE  /\ Freed(j) \in Jobs
             /\ IsJob(j) => IsJob(Freed(j))
             /\ Freed(j).op = j.op /\ Freed(j).user = j.user /\ Freed(j).text = j.text
             /\ Freed(j).sealed = j.sealed
  BY DEF Freed, Jobs, IsJob
<1>3. \A i \in DOMAIN jobs : jobs[i] \in Jobs /\ IsJob(jobs[i]) /\ q[i] = Freed(jobs[i])
  BY <1>1, ElementsOf DEF Parts, JobsOK
<1>4. q \in Seq(Jobs) /\ Len(q) = Len(jobs)
  BY <1>1, <1>2, <1>3, MappedSequence
<1> QED
  BY <1>1, <1>2, <1>3, <1>4

LEMMA PushKeeps ==
  ASSUME Parts, NEW j \in Jobs, IsJob(j)', Push(j), now' \in Nat, now <= now'
  PROVE  JobsOK'
  BY PushTypes DEF Push, Parts, JobsOK

LEMMA TailKeeps ==
  ASSUME Parts, jobs # <<>>, jobs' = Tail(jobs), now' = now
  PROVE  JobsOK'
  BY RunsType DEF JobsOK, IsJob

LEMMA FreedKeeps ==
  ASSUME Parts, jobs' = [i \in DOMAIN jobs |-> Freed(jobs[i])], now' = now
  PROVE  JobsOK'
  BY FreedTypes DEF JobsOK, IsJob

LEMMA ActsTypes ==
  ASSUME Parts, NEW why \in SUBSET Causes, Acts(why)
  PROVE  /\ acts' \in 0..MaxActs /\ causes' \subseteq Causes
         /\ acts + 1 \in 1..MaxActs /\ acts' = acts + 1
         /\ UNCHANGED sent => PastOK'
  BY ActsAssumption DEF Parts, PastOK, Acts

LEMMA Reasons ==
  /\ \A others : Early(others) \subseteq Causes
  /\ \A u : Overtaken(u) \subseteq Causes
  /\ \A t, when : Untimely(t, when) \subseteq Causes
  BY DEF Early, Overtaken, Untimely, Causes

LEMMA FinishTypes ==
  ASSUME Parts, jobs # <<>>, Finish, UNCHANGED <<page, named, toUserId, asked, fetching, left, ignoring, now, acts, sent>>
  PROVE  ViewOK' /\ JobsOK' /\ StateOK' /\ PastOK'
<1>1. ViewOK'
  BY DEF Finish, Parts, ViewOK
<1>2. JobsOK'
  BY TailKeeps DEF Finish, Done
<1>3. StateOK'
  BY DEF Finish, Done, Parts, StateOK, Steps
<1>4. PastOK'
  BY Reasons DEF Finish, Parts, PastOK
<1> QED
  BY <1>1, <1>2, <1>3, <1>4

LEMMA EmptyUsers ==
  ASSUME usersList' = <<>>
  PROVE  UsersOK'
  BY NothingIn DEF UsersOK

LEMMA EmptyMessages ==
  ASSUME messagesList' = <<>>
  PROVE  MessagesOK'
  BY NothingIn DEF MessagesOK

LEMMA EntryTypes ==
  ASSUME Parts, NEW from \in Peers \cup {Me}, NEW text \in 1..MaxActs, AddFront(Entry(from, text))
  PROVE  MessagesOK'
<1>1. <<Entry(from, text)>> \in Seq(Entries)
  BY DEF Entry, Entries
<1> QED
  BY <1>1, Joined DEF AddFront, MessagesOK, Parts

(* The rows of the users list are the first ones that are registered. *)
LEMMA RowTypes ==
  ASSUME Parts, NEW i \in DOMAIN usersList
  PROVE  usersList[i] \in UserRows /\ usersList[i].id \in Peers
         /\ usersList[i].exists \in BOOLEAN
<1>1. usersList[i] \in UserRows
  BY ElementsOf DEF Parts, UsersOK
<1>2. \A r \in UserRows : r.id \in Peers /\ r.exists \in BOOLEAN
  BY DEF UserRows
<1> QED
  BY <1>1, <1>2

LEMMA HitTypes ==
  ASSUME Parts, NEW shown, HitOn(shown), size' \in Nat, row <= size'
  PROVE  FrameOK' /\ EndOK'
  BY DEF HitOn, Parts, FrameOK, EndOK

LEMMA HitRowTypes ==
  ASSUME Parts, HitRow
  PROVE  FrameOK' /\ EndOK' /\ row + 1 \in DOMAIN usersList
<1>1. FrameOK' /\ EndOK'
  BY HitTypes DEF HitRow, Parts, FrameOK
<1>2. row + 1 \in DOMAIN usersList
  BY DEF HitRow, Parts, FrameOK, UsersOK
<1> QED
  BY <1>1, <1>2

LEMMA HitBelowTypes ==
  ASSUME Parts, NEW shown, HitBelow(shown)
  PROVE  FrameOK' /\ EndOK'
  BY HitTypes DEF HitBelow, Parts, FrameOK

-----------------------------------------------------------------------------
(* The UI thread keeps the types.                                          *)

LEMMA DrawingTypes ==
  ASSUME Parts, Press \/ BeginDraw \/ DrawRow \/ EndDraw
  PROVE  Parts'
<1> USE DEF view, frame, lists, thread, net, past
<1>1. CASE Press
  <2>1. FrameOK'
    BY <1>1 DEF Press, Parts, FrameOK
  <2> QED
    BY <1>1, <2>1, Kept DEF Press, Parts
<1>2. CASE BeginDraw
  <2>1. Len(ListOf(page)) \in Nat
    <3>1. Len(usersList) \in Nat /\ Len(messagesList) \in Nat /\ Len(<<>>) \in Nat
      BY DEF Parts, UsersOK, MessagesOK
    <3> QED
      BY <3>1 DEF Parts, ViewOK, Drawings, ListOf
  <2>2. FrameOK'
    BY <1>2, <2>1 DEF BeginDraw, Parts, ViewOK, FrameOK
  <2> QED
    BY <1>2, <2>2, Kept DEF BeginDraw, Parts
<1>3. CASE DrawRow
  <2>1. CASE Abort("get") \/ Abort("outside")
    BY <2>1, AbortTypes DEF Ends
  <2>2. CASE ~(Abort("get") \/ Abort("outside"))
    <3>1. FrameOK'
      BY <1>3, <2>2 DEF DrawRow, Parts, FrameOK
    <3> QED
      BY <1>3, <2>2, <3>1, Kept DEF DrawRow, Parts
  <2> QED
    BY <2>1, <2>2
<1>4. CASE EndDraw
  <2>1. ui' = "idle" /\ size' = 0 /\ row' = 0 /\ pressed' \in BOOLEAN
    BY <1>4 DEF EndDraw
  <2>2. 0 \in Nat /\ 0 <= 0
    OBVIOUS
  <2>3. FrameOK'
    BY <2>1, <2>2 DEF FrameOK
  <2> QED
    BY <1>4, <2>3, Kept DEF EndDraw, Parts
<1> QED
  BY <1>1, <1>2, <1>3, <1>4

LEMMA ChooseTypes ==
  ASSUME Parts, NEW op \in {"continue", "delete", "start"}, NEW why \in SUBSET Causes, Choose(op, why)
  PROVE  Parts'
<1> USE DEF view, frame, lists, thread, net, past
<1>1. HitRow
  BY DEF Choose
<1>2. FrameOK' /\ EndOK' /\ row + 1 \in DOMAIN usersList
  BY <1>1, HitRowTypes
<1>3. PICK u \in Peers : u = usersList[row + 1].id
  BY <1>2, RowTypes
<1>4. /\ Acts(why \cup Overtaken(u)) /\ Chooses(u) /\ messagesList' = <<>> /\ Push(Job(op, u, 0))
      /\ blocked' = TRUE /\ UNCHANGED <<page, named, usersList, db, at, net, now, sent>>
  BY <1>3 DEF Choose
<1>5. toUserId' = u
  BY <1>4 DEF Chooses, Chosen
<1>6. ViewOK'
  BY <1>3, <1>4, <1>5 DEF Parts, ViewOK
<1>7. PastOK'
  BY <1>4, ActsTypes, Reasons
<1>8. JobsOK'
  <2>1. now \in Nat /\ now' = now /\ 0 \in 0..MaxActs
    BY <1>4, ActsAssumption DEF Parts, StateOK
  <2>2. Job(op, u, 0) \in Jobs /\ Job(op, u, 0).op = op /\ Job(op, u, 0).user = u /\ Job(op, u, 0).time = 0
    BY <1>3, <2>1, NewJob DEF Ops
  <2>3. IsJob(Job(op, u, 0))'
    BY <1>3, <2>1, <2>2 DEF IsJob
  <2> QED
    BY <1>4, <2>1, <2>2, <2>3, PushKeeps
<1>9. MessagesOK'
  BY <1>4, EmptyMessages
<1> QED
  BY <1>2, <1>4, <1>6, <1>7, <1>8, <1>9, Kept DEF Parts

LEMMA PlainJob ==
  ASSUME Parts, NEW op \in {"fetch", "users"}, now' \in Nat
  PROVE  /\ Job(op, NoUser, 0) \in Jobs
         /\ IsJob(Job(op, NoUser, 0)) /\ IsJob(Job(op, NoUser, 0))'
<1>1. 0 \in 0..MaxActs /\ now \in Nat
  BY ActsAssumption DEF Parts, StateOK
<1>2. /\ Job(op, NoUser, 0) \in Jobs /\ Job(op, NoUser, 0).op = op
      /\ Job(op, NoUser, 0).time = 0
  BY <1>1, NewJob DEF Ops
<1> QED
  BY <1>1, <1>2 DEF IsJob

LEMMA ClickTypes ==
  ASSUME Parts, ChooseOffline \/ ClickUpdate \/ ClickBack \/ ClickFile \/ ClickNoFile
  PROVE  Parts'
<1> USE DEF view, frame, lists, thread, net, past
<1>1. CASE ChooseOffline
  <2>1. FrameOK' /\ EndOK' /\ row + 1 \in DOMAIN usersList
    BY <1>1, HitRowTypes DEF ChooseOffline
  <2>2. PICK u \in Peers : u = usersList[row + 1].id
    BY <2>1, RowTypes
  <2>3. /\ Acts(Overtaken(u)) /\ toUserId' = u /\ messagesList' = <<>>
        /\ UNCHANGED <<page, named, blocked, usersList, db, jobs, at, asked, fetching, left, ignoring, now, sent>>
    BY <1>1, <2>2 DEF ChooseOffline, Chooses, Chosen
  <2>4. ViewOK'
    BY <2>3 DEF Parts, ViewOK
  <2>5. PastOK'
    BY <2>3, ActsTypes, Reasons
  <2> QED
    BY <2>1, <2>3, <2>4, <2>5, EmptyMessages, Kept DEF Parts
<1>2. CASE ClickUpdate
  <2>1. CASE Abort("fetchers")
    BY <2>1, AbortTypes DEF Ends
  <2>2. CASE ~Abort("fetchers")
    <3>1. /\ HitOn("users") /\ row = 0 /\ size' = 0 /\ Acts({"update"}) /\ blocked' = TRUE
          /\ usersList' = <<>>
          /\ jobs' = Append([i \in DOMAIN jobs |-> Freed(jobs[i])], Job("fetch", NoUser, 0))
          /\ UNCHANGED <<page, named, messagesList, toUserId, db, at, asked, fetching, left, ignoring, now, sent>>
      BY <1>2, <2>2 DEF ClickUpdate
    <3>2. FrameOK' /\ EndOK'
      BY <3>1, HitTypes
    <3>3. ViewOK'
      BY <3>1 DEF Parts, ViewOK
    <3>4. PastOK'
      BY <3>1, ActsTypes DEF Causes
    <3>5. JobsOK'
      <4>1. now \in Nat /\ now' = now
        BY <3>1 DEF Parts, StateOK
      <4>2. Job("fetch", NoUser, 0) \in Jobs /\ IsJob(Job("fetch", NoUser, 0))'
        BY <4>1, PlainJob
      <4> QED
        BY <3>1, <4>1, <4>2, FreedTypes, PushTypes
    <3> QED
      BY <3>1, <3>2, <3>3, <3>4, <3>5, EmptyUsers, Kept DEF Parts
  <2> QED
    BY <2>1, <2>2
<1>3. CASE ClickBack
  <2>1. FrameOK' /\ EndOK'
    BY <1>3, HitTypes DEF ClickBack, Parts, FrameOK
  <2>2. ViewOK'
    BY <1>3 DEF ClickBack, Parts, ViewOK, Drawings
  <2> QED
    BY <1>3, <2>1, <2>2, Kept DEF ClickBack, Parts
<1>4. CASE ClickFile
  <2>1. FrameOK' /\ EndOK'
    BY <1>4, HitBelowTypes DEF ClickFile
  <2>2. ViewOK'
    BY <1>4 DEF ClickFile, Parts, ViewOK, Drawings
  <2> QED
    BY <1>4, <2>1, <2>2, Kept DEF ClickFile, Parts
<1>5. CASE ClickNoFile
  <2>1. CASE Abort("search")
    BY <2>1, AbortTypes DEF Ends
  <2>2. CASE ~Abort("search")
    <3>1. /\ HitBelow("chooser") /\ page' = "conversation" /\ named' = toUserId /\ blocked' = FALSE
          /\ causes' = causes \cup Early(Pending)
          /\ UNCHANGED <<usersList, messagesList, toUserId, db, jobs, at, asked, fetching, left, ignoring, now, acts, sent>>
      BY <1>5, <2>2 DEF ClickNoFile
    <3>2. FrameOK' /\ EndOK'
      BY <3>1, HitBelowTypes
    <3>3. ViewOK'
      BY <3>1 DEF Parts, ViewOK, Drawings
    <3>4. PastOK'
      BY <3>1, Reasons DEF Parts, PastOK
    <3> QED
      BY <3>1, <3>2, <3>3, <3>4, Kept DEF Parts
  <2> QED
    BY <2>1, <2>2
<1> QED
  BY <1>1, <1>2, <1>3, <1>4, <1>5

LEMMA ClickSendTypes ==
  ASSUME Parts, ClickSend
  PROVE  Parts'
<1> USE DEF view, frame, lists, thread, net, past
<1>1. FrameOK' /\ EndOK'
  BY HitBelowTypes DEF ClickSend
<1>2. PICK n \in TextSizes :
        /\ Acts(IF n = MaxMessagePlainPayloadSize THEN {"longest"} ELSE {})
        /\ Push([Job("send", named, acts + 1) EXCEPT !.size = n])
  BY DEF ClickSend
<1>3. (IF n = MaxMessagePlainPayloadSize THEN {"longest"} ELSE {}) \in SUBSET Causes
  BY DEF Causes
<1>4. acts + 1 \in 1..MaxActs /\ (UNCHANGED sent => PastOK')
  BY <1>2, <1>3, ActsTypes
<1>5. /\ AddFront(Entry(Me, acts + 1))
      /\ UNCHANGED <<page, named, blocked, usersList, toUserId, db, at, asked, fetching, left, ignoring, now, sent>>
  BY DEF ClickSend
<1>6. MessagesOK'
  BY <1>4, <1>5, EntryTypes
<1>7. JobsOK'
  <2>1. PICK j : j = [Job("send", named, acts + 1) EXCEPT !.size = n]
    OBVIOUS
  <2>2. named \in Peers \cup {NoUser} /\ acts + 1 \in 0..MaxActs /\ acts + 1 # 0
    BY <1>4, ActsAssumption DEF Parts, ViewOK
  <2>3. j \in Jobs /\ j.op = "send" /\ j.text = acts + 1 /\ j.time = 0
    BY <2>1, <2>2, NewJob DEF Ops
  <2>4. now \in Nat /\ now' = now
    BY <1>5 DEF Parts, StateOK
  <2>5. IsJob(j)'
    BY <2>2, <2>3, <2>4 DEF IsJob
  <2> QED
    BY <1>2, <2>1, <2>3, <2>4, <2>5, PushKeeps
<1> QED
  BY <1>1, <1>4, <1>5, <1>6, <1>7, Kept DEF Parts

LEMMA PasteTypes ==
  ASSUME Parts, PasteLooks \/ PasteChooses \/ PasteAlters
  PROVE  Parts'
<1> USE DEF view, frame, lists, thread, net, past
<1>1. CASE PasteLooks
  <2>1. FrameOK'
    BY <1>1 DEF PasteLooks, Parts, FrameOK
  <2>2. PastOK'
    BY <1>1, ActsTypes DEF PasteLooks
  <2> QED
    BY <1>1, <2>1, <2>2, Kept DEF PasteLooks, Parts
<1>2. CASE PasteChooses
  <2>1. FrameOK'
    BY <1>2 DEF PasteChooses, Parts, FrameOK
  <2> QED
    BY <1>2, <2>1, Kept DEF PasteChooses, Parts
<1>3. CASE PasteAlters
  <2>1. CASE Abort("paste")
    BY <2>1, AbortTypes DEF Ends
  <2>2. CASE ~Abort("paste")
    <3>1. FrameOK'
      BY <1>3, <2>2 DEF PasteAlters, Parts, FrameOK
    <3> QED
      BY <1>3, <2>2, <3>1, Kept DEF PasteAlters, Parts
  <2> QED
    BY <2>1, <2>2
<1> QED
  BY <1>1, <1>2, <1>3

LEMMA UITypes ==
  ASSUME Parts, UIThread
  PROVE  Parts'
<1>1. CASE ChooseContinue
  BY <1>1, ChooseTypes DEF ChooseContinue
<1>2. CASE ChooseDelete
  BY <1>2, ChooseTypes DEF ChooseDelete, Causes
<1>3. CASE ChooseStart
  BY <1>3, ChooseTypes DEF ChooseStart, Causes
<1> QED
  BY <1>1, <1>2, <1>3, DrawingTypes, ClickTypes, ClickSendTypes, PasteTypes DEF UIThread, Clicks

-----------------------------------------------------------------------------
(* The database.                                                           *)

LEMMA RowFields ==
  /\ \A c \in ConversationRows : c.user \in Peers /\ c.streams \in Peers
  /\ \A m \in MessageRows :
       /\ m.timestamp \in Nat /\ m.conversation \in Peers
       /\ m.from \in Peers \cup {Me} /\ m.text \in 1..MaxActs
  BY DEF ConversationRows, MessageRows

LEMMA DbFields ==
  ASSUME Parts
  PROVE  /\ db.conversations \subseteq ConversationRows /\ db.messages \subseteq MessageRows
         /\ db = [conversations |-> db.conversations, messages |-> db.messages]
         /\ IsFiniteSet(db.messages) /\ now \in Nat
         /\ \A m \in db.messages : conversationExists(db, m.conversation) /\ m.timestamp <= now + 1
  BY DEF Parts, DbOK, StateOK

(* Whoever has a conversation is another user. *)
LEMMA ExistsForPeers ==
  ASSUME Parts, NEW u, conversationExists(db, u)
  PROVE  u \in Peers
  BY DbFields, RowFields DEF conversationExists

LEMMA RowFound ==
  ASSUME Parts, NEW u, conversationExists(db, u)
  PROVE  RowOf(db, u) \in db.conversations /\ RowOf(db, u).user = u
         /\ getConversation(db, u) \in Peers
  BY DbFields, RowFields DEF conversationExists, RowOf, getConversation

LEMMA AddMessageTypes ==
  ASSUME Parts, NEW m \in MessageRows, MayAddMessage(db, m), db' = addMessage(db, m),
         now' \in Nat, now <= now', m.timestamp <= now' + 1
  PROVE  DbOK'
<1>1. db' = [conversations |-> db.conversations, messages |-> db.messages \cup {m}]
  BY DbFields DEF addMessage
<1>2. IsFiniteSet(db'.messages)
  BY <1>1, DbFields, FS_AddElement
<1>3. db' \in [conversations : SUBSET ConversationRows, messages : SUBSET MessageRows]
  BY <1>1, DbFields
<1>4. ASSUME NEW n \in db'.messages
      PROVE  conversationExists(db', n.conversation) /\ n.timestamp <= now' + 1
  <2>1. CASE n \in db.messages
    <3>1. conversationExists(db, n.conversation) /\ n.timestamp <= now + 1 /\ n.timestamp \in Nat
      BY <2>1, DbFields, RowFields
    <3>2. conversationExists(db', n.conversation)
      BY <1>1, <3>1 DEF conversationExists
    <3>3. now \in Nat
      BY DbFields
    <3> QED
      BY <3>1, <3>2, <3>3
  <2>2. CASE n = m
    BY <1>1, <2>2 DEF MayAddMessage, HasConversation, ForeignKey, conversationExists
  <2> QED
    BY <1>1, <1>4, <2>1, <2>2
<1> QED
  BY <1>2, <1>3, <1>4 DEF DbOK

LEMMA AddConversationTypes ==
  ASSUME Parts, NEW u \in Peers, db' = addConversation(db, u, u), now' = now
  PROVE  DbOK'
<1>1. db' = [conversations |-> db.conversations \cup {Conversation(u, u)}, messages |-> db.messages]
  BY DbFields DEF addConversation
<1>2. db' \in [conversations : SUBSET ConversationRows, messages : SUBSET MessageRows]
  BY <1>1, DbFields DEF Conversation, ConversationRows
<1>3. \A n \in db'.messages : conversationExists(db', n.conversation) /\ n.timestamp <= now' + 1
  BY <1>1, DbFields DEF conversationExists
<1>4. IsFiniteSet(db'.messages)
  BY <1>1, DbFields
<1> QED
  BY <1>2, <1>3, <1>4 DEF DbOK

LEMMA RemovedIs ==
  ASSUME Parts, NEW u
  PROVE  Removed(u) = [conversations |-> {c \in db.conversations : c.user # u},
                       messages |-> {m \in db.messages : m.conversation # u}]
<1> DEFINE some == [conversations |-> {c \in db.conversations : c.user # u},
                    messages |-> {m \in db.messages : m.conversation # u}]
<1>1. removeConversation(db, u) = some
  BY DEF removeConversation, Cascade, OfUser
<1>2. removeMessages(some, u) = some
  BY DEF removeMessages, OfUser
<1> QED
  BY <1>1, <1>2 DEF Removed

LEMMA RemovedTypes ==
  ASSUME Parts, NEW u, db' = Removed(u), now' = now
  PROVE  DbOK'
<1>1. db' = [conversations |-> {c \in db.conversations : c.user # u},
             messages |-> {m \in db.messages : m.conversation # u}]
  BY RemovedIs
<1>2. db' \in [conversations : SUBSET ConversationRows, messages : SUBSET MessageRows]
  BY <1>1, DbFields
<1>3. ASSUME NEW n \in db'.messages
      PROVE  conversationExists(db', n.conversation) /\ n.timestamp <= now' + 1
  <2>1. n \in db.messages /\ n.conversation # u
    BY <1>1, <1>3
  <2>2. PICK c \in db.conversations : c.user = n.conversation
    BY <2>1, DbFields DEF conversationExists
  <2>3. c \in db'.conversations
    BY <1>1, <2>1, <2>2
  <2> QED
    BY <2>1, <2>2, <2>3, DbFields DEF conversationExists
<1>4. db'.messages \subseteq db.messages /\ IsFiniteSet(db.messages)
  BY <1>1, DbFields
<1>5. IsFiniteSet(db'.messages)
  BY <1>4, FS_Subset
<1> QED
  BY <1>2, <1>3, <1>5 DEF DbOK

(* What is loaded: an order of the rows, each of which is an entry. *)
LEMMA LoadedTypes ==
  ASSUME Parts, NEW u, NEW previous \in Loaded(u)
  PROVE  previous \in Seq(Entries)
<1>1. PICK rows \in getMessages(db, u) :
        previous = [i \in DOMAIN rows |-> Entry(rows[i].from, rows[i].text)]
  BY DEF Loaded
<1>2. OfUser(db.messages, u) \subseteq db.messages /\ IsFiniteSet(db.messages)
  BY DbFields DEF OfUser
<1>3. IsFiniteSet(OfUser(db.messages, u))
  BY <1>2, FS_Subset
<1>4. PICK n \in Nat : n = Cardinality(OfUser(db.messages, u))
  BY <1>3, FS_CardinalityType
<1>5. rows \in [1..n -> OfUser(db.messages, u)]
  BY <1>1, <1>4 DEF getMessages, SetToSeqs
<1>6. DOMAIN previous = 1..n /\ \A i \in 1..n : previous[i] = Entry(rows[i].from, rows[i].text)
  BY <1>1, <1>5
<1>7. ASSUME NEW i \in 1..n PROVE previous[i] \in Entries
  <2>1. rows[i] \in MessageRows
    BY <1>2, <1>5, DbFields
  <2>2. rows[i].from \in Peers \cup {Me} /\ rows[i].text \in 1..MaxActs
    BY <2>1, RowFields
  <2> QED
    BY <1>6, <2>2 DEF Entry, Entries
<1>8. previous = [i \in 1..n |-> previous[i]]
  BY <1>1, <1>6
<1> QED
  BY <1>6, <1>7, <1>8, MappedSequence

-----------------------------------------------------------------------------
(* The async thread keeps the types.                                       *)

LEMMA DoneTypes ==
  ASSUME Parts, jobs # <<>>, Done, UNCHANGED <<asked, fetching, left, ignoring, now>>
  PROVE  JobsOK' /\ StateOK'
<1>1. JobsOK'
  BY TailKeeps DEF Done
<1>2. StateOK'
  BY DEF Done, Parts, StateOK, Steps
<1> QED
  BY <1>1, <1>2

LEMMA ToTypes ==
  ASSUME Parts, NEW step \in Steps, To(step), UNCHANGED <<asked, fetching, left, ignoring, now>>
  PROVE  JobsOK' /\ StateOK'
<1>1. JobsOK'
  BY Kept DEF To
<1>2. StateOK'
  BY DEF To, Parts, StateOK
<1> QED
  BY <1>1, <1>2

LEMMA SendTypes ==
  ASSUME Parts, SendStores \/ SendSeals \/ SendGoesOut
  PROVE  Parts'
<1> USE DEF view, frame, lists, thread, net, past
<1>1. jobs # <<>> /\ cur \in Jobs /\ IsJob(cur) /\ cur.op = "send"
  BY RunsType DEF SendStores, SendSeals, SendGoesOut, On, Runs
<1>2. cur.user \in Peers \cup {NoUser} /\ cur.text \in 1..MaxActs /\ cur.sealed \in Peers \cup {NoUser}
  BY <1>1, JobFields, ActsAssumption DEF IsJob
<1>3. CASE SendStores
  <2>1. CASE On("send", "first") /\ To("seal") /\ UNCHANGED <<view, lists, sent, causes>>
             /\ \E t \in Times : LET m == Message(t, toUserId, Me, cur.text) IN
                  MayAddMessage(db, m) /\ db' = addMessage(db, m) /\ now' = t
    <3>0. PICK t \in Times : LET m == Message(t, toUserId, Me, cur.text) IN
            MayAddMessage(db, m) /\ db' = addMessage(db, m) /\ now' = t
      BY <2>1
    <3>1. PICK m : /\ m = Message(t, toUserId, Me, cur.text)
                   /\ MayAddMessage(db, m) /\ db' = addMessage(db, m) /\ now' = t
      BY <3>0
    <3>2. now \in Nat /\ t \in Nat /\ now <= t /\ t <= t + 1
      BY DbFields DEF Times
    <3>3. toUserId \in Peers
      BY <3>1, ExistsForPeers DEF MayAddMessage, HasConversation, ForeignKey, Message
    <3>4. m \in MessageRows /\ m.timestamp = t
      BY <1>2, <3>1, <3>2, <3>3 DEF Message, MessageRows
    <3>5. DbOK'
      BY <3>1, <3>2, <3>4, AddMessageTypes
    <3>6. jobs \in Seq(Jobs) /\ (\A i \in DOMAIN jobs : jobs[i] \in Jobs /\ IsJob(jobs[i])) /\ jobs' = jobs
      BY <2>1, ElementsOf DEF To, Parts, JobsOK
    <3>7. JobsOK'
      BY <3>1, <3>2, <3>6, LaterJobs DEF JobsOK
    <3>8. StateOK'
      BY <2>1, <3>1, <3>2 DEF To, On, Parts, StateOK, Steps
    <3> QED
      BY <2>1, <3>5, <3>7, <3>8, Kept DEF On, Parts
  <2>2. CASE Abort("insert")
    BY <2>2, AbortTypes DEF Ends
  <2>3. CASE /\ failed' = "insert" /\ causes' = causes \cup {"sameTime"}
             /\ UNCHANGED <<view, frame, lists, db, thread, net, now, acts, sent>>
    <3>1. PastOK' /\ EndOK'
      BY <2>3 DEF Parts, PastOK, EndOK, Causes, Ends
    <3> QED
      BY <2>3, <3>1, Kept DEF Parts
  <2> QED
    BY <1>3, <2>1, <2>2, <2>3 DEF SendStores
<1>4. CASE SendSeals
  <2>1. CASE Abort("streams") \/ Abort("size")
    BY <2>1, AbortTypes DEF Ends
  <2>2. CASE ~(Abort("streams") \/ Abort("size"))
    <3>1. /\ conversationExists(db, toUserId) /\ jobs' = [jobs EXCEPT ![1].sealed = getConversation(db, toUserId)]
          /\ at' = "out" /\ UNCHANGED <<view, frame, lists, db, net, now, past, failed>>
      BY <1>4, <2>2 DEF SendSeals, On
    <3>2. PICK s \in Peers : s = getConversation(db, toUserId)
      BY <3>1, RowFound
    <3>3. jobs \in Seq(Jobs) /\ 1 \in DOMAIN jobs /\ cur = jobs[1]
      BY <1>1, RunsType DEF Parts, JobsOK
    <3>4. PICK j : j = [cur EXCEPT !.sealed = s]
      OBVIOUS
    <3>5. jobs' = [jobs EXCEPT ![1] = j]
      BY <3>1, <3>2, <3>3, <3>4
    <3>6. j \in Jobs /\ IsJob(j)
      BY <1>1, <3>2, <3>4 DEF Jobs, IsJob
    <3>7. jobs' \in Seq(Jobs) /\ DOMAIN jobs' = DOMAIN jobs
          /\ \A i \in DOMAIN jobs : jobs'[i] = IF i = 1 THEN j ELSE jobs[i]
      BY <3>3, <3>5, <3>6
    <3>8. JobsOK'
      <4>1. \A i \in DOMAIN jobs : IsJob(jobs[i])
        BY DEF Parts, JobsOK
      <4> QED
        BY <3>1, <3>6, <3>7, <4>1 DEF JobsOK, IsJob
    <3>9. StateOK'
      BY <3>1 DEF Parts, StateOK, Steps
    <3> QED
      BY <3>1, <3>8, <3>9, Kept DEF Parts
  <2> QED
    BY <2>1, <2>2
<1>5. CASE SendGoesOut
  <2>1. PICK s : s = [text |-> cur.text, shown |-> cur.user, sealed |-> cur.sealed, to |-> toUserId]
    OBVIOUS
  <2>2. s \in Sent
    BY <1>2, <2>1 DEF Sent, Parts, ViewOK
  <2>3. sent' = sent \cup {s} /\ Done /\ UNCHANGED <<view, lists, db, frame, net, now, acts, causes, failed>>
    BY <1>5, <2>1 DEF SendGoesOut, On
  <2>4. PastOK'
    BY <2>2, <2>3 DEF Parts, PastOK
  <2>5. JobsOK' /\ StateOK'
    BY <1>1, <2>3, DoneTypes
  <2> QED
    BY <2>3, <2>4, <2>5, Kept DEF Parts
<1> QED
  BY <1>3, <1>4, <1>5

LEMMA ReceiveTypes ==
  ASSUME Parts, Receive \/ ReceiveShows
  PROVE  Parts'
<1> USE DEF view, frame, lists, thread, net, past
<1>1. jobs # <<>> /\ cur \in Jobs /\ IsJob(cur) /\ cur.op = "receive"
  BY RunsType DEF Receive, ReceiveShows, On, Runs
<1>2. cur.user \in Peers /\ cur.text \in 1..MaxActs /\ cur.time \in Nat /\ cur.time <= now + 1
  BY <1>1, JobFields, ActsAssumption DEF IsJob
<1>3. CASE Receive
  <2>1. CASE Abort("search")
    BY <2>1, AbortTypes DEF Ends
  <2>2. CASE /\ failed' = "insert" /\ causes' = causes \cup {"sameTime"}
             /\ UNCHANGED <<view, frame, lists, db, thread, net, now, acts, sent>>
    <3>1. PastOK' /\ EndOK'
      BY <2>2 DEF Parts, PastOK, EndOK, Causes, Ends
    <3> QED
      BY <2>2, <3>1, Kept DEF Parts
  <2>3. CASE ~Abort("search") /\ ~(/\ failed' = "insert" /\ causes' = causes \cup {"sameTime"}
                                   /\ UNCHANGED <<view, frame, lists, db, thread, net, now, acts, sent>>)
    <3>1. PICK m : m = Message(cur.time, cur.user, cur.user, cur.text)
      OBVIOUS
    <3>2. /\ UNCHANGED <<view, lists, frame, net, now, past, failed>>
          /\ \/ MayAddMessage(db, m) /\ db' = addMessage(db, m) /\ (To("show") \/ Done)
             \/ Done /\ UNCHANGED db
      BY <1>3, <2>3, <3>1 DEF Receive, On
    <3>3. m \in MessageRows /\ m.timestamp = cur.time
      BY <1>2, <3>1 DEF Message, MessageRows
    <3>4. DbOK'
      <4>1. now \in Nat /\ now' = now /\ now <= now
        BY <3>2, DbFields
      <4>2. CASE db' = db
        BY <3>2, <4>2, Kept
      <4>3. CASE MayAddMessage(db, m) /\ db' = addMessage(db, m)
        BY <1>2, <3>3, <4>1, <4>3, AddMessageTypes
      <4> QED
        BY <3>2, <4>2, <4>3
    <3>5. JobsOK' /\ StateOK'
      BY <1>1, <3>2, DoneTypes, ToTypes DEF Steps
    <3> QED
      BY <3>2, <3>4, <3>5, Kept DEF Parts
  <2> QED
    BY <2>1, <2>2, <2>3
<1>4. CASE ReceiveShows
  <2>1. MessagesOK'
    BY <1>2, <1>4, EntryTypes DEF ReceiveShows
  <2>2. JobsOK' /\ StateOK'
    BY <1>1, <1>4, DoneTypes DEF ReceiveShows, On
  <2> QED
    BY <1>4, <2>1, <2>2, Kept DEF ReceiveShows, On, Parts
<1> QED
  BY <1>3, <1>4

LEMMA ContinueTypes ==
  ASSUME Parts, Continue \/ ContinueFills \/ ContinueShows
  PROVE  Parts'
<1> USE DEF view, frame, lists, thread, net, past
<1>1. jobs # <<>> /\ cur \in Jobs /\ IsJob(cur) /\ cur.op = "continue"
  BY RunsType DEF Continue, ContinueFills, ContinueShows, On, Runs
<1>2. cur.user \in Peers
  BY <1>1 DEF IsJob
<1>3. CASE Continue
  <2>1. UNCHANGED <<page, named, toUserId, usersList, db, frame, net, now, acts, sent, failed>>
    BY <1>3 DEF Continue, On
  <2>2. CASE conversationExists(db, cur.user)
    <3>1. messagesList' = <<>> /\ To("fill") /\ UNCHANGED <<blocked, causes>>
      BY <1>3, <2>2 DEF Continue
    <3>2. JobsOK' /\ StateOK'
      BY <2>1, <3>1, ToTypes DEF Steps
    <3> QED
      BY <2>1, <3>1, <3>2, EmptyMessages, Kept DEF Parts
  <2>3. CASE ~conversationExists(db, cur.user)
    <3>1. Finish /\ UNCHANGED messagesList
      BY <1>3, <2>3 DEF Continue
    <3>2. ViewOK' /\ JobsOK' /\ StateOK' /\ PastOK'
      BY <1>1, <2>1, <3>1, FinishTypes
    <3> QED
      BY <2>1, <3>1, <3>2, Kept DEF Parts
  <2> QED
    BY <2>2, <2>3
<1>4. CASE ContinueFills
  <2>1. CASE Abort("search")
    BY <2>1, AbortTypes DEF Ends
  <2>2. CASE ~Abort("search")
    <3>1. PICK previous \in Loaded(cur.user) : messagesList' = messagesList \o previous
      BY <1>4, <2>2 DEF ContinueFills
    <3>2. To("page") /\ UNCHANGED <<view, usersList, toUserId, db, frame, net, now, past, failed>>
      BY <1>4, <2>2 DEF ContinueFills, On
    <3>3. MessagesOK'
      BY <3>1, LoadedTypes, Joined DEF Parts, MessagesOK
    <3>4. JobsOK' /\ StateOK'
      BY <3>2, ToTypes DEF Steps
    <3> QED
      BY <3>2, <3>3, <3>4, Kept DEF Parts
  <2> QED
    BY <2>1, <2>2
<1>5. CASE ContinueShows
  <2>1. CASE Abort("freed")
    BY <2>1, AbortTypes DEF Ends
  <2>2. CASE ~Abort("freed")
    <3>1. /\ page' = "conversation" /\ named' = cur.user /\ Finish
          /\ UNCHANGED <<lists, db, frame, net, now, acts, sent, failed>>
      BY <1>5, <2>2 DEF ContinueShows, On
    <3>2. ViewOK'
      BY <1>2, <3>1 DEF Finish, Parts, ViewOK, Drawings
    <3>3. JobsOK'
      BY <1>1, <3>1, TailKeeps DEF Finish, Done
    <3>4. StateOK'
      BY <3>1 DEF Finish, Done, Parts, StateOK, Steps
    <3>5. PastOK'
      BY <3>1, Reasons DEF Finish, Parts, PastOK
    <3> QED
      BY <3>1, <3>2, <3>3, <3>4, <3>5, Kept DEF Parts
  <2> QED
    BY <2>1, <2>2
<1> QED
  BY <1>3, <1>4, <1>5

LEMMA StartTypes ==
  ASSUME Parts, Start \/ Delete \/ Reply \/ ReplyAsks
  PROVE  Parts'
<1> USE DEF view, frame, lists, thread, net, past
<1>1. jobs # <<>> /\ cur \in Jobs /\ IsJob(cur) /\ cur.op \in {"start", "delete", "reply"}
  BY RunsType DEF Start, Delete, Reply, ReplyAsks, On, Runs
<1>2. cur.user \in Peers
  BY <1>1 DEF IsJob
<1>3. CASE Start
  <2>1. UNCHANGED <<page, named, toUserId, usersList, messagesList, frame, net, now, acts, sent, failed>>
    BY <1>3 DEF Start, On
  <2>2. CASE Finish /\ UNCHANGED db
    <3>1. ViewOK' /\ JobsOK' /\ StateOK' /\ PastOK'
      BY <1>1, <2>1, <2>2, FinishTypes
    <3> QED
      BY <2>1, <2>2, <3>1, Kept DEF Parts
  <2>3. CASE db' = addConversation(db, cur.user, cur.user) /\ To("begin") /\ UNCHANGED <<blocked, causes>>
    <3>1. DbOK'
      BY <1>2, <2>1, <2>3, AddConversationTypes
    <3>2. JobsOK' /\ StateOK'
      BY <2>1, <2>3, ToTypes DEF Steps
    <3> QED
      BY <2>1, <2>3, <3>1, <3>2, Kept DEF Parts
  <2> QED
    BY <1>3, <2>2, <2>3 DEF Start
<1>4. CASE Delete
  <2>1. /\ db' = IF conversationExists(db, cur.user) THEN Removed(cur.user) ELSE db
        /\ blocked' = FALSE /\ causes' = causes \cup Early(Range(Tail(jobs))) /\ To("begin")
        /\ UNCHANGED <<page, named, toUserId, usersList, messagesList, frame, net, now, acts, sent, failed>>
    BY <1>4 DEF Delete, On
  <2>2. DbOK'
    BY <2>1, RemovedTypes, Kept
  <2>3. ViewOK'
    BY <2>1 DEF Parts, ViewOK
  <2>4. PastOK'
    BY <2>1, Reasons DEF Parts, PastOK
  <2>5. JobsOK' /\ StateOK'
    BY <2>1, ToTypes DEF Steps
  <2> QED
    BY <2>1, <2>2, <2>3, <2>4, <2>5, Kept DEF Parts
<1>5. CASE Reply
  <2>1. /\ db' = IF conversationExists(db, cur.user) THEN Removed(cur.user) ELSE db
        /\ messagesList' = <<>> /\ To("ask")
        /\ UNCHANGED <<view, toUserId, usersList, frame, net, now, past, failed>>
    BY <1>5 DEF Reply, On
  <2>2. DbOK'
    BY <2>1, RemovedTypes, Kept
  <2>3. JobsOK' /\ StateOK'
    BY <2>1, ToTypes DEF Steps
  <2> QED
    BY <2>1, <2>2, <2>3, EmptyMessages, Kept DEF Parts
<1>6. CASE ReplyAsks
  <2>1. CASE Abort("search")
    BY <2>1, AbortTypes DEF Ends
  <2>2. CASE ~Abort("search")
    <3>1. UNCHANGED <<view, usersList, messagesList, frame, net, now, acts, sent, failed>>
      BY <1>6, <2>2 DEF ReplyAsks, On
    <3>2. CASE To("finish") /\ UNCHANGED <<toUserId, db, causes>>
      <4>1. JobsOK' /\ StateOK'
        BY <3>1, <3>2, ToTypes DEF Steps
      <4> QED
        BY <3>1, <3>2, <4>1, Kept DEF Parts
    <3>3. CASE /\ toUserId' = cur.user /\ causes' = causes \cup Overtaken(cur.user)
               /\ db' = addConversation(db, cur.user, cur.user) /\ To("begin")
      <4>1. DbOK'
        BY <1>2, <3>1, <3>3, AddConversationTypes
      <4>2. JobsOK' /\ StateOK'
        BY <3>1, <3>3, ToTypes DEF Steps
      <4>3. ViewOK'
        BY <1>2, <3>1, <3>3 DEF Parts, ViewOK
      <4>4. PastOK'
        BY <3>1, <3>3, Reasons DEF Parts, PastOK
      <4> QED
        BY <3>1, <3>3, <4>1, <4>2, <4>3, <4>4, Kept DEF Parts
    <3> QED
      BY <1>6, <2>2, <3>2, <3>3 DEF ReplyAsks
  <2> QED
    BY <2>1, <2>2
<1> QED
  BY <1>3, <1>4, <1>5, <1>6

LEMMA RefreshTypes ==
  ASSUME Parts, RefreshBegins \/ RefreshClears \/ RefreshShows \/ Finishes
  PROVE  Parts'
<1> USE DEF view, frame, lists, thread, net, past
<1>1. jobs # <<>>
  BY DEF RefreshBegins, RefreshClears, RefreshShows, Finishes, Refreshing, On, Runs
<1>2. CASE RefreshBegins
  <2>1. CASE Abort("fetchers")
    BY <2>1, AbortTypes DEF Ends
  <2>2. CASE ~Abort("fetchers")
    <3>1. blocked' = TRUE /\ To("clear")
          /\ UNCHANGED <<page, named, lists, db, frame, net, now, past, failed>>
      BY <1>2, <2>2 DEF RefreshBegins
    <3>2. JobsOK' /\ StateOK'
      BY <3>1, ToTypes DEF Steps
    <3>3. ViewOK'
      BY <3>1 DEF Parts, ViewOK
    <3> QED
      BY <3>1, <3>2, <3>3, Kept DEF Parts
  <2> QED
    BY <2>1, <2>2
<1>3. CASE RefreshClears
  <2>1. /\ usersList' = <<>> /\ jobs' = [i \in DOMAIN jobs |-> Freed(jobs[i])] /\ at' = "list"
        /\ UNCHANGED <<view, messagesList, toUserId, db, frame, net, now, past, failed>>
    BY <1>3 DEF RefreshClears
  <2>2. JobsOK'
    BY <2>1, FreedKeeps
  <2>3. StateOK'
    BY <2>1 DEF Parts, StateOK, Steps
  <2> QED
    BY <2>1, <2>2, <2>3, EmptyUsers, Kept DEF Parts
<1>4. CASE RefreshShows
  <2>1. /\ page' = "users" /\ UNCHANGED <<named, blocked, lists, db, frame, net, now, past, failed>>
        /\ jobs' = Append(IF cur.op = "delete" THEN Tail(jobs) ELSE jobs, Job("fetch", NoUser, 0))
        /\ at' \in {"first", "finish"}
    BY <1>4 DEF RefreshShows, Push
  <2>2. ViewOK'
    BY <2>1 DEF Parts, ViewOK, Drawings
  <2>3. StateOK'
    BY <2>1 DEF Parts, StateOK, Steps
  <2>4. JobsOK'
    <3>1. now \in Nat /\ now' = now /\ now <= now
      BY <2>1, DbFields
    <3>2. Job("fetch", NoUser, 0) \in Jobs /\ IsJob(Job("fetch", NoUser, 0))'
      BY <3>1, PlainJob
    <3>3. PICK q : q = IF cur.op = "delete" THEN Tail(jobs) ELSE jobs
      OBVIOUS
    <3>4. q \in Seq(Jobs) /\ \A i \in DOMAIN q : IsJob(q[i])
      BY <1>1, <3>3, RunsType DEF Parts, JobsOK
    <3> QED
      BY <2>1, <3>1, <3>2, <3>3, <3>4, PushTypes
  <2> QED
    BY <2>1, <2>2, <2>3, <2>4, Kept DEF Parts
<1>5. CASE Finishes
  <2>1. Finish /\ UNCHANGED <<page, named, lists, db, frame, net, now, acts, sent, failed>>
    BY <1>5 DEF Finishes, On
  <2>2. ViewOK' /\ JobsOK' /\ StateOK' /\ PastOK'
    BY <1>1, <2>1, FinishTypes
  <2> QED
    BY <2>1, <2>2, Kept DEF Parts
<1> QED
  BY <1>2, <1>3, <1>4, <1>5

LEMMA LaterTypes ==
  ASSUME Parts, UNCHANGED db, now' \in Times
  PROVE  /\ DbOK' /\ now' \in Nat
         /\ UNCHANGED jobs => JobsOK'
         /\ jobs # <<>> /\ jobs' = Tail(jobs) => JobsOK'
<1>1. now \in Nat /\ now' \in Nat /\ now <= now'
  BY DbFields DEF Times
<1>2. \A m \in db.messages : m.timestamp \in Nat /\ m.timestamp <= now + 1
  BY DbFields, RowFields
<1>3. DbOK'
  BY <1>1, <1>2 DEF Parts, DbOK, conversationExists
<1>4. \A j \in Jobs : IsJob(j) => IsJob(j)'
  BY <1>1 DEF IsJob, Jobs
<1>5. ASSUME UNCHANGED jobs PROVE JobsOK'
  BY <1>4, <1>5, ElementsOf DEF Parts, JobsOK
<1>6. ASSUME jobs # <<>>, jobs' = Tail(jobs) PROVE JobsOK'
  <2>1. jobs' \in Seq(Jobs) /\ \A i \in DOMAIN jobs' : jobs'[i] \in Jobs /\ IsJob(jobs'[i])
    BY <1>6, RunsType, ElementsOf
  <2> QED
    BY <1>4, <2>1 DEF JobsOK
<1> QED
  BY <1>1, <1>3, <1>5, <1>6

LEMMA FetchTypes ==
  ASSUME Parts, Fetch \/ Users \/ UsersAdds \/ UsersShows \/ More \/ MoreAsks
  PROVE  Parts'
<1> USE DEF view, frame, lists, thread, net, past
<1>1. jobs # <<>>
  BY DEF Fetch, Users, UsersAdds, UsersShows, More, MoreAsks, On, Runs
<1>2. CASE Fetch
  <2>1. CASE Abort("fetchers")
    BY <2>1, AbortTypes DEF Ends
  <2>2. CASE ~Abort("fetchers")
    <3>1. /\ asked' = TRUE /\ Done
          /\ UNCHANGED <<view, frame, lists, db, fetching, left, ignoring, now, past, failed>>
      BY <1>2, <2>2 DEF Fetch
    <3>2. JobsOK'
      BY <1>1, <3>1, TailKeeps DEF Done
    <3>3. StateOK'
      BY <3>1 DEF Done, Parts, StateOK, Steps
    <3> QED
      BY <3>1, <3>2, <3>3, Kept DEF Parts
  <2> QED
    BY <2>1, <2>2
<1>3. CASE Users
  <2>1. CASE Abort("fetchers")
    BY <2>1, AbortTypes DEF Ends
  <2>2. CASE ~Abort("fetchers")
    <3>1. /\ usersList' = <<>> /\ jobs' = [i \in DOMAIN jobs |-> Freed(jobs[i])] /\ at' = "rows"
          /\ UNCHANGED <<view, messagesList, toUserId, db, frame, net, now, past, failed>>
      BY <1>3, <2>2 DEF Users, On
    <3>2. JobsOK'
      BY <3>1, FreedKeeps
    <3>3. StateOK'
      BY <3>1 DEF Parts, StateOK, Steps
    <3> QED
      BY <3>1, <3>2, <3>3, EmptyUsers, Kept DEF Parts
  <2> QED
    BY <2>1, <2>2
<1>4. CASE UsersAdds
  <2>1. PICK n : n = Len(usersList) + 1
    OBVIOUS
  <2>2. PICK e : e = UserRow(Registered[n], conversationExists(db, Registered[n]))
    OBVIOUS
  <2>3. /\ Len(usersList) < Len(Registered) /\ usersList' = Append(usersList, e)
        /\ UNCHANGED <<view, messagesList, toUserId, db, thread, frame, net, now, past, failed>>
    BY <1>4, <2>1, <2>2 DEF UsersAdds, On
  <2>4. usersList \in Seq(UserRows) /\ Len(usersList) \in Nat /\ Registered \in Seq(Peers)
    BY UsersAssumption DEF Parts, UsersOK
  <2>5. n \in 1..Len(Registered)
    BY <2>1, <2>3, <2>4
  <2>6. Registered[n] \in Peers
    BY <2>4, <2>5
  <2>7. conversationExists(db, Registered[n]) \in BOOLEAN
    BY DEF conversationExists
  <2>8. e \in UserRows /\ e.id = Registered[n]
    BY <2>2, <2>6, <2>7 DEF UserRow, UserRows
  <2>9. UsersOK'
    BY <2>1, <2>3, <2>4, <2>8, OneMore DEF Parts, UsersOK
  <2> QED
    BY <2>3, <2>9, Kept DEF Parts
<1>5. CASE UsersShows
  <2>1. CASE Abort("future") \/ Abort("fetchers")
    BY <2>1, AbortTypes DEF Ends
  <2>2. CASE /\ page' = "users" /\ fetching' = "on" /\ Done
             /\ \E i \in ToFetch, t \in Times :
                  /\ First(i, ToFetch) /\ left' = ToFetch \ {i}
                  /\ Earlier(usersList[i].id, t) /\ now' = t
             /\ UNCHANGED <<named, blocked, frame, lists, db, asked, ignoring, past, failed>>
    <3>1. now' \in Times /\ left' \subseteq ToFetch
      BY <2>2
    <3>2. DbOK' /\ now' \in Nat /\ JobsOK'
      BY <1>1, <2>2, <3>1, LaterTypes DEF Done
    <3>3. left' \subseteq 1..Len(Registered)
      <4>1. Len(usersList) = Len(Registered) /\ usersList \in Seq(UserRows)
        BY <1>5 DEF UsersShows, Parts, UsersOK
      <4> QED
        BY <3>1, <4>1 DEF ToFetch
    <3>4. StateOK'
      BY <2>2, <3>2, <3>3 DEF Done, Parts, StateOK, Steps
    <3>5. ViewOK'
      BY <2>2 DEF Parts, ViewOK, Drawings
    <3> QED
      BY <2>2, <3>2, <3>4, <3>5, Kept DEF Parts
  <2>3. CASE /\ page' = "users" /\ ignoring' = FALSE /\ Finish
             /\ UNCHANGED <<named, frame, lists, db, asked, fetching, left, now, acts, sent, failed>>
    <3>1. JobsOK'
      BY <1>1, <2>3, TailKeeps DEF Finish, Done
    <3>2. StateOK'
      BY <2>3 DEF Finish, Done, Parts, StateOK, Steps
    <3>3. ViewOK'
      BY <2>3 DEF Finish, Parts, ViewOK, Drawings
    <3>4. PastOK'
      BY <2>3, Reasons DEF Finish, Parts, PastOK
    <3> QED
      BY <2>3, <3>1, <3>2, <3>3, <3>4, Kept DEF Parts
  <2> QED
    BY <1>5, <2>1, <2>2, <2>3 DEF UsersShows
<1>6. CASE More
  <2>1. CASE Abort("future")
    BY <2>1, AbortTypes DEF Ends
  <2>2. CASE ~Abort("future")
    <3>1. now' \in Times /\ To("get") /\ UNCHANGED <<view, frame, lists, db, net, past, failed>>
      BY <1>6, <2>2 DEF More
    <3>2. DbOK' /\ now' \in Nat /\ JobsOK'
      BY <3>1, LaterTypes DEF To
    <3>3. StateOK'
      BY <3>1, <3>2 DEF To, Parts, StateOK, Steps
    <3> QED
      BY <3>1, <3>2, <3>3, Kept DEF Parts
  <2> QED
    BY <2>1, <2>2
<1>7. CASE MoreAsks
  <2>1. CASE Abort("fetchers")
    BY <2>1, AbortTypes DEF Ends
  <2>2. CASE ~Abort("fetchers")
    <3>1. /\ fetching' = "on" /\ Done
          /\ UNCHANGED <<view, frame, lists, db, asked, left, ignoring, now, past, failed>>
      BY <1>7, <2>2 DEF MoreAsks
    <3>2. JobsOK'
      BY <1>1, <3>1, TailKeeps DEF Done
    <3>3. StateOK'
      BY <3>1 DEF Done, Parts, StateOK, Steps
    <3> QED
      BY <3>1, <3>2, <3>3, Kept DEF Parts
  <2> QED
    BY <2>1, <2>2
<1> QED
  BY <1>2, <1>3, <1>4, <1>5, <1>6, <1>7

LEMMA AsyncTypes ==
  ASSUME Parts, AsyncThread
  PROVE  Parts'
  BY SendTypes, ReceiveTypes, ContinueTypes, StartTypes, RefreshTypes, FetchTypes DEF AsyncThread

-----------------------------------------------------------------------------
(* The net thread keeps the types.                                         *)

LEMMA NetTypes ==
  ASSUME Parts, NetThread
  PROVE  Parts'
<1> USE DEF view, frame, lists, thread, net, past
<1>1. CASE UsersArrive
  <2>1. now \in Nat /\ now' = now /\ now <= now
    BY <1>1, DbFields DEF UsersArrive
  <2>2. Job("users", NoUser, 0) \in Jobs /\ IsJob(Job("users", NoUser, 0))'
    BY <2>1, PlainJob
  <2>3. JobsOK'
    BY <1>1, <2>1, <2>2, PushKeeps DEF UsersArrive
  <2>4. StateOK'
    BY <1>1 DEF UsersArrive, Parts, StateOK
  <2> QED
    BY <1>1, <2>3, <2>4, Kept DEF UsersArrive, Parts
<1>2. CASE FetchEnds
  <2>1. /\ fetching' = "last"
        /\ UNCHANGED <<view, frame, lists, db, at, asked, ignoring, now, past, failed>>
    BY <1>2 DEF FetchEnds
  <2>2. JobsOK' /\ left' \subseteq left
    <3>1. CASE UNCHANGED <<left, jobs>>
      BY <2>1, <3>1, Kept
    <3>2. ASSUME NEW i \in left, left' = left \ {i}, Push(Job("more", Registered[i], 0))
          PROVE  JobsOK'
      <4>1. now \in Nat /\ now' = now /\ now <= now /\ 0 \in 0..MaxActs
        BY <2>1, DbFields, ActsAssumption
      <4>2. Registered[i] \in Peers
        BY UsersAssumption DEF Parts, StateOK
      <4>3. PICK j : j = Job("more", Registered[i], 0)
        OBVIOUS
      <4>4. j \in Jobs /\ j.op = "more" /\ j.user \in Peers /\ j.time = 0
        BY <4>1, <4>2, <4>3, NewJob DEF Ops
      <4>5. IsJob(j)'
        BY <4>1, <4>4 DEF IsJob
      <4> QED
        BY <3>2, <4>1, <4>3, <4>4, <4>5, PushKeeps
    <3> QED
      BY <1>2, <3>1, <3>2 DEF FetchEnds
  <2>3. StateOK'
    BY <2>1, <2>2 DEF Parts, StateOK
  <2> QED
    BY <2>1, <2>2, <2>3, Kept DEF Parts
<1>6. CASE FetchChecks
  <2>1. CASE Abort("fetchers")
    BY <2>1, AbortTypes DEF Ends
  <2>2. CASE ~Abort("fetchers")
    <3>1. /\ fetching' = "no" /\ ignoring' \in {ignoring, FALSE} /\ blocked' \in {blocked, FALSE}
          /\ causes' \in {causes, causes \cup Early(Pending)}
          /\ UNCHANGED <<page, named, frame, lists, db, thread, asked, left, now, acts, sent, failed>>
      BY <1>6, <2>2 DEF FetchChecks
    <3>2. PastOK'
      BY <3>1, Reasons DEF Parts, PastOK
    <3>3. StateOK' /\ ViewOK'
      BY <3>1 DEF Parts, StateOK, ViewOK
    <3> QED
      BY <3>1, <3>2, <3>3, Kept DEF Parts
  <2> QED
    BY <2>1, <2>2
<1>3. CASE ErrorArrives
  <2>1. PastOK'
    BY <1>3, Reasons, ActsTypes DEF ErrorArrives
  <2>2. ViewOK'
    BY <1>3 DEF ErrorArrives, Parts, ViewOK
  <2> QED
    BY <1>3, <2>1, <2>2, Kept DEF ErrorArrives, Parts
<1>4. ASSUME NEW u \in Peers, MessageArrives(u) PROVE Parts'
  <2>1. PICK t \in Times : /\ now' \in {now, t} /\ Acts(Untimely(t, now'))
                           /\ Push([Job("receive", u, acts + 1) EXCEPT !.time = t])
    BY <1>4 DEF MessageArrives
  <2>2. UNCHANGED <<view, frame, lists, db, at, net, sent, failed>>
    BY <1>4 DEF MessageArrives
  <2>3. Untimely(t, now') \in SUBSET Causes
    BY Reasons
  <2>4. PastOK' /\ acts + 1 \in 1..MaxActs
    BY <2>1, <2>2, <2>3, ActsTypes
  <2>5. t \in Nat /\ now \in Nat /\ now' \in Nat /\ now <= now' /\ t <= now' + 1
    BY <2>1, DbFields DEF Times
  <2>6. PICK j : j = [Job("receive", u, acts + 1) EXCEPT !.time = t]
    OBVIOUS
  <2>7. acts + 1 \in 0..MaxActs /\ acts + 1 # 0
    BY <2>4, ActsAssumption
  <2>8. j \in Jobs /\ j.op = "receive" /\ j.user = u /\ j.text = acts + 1 /\ j.time = t
    BY <2>5, <2>6, <2>7, NewJob DEF Ops
  <2>9. IsJob(j)'
    BY <2>5, <2>7, <2>8 DEF IsJob
  <2>10. JobsOK'
    BY <2>1, <2>5, <2>6, <2>8, <2>9, PushKeeps
  <2>11. StateOK'
    BY <2>2, <2>5 DEF Parts, StateOK
  <2>12. DbOK'
    <3>1. db' = db /\ \A m \in db.messages : m.timestamp \in Nat /\ m.timestamp <= now + 1
      BY <2>2, DbFields, RowFields
    <3> QED
      BY <2>5, <3>1 DEF Parts, DbOK, conversationExists
  <2> QED
    BY <2>2, <2>4, <2>10, <2>11, <2>12, Kept DEF Parts
<1>5. ASSUME NEW u \in Peers, InviteArrives(u) PROVE Parts'
  <2>1. /\ Acts({"invite"}) /\ blocked' = TRUE /\ Push(Job("reply", u, 0))
        /\ UNCHANGED <<page, named, frame, lists, db, at, net, now, sent, failed>>
    BY <1>5 DEF InviteArrives
  <2>2. PastOK'
    BY <2>1, ActsTypes DEF Causes
  <2>3. ViewOK'
    BY <2>1 DEF Parts, ViewOK
  <2>4. now \in Nat /\ now' = now /\ now <= now /\ 0 \in 0..MaxActs
    BY <2>1, DbFields, ActsAssumption
  <2>5. /\ Job("reply", u, 0) \in Jobs /\ Job("reply", u, 0).op = "reply"
        /\ Job("reply", u, 0).user = u /\ Job("reply", u, 0).time = 0
    BY <2>4, NewJob DEF Ops
  <2>6. IsJob(Job("reply", u, 0))'
    BY <2>4, <2>5 DEF IsJob
  <2>7. JobsOK'
    BY <2>1, <2>4, <2>5, <2>6, PushKeeps
  <2>8. StateOK'
    BY <2>1 DEF Parts, StateOK
  <2> QED
    BY <2>1, <2>2, <2>3, <2>7, <2>8, Kept DEF Parts
<1> QED
  BY <1>1, <1>2, <1>3, <1>4, <1>5, <1>6 DEF NetThread

-----------------------------------------------------------------------------
(* Types.                                                                  *)

LEMMA InitRows ==
  ASSUME Init
  PROVE  \E known \in SUBSET Peers :
           db = [NoRows EXCEPT !.conversations = {Conversation(u, u) : u \in known}]
<1>1. PICK n \in 0..Len(Registered) : \E known \in SUBSET {Registered[i] : i \in 1..n} :
        db = [NoRows EXCEPT !.conversations = {Conversation(u, u) : u \in known}]
  BY DEF Init
<1>2. {Registered[i] : i \in 1..n} \subseteq Peers
  <2>1. Registered \in Seq(Peers) /\ Len(Registered) \in Nat
    BY UsersAssumption
  <2> QED
    BY <2>1
<1> QED
  BY <1>1, <1>2

LEMMA InitTypes == Init => Parts
<1> SUFFICES ASSUME Init PROVE Parts
  OBVIOUS
<1>1. ViewOK /\ EndOK /\ StateOK
  BY DEF Init, ViewOK, EndOK, StateOK, Drawings, Ends, Steps
<1>2. FrameOK
  <2>1. size = 0 /\ row = 0 /\ ui = "idle" /\ pressed \in BOOLEAN
    BY DEF Init
  <2> QED
    BY <2>1 DEF FrameOK
<1>3. UsersOK
  <2>1. Registered \in Seq(Peers) /\ Len(Registered) \in Nat /\ Len(Registered) # 0
    BY UsersAssumption
  <2>2. PICK n \in 0..Len(Registered) : \E known \in SUBSET {Registered[i] : i \in 1..n} :
          usersList = [i \in 1..n |-> UserRow(Registered[i], Registered[i] \in known)]
    BY DEF Init
  <2>7. PICK known \in SUBSET {Registered[i] : i \in 1..n} :
          usersList = [i \in 1..n |-> UserRow(Registered[i], Registered[i] \in known)]
    BY <2>2
  <2>3. n \in Nat /\ 1..n \subseteq 1..Len(Registered)
    BY <2>1
  <2>4. ASSUME NEW i \in 1..n PROVE usersList[i] \in UserRows /\ usersList[i].id = Registered[i]
    <3>1. Registered[i] \in Peers
      BY <2>1, <2>3
    <3> QED
      BY <2>7, <3>1 DEF UserRow, UserRows
  <2>5. DOMAIN usersList = 1..n /\ usersList = [i \in 1..n |-> usersList[i]]
    BY <2>7
  <2>6. usersList \in Seq(UserRows)
    BY <2>3, <2>4, <2>5, MappedSequence
  <2> QED
    BY <2>4, <2>5, <2>6 DEF UsersOK
<1>4. MessagesOK /\ JobsOK
  BY NothingIn DEF Init, MessagesOK, JobsOK
<1>5. DbOK
  <2>1. PICK known \in SUBSET Peers :
          db = [NoRows EXCEPT !.conversations = {Conversation(u, u) : u \in known}]
    BY InitRows
  <2>2. db = [conversations |-> {Conversation(u, u) : u \in known}, messages |-> {}]
    BY <2>1 DEF NoRows
  <2>3. {Conversation(u, u) : u \in known} \subseteq ConversationRows
    BY DEF Conversation, ConversationRows
  <2>4. IsFiniteSet(db.messages)
    BY <2>2, FS_EmptySet
  <2> QED
    BY <2>2, <2>3, <2>4 DEF DbOK
<1>6. PastOK
  BY ActsAssumption DEF Init, PastOK
<1> QED
  BY <1>1, <1>2, <1>3, <1>4, <1>5, <1>6 DEF Parts

LEMMA NextTypes == Parts /\ [Next]_vars => Parts'
  BY AllKept, UITypes, AsyncTypes, NetTypes DEF Next, Rest

(* Every reachable state of the client's pages, lists, jobs and database   *)
(* is well formed: a job has the parameters its handler reads, a row of    *)
(* the users list is the user registered at its place, and a stored        *)
(* message belongs to a conversation that is stored (logic.c, render.c).   *)
THEOREM TypesHold == Spec => []TypeOK
<1>1. Spec => []Parts
  BY InitTypes, NextTypes, PTL DEF Spec
<1> QED
  BY <1>1, TypesAre, PTL

-----------------------------------------------------------------------------
(* Messages go where the page said.  While a frame is drawn whose button   *)
(* may still be hit, the page is the one that is drawn, for others change  *)
(* it under the lock only; the texts that are sent, or still to be, differ *)
(* from each other.  As long as toUserId is not changed too early, what is *)
(* on its way is for toUserId, and so is the page that is shown.           *)

FrameInv == Drawing /\ pressed => page = ui
QueueInv == jobs = <<>> => at = "first"
StreamsInv == \A c \in db.conversations : c.streams = c.user

Mine == {m \in db.messages : m.from = Me}
TextsInv ==
  /\ \A m \in Mine : m.text <= acts
  /\ \A s \in sent : s.text <= acts
  /\ \A i \in DOMAIN jobs : jobs[i].op = "send" =>
       /\ jobs[i].text <= acts
       /\ \A s \in sent : s.text # jobs[i].text
       /\ \A k \in DOMAIN jobs :
            jobs[k].op = "send" /\ jobs[k].text = jobs[i].text => k = i

PageInv == page = "conversation" => named = toUserId
JobsInv ==
  \A i \in DOMAIN jobs :
    /\ jobs[i].op \in {"send", "continue"} => jobs[i].user = toUserId
    /\ jobs[i].op = "send" =>
         \A m \in Mine : m.text = jobs[i].text => m.conversation = jobs[i].user
SealInv ==
  jobs # <<>> /\ cur.op = "send" /\ at = "out" => cur.sealed = cur.user
SentInv ==
  \A s \in sent :
    /\ s.to = s.shown /\ s.sealed = s.shown
    /\ \A m \in Mine : m.text = s.text => m.conversation = s.shown

Straight == PageInv /\ JobsInv /\ SealInv /\ SentInv

SendInv ==
  /\ Parts /\ FrameInv /\ QueueInv /\ StreamsInv /\ TextsInv
  /\ "overtaken" \notin causes => Straight

(* Most steps put no message and no page on its way: the jobs that are     *)
(* left, but for one that is new, are those that were, in their order.     *)
Shifts(d) ==
  \A i \in DOMAIN jobs' :
    \/ jobs'[i].op \notin {"send", "continue"}
    \/ /\ i + d \in DOMAIN jobs
       /\ jobs'[i].op = jobs[i + d].op /\ jobs'[i].user = jobs[i + d].user
       /\ jobs'[i].text = jobs[i + d].text
SealKept ==
  jobs' # <<>> /\ cur'.op = "send" /\ at' = "out" =>
    /\ jobs # <<>> /\ cur.op = "send" /\ at = "out"
    /\ cur'.sealed = cur.sealed /\ cur'.user = cur.user
JobsAside == Shifts(0) \/ Shifts(1)

Aside ==
  /\ JobsAside /\ SealKept /\ QueueInv' /\ FrameInv' /\ StreamsInv'
  /\ acts <= acts' /\ sent' = sent /\ causes \subseteq causes' /\ Mine' \subseteq Mine
  /\ "overtaken" \notin causes' =>
       /\ PageInv'
       /\ \/ toUserId' = toUserId
          \/ \A i \in DOMAIN jobs : jobs[i].op \notin {"send", "continue"}

LEMMA TextFields ==
  ASSUME Parts
  PROVE  /\ acts \in Nat
         /\ \A i \in DOMAIN jobs : jobs[i].text \in Nat
         /\ \A m \in Mine : m \in db.messages /\ m.text \in Nat
         /\ \A s \in sent : s.text \in Nat
<1>1. acts \in Nat
  BY ActsAssumption DEF Parts, PastOK
<1>2. \A i \in DOMAIN jobs : jobs[i].text \in Nat
  <2>1. \A i \in DOMAIN jobs : jobs[i] \in Jobs
    BY ElementsOf DEF Parts, JobsOK
  <2> QED
    BY <2>1, JobFields, ActsAssumption
<1>3. \A m \in Mine : m \in db.messages /\ m.text \in Nat
  BY DbFields, RowFields DEF Mine
<1>4. \A s \in sent : s.text \in Nat
  BY DEF Parts, PastOK, Sent
<1> QED
  BY <1>1, <1>2, <1>3, <1>4

LEMMA TextsKept ==
  ASSUME Parts, Parts', TextsInv, NEW d \in {0, 1}, Shifts(d),
         acts <= acts', sent' = sent, Mine' \subseteq Mine
  PROVE  TextsInv'
<1>1. acts \in Nat /\ acts' \in Nat /\ DOMAIN jobs' \subseteq Nat
  BY TextFields DEF Parts, JobsOK, PastOK
<1>2. \A m \in Mine' : m.text <= acts'
  BY <1>1, TextFields DEF TextsInv
<1>3. \A s \in sent' : s.text <= acts'
  BY <1>1, TextFields DEF TextsInv
<1>4. ASSUME NEW i \in DOMAIN jobs', jobs'[i].op = "send"
      PROVE  /\ jobs'[i].text <= acts'
             /\ \A s \in sent' : s.text # jobs'[i].text
             /\ \A k \in DOMAIN jobs' :
                  jobs'[k].op = "send" /\ jobs'[k].text = jobs'[i].text => k = i
  <2>1. i + d \in DOMAIN jobs /\ jobs[i + d].op = "send" /\ jobs'[i].text = jobs[i + d].text
    BY <1>4 DEF Shifts
  <2>2. jobs'[i].text <= acts'
    BY <1>1, <2>1, TextFields DEF TextsInv
  <2>3. \A s \in sent' : s.text # jobs'[i].text
    BY <2>1 DEF TextsInv
  <2>4. ASSUME NEW k \in DOMAIN jobs', jobs'[k].op = "send", jobs'[k].text = jobs'[i].text
        PROVE  k = i
    <3>1. k + d \in DOMAIN jobs /\ jobs[k + d].op = "send" /\ jobs[k + d].text = jobs[i + d].text
      BY <2>1, <2>4 DEF Shifts
    <3>2. k + d = i + d
      BY <2>1, <3>1 DEF TextsInv
    <3> QED
      BY <1>1, <3>2
  <2> QED
    BY <2>2, <2>3, <2>4
<1> QED
  BY <1>2, <1>3, <1>4 DEF TextsInv

LEMMA AsideStep ==
  ASSUME SendInv, Parts', Aside
  PROVE  SendInv'
<1>1. PICK d \in {0, 1} : Shifts(d)
  BY DEF Aside, JobsAside
<1>2. TextsInv'
  BY <1>1, TextsKept DEF SendInv, Aside
<1>3. ASSUME "overtaken" \notin causes' PROVE Straight'
  <2>1. Straight /\ PageInv'
    BY <1>3 DEF SendInv, Aside
  <2>2. JobsInv'
    <3>1. ASSUME NEW i \in DOMAIN jobs', jobs'[i].op \in {"send", "continue"}
          PROVE  jobs'[i].user = toUserId'
      <4>1. /\ i + d \in DOMAIN jobs /\ jobs'[i].op = jobs[i + d].op
            /\ jobs'[i].user = jobs[i + d].user
        BY <1>1, <3>1 DEF Shifts
      <4>2. toUserId' = toUserId
        BY <1>3, <3>1, <4>1 DEF Aside
      <4> QED
        BY <2>1, <3>1, <4>1, <4>2 DEF Straight, JobsInv
    <3>2. ASSUME NEW i \in DOMAIN jobs', jobs'[i].op = "send",
                 NEW m \in Mine', m.text = jobs'[i].text
          PROVE  m.conversation = jobs'[i].user
      <4>1. /\ i + d \in DOMAIN jobs /\ jobs[i + d].op = "send"
            /\ jobs'[i].user = jobs[i + d].user /\ jobs'[i].text = jobs[i + d].text
        BY <1>1, <3>2 DEF Shifts
      <4>2. m \in Mine
        BY <3>2 DEF Aside
      <4> QED
        BY <2>1, <3>2, <4>1, <4>2 DEF Straight, JobsInv
    <3> QED
      BY <3>1, <3>2 DEF JobsInv
  <2>3. SealInv'
    BY <2>1 DEF Aside, SealKept, Straight, SealInv
  <2>4. SentInv'
    BY <2>1 DEF Aside, Straight, SentInv
  <2> QED
    BY <2>1, <2>2, <2>3, <2>4 DEF Straight
<1> QED
  BY <1>2, <1>3 DEF SendInv, Aside

LEMMA QueueKept ==
  ASSUME SendInv
  PROVE  /\ UNCHANGED <<jobs, at>> => JobsAside /\ SealKept /\ QueueInv'
         /\ jobs # <<>> /\ Done => JobsAside /\ SealKept /\ QueueInv'
         /\ \A step \in Steps \ {"out"} :
              jobs # <<>> /\ To(step) => JobsAside /\ SealKept /\ QueueInv'
<1>1. jobs \in Seq(Jobs) /\ DOMAIN jobs = 1 .. Len(jobs) /\ Len(jobs) \in Nat
  BY DEF SendInv, Parts, JobsOK
<1>2. UNCHANGED jobs => Shifts(0)
  BY <1>1 DEF Shifts
<1>3. UNCHANGED <<jobs, at>> => JobsAside /\ SealKept /\ QueueInv'
  BY <1>2 DEF JobsAside, SealKept, SendInv, QueueInv, cur
<1>4. ASSUME jobs # <<>>, Done PROVE JobsAside /\ SealKept /\ QueueInv'
  <2>1. Shifts(1)
    BY <1>1, <1>4, OneLess DEF Done, Shifts
  <2> QED
    BY <1>4, <2>1 DEF Done, JobsAside, SealKept, QueueInv
<1>5. ASSUME NEW step \in Steps \ {"out"}, jobs # <<>>, To(step)
      PROVE  JobsAside /\ SealKept /\ QueueInv'
  BY <1>2, <1>5 DEF To, JobsAside, SealKept, QueueInv
<1> QED
  BY <1>3, <1>4, <1>5

LEMMA PushAside ==
  ASSUME SendInv, NEW j \in Jobs, j.op \notin {"send", "continue"}, Push(j), UNCHANGED at
  PROVE  JobsAside /\ SealKept /\ QueueInv'
<1>1. jobs \in Seq(Jobs) /\ jobs' = Append(jobs, j) /\ DOMAIN jobs = 1 .. Len(jobs) /\ Len(jobs) \in Nat
  BY DEF SendInv, Parts, JobsOK, Push
<1>2. DOMAIN jobs' = 1 .. Len(jobs) + 1 /\ jobs'[Len(jobs) + 1] = j
      /\ \A i \in DOMAIN jobs : jobs'[i] = jobs[i]
  BY <1>1, OneMore
<1>3. Shifts(0)
  BY <1>1, <1>2 DEF Shifts
<1>4. jobs' # <<>>
  BY <1>1
<1>5. SealKept
  <2>1. CASE jobs = <<>>
    <3>1. at' # "out"
      BY <2>1 DEF SendInv, QueueInv
    <3> QED
      BY <3>1 DEF SealKept
  <2>2. CASE jobs # <<>>
    <3>1. cur' = cur
      BY <1>1, <2>2 DEF cur
    <3> QED
      BY <2>2, <3>1 DEF SealKept
  <2> QED
    BY <2>1, <2>2
<1> QED
  BY <1>3, <1>4, <1>5 DEF JobsAside, QueueInv

(* Emptying the users list marks jobs and changes nothing else of them;    *)
(* the page's button has a fetch follow them.                              *)
LEMMA FreedAside ==
  ASSUME SendInv, NEW q, q = [i \in DOMAIN jobs |-> Freed(jobs[i])]
  PROVE  /\ jobs # <<>> /\ jobs' = q /\ at' # "out" => JobsAside /\ SealKept /\ QueueInv'
         /\ \A j \in Jobs : j.op = "fetch" /\ jobs' = Append(q, j) /\ UNCHANGED at =>
              JobsAside /\ SealKept /\ QueueInv'
<1>1. jobs \in Seq(Jobs) /\ DOMAIN jobs = 1 .. Len(jobs) /\ Len(jobs) \in Nat
  BY DEF SendInv, Parts, JobsOK
<1>2. /\ q \in Seq(Jobs) /\ DOMAIN q = DOMAIN jobs /\ Len(q) = Len(jobs)
      /\ \A i \in DOMAIN q : /\ q[i].op = jobs[i].op /\ q[i].user = jobs[i].user
                             /\ q[i].text = jobs[i].text /\ q[i].sealed = jobs[i].sealed
  BY FreedTypes DEF SendInv
<1>3. ASSUME jobs # <<>>, jobs' = q, at' # "out" PROVE JobsAside /\ SealKept /\ QueueInv'
  <2>1. Shifts(0)
    BY <1>1, <1>2, <1>3 DEF Shifts
  <2>2. jobs' # <<>>
    BY <1>1, <1>2, <1>3
  <2> QED
    BY <1>3, <2>1, <2>2 DEF JobsAside, SealKept, QueueInv
<1>4. ASSUME NEW j \in Jobs, j.op = "fetch", jobs' = Append(q, j), UNCHANGED at
      PROVE  JobsAside /\ SealKept /\ QueueInv'
  <2>1. DOMAIN jobs' = 1 .. Len(jobs) + 1 /\ jobs'[Len(jobs) + 1] = j
        /\ \A i \in DOMAIN jobs : jobs'[i] = q[i]
    BY <1>1, <1>2, <1>4, OneMore
  <2>2. Shifts(0)
    BY <1>1, <1>2, <1>4, <2>1 DEF Shifts
  <2>3. jobs' # <<>>
    BY <1>2, <1>4, OneMore
  <2>4. SealKept
    <3>1. CASE jobs = <<>>
      <4>1. at' # "out"
        BY <1>4, <3>1 DEF SendInv, QueueInv
      <4> QED
        BY <4>1 DEF SealKept
    <3>2. CASE jobs # <<>>
      <4>1. 1 \in DOMAIN jobs /\ 1 \in DOMAIN q /\ cur = jobs[1]
        BY <1>1, <1>2, <3>2 DEF cur
      <4>2. cur' = q[1]
        BY <1>2, <1>4, <2>1, <4>1 DEF cur
      <4> QED
        BY <1>2, <1>4, <3>2, <4>1, <4>2 DEF SealKept
    <3> QED
      BY <3>1, <3>2
  <2> QED
    BY <2>2, <2>3, <2>4 DEF JobsAside, QueueInv
<1> QED
  BY <1>3, <1>4

LEMMA FrameKept ==
  ASSUME SendInv
  PROVE  /\ UNCHANGED <<page, ui, pressed>> => FrameInv'
         /\ RenderFree /\ UNCHANGED <<ui, pressed>> => FrameInv'
         /\ ~pressed' => FrameInv'
         /\ ui' \notin Drawings => FrameInv'
         /\ ui' = page' => FrameInv'
  BY DEF SendInv, FrameInv, Drawing, RenderFree

LEMMA MineKept ==
  ASSUME SendInv, UNCHANGED db
  PROVE  StreamsInv' /\ Mine' \subseteq Mine
  BY DEF SendInv, StreamsInv, Mine

LEMMA PageKept ==
  ASSUME SendInv, "overtaken" \notin causes
  PROVE  /\ UNCHANGED <<page, named, toUserId>> => PageInv'
         /\ page' # "conversation" => PageInv'
         /\ named' = toUserId' => PageInv'
  BY DEF SendInv, Straight, PageInv

LEMMA ActsKept ==
  ASSUME Parts, NEW why \in SUBSET Causes, Acts(why)
  PROVE  acts <= acts' /\ causes \subseteq causes' /\ causes' = causes \cup why
  BY TextFields DEF Acts

LEMMA ActsStay ==
  ASSUME Parts
  PROVE  /\ UNCHANGED acts => acts <= acts'
         /\ UNCHANGED past => acts <= acts' /\ sent' = sent /\ causes \subseteq causes'
  BY TextFields DEF past

LEMMA SendKept ==
  ASSUME SendInv, UNCHANGED vars
  PROVE  SendInv'
<1> USE DEF vars, view, frame, lists, thread, net, past
<1>1. Parts'
  BY AllKept DEF SendInv
<1>2. JobsAside /\ SealKept /\ QueueInv' /\ FrameInv' /\ StreamsInv' /\ Mine' \subseteq Mine
  BY QueueKept, FrameKept, MineKept
<1>3. acts <= acts' /\ sent' = sent /\ causes \subseteq causes'
  BY ActsStay DEF SendInv
<1>4. "overtaken" \notin causes' => PageInv'
  BY PageKept
<1> QED
  BY <1>1, <1>2, <1>3, <1>4, AsideStep DEF Aside

LEMMA SendAborted ==
  ASSUME SendInv, Parts', UNCHANGED <<view, frame, lists, db, thread, acts, sent>>,
         causes \subseteq causes'
  PROVE  SendInv'
<1> USE DEF view, frame, lists, thread
<1>1. JobsAside /\ SealKept /\ QueueInv' /\ FrameInv' /\ StreamsInv' /\ Mine' \subseteq Mine
  BY QueueKept, FrameKept, MineKept
<1>2. acts <= acts'
  BY ActsStay DEF SendInv
<1>3. "overtaken" \notin causes' => PageInv'
  BY PageKept
<1> QED
  BY <1>1, <1>2, <1>3, AsideStep DEF Aside

LEMMA AbortKeeps ==
  ASSUME SendInv, Parts', NEW what, Abort(what)
  PROVE  SendInv'
  BY SendAborted DEF Abort, past

(* A user who is chosen, by a click or by an accepted invite, when nothing *)
(* is on its way.                                                          *)
LEMMA ChosenInTime ==
  ASSUME SendInv, NEW u, toUserId' = u, Overtaken(u) \subseteq causes', causes \subseteq causes',
         UNCHANGED <<page, named>>, "overtaken" \notin causes'
  PROVE  /\ PageInv'
         /\ \/ toUserId' = toUserId
            \/ \A i \in DOMAIN jobs : jobs[i].op \notin {"send", "continue"}
<1>1. ~Overtakes(u)
  BY DEF Overtaken
<1>2. CASE u = toUserId
  <2>1. "overtaken" \notin causes
    OBVIOUS
  <2> QED
    BY <1>2, <2>1, PageKept
<1>3. CASE u # toUserId
  <2>1. page = "users" /\ \A j \in Pending : j.op \notin {"send", "continue"}
    BY <1>1, <1>3 DEF Overtakes
  <2>2. PageInv'
    BY <2>1 DEF PageInv
  <2>3. \A i \in DOMAIN jobs : jobs[i] \in Pending
    BY DEF Pending, Range
  <2> QED
    BY <2>1, <2>2, <2>3
<1> QED
  BY <1>2, <1>3

LEMMA ChooseSend ==
  ASSUME SendInv, Parts', NEW op \in {"continue", "delete", "start"}, NEW why \in SUBSET Causes,
         Choose(op, why)
  PROVE  SendInv'
<1> USE DEF view, frame, lists, thread, net, past
<1>1. PICK u : u = usersList[row + 1].id
  OBVIOUS
<1>2. /\ Acts(why \cup Overtaken(u)) /\ toUserId' = u /\ Push(Job(op, u, 0)) /\ ~pressed'
      /\ UNCHANGED <<page, named, db, at, sent>>
  BY <1>1 DEF Choose, Chooses, Chosen, HitRow, HitOn
<1>3. Parts /\ why \cup Overtaken(u) \in SUBSET Causes
  BY Reasons DEF SendInv
<1>4. acts <= acts' /\ causes \subseteq causes' /\ Overtaken(u) \subseteq causes'
  BY <1>2, <1>3, ActsKept
<1>5. row + 1 \in DOMAIN usersList
  BY <1>3, HitRowTypes DEF Choose
<1>6. u \in Peers
  BY <1>1, <1>3, <1>5, RowTypes
<1>7. /\ Job(op, u, 0) \in Jobs /\ Job(op, u, 0).op = op
      /\ Job(op, u, 0).user = u /\ Job(op, u, 0).text = 0
  <2>1. 0 \in 0..MaxActs
    BY ActsAssumption
  <2> QED
    BY <1>3, <1>6, <2>1, NewJob DEF Ops
<1>8. FrameInv' /\ StreamsInv' /\ Mine' \subseteq Mine
  BY <1>2, FrameKept, MineKept
<1>9. "overtaken" \notin causes' =>
        /\ PageInv'
        /\ \/ toUserId' = toUserId
           \/ \A i \in DOMAIN jobs : jobs[i].op \notin {"send", "continue"}
  BY <1>2, <1>4, ChosenInTime
<1>10. CASE op # "continue"
  <2>1. JobsAside /\ SealKept /\ QueueInv'
    BY <1>2, <1>7, <1>10, PushAside
  <2> QED
    BY <1>2, <1>4, <1>8, <1>9, <2>1, AsideStep DEF Aside
<1>11. CASE op = "continue"
  <2>1. jobs \in Seq(Jobs) /\ jobs' = Append(jobs, Job(op, u, 0)) /\ jobs' # <<>>
    BY <1>2, <1>3, <1>7, OneMore DEF Parts, JobsOK, Push
  <2>2. /\ DOMAIN jobs = 1 .. Len(jobs) /\ Len(jobs) \in Nat /\ DOMAIN jobs' = 1 .. Len(jobs) + 1
        /\ jobs'[Len(jobs) + 1] = Job(op, u, 0) /\ \A i \in DOMAIN jobs : jobs'[i] = jobs[i]
    BY <1>7, <2>1, OneMore
  <2>3. ASSUME NEW i \in DOMAIN jobs'
        PROVE  \/ i \in DOMAIN jobs /\ jobs'[i] = jobs[i]
               \/ jobs'[i].op = "continue" /\ jobs'[i].user = u
    BY <1>7, <1>11, <2>2
  <2>4. TextsInv'
    <3>1. ASSUME NEW i \in DOMAIN jobs', jobs'[i].op = "send"
          PROVE  i \in DOMAIN jobs /\ jobs'[i] = jobs[i]
      BY <2>3, <3>1
    <3>2. TextsInv /\ acts' \in Nat /\ acts \in Nat
      BY TextFields DEF SendInv, Parts, PastOK
    <3>3. \A m \in Mine' : m.text <= acts'
      BY <1>3, <1>4, <1>8, <3>2, TextFields DEF TextsInv
    <3>4. \A s \in sent' : s.text <= acts'
      BY <1>2, <1>3, <1>4, <3>2, TextFields DEF TextsInv
    <3>5. \A i \in DOMAIN jobs' : jobs'[i].op = "send" => jobs'[i].text <= acts'
      BY <1>3, <1>4, <3>1, <3>2, TextFields DEF TextsInv
    <3>6. \A i \in DOMAIN jobs' : jobs'[i].op = "send" => \A s \in sent' : s.text # jobs'[i].text
      BY <1>2, <3>1, <3>2 DEF TextsInv
    <3>7. \A i \in DOMAIN jobs' : jobs'[i].op = "send" =>
            \A k \in DOMAIN jobs' : jobs'[k].op = "send" /\ jobs'[k].text = jobs'[i].text => k = i
      BY <3>1, <3>2 DEF TextsInv
    <3> QED
      BY <3>3, <3>4, <3>5, <3>6, <3>7 DEF TextsInv
  <2>5. ASSUME "overtaken" \notin causes' PROVE Straight'
    <3>1. Straight /\ PageInv'
      BY <1>4, <1>9, <2>5 DEF SendInv
    <3>2. \A i \in DOMAIN jobs' : jobs'[i].op \in {"send", "continue"} => jobs'[i].user = toUserId'
      BY <1>2, <1>9, <2>3, <2>5, <3>1 DEF Straight, JobsInv
    <3>3. \A i \in DOMAIN jobs' : jobs'[i].op = "send" =>
            \A m \in Mine' : m.text = jobs'[i].text => m.conversation = jobs'[i].user
      BY <1>8, <2>3, <3>1 DEF Straight, JobsInv
    <3>4. SealInv'
      <4>1. CASE jobs = <<>>
        <5>1. at' # "out"
          BY <1>2, <4>1 DEF SendInv, QueueInv
        <5> QED
          BY <5>1 DEF SealInv
      <4>2. CASE jobs # <<>>
        <5>1. cur' = cur
          BY <2>1, <2>2, <4>2 DEF cur
        <5> QED
          BY <1>2, <3>1, <4>2, <5>1 DEF Straight, SealInv
      <4> QED
        BY <4>1, <4>2
    <3>5. SentInv'
      BY <1>2, <1>8, <3>1 DEF Straight, SentInv
    <3> QED
      BY <3>1, <3>2, <3>3, <3>4, <3>5 DEF Straight, JobsInv
  <2>6. QueueInv'
    BY <2>1 DEF QueueInv
  <2> QED
    BY <1>8, <2>4, <2>5, <2>6 DEF SendInv
<1> QED
  BY <1>10, <1>11

LEMMA ClickSendSend ==
  ASSUME SendInv, Parts', ClickSend
  PROVE  SendInv'
<1> USE DEF view, frame, lists, thread, net, past
<1>1. PICK n \in TextSizes :
        /\ Acts(IF n = MaxMessagePlainPayloadSize THEN {"longest"} ELSE {})
        /\ Push([Job("send", named, acts + 1) EXCEPT !.size = n])
  BY DEF ClickSend
<1>2. (IF n = MaxMessagePlainPayloadSize THEN {"longest"} ELSE {}) \in SUBSET Causes
  BY DEF Causes
<1>3. Parts /\ acts' = acts + 1 /\ acts + 1 \in 1..MaxActs /\ causes \subseteq causes'
  BY <1>1, <1>2, ActsTypes, ActsKept DEF SendInv
<1>4. acts \in Nat /\ acts + 1 \in 0..MaxActs
  BY <1>3, TextFields, ActsAssumption
<1>5. PICK j : j = [Job("send", named, acts + 1) EXCEPT !.size = n]
  OBVIOUS
<1>6. named \in Peers \cup {NoUser}
  BY <1>3 DEF Parts, ViewOK
<1>7. j \in Jobs /\ j.op = "send" /\ j.user = named /\ j.text = acts + 1
  <2>1. "send" \in Ops
    BY DEF Ops
  <2> QED
    BY <1>3, <1>4, <1>5, <1>6, <2>1, NewJob
<1>8. /\ ui = "conversation" /\ pressed /\ ~pressed'
      /\ UNCHANGED <<page, named, toUserId, db, at, sent>>
  BY DEF ClickSend, HitBelow, HitOn
<1>9. page = "conversation"
  BY <1>8 DEF SendInv, FrameInv, Drawing, Drawings
<1>10. FrameInv' /\ StreamsInv' /\ Mine' = Mine
  BY <1>8, FrameKept, MineKept DEF Mine
<1>11. jobs \in Seq(Jobs) /\ jobs' = Append(jobs, j) /\ jobs' # <<>>
  BY <1>1, <1>3, <1>5, <1>7, OneMore DEF Parts, JobsOK, Push
<1>12. /\ DOMAIN jobs = 1 .. Len(jobs) /\ Len(jobs) \in Nat /\ DOMAIN jobs' = 1 .. Len(jobs) + 1
       /\ jobs'[Len(jobs) + 1] = j /\ \A i \in DOMAIN jobs : jobs'[i] = jobs[i]
  BY <1>7, <1>11, OneMore
<1>13. ASSUME NEW i \in DOMAIN jobs'
       PROVE  \/ i \in DOMAIN jobs /\ jobs'[i] = jobs[i]
              \/ i = Len(jobs) + 1 /\ jobs'[i] = j
  BY <1>12
<1>14. TextsInv'
  <2>1. TextsInv /\ \A i \in DOMAIN jobs : jobs[i].text \in Nat
    BY <1>3, TextFields DEF SendInv
  <2>2. \A m \in Mine' : m.text <= acts'
    BY <1>3, <1>4, <1>10, <2>1, TextFields DEF TextsInv
  <2>3. \A s \in sent' : s.text <= acts'
    BY <1>3, <1>4, <1>8, <2>1, TextFields DEF TextsInv
  <2>4. \A i \in DOMAIN jobs' : jobs'[i].op = "send" => jobs'[i].text <= acts'
    BY <1>3, <1>4, <1>7, <1>13, <2>1 DEF TextsInv
  <2>5. \A s \in sent : s.text # acts + 1
    BY <1>3, <1>4, <2>1, TextFields DEF TextsInv
  <2>6. \A i \in DOMAIN jobs' : jobs'[i].op = "send" => \A s \in sent' : s.text # jobs'[i].text
    BY <1>7, <1>8, <1>13, <2>1, <2>5 DEF TextsInv
  <2>7. \A i \in DOMAIN jobs : jobs[i].op = "send" => jobs[i].text # acts + 1
    BY <1>4, <2>1 DEF TextsInv
  <2>8. \A i \in DOMAIN jobs' : jobs'[i].op = "send" =>
          \A k \in DOMAIN jobs' : jobs'[k].op = "send" /\ jobs'[k].text = jobs'[i].text => k = i
    BY <1>7, <1>13, <2>1, <2>7 DEF TextsInv
  <2> QED
    BY <2>2, <2>3, <2>4, <2>6, <2>8 DEF TextsInv
<1>15. ASSUME "overtaken" \notin causes' PROVE Straight'
  <2>1. Straight
    BY <1>3, <1>15 DEF SendInv
  <2>2. named = toUserId /\ PageInv'
    BY <1>8, <1>9, <2>1 DEF Straight, PageInv
  <2>3. \A i \in DOMAIN jobs' : jobs'[i].op \in {"send", "continue"} => jobs'[i].user = toUserId'
    BY <1>7, <1>8, <1>13, <2>1, <2>2 DEF Straight, JobsInv
  <2>4. \A m \in Mine : m.text # acts + 1
    BY <1>3, <1>4, TextFields DEF SendInv, TextsInv
  <2>5. \A i \in DOMAIN jobs' : jobs'[i].op = "send" =>
          \A m \in Mine' : m.text = jobs'[i].text => m.conversation = jobs'[i].user
    BY <1>7, <1>10, <1>13, <2>1, <2>4 DEF Straight, JobsInv
  <2>6. SealInv'
    <3>1. CASE jobs = <<>>
      <4>1. at' # "out"
        BY <1>8, <3>1 DEF SendInv, QueueInv
      <4> QED
        BY <4>1 DEF SealInv
    <3>2. CASE jobs # <<>>
      <4>1. cur' = cur
        BY <1>11, <1>12, <3>2 DEF cur
      <4> QED
        BY <1>8, <2>1, <3>2, <4>1 DEF Straight, SealInv
    <3> QED
      BY <3>1, <3>2
  <2>7. SentInv'
    BY <1>8, <1>10, <2>1 DEF Straight, SentInv
  <2> QED
    BY <2>2, <2>3, <2>5, <2>6, <2>7 DEF Straight, JobsInv
<1>16. QueueInv'
  BY <1>11 DEF QueueInv
<1> QED
  BY <1>10, <1>14, <1>15, <1>16 DEF SendInv

LEMMA ClickKeeps ==
  ASSUME SendInv, Parts', ChooseOffline \/ ClickUpdate \/ ClickBack \/ ClickFile \/ ClickNoFile
  PROVE  SendInv'
<1> USE DEF view, frame, lists, thread, net, past
<1>0. Parts
  BY DEF SendInv
<1>1. CASE ChooseOffline
  <2>1. PICK u : u = usersList[row + 1].id
    OBVIOUS
  <2>2. /\ Acts(Overtaken(u)) /\ toUserId' = u /\ ~pressed'
        /\ UNCHANGED <<page, named, db, jobs, at, sent>>
    BY <1>1, <2>1 DEF ChooseOffline, Chooses, Chosen, HitRow, HitOn
  <2>3. acts <= acts' /\ causes \subseteq causes' /\ Overtaken(u) \subseteq causes'
    BY <1>0, <2>2, ActsKept, Reasons
  <2>4. /\ JobsAside /\ SealKept /\ QueueInv' /\ FrameInv' /\ StreamsInv' /\ Mine' \subseteq Mine
    BY <2>2, QueueKept, FrameKept, MineKept
  <2> QED
    BY <2>2, <2>3, <2>4, ChosenInTime, AsideStep DEF Aside
<1>2. CASE ClickUpdate
  <2>1. CASE Abort("fetchers")
    BY <2>1, AbortKeeps
  <2>2. CASE ~Abort("fetchers")
    <3>1. PICK q : q = [i \in DOMAIN jobs |-> Freed(jobs[i])]
      OBVIOUS
    <3>2. /\ Acts({"update"}) /\ ~pressed' /\ jobs' = Append(q, Job("fetch", NoUser, 0))
          /\ UNCHANGED <<page, named, toUserId, db, at, sent, now>>
      BY <1>2, <2>2, <3>1 DEF ClickUpdate, HitOn
    <3>3. Job("fetch", NoUser, 0) \in Jobs /\ Job("fetch", NoUser, 0).op = "fetch"
      BY <1>0, PlainJob, DbFields, <3>2 DEF Job
    <3>4. JobsAside /\ SealKept /\ QueueInv'
      BY <3>1, <3>2, <3>3, FreedAside
    <3>5. FrameInv' /\ StreamsInv' /\ Mine' \subseteq Mine
      BY <3>2, FrameKept, MineKept
    <3>6. acts <= acts' /\ causes \subseteq causes'
      BY <1>0, <3>2, ActsKept DEF Causes
    <3>7. "overtaken" \notin causes' => PageInv'
      BY <3>2, <3>6, PageKept
    <3> QED
      BY <3>2, <3>4, <3>5, <3>6, <3>7, AsideStep DEF Aside
  <2> QED
    BY <2>1, <2>2
<1>3. CASE ClickBack \/ ClickFile
  <2>1. /\ ~pressed' /\ page' # "conversation" /\ acts <= acts'
        /\ UNCHANGED <<toUserId, db, jobs, at, sent, causes>>
    BY <1>0, <1>3, ActsStay DEF ClickBack, ClickFile, HitBelow, HitOn
  <2>2. JobsAside /\ SealKept /\ QueueInv' /\ FrameInv' /\ StreamsInv' /\ Mine' \subseteq Mine
    BY <2>1, QueueKept, FrameKept, MineKept
  <2> QED
    BY <2>1, <2>2, PageKept, AsideStep DEF Aside
<1>4. CASE ClickNoFile
  <2>1. CASE Abort("search")
    BY <2>1, AbortKeeps
  <2>2. CASE ~Abort("search")
    <3>1. /\ ~pressed' /\ named' = toUserId' /\ acts <= acts' /\ causes \subseteq causes'
          /\ UNCHANGED <<toUserId, db, jobs, at, sent>>
      BY <1>0, <1>4, <2>2, ActsStay DEF ClickNoFile, HitBelow, HitOn
    <3>2. JobsAside /\ SealKept /\ QueueInv' /\ FrameInv' /\ StreamsInv' /\ Mine' \subseteq Mine
      BY <3>1, QueueKept, FrameKept, MineKept
    <3>3. "overtaken" \notin causes' => PageInv'
      BY <3>1, PageKept
    <3> QED
      BY <3>1, <3>2, <3>3, AsideStep DEF Aside
  <2> QED
    BY <2>1, <2>2
<1> QED
  BY <1>1, <1>2, <1>3, <1>4

LEMMA DrawingKeeps ==
  ASSUME SendInv, Parts',
         \/ Press \/ BeginDraw \/ DrawRow \/ EndDraw
         \/ PasteLooks \/ PasteChooses \/ PasteAlters
  PROVE  SendInv'
<1> USE DEF view, frame, lists, thread, net, past
<1>1. CASE \E what : Abort(what)
  BY <1>1, AbortKeeps
<1>2. CASE ~ \E what : Abort(what)
  <2>1. /\ UNCHANGED <<page, named, toUserId, db, jobs, at, sent>>
        /\ \/ UNCHANGED <<acts, causes>>
           \/ Acts({})
    BY <1>2 DEF Press, BeginDraw, DrawRow, EndDraw, PasteLooks, PasteChooses, PasteAlters
  <2>2. acts <= acts' /\ causes \subseteq causes'
    BY <2>1, ActsKept, ActsStay DEF SendInv
  <2>3. JobsAside /\ SealKept /\ QueueInv' /\ StreamsInv' /\ Mine' \subseteq Mine
    BY <2>1, QueueKept, MineKept
  <2>4. FrameInv'
    <3>1. \/ ui' \notin Drawings \/ ui' = page' \/ UNCHANGED <<ui, pressed, page>>
      BY <1>2 DEF Press, BeginDraw, DrawRow, EndDraw, PasteLooks, PasteChooses, PasteAlters, Drawings
    <3> QED
      BY <3>1, FrameKept
  <2>5. "overtaken" \notin causes' => PageInv'
    BY <2>1, <2>2, PageKept
  <2> QED
    BY <2>1, <2>2, <2>3, <2>4, <2>5, AsideStep DEF Aside
<1> QED
  BY <1>1, <1>2

LEMMA UIKeeps ==
  ASSUME SendInv, Parts', UIThread
  PROVE  SendInv'
<1>1. CASE ChooseContinue
  BY <1>1, ChooseSend DEF ChooseContinue
<1>2. CASE ChooseDelete
  BY <1>2, ChooseSend DEF ChooseDelete, Causes
<1>3. CASE ChooseStart
  BY <1>3, ChooseSend DEF ChooseStart, Causes
<1> QED
  BY <1>1, <1>2, <1>3, DrawingKeeps, ClickKeeps, ClickSendSend DEF UIThread, Clicks

(* The three steps of sendMessage, each of which reads toUserId.           *)
LEMMA FirstJob ==
  ASSUME SendInv, NEW op, NEW step, Runs(op, step)
  PROVE  /\ jobs # <<>> /\ cur.op = op /\ at = step /\ cur = jobs[1] /\ 1 \in DOMAIN jobs
         /\ cur \in Jobs /\ IsJob(cur)
  BY RunsType DEF SendInv, Runs

LEMMA StoresKeeps ==
  ASSUME SendInv, Parts', SendStores
  PROVE  SendInv'
<1> USE DEF view, frame, lists, thread, net, past
<1>1. CASE Abort("insert")
  BY <1>1, AbortKeeps
<1>2. CASE /\ causes' = causes \cup {"sameTime"}
           /\ UNCHANGED <<view, frame, lists, db, thread, net, now, acts, sent>>
  <2>1. causes \subseteq causes'
    BY <1>2
  <2> QED
    BY <1>2, <2>1, SendAborted
<1>3. CASE /\ On("send", "first") /\ To("seal") /\ UNCHANGED <<view, lists, sent, causes>>
           /\ \E t \in Times : LET m == Message(t, toUserId, Me, cur.text) IN
                MayAddMessage(db, m) /\ db' = addMessage(db, m) /\ now' = t
  <2>1. PICK t \in Times : LET m == Message(t, toUserId, Me, cur.text) IN db' = addMessage(db, m)
    BY <1>3
  <2>2. PICK m : m = Message(t, toUserId, Me, cur.text) /\ db' = addMessage(db, m)
    BY <2>1
  <2>3. m.text = cur.text /\ m.conversation = toUserId
    BY <2>2 DEF Message
  <2>4. /\ jobs # <<>> /\ cur.op = "send" /\ cur = jobs[1] /\ 1 \in DOMAIN jobs
    BY <1>3, FirstJob DEF On
  <2>5. /\ UNCHANGED <<page, named, ui, pressed, toUserId, jobs, sent, causes, acts>> /\ at' = "seal"
    BY <1>3 DEF On, To
  <2>6. Parts
    BY DEF SendInv
  <2>7. db'.conversations = db.conversations /\ db'.messages = db.messages \cup {m}
    BY <2>2, <2>6, DbFields DEF addMessage
  <2>8. Mine' \subseteq Mine \cup {m}
    BY <2>7 DEF Mine
  <2>9. QueueInv' /\ FrameInv' /\ StreamsInv'
    <3>1. QueueInv'
      BY <2>4, <2>5 DEF QueueInv
    <3>2. FrameInv'
      BY <2>5, FrameKept
    <3>3. StreamsInv'
      BY <2>7 DEF SendInv, StreamsInv
    <3> QED
      BY <3>1, <3>2, <3>3
  <2>10. cur.text <= acts /\ \A s \in sent : s.text # cur.text
    BY <2>4 DEF SendInv, TextsInv
  <2>11. TextsInv'
    <3>1. \A n \in Mine' : n.text <= acts'
      BY <2>3, <2>5, <2>8, <2>10 DEF SendInv, TextsInv
    <3> QED
      BY <2>5, <3>1 DEF SendInv, TextsInv
  <2>12. ASSUME "overtaken" \notin causes' PROVE Straight'
    <3>1. Straight
      BY <2>5, <2>12 DEF SendInv
    <3>2. PageInv'
      BY <2>5, <3>1 DEF Straight, PageInv
    <3>3. JobsInv'
      BY <2>3, <2>5, <2>8, <3>1 DEF Straight, JobsInv
    <3>4. SealInv'
      BY <2>5 DEF SealInv
    <3>5. SentInv'
      BY <2>3, <2>5, <2>8, <2>10, <3>1 DEF Straight, SentInv
    <3> QED
      BY <3>2, <3>3, <3>4, <3>5 DEF Straight
  <2> QED
    BY <2>9, <2>11, <2>12 DEF SendInv
<1> QED
  BY <1>1, <1>2, <1>3 DEF SendStores

LEMMA SealsKeeps ==
  ASSUME SendInv, Parts', SendSeals
  PROVE  SendInv'
<1> USE DEF view, frame, lists, thread, net, past
<1>1. CASE \E what : Abort(what)
  BY <1>1, AbortKeeps
<1>2. CASE ~ \E what : Abort(what)
  <2>1. /\ Runs("send", "seal") /\ conversationExists(db, toUserId)
        /\ jobs' = [jobs EXCEPT ![1].sealed = getConversation(db, toUserId)] /\ at' = "out"
        /\ UNCHANGED <<page, named, ui, pressed, toUserId, db, sent, causes, acts>>
    BY <1>2 DEF SendSeals, On
  <2>2. jobs # <<>> /\ cur \in Jobs /\ cur.op = "send" /\ cur = jobs[1] /\ 1 \in DOMAIN jobs
    BY <2>1, FirstJob
  <2>3. Parts /\ jobs \in Seq(Jobs)
    BY DEF SendInv, Parts, JobsOK
  <2>4. getConversation(db, toUserId) = toUserId
    BY <2>1, <2>3, RowFound DEF SendInv, StreamsInv, getConversation
  <2>5. jobs' = [jobs EXCEPT ![1].sealed = toUserId]
    BY <2>1, <2>4
  <2>6. PICK j : j = [cur EXCEPT !.sealed = toUserId]
    OBVIOUS
  <2>7. jobs' = [jobs EXCEPT ![1] = j]
    BY <2>2, <2>5, <2>6
  <2>8. j.op = "send" /\ j.user = cur.user /\ j.text = cur.text /\ j.sealed = toUserId
    BY <2>2, <2>6 DEF Jobs
  <2>9. DOMAIN jobs' = DOMAIN jobs /\ \A i \in DOMAIN jobs : jobs'[i] = IF i = 1 THEN j ELSE jobs[i]
    BY <2>3, <2>7
  <2>10. ASSUME NEW i \in DOMAIN jobs
         PROVE  jobs'[i].op = jobs[i].op /\ jobs'[i].user = jobs[i].user /\ jobs'[i].text = jobs[i].text
    BY <2>2, <2>8, <2>9
  <2>11. jobs' # <<>> /\ cur' = j
    <3>1. jobs' \in Seq(Jobs)
      BY DEF Parts, JobsOK
    <3>2. 1 \in DOMAIN jobs' /\ jobs'[1] = j
      BY <2>2, <2>9
    <3>3. jobs' # <<>>
      BY <3>2
    <3> QED
      BY <3>1, <3>2, <3>3, OneLess DEF cur
  <2>12. QueueInv' /\ FrameInv' /\ StreamsInv' /\ Mine' = Mine
    <3>1. FrameInv' /\ StreamsInv' /\ Mine' = Mine
      BY <2>1, FrameKept, MineKept DEF Mine
    <3>2. QueueInv'
      BY <2>11 DEF QueueInv
    <3> QED
      BY <3>1, <3>2
  <2>13. TextsInv'
    BY <2>1, <2>9, <2>10, <2>12 DEF SendInv, TextsInv
  <2>14. ASSUME "overtaken" \notin causes' PROVE Straight'
    <3>1. Straight
      BY <2>1, <2>14 DEF SendInv
    <3>2. PageInv'
      BY <2>1, <3>1 DEF Straight, PageInv
    <3>3. JobsInv'
      BY <2>1, <2>9, <2>10, <2>12, <3>1 DEF Straight, JobsInv
    <3>4. SealInv'
      <4>1. cur.user = toUserId
        BY <2>2, <3>1 DEF Straight, JobsInv
      <4> QED
        BY <2>8, <2>11, <4>1 DEF SealInv
    <3>5. SentInv'
      BY <2>1, <2>12, <3>1 DEF Straight, SentInv
    <3> QED
      BY <3>2, <3>3, <3>4, <3>5 DEF Straight
  <2> QED
    BY <2>12, <2>13, <2>14 DEF SendInv
<1> QED
  BY <1>1, <1>2

LEMMA GoesOutKeeps ==
  ASSUME SendInv, Parts', SendGoesOut
  PROVE  SendInv'
<1> USE DEF view, frame, lists, thread, net, past
<1>1. PICK s : s = [text |-> cur.text, shown |-> cur.user, sealed |-> cur.sealed, to |-> toUserId]
  OBVIOUS
<1>2. /\ Runs("send", "out") /\ sent' = sent \cup {s} /\ Done
      /\ UNCHANGED <<page, named, ui, pressed, toUserId, db, causes, acts>>
  BY <1>1 DEF SendGoesOut, On
<1>3. jobs # <<>> /\ cur.op = "send" /\ at = "out" /\ cur = jobs[1] /\ 1 \in DOMAIN jobs
  BY <1>2, FirstJob
<1>4. Parts /\ jobs \in Seq(Jobs)
  BY DEF SendInv, Parts, JobsOK
<1>5. /\ Len(jobs) \in Nat /\ DOMAIN jobs = 1 .. Len(jobs) /\ DOMAIN jobs' = 1 .. Len(jobs) - 1
      /\ \A i \in DOMAIN jobs' : i + 1 \in DOMAIN jobs /\ jobs'[i] = jobs[i + 1]
  BY <1>2, <1>3, <1>4, OneLess DEF Done
<1>6. /\ FrameInv' /\ StreamsInv' /\ Mine' = Mine
  BY <1>2, FrameKept, MineKept DEF Mine
<1>7. QueueInv' /\ at' = "first"
  BY <1>2 DEF Done, QueueInv
<1>8. TextsInv'
  <2>1. cur.text <= acts
    BY <1>3 DEF SendInv, TextsInv
  <2>2. TextsInv
    BY DEF SendInv
  <2>3. \A m \in Mine' : m.text <= acts'
    BY <1>2, <1>6, <2>2 DEF TextsInv
  <2>4. \A r \in sent' : r.text <= acts'
    BY <1>1, <1>2, <2>1, <2>2 DEF TextsInv
  <2>5. ASSUME NEW i \in DOMAIN jobs', jobs'[i].op = "send"
        PROVE  /\ jobs'[i].text <= acts'
               /\ \A r \in sent' : r.text # jobs'[i].text
               /\ \A k \in DOMAIN jobs' :
                    jobs'[k].op = "send" /\ jobs'[k].text = jobs'[i].text => k = i
    <3>1. i \in Nat /\ i + 1 \in DOMAIN jobs /\ i + 1 # 1 /\ jobs'[i] = jobs[i + 1]
      BY <1>5
    <3>2. jobs'[i].text # cur.text
      BY <1>3, <2>2, <2>5, <3>1 DEF TextsInv
    <3>3. \A r \in sent' : r.text # jobs'[i].text
      BY <1>1, <1>2, <2>2, <2>5, <3>1, <3>2 DEF TextsInv
    <3>4. ASSUME NEW k \in DOMAIN jobs', jobs'[k].op = "send", jobs'[k].text = jobs'[i].text
          PROVE  k = i
      <4>1. k \in Nat /\ k + 1 \in DOMAIN jobs /\ jobs'[k] = jobs[k + 1]
        BY <1>5
      <4>2. k + 1 = i + 1
        BY <2>2, <2>5, <3>1, <3>4, <4>1 DEF TextsInv
      <4> QED
        BY <3>1, <4>1, <4>2
    <3>5. jobs'[i].text <= acts'
      BY <1>2, <2>2, <2>5, <3>1 DEF TextsInv
    <3> QED
      BY <3>3, <3>4, <3>5
  <2> QED
    BY <2>3, <2>4, <2>5 DEF TextsInv
<1>9. ASSUME "overtaken" \notin causes' PROVE Straight'
  <2>1. Straight
    BY <1>2, <1>9 DEF SendInv
  <2>2. PageInv'
    BY <1>2, <2>1 DEF Straight, PageInv
  <2>3. JobsInv'
    <3>1. ASSUME NEW i \in DOMAIN jobs', jobs'[i].op \in {"send", "continue"}
          PROVE  jobs'[i].user = toUserId'
      BY <1>2, <1>5, <2>1, <3>1 DEF Straight, JobsInv
    <3>2. ASSUME NEW i \in DOMAIN jobs', jobs'[i].op = "send",
                 NEW m \in Mine', m.text = jobs'[i].text
          PROVE  m.conversation = jobs'[i].user
      BY <1>5, <1>6, <2>1, <3>2 DEF Straight, JobsInv
    <3> QED
      BY <3>1, <3>2 DEF JobsInv
  <2>4. SealInv'
    BY <1>7 DEF SealInv
  <2>5. SentInv'
    <3>1. cur.user = toUserId /\ cur.sealed = cur.user
      BY <1>3, <2>1 DEF Straight, JobsInv, SealInv
    <3>2. \A m \in Mine : m.text = cur.text => m.conversation = cur.user
      BY <1>3, <2>1 DEF Straight, JobsInv
    <3> QED
      BY <1>1, <1>2, <1>6, <2>1, <3>1, <3>2 DEF Straight, SentInv
  <2> QED
    BY <2>2, <2>3, <2>4, <2>5 DEF Straight
<1> QED
  BY <1>6, <1>7, <1>8, <1>9 DEF SendInv

(* The other jobs.                                                         *)

LEMMA ReceiveKeeps ==
  ASSUME SendInv, Parts', Receive \/ ReceiveShows
  PROVE  SendInv'
<1> USE DEF view, frame, lists, thread, net, past
<1>1. CASE Abort("search")
  BY <1>1, AbortKeeps
<1>2. CASE /\ causes' = causes \cup {"sameTime"}
           /\ UNCHANGED <<view, frame, lists, db, thread, net, now, acts, sent>>
  <2>1. causes \subseteq causes'
    BY <1>2
  <2> QED
    BY <1>2, <2>1, SendAborted
<1>3. CASE /\ ~Abort("search")
           /\ ~(/\ causes' = causes \cup {"sameTime"}
                /\ UNCHANGED <<view, frame, lists, db, thread, net, now, acts, sent>>)
  <2>1. /\ \E step : Runs("receive", step)
        /\ UNCHANGED <<page, named, ui, pressed, toUserId, sent, causes, acts>>
        /\ To("show") \/ Done
    BY <1>3 DEF Receive, ReceiveShows, On
  <2>2. UNCHANGED db \/ db' = addMessage(db, Message(cur.time, cur.user, cur.user, cur.text))
    BY <1>3 DEF Receive, ReceiveShows
  <2>3. jobs # <<>> /\ cur.op = "receive" /\ IsJob(cur) /\ Parts
    BY <2>1, FirstJob DEF SendInv
  <2>4. JobsAside /\ SealKept /\ QueueInv'
    BY <2>1, <2>3, QueueKept DEF Steps
  <2>5. FrameInv' /\ acts <= acts' /\ ("overtaken" \notin causes' => PageInv')
    BY <2>1, <2>3, FrameKept, ActsStay, PageKept
  <2>6. StreamsInv' /\ Mine' \subseteq Mine
    <3>1. CASE UNCHANGED db
      BY <3>1, MineKept
    <3>2. CASE db' = addMessage(db, Message(cur.time, cur.user, cur.user, cur.text))
      <4>1. PICK m : m = Message(cur.time, cur.user, cur.user, cur.text) /\ db' = addMessage(db, m)
        BY <3>2
      <4>2. m.from \in Peers
        BY <2>3, <4>1 DEF Message, IsJob
      <4>3. m.from # Me
        BY <4>2, UsersAssumption
      <4>4. db'.conversations = db.conversations /\ db'.messages = db.messages \cup {m}
        BY <2>3, <4>1, DbFields DEF addMessage
      <4> QED
        BY <4>3, <4>4 DEF SendInv, StreamsInv, Mine
    <3> QED
      BY <2>2, <3>1, <3>2
  <2> QED
    BY <2>1, <2>4, <2>5, <2>6, AsideStep DEF Aside
<1> QED
  BY <1>1, <1>2, <1>3

LEMMA ContinueKeeps ==
  ASSUME SendInv, Parts', Continue \/ ContinueFills \/ ContinueShows
  PROVE  SendInv'
<1> USE DEF view, frame, lists, thread, net, past
<1>1. CASE \E what : Abort(what)
  BY <1>1, AbortKeeps
<1>2. CASE ~ \E what : Abort(what)
  <2>1. /\ \E step : Runs("continue", step)
        /\ UNCHANGED <<ui, pressed, toUserId, db, sent, acts>> /\ causes \subseteq causes'
        /\ To("fill") \/ To("page") \/ Done
    BY <1>2 DEF Continue, ContinueFills, ContinueShows, On, Finish
  <2>2. jobs # <<>> /\ cur.op = "continue" /\ cur = jobs[1] /\ 1 \in DOMAIN jobs /\ Parts
    BY <2>1, FirstJob DEF SendInv
  <2>3. JobsAside /\ SealKept /\ QueueInv'
    BY <2>1, <2>2, QueueKept DEF Steps
  <2>4. StreamsInv' /\ Mine' \subseteq Mine /\ acts <= acts'
    BY <2>1, <2>2, MineKept, ActsStay
  <2>5. UNCHANGED <<page, named>> \/ (RenderFree /\ page' = "conversation" /\ named' = cur.user)
    <3>1. Continue \/ ContinueFills => UNCHANGED <<page, named>>
      BY <1>2 DEF Continue, ContinueFills
    <3>2. ContinueShows => RenderFree /\ page' = "conversation" /\ named' = cur.user
      BY <1>2 DEF ContinueShows, Finish
    <3> QED
      BY <3>1, <3>2
  <2>6. FrameInv'
    BY <2>1, <2>5, FrameKept
  <2>7. ASSUME "overtaken" \notin causes' PROVE PageInv'
    <3>1. "overtaken" \notin causes
      BY <2>1, <2>7
    <3>2. cur.user = toUserId
      BY <2>2, <3>1 DEF SendInv, Straight, JobsInv
    <3> QED
      BY <2>1, <2>5, <3>1, <3>2, PageKept
  <2> QED
    BY <2>1, <2>3, <2>4, <2>6, <2>7, AsideStep DEF Aside
<1> QED
  BY <1>1, <1>2

LEMMA AddedStreams ==
  ASSUME SendInv, NEW u, db' = addConversation(db, u, u)
  PROVE  StreamsInv' /\ Mine' \subseteq Mine
<1>1. db'.conversations = db.conversations \cup {Conversation(u, u)} /\ db'.messages = db.messages
  BY DbFields DEF SendInv, addConversation
<1> QED
  BY <1>1 DEF SendInv, StreamsInv, Mine, Conversation

LEMMA RemovedStreams ==
  ASSUME SendInv, NEW u, db' = Removed(u)
  PROVE  StreamsInv' /\ Mine' \subseteq Mine
<1>1. /\ db'.conversations = {c \in db.conversations : c.user # u}
      /\ db'.messages = {m \in db.messages : m.conversation # u}
  BY RemovedIs DEF SendInv
<1> QED
  BY <1>1 DEF SendInv, StreamsInv, Mine

LEMMA StartKeeps ==
  ASSUME SendInv, Parts', Start \/ Delete \/ Reply \/ ReplyAsks
  PROVE  SendInv'
<1> USE DEF view, frame, lists, thread, net, past
<1>1. CASE \E what : Abort(what)
  BY <1>1, AbortKeeps
<1>2. CASE ~ \E what : Abort(what)
  <2>1. /\ \E op, step : Runs(op, step)
        /\ UNCHANGED <<page, named, ui, pressed, sent, acts>> /\ causes \subseteq causes'
        /\ To("begin") \/ To("ask") \/ To("finish") \/ Done
    BY <1>2 DEF Start, Delete, Reply, ReplyAsks, On, Finish
  <2>2. jobs # <<>> /\ Parts
    BY <2>1, FirstJob DEF SendInv
  <2>3. JobsAside /\ SealKept /\ QueueInv'
    BY <2>1, <2>2, QueueKept DEF Steps
  <2>4. FrameInv' /\ acts <= acts'
    BY <2>1, <2>2, FrameKept, ActsStay
  <2>5. UNCHANGED db \/ db' = addConversation(db, cur.user, cur.user) \/ db' = Removed(cur.user)
    BY <1>2 DEF Start, Delete, Reply, ReplyAsks
  <2>6. StreamsInv' /\ Mine' \subseteq Mine
    BY <2>5, MineKept, AddedStreams, RemovedStreams
  <2>7. UNCHANGED toUserId \/ (toUserId' = cur.user /\ Overtaken(cur.user) \subseteq causes')
    <3>1. Start \/ Delete \/ Reply => UNCHANGED toUserId
      BY DEF Start, Delete, Reply
    <3>2. ReplyAsks => UNCHANGED toUserId \/ (toUserId' = cur.user /\ Overtaken(cur.user) \subseteq causes')
      BY <1>2 DEF ReplyAsks
    <3> QED
      BY <3>1, <3>2
  <2>8. ASSUME "overtaken" \notin causes'
        PROVE  /\ PageInv'
               /\ \/ toUserId' = toUserId
                  \/ \A i \in DOMAIN jobs : jobs[i].op \notin {"send", "continue"}
    <3>1. CASE UNCHANGED toUserId
      <4>1. "overtaken" \notin causes
        BY <2>1, <2>8
      <4> QED
        BY <2>1, <3>1, <4>1, PageKept
    <3>2. CASE toUserId' = cur.user /\ Overtaken(cur.user) \subseteq causes'
      BY <2>1, <2>8, <3>2, ChosenInTime
    <3> QED
      BY <2>7, <3>1, <3>2
  <2> QED
    BY <2>1, <2>3, <2>4, <2>6, <2>8, AsideStep DEF Aside
<1> QED
  BY <1>1, <1>2

LEMMA RefreshKeeps ==
  ASSUME SendInv, Parts',
         RefreshBegins \/ RefreshClears \/ Finishes \/ Fetch \/ Users \/ UsersAdds \/ UsersShows \/ More \/ MoreAsks
  PROVE  SendInv'
<1> USE DEF view, frame, lists, thread, net, past
<1>1. CASE \E what : Abort(what)
  BY <1>1, AbortKeeps
<1>2. CASE ~ \E what : Abort(what)
  <2>1. PICK q : q = [i \in DOMAIN jobs |-> Freed(jobs[i])]
    OBVIOUS
  <2>2. /\ \E op, step : Runs(op, step)
        /\ UNCHANGED <<named, ui, pressed, toUserId, db, sent, acts>> /\ causes \subseteq causes'
    <3>1. CASE RefreshBegins \/ RefreshClears \/ Finishes
      BY <1>2, <3>1 DEF RefreshBegins, RefreshClears, Finishes, Refreshing, On, Finish
    <3>2. CASE Fetch \/ Users \/ UsersAdds
      BY <1>2, <3>2 DEF Fetch, Users, UsersAdds, On
    <3>3. CASE UsersShows
      BY <1>2, <3>3 DEF UsersShows, Finish
    <3>4. CASE More \/ MoreAsks
      BY <1>2, <3>4 DEF More, MoreAsks
    <3> QED
      BY <3>1, <3>2, <3>3, <3>4
  <2>3. \/ To("clear") \/ To("get") \/ Done \/ UNCHANGED <<jobs, at>>
        \/ jobs' = q /\ at' \in {"list", "rows"}
    <3>1. RefreshBegins => To("clear")
      BY <1>2 DEF RefreshBegins
    <3>2. RefreshClears => jobs' = q /\ at' = "list"
      BY <2>1 DEF RefreshClears
    <3>3. Finishes \/ Fetch \/ MoreAsks => Done
      BY <1>2 DEF Finishes, Finish, Fetch, MoreAsks
    <3>4. Users => jobs' = q /\ at' = "rows"
      BY <1>2, <2>1 DEF Users
    <3>5. UsersAdds => UNCHANGED <<jobs, at>>
      BY DEF UsersAdds
    <3>6. UsersShows => Done
      BY <1>2 DEF UsersShows, Finish
    <3>7. More => To("get")
      BY <1>2 DEF More
    <3> QED
      BY <3>1, <3>2, <3>3, <3>4, <3>5, <3>6, <3>7
  <2>4. jobs # <<>> /\ Parts
    BY <2>2, FirstJob DEF SendInv
  <2>5. JobsAside /\ SealKept /\ QueueInv'
    BY <2>1, <2>3, <2>4, QueueKept, FreedAside DEF Steps
  <2>6. StreamsInv' /\ Mine' \subseteq Mine /\ acts <= acts'
    BY <2>2, <2>4, MineKept, ActsStay
  <2>7. UNCHANGED page \/ (RenderFree /\ page' = "users")
    <3>1. RefreshBegins \/ RefreshClears \/ Finishes \/ Fetch \/ Users \/ UsersAdds \/ More \/ MoreAsks
          => UNCHANGED page
      BY <1>2 DEF RefreshBegins, RefreshClears, Finishes, Fetch, Users, UsersAdds, More, MoreAsks
    <3>2. UsersShows => RenderFree /\ page' = "users"
      BY <1>2 DEF UsersShows
    <3> QED
      BY <3>1, <3>2
  <2>8. FrameInv' /\ ("overtaken" \notin causes' => PageInv')
    BY <2>2, <2>7, FrameKept, PageKept
  <2> QED
    BY <2>2, <2>5, <2>6, <2>8, AsideStep DEF Aside
<1> QED
  BY <1>1, <1>2

LEMMA RefreshShowsKeeps ==
  ASSUME SendInv, Parts', RefreshShows
  PROVE  SendInv'
<1> USE DEF view, frame, lists, thread, net, past
<1>1. /\ \E op, step : Runs(op, step)
      /\ RenderFree /\ page' = "users" /\ at' \in {"first", "finish"}
      /\ UNCHANGED <<ui, pressed, toUserId, db, sent, acts, causes, now>>
  BY DEF RefreshShows, Refreshing
<1>2. jobs # <<>> /\ Parts /\ jobs \in Seq(Jobs)
  BY <1>1, FirstJob DEF SendInv, Parts, JobsOK
<1>3. PICK j : j = Job("fetch", NoUser, 0)
  OBVIOUS
<1>4. j \in Jobs /\ j.op = "fetch"
  BY <1>1, <1>2, <1>3, PlainJob, DbFields DEF Job
<1>5. jobs' = Append(Tail(jobs), j) \/ jobs' = Append(jobs, j)
  BY <1>3 DEF RefreshShows, Push
<1>6. DOMAIN jobs = 1 .. Len(jobs) /\ Len(jobs) \in Nat
  BY <1>2
<1>7. JobsAside /\ jobs' # <<>>
  <2>1. CASE jobs' = Append(jobs, j)
    <3>1. /\ DOMAIN jobs' = 1 .. Len(jobs) + 1 /\ jobs'[Len(jobs) + 1] = j /\ jobs' # <<>>
          /\ \A i \in DOMAIN jobs : jobs'[i] = jobs[i]
      BY <1>2, <1>4, <2>1, OneMore
    <3>2. Shifts(0)
      BY <1>4, <1>6, <3>1 DEF Shifts
    <3> QED
      BY <3>1, <3>2 DEF JobsAside
  <2>2. CASE jobs' = Append(Tail(jobs), j)
    <3>1. PICK q : q = Tail(jobs)
      OBVIOUS
    <3>2. /\ q \in Seq(Jobs) /\ Len(q) = Len(jobs) - 1 /\ DOMAIN q = 1 .. Len(jobs) - 1
          /\ \A i \in DOMAIN q : i + 1 \in DOMAIN jobs /\ q[i] = jobs[i + 1]
      BY <1>2, <3>1, OneLess
    <3>3. /\ DOMAIN jobs' = 1 .. Len(q) + 1 /\ jobs'[Len(q) + 1] = j /\ jobs' # <<>>
          /\ \A i \in DOMAIN q : jobs'[i] = q[i]
      BY <1>4, <2>2, <3>1, <3>2, OneMore
    <3>4. Shifts(1)
      BY <1>4, <1>6, <3>2, <3>3 DEF Shifts
    <3> QED
      BY <3>3, <3>4 DEF JobsAside
  <2> QED
    BY <1>5, <2>1, <2>2
<1>8. SealKept /\ QueueInv'
  BY <1>1, <1>7 DEF SealKept, QueueInv
<1>9. FrameInv' /\ StreamsInv' /\ Mine' \subseteq Mine /\ acts <= acts' /\ causes \subseteq causes'
  BY <1>1, <1>2, FrameKept, MineKept, ActsStay
<1>10. PageInv'
  BY <1>1 DEF PageInv
<1> QED
  BY <1>1, <1>7, <1>8, <1>9, <1>10, AsideStep DEF Aside

LEMMA NetPasses ==
  ASSUME SendInv, Parts', NetThread, ~ \E what : Abort(what)
  PROVE  SendInv'
<1> USE DEF view, frame, lists, thread, net, past
<1>0. Parts /\ 0 \in 0..MaxActs
  BY ActsAssumption DEF SendInv
<1>1. /\ UNCHANGED <<page, named, ui, pressed, toUserId, db, at, sent>>
      /\ acts <= acts' /\ causes \subseteq causes'
  <2>1. UNCHANGED <<page, named, ui, pressed, toUserId, db, at, sent>>
    BY DEF NetThread, UsersArrive, FetchEnds, FetchChecks, ErrorArrives, MessageArrives, InviteArrives
  <2>2. \/ UNCHANGED acts /\ causes \subseteq causes'
        \/ \E why \in SUBSET Causes : Acts(why)
    <3>1. \/ UNCHANGED acts /\ causes \subseteq causes'
          \/ Acts(Early(Pending)) \/ Acts({"invite"})
          \/ \E t, when : Acts(Untimely(t, when))
      <4>1. CASE UsersArrive \/ FetchEnds \/ FetchChecks
        BY <4>1 DEF UsersArrive, FetchEnds, FetchChecks
      <4>2. CASE ErrorArrives
        BY <4>2 DEF ErrorArrives
      <4>3. ASSUME NEW u \in Peers, MessageArrives(u)
            PROVE  \E t, when : Acts(Untimely(t, when))
        <5>1. PICK t \in Times : Acts(Untimely(t, now'))
          BY <4>3 DEF MessageArrives
        <5> QED
          BY <5>1
      <4>4. ASSUME NEW u \in Peers, InviteArrives(u)
            PROVE  Acts({"invite"})
        BY <4>4 DEF InviteArrives
      <4> QED
        BY <4>1, <4>2, <4>3, <4>4 DEF NetThread
    <3>2. {"invite"} \in SUBSET Causes
      BY DEF Causes
    <3> QED
      BY <3>1, <3>2, Reasons
  <2>3. acts <= acts' /\ causes \subseteq causes'
    BY <1>0, <2>2, ActsKept, ActsStay
  <2> QED
    BY <2>1, <2>3
<1>2. JobsAside /\ SealKept /\ QueueInv'
  <2>1. UNCHANGED jobs \/ \E j \in Jobs : j.op \notin {"send", "continue"} /\ Push(j)
    <3>1. CASE UsersArrive
      <4>2. "users" \in Ops
        BY DEF Ops
      <4>1. Job("users", NoUser, 0) \in Jobs /\ Job("users", NoUser, 0).op = "users"
        BY <1>0, <4>2, NewJob
      <4> QED
        BY <3>1, <4>1 DEF UsersArrive
    <3>2. CASE FetchChecks \/ ErrorArrives
      BY <3>2 DEF FetchChecks, ErrorArrives
    <3>5. CASE FetchEnds
      <4>1. CASE UNCHANGED jobs
        BY <4>1
      <4>2. CASE ~ UNCHANGED jobs
        <5>1. PICK i \in left : Push(Job("more", Registered[i], 0))
          BY <3>5, <4>2 DEF FetchEnds
        <5>2. i \in DOMAIN Registered
          BY <1>0, UsersAssumption DEF Parts, StateOK
        <5>3. Registered[i] \in Peers /\ "more" \in Ops
          BY <5>2 DEF Peers, Range, Ops
        <5>4. Job("more", Registered[i], 0) \in Jobs /\ Job("more", Registered[i], 0).op = "more"
          BY <1>0, <5>3, NewJob
        <5> QED
          BY <5>1, <5>4
      <4> QED
        BY <4>1, <4>2
    <3>3. ASSUME NEW u \in Peers, MessageArrives(u)
          PROVE  \E j \in Jobs : j.op \notin {"send", "continue"} /\ Push(j)
      <4>1. PICK t \in Times : Push([Job("receive", u, acts + 1) EXCEPT !.time = t])
                               /\ Acts(Untimely(t, now'))
        BY <3>3 DEF MessageArrives
      <4>2. Untimely(t, now') \in SUBSET Causes
        BY Reasons
      <4>3. acts + 1 \in 0..MaxActs
        BY <1>0, <4>1, <4>2, ActsTypes, ActsAssumption
      <4>4. t \in Nat
        BY <1>0, DbFields DEF Times
      <4>5. PICK j : j = [Job("receive", u, acts + 1) EXCEPT !.time = t]
        OBVIOUS
      <4>6. "receive" \in Ops
        BY DEF Ops
      <4>7. j \in Jobs /\ j.op = "receive"
        BY <1>0, <4>3, <4>4, <4>5, <4>6, NewJob
      <4> QED
        BY <4>1, <4>5, <4>7
    <3>4. ASSUME NEW u \in Peers, InviteArrives(u)
          PROVE  \E j \in Jobs : j.op \notin {"send", "continue"} /\ Push(j)
      <4>1. "reply" \in Ops
        BY DEF Ops
      <4>2. Job("reply", u, 0) \in Jobs /\ Job("reply", u, 0).op = "reply"
        BY <1>0, <4>1, NewJob
      <4> QED
        BY <3>4, <4>2 DEF InviteArrives
    <3> QED
      BY <3>1, <3>2, <3>3, <3>4, <3>5 DEF NetThread
  <2> QED
    BY <1>1, <2>1, QueueKept, PushAside
<1>3. FrameInv' /\ StreamsInv' /\ Mine' \subseteq Mine
  BY <1>1, FrameKept, MineKept
<1>4. "overtaken" \notin causes' => PageInv'
  BY <1>1, PageKept
<1> QED
  BY <1>1, <1>2, <1>3, <1>4, AsideStep DEF Aside

LEMMA NetKeeps ==
  ASSUME SendInv, Parts', NetThread
  PROVE  SendInv'
  BY AbortKeeps, NetPasses

LEMMA InitSend == Init => SendInv
<1> SUFFICES ASSUME Init PROVE SendInv
  OBVIOUS
<1>1. Parts
  BY InitTypes
<1>2. FrameInv /\ QueueInv
  BY DEF Init, FrameInv, QueueInv
<1>3. StreamsInv /\ Mine = {}
  <2>1. PICK known \in SUBSET Peers :
          db = [NoRows EXCEPT !.conversations = {Conversation(u, u) : u \in known}]
    BY InitRows
  <2>2. db.conversations = {Conversation(u, u) : u \in known} /\ db.messages = {}
    BY <2>1 DEF NoRows
  <2> QED
    BY <2>2 DEF StreamsInv, Mine, Conversation
<1>4. jobs = <<>> /\ sent = {} /\ page = "users"
  BY DEF Init
<1>5. TextsInv
  BY <1>3, <1>4, NothingIn DEF TextsInv
<1>6. Straight
  BY <1>3, <1>4, NothingIn DEF Straight, PageInv, JobsInv, SealInv, SentInv
<1> QED
  BY <1>1, <1>2, <1>3, <1>5, <1>6 DEF SendInv

LEMMA NextSend == SendInv /\ [Next]_vars => SendInv'
<1> SUFFICES ASSUME SendInv, [Next]_vars PROVE SendInv'
  OBVIOUS
<1>1. Parts'
  BY NextTypes DEF SendInv
<1>2. CASE AsyncThread
  BY <1>1, <1>2, StoresKeeps, SealsKeeps, GoesOutKeeps, ReceiveKeeps, ContinueKeeps,
     StartKeeps, RefreshKeeps, RefreshShowsKeeps DEF AsyncThread
<1>3. CASE UIThread
  BY <1>1, <1>3, UIKeeps
<1>4. CASE NetThread
  BY <1>1, <1>4, NetKeeps
<1>5. CASE UNCHANGED vars
  BY <1>5, SendKept
<1> QED
  BY <1>2, <1>3, <1>4, <1>5 DEF Next, Rest

(* A message goes to the user whose page it was written on, is stored in   *)
(* that conversation and sealed with its streams, unless toUserId was      *)
(* changed under it or under a page on its way: sendMessage (logic.c)      *)
(* reads toUserId three times, on a thread of its own.                     *)
THEOREM SentAsShown == Spec => []SentToShown
<1>1. Spec => []SendInv
  BY InitSend, NextSend, PTL DEF Spec
<1>2. SendInv => SentToShown
  BY DEF SendInv, Straight, SentInv, Mine, SentToShown
<1> QED
  BY <1>1, <1>2, PTL

-----------------------------------------------------------------------------
(* Calm is safe.  Without invites, starts, deletions and refreshes the     *)
(* users list and the conversations stay as they are, and only messages    *)
(* and one page are on their way.  While the page is, the controls are     *)
(* blocked and its users are shown, so that nobody opens another one and   *)
(* the rows of no conversation are drawn as its list is emptied.           *)

OnItsWay(op) == \E i \in DOMAIN jobs : jobs[i].op = op

CalmJobs ==
  \A i \in DOMAIN jobs :
    /\ jobs[i].op \in {"send", "receive", "continue"} /\ ~jobs[i].freed
    /\ jobs[i].op = "send" => jobs[i].size \in TextSizes \ {MaxMessagePlainPayloadSize}
OnePage ==
  \A i, k \in DOMAIN jobs : jobs[i].op = "continue" /\ jobs[k].op = "continue" => i = k
Opening ==
  OnItsWay("continue") =>
    blocked /\ ~pressed /\ page = "users" /\ ui \in {"users", "idle"} /\ Listed(toUserId)
Reachable ==
  /\ page # "users" => Listed(toUserId) /\ conversationExists(db, toUserId)
  /\ OnItsWay("send") => conversationExists(db, toUserId)
  /\ OnItsWay("receive") => usersList # <<>>
Opened ==
  jobs # <<>> /\ cur.op = "continue" /\ at \in {"fill", "page"} => conversationExists(db, cur.user)
RowsThere == Drawing => size <= Len(Drawn)
Pasting ==
  /\ ui = "look" => page \in {"conversation", "chooser"}
  /\ ui = "text" => page = "conversation"
  /\ ui = "path" => page = "chooser"

Calm ==
  /\ Alive /\ ~asked /\ fetching = "no" /\ at # "get"
  /\ CalmJobs /\ OnePage /\ Opening /\ Reachable /\ Opened /\ RowsThere /\ Pasting

CalmInv == SendInv /\ (causes = {} => Calm)
LEMMA CausesGrow ==
  ASSUME Next
  PROVE  causes \subseteq causes'
<1> USE DEF vars, past, view, frame, lists, thread, net, Abort, Acts
<1>1. CASE Press \/ BeginDraw \/ DrawRow \/ EndDraw \/ PasteLooks \/ PasteChooses \/ PasteAlters
  BY <1>1 DEF Press, BeginDraw, DrawRow, EndDraw, PasteLooks, PasteChooses, PasteAlters
<1>2. CASE Clicks
  BY <1>2 DEF Clicks, ChooseContinue, ChooseDelete, ChooseStart, Choose, ChooseOffline,
         ClickUpdate, ClickBack, ClickSend, ClickFile, ClickNoFile
<1>3. CASE SendStores \/ SendSeals \/ SendGoesOut \/ Receive \/ ReceiveShows
  BY <1>3 DEF SendStores, SendSeals, SendGoesOut, Receive, ReceiveShows
<1>4. CASE Continue \/ ContinueFills \/ ContinueShows \/ Start \/ Delete \/ Reply \/ ReplyAsks
  BY <1>4 DEF Continue, ContinueFills, ContinueShows, Start, Delete, Reply, ReplyAsks, Finish
<1>5. CASE RefreshBegins \/ RefreshClears \/ RefreshShows \/ Finishes \/ Fetch \/ Users \/ UsersAdds
           \/ UsersShows \/ More \/ MoreAsks
  BY <1>5 DEF RefreshBegins, RefreshClears, RefreshShows, Finishes, Fetch, Users, UsersAdds,
         UsersShows, More, MoreAsks, Finish
<1>6. CASE NetThread
  BY <1>6 DEF NetThread, UsersArrive, FetchEnds, FetchChecks, ErrorArrives, MessageArrives, InviteArrives
<1>7. CASE Rest
  BY <1>7 DEF Rest
<1> QED
  BY <1>1, <1>2, <1>3, <1>4, <1>5, <1>6, <1>7 DEF Next, UIThread, AsyncThread

(* The jobs that are left are some that were. *)
Fewer ==
  \E d \in {0, 1} : \A i \in DOMAIN jobs' :
    /\ i + d \in DOMAIN jobs
    /\ jobs'[i].op = jobs[i + d].op /\ jobs'[i].freed = jobs[i + d].freed
    /\ jobs'[i].size = jobs[i + d].size

LEMMA FewerCalm ==
  ASSUME Parts, Parts', CalmJobs, OnePage, Fewer
  PROVE  CalmJobs' /\ OnePage' /\ \A op : OnItsWay(op)' => OnItsWay(op)
<1>1. PICK d \in {0, 1} : \A i \in DOMAIN jobs' :
        /\ i + d \in DOMAIN jobs
        /\ jobs'[i].op = jobs[i + d].op /\ jobs'[i].freed = jobs[i + d].freed
        /\ jobs'[i].size = jobs[i + d].size
  BY DEF Fewer
<1>2. DOMAIN jobs' \subseteq Nat
  BY DEF Parts, JobsOK
<1>3. CalmJobs'
  BY <1>1 DEF CalmJobs
<1>4. OnePage'
  <2> SUFFICES ASSUME NEW i \in DOMAIN jobs', NEW k \in DOMAIN jobs',
                      jobs'[i].op = "continue", jobs'[k].op = "continue"
               PROVE  i = k
    BY DEF OnePage
  <2>1. i + d = k + d
    BY <1>1 DEF OnePage
  <2> QED
    BY <1>2, <2>1
<1>5. ASSUME NEW op, OnItsWay(op)' PROVE OnItsWay(op)
  BY <1>1, <1>5 DEF OnItsWay
<1> QED
  BY <1>3, <1>4, <1>5

LEMMA FewerJobs ==
  ASSUME Parts
  PROVE  /\ UNCHANGED jobs => Fewer
         /\ jobs # <<>> /\ Done => Fewer
         /\ \A v : jobs # <<>> /\ jobs' = [jobs EXCEPT ![1].sealed = v] => Fewer
<1>1. jobs \in Seq(Jobs) /\ DOMAIN jobs = 1 .. Len(jobs) /\ Len(jobs) \in Nat
  BY DEF Parts, JobsOK
<1>2. \A i \in DOMAIN jobs : i + 0 = i
  BY <1>1
<1>3. UNCHANGED jobs => Fewer
  BY <1>2 DEF Fewer
<1>4. ASSUME jobs # <<>>, Done PROVE Fewer
  BY <1>1, <1>4, OneLess DEF Done, Fewer
<1>5. ASSUME NEW v, jobs # <<>>, jobs' = [jobs EXCEPT ![1].sealed = v] PROVE Fewer
  <2>1. DOMAIN jobs' = DOMAIN jobs /\ \A i \in DOMAIN jobs : jobs[i] \in Jobs
    BY <1>1, <1>5, ElementsOf
  <2>2. \A i \in DOMAIN jobs : /\ jobs'[i].op = jobs[i].op /\ jobs'[i].freed = jobs[i].freed
                               /\ jobs'[i].size = jobs[i].size
    BY <1>5, <2>1 DEF Jobs
  <2> QED
    BY <1>2, <2>1, <2>2 DEF Fewer
<1> QED
  BY <1>3, <1>4, <1>5

LEMMA PushCalm ==
  ASSUME Parts, CalmJobs, OnePage, NEW j \in Jobs, Push(j),
         j.op \in {"send", "receive", "continue"}, ~j.freed,
         j.op = "send" => j.size \in TextSizes \ {MaxMessagePlainPayloadSize},
         j.op = "continue" => ~OnItsWay("continue")
  PROVE  /\ CalmJobs' /\ OnePage' /\ \A op : OnItsWay(op)' => (OnItsWay(op) \/ j.op = op)
         /\ jobs # <<>> => jobs' # <<>> /\ cur' = cur
<1>1. jobs \in Seq(Jobs) /\ DOMAIN jobs = 1 .. Len(jobs) /\ Len(jobs) \in Nat
  BY DEF Parts, JobsOK
<1>2. jobs' = Append(jobs, j) /\ DOMAIN jobs' = 1 .. Len(jobs) + 1 /\ jobs'[Len(jobs) + 1] = j
      /\ \A i \in DOMAIN jobs : jobs'[i] = jobs[i]
  BY <1>1, OneMore DEF Push
<1>3. \A i \in DOMAIN jobs' : i \in DOMAIN jobs \/ i = Len(jobs) + 1
  BY <1>1, <1>2
<1>4. CalmJobs'
  BY <1>2, <1>3 DEF CalmJobs
<1>5. OnePage'
  BY <1>2, <1>3 DEF OnePage, OnItsWay
<1>6. \A op : OnItsWay(op)' => (OnItsWay(op) \/ j.op = op)
  BY <1>2, <1>3 DEF OnItsWay
<1>7. jobs # <<>> => jobs' # <<>> /\ cur' = cur
  BY <1>1, <1>2 DEF cur
<1> QED
  BY <1>4, <1>5, <1>6, <1>7

LEMMA Rows ==
  /\ ListOf("users") = usersList /\ ListOf("conversation") = messagesList
  /\ ListOf("chooser") = <<>>
  BY DEF ListOf

(* Steps that leave the jobs, the users and the conversations alone. *)
LEMMA CalmPlain ==
  ASSUME SendInv, Calm, Parts',
         UNCHANGED <<jobs, at, usersList, toUserId, db, asked, fetching, left, ignoring, failed>>
  PROVE  /\ Alive' /\ ~asked' /\ fetching' = "no" /\ at' # "get" /\ CalmJobs' /\ OnePage' /\ Opened'
         /\ \A op : OnItsWay(op)' => OnItsWay(op)
         /\ Listed(toUserId)' <=> Listed(toUserId)
         /\ (page' # "users" => page # "users") => Reachable'
<1>1. Alive' /\ ~asked' /\ fetching' = "no" /\ at' # "get"
  BY DEF Calm, Alive
<1>2. CalmJobs' /\ OnePage' /\ \A op : OnItsWay(op)' => OnItsWay(op)
  BY FewerJobs, FewerCalm DEF Calm, SendInv
<1>3. Opened'
  BY DEF Calm, Opened, cur, conversationExists
<1>4. Listed(toUserId)' <=> Listed(toUserId)
  BY DEF Listed
<1>5. ASSUME page' # "users" => page # "users" PROVE Reachable'
  <2>1. OnItsWay("send")' => OnItsWay("send")
    BY <1>2
  <2>2. OnItsWay("receive")' => OnItsWay("receive")
    BY <1>2
  <2> QED
    BY <1>4, <1>5, <2>1, <2>2 DEF Calm, Reachable, conversationExists
<1> QED
  BY <1>1, <1>2, <1>3, <1>4, <1>5

LEMMA CalmFrame ==
  ASSUME SendInv, Calm, Parts',
         Press \/ BeginDraw \/ (DrawRow /\ ~ \E what : Abort(what)) \/ EndDraw
         \/ PasteLooks \/ PasteChooses \/ (PasteAlters /\ ~ \E what : Abort(what))
  PROVE  Calm'
<1> USE DEF view, frame, lists, thread, net, past
<1>0. /\ UNCHANGED <<jobs, at, usersList, messagesList, toUserId, db, asked, fetching, left, ignoring, failed,
                     page, named, blocked>>
  BY DEF Press, BeginDraw, DrawRow, EndDraw, PasteLooks, PasteChooses, PasteAlters
<1>1. /\ Alive' /\ ~asked' /\ fetching' = "no" /\ at' # "get" /\ CalmJobs' /\ OnePage' /\ Opened' /\ Reachable'
      /\ OnItsWay("continue")' => OnItsWay("continue")
      /\ Listed(toUserId)' <=> Listed(toUserId)
  BY <1>0, CalmPlain
<1>2. Opening /\ RowsThere /\ Pasting /\ page \in Drawings
  BY DEF Calm, SendInv, Parts, ViewOK
<1>3. CASE Press
  BY <1>0, <1>1, <1>2, <1>3 DEF Press, Calm, Opening, RowsThere, Pasting, Drawing, Drawn, ListOf
<1>4. CASE BeginDraw
  <2>1. ui' = page /\ size' = Len(ListOf(page)) /\ UNCHANGED pressed
    BY <1>4 DEF BeginDraw
  <2>2. Drawn' = ListOf(page)
    BY <1>0, <2>1 DEF Drawn, ListOf
  <2>3. Len(ListOf(page)) \in Nat
    BY <1>2, Rows DEF SendInv, Parts, UsersOK, MessagesOK, Drawings
  <2>4. RowsThere'
    BY <2>1, <2>2, <2>3 DEF RowsThere
  <2>5. Pasting'
    BY <1>2, <2>1 DEF Pasting, Drawings
  <2>6. Opening'
    BY <1>0, <1>1, <1>2, <2>1 DEF Opening
  <2> QED
    BY <1>1, <2>4, <2>5, <2>6 DEF Calm
<1>5. CASE DrawRow /\ ~ \E what : Abort(what)
  <2>1. UNCHANGED <<ui, size, pressed>>
    BY <1>5 DEF DrawRow
  <2> QED
    BY <1>0, <1>1, <1>2, <2>1 DEF Calm, Opening, RowsThere, Pasting, Drawing, Drawn, ListOf
<1>6. CASE EndDraw
  <2>1. ui' = "idle" /\ ~pressed'
    BY <1>6 DEF EndDraw
  <2> QED
    BY <1>0, <1>1, <1>2, <2>1 DEF Calm, Opening, RowsThere, Pasting, Drawing, Drawings
<1>7. CASE PasteLooks \/ PasteChooses
  <2>1. ~OnItsWay("continue")
    BY <1>2, <1>7 DEF PasteLooks, PasteChooses, Opening
  <2>2. \/ ui' = "look" /\ page \in {"conversation", "chooser"}
        \/ /\ ui' = IF page = "conversation" THEN "text" ELSE "path"
           /\ page \in {"conversation", "chooser"}
    BY <1>2, <1>7 DEF PasteLooks, PasteChooses, Pasting
  <2> QED
    BY <1>0, <1>1, <1>2, <2>1, <2>2 DEF Calm, Opening, RowsThere, Pasting, Drawing, Drawings
<1>8. CASE PasteAlters /\ ~ \E what : Abort(what)
  <2>1. ui' = "idle" /\ UNCHANGED pressed
    BY <1>8 DEF PasteAlters
  <2> QED
    BY <1>0, <1>1, <1>2, <2>1 DEF Calm, Opening, RowsThere, Pasting, Drawing, Drawings
<1> QED
  BY <1>3, <1>4, <1>5, <1>6, <1>7, <1>8

(* Rows that are drawn are there; what is pasted into is shown. *)
LEMMA FrameDoesNotEnd ==
  ASSUME SendInv, Calm, NEW what
  PROVE  /\ DrawRow => ~Abort(what)
         /\ PasteAlters => ~Abort(what)
<1>1. failed = "none"
  BY DEF Calm, Alive
<1>2. size \in Nat /\ row \in Nat
  BY DEF SendInv, Parts, FrameOK
<1>3. ASSUME DrawRow, Abort(what) PROVE FALSE
  <2>1. row < size /\ ui \in Drawings
    BY <1>3 DEF DrawRow, Drawing
  <2>2. Drawn \in Seq(UserRows) \/ Drawn \in Seq(Entries) \/ Drawn = <<>>
    BY <2>1, Rows DEF Drawn, Drawings, SendInv, Parts, UsersOK, MessagesOK
  <2>3. Len(Drawn) \in Nat /\ size <= Len(Drawn)
    BY <2>1, <2>2 DEF Calm, RowsThere, Drawing
  <2>4. row < Len(Drawn)
    BY <1>2, <2>1, <2>3
  <2>5. Drawn # <<>> /\ ~(row >= Len(Drawn))
    BY <1>2, <2>2, <2>3, <2>4
  <2>6. row' = row + 1
    BY <1>3, <2>5 DEF DrawRow
  <2>7. row' = row
    BY <1>3 DEF Abort, frame
  <2> QED
    BY <1>2, <2>6, <2>7
<1>4. ASSUME PasteAlters, Abort(what) PROVE FALSE
  <2>1. PasteFits
    BY <1>4 DEF PasteAlters, PasteFits, Calm, Pasting
  <2>2. ui' = "idle" /\ ui # "idle"
    BY <1>4, <2>1 DEF PasteAlters
  <2> QED
    BY <1>4, <2>2 DEF Abort, frame
<1> QED
  BY <1>3, <1>4

(* A button that is hit is on the page that is shown, and no page is on    *)
(* its way then.                                                           *)
LEMMA HitCalm ==
  ASSUME SendInv, Calm, ui \in Drawings, pressed
  PROVE  page = ui /\ ~OnItsWay("continue") /\ size \in Nat /\ size <= Len(Drawn)
  BY DEF SendInv, Parts, FrameOK, FrameInv, Calm, Opening, RowsThere, Drawing

LEMMA OpenedLater ==
  ASSUME SendInv, Calm, UNCHANGED <<at, db>>, jobs # <<>> => cur' = cur
  PROVE  Opened'
<1>1. CASE jobs = <<>>
  <2>1. at' \notin {"fill", "page"}
    BY <1>1 DEF SendInv, QueueInv
  <2> QED
    BY <2>1 DEF Opened
<1>2. CASE jobs # <<>>
  BY <1>2 DEF Calm, Opened, conversationExists
<1> QED
  BY <1>1, <1>2

LEMMA ChosenCalm ==
  ASSUME Calm, NEW u, "overtaken" \notin Overtaken(u)
  PROVE  OnItsWay("send") => u = toUserId
<1>1. \A i \in DOMAIN jobs : jobs[i] \in Pending
  BY DEF Pending, Range
<1> QED
  BY <1>1 DEF Overtaken, Overtakes, OnItsWay

LEMMA ChooseContinueCalm ==
  ASSUME SendInv, Calm, Parts', causes' = {}, ChooseContinue
  PROVE  Calm'
<1> USE DEF view, frame, lists, thread, net, past
<1>1. PICK u : u = usersList[row + 1].id
  OBVIOUS
<1>2. /\ Acts({} \cup Overtaken(u)) /\ toUserId' = u /\ Push(Job("continue", u, 0)) /\ ~pressed'
      /\ ui = "users" /\ pressed /\ blocked' = TRUE
      /\ UNCHANGED <<page, ui, size, usersList, db, at, asked, fetching, left, ignoring, failed>>
  BY <1>1 DEF ChooseContinue, Choose, Chooses, Chosen, HitRow, HitOn
<1>3. Parts /\ "overtaken" \notin Overtaken(u)
  BY <1>2 DEF SendInv, Acts
<1>4. page = "users" /\ ~OnItsWay("continue")
  BY <1>2, HitCalm DEF Drawings
<1>5. row + 1 \in DOMAIN usersList
  BY <1>3, HitRowTypes DEF ChooseContinue, Choose
<1>6. u \in Peers /\ Listed(u)
  BY <1>1, <1>3, <1>5, RowTypes DEF Listed
<1>7. PICK j : j = Job("continue", u, 0)
  OBVIOUS
<1>8. j \in Jobs /\ j.op = "continue" /\ ~j.freed
  <2>1. 0 \in 0..MaxActs /\ "continue" \in Ops
    BY ActsAssumption DEF Ops
  <2>2. j \in Jobs /\ j.op = "continue"
    BY <1>3, <1>6, <1>7, <2>1, NewJob
  <2> QED
    BY <1>7, <2>2 DEF Job
<1>9. /\ CalmJobs' /\ OnePage' /\ \A op : OnItsWay(op)' => (OnItsWay(op) \/ j.op = op)
      /\ jobs # <<>> => cur' = cur
  BY <1>2, <1>3, <1>4, <1>7, <1>8, PushCalm DEF Calm
<1>10. Opened'
  BY <1>2, <1>9, OpenedLater
<1>11. Opening'
  BY <1>2, <1>4, <1>6 DEF Opening, Listed
<1>12. Reachable'
  <2>1. OnItsWay("send")' => OnItsWay("send") /\ u = toUserId
    BY <1>3, <1>8, <1>9, ChosenCalm
  <2>2. OnItsWay("receive")' => OnItsWay("receive")
    BY <1>8, <1>9
  <2> QED
    BY <1>2, <1>4, <2>1, <2>2 DEF Calm, Reachable, conversationExists
<1>13. RowsThere' /\ Pasting'
  BY <1>2 DEF Calm, RowsThere, Pasting, Drawing, Drawn, ListOf
<1> QED
  BY <1>2, <1>9, <1>10, <1>11, <1>12, <1>13 DEF Calm, Alive

LEMMA ChooseOfflineCalm ==
  ASSUME SendInv, Calm, Parts', causes' = {}, ChooseOffline
  PROVE  Calm'
<1> USE DEF view, frame, lists, thread, net, past
<1>1. PICK u : u = usersList[row + 1].id
  OBVIOUS
<1>2. /\ Acts(Overtaken(u)) /\ toUserId' = u /\ ui = "users" /\ pressed
      /\ UNCHANGED <<page, ui, size, usersList, db, jobs, at, asked, fetching, left, ignoring, failed>>
  BY <1>1 DEF ChooseOffline, Chooses, Chosen, HitRow, HitOn
<1>3. Parts /\ "overtaken" \notin Overtaken(u)
  BY <1>2 DEF SendInv, Acts
<1>4. page = "users" /\ ~OnItsWay("continue")
  BY <1>2, HitCalm DEF Drawings
<1>5. CalmJobs' /\ OnePage' /\ \A op : OnItsWay(op)' => OnItsWay(op)
  BY <1>2, <1>3, FewerJobs, FewerCalm DEF Calm
<1>6. Opened'
  BY <1>2, OpenedLater DEF cur
<1>7. Opening'
  BY <1>4, <1>5 DEF Opening
<1>8. Reachable'
  <2>1. OnItsWay("send")' => OnItsWay("send") /\ u = toUserId
    BY <1>3, <1>5, ChosenCalm
  <2>2. OnItsWay("receive")' => OnItsWay("receive")
    BY <1>5
  <2> QED
    BY <1>2, <1>4, <2>1, <2>2 DEF Calm, Reachable, conversationExists
<1>9. RowsThere' /\ Pasting'
  BY <1>2 DEF Calm, RowsThere, Pasting, Drawing, Drawn, ListOf
<1> QED
  BY <1>2, <1>5, <1>6, <1>7, <1>8, <1>9 DEF Calm, Alive

(* What is shown is what may be pasted into, while the UI thread draws.    *)
LEMMA TurnPageCalm ==
  ASSUME SendInv, Calm, Parts',
         ClickBack \/ ClickFile \/ (ClickNoFile /\ ~ \E what : Abort(what))
  PROVE  Calm'
<1> USE DEF view, frame, lists, thread, net, past
<1>1. /\ ui \in Drawings /\ pressed /\ ~pressed' /\ UNCHANGED <<ui, size, usersList, messagesList>>
      /\ UNCHANGED <<jobs, at, toUserId, db, asked, fetching, left, ignoring, failed>>
  BY DEF ClickBack, ClickFile, ClickNoFile, HitOn, HitBelow, Drawings
<1>2. page' # "users" => page # "users"
  BY <1>1, HitCalm DEF ClickBack, ClickFile, ClickNoFile, HitOn, HitBelow
<1>3. ~OnItsWay("continue")
  BY <1>1, HitCalm
<1>4. /\ Alive' /\ ~asked' /\ fetching' = "no" /\ at' # "get" /\ CalmJobs' /\ OnePage' /\ Opened' /\ Reachable'
      /\ ~OnItsWay("continue")'
  BY <1>1, <1>2, <1>3, CalmPlain
<1>5. Opening' /\ Pasting'
  BY <1>1, <1>4 DEF Opening, Pasting, Drawings
<1>6. RowsThere'
  BY <1>1 DEF Calm, RowsThere, Drawing, Drawn, ListOf
<1> QED
  BY <1>4, <1>5, <1>6 DEF Calm

LEMMA ClickSendCalm ==
  ASSUME SendInv, Calm, Parts', causes' = {}, ClickSend
  PROVE  Calm'
<1> USE DEF view, frame, lists, thread, net, past
<1>1. PICK n \in TextSizes :
        /\ Acts(IF n = MaxMessagePlainPayloadSize THEN {"longest"} ELSE {})
        /\ Push([Job("send", named, acts + 1) EXCEPT !.size = n])
  BY DEF ClickSend
<1>2. /\ ui = "conversation" /\ pressed /\ ~pressed' /\ AddFront(Entry(Me, acts + 1))
      /\ UNCHANGED <<page, ui, size, usersList, toUserId, db, at, asked, fetching, left, ignoring, failed>>
  BY DEF ClickSend, HitBelow, HitOn
<1>3. n # MaxMessagePlainPayloadSize
  BY <1>1 DEF Acts
<1>4. page = "conversation" /\ ~OnItsWay("continue") /\ size \in Nat /\ size <= Len(messagesList)
  BY <1>2, HitCalm, Rows DEF Drawings, Drawn
<1>5. Parts /\ named \in Peers \cup {NoUser} /\ messagesList \in Seq(Entries)
  BY DEF SendInv, Parts, ViewOK, MessagesOK
<1>6. PICK j : j = [Job("send", named, acts + 1) EXCEPT !.size = n]
  OBVIOUS
<1>7. j \in Jobs /\ j.op = "send" /\ ~j.freed /\ j.size = n
  <2>1. acts + 1 \in 0..MaxActs /\ "send" \in Ops
    <3>1. (IF n = MaxMessagePlainPayloadSize THEN {"longest"} ELSE {}) \in SUBSET Causes
      BY DEF Causes
    <3>2. acts + 1 \in 1..MaxActs
      BY <1>1, <1>5, <3>1, ActsTypes
    <3>3. "send" \in Ops
      BY DEF Ops
    <3> QED
      BY <3>2, <3>3, ActsAssumption
  <2>2. PICK text \in 0..MaxActs : text = acts + 1
    BY <2>1
  <2>3. j = [op |-> "send", user |-> named, text |-> text, size |-> n, time |-> 0,
             sealed |-> NoUser, freed |-> FALSE]
    BY <1>6, <2>2 DEF Job
  <2> QED
    BY <1>5, <2>1, <2>3 DEF Jobs
<1>8. /\ CalmJobs' /\ OnePage' /\ \A op : OnItsWay(op)' => (OnItsWay(op) \/ j.op = op)
      /\ jobs # <<>> => cur' = cur
  BY <1>1, <1>3, <1>5, <1>6, <1>7, PushCalm DEF Calm
<1>9. Opened'
  BY <1>2, <1>8, OpenedLater
<1>10. ~OnItsWay("continue")'
  BY <1>4, <1>7, <1>8
<1>11. Reachable'
  <2>1. OnItsWay("receive")' => OnItsWay("receive")
    BY <1>7, <1>8
  <2> QED
    BY <1>2, <1>4, <2>1 DEF Calm, Reachable, conversationExists, Listed
<1>12. RowsThere'
  <2>1. messagesList' = <<Entry(Me, acts + 1)>> \o messagesList
    BY <1>2 DEF AddFront
  <2>2. messagesList' \in Seq(Entries)
    BY DEF Parts, MessagesOK
  <2>3. Len(messagesList') = Len(messagesList) + 1
    <3>1. PICK e : e = Entry(Me, acts + 1)
      OBVIOUS
    <3>2. <<e>> \in Seq({e}) /\ Len(<<e>>) = 1
      OBVIOUS
    <3>3. Len(<<e>> \o messagesList) = Len(<<e>>) + Len(messagesList)
      BY <1>5, <3>2
    <3> QED
      BY <1>5, <2>1, <3>1, <3>2, <3>3
  <2>4. Drawn' = messagesList'
    BY <1>2 DEF Drawn, ListOf
  <2> QED
    BY <1>2, <1>4, <1>5, <2>3, <2>4 DEF RowsThere
<1>13. Opening' /\ Pasting'
  BY <1>2, <1>10 DEF Calm, Opening, Pasting
<1> QED
  BY <1>2, <1>8, <1>9, <1>11, <1>12, <1>13 DEF Calm, Alive

(* No button that is hit ends the client. *)
LEMMA ClicksDoNotEnd ==
  ASSUME SendInv, Calm, ClickNoFile, NEW what
  PROVE  ~Abort(what)
<1>1. ui = "chooser" /\ pressed
  BY DEF ClickNoFile, HitBelow, HitOn
<1>2. page = "chooser"
  BY <1>1, HitCalm DEF Drawings
<1>3. Listed(toUserId)
  BY <1>2 DEF Calm, Reachable
<1> QED
  BY <1>1, <1>3 DEF ClickNoFile, HitBelow, HitOn, Abort, frame

LEMMA UICalm ==
  ASSUME SendInv, Calm, Parts', causes' = {}, UIThread
  PROVE  Calm'
<1>1. ~(ChooseDelete \/ ChooseStart)
  BY DEF ChooseDelete, ChooseStart, Choose, Acts
<1>2. ~ClickUpdate
  BY DEF ClickUpdate, Acts, Calm, fetchers
<1>3. CASE Press \/ BeginDraw \/ DrawRow \/ EndDraw \/ PasteLooks \/ PasteChooses \/ PasteAlters
  BY <1>3, CalmFrame, FrameDoesNotEnd
<1>4. CASE ChooseContinue \/ ChooseOffline \/ ClickSend
  BY <1>4, ChooseContinueCalm, ChooseOfflineCalm, ClickSendCalm
<1>5. CASE ClickBack \/ ClickFile \/ ClickNoFile
  BY <1>5, TurnPageCalm, ClicksDoNotEnd
<1> QED
  BY <1>1, <1>2, <1>3, <1>4, <1>5 DEF UIThread, Clicks

(* The job that runs is one of the three. *)
LEMMA CalmRuns ==
  ASSUME SendInv, Calm, jobs # <<>>
  PROVE  /\ cur \in Jobs /\ cur.op \in {"send", "receive", "continue"} /\ ~cur.freed
         /\ OnItsWay(cur.op)
         /\ cur.op = "send" => Fits(cur.size)
         /\ cur.op \in {"send", "continue"} /\ "overtaken" \notin causes => cur.user = toUserId
<1>1. cur \in Jobs /\ cur = jobs[1] /\ 1 \in DOMAIN jobs
  BY RunsType DEF SendInv
<1>2. /\ cur.op \in {"send", "receive", "continue"} /\ ~cur.freed
      /\ cur.op = "send" => cur.size \in TextSizes \ {MaxMessagePlainPayloadSize}
  BY <1>1 DEF Calm, CalmJobs
<1>3. ASSUME cur.op = "send" PROVE Fits(cur.size)
  <2>1. cur.size \in 1 .. MaxMessagePlainPayloadSize /\ cur.size # MaxMessagePlainPayloadSize
    BY <1>2, <1>3, TextsAssumption
  <2>2. cur.size \in 1 .. MaxMessagePlainPayloadSize - 1
    BY <2>1, Limits
  <2> QED
    BY <2>2, ShorterTextsGoThrough
<1>4. OnItsWay(cur.op)
  BY <1>1 DEF OnItsWay
<1>5. cur.op \in {"send", "continue"} /\ "overtaken" \notin causes => cur.user = toUserId
  BY <1>1 DEF SendInv, Straight, JobsInv
<1> QED
  BY <1>1, <1>2, <1>3, <1>4, <1>5

(* What is left for a step of a job to show. *)
LEMMA JobCalm ==
  ASSUME SendInv, Calm, Parts', Fewer, Opened', at' # "get",
         UNCHANGED <<frame, usersList, toUserId, asked, fetching, left, ignoring, failed>>,
         db'.conversations = db.conversations,
         OnItsWay("continue")' => UNCHANGED <<page, blocked>>,
         page' # "users" => page # "users" \/ (Listed(toUserId) /\ conversationExists(db, toUserId)),
         UNCHANGED page \/ ui = "idle",
         ui = "conversation" => Len(messagesList') >= Len(messagesList)
  PROVE  Calm'
<1> USE DEF frame
<1>1. CalmJobs' /\ OnePage' /\ \A op : OnItsWay(op)' => OnItsWay(op)
  BY FewerCalm DEF Calm, SendInv
<1>2. \A u : conversationExists(db, u)' <=> conversationExists(db, u)
  BY DEF conversationExists
<1>3. \A u : Listed(u)' <=> Listed(u)
  BY DEF Listed
<1>4. Opening'
  <2>1. OnItsWay("continue")' => OnItsWay("continue")
    BY <1>1
  <2>2. Listed(toUserId)' <=> Listed(toUserId)
    BY DEF Listed
  <2> QED
    BY <2>1, <2>2 DEF Calm, Opening
<1>5. Reachable'
  <2>1. OnItsWay("send")' => OnItsWay("send")
    BY <1>1
  <2>2. OnItsWay("receive")' => OnItsWay("receive")
    BY <1>1
  <2>3. /\ Listed(toUserId)' <=> Listed(toUserId)
        /\ conversationExists(db', toUserId') <=> conversationExists(db, toUserId)
    BY DEF Listed, conversationExists
  <2> QED
    BY <2>1, <2>2, <2>3 DEF Calm, Reachable
<1>6. RowsThere'
  <2> SUFFICES ASSUME Drawing PROVE size <= Len(Drawn')
    BY DEF RowsThere, Drawing
  <2>1. size <= Len(Drawn) /\ size \in Nat
    BY DEF Calm, RowsThere, SendInv, Parts, FrameOK
  <2>2. CASE ui = "conversation"
    <3>1. Drawn = messagesList /\ Drawn' = messagesList'
      BY <2>2 DEF Drawn, ListOf
    <3>2. messagesList \in Seq(Entries) /\ messagesList' \in Seq(Entries)
      BY DEF SendInv, Parts, MessagesOK
    <3>3. Len(messagesList) \in Nat /\ Len(messagesList') \in Nat
      BY <3>2
    <3> QED
      BY <2>1, <2>2, <3>1, <3>3
  <2>3. CASE ui # "conversation"
    <3>1. Drawn' = Drawn
      BY <2>3 DEF Drawn, Drawing, Drawings, ListOf
    <3> QED
      BY <2>1, <3>1
  <2> QED
    BY <2>2, <2>3
<1>7. Pasting'
  BY DEF Calm, Pasting
<1> QED
  BY <1>1, <1>4, <1>5, <1>6, <1>7 DEF Calm, Alive

LEMMA SameRows ==
  ASSUME SendInv
  PROVE  /\ UNCHANGED messagesList => Len(messagesList') >= Len(messagesList)
         /\ \A e : messagesList' = <<e>> \o messagesList => Len(messagesList') >= Len(messagesList)
<1>1. messagesList \in Seq(Entries) /\ Len(messagesList) \in Nat
  BY DEF SendInv, Parts, MessagesOK
<1>2. ASSUME NEW e, messagesList' = <<e>> \o messagesList
      PROVE  Len(messagesList') >= Len(messagesList)
  <2>1. <<e>> \in Seq({e}) /\ Len(<<e>>) = 1
    OBVIOUS
  <2>2. Len(<<e>> \o messagesList) = Len(<<e>>) + Len(messagesList)
    BY <1>1, <2>1
  <2> QED
    BY <1>1, <1>2, <2>1, <2>2
<1> QED
  BY <1>1, <1>2

LEMMA SendCalm ==
  ASSUME SendInv, Calm, Parts', causes' = {}, SendStores \/ SendSeals \/ SendGoesOut
  PROVE  Calm'
<1> USE DEF frame, lists, thread, net, past, view
<1>1. jobs # <<>> /\ cur.op = "send" /\ Fits(cur.size) /\ conversationExists(db, toUserId)
  <2>1. jobs # <<>> /\ cur.op = "send"
    BY DEF SendStores, SendSeals, SendGoesOut, On, Runs
  <2> QED
    BY <2>1, CalmRuns DEF Calm, Reachable
<1>2. UNCHANGED <<page, blocked, usersList, messagesList, toUserId, asked, fetching, left, ignoring, failed, ui, size,
                  row, pressed>>
  BY <1>1 DEF SendStores, SendSeals, SendGoesOut, On, Abort
<1>3. db'.conversations = db.conversations
  BY <1>1, DbFields DEF SendStores, SendSeals, SendGoesOut, Abort, addMessage, SendInv, Parts, DbOK
<1>4. Fewer
  BY <1>1, FewerJobs DEF SendStores, SendSeals, SendGoesOut, Abort, To, SendInv
<1>5. at' \notin {"fill", "page", "get"}
  BY <1>1 DEF SendStores, SendSeals, SendGoesOut, On, Runs, Abort, To, Done
<1>6. Opened'
  BY <1>5 DEF Opened
<1> QED
  BY <1>2, <1>3, <1>4, <1>5, <1>6, SameRows, JobCalm

LEMMA ReceiveCalm ==
  ASSUME SendInv, Calm, Parts', causes' = {}, Receive \/ ReceiveShows
  PROVE  Calm'
<1> USE DEF frame, lists, thread, net, past, view
<1>1. jobs # <<>> /\ cur.op = "receive" /\ usersList # <<>>
  <2>1. jobs # <<>> /\ cur.op = "receive"
    BY DEF Receive, ReceiveShows, On, Runs
  <2> QED
    BY <2>1, CalmRuns DEF Calm, Reachable
<1>2. UNCHANGED <<page, blocked, usersList, toUserId, asked, fetching, left, ignoring, failed, ui, size, row, pressed>>
  BY <1>1 DEF Receive, ReceiveShows, On, Abort, AddFront
<1>3. db'.conversations = db.conversations
  BY <1>1 DEF Receive, ReceiveShows, Abort, addMessage, SendInv, Parts, DbOK
<1>4. Fewer
  BY <1>1, FewerJobs DEF Receive, ReceiveShows, Abort, To, SendInv
<1>5. at' \notin {"fill", "page", "get"}
  BY <1>1 DEF Receive, ReceiveShows, On, Runs, Abort, To, Done
<1>6. Opened'
  BY <1>5 DEF Opened
<1>7. Len(messagesList') >= Len(messagesList)
  BY <1>1, SameRows DEF Receive, ReceiveShows, Abort, AddFront
<1> QED
  BY <1>2, <1>3, <1>4, <1>5, <1>6, <1>7, JobCalm

(* Once the page is shown no other is on its way. *)
LEMMA LastPage ==
  ASSUME SendInv, Calm, jobs # <<>>, cur.op = "continue", Done
  PROVE  ~OnItsWay("continue")'
<1>1. jobs \in Seq(Jobs) /\ jobs' = Tail(jobs) /\ cur = jobs[1] /\ 1 \in DOMAIN jobs
  BY RunsType DEF SendInv, Parts, JobsOK, Done
<1>2. ASSUME NEW i \in DOMAIN jobs', jobs'[i].op = "continue" PROVE FALSE
  <2>1. i + 1 \in DOMAIN jobs /\ jobs[i + 1].op = "continue" /\ i \in Nat /\ i # 0
    BY <1>1, <1>2, OneLess
  <2>2. i + 1 = 1
    BY <1>1, <2>1 DEF Calm, OnePage
  <2> QED
    BY <2>1, <2>2
<1> QED
  BY <1>2 DEF OnItsWay

LEMMA ContinueCalm ==
  ASSUME SendInv, Calm, Parts', causes = {}, causes' = {},
         Continue \/ ContinueFills \/ ContinueShows
  PROVE  Calm'
<1> USE DEF frame, lists, thread, net, past, view
<1>1. jobs # <<>> /\ cur.op = "continue" /\ cur.user = toUserId /\ ~cur.freed /\ OnItsWay("continue")
  <2>1. jobs # <<>> /\ cur.op = "continue"
    BY DEF Continue, ContinueFills, ContinueShows, On, Runs
  <2> QED
    BY <2>1, CalmRuns
<1>2. /\ blocked /\ ~pressed /\ page = "users" /\ ui \in {"users", "idle"} /\ Listed(toUserId)
  BY <1>1 DEF Calm, Opening
<1>3. /\ UNCHANGED <<usersList, toUserId, asked, fetching, left, ignoring, failed, ui, size, row, pressed>>
      /\ UNCHANGED db
  BY <1>1, <1>2 DEF Continue, ContinueFills, ContinueShows, On, RenderFree, Abort
<1>4. Fewer
  BY <1>1, FewerJobs DEF Continue, ContinueFills, ContinueShows, Abort, To, Finish, SendInv
<1>5. CASE Continue /\ conversationExists(db, cur.user)
  <2>1. To("fill") /\ UNCHANGED <<page, blocked>>
    BY <1>5 DEF Continue
  <2>2. Opened'
    BY <1>3, <1>5, <2>1 DEF Opened, To, cur
  <2> QED
    BY <1>2, <1>3, <1>4, <2>1, <2>2, JobCalm DEF To, Done
<1>6. CASE Continue /\ ~conversationExists(db, cur.user)
  <2>1. Done /\ UNCHANGED page
    BY <1>6 DEF Continue, Finish
  <2>2. Opened'
    BY <2>1 DEF Opened, Done
  <2>3. ~OnItsWay("continue")'
    BY <1>1, <2>1, LastPage
  <2> QED
    BY <1>2, <1>3, <1>4, <2>1, <2>2, <2>3, JobCalm DEF To, Done
<1>7. CASE ContinueFills
  <2>1. To("page") /\ UNCHANGED <<page, blocked>> /\ at = "fill"
    BY <1>1, <1>2, <1>7 DEF ContinueFills, On, Runs
  <2>2. Opened'
    BY <1>1, <1>3, <2>1 DEF Calm, Opened, To, cur
  <2> QED
    BY <1>2, <1>3, <1>4, <2>1, <2>2, JobCalm DEF To, Done
<1>8. CASE ContinueShows
  <2>1. Done /\ at = "page" /\ ui = "idle"
    BY <1>1, <1>2, <1>8 DEF ContinueShows, On, Runs, Finish, RenderFree, Drawing, Drawings
  <2>2. Opened'
    BY <2>1 DEF Opened, Done
  <2>3. ~OnItsWay("continue")'
    BY <1>1, <2>1, LastPage
  <2>4. conversationExists(db, toUserId)
    BY <1>1, <2>1 DEF Calm, Opened
  <2> QED
    BY <1>2, <1>3, <1>4, <2>1, <2>2, <2>3, <2>4, JobCalm DEF To, Done
<1> QED
  BY <1>5, <1>6, <1>7, <1>8

LEMMA AsyncCalm ==
  ASSUME SendInv, Calm, Parts', causes = {}, causes' = {}, AsyncThread
  PROVE  Calm'
<1>1. jobs # <<>> => cur.op \in {"send", "receive", "continue"}
  BY CalmRuns
<1>2. ~(Start \/ Delete \/ Reply \/ ReplyAsks)
  BY <1>1 DEF Start, Delete, Reply, ReplyAsks, On, Runs
<1>3. ~(RefreshBegins \/ RefreshClears \/ RefreshShows \/ Finishes)
  BY <1>1 DEF RefreshBegins, RefreshClears, RefreshShows, Finishes, Refreshing, On, Runs
<1>4. ~(Fetch \/ Users \/ UsersAdds \/ UsersShows \/ More \/ MoreAsks)
  BY <1>1 DEF Fetch, Users, UsersAdds, UsersShows, More, MoreAsks, On, Runs
<1> QED
  BY <1>2, <1>3, <1>4, SendCalm, ReceiveCalm, ContinueCalm DEF AsyncThread

LEMMA ArrivesCalm ==
  ASSUME SendInv, Calm, Parts', causes' = {}, NEW u \in Peers, MessageArrives(u)
  PROVE  Calm'
<1> USE DEF frame, lists, thread, net, past, view
<1>1. PICK t \in Times : /\ Acts(Untimely(t, now'))
                         /\ Push([Job("receive", u, acts + 1) EXCEPT !.time = t])
  BY DEF MessageArrives
<1>2. UNCHANGED <<page, blocked, ui, size, pressed, usersList, messagesList, toUserId, db, at, asked,
                  fetching, failed>>
  BY DEF MessageArrives
<1>3. usersList # <<>>
  BY <1>1 DEF Acts, Untimely
<1>4. Parts /\ t \in Nat
  BY DbFields DEF Times, SendInv
<1>5. acts + 1 \in 1..MaxActs
  <2>1. Untimely(t, now') \in SUBSET Causes
    BY Reasons
  <2> QED
    BY <1>1, <1>4, <2>1, ActsTypes
<1>6. PICK text \in 0..MaxActs : text = acts + 1
  BY <1>5, ActsAssumption
<1>7. PICK j : j = [Job("receive", u, acts + 1) EXCEPT !.time = t]
  OBVIOUS
<1>8. j = [op |-> "receive", user |-> u, text |-> text, size |-> 0, time |-> t,
           sealed |-> NoUser, freed |-> FALSE]
  BY <1>6, <1>7 DEF Job
<1>9. j \in Jobs /\ j.op = "receive" /\ ~j.freed
  BY <1>4, <1>8 DEF Jobs, Ops
<1>10. /\ CalmJobs' /\ OnePage' /\ \A op : OnItsWay(op)' => (OnItsWay(op) \/ j.op = op)
       /\ jobs # <<>> => cur' = cur
  BY <1>1, <1>4, <1>7, <1>9, PushCalm DEF Calm
<1>11. Opened'
  BY <1>2, <1>10, OpenedLater
<1>12. /\ OnItsWay("continue")' => OnItsWay("continue")
       /\ OnItsWay("send")' => OnItsWay("send")
  BY <1>9, <1>10
<1>13. Opening' /\ Reachable'
  BY <1>2, <1>3, <1>12 DEF Calm, Opening, Reachable, Listed, conversationExists
<1>14. RowsThere' /\ Pasting'
  BY <1>2 DEF Calm, RowsThere, Pasting, Drawing, Drawn, ListOf
<1> QED
  BY <1>2, <1>10, <1>11, <1>13, <1>14 DEF Calm, Alive

LEMMA NetCalm ==
  ASSUME SendInv, Calm, Parts', causes' = {}, NetThread
  PROVE  Calm'
<1> USE DEF frame, lists, thread, net, past, view
<1>1. ~(UsersArrive \/ FetchEnds \/ FetchChecks)
  BY DEF UsersArrive, FetchEnds, FetchChecks, Calm
<1>2. \A u \in Peers : ~InviteArrives(u)
  BY DEF InviteArrives, Acts
<1>3. CASE ErrorArrives
  <2>1. /\ UNCHANGED <<page, ui, size, pressed, usersList, messagesList, toUserId, db, jobs, at,
                       asked, fetching, left, ignoring, failed>>
        /\ Early(Pending) = {}
    BY <1>3 DEF ErrorArrives, Acts
  <2>2. ~OnItsWay("continue")
    BY <2>1 DEF Early, HeldBesides, Pending, Range, Held, OnItsWay
  <2>3. /\ Alive' /\ ~asked' /\ fetching' = "no" /\ at' # "get" /\ CalmJobs' /\ OnePage' /\ Opened' /\ Reachable'
        /\ ~OnItsWay("continue")'
    BY <2>1, <2>2, CalmPlain
  <2>4. RowsThere' /\ Pasting' /\ Opening'
    BY <2>1, <2>3 DEF Calm, RowsThere, Pasting, Opening, Drawing, Drawn, ListOf
  <2> QED
    BY <2>3, <2>4 DEF Calm
<1> QED
  BY <1>1, <1>2, <1>3, ArrivesCalm DEF NetThread

LEMMA InitCalm == Init => CalmInv
<1> SUFFICES ASSUME Init PROVE Calm
  BY InitSend DEF CalmInv
<1>1. /\ jobs = <<>> /\ ui = "idle" /\ page = "users" /\ at = "first" /\ failed = "none"
      /\ ~asked /\ fetching = "no" /\ at # "get"
  BY DEF Init
<1>2. CalmJobs /\ OnePage /\ \A op : ~OnItsWay(op)
  BY <1>1, NothingIn DEF CalmJobs, OnePage, OnItsWay
<1>3. Opening /\ Opened /\ Reachable /\ RowsThere /\ Pasting
  BY <1>1, <1>2 DEF Opening, Opened, Reachable, RowsThere, Pasting, Drawing, Drawings
<1> QED
  BY <1>1, <1>2, <1>3 DEF Calm, Alive

LEMMA NextCalm == CalmInv /\ [Next]_vars => CalmInv'
<1> SUFFICES ASSUME CalmInv, [Next]_vars PROVE CalmInv'
  OBVIOUS
<1>1. SendInv /\ SendInv' /\ Parts'
  BY NextSend DEF CalmInv, SendInv
<1>2. ASSUME causes' = {} PROVE Calm'
  <2>1. causes = {}
    BY <1>2, CausesGrow DEF vars, past
  <2>2. Calm
    BY <2>1 DEF CalmInv
  <2>3. CASE UIThread
    BY <1>1, <1>2, <2>2, <2>3, UICalm
  <2>4. CASE AsyncThread
    BY <1>1, <1>2, <2>1, <2>2, <2>4, AsyncCalm
  <2>5. CASE NetThread
    BY <1>1, <1>2, <2>2, <2>5, NetCalm
  <2>6. CASE UNCHANGED vars
    <3>1. UNCHANGED <<jobs, at, usersList, messagesList, toUserId, db, asked, fetching, left, ignoring, failed, page,
                      blocked, ui, size, pressed>>
      BY <2>6 DEF vars, view, frame, lists, thread, net
    <3>2. /\ Alive' /\ ~asked' /\ fetching' = "no" /\ at' # "get" /\ CalmJobs' /\ OnePage' /\ Opened' /\ Reachable'
          /\ OnItsWay("continue")' => OnItsWay("continue")
          /\ Listed(toUserId)' <=> Listed(toUserId)
      BY <1>1, <2>2, <3>1, CalmPlain
    <3>3. RowsThere' /\ Pasting' /\ Opening'
      BY <2>2, <3>1, <3>2 DEF Calm, RowsThere, Pasting, Opening, Drawing, Drawn, ListOf
    <3> QED
      BY <3>2, <3>3 DEF Calm
  <2> QED
    BY <2>3, <2>4, <2>5, <2>6 DEF Next, Rest
<1> QED
  BY <1>1, <1>2 DEF CalmInv

(* Reading, writing, leaving and opening conversations never ends the      *)
(* client, in whatever order the UI, async and net threads take their      *)
(* steps: rows that are drawn are there, what is pasted is pasted into     *)
(* what is shown, and whoever a job is for is listed and has a             *)
(* conversation (render.c, logic.c).                                       *)
THEOREM CalmGoesOn == Spec => []CalmIsSafe
<1>1. Spec => []CalmInv
  BY InitCalm, NextCalm, PTL DEF Spec
<1>2. CalmInv => CalmIsSafe
  BY DEF CalmInv, Calm, CalmIsSafe
<1> QED
  BY <1>1, <1>2, PTL

-----------------------------------------------------------------------------
(* What a page shows.  Every text that is stored, or waits to be, is there *)
(* once.  An open page has, each once, the texts that are stored for       *)
(* toUserId and those that are still to be sent, which are shown first;    *)
(* one that is received is stored first and shown then.  A page is opened  *)
(* from the users' page, so that nothing is written while its list is      *)
(* filled; and whatever else the user starts there waits behind it, where  *)
(* the end of the opening finds it and gives the controls back early.      *)

Unstored(ops) == {i \in DOMAIN jobs : jobs[i].op \in ops /\ (i > 1 \/ at = "first")}
FreshInv ==
  /\ \A m \in db.messages : m.text <= acts
  /\ \A m, n \in db.messages : m.text = n.text => m = n
  /\ \A i \in Unstored({"send", "receive"}) :
       /\ jobs[i].text <= acts
       /\ \A m \in db.messages : m.text # jobs[i].text
       /\ \A k \in Unstored({"send", "receive"}) : jobs[k].text = jobs[i].text => k = i

Texts == {messagesList[i].text : i \in DOMAIN messagesList}
Once == \A i, k \in DOMAIN messagesList : messagesList[i].text = messagesList[k].text => i = k
Stored == {m.text : m \in OfUser(db.messages, toUserId)}
ToSend == {jobs[i].text : i \in Unstored({"send"})}
Received == jobs # <<>> /\ cur.op = "receive" /\ at = "show"
ToShow == IF Received THEN {cur.text} ELSE {}

NoReply == ~OnItsWay("reply")
FromUsers == OnItsWay("continue") \/ OnItsWay("delete") => page = "users"
NothingSent == \A i, k \in DOMAIN jobs : i < k /\ jobs[i].op = "continue" => jobs[k].op # "send"
ListShown ==
  page # "users" => Once /\ Texts \cap ToShow = {} /\ Texts \cup ToShow = Stored \cup ToSend

HeldBehind == \E i \in DOMAIN jobs : i > 1 /\ jobs[i].op \in Held
Filling ==
  jobs # <<>> /\ cur.op = "continue" /\ ~HeldBehind =>
    /\ at \in {"fill", "page"} => conversationExists(db, cur.user)
    /\ at = "fill" => messagesList = <<>>
    /\ at = "page" => Once /\ Texts = {m.text : m \in OfUser(db.messages, cur.user)}

(* Who is listed without a conversation has none, but for a start that has *)
(* made one and not yet emptied the list.                                  *)
Making == jobs # <<>> /\ cur.op = "start" /\ at \in {"begin", "clear"}
Told ==
  Making \/ \A i \in DOMAIN usersList :
              ~usersList[i].exists => ~conversationExists(db, usersList[i].id)

Undisturbed == causes \cap {"overtaken", "invite", "early"} = {}
Orderly == NoReply /\ FromUsers /\ NothingSent /\ ListShown /\ Filling /\ Told
ShowInv == SendInv /\ FreshInv /\ (Undisturbed => Orderly)

(* The queue without its first d jobs, and with n more. *)
SameJob(i, k) ==
  jobs'[i].op = jobs[k].op /\ jobs'[i].user = jobs[k].user /\ jobs'[i].text = jobs[k].text
Moves(d, n) ==
  /\ d <= Len(jobs) /\ Len(jobs') = Len(jobs) - d + n
  /\ \A i \in 1 .. Len(jobs) - d : SameJob(i, i + d)
Newest == jobs'[Len(jobs')]

LEMMA QueueOf ==
  ASSUME Parts
  PROVE  /\ jobs \in Seq(Jobs) /\ DOMAIN jobs = 1 .. Len(jobs) /\ Len(jobs) \in Nat
         /\ jobs # <<>> <=> 1 <= Len(jobs)
         /\ jobs # <<>> => cur = jobs[1] /\ 1 \in DOMAIN jobs
         /\ \A i \in DOMAIN jobs : jobs[i] \in Jobs
<1>1. jobs \in Seq(Jobs) /\ DOMAIN jobs = 1 .. Len(jobs) /\ Len(jobs) \in Nat
  BY DEF Parts, JobsOK
<1>2. jobs # <<>> <=> 1 <= Len(jobs)
  BY <1>1
<1> QED
  BY <1>1, <1>2, ElementsOf, OneLess DEF cur

LEMMA QueueMoves ==
  ASSUME Parts
  PROVE  /\ UNCHANGED jobs => Moves(0, 0)
         /\ jobs # <<>> /\ jobs' = Tail(jobs) => Moves(1, 0)
         /\ jobs' = [i \in DOMAIN jobs |-> Freed(jobs[i])] => Moves(0, 0)
         /\ \A v : jobs # <<>> /\ jobs' = [jobs EXCEPT ![1].sealed = v] => Moves(0, 0)
         /\ \A j \in Jobs : jobs' = Append(jobs, j) => Moves(0, 1) /\ Newest = j
         /\ \A j \in Jobs : jobs # <<>> /\ jobs' = Append(Tail(jobs), j) => Moves(1, 1) /\ Newest = j
         /\ \A j \in Jobs : jobs' = Append([i \in DOMAIN jobs |-> Freed(jobs[i])], j) =>
              Moves(0, 1) /\ Newest = j
<1>1. jobs \in Seq(Jobs) /\ DOMAIN jobs = 1 .. Len(jobs) /\ Len(jobs) \in Nat
  BY QueueOf
<1>2. UNCHANGED jobs => Moves(0, 0)
  BY <1>1 DEF Moves, SameJob
<1>3. ASSUME jobs # <<>>, jobs' = Tail(jobs) PROVE Moves(1, 0)
  BY <1>1, <1>3, OneLess DEF Moves, SameJob
<1>4. PICK q : q = [i \in DOMAIN jobs |-> Freed(jobs[i])]
  OBVIOUS
<1>5. /\ q \in Seq(Jobs) /\ DOMAIN q = DOMAIN jobs /\ Len(q) = Len(jobs)
      /\ \A i \in DOMAIN q :
           q[i].op = jobs[i].op /\ q[i].user = jobs[i].user /\ q[i].text = jobs[i].text
  BY <1>4, FreedTypes
<1>6. jobs' = q => Moves(0, 0)
  BY <1>1, <1>5 DEF Moves, SameJob
<1>7. ASSUME NEW v, jobs # <<>>, jobs' = [jobs EXCEPT ![1].sealed = v] PROVE Moves(0, 0)
  <2>1. DOMAIN jobs' = DOMAIN jobs /\ Len(jobs') = Len(jobs)
    BY <1>1, <1>7
  <2>2. \A i \in DOMAIN jobs : /\ jobs'[i].op = jobs[i].op /\ jobs'[i].user = jobs[i].user
                               /\ jobs'[i].text = jobs[i].text
    BY <1>7, QueueOf DEF Jobs
  <2> QED
    BY <1>1, <2>1, <2>2 DEF Moves, SameJob
<1>8. ASSUME NEW j \in Jobs, jobs' = Append(jobs, j) PROVE Moves(0, 1) /\ Newest = j
  BY <1>1, <1>8, OneMore DEF Moves, SameJob, Newest
<1>9. ASSUME NEW j \in Jobs, jobs # <<>>, jobs' = Append(Tail(jobs), j) PROVE Moves(1, 1) /\ Newest = j
  <2>1. /\ Tail(jobs) \in Seq(Jobs) /\ Len(Tail(jobs)) = Len(jobs) - 1
        /\ DOMAIN Tail(jobs) = 1 .. Len(jobs) - 1
        /\ \A i \in DOMAIN Tail(jobs) : i + 1 \in DOMAIN jobs /\ Tail(jobs)[i] = jobs[i + 1]
    BY <1>1, <1>9, OneLess
  <2>2. /\ Len(jobs') = Len(Tail(jobs)) + 1 /\ jobs'[Len(Tail(jobs)) + 1] = j
        /\ \A i \in DOMAIN Tail(jobs) : jobs'[i] = Tail(jobs)[i]
    BY <1>9, <2>1, OneMore
  <2>3. jobs # <<>> => 1 <= Len(jobs)
    BY QueueOf
  <2> QED
    BY <1>1, <1>9, <2>1, <2>2, <2>3 DEF Moves, SameJob, Newest
<1>10. ASSUME NEW j \in Jobs, jobs' = Append(q, j) PROVE Moves(0, 1) /\ Newest = j
  BY <1>1, <1>5, <1>10, OneMore DEF Moves, SameJob, Newest
<1> QED
  BY <1>2, <1>3, <1>4, <1>6, <1>7, <1>8, <1>9, <1>10

LEMMA MovedJobs ==
  ASSUME Parts, Parts', NEW d \in {0, 1}, NEW n \in {0, 1}, Moves(d, n)
  PROVE  /\ \A i \in DOMAIN jobs' :
              \/ i + d \in DOMAIN jobs /\ SameJob(i, i + d) /\ i + d > d
              \/ n = 1 /\ i = Len(jobs')
         /\ \A k \in DOMAIN jobs : k > d => k - d \in DOMAIN jobs' /\ SameJob(k - d, k)
         /\ n = 1 => Len(jobs') \in DOMAIN jobs' /\ \A k \in DOMAIN jobs : k - d < Len(jobs')
         /\ d = 0 /\ jobs # <<>> =>
              /\ jobs' # <<>> /\ cur'.op = cur.op /\ cur'.user = cur.user /\ cur'.text = cur.text
         /\ DOMAIN jobs \subseteq Nat /\ DOMAIN jobs' \subseteq Nat
<1>1. /\ DOMAIN jobs = 1 .. Len(jobs) /\ Len(jobs) \in Nat
      /\ DOMAIN jobs' = 1 .. Len(jobs') /\ Len(jobs') \in Nat
  BY QueueOf DEF Parts, JobsOK
<1>2. d <= Len(jobs) /\ Len(jobs') = Len(jobs) - d + n /\ \A i \in 1 .. Len(jobs) - d : SameJob(i, i + d)
  BY DEF Moves
<1>3. ASSUME NEW i \in DOMAIN jobs'
      PROVE  \/ i + d \in DOMAIN jobs /\ SameJob(i, i + d) /\ i + d > d
             \/ n = 1 /\ i = Len(jobs')
  <2>1. i \in Nat /\ 1 <= i /\ i <= Len(jobs') /\ d \in Nat /\ n \in Nat
    BY <1>1
  <2>2. CASE i <= Len(jobs) - d
    <3>1. i \in 1 .. Len(jobs) - d /\ i + d \in DOMAIN jobs /\ i + d > d
      BY <1>1, <2>1, <2>2
    <3> QED
      BY <1>2, <3>1
  <2>3. CASE ~(i <= Len(jobs) - d)
    BY <1>1, <1>2, <2>1, <2>3
  <2> QED
    BY <2>2, <2>3
<1>4. ASSUME NEW k \in DOMAIN jobs, k > d PROVE k - d \in DOMAIN jobs' /\ SameJob(k - d, k)
  <2>1. k - d \in 1 .. Len(jobs) - d /\ (k - d) + d = k
    BY <1>1, <1>2, <1>4
  <2>2. SameJob(k - d, (k - d) + d)
    BY <1>2, <2>1
  <2> QED
    BY <1>1, <1>2, <2>1, <2>2
<1>5. n = 1 => Len(jobs') \in DOMAIN jobs' /\ \A k \in DOMAIN jobs : k - d < Len(jobs')
  BY <1>1, <1>2
<1>6. ASSUME d = 0, jobs # <<>>
      PROVE  jobs' # <<>> /\ cur'.op = cur.op /\ cur'.user = cur.user /\ cur'.text = cur.text
  <2>1. cur = jobs[1] /\ 1 \in DOMAIN jobs
    BY <1>6, QueueOf
  <2>2. 1 \in DOMAIN jobs' /\ SameJob(1, 1)
    BY <1>4, <1>6, <2>1
  <2>3. jobs' \in Seq(Jobs) /\ jobs' # <<>>
    BY <2>2, NothingIn DEF Parts, JobsOK
  <2>4. cur' = jobs'[1]
    BY <2>3, OneLess DEF cur
  <2> QED
    BY <2>1, <2>2, <2>3, <2>4 DEF SameJob
<1> QED
  BY <1>1, <1>3, <1>4, <1>5, <1>6

LEMMA UnstoredMoves ==
  ASSUME Parts, Parts', NEW ops, NEW d \in {0, 1}, NEW n \in {0, 1}, Moves(d, n),
         n = 1 => Newest.op \notin ops,
         d = 0 /\ at' = "first" => at = "first",
         d = 1 => at' = "first"
  PROVE  /\ \A i \in Unstored(ops)' : i + d \in Unstored(ops) /\ SameJob(i, i + d)
         /\ \A k \in Unstored(ops) :
              \/ k - d \in Unstored(ops)' /\ SameJob(k - d, k)
              \/ k = 1 /\ at = "first" /\ (d = 1 \/ at' # "first")
<1>1. DOMAIN jobs \subseteq Nat /\ DOMAIN jobs' \subseteq Nat
  BY MovedJobs
<1>2. ASSUME NEW i \in Unstored(ops)' PROVE i + d \in Unstored(ops) /\ SameJob(i, i + d)
  <2>1. i \in DOMAIN jobs' /\ i \in Nat /\ jobs'[i].op \in ops /\ (i > 1 \/ at' = "first")
    BY <1>1, <1>2 DEF Unstored
  <2>2. i + d \in DOMAIN jobs /\ SameJob(i, i + d) /\ i + d > d
    BY <2>1, MovedJobs DEF Newest
  <2>3. jobs[i + d].op \in ops
    BY <2>1, <2>2 DEF SameJob
  <2>4. i + d > 1 \/ at = "first"
    BY <2>1, <2>2
  <2> QED
    BY <2>2, <2>3, <2>4 DEF Unstored
<1>3. ASSUME NEW k \in Unstored(ops)
      PROVE  \/ k - d \in Unstored(ops)' /\ SameJob(k - d, k)
             \/ k = 1 /\ at = "first" /\ (d = 1 \/ at' # "first")
  <2>1. k \in DOMAIN jobs /\ k \in Nat /\ jobs[k].op \in ops /\ (k > 1 \/ at = "first")
    BY <1>1, <1>3 DEF Unstored
  <2>2. CASE k > d
    <3>1. k - d \in DOMAIN jobs' /\ SameJob(k - d, k)
      BY <2>1, <2>2, MovedJobs
    <3>2. jobs'[k - d].op \in ops
      BY <2>1, <3>1 DEF SameJob
    <3>3. k - d > 1 \/ at' = "first" \/ (k = 1 /\ at = "first" /\ at' # "first")
      <4>1. CASE d = 1
        BY <4>1
      <4>2. CASE d = 0
        <5>1. k - d = k /\ k # 0 /\ (k > 1 \/ k = 1)
          BY <2>1, <2>2, <4>2
        <5> QED
          BY <2>1, <5>1
      <4> QED
        BY <4>1, <4>2
    <3> QED
      BY <3>1, <3>2, <3>3 DEF Unstored
  <2>3. CASE ~(k > d)
    <3>1. k # 0
      BY <2>1, QueueOf
    <3>2. k = 1 /\ d = 1
      BY <2>1, <2>3, <3>1
    <3> QED
      BY <2>1, <3>2
  <2> QED
    BY <2>2, <2>3
<1> QED
  BY <1>2, <1>3

(* No text waits that did not, and none that did comes to be stored. *)
LEMMA FreshStep ==
  ASSUME Parts, Parts', FreshInv, acts <= acts', db'.messages \subseteq db.messages,
         NEW d \in {0, 1},
         \A i \in Unstored({"send", "receive"})' :
           i + d \in Unstored({"send", "receive"}) /\ SameJob(i, i + d)
  PROVE  FreshInv'
<1>1. acts \in Nat /\ acts' \in Nat /\ DOMAIN jobs' \subseteq Nat
  BY TextFields, QueueOf DEF Parts, PastOK, JobsOK
<1>2. \A m \in db.messages : m.text \in Nat
  BY DbFields, RowFields
<1>3. \A m \in db'.messages : m.text <= acts'
  BY <1>1, <1>2 DEF FreshInv
<1>4. \A m, n \in db'.messages : m.text = n.text => m = n
  BY DEF FreshInv
<1>5. ASSUME NEW i \in Unstored({"send", "receive"})'
      PROVE  /\ jobs'[i].text <= acts'
             /\ \A m \in db'.messages : m.text # jobs'[i].text
             /\ \A k \in Unstored({"send", "receive"})' : jobs'[k].text = jobs'[i].text => k = i
  <2>1. /\ i + d \in Unstored({"send", "receive"}) /\ jobs'[i].text = jobs[i + d].text
        /\ i \in Nat
    BY <1>1, <1>5 DEF SameJob, Unstored
  <2>2. jobs[i + d].text \in Nat
    BY <2>1, TextFields DEF Unstored
  <2>3. jobs'[i].text <= acts'
    BY <1>1, <2>1, <2>2 DEF FreshInv
  <2>4. \A m \in db'.messages : m.text # jobs'[i].text
    BY <2>1 DEF FreshInv
  <2>5. ASSUME NEW k \in Unstored({"send", "receive"})', jobs'[k].text = jobs'[i].text PROVE k = i
    <3>1. /\ k + d \in Unstored({"send", "receive"}) /\ jobs'[k].text = jobs[k + d].text
          /\ k \in Nat
      BY <1>1, <2>5 DEF SameJob, Unstored
    <3>2. k + d = i + d
      BY <2>1, <2>5, <3>1 DEF FreshInv
    <3> QED
      BY <2>1, <3>1, <3>2
  <2> QED
    BY <2>3, <2>4, <2>5
<1> QED
  BY <1>3, <1>4, <1>5 DEF FreshInv

(* A new text, with the number of the act it is. *)
LEMMA FreshPush ==
  ASSUME Parts, Parts', FreshInv, Moves(0, 1), Newest.text = acts + 1, acts' = acts + 1,
         db'.messages = db.messages, UNCHANGED at
  PROVE  FreshInv'
<1>1. acts \in Nat /\ acts' \in Nat /\ DOMAIN jobs' \subseteq Nat /\ DOMAIN jobs \subseteq Nat
  BY TextFields, QueueOf DEF Parts, PastOK, JobsOK
<1>2. \A m \in db.messages : m.text \in Nat /\ m.text <= acts
  BY DbFields, RowFields DEF FreshInv
<1>3. \A i \in DOMAIN jobs' : (i \in DOMAIN jobs /\ SameJob(i, i)) \/ i = Len(jobs')
  <2>1. \A i \in DOMAIN jobs' : i + 0 = i
    BY <1>1
  <2> QED
    BY <2>1, MovedJobs
<1>4. ASSUME NEW i \in Unstored({"send", "receive"})'
      PROVE  \/ i \in Unstored({"send", "receive"}) /\ SameJob(i, i) /\ jobs'[i].text \in Nat
                  /\ jobs'[i].text <= acts
             \/ i = Len(jobs') /\ jobs'[i].text = acts + 1
  <2>1. CASE i \in DOMAIN jobs /\ SameJob(i, i)
    <3>1. i \in Unstored({"send", "receive"}) /\ jobs'[i].text = jobs[i].text
      BY <1>4, <2>1 DEF Unstored, SameJob
    <3>2. jobs[i].text \in Nat /\ jobs[i].text <= acts
      BY <2>1, <3>1, TextFields DEF FreshInv
    <3> QED
      BY <2>1, <3>1, <3>2
  <2>2. CASE i = Len(jobs')
    BY <2>2 DEF Newest
  <2> QED
    BY <1>3, <1>4, <2>1, <2>2 DEF Unstored
<1>5. \A m \in db'.messages : m.text <= acts'
  BY <1>1, <1>2
<1>6. \A m, n \in db'.messages : m.text = n.text => m = n
  BY DEF FreshInv
<1>7. ASSUME NEW i \in Unstored({"send", "receive"})'
      PROVE  /\ jobs'[i].text <= acts'
             /\ \A m \in db'.messages : m.text # jobs'[i].text
             /\ \A k \in Unstored({"send", "receive"})' : jobs'[k].text = jobs'[i].text => k = i
  <2>1. jobs'[i].text <= acts'
    BY <1>1, <1>4
  <2>2. \A m \in db'.messages : m.text # jobs'[i].text
    <3>1. CASE i \in Unstored({"send", "receive"}) /\ SameJob(i, i)
      BY <3>1 DEF FreshInv, SameJob
    <3>2. CASE jobs'[i].text = acts + 1
      BY <1>1, <1>2, <3>2
    <3> QED
      BY <1>4, <3>1, <3>2
  <2>3. ASSUME NEW k \in Unstored({"send", "receive"})', jobs'[k].text = jobs'[i].text PROVE k = i
    <3>1. CASE jobs'[i].text = acts + 1
      <4>1. ~(jobs'[k].text <= acts) /\ ~(jobs'[i].text <= acts)
        BY <1>1, <2>3, <3>1
      <4> QED
        BY <1>4, <4>1
    <3>2. CASE jobs'[i].text # acts + 1
      <4>1. /\ i \in Unstored({"send", "receive"}) /\ SameJob(i, i)
            /\ k \in Unstored({"send", "receive"}) /\ SameJob(k, k)
        BY <1>4, <2>3, <3>2
      <4> QED
        BY <2>3, <4>1 DEF FreshInv, SameJob
    <3> QED
      BY <3>1, <3>2
  <2> QED
    BY <2>1, <2>2, <2>3
<1> QED
  BY <1>5, <1>6, <1>7 DEF FreshInv

(* The text of the first job is stored. *)
LEMMA FreshStored ==
  ASSUME Parts, Parts', FreshInv, acts' = acts, jobs # <<>>, cur.op \in {"send", "receive"},
         at = "first", NEW m, db'.messages = db.messages \cup {m}, m.text = cur.text,
         NEW d \in {0, 1}, Moves(d, 0), at' = "first" <=> d = 1
  PROVE  FreshInv'
<1>1. acts \in Nat /\ DOMAIN jobs' \subseteq Nat /\ DOMAIN jobs \subseteq Nat
  BY TextFields, QueueOf DEF Parts, JobsOK
<1>2. 1 \in Unstored({"send", "receive"}) /\ cur = jobs[1]
  BY QueueOf DEF Unstored
<1>3. ASSUME NEW i \in Unstored({"send", "receive"})'
      PROVE  /\ i \in Nat /\ i + d \in Unstored({"send", "receive"}) /\ i + d # 1
             /\ jobs'[i].text = jobs[i + d].text
  <2>1. 0 \in {0, 1} /\ 0 # 1 /\ (d = 0 /\ at' = "first" => at = "first")
    OBVIOUS
  <2>2. i + d \in Unstored({"send", "receive"}) /\ SameJob(i, i + d)
    BY <1>3, <2>1, UnstoredMoves
  <2>3. i \in DOMAIN jobs' /\ i \in Nat /\ (i > 1 \/ at' = "first")
    BY <1>1, <1>3 DEF Unstored
  <2>4. i # 0
    BY <2>3 DEF Parts, JobsOK
  <2>5. i + d # 1
    BY <2>3, <2>4
  <2> QED
    BY <2>2, <2>3, <2>5 DEF SameJob
<1>4. \A n \in db'.messages : n.text <= acts'
  BY <1>2 DEF FreshInv
<1>5. \A n, k \in db'.messages : n.text = k.text => n = k
  BY <1>2 DEF FreshInv
<1>6. ASSUME NEW i \in Unstored({"send", "receive"})'
      PROVE  /\ jobs'[i].text <= acts'
             /\ \A n \in db'.messages : n.text # jobs'[i].text
             /\ \A k \in Unstored({"send", "receive"})' : jobs'[k].text = jobs'[i].text => k = i
  <2>1. jobs'[i].text <= acts'
    BY <1>3, <1>6 DEF FreshInv
  <2>2. \A n \in db.messages : n.text # jobs'[i].text
    BY <1>3, <1>6 DEF FreshInv
  <2>3. m.text # jobs'[i].text
    BY <1>2, <1>3, <1>6 DEF FreshInv
  <2>4. ASSUME NEW k \in Unstored({"send", "receive"})', jobs'[k].text = jobs'[i].text PROVE k = i
    <3>1. k + d = i + d
      BY <1>3, <1>6, <2>4 DEF FreshInv
    <3> QED
      BY <1>3, <1>6, <2>4, <3>1
  <2> QED
    BY <2>1, <2>2, <2>3, <2>4
<1> QED
  BY <1>4, <1>5, <1>6 DEF FreshInv

(* What the queue keeps of its order. *)
LEMMA OrderKept ==
  ASSUME Parts, Parts', NEW d \in {0, 1}, NEW n \in {0, 1}, Moves(d, n)
  PROVE  /\ \A op : OnItsWay(op)' => (OnItsWay(op) \/ (n = 1 /\ Newest.op = op))
         /\ NothingSent /\ (n = 1 => Newest.op # "send" \/ ~OnItsWay("continue")) => NothingSent'
         /\ d = 0 /\ HeldBehind => HeldBehind'
         /\ d = 0 /\ n = 1 /\ jobs # <<>> /\ Newest.op \in Held => HeldBehind'
<1>1. /\ DOMAIN jobs \subseteq Nat /\ DOMAIN jobs' \subseteq Nat
      /\ \A i \in DOMAIN jobs' :
           \/ i + d \in DOMAIN jobs /\ SameJob(i, i + d) /\ i + d > d
           \/ n = 1 /\ i = Len(jobs')
      /\ \A k \in DOMAIN jobs : k > d => k - d \in DOMAIN jobs' /\ SameJob(k - d, k)
      /\ n = 1 => Len(jobs') \in DOMAIN jobs' /\ \A k \in DOMAIN jobs : k - d < Len(jobs')
  BY MovedJobs
<1>2. ASSUME NEW op, OnItsWay(op)' PROVE OnItsWay(op) \/ (n = 1 /\ Newest.op = op)
  <2>1. PICK i \in DOMAIN jobs' : jobs'[i].op = op
    BY <1>2 DEF OnItsWay
  <2>2. CASE i + d \in DOMAIN jobs /\ SameJob(i, i + d)
    BY <2>1, <2>2 DEF OnItsWay, SameJob
  <2>3. CASE n = 1 /\ i = Len(jobs')
    BY <2>1, <2>3 DEF Newest
  <2> QED
    BY <1>1, <2>1, <2>2, <2>3
<1>3. ASSUME NothingSent, n = 1 => Newest.op # "send" \/ ~OnItsWay("continue") PROVE NothingSent'
  <2> SUFFICES ASSUME NEW i \in DOMAIN jobs', NEW k \in DOMAIN jobs', i < k,
                      jobs'[i].op = "continue", jobs'[k].op = "send"
               PROVE  FALSE
    BY DEF NothingSent
  <2>1. i \in Nat /\ k \in Nat /\ i # Len(jobs')
    BY <1>1 DEF Parts, JobsOK
  <2>2. i + d \in DOMAIN jobs /\ jobs[i + d].op = "continue"
    BY <1>1, <2>1 DEF SameJob
  <2>3. CASE k + d \in DOMAIN jobs /\ SameJob(k, k + d)
    <3>1. jobs[k + d].op = "send" /\ i + d < k + d
      BY <2>1, <2>3 DEF SameJob
    <3> QED
      BY <1>3, <2>2, <2>3, <3>1 DEF NothingSent
  <2>4. CASE n = 1 /\ k = Len(jobs')
    BY <1>3, <2>2, <2>4 DEF Newest, OnItsWay
  <2> QED
    BY <1>1, <2>3, <2>4
<1>4. ASSUME d = 0, HeldBehind PROVE HeldBehind'
  <2>1. PICK k \in DOMAIN jobs : k > 1 /\ jobs[k].op \in Held
    BY <1>4 DEF HeldBehind
  <2>2. k - d = k /\ k > d
    BY <1>1, <1>4, <2>1
  <2>3. k \in DOMAIN jobs' /\ jobs'[k].op \in Held
    BY <1>1, <2>1, <2>2 DEF SameJob
  <2> QED
    BY <2>1, <2>3 DEF HeldBehind
<1>5. ASSUME d = 0, n = 1, jobs # <<>>, Newest.op \in Held PROVE HeldBehind'
  <2>1. 1 \in DOMAIN jobs /\ 1 - d < Len(jobs') /\ Len(jobs') \in DOMAIN jobs'
    BY <1>1, <1>5, QueueOf
  <2>2. Len(jobs') > 1
    BY <1>1, <1>5, <2>1
  <2> QED
    BY <1>5, <2>1, <2>2 DEF HeldBehind, Newest
<1> QED
  BY <1>2, <1>3, <1>4, <1>5

LEMMA FillingKept ==
  ASSUME Parts, Parts', QueueInv, Filling, NEW d \in {0, 1}, NEW n \in {0, 1}, Moves(d, n),
         \/ at' = "first"
         \/ HeldBehind'
         \/ d = 0 /\ jobs # <<>> /\ cur.op # "continue"
         \/ d = 0 /\ UNCHANGED <<at, messagesList, db>>
  PROVE  Filling'
<1>1. CASE at' = "first" \/ HeldBehind'
  BY <1>1 DEF Filling
<1>2. CASE d = 0 /\ jobs = <<>> /\ UNCHANGED at
  BY <1>2 DEF Filling, QueueInv
<1>3. CASE d = 0 /\ jobs # <<>> /\ cur.op # "continue"
  <2>1. cur'.op # "continue"
    BY <1>3, MovedJobs
  <2> QED
    BY <2>1 DEF Filling
<1>4. CASE d = 0 /\ jobs # <<>> /\ UNCHANGED <<at, messagesList, db>>
  <2>1. cur'.op = cur.op /\ cur'.user = cur.user
    BY <1>4, MovedJobs
  <2>2. HeldBehind => HeldBehind'
    BY <1>4, OrderKept
  <2>3. Once' <=> Once
    BY <1>4 DEF Once
  <2>4. Texts' = Texts
    BY <1>4 DEF Texts
  <2>5. OfUser(db.messages, cur.user)' = OfUser(db.messages, cur.user)
    BY <1>4, <2>1
  <2> QED
    BY <1>4, <2>1, <2>2, <2>3, <2>4, <2>5 DEF Filling, conversationExists
<1> QED
  BY <1>1, <1>2, <1>3, <1>4

LEMMA ToSendKept ==
  ASSUME Parts, Parts', NEW d \in {0, 1}, NEW n \in {0, 1}, Moves(d, n),
         n = 1 => Newest.op # "send",
         d = 0 /\ at' = "first" => at = "first",
         d = 1 => at' = "first",
         jobs # <<>> /\ cur.op = "send" /\ at = "first" => d = 0 /\ at' = "first"
  PROVE  ToSend' = ToSend
<1>1. /\ \A i \in Unstored({"send"})' : i + d \in Unstored({"send"}) /\ SameJob(i, i + d)
      /\ \A k \in Unstored({"send"}) :
           \/ k - d \in Unstored({"send"})' /\ SameJob(k - d, k)
           \/ k = 1 /\ at = "first" /\ (d = 1 \/ at' # "first")
  BY UnstoredMoves
<1>2. ASSUME NEW k \in Unstored({"send"}), k = 1, at = "first" PROVE d = 0 /\ at' = "first"
  <2>1. jobs # <<>> /\ cur = jobs[1] /\ jobs[1].op = "send"
    BY <1>2, QueueOf DEF Unstored
  <2> QED
    BY <1>2, <2>1
<1>3. \A k \in Unstored({"send"}) : k - d \in Unstored({"send"})' /\ SameJob(k - d, k)
  BY <1>1, <1>2
<1>4. \A i \in Unstored({"send"})' : jobs'[i].text \in ToSend
  BY <1>1 DEF ToSend, SameJob
<1>5. \A k \in Unstored({"send"}) : jobs[k].text \in ToSend'
  BY <1>3 DEF ToSend, SameJob
<1> QED
  BY <1>4, <1>5 DEF ToSend

LEMMA ToShowKept ==
  ASSUME Parts, Parts', QueueInv, NEW d \in {0, 1}, NEW n \in {0, 1}, Moves(d, n),
         \/ d = 0 /\ UNCHANGED at
         \/ at' = "first" /\ ~Received
         \/ d = 0 /\ jobs # <<>> /\ cur.op # "receive"
  PROVE  ToShow' = ToShow
<1>1. CASE at' = "first" /\ ~Received
  BY <1>1 DEF ToShow, Received
<1>2. CASE d = 0 /\ jobs = <<>> /\ UNCHANGED at
  BY <1>2 DEF ToShow, Received, QueueInv
<1>3. CASE d = 0 /\ jobs # <<>>
  <2>1. jobs' # <<>> /\ cur'.op = cur.op /\ cur'.text = cur.text
    BY <1>3, MovedJobs
  <2> QED
    BY <1>1, <1>3, <2>1 DEF ToShow, Received
<1> QED
  BY <1>1, <1>2, <1>3

LEMMA StoredKept ==
  ASSUME db'.messages = db.messages, toUserId' = toUserId
  PROVE  Stored' = Stored
  BY DEF Stored

LEMMA ListKept ==
  ASSUME ListShown, page' # "users" => page # "users", UNCHANGED messagesList,
         Stored' = Stored, ToSend' = ToSend, ToShow' = ToShow
  PROVE  ListShown'
<1>1. Texts' = Texts
  BY DEF Texts
<1>2. Once' <=> Once
  BY DEF Once
<1> QED
  BY <1>1, <1>2 DEF ListShown

LEMMA ToldKept ==
  ASSUME Told, UNCHANGED usersList, Making => Making',
         \A u : conversationExists(db, u)' => conversationExists(db, u)
  PROVE  Told'
  BY DEF Told

LEMMA NobodyTold ==
  ASSUME usersList' = <<>>
  PROVE  Told'
<1>1. DOMAIN usersList' = {}
  BY NothingIn
<1> QED
  BY <1>1 DEF Told

LEMMA LaterDisturbed ==
  ASSUME causes \subseteq causes', Undisturbed'
  PROVE  Undisturbed
  BY DEF Undisturbed

(* Steps that leave the lists, the database and the jobs alone. *)
LEMMA Turned ==
  ASSUME ShowInv, SendInv', causes \subseteq causes', acts <= acts', UNCHANGED <<lists, db, thread>>,
         \/ page' = page
         \/ page' = "users"
         \/ page # "users"
  PROVE  ShowInv'
<1>1. Parts /\ Parts' /\ FreshInv /\ QueueInv /\ UNCHANGED <<usersList, messagesList, toUserId, jobs, at>>
  BY DEF ShowInv, SendInv, lists, thread
<1>2. Moves(0, 0) /\ 0 \in {0, 1} /\ 0 # 1
  BY <1>1, QueueMoves
<1>3. FreshInv'
  <2>1. \A i \in Unstored({"send", "receive"})' :
          i + 0 \in Unstored({"send", "receive"}) /\ SameJob(i, i + 0)
    BY <1>1, <1>2, UnstoredMoves
  <2> QED
    BY <1>1, <1>2, <2>1, FreshStep
<1>4. ASSUME Undisturbed' PROVE Orderly'
  <2>1. Orderly
    BY <1>4, LaterDisturbed DEF ShowInv
  <2>2. NoReply' /\ NothingSent' /\ \A op : OnItsWay(op)' => OnItsWay(op)
    BY <1>1, <2>1 DEF Orderly, NoReply, NothingSent, OnItsWay
  <2>3. FromUsers'
    <3>1. /\ OnItsWay("continue")' => OnItsWay("continue")
          /\ OnItsWay("delete")' => OnItsWay("delete")
      BY <2>2
    <3> QED
      BY <2>1, <3>1 DEF Orderly, FromUsers
  <2>4. ToSend' = ToSend
    BY <1>1, <1>2, ToSendKept
  <2>5. ToShow' = ToShow
    BY <1>1, <1>2, ToShowKept
  <2>6. ListShown'
    <3>1. CASE page' # "users" => page # "users"
      BY <1>1, <2>1, <2>4, <2>5, <3>1, ListKept, StoredKept DEF Orderly
    <3>2. CASE page' = "users"
      BY <3>2 DEF ListShown
    <3> QED
      BY <3>1, <3>2
  <2>7. Filling'
    BY <1>1, <1>2, <2>1, FillingKept DEF Orderly
  <2>8. Told'
    BY <1>1, <2>1 DEF Orderly, Told, Making, conversationExists, cur
  <2> QED
    BY <2>2, <2>3, <2>6, <2>7, <2>8 DEF Orderly
<1> QED
  BY <1>3, <1>4 DEF ShowInv

(* A job is queued, and no text that is to be sent. *)
LEMMA Pushed ==
  ASSUME ShowInv, SendInv', causes \subseteq causes', Moves(0, 1), UNCHANGED <<db, at, page>>,
         FreshInv', Newest.op \notin {"send", "reply"}, Orderly => Told',
         \/ page = "users" /\ Newest.op \in Held
         \/ UNCHANGED <<messagesList, toUserId>> /\ Newest.op \in {"receive", "users", "more"}
  PROVE  ShowInv'
<1>1. Parts /\ Parts' /\ QueueInv /\ QueueInv'
  BY DEF ShowInv, SendInv
<1>2. 0 \in {0, 1} /\ 1 \in {0, 1}
  OBVIOUS
<1>3. ASSUME Undisturbed' PROVE Orderly'
  <2>1. Orderly
    BY <1>3, LaterDisturbed DEF ShowInv
  <2>2. /\ \A op : OnItsWay(op)' => (OnItsWay(op) \/ Newest.op = op)
        /\ NothingSent'
        /\ HeldBehind => HeldBehind'
        /\ jobs # <<>> /\ Newest.op \in Held => HeldBehind'
    BY <1>1, <1>2, <2>1, OrderKept DEF Orderly
  <2>3. NoReply'
    BY <2>1, <2>2 DEF Orderly, NoReply
  <2>4. FromUsers'
    <3>1. /\ OnItsWay("continue")' => OnItsWay("continue") \/ Newest.op = "continue"
          /\ OnItsWay("delete")' => OnItsWay("delete") \/ Newest.op = "delete"
      BY <2>2
    <3> QED
      BY <2>1, <3>1 DEF Orderly, FromUsers
  <2>5. ListShown'
    <3>1. CASE page = "users"
      BY <3>1 DEF ListShown
    <3>2. CASE UNCHANGED <<messagesList, toUserId>>
      <4>1. ToSend' = ToSend
        BY <1>1, <1>2, ToSendKept
      <4>2. ToShow' = ToShow
        BY <1>1, <1>2, ToShowKept
      <4> QED
        BY <2>1, <3>2, <4>1, <4>2, ListKept, StoredKept DEF Orderly
    <3> QED
      BY <3>1, <3>2
  <2>6. Filling'
    <3>1. CASE Newest.op \in Held /\ jobs # <<>>
      BY <1>1, <1>2, <2>1, <2>2, <3>1, FillingKept DEF Orderly
    <3>2. CASE jobs = <<>>
      BY <1>1, <1>2, <2>1, <3>2, FillingKept DEF Orderly, QueueInv
    <3>3. CASE UNCHANGED messagesList
      BY <1>1, <1>2, <2>1, <3>3, FillingKept DEF Orderly
    <3> QED
      BY <3>1, <3>2, <3>3
  <2>7. Told'
    BY <2>1
  <2> QED
    BY <2>2, <2>3, <2>4, <2>5, <2>6, <2>7 DEF Orderly
<1> QED
  BY <1>3 DEF ShowInv

LEMMA FreshAside ==
  ASSUME Parts, Parts', FreshInv, acts <= acts', db'.messages \subseteq db.messages,
         NEW d \in {0, 1}, NEW n \in {0, 1}, Moves(d, n),
         n = 1 => Newest.op \notin {"send", "receive"},
         d = 0 /\ at' = "first" => at = "first",
         d = 1 => at' = "first"
  PROVE  FreshInv'
<1>1. \A i \in Unstored({"send", "receive"})' :
        i + d \in Unstored({"send", "receive"}) /\ SameJob(i, i + d)
  BY UnstoredMoves
<1> QED
  BY <1>1, FreshStep

(* A job goes on or ends, and does nothing to what a page shows. *)
LEMMA Passing ==
  ASSUME ShowInv, SendInv', causes \subseteq causes', acts <= acts', jobs # <<>>,
         NEW d \in {0, 1}, NEW n \in {0, 1}, Moves(d, n), n = 1 => Newest.op = "fetch",
         \/ cur.op \notin {"send", "receive"}
         \/ cur.op = "send" /\ at # "first"
         \/ cur.op = "receive" /\ at = "first" /\ d = 1,
         d = 1 => at' = "first",
         d = 0 => cur.op # "continue" /\ at' # "first",
         UNCHANGED <<messagesList, toUserId>>,
         db'.messages \subseteq db.messages, page' = "users" \/ db'.messages = db.messages,
         page' = "users" \/ page' = page,
         Orderly => Told'
  PROVE  ShowInv'
<1>1. Parts /\ Parts' /\ FreshInv /\ QueueInv
  BY DEF ShowInv, SendInv
<1>2. FreshInv'
  BY <1>1, FreshAside
<1>3. ASSUME Undisturbed' PROVE Orderly'
  <2>1. Orderly
    BY <1>3, LaterDisturbed DEF ShowInv
  <2>2. NothingSent' /\ \A op : OnItsWay(op)' => (OnItsWay(op) \/ (n = 1 /\ Newest.op = op))
    BY <1>1, <2>1, OrderKept DEF Orderly
  <2>3. /\ OnItsWay("continue")' => OnItsWay("continue")
        /\ OnItsWay("delete")' => OnItsWay("delete")
        /\ OnItsWay("reply")' => OnItsWay("reply")
    BY <2>2
  <2>4. NoReply' /\ FromUsers'
    BY <2>1, <2>3 DEF Orderly, NoReply, FromUsers
  <2>5. ListShown'
    <3>1. CASE page' = "users"
      BY <3>1 DEF ListShown
    <3>2. CASE page' # "users"
      <4>1. ToSend' = ToSend
        BY <1>1, ToSendKept
      <4>2. ToShow' = ToShow
        BY <1>1, ToShowKept DEF Received
      <4> QED
        BY <2>1, <3>2, <4>1, <4>2, ListKept, StoredKept DEF Orderly
    <3> QED
      BY <3>1, <3>2
  <2>6. Filling'
    BY <1>1, <2>1, FillingKept DEF Orderly
  <2>7. Told'
    BY <2>1
  <2> QED
    BY <2>2, <2>4, <2>5, <2>6, <2>7 DEF Orderly
<1> QED
  BY <1>2, <1>3 DEF ShowInv

LEMMA ActsGrow ==
  ASSUME Parts, Next
  PROVE  acts <= acts'
<1> USE DEF vars, past, view, frame, lists, thread, net, Abort, Acts
<1> SUFFICES acts' = acts \/ acts' = acts + 1
  BY TextFields
<1>1. CASE Press \/ BeginDraw \/ DrawRow \/ EndDraw \/ PasteLooks \/ PasteChooses \/ PasteAlters
  BY <1>1 DEF Press, BeginDraw, DrawRow, EndDraw, PasteLooks, PasteChooses, PasteAlters
<1>2. CASE Clicks
  BY <1>2 DEF Clicks, ChooseContinue, ChooseDelete, ChooseStart, Choose, ChooseOffline,
         ClickUpdate, ClickBack, ClickSend, ClickFile, ClickNoFile
<1>3. CASE SendStores \/ SendSeals \/ SendGoesOut \/ Receive \/ ReceiveShows
  BY <1>3 DEF SendStores, SendSeals, SendGoesOut, Receive, ReceiveShows, On
<1>4. CASE Continue \/ ContinueFills \/ ContinueShows \/ Start \/ Delete \/ Reply \/ ReplyAsks
  BY <1>4 DEF Continue, ContinueFills, ContinueShows, Start, Delete, Reply, ReplyAsks, On
<1>5. CASE RefreshBegins \/ RefreshClears \/ RefreshShows \/ Finishes \/ Fetch \/ Users \/ UsersAdds
           \/ UsersShows \/ More \/ MoreAsks
  BY <1>5 DEF RefreshBegins, RefreshClears, RefreshShows, Finishes, Fetch, Users, UsersAdds,
         UsersShows, More, MoreAsks, On
<1>6. CASE NetThread
  BY <1>6 DEF NetThread, UsersArrive, FetchEnds, FetchChecks, ErrorArrives, MessageArrives, InviteArrives
<1>7. CASE Rest
  BY <1>7 DEF Rest
<1> QED
  BY <1>1, <1>2, <1>3, <1>4, <1>5, <1>6, <1>7 DEF Next, UIThread, AsyncThread

(* The process ends, or what is drawn changes. *)
LEMMA EndShown ==
  ASSUME ShowInv, SendInv', causes \subseteq causes', acts <= acts',
         UNCHANGED <<view, frame, lists, db, thread, net>>
  PROVE  ShowInv'
  BY Turned DEF view

LEMMA AbortShown ==
  ASSUME ShowInv, SendInv', causes \subseteq causes', acts <= acts', NEW what, Abort(what)
  PROVE  ShowInv'
  BY EndShown DEF Abort

LEMMA TurnShown ==
  ASSUME ShowInv, SendInv', causes \subseteq causes', acts <= acts',
         \/ Press \/ BeginDraw \/ DrawRow \/ EndDraw \/ PasteLooks \/ PasteChooses \/ PasteAlters
         \/ ClickBack \/ ClickFile \/ ClickNoFile \/ FetchChecks \/ ErrorArrives
  PROVE  ShowInv'
<1>1. CASE \E what : Abort(what)
  BY <1>1, AbortShown
<1>2. CASE ~ \E what : Abort(what)
  <2> USE DEF view, net, past
  <2>1. CASE Press \/ BeginDraw \/ EndDraw \/ PasteLooks \/ PasteChooses \/ FetchChecks \/ ErrorArrives
    BY <1>2, <2>1, Turned DEF Press, BeginDraw, EndDraw, PasteLooks, PasteChooses, FetchChecks, ErrorArrives
  <2>2. CASE DrawRow \/ PasteAlters
    BY <1>2, <2>2, Turned DEF DrawRow, PasteAlters
  <2>3. ASSUME NEW shown, HitOn(shown) PROVE ui = shown /\ (shown \in Drawings => page = shown)
    BY <2>3 DEF HitOn, ShowInv, SendInv, FrameInv, Drawing
  <2>4. CASE ClickBack
    BY <2>4, Turned DEF ClickBack
  <2>5. CASE ClickFile
    <3>1. page = "conversation"
      BY <2>3, <2>5 DEF ClickFile, HitBelow, Drawings
    <3> QED
      BY <2>5, <3>1, Turned DEF ClickFile
  <2>6. CASE ClickNoFile
    <3>1. HitBelow("chooser")
      BY <1>2, <2>6 DEF ClickNoFile
    <3>2. page = "chooser"
      BY <2>3, <3>1 DEF HitBelow, Drawings
    <3>3. UNCHANGED <<lists, db, thread>>
      BY <1>2, <2>6 DEF ClickNoFile
    <3> QED
      BY <3>2, <3>3, Turned
  <2> QED
    BY <2>1, <2>2, <2>4, <2>5, <2>6
<1> QED
  BY <1>1, <1>2

(* Whoever the user chooses is chosen on the users' page. *)
LEMMA HitShown ==
  ASSUME ShowInv, NEW shown \in Drawings, HitOn(shown)
  PROVE  page = shown
  BY DEF HitOn, ShowInv, SendInv, FrameInv, Drawing

LEMMA ChooseShown ==
  ASSUME ShowInv, SendInv', causes \subseteq causes', acts <= acts',
         ChooseContinue \/ ChooseDelete \/ ChooseStart
  PROVE  ShowInv'
<1>1. PICK op \in {"continue", "delete", "start"} : \E why : Choose(op, why)
  BY DEF ChooseContinue, ChooseDelete, ChooseStart
<1>2. PICK why : Choose(op, why)
  BY <1>1
<1>3. Parts /\ Parts' /\ FreshInv
  BY DEF ShowInv, SendInv
<1>4. HitRow /\ UNCHANGED <<page, usersList, db, at>>
  BY <1>2 DEF Choose
<1>5. page = "users"
  BY <1>4, HitShown DEF HitRow, Drawings
<1>6. PICK u \in Peers : u = usersList[row + 1].id
  BY <1>3, <1>4, HitRowTypes, RowTypes
<1>7. Push(Job(op, u, 0))
  BY <1>2, <1>6 DEF Choose
<1>8. Job(op, u, 0) \in Jobs /\ Job(op, u, 0).op = op
  <2>1. 0 \in 0..MaxActs /\ op \in Ops /\ u \in Peers \cup {NoUser}
    BY ActsAssumption DEF Ops
  <2> QED
    BY <1>3, <2>1, NewJob
<1>9. Moves(0, 1) /\ Newest = Job(op, u, 0) /\ Newest.op = op
  BY <1>3, <1>7, <1>8, QueueMoves DEF Push
<1>10. FreshInv'
  BY <1>3, <1>4, <1>9, FreshAside
<1>11. ASSUME Told PROVE Told'
  <2>1. Making => Making'
    BY <1>3, <1>4, <1>9, MovedJobs DEF Making
  <2> QED
    BY <1>4, <1>11, <2>1, ToldKept DEF conversationExists
<1> QED
  BY <1>4, <1>5, <1>9, <1>10, <1>11, Pushed DEF Orderly, Held

LEMMA FrontTexts ==
  ASSUME Parts, NEW from, NEW text, Entry(from, text) \in Entries, AddFront(Entry(from, text))
  PROVE  /\ Texts' = Texts \cup {text}
         /\ Once /\ text \notin Texts => Once'
<1>1. PICK e \in Entries : e = Entry(from, text) /\ e.text = text
  BY DEF Entry
<1>2. messagesList \in Seq(Entries) /\ <<e>> \in Seq(Entries) /\ messagesList' = <<e>> \o messagesList
  BY <1>1 DEF Parts, MessagesOK, AddFront
<1>3. /\ DOMAIN messagesList = 1 .. Len(messagesList) /\ Len(messagesList) \in Nat
      /\ DOMAIN messagesList' = 1 .. Len(messagesList) + 1
      /\ messagesList'[1] = e
      /\ \A i \in DOMAIN messagesList : messagesList'[i + 1] = messagesList[i]
  BY <1>2
<1>4. \A i \in DOMAIN messagesList' : i = 1 \/ (i - 1 \in DOMAIN messagesList /\ (i - 1) + 1 = i)
  BY <1>3
<1>5. /\ 1 \in DOMAIN messagesList' /\ \A i \in DOMAIN messagesList : i + 1 \in DOMAIN messagesList'
      /\ DOMAIN messagesList' \subseteq Nat
  BY <1>3
<1>6. \A i \in DOMAIN messagesList' :
        \/ i = 1 /\ messagesList'[i].text = text
        \/ i - 1 \in DOMAIN messagesList /\ messagesList'[i].text = messagesList[i - 1].text
  <2> TAKE i \in DOMAIN messagesList'
  <2>1. CASE i = 1
    BY <1>1, <1>3, <2>1
  <2>2. CASE i - 1 \in DOMAIN messagesList /\ (i - 1) + 1 = i
    <3>1. messagesList'[(i - 1) + 1] = messagesList[i - 1]
      BY <1>3, <2>2
    <3> QED
      BY <2>2, <3>1
  <2> QED
    BY <1>4, <2>1, <2>2
<1>7. Texts' = Texts \cup {text}
  <2>1. \A i \in DOMAIN messagesList' : messagesList'[i].text \in Texts \cup {text}
    BY <1>6 DEF Texts
  <2>2. text \in Texts'
    BY <1>1, <1>3, <1>5 DEF Texts
  <2>3. \A i \in DOMAIN messagesList : messagesList[i].text \in Texts'
    <3> TAKE i \in DOMAIN messagesList
    <3>1. messagesList'[i + 1].text = messagesList[i].text /\ i + 1 \in DOMAIN messagesList'
      BY <1>3, <1>5
    <3> QED
      BY <3>1 DEF Texts
  <2> QED
    BY <2>1, <2>2, <2>3 DEF Texts
<1>8. ASSUME Once, text \notin Texts PROVE Once'
  <2> SUFFICES ASSUME NEW i \in DOMAIN messagesList', NEW k \in DOMAIN messagesList',
                      messagesList'[i].text = messagesList'[k].text
               PROVE  i = k
    BY DEF Once
  <2>1. \A n \in DOMAIN messagesList : messagesList[n].text # text
    BY <1>8 DEF Texts
  <2>2. CASE i = 1
    <3>1. messagesList'[k].text = text
      BY <1>1, <1>3, <2>2
    <3> QED
      BY <1>6, <2>1, <2>2, <3>1
  <2>3. CASE k = 1
    <3>1. messagesList'[i].text = text
      BY <1>1, <1>3, <2>3
    <3> QED
      BY <1>6, <2>1, <2>3, <3>1
  <2>4. CASE i # 1 /\ k # 1
    <3>1. /\ i - 1 \in DOMAIN messagesList /\ k - 1 \in DOMAIN messagesList
          /\ messagesList[i - 1].text = messagesList[k - 1].text
      BY <1>6, <2>4
    <3>2. i - 1 = k - 1 /\ i \in Nat /\ k \in Nat
      BY <1>5, <1>8, <3>1 DEF Once
    <3> QED
      BY <3>2
  <2> QED
    BY <2>2, <2>3, <2>4
<1> QED
  BY <1>7, <1>8

LEMMA TextsKnown ==
  ASSUME Parts, FreshInv
  PROVE  \A t \in Stored \cup ToSend : t \in Nat /\ t <= acts
<1>1. ASSUME NEW t \in Stored PROVE t \in Nat /\ t <= acts
  <2>1. PICK m \in db.messages : t = m.text
    BY <1>1 DEF Stored, OfUser
  <2> QED
    BY <2>1, DbFields, RowFields DEF FreshInv
<1>2. ASSUME NEW t \in ToSend PROVE t \in Nat /\ t <= acts
  <2>1. PICK i \in Unstored({"send"}) : t = jobs[i].text
    BY <1>2 DEF ToSend
  <2>2. i \in Unstored({"send", "receive"}) /\ i \in DOMAIN jobs
    BY <2>1 DEF Unstored
  <2> QED
    BY <2>1, <2>2, TextFields DEF FreshInv
<1> QED
  BY <1>1, <1>2

LEMMA ToSendGrows ==
  ASSUME Parts, Parts', QueueInv, Moves(0, 1), Newest.op = "send", UNCHANGED at
  PROVE  ToSend' = ToSend \cup {Newest.text}
<1>1. /\ DOMAIN jobs \subseteq Nat /\ \A i \in DOMAIN jobs : i + 0 = i /\ i - 0 = i /\ i > 0
      /\ \A i \in DOMAIN jobs' : i + 0 = i
  BY QueueOf DEF Parts, JobsOK
<1>2. /\ \A i \in DOMAIN jobs' : (i \in DOMAIN jobs /\ SameJob(i, i)) \/ i = Len(jobs')
      /\ \A k \in DOMAIN jobs : k \in DOMAIN jobs' /\ SameJob(k, k) /\ k < Len(jobs')
      /\ Len(jobs') \in DOMAIN jobs'
  <2>1. 0 \in {0, 1} /\ 1 \in {0, 1}
    OBVIOUS
  <2> QED
    BY <1>1, <2>1, MovedJobs
<1>3. ASSUME NEW i \in Unstored({"send"})' PROVE jobs'[i].text \in ToSend \cup {Newest.text}
  <2>1. CASE i \in DOMAIN jobs /\ SameJob(i, i)
    <3>1. i \in Unstored({"send"}) /\ jobs'[i].text = jobs[i].text
      BY <1>3, <2>1 DEF Unstored, SameJob
    <3> QED
      BY <3>1 DEF ToSend
  <2>2. CASE i = Len(jobs')
    BY <2>2 DEF Newest
  <2> QED
    BY <1>2, <1>3, <2>1, <2>2 DEF Unstored
<1>4. ASSUME NEW k \in Unstored({"send"}) PROVE jobs[k].text \in ToSend'
  <2>1. k \in Unstored({"send"})' /\ jobs'[k].text = jobs[k].text
    BY <1>2, <1>4 DEF Unstored, SameJob
  <2> QED
    BY <2>1 DEF ToSend
<1>5. Newest.text \in ToSend'
  <2>1. Len(jobs') > 1 \/ at' = "first"
    <3>1. CASE jobs = <<>>
      BY <3>1 DEF QueueInv
    <3>2. CASE jobs # <<>>
      BY <1>2, <3>2, QueueOf
    <3> QED
      BY <3>1, <3>2
  <2>2. Len(jobs') \in Unstored({"send"})'
    BY <1>2, <2>1 DEF Unstored, Newest
  <2> QED
    BY <2>2 DEF ToSend, Newest
<1> QED
  BY <1>3, <1>4, <1>5 DEF ToSend

LEMMA ClickSendShown ==
  ASSUME ShowInv, SendInv', causes \subseteq causes', ClickSend
  PROVE  ShowInv'
<1>1. Parts /\ Parts' /\ FreshInv /\ QueueInv
  BY DEF ShowInv, SendInv
<1>2. PICK n \in TextSizes :
        /\ Acts(IF n = MaxMessagePlainPayloadSize THEN {"longest"} ELSE {})
        /\ Push([Job("send", named, acts + 1) EXCEPT !.size = n])
  BY DEF ClickSend
<1>3. page = "conversation" /\ UNCHANGED <<page, usersList, toUserId, db, at>>
  <2>1. HitOn("conversation")
    BY DEF ClickSend, HitBelow
  <2>2. page = "conversation"
    BY <2>1, HitShown DEF Drawings
  <2> QED
    BY <2>2 DEF ClickSend, view
<1>4. acts + 1 \in 1..MaxActs /\ acts' = acts + 1 /\ acts \in Nat
  <2>1. (IF n = MaxMessagePlainPayloadSize THEN {"longest"} ELSE {}) \in SUBSET Causes
    BY DEF Causes
  <2> QED
    BY <1>1, <1>2, <2>1, ActsTypes, TextFields
<1>5. PICK j \in Jobs : j.op = "send" /\ j.text = acts + 1 /\ Push(j)
  <2>1. acts + 1 \in 0..MaxActs /\ "send" \in Ops /\ named \in Peers \cup {NoUser}
    BY <1>1, <1>4, ActsAssumption DEF Ops, Parts, ViewOK
  <2>2. PICK job : job = [Job("send", named, acts + 1) EXCEPT !.size = n]
    OBVIOUS
  <2>3. job \in Jobs /\ job.op = "send" /\ job.text = acts + 1
    BY <1>1, <1>2, <2>1, <2>2, NewJob
  <2> QED
    BY <1>2, <2>2, <2>3
<1>6. Moves(0, 1) /\ Newest.op = "send" /\ Newest.text = acts + 1
  BY <1>1, <1>5, QueueMoves DEF Push
<1>7. FreshInv'
  BY <1>1, <1>3, <1>4, <1>6, FreshPush
<1>8. ASSUME Undisturbed' PROVE Orderly'
  <2>1. Orderly
    BY <1>8, LaterDisturbed DEF ShowInv
  <2>2. ~OnItsWay("continue") /\ ~OnItsWay("delete")
    BY <1>3, <2>1 DEF Orderly, FromUsers
  <2>3. 0 \in {0, 1} /\ 1 \in {0, 1}
    OBVIOUS
  <2>4. NothingSent' /\ \A op : OnItsWay(op)' => (OnItsWay(op) \/ Newest.op = op)
    BY <1>1, <1>6, <2>1, <2>2, <2>3, OrderKept DEF Orderly
  <2>5. ~OnItsWay("continue")' /\ ~OnItsWay("delete")' /\ ~OnItsWay("reply")'
    BY <1>6, <2>1, <2>2, <2>4 DEF Orderly, NoReply
  <2>6. Filling'
    <3>1. jobs # <<>> => cur.op # "continue"
      BY <1>1, <2>2, QueueOf DEF OnItsWay
    <3> QED
      BY <1>1, <1>3, <1>6, <2>1, <2>3, <3>1, FillingKept DEF Orderly, QueueInv
  <2>7. Told'
    <3>1. Making => Making'
      BY <1>1, <1>3, <1>6, <2>3, MovedJobs DEF Making
    <3> QED
      BY <1>3, <2>1, <3>1, ToldKept DEF Orderly, conversationExists
  <2>8. ListShown'
    <3>1. Once /\ Texts \cap ToShow = {} /\ Texts \cup ToShow = Stored \cup ToSend
      BY <1>3, <2>1 DEF Orderly, ListShown
    <3>2. acts + 1 \notin Stored \cup ToSend
      BY <1>1, <1>4, TextsKnown
    <3>3. Entry(Me, acts + 1) \in Entries
      BY <1>4 DEF Entry, Entries
    <3>4. AddFront(Entry(Me, acts + 1))
      BY DEF ClickSend
    <3>5. Texts' = Texts \cup {acts + 1} /\ (Once /\ acts + 1 \notin Texts => Once')
      BY <1>1, <3>3, <3>4, FrontTexts
    <3>6. ToSend' = ToSend \cup {acts + 1}
      BY <1>1, <1>3, <1>6, ToSendGrows
    <3>7. ToShow' = ToShow /\ Stored' = Stored
      BY <1>1, <1>3, <1>6, <2>3, ToShowKept, StoredKept
    <3> QED
      BY <3>1, <3>2, <3>5, <3>6, <3>7 DEF ListShown
  <2> QED
    BY <2>4, <2>5, <2>6, <2>7, <2>8 DEF Orderly, NoReply, FromUsers
<1> QED
  BY <1>7, <1>8 DEF ShowInv

(* Nobody who is listed without a conversation is the one whose page is on *)
(* its way.                                                                *)
LEMMA ChooseOfflineShown ==
  ASSUME ShowInv, SendInv', causes \subseteq causes', acts <= acts', ChooseOffline
  PROVE  ShowInv'
<1>1. Parts /\ Parts' /\ FreshInv /\ QueueInv
  BY DEF ShowInv, SendInv
<1>2. HitRow /\ messagesList' = <<>> /\ UNCHANGED <<page, usersList, db, jobs, at>>
  BY DEF ChooseOffline, view, thread
<1>3. page = "users"
  BY <1>2, HitShown DEF HitRow, Drawings
<1>4. PICK u \in Peers : u = usersList[row + 1].id
  BY <1>1, <1>2, HitRowTypes, RowTypes
<1>5. ~usersList[row + 1].exists /\ Acts(Overtaken(u)) /\ Chooses(u)
  BY <1>4 DEF ChooseOffline
<1>6. 0 \in {0, 1} /\ 0 # 1 /\ Moves(0, 0)
  BY <1>1, <1>2, QueueMoves
<1>7. FreshInv'
  BY <1>1, <1>2, <1>6, FreshAside
<1>8. ASSUME Undisturbed' PROVE Orderly'
  <2>1. Orderly
    BY <1>8, LaterDisturbed DEF ShowInv
  <2>2. NothingSent' /\ \A op : OnItsWay(op)' => OnItsWay(op)
    BY <1>1, <1>6, <2>1, OrderKept DEF Orderly
  <2>3. NoReply' /\ FromUsers' /\ ListShown'
    BY <1>2, <1>3, <2>1, <2>2 DEF Orderly, NoReply, FromUsers, ListShown
  <2>4. Told'
    <3>1. Making => Making'
      BY <1>2 DEF Making, cur
    <3> QED
      BY <1>2, <2>1, <3>1, ToldKept DEF Orderly, conversationExists
  <2>5. Filling'
    <3>1. CASE jobs # <<>> /\ cur.op = "continue" /\ at \in {"fill", "page"} /\ ~HeldBehind
      <4>1. cur.user = toUserId
        <5>1. "overtaken" \notin causes
          BY <1>8 DEF Undisturbed
        <5> QED
          BY <3>1, <5>1, QueueOf, <1>1 DEF ShowInv, SendInv, Straight, JobsInv
      <4>2. u = toUserId
        <5>1. cur \in Pending
          BY <1>1, <3>1, QueueOf DEF Pending, Range
        <5>2. u # toUserId => "overtaken" \in causes'
          BY <1>5, <3>1, <5>1 DEF Acts, Overtaken, Overtakes
        <5> QED
          BY <1>8, <5>2 DEF Undisturbed
      <4>3. ~conversationExists(db, u)
        <5>1. row + 1 \in DOMAIN usersList
          BY <1>1, <1>2, HitRowTypes
        <5> QED
          BY <1>4, <1>5, <2>1, <3>1, <5>1 DEF Orderly, Told, Making
      <4> QED
        BY <2>1, <3>1, <4>1, <4>2, <4>3 DEF Orderly, Filling
    <3>2. CASE ~(jobs # <<>> /\ cur.op = "continue" /\ at \in {"fill", "page"} /\ ~HeldBehind)
      BY <1>2, <3>2 DEF Filling, cur, HeldBehind
    <3> QED
      BY <3>1, <3>2
  <2> QED
    BY <2>2, <2>3, <2>4, <2>5 DEF Orderly
<1> QED
  BY <1>7, <1>8 DEF ShowInv

LEMMA ClickUpdateShown ==
  ASSUME ShowInv, SendInv', causes \subseteq causes', acts <= acts', ClickUpdate
  PROVE  ShowInv'
<1>1. CASE Abort("fetchers")
  BY <1>1, AbortShown
<1>2. CASE ~Abort("fetchers")
  <2>1. Parts /\ Parts' /\ FreshInv
    BY DEF ShowInv, SendInv
  <2>2. /\ HitOn("users") /\ usersList' = <<>> /\ UNCHANGED <<page, db, at>>
        /\ jobs' = Append([i \in DOMAIN jobs |-> Freed(jobs[i])], Job("fetch", NoUser, 0))
    BY <1>2 DEF ClickUpdate
  <2>3. page = "users"
    BY <2>2, HitShown DEF Drawings
  <2>4. Job("fetch", NoUser, 0) \in Jobs /\ Job("fetch", NoUser, 0).op = "fetch"
    BY <2>1, PlainJob DEF Job, Parts, StateOK
  <2>5. Moves(0, 1) /\ Newest.op = "fetch"
    BY <2>1, <2>2, <2>4, QueueMoves
  <2>6. FreshInv'
    BY <2>1, <2>2, <2>5, FreshAside
  <2>7. Told'
    BY <2>2, NobodyTold
  <2> QED
    BY <2>2, <2>3, <2>5, <2>6, <2>7, Pushed DEF Held
<1> QED
  BY <1>1, <1>2

LEMMA ClicksShown ==
  ASSUME ShowInv, SendInv', causes \subseteq causes', acts <= acts', UIThread
  PROVE  ShowInv'
<1>1. CASE Press \/ BeginDraw \/ DrawRow \/ EndDraw \/ PasteLooks \/ PasteChooses \/ PasteAlters
           \/ ClickBack \/ ClickFile \/ ClickNoFile
  BY <1>1, TurnShown
<1>2. CASE ChooseContinue \/ ChooseDelete \/ ChooseStart
  BY <1>2, ChooseShown
<1>3. CASE ChooseOffline
  BY <1>3, ChooseOfflineShown
<1>4. CASE ClickUpdate
  BY <1>4, ClickUpdateShown
<1>5. CASE ClickSend
  BY <1>5, ClickSendShown
<1> QED
  BY <1>1, <1>2, <1>3, <1>4, <1>5 DEF UIThread, Clicks

LEMMA ToldLater ==
  ASSUME Parts, Parts', Moves(0, 1), UNCHANGED <<usersList, db, at>>
  PROVE  Told => Told'
<1>1. Making => Making'
  <2>1. 0 \in {0, 1} /\ 1 \in {0, 1}
    OBVIOUS
  <2> QED
    BY <2>1, MovedJobs DEF Making
<1> QED
  BY <1>1, ToldKept DEF conversationExists

LEMMA NetShown ==
  ASSUME ShowInv, SendInv', causes \subseteq causes', acts <= acts', NetThread
  PROVE  ShowInv'
<1>1. Parts /\ Parts' /\ FreshInv /\ QueueInv
  BY DEF ShowInv, SendInv
<1>2. CASE FetchChecks \/ ErrorArrives
  BY <1>2, TurnShown
<1>6. CASE FetchEnds
  <2>1. UNCHANGED <<page, lists, db, at>>
    BY <1>6 DEF FetchEnds, view
  <2>2. CASE UNCHANGED jobs
    BY <2>1, <2>2, Turned DEF thread
  <2>3. CASE ~ UNCHANGED jobs
    <3>1. PICK i \in left : Push(Job("more", Registered[i], 0))
      BY <1>6, <2>3 DEF FetchEnds
    <3>2. i \in DOMAIN Registered
      BY <1>1, UsersAssumption DEF Parts, StateOK
    <3>3. Registered[i] \in Peers \cup {NoUser} /\ "more" \in Ops /\ 0 \in 0..MaxActs
      BY <3>2, ActsAssumption DEF Peers, Range, Ops
    <3>4. Job("more", Registered[i], 0) \in Jobs /\ Job("more", Registered[i], 0).op = "more"
      BY <1>1, <3>3, NewJob
    <3>5. Moves(0, 1) /\ Newest.op = "more"
      BY <1>1, <3>1, <3>4, QueueMoves DEF Push
    <3>6. FreshInv'
      BY <1>1, <2>1, <3>5, FreshAside
    <3>7. Told => Told'
      BY <1>1, <2>1, <3>5, ToldLater DEF lists
    <3> QED
      BY <2>1, <3>5, <3>6, <3>7, Pushed DEF lists, Orderly
  <2> QED
    BY <2>2, <2>3
<1>3. CASE UsersArrive
  <2>1. Push(Job("users", NoUser, 0)) /\ UNCHANGED <<page, lists, db, at>>
    BY <1>3 DEF UsersArrive, view
  <2>2. Job("users", NoUser, 0) \in Jobs /\ Job("users", NoUser, 0).op = "users"
    BY <1>1, PlainJob DEF Job, Parts, StateOK
  <2>3. Moves(0, 1) /\ Newest.op = "users"
    BY <1>1, <2>1, <2>2, QueueMoves DEF Push
  <2>4. FreshInv'
    BY <1>1, <2>1, <2>3, FreshAside
  <2>5. Told => Told'
    BY <1>1, <2>1, <2>3, ToldLater DEF lists
  <2> QED
    BY <2>1, <2>3, <2>4, <2>5, Pushed DEF lists, Orderly
<1>4. ASSUME NEW u \in Peers, MessageArrives(u) PROVE ShowInv'
  <2>1. PICK t \in Times : /\ Acts(Untimely(t, now'))
                           /\ Push([Job("receive", u, acts + 1) EXCEPT !.time = t])
    BY <1>4 DEF MessageArrives
  <2>2. UNCHANGED <<page, lists, db, at>>
    BY <1>4 DEF MessageArrives, view
  <2>3. acts + 1 \in 1..MaxActs /\ acts' = acts + 1 /\ acts \in Nat
    <3>1. Untimely(t, now') \in SUBSET Causes
      BY Reasons
    <3> QED
      BY <1>1, <2>1, <3>1, ActsTypes, TextFields
  <2>4. PICK j : j = [Job("receive", u, acts + 1) EXCEPT !.time = t]
    OBVIOUS
  <2>5. j \in Jobs /\ j.op = "receive" /\ j.text = acts + 1
    <3>1. acts + 1 \in 0..MaxActs /\ "receive" \in Ops /\ u \in Peers \cup {NoUser}
      BY <2>3, ActsAssumption DEF Ops
    <3>2. t \in Nat
      BY <1>1, DbFields DEF Times
    <3> QED
      BY <1>1, <2>4, <3>1, <3>2, NewJob
  <2>6. Moves(0, 1) /\ Newest.op = "receive" /\ Newest.text = acts + 1
    BY <1>1, <2>1, <2>4, <2>5, QueueMoves DEF Push
  <2>7. FreshInv'
    BY <1>1, <2>2, <2>3, <2>6, FreshPush
  <2>8. Told => Told'
    BY <1>1, <2>2, <2>6, ToldLater DEF lists
  <2> QED
    BY <2>2, <2>6, <2>7, <2>8, Pushed DEF lists, Orderly
<1>5. ASSUME NEW u \in Peers, InviteArrives(u) PROVE ShowInv'
  <2>1. Acts({"invite"}) /\ Push(Job("reply", u, 0)) /\ UNCHANGED <<db, at>>
    BY <1>5 DEF InviteArrives
  <2>2. Job("reply", u, 0) \in Jobs /\ Job("reply", u, 0).op = "reply"
    <3>1. 0 \in 0..MaxActs /\ "reply" \in Ops /\ u \in Peers \cup {NoUser}
      BY ActsAssumption DEF Ops
    <3> QED
      BY <1>1, <3>1, NewJob
  <2>3. Moves(0, 1) /\ Newest.op = "reply"
    BY <1>1, <2>1, <2>2, QueueMoves DEF Push
  <2>4. FreshInv'
    BY <1>1, <2>1, <2>3, FreshAside
  <2>5. ~Undisturbed'
    BY <2>1 DEF Acts, Undisturbed
  <2> QED
    BY <2>4, <2>5 DEF ShowInv
<1> QED
  BY <1>2, <1>3, <1>4, <1>5, <1>6 DEF NetThread

(* What of Told does not depend on a start. *)
LEMMA ToldByRows ==
  ASSUME Told, ~Making, UNCHANGED usersList,
         \A u : conversationExists(db, u)' => conversationExists(db, u)
  PROVE  Told'
  BY ToldKept

LEMMA SendStoresShown ==
  ASSUME ShowInv, SendInv', causes \subseteq causes', acts <= acts', SendStores
  PROVE  ShowInv'
<1>1. Parts /\ Parts' /\ FreshInv /\ QueueInv
  BY DEF ShowInv, SendInv
<1>2. CASE UNCHANGED <<view, frame, lists, db, thread, net>>
  BY <1>2, EndShown
<1>3. CASE ~UNCHANGED <<view, frame, lists, db, thread, net>>
  <2>1. /\ jobs # <<>> /\ cur.op = "send" /\ at = "first" /\ at' = "seal" /\ UNCHANGED jobs
        /\ UNCHANGED <<page, usersList, messagesList, toUserId, acts>>
    BY <1>3 DEF SendStores, On, Runs, To, Abort, view, lists
  <2>2. PICK t \in Times : db' = addMessage(db, Message(t, toUserId, Me, cur.text))
    BY <1>3 DEF SendStores, Abort
  <2>3. PICK m : m = Message(t, toUserId, Me, cur.text)
    OBVIOUS
  <2>4. /\ m.text = cur.text /\ m.conversation = toUserId
        /\ db'.messages = db.messages \cup {m} /\ db'.conversations = db.conversations
    BY <1>1, <2>2, <2>3, DbFields DEF Message, addMessage
  <2>5. Moves(0, 0) /\ 0 \in {0, 1} /\ 0 # 1
    BY <1>1, <2>1, QueueMoves
  <2>6. FreshInv'
    BY <1>1, <2>1, <2>4, <2>5, FreshStored
  <2>7. ASSUME Undisturbed' PROVE Orderly'
    <3>1. Orderly
      BY <2>7, LaterDisturbed DEF ShowInv
    <3>2. NothingSent' /\ NoReply' /\ FromUsers'
      BY <2>1, <3>1 DEF Orderly, NothingSent, NoReply, FromUsers, OnItsWay
    <3>3. Filling'
      BY <2>1 DEF Filling, cur
    <3>4. Told'
      BY <2>1, <2>4, <3>1, ToldByRows DEF Orderly, Making, conversationExists
    <3>5. ToShow = {} /\ ToShow' = {}
      BY <2>1 DEF ToShow, Received, cur
    <3>6. Stored' = Stored \cup {cur.text}
      <4>1. OfUser(db.messages, toUserId)' = OfUser(db.messages, toUserId) \cup {m}
        BY <2>1, <2>4 DEF OfUser
      <4> QED
        BY <2>4, <4>1 DEF Stored
    <3>7. ToSend \subseteq ToSend' \cup {cur.text} /\ ToSend' \subseteq ToSend /\ cur.text \in ToSend
      <4>1. cur = jobs[1] /\ 1 \in DOMAIN jobs
        BY <1>1, <2>1, QueueOf
      <4>2. 1 \in Unstored({"send"})
        BY <2>1, <4>1 DEF Unstored
      <4>3. \A i \in Unstored({"send"})' : i \in Unstored({"send"})
        BY <2>1 DEF Unstored
      <4>4. \A i \in Unstored({"send"}) : i \in Unstored({"send"})' \/ i = 1
        BY <1>1, <2>1, QueueOf DEF Unstored
      <4> QED
        BY <2>1, <4>1, <4>2, <4>3, <4>4 DEF ToSend
    <3>8. ListShown'
      <4>1. Texts' = Texts /\ (Once => Once')
        BY <2>1 DEF Texts, Once
      <4> QED
        BY <2>1, <3>1, <3>5, <3>6, <3>7, <4>1 DEF Orderly, ListShown
    <3> QED
      BY <3>2, <3>3, <3>4, <3>8 DEF Orderly
  <2> QED
    BY <2>6, <2>7 DEF ShowInv
<1> QED
  BY <1>2, <1>3

LEMMA SendGoesShown ==
  ASSUME ShowInv, SendInv', causes \subseteq causes', acts <= acts', SendSeals \/ SendGoesOut
  PROVE  ShowInv'
<1>1. Parts /\ 0 \in {0, 1} /\ 0 # 1 /\ 1 \in {0, 1}
  BY DEF ShowInv, SendInv
<1>2. CASE \E what : Abort(what)
  BY <1>2, AbortShown
<1>3. CASE ~ \E what : Abort(what)
  <2>1. /\ jobs # <<>> /\ cur.op = "send" /\ at # "first"
        /\ UNCHANGED <<page, usersList, messagesList, toUserId, db>>
    BY <1>3 DEF SendSeals, SendGoesOut, On, Runs, view, lists
  <2>2. Orderly => Told'
    BY <2>1, ToldByRows DEF Orderly, Making, conversationExists
  <2>3. CASE SendSeals
    <3>1. Moves(0, 0) /\ at' = "out"
      BY <1>1, <1>3, <2>1, <2>3, QueueMoves DEF SendSeals
    <3> QED
      BY <1>1, <2>1, <2>2, <3>1, Passing
  <2>4. CASE SendGoesOut
    <3>1. Moves(1, 0) /\ at' = "first"
      BY <1>1, <2>1, <2>4, QueueMoves DEF SendGoesOut, Done
    <3> QED
      BY <1>1, <2>1, <2>2, <3>1, Passing
  <2> QED
    BY <2>3, <2>4
<1> QED
  BY <1>2, <1>3

(* What arrives is stored, and is in no list yet. *)
LEMMA ReceiveStoresShown ==
  ASSUME ShowInv, SendInv', causes \subseteq causes', jobs # <<>>, cur.op = "receive", at = "first",
         acts' = acts, UNCHANGED <<page, usersList, messagesList, toUserId>>,
         NEW m, m.conversation = cur.user, m.text = cur.text,
         db'.messages = db.messages \cup {m}, db'.conversations = db.conversations,
         IF ForPage THEN To("show") ELSE Done
  PROVE  ShowInv'
<1>1. Parts /\ Parts' /\ FreshInv /\ QueueInv
  BY DEF ShowInv, SendInv
<1>2. PICK d \in {0, 1} : Moves(d, 0) /\ (at' = "first" <=> d = 1) /\ (d = 0 <=> ForPage)
                          /\ (d = 0 => at' = "show")
  <2>1. CASE ForPage
    BY <1>1, <2>1, QueueMoves DEF To
  <2>2. CASE ~ForPage
    BY <1>1, <2>2, QueueMoves DEF Done
  <2> QED
    BY <2>1, <2>2
<1>3. FreshInv'
  BY <1>1, <1>2, FreshStored
<1>4. 0 \in {0, 1} /\ 0 # 1
  OBVIOUS
<1>5. ASSUME Undisturbed' PROVE Orderly'
  <2>1. Orderly
    BY <1>5, LaterDisturbed DEF ShowInv
  <2>2. NothingSent' /\ \A op : OnItsWay(op)' => OnItsWay(op)
    BY <1>1, <1>2, <1>4, <2>1, OrderKept DEF Orderly
  <2>3. NoReply' /\ FromUsers'
    <3>1. /\ OnItsWay("continue")' => OnItsWay("continue")
          /\ OnItsWay("delete")' => OnItsWay("delete")
          /\ OnItsWay("reply")' => OnItsWay("reply")
      BY <2>2
    <3> QED
      BY <2>1, <3>1 DEF Orderly, NoReply, FromUsers
  <2>4. Filling'
    BY <1>1, <1>2, <1>4, <2>1, FillingKept DEF Orderly
  <2>5. Told'
    BY <2>1, ToldByRows DEF Orderly, Making, conversationExists
  <2>6. ToSend' = ToSend
    BY <1>1, <1>2, <1>4, ToSendKept
  <2>7. Texts' = Texts /\ (Once => Once') /\ ToShow = {}
    BY DEF Texts, Once, ToShow, Received
  <2>8. cur.text \notin Stored \cup ToSend
    <3>1. 1 \in Unstored({"send", "receive"}) /\ cur = jobs[1] /\ 1 \notin Unstored({"send"})
      BY <1>1, QueueOf DEF Unstored
    <3>2. \A k \in db.messages : k.text # cur.text
      BY <1>1, <3>1 DEF FreshInv
    <3>3. cur.text \notin Stored
      BY <3>2 DEF Stored, OfUser
    <3>4. \A i \in Unstored({"send"}) : jobs[i].text # cur.text
      <4>1. \A i \in Unstored({"send"}) : i \in Unstored({"send", "receive"}) /\ i # 1
        BY <3>1 DEF Unstored
      <4> QED
        BY <1>1, <3>1, <4>1 DEF FreshInv
    <3>5. cur.text \notin ToSend
      BY <3>4 DEF ToSend
    <3> QED
      BY <3>3, <3>5
  <2>9. ListShown'
    <3>1. CASE ForPage
      <4>1. d = 0 /\ at' = "show"
        BY <1>2, <3>1
      <4>2. jobs' # <<>> /\ cur'.op = "receive" /\ cur'.text = cur.text
        BY <1>1, <1>2, <1>4, <4>1, MovedJobs
      <4>3. ToShow' = {cur.text}
        BY <4>1, <4>2 DEF ToShow, Received
      <4>4. Stored' = Stored \cup {cur.text}
        <5>1. OfUser(db.messages, toUserId)' = OfUser(db.messages, toUserId) \cup {m}
          BY <3>1 DEF OfUser, ForPage, FromCurrent
        <5> QED
          BY <5>1 DEF Stored
      <4> QED
        BY <2>1, <2>6, <2>7, <2>8, <4>3, <4>4 DEF Orderly, ListShown
    <3>2. CASE ~ForPage
      <4>1. ToShow' = {}
        BY <1>2, <3>2 DEF ToShow, Received
      <4>2. Stored' = Stored
        <5>1. OfUser(db.messages, toUserId)' = OfUser(db.messages, toUserId)
          BY <3>2 DEF OfUser, ForPage, FromCurrent
        <5> QED
          BY <5>1 DEF Stored
      <4> QED
        BY <2>1, <2>6, <2>7, <4>1, <4>2 DEF Orderly, ListShown
    <3> QED
      BY <3>1, <3>2
  <2> QED
    BY <2>2, <2>3, <2>4, <2>5, <2>9 DEF Orderly
<1> QED
  BY <1>3, <1>5 DEF ShowInv

LEMMA ReceiveShown ==
  ASSUME ShowInv, SendInv', causes \subseteq causes', acts <= acts', Receive
  PROVE  ShowInv'
<1>1. Parts /\ 0 \in {0, 1} /\ 1 \in {0, 1} /\ 0 # 1
  BY DEF ShowInv, SendInv
<1>2. CASE UNCHANGED <<view, frame, lists, db, thread, net>>
  BY <1>2, EndShown
<1>3. CASE ~UNCHANGED <<view, frame, lists, db, thread, net>>
  <2>1. /\ jobs # <<>> /\ cur.op = "receive" /\ at = "first"
        /\ UNCHANGED <<page, usersList, messagesList, toUserId, acts>>
    BY <1>3 DEF Receive, On, Runs, Abort, view, lists
  <2>2. CASE Listed(cur.user) /\ conversationExists(db, cur.user)
    <3>1. PICK m : m = Message(cur.time, cur.user, cur.user, cur.text)
      OBVIOUS
    <3>2. db' = addMessage(db, m) /\ (IF ForPage THEN To("show") ELSE Done)
      BY <1>3, <2>2, <3>1 DEF Receive, Abort
    <3>3. /\ m.conversation = cur.user /\ m.text = cur.text
          /\ db'.messages = db.messages \cup {m} /\ db'.conversations = db.conversations
      BY <1>1, <3>1, <3>2, DbFields DEF Message, addMessage
    <3> QED
      BY <2>1, <3>2, <3>3, ReceiveStoresShown
  <2>3. CASE ~(Listed(cur.user) /\ conversationExists(db, cur.user))
    <3>1. Done /\ UNCHANGED db
      BY <1>3, <2>3 DEF Receive, Abort
    <3>2. Moves(1, 0) /\ at' = "first"
      BY <1>1, <2>1, <3>1, QueueMoves DEF Done
    <3>3. Orderly => Told'
      BY <2>1, <3>1, ToldByRows DEF Orderly, Making, conversationExists
    <3> QED
      BY <1>1, <2>1, <3>1, <3>2, <3>3, Passing
  <2> QED
    BY <2>2, <2>3
<1> QED
  BY <1>2, <1>3

LEMMA ReceiveShowsShown ==
  ASSUME ShowInv, SendInv', causes \subseteq causes', acts <= acts', ReceiveShows
  PROVE  ShowInv'
<1>1. Parts /\ Parts' /\ FreshInv /\ QueueInv /\ 0 \in {0, 1} /\ 1 \in {0, 1} /\ 0 # 1
  BY DEF ShowInv, SendInv
<1>2. /\ jobs # <<>> /\ cur.op = "receive" /\ at = "show" /\ Done
      /\ UNCHANGED <<page, usersList, toUserId, db>> /\ AddFront(Entry(cur.user, cur.text))
  BY DEF ReceiveShows, On, Runs, view
<1>3. Moves(1, 0) /\ at' = "first"
  BY <1>1, <1>2, QueueMoves DEF Done
<1>4. FreshInv'
  BY <1>1, <1>2, <1>3, FreshAside
<1>5. ASSUME Undisturbed' PROVE Orderly'
  <2>1. Orderly
    BY <1>5, LaterDisturbed DEF ShowInv
  <2>2. NothingSent' /\ \A op : OnItsWay(op)' => OnItsWay(op)
    BY <1>1, <1>3, <2>1, OrderKept DEF Orderly
  <2>3. NoReply' /\ FromUsers'
    <3>1. /\ OnItsWay("continue")' => OnItsWay("continue")
          /\ OnItsWay("delete")' => OnItsWay("delete")
          /\ OnItsWay("reply")' => OnItsWay("reply")
      BY <2>2
    <3> QED
      BY <1>2, <2>1, <3>1 DEF Orderly, NoReply, FromUsers
  <2>4. Filling'
    BY <1>3 DEF Filling
  <2>5. Told'
    BY <1>2, <2>1, ToldByRows DEF Orderly, Making, conversationExists
  <2>6. ToSend' = ToSend /\ Stored' = Stored
    BY <1>1, <1>2, <1>3, ToSendKept, StoredKept
  <2>7. ToShow = {cur.text} /\ ToShow' = {}
    BY <1>2, <1>3 DEF ToShow, Received
  <2>8. Texts' = Texts \cup {cur.text} /\ (Once /\ cur.text \notin Texts => Once')
    <3>1. cur \in Jobs /\ IsJob(cur)
      BY <1>1, <1>2, RunsType
    <3>2. cur.user \in Peers /\ cur.text \in 1..MaxActs
      BY <1>2, <3>1, JobFields, ActsAssumption DEF IsJob
    <3>3. Entry(cur.user, cur.text) \in Entries
      BY <3>2 DEF Entry, Entries
    <3> QED
      BY <1>1, <1>2, <3>3, FrontTexts
  <2>9. ListShown'
    BY <1>2, <2>1, <2>6, <2>7, <2>8 DEF Orderly, ListShown
  <2> QED
    BY <2>2, <2>3, <2>4, <2>5, <2>9 DEF Orderly
<1> QED
  BY <1>4, <1>5 DEF ShowInv

(* What is loaded has the stored texts, each once. *)
LEMMA LoadedTexts ==
  ASSUME Parts, FreshInv, NEW u, NEW previous \in Loaded(u)
  PROVE  /\ \A i, k \in DOMAIN previous : previous[i].text = previous[k].text => i = k
         /\ {previous[i].text : i \in DOMAIN previous} = {m.text : m \in OfUser(db.messages, u)}
<1>1. PICK rows \in getMessages(db, u) :
        previous = [i \in DOMAIN rows |-> Entry(rows[i].from, rows[i].text)]
  BY DEF Loaded
<1>2. PICK stored : stored = OfUser(db.messages, u)
  OBVIOUS
<1>3. stored \subseteq db.messages /\ IsFiniteSet(stored)
  BY <1>2, DbFields, FS_Subset DEF OfUser
<1>4. PICK n \in Nat : n = Cardinality(stored)
  BY <1>3, FS_CardinalityType
<1>5. rows \in [1..n -> stored] /\ \A i, k \in 1..n : i # k => rows[i] # rows[k]
  BY <1>1, <1>2, <1>4 DEF getMessages, SetToSeqs
<1>6. DOMAIN previous = 1..n /\ \A i \in 1..n : rows[i] \in stored /\ previous[i].text = rows[i].text
  BY <1>1, <1>5 DEF Entry
<1>7. \A t \in stored : \E i \in 1..n : rows[i] = t
  <2>1. Cardinality(1..n) = Cardinality(stored)
    BY <1>4, FS_Interval
  <2>2. rows \in Injection(1..n, stored)
    BY <1>5 DEF Injection, IsInjective
  <2>3. rows \in Surjection(1..n, stored)
    BY <1>3, <2>1, <2>2, FS_Injection
  <2> QED
    BY <2>3 DEF Surjection
<1>8. \A i, k \in DOMAIN previous : previous[i].text = previous[k].text => i = k
  BY <1>3, <1>5, <1>6 DEF FreshInv
<1>9. \A i \in DOMAIN previous : previous[i].text \in {m.text : m \in stored}
  BY <1>6
<1>10. \A m \in stored : m.text \in {previous[i].text : i \in DOMAIN previous}
  BY <1>6, <1>7
<1> QED
  BY <1>2, <1>8, <1>9, <1>10

LEMMA ContinueShown ==
  ASSUME ShowInv, SendInv', causes \subseteq causes', acts <= acts', Continue
  PROVE  ShowInv'
<1>1. Parts /\ Parts' /\ FreshInv /\ QueueInv /\ 0 \in {0, 1} /\ 1 \in {0, 1} /\ 0 # 1
  BY DEF ShowInv, SendInv
<1>2. /\ jobs # <<>> /\ cur.op = "continue" /\ at = "first"
      /\ UNCHANGED <<page, usersList, toUserId, db>>
  BY DEF Continue, On, Runs
<1>3. CASE conversationExists(db, cur.user)
  <2>1. messagesList' = <<>> /\ at' = "fill" /\ UNCHANGED jobs
    BY <1>3 DEF Continue, To
  <2>2. Moves(0, 0)
    BY <1>1, <2>1, QueueMoves
  <2>3. FreshInv'
    BY <1>1, <1>2, <2>1, <2>2, FreshAside
  <2>4. ASSUME Undisturbed' PROVE Orderly'
    <3>1. Orderly
      BY <2>4, LaterDisturbed DEF ShowInv
    <3>2. NothingSent' /\ NoReply' /\ FromUsers'
      BY <1>2, <2>1, <3>1 DEF Orderly, NothingSent, NoReply, FromUsers, OnItsWay
    <3>3. page = "users"
      BY <1>1, <1>2, <3>1, QueueOf DEF Orderly, FromUsers, OnItsWay
    <3>4. ListShown'
      BY <1>2, <3>3 DEF ListShown
    <3>5. Filling'
      BY <1>2, <1>3, <2>1 DEF Filling, cur, conversationExists
    <3>6. Told'
      BY <1>2, <3>1, ToldByRows DEF Orderly, Making, conversationExists
    <3> QED
      BY <3>2, <3>4, <3>5, <3>6 DEF Orderly
  <2> QED
    BY <2>3, <2>4 DEF ShowInv
<1>4. CASE ~conversationExists(db, cur.user)
  <2>1. Done /\ UNCHANGED messagesList
    BY <1>4 DEF Continue, Finish
  <2>2. Moves(1, 0) /\ at' = "first"
    BY <1>1, <1>2, <2>1, QueueMoves DEF Done
  <2>3. Orderly => Told'
    BY <1>2, ToldByRows DEF Orderly, Making, conversationExists
  <2> QED
    BY <1>1, <1>2, <2>1, <2>2, <2>3, Passing
<1> QED
  BY <1>3, <1>4

LEMMA ContinueFillsShown ==
  ASSUME ShowInv, SendInv', causes \subseteq causes', acts <= acts', ContinueFills
  PROVE  ShowInv'
<1>1. Parts /\ Parts' /\ FreshInv /\ QueueInv /\ 0 \in {0, 1} /\ 0 # 1
  BY DEF ShowInv, SendInv
<1>2. CASE Abort("search")
  BY <1>2, AbortShown
<1>3. CASE ~Abort("search")
  <2>1. /\ jobs # <<>> /\ cur.op = "continue" /\ at = "fill" /\ at' = "page"
        /\ UNCHANGED <<page, usersList, toUserId, db, jobs>>
    BY <1>3 DEF ContinueFills, On, Runs, To, view
  <2>2. PICK previous \in Loaded(cur.user) : messagesList' = messagesList \o previous
    BY <1>3 DEF ContinueFills
  <2>3. Moves(0, 0)
    BY <1>1, <2>1, QueueMoves
  <2>4. FreshInv'
    BY <1>1, <2>1, <2>3, FreshAside
  <2>5. ASSUME Undisturbed' PROVE Orderly'
    <3>1. Orderly
      BY <2>5, LaterDisturbed DEF ShowInv
    <3>2. NothingSent' /\ NoReply' /\ FromUsers'
      BY <2>1, <3>1 DEF Orderly, NothingSent, NoReply, FromUsers, OnItsWay
    <3>3. page = "users"
      BY <1>1, <2>1, <3>1, QueueOf DEF Orderly, FromUsers, OnItsWay
    <3>4. ListShown'
      BY <2>1, <3>3 DEF ListShown
    <3>5. Told'
      BY <2>1, <3>1, ToldByRows DEF Orderly, Making, conversationExists
    <3>6. Filling'
      <4>1. SUFFICES ASSUME ~HeldBehind
                     PROVE  /\ conversationExists(db, cur.user) /\ Once'
                            /\ Texts' = {m.text : m \in OfUser(db.messages, cur.user)}
        BY <2>1 DEF Filling, cur, HeldBehind
      <4>2. conversationExists(db, cur.user) /\ messagesList = <<>>
        BY <2>1, <3>1, <4>1 DEF Orderly, Filling
      <4>3. messagesList' = previous
        BY <1>1, <2>2, <4>2, LoadedTypes
      <4>4. /\ \A i, k \in DOMAIN previous : previous[i].text = previous[k].text => i = k
            /\ {previous[i].text : i \in DOMAIN previous} = {m.text : m \in OfUser(db.messages, cur.user)}
        BY <1>1, LoadedTexts
      <4> QED
        BY <4>2, <4>3, <4>4 DEF Once, Texts
    <3> QED
      BY <3>2, <3>4, <3>5, <3>6 DEF Orderly
  <2> QED
    BY <2>4, <2>5 DEF ShowInv
<1> QED
  BY <1>2, <1>3

(* A page that is shown has all that is stored; nothing is still to be     *)
(* sent, for it was opened from the users' page, and nothing waits behind  *)
(* it that would change the list.                                          *)
LEMMA ContinueShowsShown ==
  ASSUME ShowInv, SendInv', causes \subseteq causes', acts <= acts', ContinueShows
  PROVE  ShowInv'
<1>1. Parts /\ Parts' /\ FreshInv /\ QueueInv /\ 0 \in {0, 1} /\ 1 \in {0, 1} /\ 0 # 1
  BY DEF ShowInv, SendInv
<1>2. CASE Abort("freed")
  BY <1>2, AbortShown
<1>3. CASE ~Abort("freed")
  <2>1. /\ jobs # <<>> /\ cur.op = "continue" /\ at = "page" /\ Done
        /\ causes' = causes \cup Early(Range(Tail(jobs)))
        /\ UNCHANGED <<usersList, messagesList, toUserId, db>>
    BY <1>3 DEF ContinueShows, On, Runs, Finish, lists
  <2>2. Moves(1, 0) /\ at' = "first"
    BY <1>1, <2>1, QueueMoves DEF Done
  <2>3. FreshInv'
    BY <1>1, <2>1, <2>2, FreshAside
  <2>4. ASSUME Undisturbed' PROVE Orderly'
    <3>1. Orderly
      BY <2>4, LaterDisturbed DEF ShowInv
    <3>2. NothingSent' /\ \A op : OnItsWay(op)' => OnItsWay(op)
      BY <1>1, <2>2, <3>1, OrderKept DEF Orderly
    <3>3. \A i \in DOMAIN jobs' : i + 1 \in DOMAIN jobs /\ jobs'[i] = jobs[i + 1] /\ jobs'[i].op \notin Held
      <4>1. jobs \in Seq(Jobs) /\ jobs' = Tail(jobs)
        BY <1>1, <2>1, QueueOf DEF Done
      <4>2. \A i \in DOMAIN jobs' : i + 1 \in DOMAIN jobs /\ jobs'[i] = jobs[i + 1]
        BY <2>1, <4>1, OneLess
      <4>3. \A j \in Range(Tail(jobs)) : j.op \notin Held
        BY <2>1, <2>4 DEF Undisturbed, Early, HeldBesides
      <4> QED
        BY <4>1, <4>2, <4>3 DEF Range
    <3>4. NoReply' /\ FromUsers'
      BY <3>3 DEF NoReply, FromUsers, OnItsWay, Held
    <3>5. ~HeldBehind
      <4> SUFFICES ASSUME NEW i \in DOMAIN jobs, i > 1, jobs[i].op \in Held PROVE FALSE
        BY DEF HeldBehind
      <4>1. i - 1 \in DOMAIN jobs' /\ SameJob(i - 1, i)
        BY <1>1, <2>2, MovedJobs
      <4> QED
        BY <3>3, <4>1 DEF SameJob
    <3>6. Filling' /\ Told'
      BY <2>1, <2>2, <3>1, ToldByRows DEF Orderly, Filling, Making, conversationExists
    <3>7. cur.user = toUserId
      <4>1. "overtaken" \notin causes
        BY <2>1, <2>4 DEF Undisturbed
      <4> QED
        BY <1>1, <2>1, <4>1, QueueOf DEF ShowInv, SendInv, Straight, JobsInv
    <3>8. Once' /\ Texts' = Stored'
      <4>1. Once /\ Texts = {m.text : m \in OfUser(db.messages, cur.user)}
        BY <2>1, <3>1, <3>5 DEF Orderly, Filling
      <4> QED
        BY <2>1, <3>7, <4>1 DEF Once, Texts, Stored
    <3>9. ToShow' = {}
      BY <2>2 DEF ToShow, Received
    <3>10. ToSend' = {}
      <4> SUFFICES ASSUME NEW i \in Unstored({"send"})' PROVE FALSE
        BY DEF ToSend
      <4>1. i + 1 \in DOMAIN jobs /\ jobs[i + 1].op = "send" /\ i \in Nat /\ 1 < i + 1
        <5>1. i \in DOMAIN jobs' /\ jobs'[i].op = "send"
          BY DEF Unstored
        <5>2. i \in Nat /\ i # 0
          BY <1>1, <5>1 DEF Parts, JobsOK
        <5> QED
          BY <3>3, <5>1, <5>2
      <4>2. 1 \in DOMAIN jobs /\ jobs[1].op = "continue"
        BY <1>1, <2>1, QueueOf
      <4> QED
        BY <3>1, <4>1, <4>2 DEF Orderly, NothingSent
    <3>11. ListShown'
      BY <3>8, <3>9, <3>10 DEF ListShown
    <3> QED
      BY <3>2, <3>4, <3>6, <3>11 DEF Orderly
  <2> QED
    BY <2>3, <2>4 DEF ShowInv
<1> QED
  BY <1>2, <1>3

LEMMA RemovedLess ==
  ASSUME Parts, NEW u, db' = Removed(u)
  PROVE  db'.messages \subseteq db.messages /\ \A v : conversationExists(db, v)' => conversationExists(db, v)
  BY RemovedIs DEF conversationExists

LEMMA StartShown ==
  ASSUME ShowInv, SendInv', causes \subseteq causes', acts <= acts', Start
  PROVE  ShowInv'
<1>1. Parts /\ 0 \in {0, 1} /\ 1 \in {0, 1} /\ 0 # 1
  BY DEF ShowInv, SendInv
<1>2. /\ jobs # <<>> /\ cur.op = "start" /\ at = "first"
      /\ UNCHANGED <<page, usersList, messagesList, toUserId>>
  BY DEF Start, On, Runs, lists
<1>3. CASE Finish /\ UNCHANGED db
  <2>1. Moves(1, 0) /\ at' = "first"
    BY <1>1, <1>2, <1>3, QueueMoves DEF Finish, Done
  <2>2. Orderly => Told'
    BY <1>2, <1>3, ToldByRows DEF Orderly, Making, conversationExists
  <2> QED
    BY <1>1, <1>2, <1>3, <2>1, <2>2, Passing
<1>4. CASE db' = addConversation(db, cur.user, cur.user) /\ To("begin")
  <2>1. Moves(0, 0) /\ at' = "begin" /\ UNCHANGED jobs
    BY <1>1, <1>4, QueueMoves DEF To
  <2>2. db'.messages = db.messages
    BY <1>1, <1>4, DbFields DEF addConversation
  <2>3. Told'
    BY <1>2, <2>1 DEF Told, Making, cur
  <2> QED
    BY <1>1, <1>2, <2>1, <2>2, <2>3, Passing
<1> QED
  BY <1>3, <1>4 DEF Start

LEMMA DeleteShown ==
  ASSUME ShowInv, SendInv', causes \subseteq causes', acts <= acts', Delete
  PROVE  ShowInv'
<1>1. Parts /\ FreshInv /\ Parts' /\ 0 \in {0, 1} /\ 0 # 1
  BY DEF ShowInv, SendInv
<1>2. /\ jobs # <<>> /\ cur.op = "delete" /\ at = "first" /\ at' = "begin" /\ UNCHANGED jobs
      /\ UNCHANGED <<page, usersList, messagesList, toUserId>>
      /\ db' = IF conversationExists(db, cur.user) THEN Removed(cur.user) ELSE db
  BY DEF Delete, On, Runs, To, lists
<1>3. Moves(0, 0)
  BY <1>1, <1>2, QueueMoves
<1>4. db'.messages \subseteq db.messages /\ \A v : conversationExists(db, v)' => conversationExists(db, v)
  <2>1. CASE db' = Removed(cur.user)
    BY <1>1, <2>1, RemovedLess
  <2>2. CASE db' = db
    BY <2>2 DEF conversationExists
  <2> QED
    BY <1>2, <2>1, <2>2
<1>5. Orderly => Told'
  BY <1>2, <1>4, ToldByRows DEF Orderly, Making
<1>6. FreshInv'
  BY <1>1, <1>2, <1>3, <1>4, FreshAside
<1>7. CASE page = "users"
  BY <1>1, <1>2, <1>3, <1>4, <1>5, <1>7, Passing
<1>8. CASE page # "users"
  <2>1. OnItsWay("delete")
    BY <1>1, <1>2, QueueOf DEF OnItsWay
  <2>2. ~Orderly
    BY <1>8, <2>1 DEF Orderly, FromUsers
  <2>3. ~Undisturbed'
    BY <2>2, LaterDisturbed DEF ShowInv
  <2> QED
    BY <1>6, <2>3 DEF ShowInv
<1> QED
  BY <1>7, <1>8

(* No invite is answered before one has come. *)
LEMMA ReplyShown ==
  ASSUME ShowInv, SendInv', causes \subseteq causes', acts <= acts', Reply \/ ReplyAsks
  PROVE  ShowInv'
<1>1. Parts /\ FreshInv /\ Parts' /\ 0 \in {0, 1} /\ 0 # 1
  BY DEF ShowInv, SendInv
<1>2. CASE Abort("search")
  BY <1>2, AbortShown
<1>3. CASE ~Abort("search")
  <2>1. jobs # <<>> /\ cur.op = "reply" /\ at' # "first" /\ UNCHANGED jobs
    BY <1>3 DEF Reply, ReplyAsks, On, Runs, To
  <2>2. db'.messages \subseteq db.messages
    <3>1. CASE Reply
      <4>1. db' = Removed(cur.user) \/ db' = db
        BY <3>1 DEF Reply
      <4> QED
        BY <1>1, <4>1, RemovedLess
    <3>2. CASE ReplyAsks
      <4>1. db' = db \/ db' = addConversation(db, cur.user, cur.user)
        BY <1>3, <3>2 DEF ReplyAsks
      <4> QED
        BY <1>1, <4>1, DbFields DEF addConversation
    <3> QED
      BY <3>1, <3>2
  <2>3. Moves(0, 0)
    BY <1>1, <2>1, QueueMoves
  <2>4. FreshInv'
    BY <1>1, <2>1, <2>2, <2>3, FreshAside
  <2>5. ~Orderly
    BY <1>1, <2>1, QueueOf DEF Orderly, NoReply, OnItsWay
  <2>6. ~Undisturbed'
    BY <2>5, LaterDisturbed DEF ShowInv
  <2> QED
    BY <2>4, <2>6 DEF ShowInv
<1> QED
  BY <1>2, <1>3

LEMMA RefreshShown ==
  ASSUME ShowInv, SendInv', causes \subseteq causes', acts <= acts',
         RefreshBegins \/ RefreshClears \/ RefreshShows \/ Finishes
  PROVE  ShowInv'
<1>1. Parts /\ 0 \in {0, 1} /\ 1 \in {0, 1} /\ 0 # 1
  BY DEF ShowInv, SendInv
<1>2. CASE Abort("fetchers")
  BY <1>2, AbortShown
<1>3. CASE ~Abort("fetchers")
  <2>1. jobs # <<>> /\ cur.op \in {"start", "reply", "delete"}
    BY DEF RefreshBegins, RefreshClears, RefreshShows, Finishes, Refreshing, On, Runs
  <2>2. cur.op \notin {"send", "receive", "continue"}
    BY <2>1
  <2>3. UNCHANGED <<messagesList, toUserId, db>>
    BY <1>3 DEF RefreshBegins, RefreshClears, RefreshShows, Finishes, lists
  <2>4. CASE RefreshBegins
    <3>1. at = "begin" /\ at' = "clear" /\ UNCHANGED <<jobs, page, usersList>>
      BY <1>3, <2>4 DEF RefreshBegins, Refreshing, Runs, To, lists
    <3>2. Moves(0, 0)
      BY <1>1, <3>1, QueueMoves
    <3>3. Orderly => Told'
      <4>1. Making => Making'
        BY <3>1 DEF Making, cur
      <4> QED
        BY <2>3, <3>1, <4>1, ToldKept DEF Orderly, conversationExists
    <3> QED
      BY <1>1, <2>1, <2>2, <2>3, <3>1, <3>2, <3>3, Passing
  <2>5. CASE RefreshClears
    <3>1. at' = "list" /\ usersList' = <<>> /\ jobs' = [i \in DOMAIN jobs |-> Freed(jobs[i])]
          /\ UNCHANGED page
      BY <2>5 DEF RefreshClears, view
    <3>2. Moves(0, 0)
      BY <1>1, <3>1, QueueMoves
    <3>3. Told'
      BY <3>1, NobodyTold
    <3> QED
      BY <1>1, <2>1, <2>2, <2>3, <3>1, <3>2, <3>3, Passing
  <2>6. CASE RefreshShows
    <3>1. at = "list" /\ page' = "users" /\ UNCHANGED usersList
      BY <2>6 DEF RefreshShows, Refreshing, Runs, lists
    <3>2. Job("fetch", NoUser, 0) \in Jobs /\ Job("fetch", NoUser, 0).op = "fetch"
      BY <1>1, PlainJob DEF Job, SendInv, ShowInv, Parts, StateOK
    <3>3. Orderly => Told'
      BY <2>3, <3>1, ToldByRows DEF Orderly, Making, conversationExists
    <3>4. CASE cur.op = "delete"
      <4>1. jobs' = Append(Tail(jobs), Job("fetch", NoUser, 0)) /\ at' = "first"
        BY <2>6, <3>4 DEF RefreshShows
      <4>2. Moves(1, 1) /\ Newest.op = "fetch"
        BY <1>1, <2>1, <3>2, <4>1, QueueMoves
      <4> QED
        BY <1>1, <2>1, <2>2, <2>3, <3>1, <3>3, <4>1, <4>2, Passing
    <3>5. CASE cur.op # "delete"
      <4>1. jobs' = Append(jobs, Job("fetch", NoUser, 0)) /\ at' = "finish"
        BY <2>6, <3>5 DEF RefreshShows, Push
      <4>2. Moves(0, 1) /\ Newest.op = "fetch"
        BY <1>1, <3>2, <4>1, QueueMoves
      <4> QED
        BY <1>1, <2>1, <2>2, <2>3, <3>1, <3>3, <4>1, <4>2, Passing
    <3> QED
      BY <3>4, <3>5
  <2>7. CASE Finishes
    <3>1. at = "finish" /\ at' = "first" /\ jobs' = Tail(jobs) /\ UNCHANGED <<page, usersList>>
      BY <2>7 DEF Finishes, On, Runs, Finish, Done, lists
    <3>2. Moves(1, 0)
      BY <1>1, <2>1, <3>1, QueueMoves
    <3>3. Orderly => Told'
      BY <2>3, <3>1, ToldByRows DEF Orderly, Making, conversationExists
    <3> QED
      BY <1>1, <2>1, <2>2, <2>3, <3>1, <3>2, <3>3, Passing
  <2> QED
    BY <2>4, <2>5, <2>6, <2>7
<1> QED
  BY <1>2, <1>3

LEMMA UsersShown ==
  ASSUME ShowInv, SendInv', causes \subseteq causes', acts <= acts',
         Fetch \/ Users \/ UsersAdds \/ UsersShows \/ More \/ MoreAsks
  PROVE  ShowInv'
<1>1. Parts /\ Parts' /\ 0 \in {0, 1} /\ 1 \in {0, 1} /\ 0 # 1
  BY DEF ShowInv, SendInv
<1>2. CASE \E what : Abort(what)
  BY <1>2, AbortShown
<1>3. CASE ~ \E what : Abort(what)
  <2>1. /\ jobs # <<>> /\ cur.op \in {"fetch", "users", "more"}
        /\ UNCHANGED <<messagesList, toUserId, db>>
    BY <1>3 DEF Fetch, Users, UsersAdds, UsersShows, More, MoreAsks, On, Runs, lists
  <2>2. cur.op \notin {"send", "receive", "continue", "start"}
    BY <2>1
  <2>3. UNCHANGED usersList => (Orderly => Told')
    BY <2>1, <2>2, ToldByRows DEF Orderly, Making, conversationExists
  <2>4. CASE Fetch
    <3>1. at' = "first" /\ UNCHANGED <<page, usersList>> /\ Moves(1, 0)
      BY <1>1, <1>3, <2>1, <2>4, QueueMoves DEF Fetch, Done, view, lists
    <3> QED
      BY <1>1, <2>1, <2>2, <2>3, <3>1, Passing
  <2>5. CASE Users
    <3>1. /\ at' = "rows" /\ usersList' = <<>> /\ UNCHANGED page
          /\ jobs' = [i \in DOMAIN jobs |-> Freed(jobs[i])]
      BY <1>3, <2>5 DEF Users, view
    <3>2. Moves(0, 0)
      BY <1>1, <3>1, QueueMoves
    <3>3. Told'
      BY <3>1, NobodyTold
    <3> QED
      BY <1>1, <2>1, <2>2, <3>1, <3>2, <3>3, Passing
  <2>6. CASE UsersAdds
    <3>1. at' = "rows" /\ UNCHANGED <<page, jobs, at>>
      BY <2>6 DEF UsersAdds, On, Runs, view, thread
    <3>2. Moves(0, 0)
      BY <1>1, <3>1, QueueMoves
    <3>3. Orderly => Told'
      <4>1. PICK u \in Peers : usersList' = Append(usersList, UserRow(u, conversationExists(db, u)))
        <5>1. Len(usersList) < Len(Registered) /\ Len(usersList) \in Nat
          BY <1>1, <2>6 DEF UsersAdds, Parts, UsersOK
        <5>2. Len(usersList) + 1 \in DOMAIN Registered
          BY <5>1, UsersAssumption
        <5>3. PICK u : u = Registered[Len(usersList) + 1] /\ u \in Peers
          BY <5>2 DEF Peers, Range
        <5>4. usersList' = Append(usersList, UserRow(u, conversationExists(db, u)))
          BY <2>6, <5>3 DEF UsersAdds
        <5> QED
          BY <5>3, <5>4
      <4>2. PICK r \in UserRows : r = UserRow(u, conversationExists(db, u))
        <5>1. conversationExists(db, u) \in BOOLEAN
          BY DEF conversationExists
        <5>2. UserRow(u, conversationExists(db, u)) \in UserRows
          BY <5>1 DEF UserRow, UserRows
        <5> QED
          BY <5>2
      <4>3. /\ \A i \in DOMAIN usersList' : i \in DOMAIN usersList \/ i = Len(usersList) + 1
            /\ \A i \in DOMAIN usersList : usersList'[i] = usersList[i]
            /\ usersList'[Len(usersList) + 1] = r
        BY <1>1, <4>1, <4>2, OneMore DEF Parts, UsersOK
      <4>4. ~r.exists => ~conversationExists(db, r.id)
        BY <4>2 DEF UserRow
      <4>5. ASSUME Told, NEW i \in DOMAIN usersList', ~usersList'[i].exists
            PROVE  ~conversationExists(db, usersList'[i].id)
        BY <2>2, <4>3, <4>4, <4>5 DEF Told, Making
      <4> QED
        BY <2>1, <4>5 DEF Orderly, Told, conversationExists
    <3> QED
      BY <1>1, <2>1, <2>2, <3>1, <3>2, <3>3, Passing
  <2>8. CASE More
    <3>1. at' = "get" /\ UNCHANGED <<page, usersList, jobs>> /\ Moves(0, 0)
      BY <1>1, <1>3, <2>1, <2>8, QueueMoves DEF More, To, view, lists
    <3> QED
      BY <1>1, <2>1, <2>2, <2>3, <3>1, Passing
  <2>9. CASE MoreAsks
    <3>1. at' = "first" /\ UNCHANGED <<page, usersList>> /\ Moves(1, 0)
      BY <1>1, <1>3, <2>1, <2>9, QueueMoves DEF MoreAsks, Done, view, lists
    <3> QED
      BY <1>1, <2>1, <2>2, <2>3, <3>1, Passing
  <2>7. CASE UsersShows
    <3>1. page' = "users" /\ Done /\ UNCHANGED usersList
      BY <1>3, <2>7 DEF UsersShows, Finish, lists
    <3>2. Moves(1, 0) /\ at' = "first"
      BY <1>1, <2>1, <3>1, QueueMoves DEF Done
    <3> QED
      BY <1>1, <2>1, <2>2, <2>3, <3>1, <3>2, Passing
  <2> QED
    BY <2>4, <2>5, <2>6, <2>7, <2>8, <2>9
<1> QED
  BY <1>2, <1>3

LEMMA InitShown == Init => ShowInv
<1> SUFFICES ASSUME Init PROVE FreshInv /\ Orderly
  BY InitSend DEF ShowInv
<1>1. jobs = <<>> /\ page = "users" /\ DOMAIN jobs = {}
  BY NothingIn DEF Init
<1>2. PICK n \in 0..Len(Registered) : \E known \in SUBSET {Registered[i] : i \in 1..n} :
        /\ db = [NoRows EXCEPT !.conversations = {Conversation(u, u) : u \in known}]
        /\ usersList = [i \in 1..n |-> UserRow(Registered[i], Registered[i] \in known)]
  BY DEF Init
<1>3. PICK known \in SUBSET {Registered[i] : i \in 1..n} :
        /\ db = [NoRows EXCEPT !.conversations = {Conversation(u, u) : u \in known}]
        /\ usersList = [i \in 1..n |-> UserRow(Registered[i], Registered[i] \in known)]
  BY <1>2
<1>4. db.messages = {} /\ db.conversations = {Conversation(u, u) : u \in known}
  BY <1>3 DEF NoRows
<1>5. FreshInv
  BY <1>1, <1>4 DEF FreshInv, Unstored
<1>6. NoReply /\ FromUsers /\ NothingSent /\ ListShown /\ Filling
  BY <1>1 DEF NoReply, FromUsers, NothingSent, ListShown, Filling, OnItsWay
<1>7. Told
  <2>1. ASSUME NEW i \in DOMAIN usersList
        PROVE  usersList[i].id = Registered[i] /\ (~usersList[i].exists => Registered[i] \notin known)
    <3>1. usersList[i] = [id |-> Registered[i], exists |-> Registered[i] \in known]
      BY <1>3 DEF UserRow
    <3>2. usersList[i].id = Registered[i] /\ usersList[i].exists = (Registered[i] \in known)
      BY <3>1
    <3> QED
      BY <3>2
  <2>2. ASSUME NEW u, conversationExists(db, u) PROVE u \in known
    <3>1. PICK c \in db.conversations : c.user = u
      BY <2>2 DEF conversationExists
    <3>2. PICK v \in known : c = Conversation(v, v)
      BY <1>4, <3>1
    <3> QED
      BY <3>1, <3>2 DEF Conversation
  <2> QED
    BY <2>1, <2>2 DEF Told
<1> QED
  BY <1>5, <1>6, <1>7 DEF Orderly

LEMMA AsyncShown ==
  ASSUME ShowInv, SendInv', causes \subseteq causes', acts <= acts', AsyncThread
  PROVE  ShowInv'
<1>1. CASE SendStores \/ SendSeals \/ SendGoesOut
  BY <1>1, SendStoresShown, SendGoesShown
<1>2. CASE Receive \/ ReceiveShows
  BY <1>2, ReceiveShown, ReceiveShowsShown
<1>3. CASE Continue \/ ContinueFills \/ ContinueShows
  BY <1>3, ContinueShown, ContinueFillsShown, ContinueShowsShown
<1>4. CASE Start \/ Delete \/ Reply \/ ReplyAsks
  BY <1>4, StartShown, DeleteShown, ReplyShown
<1>5. CASE RefreshBegins \/ RefreshClears \/ RefreshShows \/ Finishes
  BY <1>5, RefreshShown
<1>6. CASE Fetch \/ Users \/ UsersAdds \/ UsersShows \/ More \/ MoreAsks
  BY <1>6, UsersShown
<1> QED
  BY <1>1, <1>2, <1>3, <1>4, <1>5, <1>6 DEF AsyncThread

LEMMA NextShown == ShowInv /\ [Next]_vars => ShowInv'
<1> SUFFICES ASSUME ShowInv, [Next]_vars PROVE ShowInv'
  OBVIOUS
<1>1. SendInv' /\ Parts
  BY NextSend DEF ShowInv, SendInv
<1>2. CASE UNCHANGED vars
  <2>1. UNCHANGED <<view, frame, lists, db, thread, net>> /\ causes \subseteq causes' /\ acts <= acts'
    BY <1>1, <1>2, TextFields DEF vars, past
  <2> QED
    BY <1>1, <2>1, EndShown
<1>3. CASE Next
  <2>1. causes \subseteq causes' /\ acts <= acts'
    BY <1>1, <1>3, CausesGrow, ActsGrow
  <2>2. CASE UIThread
    BY <1>1, <2>1, <2>2, ClicksShown
  <2>3. CASE AsyncThread
    BY <1>1, <2>1, <2>3, AsyncShown
  <2>4. CASE NetThread
    BY <1>1, <2>1, <2>4, NetShown
  <2>5. CASE Rest
    BY <1>2, <2>5 DEF Rest
  <2> QED
    BY <1>3, <2>2, <2>3, <2>4, <2>5 DEF Next
<1> QED
  BY <1>2, <1>3

(* A list whose texts are those that are stored, each once, is as long as  *)
(* there are messages.                                                     *)
LEMMA AsLong ==
  ASSUME Parts, FreshInv, Once, NEW u, Texts = {m.text : m \in OfUser(db.messages, u)}
  PROVE  Len(messagesList) = Cardinality(OfUser(db.messages, u))
<1>1. PICK stored : stored = OfUser(db.messages, u)
  OBVIOUS
<1>2. \A m, k \in stored : m.text = k.text => m = k
  BY <1>1 DEF OfUser, FreshInv
<1>3. PICK n \in Nat : n = Len(messagesList) /\ DOMAIN messagesList = 1..n
  BY DEF Parts, MessagesOK
<1>4. PICK h : h = [i \in 1..n |-> CHOOSE m \in stored : m.text = messagesList[i].text]
  OBVIOUS
<1>5. \A i \in 1..n : \E m \in stored : m.text = messagesList[i].text
  BY <1>1, <1>3 DEF Texts
<1>6. h \in [1..n -> stored] /\ \A i \in 1..n : h[i].text = messagesList[i].text
  BY <1>4, <1>5
<1>7. h \in Injection(1..n, stored)
  BY <1>3, <1>6 DEF Injection, IsInjective, Once
<1>8. h \in Surjection(1..n, stored)
  <2>1. ASSUME NEW m \in stored PROVE \E i \in 1..n : h[i] = m
    <3>1. m.text \in Texts
      BY <1>1, <2>1
    <3>2. PICK i \in 1..n : messagesList[i].text = m.text
      BY <1>3, <3>1 DEF Texts
    <3> QED
      BY <1>2, <1>6, <3>2
  <2> QED
    BY <1>6, <2>1 DEF Surjection
<1>9. ExistsBijection(1..n, stored)
  BY <1>7, <1>8 DEF ExistsBijection, Bijection
<1> QED
  BY <1>1, <1>3, <1>9, FS_CountingElements

(* When nothing is on its way an open page shows the messages that are     *)
(* stored for it, no more and no less, whatever the UI, async and net      *)
(* threads have sent, received and loaded by then (sendMessage,            *)
(* processReceivedMessage and continueConversation of logic.c, which each  *)
(* store and show in two steps), as long as no other user is chosen too    *)
(* early, no invite comes and no controls are given back too early.        *)
THEOREM PagesShowWhatIsStored == Spec => []ShowsStored
<1>1. Spec => []ShowInv
  BY InitShown, NextShown, PTL DEF Spec
<1>2. ShowInv => ShowsStored
  <2> SUFFICES ASSUME ShowInv, Quiet, page = "conversation", Undisturbed
               PROVE  /\ named = toUserId
                      /\ {e.text : e \in Range(messagesList)} = {m.text : m \in OfUser(db.messages, named)}
                      /\ Len(messagesList) = Cardinality(OfUser(db.messages, named))
    BY DEF ShowsStored, Undisturbed
  <2>1. Parts /\ FreshInv /\ Orderly /\ jobs = <<>> /\ DOMAIN jobs = {}
    BY NothingIn DEF ShowInv, SendInv, Quiet
  <2>2. named = toUserId
    <3>1. "overtaken" \notin causes
      BY DEF Undisturbed
    <3> QED
      BY <3>1 DEF ShowInv, SendInv, Straight, PageInv
  <2>3. ToSend = {} /\ ToShow = {}
    BY <2>1 DEF ToSend, ToShow, Unstored, Received
  <2>4. Once /\ Texts = {m.text : m \in OfUser(db.messages, named)}
    BY <2>1, <2>2, <2>3 DEF Orderly, ListShown, Stored
  <2>5. {e.text : e \in Range(messagesList)} = Texts
    BY DEF Range, Texts
  <2> QED
    BY <2>1, <2>2, <2>4, <2>5, AsLong
<1> QED
  BY <1>1, <1>2, PTL
=============================================================================
