------------------------ MODULE FileExchange_proofs -------------------------
(***************************************************************************)
(* The exchange of files, for any users, files, sizes and lists: its       *)
(* types; that it implements FileDelivery, so that nothing is kept but     *)
(* whole copies of what was offered to the one who keeps it; that a file   *)
(* is sent only after an acceptance of its size; and that the file handle  *)
(* is open for its job alone.                                              *)
(***************************************************************************)
EXTENDS FileExchange, TLAPS

-----------------------------------------------------------------------------
(* What a sequence is made of: one element more, one less, a larger set. *)
LEMMA OneMore ==
  ASSUME NEW S, NEW s \in Seq(S), NEW m \in S
  PROVE  Append(s, m) \in Seq(S)
OBVIOUS

LEMMA OneLess ==
  ASSUME NEW S, NEW s \in Seq(S), s # <<>>
  PROVE  Tail(s) \in Seq(S) /\ Head(s) \in S
OBVIOUS

LEMMA LargerSet ==
  ASSUME NEW S, NEW T, S \subseteq T, NEW s \in Seq(S)
  PROVE  s \in Seq(T)
OBVIOUS

LEMMA QueuesOf ==
  ASSUME NEW A, NEW f \in [Clients -> Seq(A)], NEW c \in Clients, NEW g
  PROVE  /\ f[c] # <<>> => Head(f[c]) \in A
         /\ \/ \E m \in A : g = [f EXCEPT ![c] = Append(@, m)]
            \/ f[c] # <<>> /\ g = [f EXCEPT ![c] = Tail(@)]
            \/ g = [f EXCEPT ![c] = <<>>]
            \/ g = f
            => g \in [Clients -> Seq(A)]
<1>1. f[c] \in Seq(A) /\ <<>> \in Seq(A)
  OBVIOUS
<1>2. ASSUME NEW m \in A, g = [f EXCEPT ![c] = Append(@, m)] PROVE g \in [Clients -> Seq(A)]
  <2>1. Append(f[c], m) \in Seq(A)
    BY <1>1, OneMore
  <2>2. QED
    BY <1>2, <2>1
<1>3. f[c] # <<>> => Head(f[c]) \in A /\ Tail(f[c]) \in Seq(A)
  BY <1>1, OneLess
<1>4. QED
  BY <1>1, <1>2, <1>3

(* Each client has a queue of its own kind of elements: one is put in, or  *)
(* taken out, while the kinds may grow. *)
LEMMA QueuesKept ==
  ASSUME NEW S, NEW T, \A c \in Clients : S[c] \subseteq T[c],
         NEW f, \A c \in Clients : f[c] \in Seq(S[c])
  PROVE  \A c \in Clients : f[c] \in Seq(T[c])
BY LargerSet

LEMMA QueuesPut ==
  ASSUME NEW S, NEW T, \A c \in Clients : S[c] \subseteq T[c],
         NEW A, NEW f \in [Clients -> A], \A c \in Clients : f[c] \in Seq(S[c]),
         NEW to \in Clients, NEW m \in T[to]
  PROVE  \A c \in Clients : [f EXCEPT ![to] = Append(@, m)][c] \in Seq(T[c])
<1> SUFFICES ASSUME NEW c \in Clients
             PROVE  [f EXCEPT ![to] = Append(@, m)][c] \in Seq(T[c])
  OBVIOUS
<1>1. f[c] \in Seq(T[c])
  BY LargerSet
<1>2. CASE c = to
  BY <1>1, <1>2, OneMore
<1>3. CASE c # to
  BY <1>1, <1>3
<1>4. QED
  BY <1>2, <1>3

LEMMA QueuesTaken ==
  ASSUME NEW S, NEW T, \A c \in Clients : S[c] \subseteq T[c],
         NEW A, NEW f \in [Clients -> A], \A c \in Clients : f[c] \in Seq(S[c]),
         NEW from \in Clients, f[from] # <<>>
  PROVE  /\ \A c \in Clients : [f EXCEPT ![from] = Tail(@)][c] \in Seq(T[c])
         /\ Head(f[from]) \in S[from]
<1>1. f[from] \in Seq(S[from]) /\ f[from] \in Seq(T[from])
  BY LargerSet
<1>2. Tail(f[from]) \in Seq(T[from]) /\ Head(f[from]) \in S[from]
  BY <1>1, OneLess
<1>3. ASSUME NEW c \in Clients PROVE [f EXCEPT ![from] = Tail(@)][c] \in Seq(T[c])
  <2>1. f[c] \in Seq(T[c])
    BY LargerSet
  <2>2. QED
    BY <1>2, <2>1
<1>4. QED
  BY <1>2, <1>3

(* The wire: a queue from each client to each, whose kind is the           *)
(* receiver's. *)
Wired == channel \in [Clients -> [Clients -> Seq(Messages)]]

LEMMA WireKept ==
  ASSUME NEW S, NEW T, \A c \in Clients : S[c] \subseteq T[c],
         \A d, c \in Clients : channel[d][c] \in Seq(S[c]), UNCHANGED channel
  PROVE  \A d, c \in Clients : channel'[d][c] \in Seq(T[c])
BY LargerSet

LEMMA WireSend ==
  ASSUME NEW S, NEW T, \A c \in Clients : S[c] \subseteq T[c],
         Wired, \A d, c \in Clients : channel[d][c] \in Seq(S[c]),
         NEW from \in Clients, NEW to \in Clients, NEW m \in T[to], Send(from, to, m)
  PROVE  \A d, c \in Clients : channel'[d][c] \in Seq(T[c])
<1>1. channel' = [channel EXCEPT ![from] = [channel[from] EXCEPT ![to] = Append(@, m)]]
  BY DEF Send
<1>2. channel[from] \in [Clients -> Seq(Messages)]
  BY DEF Wired
<1>3. \A c \in Clients : [channel[from] EXCEPT ![to] = Append(@, m)][c] \in Seq(T[c])
  BY <1>2, QueuesPut
<1>4. SUFFICES ASSUME NEW d \in Clients, NEW c \in Clients
               PROVE  channel'[d][c] \in Seq(T[c])
  OBVIOUS
<1>5. CASE d = from
  BY <1>1, <1>3, <1>5 DEF Wired
<1>6. CASE d # from
  <2>1. channel'[d][c] = channel[d][c]
    BY <1>1, <1>6 DEF Wired
  <2>2. QED
    BY <2>1, LargerSet
<1>7. QED
  BY <1>5, <1>6

LEMMA WireTake ==
  ASSUME NEW S, NEW T, \A c \in Clients : S[c] \subseteq T[c],
         Wired, \A d, c \in Clients : channel[d][c] \in Seq(S[c]),
         NEW from \in Clients, NEW to \in Clients, channel[from][to] # <<>>, Taken(from, to)
  PROVE  /\ \A d, c \in Clients : channel'[d][c] \in Seq(T[c])
         /\ Head(channel[from][to]) \in S[to]
<1>1. channel' = [channel EXCEPT ![from] = [channel[from] EXCEPT ![to] = Tail(@)]]
  BY DEF Taken
<1>2. channel[from] \in [Clients -> Seq(Messages)]
  BY DEF Wired
<1>3. /\ \A c \in Clients : [channel[from] EXCEPT ![to] = Tail(@)][c] \in Seq(T[c])
      /\ Head(channel[from][to]) \in S[to]
  BY <1>2, QueuesTaken
<1>4. ASSUME NEW d \in Clients, NEW c \in Clients PROVE channel'[d][c] \in Seq(T[c])
  <2>1. CASE d = from
    BY <1>1, <1>3, <2>1 DEF Wired
  <2>2. CASE d # from
    <3>1. channel'[d][c] = channel[d][c]
      BY <1>1, <2>2 DEF Wired
    <3>2. QED
      BY <3>1, LargerSet
  <2>3. QED
    BY <2>1, <2>2
<1>5. QED
  BY <1>3, <1>4

(* Whatever is sent or taken, the wire stays one. *)
LEMMA StaysWired ==
  ASSUME Wired, NEW from \in Clients, NEW to \in Clients,
         \/ \E m \in Messages : Send(from, to, m)
         \/ channel[from][to] # <<>> /\ Taken(from, to)
  PROVE  Wired'
<1> DEFINE M == [c \in Clients |-> Messages]
<1>1. \A d, c \in Clients : channel[d][c] \in Seq(M[c])
  BY DEF Wired
<1>2. \A d, c \in Clients : channel'[d][c] \in Seq(M[c])
  BY <1>1, WireSend, WireTake
<1>3. DOMAIN channel' = Clients /\ \A d \in Clients : DOMAIN channel'[d] = Clients
  BY DEF Wired, Send, Taken
<1>4. channel' = [d \in Clients |-> [c \in Clients |-> channel'[d][c]]]
  BY <1>3 DEF Wired, Send, Taken
<1>5. QED
  BY <1>2, <1>4 DEF Wired

-----------------------------------------------------------------------------
(* Types.                                                                  *)

Active == [at : Steps, peer : Clients, file : Files, index : Nat]

LEMMA InitTypeOK == Init => TypeOK
<1> SUFFICES ASSUME Init PROVE TypeOK
  OBVIOUS
<1> USE DEF Init, TypeOK
<1>1. /\ known \in Lists
      /\ toUserId \in [Clients -> Clients]
      /\ raising \in [Clients -> Replies \cup {None}]
  OBVIOUS
<1>2. /\ channel \in [Clients -> [Clients -> Seq(Messages)]]
      /\ fileExchangeMessages \in [Clients -> Seq(Messages)]
      /\ got \in [Clients -> Seq(Pieces)] /\ jobs \in [Clients -> Seq(Jobs)]
  OBVIOUS
<1>3. /\ kept \in [Clients -> SUBSET (Clients \X Seq(Pieces))]
      /\ async \in [Clients -> Active \cup {Idle}]
      /\ asks \in 0..MaxAsks
  BY BoundAssumption
<1>4. QED
  BY <1>1, <1>2, <1>3 DEF Active

(* What is left alone by a failed assertion, and by a step of nobody's. *)
Assertions == {"rwops", "exchangingFile", "index", "chunk"}

LEMMA AbortTypeOK ==
  ASSUME TypeOK, NEW c \in Clients, NEW assertion \in Assertions,
         Abort(c, assertion)
  PROVE  TypeOK'
BY DEF TypeOK, Abort, Assertions, netc, logic, history, users

(* The steps of an exchange that fail an assertion instead. *)
Fails(c) ==
  \/ SendEnds(c) /\ async[c].index = 0
  \/ Decline(c) /\ ~exchangingFile[c]
  \/ Accept(c) /\ ~(rwops[c] = "closed" /\ exchangingFile[c])

LEMMA FailsAborts ==
  ASSUME NEW c \in Clients, Fails(c)
  PROVE  \E assertion \in Assertions : Abort(c, assertion)
<1>1. CASE SendEnds(c) /\ async[c].index = 0
  BY <1>1 DEF SendEnds, Assertions
<1>2. CASE Decline(c) /\ ~exchangingFile[c]
  BY <1>2 DEF Decline, Assertions
<1>3. CASE Accept(c) /\ ~(rwops[c] = "closed" /\ exchangingFile[c])
  BY <1>3 DEF Accept, Assertions
<1>4. QED
  BY <1>1, <1>2, <1>3 DEF Fails

LEMMA UITypeOK ==
  ASSUME TypeOK, NEW c \in Clients, UIThread(c)
  PROVE  TypeOK'
<1>1. ASSUME NEW d \in Clients, ConversationOpened(c, d) PROVE TypeOK'
  BY <1>1 DEF TypeOK, ConversationOpened, Set, netc, history, users
<1>2. ASSUME NEW f \in Files, FileChosen(c, f) PROVE TypeOK'
  <2>1. CASE rwops[c] = "closed"
    <3>1. Job("send", None, f) \in Jobs
      BY DEF Job, Jobs
    <3>2. jobs' \in [Clients -> Seq(Jobs)]
      BY <1>2, <2>1, <3>1, QueuesOf DEF FileChosen, TypeOK
    <3>3. asks' \in 0..MaxAsks
      BY <1>2, <2>1, BoundAssumption DEF TypeOK, FileChosen
    <3>4. QED
      BY <1>2, <2>1, <3>2, <3>3 DEF TypeOK, FileChosen, BeginLoading, Set, netc, history, users
  <2>2. CASE rwops[c] # "closed"
    BY <1>2, <2>2, AbortTypeOK DEF FileChosen, Assertions
  <2>3. QED
    BY <2>1, <2>2
<1>3. QED
  BY <1>1, <1>2 DEF UIThread

LEMMA LeaveTypeOK ==
  ASSUME TypeOK, NEW c \in Clients, Leave(c)
  PROVE  TypeOK'
<1>1. CASE rwops[c] = "closed"
  <2>1. asks' \in 0..MaxAsks
    BY <1>1, BoundAssumption DEF TypeOK, Leave
  <2>2. QED
    BY <1>1, <2>1 DEF TypeOK, Leave, netc, logic, history
<1>2. CASE rwops[c] # "closed"
  BY <1>2, AbortTypeOK DEF Leave, Assertions
<1>3. QED
  BY <1>1, <1>2

LEMMA NetTypeOK ==
  ASSUME TypeOK, NEW c \in Clients, NetThread(c)
  PROVE  TypeOK'
<1>1. ASSUME NEW d \in Clients, TakeRequest(d, c) \/ TakeFileMessage(d, c) PROVE TypeOK'
  <2> DEFINE m == Head(channel[d][c])
  <2>1. channel[d][c] # <<>> /\ Taken(d, c)
    BY <1>1 DEF TakeRequest, TakeFileMessage, Takes
  <2>2. channel[d][c] \in Seq(Messages) /\ m \in Messages
    BY <2>1, OneLess DEF TypeOK
  <2>3. Wired'
    BY <2>1, StaysWired DEF TypeOK, Wired
  <2>4. CASE TakeRequest(d, c)
    <3>1. m.kind = "ask"
      BY <2>4 DEF TakeRequest
    <3>2. Job("reply", m.from, m.what) \in Replies
      BY <2>2, <3>1 DEF Messages, Job, Replies
    <3>3. raising' = Set(raising, c, None) \/ raising' = Set(raising, c, Job("reply", m.from, m.what))
      BY <2>4 DEF TakeRequest
    <3> HIDE DEF m
    <3>4. raising' \in [Clients -> Replies \cup {None}]
      BY <3>2, <3>3 DEF TypeOK, Set
    <3>5. QED
      BY <2>3, <2>4, <3>4 DEF TypeOK, Wired, TakeRequest, netc, logic, history, users
  <2>5. CASE TakeFileMessage(d, c)
    <3>1. fileExchangeMessages' = [fileExchangeMessages EXCEPT ![c] = Append(@, m)]
      BY <2>5 DEF TakeFileMessage
    <3> HIDE DEF m
    <3>2. fileExchangeMessages' \in [Clients -> Seq(Messages)]
      BY <2>2, <3>1, QueuesOf DEF TypeOK
    <3>3. QED
      BY <2>3, <2>5, <3>2 DEF TypeOK, Wired, TakeFileMessage, logic, history, users
  <2>6. QED
    BY <1>1, <2>4, <2>5
<1>2. CASE RaiseFlag(c)
  <2>1. raising[c] \in Jobs /\ jobs' = [jobs EXCEPT ![c] = Append(@, raising[c])]
    BY <1>2 DEF RaiseFlag, TypeOK, Jobs
  <2>2. jobs' \in [Clients -> Seq(Jobs)]
    BY <2>1, QueuesOf DEF TypeOK
  <2>3. QED
    BY <1>2, <2>2 DEF TypeOK, RaiseFlag, BeginLoading, Set, logic, history, users
<1>3. QED
  BY <1>1, <1>2 DEF NetThread

(* The thread goes on with the exchange it is in. *)
LEMMA GoesTypeOK ==
  ASSUME TypeOK, NEW c \in Clients, async[c].at # "idle", NEW step \in Steps, Goes(c, step)
  PROVE  async' \in [Clients -> Active \cup {Idle}]
<1>1. async[c] \in Active
  BY DEF TypeOK, Active, Idle
<1>2. [async[c] EXCEPT !.at = step] \in Active
  BY <1>1 DEF Active
<1>3. QED
  BY <1>2 DEF TypeOK, Active, Goes

LEMMA SetTypeOK ==
  ASSUME TypeOK, NEW c \in Clients, NEW t \in Active \cup {Idle}, async' = Set(async, c, t)
  PROVE  async' \in [Clients -> Active \cup {Idle}]
BY DEF TypeOK, Active, Set

LEMMA RunTypeOK ==
  ASSUME TypeOK, NEW c \in Clients, jobs[c] # <<>>
  PROVE  Head(jobs[c]) \in Jobs /\ (Pop(c) => jobs' \in [Clients -> Seq(Jobs)])
<1>1. jobs[c] \in Seq(Jobs)
  BY DEF TypeOK
<1>2. Head(jobs[c]) \in Jobs /\ Tail(jobs[c]) \in Seq(Jobs)
  BY <1>1, OneLess
<1>3. QED
  BY <1>2 DEF TypeOK, Pop

LEMMA FinishTypeOK ==
  ASSUME TypeOK, NEW c \in Clients, FinishFileExchanging(c)
  PROVE  /\ fileExchangeMessages' \in [Clients -> Seq(Messages)]
         /\ exchangingFile' \in [Clients -> BOOLEAN]
BY QueuesOf DEF TypeOK, FinishFileExchanging, ReleaseFlag, LowerFlag, Set

LEMMA SendingTypeOK ==
  ASSUME TypeOK, NEW c \in Clients,
         RunSend(c) \/ TakeAnswer(c) \/ AnswerTimesOut(c) \/ SendChunk(c) \/ SendEnds(c) \/ Sent(c)
  PROVE  TypeOK'
<1> SUFFICES ASSUME ~Fails(c) PROVE TypeOK'
  BY FailsAborts, AbortTypeOK
<1>1. CASE RunSend(c)
  <2> DEFINE f == Head(jobs[c]).file
             m == Message("ask", c, Size[f], f)
             t == [at |-> "answer", peer |-> toUserId[c], file |-> f, index |-> 0]
  <2>1. CASE exchangingFile[c]
    BY <1>1, <2>1, AbortTypeOK DEF RunSend, Assertions
  <2>2. CASE ~exchangingFile[c]
    <3>1. jobs[c] # <<>> /\ Pop(c) /\ Send(c, toUserId[c], m) /\ async' = Set(async, c, t)
          /\ Head(jobs[c]).op = "send" /\ offered' = offered \cup {<<c, toUserId[c], f>>}
      BY <1>1, <2>2 DEF RunSend, Runs
    <3>2. f \in Files /\ jobs' \in [Clients -> Seq(Jobs)]
      BY <3>1, RunTypeOK DEF Jobs, Replies
    <3>3. m \in Messages
      BY <3>2 DEF Message, Messages, Sizes
    <3>4. toUserId[c] \in Clients
      BY DEF TypeOK
    <3>5. Wired'
      BY <3>1, <3>3, <3>4, StaysWired DEF TypeOK, Wired
    <3>6. t \in Active
      BY <3>2, <3>4 DEF Active, Steps
    <3>7. offered' \subseteq Clients \X Clients \X Files
      BY <3>1, <3>2, <3>4 DEF TypeOK
    <3> HIDE DEF f, m, t
    <3>8. async' \in [Clients -> Active \cup {Idle}]
      BY <3>1, <3>6, SetTypeOK
    <3>9. fileExchangeMessages' \in [Clients -> Seq(Messages)]
          /\ exchangingFile' \in [Clients -> BOOLEAN]
      BY <1>1, <2>2, QueuesOf DEF RunSend, Set, TypeOK
    <3>10. UNCHANGED <<known, toUserId, rwops, got, allowInput, kept, accepted, unanswered, gone, raising, failed, asks>>
      BY <1>1, <2>2 DEF RunSend, logic, users
    <3>11. QED
      BY <3>2, <3>5, <3>7, <3>8, <3>9, <3>10 DEF TypeOK, Wired, Active
  <2>3. QED
    BY <2>1, <2>2
<1>2. CASE TakeAnswer(c)
  <2>1. \/ /\ fileExchangeMessages' = [fileExchangeMessages EXCEPT ![c] = Tail(@)]
           /\ UNCHANGED exchangingFile
        \/ FinishFileExchanging(c)
    BY <1>2 DEF TakeAnswer
  <2>2. fileExchangeMessages[c] # <<>>
    BY <1>2 DEF TakeAnswer
  <2>3. /\ fileExchangeMessages' \in [Clients -> Seq(Messages)]
        /\ exchangingFile' \in [Clients -> BOOLEAN]
    BY <2>1, <2>2, QueuesOf, FinishTypeOK DEF TypeOK
  <2>4. async' \in [Clients -> Active \cup {Idle}]
    BY <1>2, GoesTypeOK DEF TakeAnswer, At, Steps
  <2>5. QED
    BY <1>2, <2>3, <2>4 DEF TypeOK, Active, TakeAnswer, logic, history, users
<1>3. CASE AnswerTimesOut(c) \/ SendEnds(c)
  <2>1. /\ async[c].at # "idle" /\ Goes(c, "sent") /\ FinishFileExchanging(c)
        /\ UNCHANGED <<channel, logic, jobs, allowInput, history, users, raising, failed, asks>>
    BY <1>3 DEF AnswerTimesOut, SendEnds, StopWaiting, TimesOut, At, Fails
  <2>2. async' \in [Clients -> Active \cup {Idle}]
    BY <2>1, GoesTypeOK DEF Steps
  <2>3. /\ fileExchangeMessages' \in [Clients -> Seq(Messages)]
        /\ exchangingFile' \in [Clients -> BOOLEAN]
    BY <2>1, FinishTypeOK
  <2>4. QED
    BY <2>1, <2>2, <2>3 DEF TypeOK, Active, logic, history, users
<1>4. CASE SendChunk(c)
  <2> DEFINE i == async[c].index + 1
  <2>1. async[c] \in Active
    BY <1>4 DEF TypeOK, SendChunk, At, Active, Idle
  <2>2. PICK p \in PiecesOf(async[c].file) : Send(c, async[c].peer, Message("chunk", c, 1, <<p, toUserId[c]>>))
    BY <1>4 DEF SendChunk
  <2>3. i \in Nat /\ async[c].file \in Files
    BY <2>1 DEF Active
  <2>4. p \in Pieces
    BY <2>3 DEF Pieces
  <2>5. Message("chunk", c, 1, <<p, toUserId[c]>>) \in Messages
    BY <2>4 DEF Message, Messages, TypeOK
  <2>6. Wired'
    BY <2>1, <2>2, <2>5, StaysWired DEF TypeOK, Wired, Active
  <2>7. [async[c] EXCEPT !.index = i] \in Active
    BY <2>1, <2>3 DEF Active
  <2>8. async' \in [Clients -> Active \cup {Idle}]
    BY <1>4, <2>7 DEF TypeOK, Active, SendChunk
  <2>9. QED
    BY <1>4, <2>6, <2>8 DEF TypeOK, Wired, Active, SendChunk, netc, logic, history, users
<1>5. CASE Sent(c)
  BY <1>5 DEF TypeOK, Sent, CloseFile, Close, FinishLoading, Set, netc, history, users
<1>6. QED
  BY <1>1, <1>2, <1>3, <1>4, <1>5

LEMMA ReceivingTypeOK ==
  ASSUME TypeOK, NEW c \in Clients,
         RunReply(c) \/ Decline(c) \/ Accept(c) \/ ReceiveChunk(c) \/ ReceiveEnds(c) \/ Received(c)
  PROVE  TypeOK'
<1> SUFFICES ASSUME ~Fails(c) PROVE TypeOK'
  BY FailsAborts, AbortTypeOK
<1>1. CASE RunReply(c)
  <2> DEFINE j == Head(jobs[c])
             t == [at |-> "dialog", peer |-> j.peer, file |-> j.file, index |-> 0]
  <2>1. jobs[c] # <<>> /\ Pop(c) /\ j.op = "reply" /\ (async' = Set(async, c, t) \/ UNCHANGED async)
    BY <1>1 DEF RunReply, Runs
  <2>2. j \in Jobs /\ jobs' \in [Clients -> Seq(Jobs)]
    BY <2>1, RunTypeOK
  <2>3. t \in Active
    BY <2>1, <2>2 DEF Jobs, Replies, Active, Steps
  <2> HIDE DEF j, t
  <2>4. async' \in [Clients -> Active \cup {Idle}]
    BY <2>1, <2>3, SetTypeOK DEF TypeOK, Active
  <2>5. /\ allowInput' \in [Clients -> BOOLEAN] /\ unanswered' \in [Clients -> BOOLEAN]
        /\ UNCHANGED <<channel, netc, logic, offered, kept, accepted, users, raising, failed, asks>>
    BY <1>1 DEF TypeOK, RunReply, FinishLoading, Set
  <2>6. QED
    BY <2>2, <2>4, <2>5 DEF TypeOK, Active, netc, logic, users
<1>2. CASE Decline(c)
  <2>1. async[c].peer \in Clients
    BY <1>2 DEF Decline, At, TypeOK, Idle
  <2>2. Message("answer", c, 0, None) \in Messages
    BY DEF Message, Messages
  <2>3. Send(c, async[c].peer, Message("answer", c, 0, None)) \/ UNCHANGED channel
    BY <1>2 DEF Decline, Fails
  <2>4. Wired'
    BY <2>1, <2>2, <2>3, StaysWired DEF TypeOK, Wired
  <2>5. /\ fileExchangeMessages' \in [Clients -> Seq(Messages)]
        /\ exchangingFile' \in [Clients -> BOOLEAN]
    BY <1>2, FinishTypeOK DEF Decline, Fails
  <2>6. async' \in [Clients -> Active \cup {Idle}] /\ allowInput' \in [Clients -> BOOLEAN]
    BY <1>2, SetTypeOK DEF Decline, Fails, FinishLoading, Set, TypeOK
  <2>7. QED
    BY <1>2, <2>4, <2>5, <2>6 DEF TypeOK, Active, Wired, Decline, Fails, logic, history, users
<1>3. CASE Accept(c)
  <2> DEFINE f == async[c].file
  <2>1. rwops[c] = "closed" /\ exchangingFile[c]
    BY <1>3 DEF Fails
  <2>2. QED
    <3>1. async[c].at = "dialog" /\ async[c].peer \in Clients /\ f \in Files
      BY <1>3 DEF Accept, At, TypeOK, Idle
    <3>2. Size[f] \in Sizes /\ Message("answer", c, Size[f], None) \in Messages
      BY <3>1 DEF Sizes, Message, Messages
    <3>3. \/ /\ Send(c, async[c].peer, Message("answer", c, Size[f], None))
             /\ accepted' = accepted \cup {<<c, async[c].peer, Size[f]>>}
             /\ Goes(c, "receiving") /\ UNCHANGED exchangingFile
          \/ ReleaseFlag(c) /\ Goes(c, "received") /\ UNCHANGED <<channel, accepted>>
      BY <1>3, <2>1 DEF Accept
    <3> HIDE DEF f
    <3>4. Wired' /\ accepted' \subseteq Clients \X Clients \X Sizes
      BY <3>1, <3>2, <3>3, StaysWired DEF TypeOK, Wired
    <3>5. async' \in [Clients -> Active \cup {Idle}]
      BY <3>1, <3>3, GoesTypeOK DEF Steps
    <3>6. exchangingFile' \in [Clients -> BOOLEAN]
      BY <3>3 DEF TypeOK, ReleaseFlag, LowerFlag, Set
    <3>7. /\ rwops' = Set(rwops, c, "writing") /\ got' = Set(got, c, <<>>)
          /\ fileExchangeMessages' = Set(fileExchangeMessages, c, <<>>)
          /\ UNCHANGED <<toUserId, jobs, allowInput, offered, kept, unanswered, users, raising, failed, asks>>
      BY <1>3, <2>1 DEF Accept
    <3>8. /\ got' \in [Clients -> Seq(Pieces)]
          /\ fileExchangeMessages' \in [Clients -> Seq(Messages)]
          /\ rwops' \in [Clients -> {"closed", "reading", "writing"}]
      BY <3>7, QueuesOf DEF TypeOK, Set
    <3>9. QED
      BY <3>4, <3>5, <3>6, <3>7, <3>8 DEF TypeOK, Wired, Active, users
<1>4. CASE ReceiveChunk(c)
  <2> DEFINE m == Head(fileExchangeMessages[c])
  <2>1. fileExchangeMessages[c] \in Seq(Messages) /\ fileExchangeMessages[c] # <<>>
    BY <1>4 DEF TypeOK, ReceiveChunk
  <2>2. m \in Messages
    BY <2>1, OneLess
  <2>3. m.kind = "chunk" => m.what[1] \in Pieces
    BY <2>2 DEF Messages
  <2>4. /\ \/ UNCHANGED got
           \/ m.kind = "chunk" /\ got' = [got EXCEPT ![c] = Append(@, m.what[1])]
        /\ \/ UNCHANGED fileExchangeMessages
           \/ fileExchangeMessages' = [fileExchangeMessages EXCEPT ![c] = Tail(@)]
        /\ UNCHANGED failed \/ failed' = [failed EXCEPT ![c] = "chunk"]
        /\ UNCHANGED <<channel, exchangingFile, toUserId, rwops, jobs, async, allowInput, history, users, raising, asks>>
    BY <1>4 DEF ReceiveChunk
  <2> HIDE DEF m
  <2>5. got' \in [Clients -> Seq(Pieces)]
    BY <2>3, <2>4, QueuesOf DEF TypeOK
  <2>6. fileExchangeMessages' \in [Clients -> Seq(Messages)]
    BY <2>1, <2>4, QueuesOf DEF TypeOK
  <2>7. QED
    BY <2>4, <2>5, <2>6 DEF TypeOK, history, users
<1>5. CASE ReceiveEnds(c)
  <2>1. async' \in [Clients -> Active \cup {Idle}]
    BY <1>5, GoesTypeOK DEF ReceiveEnds, At, Steps
  <2>2. /\ fileExchangeMessages' \in [Clients -> Seq(Messages)]
        /\ exchangingFile' \in [Clients -> BOOLEAN]
    BY <1>5, FinishTypeOK DEF ReceiveEnds
  <2>3. QED
    BY <1>5, <2>1, <2>2 DEF TypeOK, Active, ReceiveEnds, logic, history, users
<1>6. CASE Received(c)
  <2>1. async[c].peer \in Clients /\ got[c] \in Seq(Pieces)
    BY <1>6 DEF Received, At, TypeOK, Idle
  <2>2. kept' \in [Clients -> SUBSET (Clients \X Seq(Pieces))]
    BY <1>6, <2>1 DEF Received, TypeOK
  <2>3. QED
    BY <1>6, <2>2 DEF TypeOK, Received, CloseFile, Close, FinishLoading, Set, netc, users
<1>7. QED
  BY <1>1, <1>2, <1>3, <1>4, <1>5, <1>6

LEMMA NextTypeOK == TypeOK /\ [Next]_vars => TypeOK'
<1> SUFFICES ASSUME TypeOK, [Next]_vars PROVE TypeOK'
  OBVIOUS
<1>1. CASE UNCHANGED vars
  BY <1>1 DEF TypeOK, vars, netc, logic, history, users
<1>2. ASSUME NEW c \in Clients, UIThread(c) \/ AsyncThread(c) \/ NetThread(c) \/ Leave(c)
      PROVE  TypeOK'
  BY <1>2, UITypeOK, SendingTypeOK, ReceivingTypeOK, NetTypeOK, LeaveTypeOK DEF AsyncThread
<1>3. QED
  BY <1>1, <1>2 DEF Next, Rest

(* Type correctness of the exchange of files. *)
THEOREM TypesHold == Spec => []TypeOK
<1>1. QED
  BY InitTypeOK, NextTypeOK, PTL DEF Spec

-----------------------------------------------------------------------------
(* The refinement.  A request is on its way only to the one it was offered *)
(* to, whether on the wire, in the hands of the net thread, in the queue   *)
(* of jobs, or in the hands of the async thread; an offer is never taken   *)
(* back.                                                                   *)

NotesTo(c, offers) == {m \in Messages : m.kind = "ask" => <<m.from, c, m.what>> \in offers}
JobsOf(c, offers) == {j \in Jobs : j.op = "reply" => <<j.peer, c, j.file>> \in offers}
Writes(task) == task.at \in {"dialog", "receiving", "received"}

OnWire == \A d, c \in Clients : channel[d][c] \in Seq(NotesTo(c, offered))
InRaising == \A c \in Clients : raising[c] # None => raising[c] \in JobsOf(c, offered)
InJobs == \A c \in Clients : jobs[c] \in Seq(JobsOf(c, offered))
InHands ==
  \A c \in Clients : Writes(async[c]) => <<async[c].peer, c, async[c].file>> \in offered

OfferInv == OnWire /\ InRaising /\ InJobs /\ InHands

LEMMA InitOfferInv == Init => OfferInv
BY DEF Init, OfferInv, OnWire, InRaising, InJobs, InHands, Writes, Idle

LEMMA IdleWritesNothing == ~Writes(Idle)
BY DEF Writes, Idle

(* The four places, for a step that makes an offer or none. *)
LEMMA WireOffers ==
  ASSUME TypeOK, OnWire, offered \subseteq offered',
         \/ UNCHANGED channel
         \/ \E from, to \in Clients : \E m \in NotesTo(to, offered') : Send(from, to, m)
         \/ \E from, to \in Clients : channel[from][to] # <<>> /\ Taken(from, to)
  PROVE  OnWire'
<1> DEFINE S == [c \in Clients |-> NotesTo(c, offered)]
           T == [c \in Clients |-> NotesTo(c, offered')]
<1>1. \A c \in Clients : S[c] \subseteq T[c]
  BY DEF NotesTo
<1>2. Wired /\ \A d, c \in Clients : channel[d][c] \in Seq(S[c])
  BY DEF OnWire, TypeOK, Wired
<1>3. \A c \in Clients : T[c] = NotesTo(c, offered')
  OBVIOUS
<1> HIDE DEF S, T
<1>4. \A d, c \in Clients : channel'[d][c] \in Seq(T[c])
  BY <1>1, <1>2, <1>3, WireKept, WireSend, WireTake
<1>5. QED
  BY <1>3, <1>4 DEF OnWire

LEMMA JobsOffers ==
  ASSUME TypeOK, InJobs, offered \subseteq offered', NEW c \in Clients,
         \/ UNCHANGED jobs
         \/ \E j \in JobsOf(c, offered') : jobs' = [jobs EXCEPT ![c] = Append(@, j)]
         \/ jobs[c] # <<>> /\ Pop(c)
  PROVE  InJobs'
<1> DEFINE S == [d \in Clients |-> JobsOf(d, offered)]
           T == [d \in Clients |-> JobsOf(d, offered')]
<1>1. \A d \in Clients : S[d] \subseteq T[d]
  BY DEF JobsOf
<1>2. /\ jobs \in [Clients -> Seq(Jobs)]
      /\ \A d \in Clients : jobs[d] \in Seq(S[d])
  BY DEF InJobs, TypeOK
<1>3. \A d \in Clients : T[d] = JobsOf(d, offered')
  OBVIOUS
<1> HIDE DEF S, T
<1>4. CASE UNCHANGED jobs
  BY <1>1, <1>2, <1>3, <1>4, QueuesKept DEF InJobs
<1>5. CASE \E j \in JobsOf(c, offered') : jobs' = [jobs EXCEPT ![c] = Append(@, j)]
  <2>1. PICK j \in T[c] : jobs' = [jobs EXCEPT ![c] = Append(@, j)]
    BY <1>3, <1>5
  <2>2. \A d \in Clients : [jobs EXCEPT ![c] = Append(@, j)][d] \in Seq(T[d])
    BY <1>1, <1>2, QueuesPut
  <2>3. QED
    BY <1>3, <2>1, <2>2 DEF InJobs
<1>6. CASE jobs[c] # <<>> /\ Pop(c)
  <2>1. \A d \in Clients : [jobs EXCEPT ![c] = Tail(@)][d] \in Seq(T[d])
    BY <1>1, <1>2, <1>6, QueuesTaken
  <2>2. QED
    BY <1>3, <1>6, <2>1 DEF InJobs, Pop
<1>7. QED
  BY <1>4, <1>5, <1>6

LEMMA RaisingOffers ==
  ASSUME TypeOK, InRaising, offered \subseteq offered', NEW c \in Clients,
         \/ UNCHANGED raising
         \/ raising' = Set(raising, c, None)
         \/ \E j \in JobsOf(c, offered') : raising' = Set(raising, c, j)
  PROVE  InRaising'
<1>1. \A d \in Clients : JobsOf(d, offered) \subseteq JobsOf(d, offered')
  BY DEF JobsOf
<1>2. raising \in [Clients -> Replies \cup {None}]
  BY DEF TypeOK
<1>3. QED
  BY <1>1, <1>2 DEF InRaising, Set

LEMMA FirstJobOffered ==
  ASSUME InJobs, NEW c \in Clients, jobs[c] # <<>>
  PROVE  Head(jobs[c]) \in JobsOf(c, offered)
BY OneLess DEF InJobs

LEMMA FirstNoteOffered ==
  ASSUME OnWire, NEW d \in Clients, NEW c \in Clients, channel[d][c] # <<>>
  PROVE  Head(channel[d][c]) \in NotesTo(c, offered)
BY OneLess DEF OnWire

LEMMA HandsOffers ==
  ASSUME TypeOK, InHands, offered \subseteq offered', NEW c \in Clients,
         \/ UNCHANGED async
         \/ \E step \in Steps : Goes(c, step) /\ (step \in {"receiving", "received"} => Writes(async[c]))
                                /\ step # "dialog" /\ async[c].at # "idle"
         \/ \E t \in Active \cup {Idle} :
              async' = Set(async, c, t) /\ (Writes(t) => <<t.peer, c, t.file>> \in offered')
         \/ async' = [async EXCEPT ![c].index = async[c].index + 1] /\ async[c].at = "sending"
  PROVE  InHands'
<1>1. async \in [Clients -> Active \cup {Idle}]
  BY DEF TypeOK, Active
<1>2. CASE UNCHANGED async
  BY <1>2 DEF InHands
<1>3. ASSUME NEW step \in Steps, Goes(c, step), async[c].at # "idle", step # "dialog",
             step \in {"receiving", "received"} => Writes(async[c])
      PROVE  InHands'
  <2>1. async[c] \in Active
    BY <1>1, <1>3 DEF Idle
  <2>2. async'[c].at = step /\ async'[c].peer = async[c].peer /\ async'[c].file = async[c].file
    BY <1>1, <1>3, <2>1 DEF Goes, Active
  <2>3. \A d \in Clients : d # c => async'[d] = async[d]
    BY <1>1, <1>3 DEF Goes
  <2>4. QED
    BY <1>3, <2>2, <2>3 DEF InHands, Writes
<1>4. ASSUME NEW t \in Active \cup {Idle}, async' = Set(async, c, t),
             Writes(t) => <<t.peer, c, t.file>> \in offered'
      PROVE  InHands'
  BY <1>1, <1>4 DEF InHands, Set
<1>5. CASE async' = [async EXCEPT ![c].index = async[c].index + 1] /\ async[c].at = "sending"
  <2>1. async'[c].at = "sending" /\ \A d \in Clients : d # c => async'[d] = async[d]
    BY <1>1, <1>5 DEF Active, Idle
  <2>2. QED
    BY <2>1 DEF InHands, Writes
<1>6. QED
  BY <1>2, <1>3, <1>4, <1>5

LEMMA QuietOfferInv ==
  ASSUME TypeOK, OfferInv, UNCHANGED <<channel, raising, jobs, async, offered>>
  PROVE  OfferInv'
BY DEF OfferInv, OnWire, InRaising, InJobs, InHands

LEMMA AbortOfferInv ==
  ASSUME TypeOK, OfferInv, NEW c \in Clients, NEW assertion \in Assertions, Abort(c, assertion)
  PROVE  OfferInv'
BY QuietOfferInv DEF Abort, history

LEMMA UIOfferInv ==
  ASSUME TypeOK, OfferInv, NEW c \in Clients, UIThread(c) \/ Leave(c)
  PROVE  OfferInv'
<1>1. CASE \E f \in Files : FileChosen(c, f) /\ rwops[c] = "closed"
  <2>1. PICK f \in Files : FileChosen(c, f) /\ rwops[c] = "closed"
    BY <1>1
  <2>2. /\ jobs' = [jobs EXCEPT ![c] = Append(@, Job("send", None, f))]
        /\ UNCHANGED <<channel, raising, async, offered>>
    BY <2>1 DEF FileChosen, history
  <2>3. Job("send", None, f) \in JobsOf(c, offered')
    BY DEF Job, Jobs, JobsOf
  <2>4. InJobs'
    BY <2>2, <2>3, JobsOffers DEF OfferInv
  <2>5. QED
    BY <2>2, <2>4 DEF OfferInv, OnWire, InRaising, InHands
<1>2. CASE ~ \E f \in Files : FileChosen(c, f) /\ rwops[c] = "closed"
  <2>1. UNCHANGED <<channel, raising, jobs, async, offered>>
    BY <1>2 DEF UIThread, ConversationOpened, FileChosen, Leave, Abort, history
  <2>2. QED
    BY <2>1, QuietOfferInv
<1>3. QED
  BY <1>1, <1>2

LEMMA NetOfferInv ==
  ASSUME TypeOK, OfferInv, NEW c \in Clients, NetThread(c)
  PROVE  OfferInv'
<1>1. ASSUME NEW d \in Clients, TakeRequest(d, c) \/ TakeFileMessage(d, c) PROVE OfferInv'
  <2> DEFINE m == Head(channel[d][c])
  <2>1. channel[d][c] # <<>> /\ Taken(d, c) /\ UNCHANGED <<jobs, async, offered>>
    BY <1>1 DEF TakeRequest, TakeFileMessage, Takes, history
  <2>2. m \in NotesTo(c, offered)
    BY <2>1, FirstNoteOffered DEF OfferInv
  <2>3. \/ UNCHANGED raising \/ raising' = Set(raising, c, None)
        \/ m.kind = "ask" /\ raising' = Set(raising, c, Job("reply", m.from, m.what))
    BY <1>1 DEF TakeRequest, TakeFileMessage
  <2>4. m.kind = "ask" => Job("reply", m.from, m.what) \in JobsOf(c, offered')
    BY <2>1, <2>2 DEF NotesTo, Messages, Job, Jobs, Replies, JobsOf
  <2> HIDE DEF m
  <2>5. OnWire' /\ InRaising'
    BY <2>1, <2>3, <2>4, WireOffers, RaisingOffers DEF OfferInv
  <2>6. QED
    BY <2>1, <2>5 DEF OfferInv, InJobs, InHands
<1>2. CASE RaiseFlag(c)
  <2>1. /\ raising[c] # None /\ raising' = Set(raising, c, None)
        /\ jobs' = [jobs EXCEPT ![c] = Append(@, raising[c])]
        /\ UNCHANGED <<channel, async, offered>>
    BY <1>2 DEF RaiseFlag, history
  <2>2. raising[c] \in JobsOf(c, offered')
    BY <2>1 DEF OfferInv, InRaising
  <2>3. InRaising' /\ InJobs'
    BY <2>1, <2>2, RaisingOffers, JobsOffers DEF OfferInv
  <2>4. QED
    BY <2>1, <2>3 DEF OfferInv, OnWire, InHands
<1>3. QED
  BY <1>1, <1>2 DEF NetThread

LEMMA SendingOfferInv ==
  ASSUME TypeOK, OfferInv, NEW c \in Clients,
         RunSend(c) \/ TakeAnswer(c) \/ AnswerTimesOut(c) \/ SendChunk(c) \/ SendEnds(c) \/ Sent(c)
  PROVE  OfferInv'
<1> SUFFICES ASSUME ~Fails(c) PROVE OfferInv'
  BY FailsAborts, AbortOfferInv
<1>1. CASE RunSend(c)
  <2> DEFINE f == Head(jobs[c]).file
             m == Message("ask", c, Size[f], f)
             t == [at |-> "answer", peer |-> toUserId[c], file |-> f, index |-> 0]
  <2>1. CASE exchangingFile[c]
    BY <1>1, <2>1, QuietOfferInv DEF RunSend, Abort, history
  <2>2. CASE ~exchangingFile[c]
    <3>1. /\ jobs[c] # <<>> /\ Pop(c) /\ Send(c, toUserId[c], m) /\ async' = Set(async, c, t)
          /\ Head(jobs[c]).op = "send" /\ offered' = offered \cup {<<c, toUserId[c], f>>}
          /\ UNCHANGED raising
      BY <1>1, <2>2 DEF RunSend, Runs
    <3>2. f \in Files /\ toUserId[c] \in Clients
      BY <3>1, RunTypeOK DEF Jobs, Replies, TypeOK
    <3>3. m \in NotesTo(toUserId[c], offered')
      BY <3>1, <3>2 DEF Message, Messages, Sizes, NotesTo
    <3>4. t \in Active /\ ~Writes(t)
      BY <3>2 DEF Active, Steps, Writes
    <3> HIDE DEF f, m, t
    <3>5. OnWire'
      BY <3>1, <3>2, <3>3, WireOffers DEF OfferInv
    <3>6. InJobs'
      BY <3>1, JobsOffers DEF OfferInv
    <3>7. InHands'
      BY <3>1, <3>4, HandsOffers DEF OfferInv
    <3>8. InRaising'
      BY <3>1, RaisingOffers DEF OfferInv
    <3>9. QED
      BY <3>5, <3>6, <3>7, <3>8 DEF OfferInv
  <2>3. QED
    BY <2>1, <2>2
<1>2. CASE SendChunk(c)
  <2>1. /\ async' = [async EXCEPT ![c].index = async[c].index + 1] /\ async[c].at = "sending"
        /\ UNCHANGED <<raising, jobs, offered>>
    BY <1>2 DEF SendChunk, At, history
  <2>2. async[c] \in Active
    BY <2>1 DEF TypeOK, Active, Idle
  <2>3. OnWire'
    <3>1. PICK p \in PiecesOf(async[c].file) :
            Send(c, async[c].peer, Message("chunk", c, 1, <<p, toUserId[c]>>))
      BY <1>2 DEF SendChunk
    <3>2. p \in Pieces
      BY <2>2 DEF Pieces, Active
    <3>3. Message("chunk", c, 1, <<p, toUserId[c]>>) \in NotesTo(async[c].peer, offered')
      BY <3>2 DEF Message, Messages, NotesTo, TypeOK
    <3>4. QED
      BY <2>1, <2>2, <3>1, <3>3, WireOffers DEF OfferInv, Active
  <2>4. InHands'
    BY <2>1, HandsOffers DEF OfferInv
  <2>5. QED
    BY <2>1, <2>3, <2>4 DEF OfferInv, InRaising, InJobs
<1>3. CASE TakeAnswer(c) \/ AnswerTimesOut(c) \/ SendEnds(c)
  <2>1. /\ Goes(c, "sending") \/ Goes(c, "sent")
        /\ async[c].at # "idle" /\ UNCHANGED <<channel, raising, jobs, offered>>
    BY <1>3 DEF TakeAnswer, AnswerTimesOut, StopWaiting, TimesOut, SendEnds, Fails, At, history
  <2>2. InHands'
    BY <2>1, HandsOffers DEF OfferInv, Steps
  <2>3. QED
    BY <2>1, <2>2 DEF OfferInv, OnWire, InRaising, InJobs
<1>4. CASE Sent(c)
  <2>1. async' = Set(async, c, Idle) /\ UNCHANGED <<channel, raising, jobs, offered>>
    BY <1>4 DEF Sent, history
  <2>2. InHands'
    BY <2>1, HandsOffers, IdleWritesNothing DEF OfferInv
  <2>3. QED
    BY <2>1, <2>2 DEF OfferInv, OnWire, InRaising, InJobs
<1>5. QED
  BY <1>1, <1>2, <1>3, <1>4

LEMMA ReceivingOfferInv ==
  ASSUME TypeOK, OfferInv, NEW c \in Clients,
         RunReply(c) \/ Decline(c) \/ Accept(c) \/ ReceiveChunk(c) \/ ReceiveEnds(c) \/ Received(c)
  PROVE  OfferInv'
<1> SUFFICES ASSUME ~Fails(c) PROVE OfferInv'
  BY FailsAborts, AbortOfferInv
<1>1. CASE RunReply(c)
  <2> DEFINE j == Head(jobs[c])
             t == [at |-> "dialog", peer |-> j.peer, file |-> j.file, index |-> 0]
  <2>1. /\ jobs[c] # <<>> /\ Pop(c) /\ j.op = "reply" /\ UNCHANGED <<channel, raising, offered>>
        /\ async' = Set(async, c, t) \/ UNCHANGED async
    BY <1>1 DEF RunReply, Runs
  <2>2. j \in JobsOf(c, offered)
    BY <2>1, FirstJobOffered DEF OfferInv
  <2>3. t \in Active /\ <<t.peer, c, t.file>> \in offered'
    BY <2>1, <2>2 DEF JobsOf, Jobs, Replies, Active, Steps
  <2> HIDE DEF j, t
  <2>4. InJobs' /\ InHands'
    BY <2>1, <2>3, JobsOffers, HandsOffers DEF OfferInv
  <2>5. QED
    BY <2>1, <2>4 DEF OfferInv, OnWire, InRaising
<1>2. CASE Decline(c) \/ Received(c)
  <2>1. /\ async' = Set(async, c, Idle) /\ UNCHANGED <<raising, jobs, offered>>
        /\ Send(c, async[c].peer, Message("answer", c, 0, None)) \/ UNCHANGED channel
        /\ async[c].peer \in Clients
    BY <1>2 DEF Decline, Received, Fails, history, At, TypeOK, Idle
  <2>2. Message("answer", c, 0, None) \in NotesTo(async[c].peer, offered')
    BY DEF Message, Messages, NotesTo
  <2>3. OnWire'
    BY <2>1, <2>2, WireOffers DEF OfferInv
  <2>4. InHands'
    BY <2>1, HandsOffers, IdleWritesNothing DEF OfferInv
  <2>5. QED
    BY <2>1, <2>3, <2>4 DEF OfferInv, InRaising, InJobs
<1>3. CASE Accept(c)
  <2> DEFINE f == async[c].file
  <2>1. /\ async[c].at = "dialog" /\ async[c].peer \in Clients /\ f \in Files
        /\ UNCHANGED <<raising, jobs, offered>>
        /\ \/ Send(c, async[c].peer, Message("answer", c, Size[f], None)) /\ Goes(c, "receiving")
           \/ UNCHANGED channel /\ Goes(c, "received")
    BY <1>3 DEF Accept, Fails, At, TypeOK, Idle
  <2>2. Message("answer", c, Size[f], None) \in NotesTo(async[c].peer, offered')
    BY <2>1 DEF Message, Messages, NotesTo, Sizes
  <2> HIDE DEF f
  <2>3. OnWire'
    BY <2>1, <2>2, WireOffers DEF OfferInv
  <2>4. InHands'
    BY <2>1, HandsOffers DEF OfferInv, Writes, Steps
  <2>5. QED
    BY <2>1, <2>3, <2>4 DEF OfferInv, InRaising, InJobs
<1>4. CASE ReceiveChunk(c)
  <2>1. UNCHANGED <<channel, raising, jobs, async, offered>>
    BY <1>4 DEF ReceiveChunk, history
  <2>2. QED
    BY <2>1, QuietOfferInv
<1>5. CASE ReceiveEnds(c)
  <2>1. Goes(c, "received") /\ async[c].at = "receiving" /\ UNCHANGED <<channel, raising, jobs, offered>>
    BY <1>5 DEF ReceiveEnds, At, logic, history
  <2>2. InHands'
    BY <2>1, HandsOffers DEF OfferInv, Writes, Steps
  <2>3. QED
    BY <2>1, <2>2 DEF OfferInv, OnWire, InRaising, InJobs
<1>6. QED
  BY <1>1, <1>2, <1>3, <1>4, <1>5

LEMMA NextOfferInv == TypeOK /\ OfferInv /\ [Next]_vars => OfferInv'
<1> SUFFICES ASSUME TypeOK, OfferInv, [Next]_vars PROVE OfferInv'
  OBVIOUS
<1>1. CASE UNCHANGED vars
  BY <1>1, QuietOfferInv DEF vars, history
<1>2. ASSUME NEW c \in Clients, UIThread(c) \/ AsyncThread(c) \/ NetThread(c) \/ Leave(c)
      PROVE  OfferInv'
  BY <1>2, UIOfferInv, SendingOfferInv, ReceivingOfferInv, NetOfferInv DEF AsyncThread
<1>3. QED
  BY <1>1, <1>2 DEF Next, Rest

(* Only RunSend offers, only Received keeps.                               *)
LEMMA RunSendOffers ==
  ASSUME TypeOK, NEW c \in Clients, RunSend(c)
  PROVE  [Delivery!Next]_<<offered, kept>>
<1>1. CASE exchangingFile[c]
  BY <1>1 DEF RunSend, Abort, history
<1>2. CASE ~exchangingFile[c]
  <2>1. /\ offered' = offered \cup {<<c, toUserId[c], Head(jobs[c]).file>>}
        /\ kept' = kept /\ jobs[c] # <<>> /\ Head(jobs[c]).op = "send"
    BY <1>2 DEF RunSend, Runs
  <2>2. toUserId[c] \in Clients /\ Head(jobs[c]).file \in Files
    BY <2>1, RunTypeOK DEF TypeOK, Jobs, Replies
  <2>3. Delivery!Offer(c, toUserId[c], Head(jobs[c]).file)
    BY <2>1 DEF Delivery!Offer
  <2>4. QED
    BY <2>2, <2>3 DEF Delivery!Next
<1>3. QED
  BY <1>1, <1>2

LEMMA ReceivedKeeps ==
  ASSUME TypeOK, InHands, NEW c \in Clients, Received(c)
  PROVE  [Delivery!Next]_<<offered, kept>>
<1>1. CASE ~Matches(c)
  BY <1>1 DEF Received
<1>2. CASE Matches(c)
  <2>1. /\ kept' = [kept EXCEPT ![c] = @ \cup {<<async[c].peer, Whole[async[c].file]>>}]
        /\ offered' = offered
    BY <1>2 DEF Received, Matches, HashesEqual
  <2>2. /\ <<async[c].peer, c, async[c].file>> \in offered
        /\ async[c].peer \in Clients /\ async[c].file \in Files
    BY DEF Received, At, InHands, Writes, TypeOK, Idle
  <2>3. Delivery!Keep(async[c].peer, c, async[c].file)
    BY <2>1, <2>2 DEF Delivery!Keep
  <2>4. QED
    BY <2>2, <2>3 DEF Delivery!Next
<1>3. QED
  BY <1>1, <1>2

LEMMA NextDelivery == TypeOK /\ OfferInv /\ [Next]_vars => [Delivery!Next]_<<offered, kept>>
<1> SUFFICES ASSUME TypeOK, OfferInv, [Next]_vars PROVE [Delivery!Next]_<<offered, kept>>
  OBVIOUS
<1>1. CASE UNCHANGED vars
  BY <1>1 DEF vars, history
<1>2. ASSUME NEW c \in Clients, AsyncThread(c) PROVE [Delivery!Next]_<<offered, kept>>
  <2>0. CASE Fails(c)
    BY <2>0, FailsAborts DEF Abort, history
  <2>1. CASE RunSend(c)
    BY <2>1, RunSendOffers
  <2>2. CASE Received(c)
    BY <2>2, ReceivedKeeps DEF OfferInv
  <2>3. CASE (RunReply(c) \/ Decline(c) \/ Accept(c)) /\ ~Fails(c)
    BY <2>3 DEF RunReply, Decline, Accept, Fails, history
  <2>4. CASE (TakeAnswer(c) \/ AnswerTimesOut(c) \/ SendChunk(c) \/ SendEnds(c) \/ Sent(c)
              \/ ReceiveChunk(c) \/ ReceiveEnds(c)) /\ ~Fails(c)
    BY <2>4 DEF Fails, TakeAnswer, AnswerTimesOut, SendChunk, SendEnds, Sent, ReceiveChunk, ReceiveEnds, history
  <2>5. QED
    BY <1>2, <2>0, <2>1, <2>2, <2>3, <2>4 DEF AsyncThread
<1>3. ASSUME NEW c \in Clients, UIThread(c) \/ NetThread(c) \/ Leave(c)
      PROVE  [Delivery!Next]_<<offered, kept>>
  BY <1>3 DEF UIThread, ConversationOpened, FileChosen, NetThread, TakeRequest, RaiseFlag,
              TakeFileMessage, Leave, Abort, history
<1>4. QED
  BY <1>1, <1>2, <1>3 DEF Next, Rest

(* What is kept is a whole copy of a file that was offered to the one who  *)
(* keeps it, whatever chunks of whatever exchange arrive (net.c:1065 to    *)
(* 1112 counts them, logic.c:661 compares the hash), for any users, files, *)
(* sizes and lists. *)
THEOREM DeliveryIsImplemented == Spec => DeliveryHolds
<1>1. Init => Delivery!Init
  BY DEF Init, Delivery!Init
<1>2. QED
  BY <1>1, InitTypeOK, NextTypeOK, InitOfferInv, NextOfferInv, NextDelivery, PTL
     DEF Spec, DeliveryHolds, Delivery!Spec

-----------------------------------------------------------------------------
(* An acceptance is the answer with a size; on the wire and in the queue   *)
(* of the one it is meant for there is none that was not given.            *)

AnswersTo(c, given) ==
  {m \in Messages : m.kind = "answer" /\ m.size # 0 => <<m.from, c, m.size>> \in given}

AnswersOnWire == \A d, c \in Clients : channel[d][c] \in Seq(AnswersTo(c, accepted))
AnswersQueued == \A c \in Clients : fileExchangeMessages[c] \in Seq(AnswersTo(c, accepted))
AnswersHeeded ==
  \A c \in Clients : async[c].at = "sending" =>
    \E d \in Clients : <<d, c, Size[async[c].file]>> \in accepted

AcceptInv == AnswersOnWire /\ AnswersQueued /\ AnswersHeeded

LEMMA InitAcceptInv == Init => AcceptInv
BY DEF Init, AcceptInv, AnswersOnWire, AnswersQueued, AnswersHeeded, Idle

(* The three places again, for a step that gives an acceptance or none. *)
LEMMA WireAnswers ==
  ASSUME TypeOK, AnswersOnWire, accepted \subseteq accepted',
         \/ UNCHANGED channel
         \/ \E from, to \in Clients : \E m \in AnswersTo(to, accepted') : Send(from, to, m)
         \/ \E from, to \in Clients : channel[from][to] # <<>> /\ Taken(from, to)
  PROVE  AnswersOnWire'
<1> DEFINE S == [c \in Clients |-> AnswersTo(c, accepted)]
           T == [c \in Clients |-> AnswersTo(c, accepted')]
<1>1. \A c \in Clients : S[c] \subseteq T[c]
  BY DEF AnswersTo
<1>2. Wired /\ \A d, c \in Clients : channel[d][c] \in Seq(S[c])
  BY DEF AnswersOnWire, TypeOK, Wired
<1>3. \A c \in Clients : T[c] = AnswersTo(c, accepted')
  OBVIOUS
<1> HIDE DEF S, T
<1>4. \A d, c \in Clients : channel'[d][c] \in Seq(T[c])
  BY <1>1, <1>2, <1>3, WireKept, WireSend, WireTake
<1>5. QED
  BY <1>3, <1>4 DEF AnswersOnWire

LEMMA QueueAnswers ==
  ASSUME TypeOK, AnswersQueued, accepted \subseteq accepted', NEW c \in Clients,
         \/ UNCHANGED fileExchangeMessages
         \/ fileExchangeMessages' = Set(fileExchangeMessages, c, <<>>)
         \/ \E m \in AnswersTo(c, accepted') :
              fileExchangeMessages' = [fileExchangeMessages EXCEPT ![c] = Append(@, m)]
         \/ /\ fileExchangeMessages[c] # <<>>
            /\ fileExchangeMessages' = [fileExchangeMessages EXCEPT ![c] = Tail(@)]
  PROVE  AnswersQueued'
<1> DEFINE S == [d \in Clients |-> AnswersTo(d, accepted)]
           T == [d \in Clients |-> AnswersTo(d, accepted')]
           q == fileExchangeMessages
<1>1. \A d \in Clients : S[d] \subseteq T[d]
  BY DEF AnswersTo
<1>2. q \in [Clients -> Seq(Messages)] /\ \A d \in Clients : q[d] \in Seq(S[d])
  BY DEF AnswersQueued, TypeOK
<1>3. \A d \in Clients : T[d] = AnswersTo(d, accepted')
  OBVIOUS
<1> HIDE DEF S, T
<1>4. \A d \in Clients : q[d] \in Seq(T[d])
  BY <1>1, <1>2, QueuesKept
<1>5. CASE UNCHANGED fileExchangeMessages
  BY <1>3, <1>4, <1>5 DEF AnswersQueued
<1>6. CASE q' = Set(q, c, <<>>)
  <2>1. <<>> \in Seq(T[c])
    OBVIOUS
  <2>2. \A d \in Clients : q'[d] \in Seq(T[d])
    BY <1>2, <1>4, <1>6, <2>1 DEF Set
  <2>3. QED
    BY <1>3, <2>2 DEF AnswersQueued
<1>7. CASE \E m \in AnswersTo(c, accepted') : q' = [q EXCEPT ![c] = Append(@, m)]
  <2>1. PICK m \in T[c] : q' = [q EXCEPT ![c] = Append(@, m)]
    BY <1>3, <1>7
  <2>2. \A d \in Clients : [q EXCEPT ![c] = Append(@, m)][d] \in Seq(T[d])
    BY <1>1, <1>2, QueuesPut
  <2>3. QED
    BY <1>3, <2>1, <2>2 DEF AnswersQueued
<1>8. CASE q[c] # <<>> /\ q' = [q EXCEPT ![c] = Tail(@)]
  <2>1. \A d \in Clients : [q EXCEPT ![c] = Tail(@)][d] \in Seq(T[d])
    BY <1>1, <1>2, <1>8, QueuesTaken
  <2>2. QED
    BY <1>3, <1>8, <2>1 DEF AnswersQueued
<1>9. QED
  BY <1>5, <1>6, <1>7, <1>8

LEMMA FirstAnswerGiven ==
  ASSUME AnswersOnWire, NEW d \in Clients, NEW c \in Clients, channel[d][c] # <<>>
  PROVE  Head(channel[d][c]) \in AnswersTo(c, accepted)
BY OneLess DEF AnswersOnWire

LEMMA NextAnswerGiven ==
  ASSUME AnswersQueued, NEW c \in Clients, fileExchangeMessages[c] # <<>>
  PROVE  Head(fileExchangeMessages[c]) \in AnswersTo(c, accepted)
BY OneLess DEF AnswersQueued

(* Only TakeAnswer comes to send; while sending, the file stays the same. *)
LEMMA HandsAnswers ==
  ASSUME TypeOK, AnswersHeeded, accepted \subseteq accepted', NEW c \in Clients,
         \/ UNCHANGED async
         \/ \E step \in Steps : Goes(c, step) /\ async[c].at # "idle" /\ step # "sending"
         \/ \E t \in Active \cup {Idle} : async' = Set(async, c, t) /\ t.at # "sending"
         \/ async' = [async EXCEPT ![c].index = async[c].index + 1] /\ async[c].at = "sending"
         \/ /\ Goes(c, "sending") /\ async[c].at # "idle"
            /\ \E d \in Clients : <<d, c, Size[async[c].file]>> \in accepted
  PROVE  AnswersHeeded'
<1>1. async \in [Clients -> Active \cup {Idle}]
  BY DEF TypeOK, Active
<1>2. \A d \in Clients : async'[d] = async[d] =>
        (async'[d].at = "sending" => \E e \in Clients : <<e, d, Size[async'[d].file]>> \in accepted')
  BY DEF AnswersHeeded
<1>3. \A d \in Clients \ {c} : async'[d] = async[d]
  BY <1>1 DEF Goes, Set
<1>4. async'[c] # async[c] /\ async'[c].at = "sending"
        => \E e \in Clients : <<e, c, Size[async'[c].file]>> \in accepted'
  <2>1. CASE \E step \in Steps : Goes(c, step) /\ async[c].at # "idle" /\ step # "sending"
    BY <1>1, <2>1 DEF Goes, Active, Idle
  <2>2. CASE \E t \in Active \cup {Idle} : async' = Set(async, c, t) /\ t.at # "sending"
    BY <1>1, <2>2 DEF Set
  <2>3. CASE async' = [async EXCEPT ![c].index = async[c].index + 1] /\ async[c].at = "sending"
    <3>1. async[c] \in Active
      BY <1>1, <2>3 DEF Idle
    <3>2. async'[c].file = async[c].file
      BY <1>1, <2>3, <3>1 DEF Active
    <3>3. QED
      BY <2>3, <3>2 DEF AnswersHeeded
  <2>4. CASE /\ Goes(c, "sending") /\ async[c].at # "idle"
             /\ \E d \in Clients : <<d, c, Size[async[c].file]>> \in accepted
    <3>1. async[c] \in Active
      BY <1>1, <2>4 DEF Idle
    <3>2. async'[c].file = async[c].file
      BY <1>1, <2>4, <3>1 DEF Goes, Active
    <3>3. QED
      BY <2>4, <3>2
  <2>5. QED
    BY <2>1, <2>2, <2>3, <2>4
<1>5. QED
  BY <1>2, <1>3, <1>4 DEF AnswersHeeded

LEMMA QuietAcceptInv ==
  ASSUME TypeOK, AcceptInv, UNCHANGED <<channel, fileExchangeMessages, async, accepted>>
  PROVE  AcceptInv'
BY DEF AcceptInv, AnswersOnWire, AnswersQueued, AnswersHeeded

LEMMA AbortAcceptInv ==
  ASSUME TypeOK, AcceptInv, NEW c \in Clients, NEW assertion \in Assertions, Abort(c, assertion)
  PROVE  AcceptInv'
BY QuietAcceptInv DEF Abort, netc, history

LEMMA NetAcceptInv ==
  ASSUME TypeOK, AcceptInv, NEW c \in Clients, NetThread(c)
  PROVE  AcceptInv'
<1>0. CASE RaiseFlag(c)
  BY <1>0, QuietAcceptInv DEF RaiseFlag, history
<1> SUFFICES ASSUME ~RaiseFlag(c) PROVE AcceptInv'
  BY <1>0
<1>1. PICK d \in Clients : TakeRequest(d, c) \/ TakeFileMessage(d, c)
  BY DEF NetThread
<1> DEFINE m == Head(channel[d][c])
<1>2. channel[d][c] # <<>> /\ Taken(d, c) /\ UNCHANGED <<async, accepted>>
  BY <1>1 DEF TakeRequest, TakeFileMessage, Takes, history
<1>3. m \in AnswersTo(c, accepted')
  BY <1>2, FirstAnswerGiven DEF AcceptInv
<1>4. \/ UNCHANGED fileExchangeMessages
      \/ fileExchangeMessages' = [fileExchangeMessages EXCEPT ![c] = Append(@, m)]
  BY <1>1 DEF TakeRequest, TakeFileMessage, netc
<1> HIDE DEF m
<1>5. AnswersOnWire'
  BY <1>2, WireAnswers DEF AcceptInv
<1>6. AnswersQueued'
  BY <1>2, <1>3, <1>4, QueueAnswers DEF AcceptInv
<1>7. QED
  BY <1>2, <1>5, <1>6 DEF AcceptInv, AnswersHeeded

LEMMA SendingAcceptInv ==
  ASSUME TypeOK, AcceptInv, NEW c \in Clients,
         RunSend(c) \/ TakeAnswer(c) \/ AnswerTimesOut(c) \/ SendChunk(c) \/ SendEnds(c) \/ Sent(c)
  PROVE  AcceptInv'
<1> SUFFICES ASSUME ~Fails(c) PROVE AcceptInv'
  BY FailsAborts, AbortAcceptInv
<1>1. CASE RunSend(c)
  <2> DEFINE f == Head(jobs[c]).file
             m == Message("ask", c, Size[f], f)
             t == [at |-> "answer", peer |-> toUserId[c], file |-> f, index |-> 0]
  <2>1. CASE exchangingFile[c]
    BY <1>1, <2>1, QuietAcceptInv DEF RunSend, Abort, netc, history
  <2>2. CASE ~exchangingFile[c]
    <3>1. /\ jobs[c] # <<>> /\ Send(c, toUserId[c], m) /\ async' = Set(async, c, t)
          /\ Head(jobs[c]).op = "send" /\ UNCHANGED accepted
          /\ fileExchangeMessages' = Set(fileExchangeMessages, c, <<>>)
      BY <1>1, <2>2 DEF RunSend, Runs
    <3>2. f \in Files /\ toUserId[c] \in Clients
      BY <3>1, RunTypeOK DEF Jobs, Replies, TypeOK
    <3>3. m \in AnswersTo(toUserId[c], accepted')
      BY <3>2 DEF Message, Messages, Sizes, AnswersTo
    <3>4. t \in Active /\ t.at # "sending"
      BY <3>2 DEF Active, Steps
    <3> HIDE DEF f, m, t
    <3>5. AnswersOnWire'
      BY <3>1, <3>2, <3>3, WireAnswers DEF AcceptInv
    <3>6. AnswersQueued'
      BY <3>1, QueueAnswers DEF AcceptInv
    <3>7. AnswersHeeded'
      BY <3>1, <3>4, HandsAnswers DEF AcceptInv
    <3>8. QED
      BY <3>5, <3>6, <3>7 DEF AcceptInv
  <2>3. QED
    BY <2>1, <2>2
<1>2. CASE TakeAnswer(c) /\ Accepts(c, Head(fileExchangeMessages[c]))
  <2> DEFINE m == Head(fileExchangeMessages[c])
  <2>1. /\ fileExchangeMessages[c] # <<>> /\ async[c].at = "answer" /\ Goes(c, "sending")
        /\ fileExchangeMessages' = [fileExchangeMessages EXCEPT ![c] = Tail(@)]
        /\ UNCHANGED <<channel, accepted>>
    BY <1>2 DEF TakeAnswer, At, history
  <2>2. m \in AnswersTo(c, accepted)
    BY <2>1, NextAnswerGiven DEF AcceptInv
  <2>3. async[c].file \in Files
    BY <2>1 DEF TypeOK, Idle
  <2>4. m.kind = "answer" /\ m.size = Size[async[c].file] /\ m.size # 0 /\ m.from \in Clients
    BY <1>2, <2>2, <2>3, FilesAssumption DEF Accepts, SizeMatches, AnswersTo, Messages
  <2>5. <<m.from, c, Size[async[c].file]>> \in accepted
    BY <2>2, <2>4 DEF AnswersTo
  <2> HIDE DEF m
  <2>6. AnswersHeeded'
    BY <2>1, <2>4, <2>5, HandsAnswers DEF AcceptInv
  <2>7. AnswersQueued'
    BY <2>1, QueueAnswers DEF AcceptInv
  <2>8. QED
    BY <2>1, <2>6, <2>7 DEF AcceptInv, AnswersOnWire
<1>3. CASE \/ TakeAnswer(c) /\ ~Accepts(c, Head(fileExchangeMessages[c]))
           \/ AnswerTimesOut(c) \/ SendEnds(c)
  <2>1. /\ Goes(c, "sent") /\ async[c].at # "idle" /\ UNCHANGED <<channel, accepted>>
        /\ fileExchangeMessages' = Set(fileExchangeMessages, c, <<>>)
    BY <1>3 DEF TakeAnswer, AnswerTimesOut, StopWaiting, TimesOut, SendEnds, Fails,
                At, FinishFileExchanging, history
  <2>2. AnswersQueued'
    BY <2>1, QueueAnswers DEF AcceptInv
  <2>3. AnswersHeeded'
    BY <2>1, HandsAnswers DEF AcceptInv, Steps
  <2>4. QED
    BY <2>1, <2>2, <2>3 DEF AcceptInv, AnswersOnWire
<1>4. CASE SendChunk(c)
  <2>1. /\ async' = [async EXCEPT ![c].index = async[c].index + 1] /\ async[c].at = "sending"
        /\ UNCHANGED <<fileExchangeMessages, accepted>>
    BY <1>4 DEF SendChunk, At, netc, history
  <2>2. async[c] \in Active
    BY <2>1 DEF TypeOK, Active, Idle
  <2>3. PICK p \in PiecesOf(async[c].file) :
          Send(c, async[c].peer, Message("chunk", c, 1, <<p, toUserId[c]>>))
    BY <1>4 DEF SendChunk
  <2>4. p \in Pieces
    BY <2>2 DEF Active, Pieces
  <2>5. Message("chunk", c, 1, <<p, toUserId[c]>>) \in AnswersTo(async[c].peer, accepted')
    BY <2>4 DEF Message, Messages, AnswersTo, TypeOK
  <2>6. AnswersOnWire'
    BY <2>1, <2>2, <2>3, <2>5, WireAnswers DEF AcceptInv, Active
  <2>7. AnswersHeeded'
    BY <2>1, HandsAnswers DEF AcceptInv
  <2>8. QED
    BY <2>1, <2>6, <2>7 DEF AcceptInv, AnswersQueued
<1>5. CASE Sent(c)
  <2>1. /\ async' = Set(async, c, Idle) /\ Idle.at # "sending"
        /\ UNCHANGED <<channel, fileExchangeMessages, accepted>>
    BY <1>5 DEF Sent, netc, history, Idle
  <2>2. AnswersHeeded'
    BY <2>1, HandsAnswers DEF AcceptInv
  <2>3. QED
    BY <2>1, <2>2 DEF AcceptInv, AnswersOnWire, AnswersQueued
<1>6. QED
  BY <1>1, <1>2, <1>3, <1>4, <1>5

LEMMA ReceivingAcceptInv ==
  ASSUME TypeOK, AcceptInv, NEW c \in Clients,
         RunReply(c) \/ Decline(c) \/ Accept(c) \/ ReceiveChunk(c) \/ ReceiveEnds(c) \/ Received(c)
  PROVE  AcceptInv'
<1> SUFFICES ASSUME ~Fails(c) PROVE AcceptInv'
  BY FailsAborts, AbortAcceptInv
<1>1. CASE RunReply(c)
  <2> DEFINE j == Head(jobs[c])
             t == [at |-> "dialog", peer |-> j.peer, file |-> j.file, index |-> 0]
  <2>1. /\ jobs[c] # <<>> /\ j.op = "reply"
        /\ async' = Set(async, c, t) \/ UNCHANGED async
        /\ UNCHANGED <<channel, fileExchangeMessages, accepted>>
    BY <1>1 DEF RunReply, Runs, netc
  <2>2. j \in Jobs
    BY <2>1, RunTypeOK
  <2>3. t \in Active /\ t.at # "sending"
    BY <2>1, <2>2 DEF Jobs, Replies, Active, Steps
  <2> HIDE DEF j, t
  <2>4. AnswersHeeded'
    BY <2>1, <2>3, HandsAnswers DEF AcceptInv
  <2>5. QED
    BY <2>1, <2>4 DEF AcceptInv, AnswersOnWire, AnswersQueued
<1>2. CASE Decline(c) \/ Received(c)
  <2>1. /\ async' = Set(async, c, Idle) /\ Idle.at # "sending" /\ UNCHANGED accepted
        /\ Send(c, async[c].peer, Message("answer", c, 0, None)) \/ UNCHANGED channel
        /\ async[c].peer \in Clients
        /\ \/ fileExchangeMessages' = Set(fileExchangeMessages, c, <<>>)
           \/ UNCHANGED fileExchangeMessages
    BY <1>2 DEF Decline, Received, Fails, FinishFileExchanging, netc, history, At, TypeOK, Idle
  <2>2. Message("answer", c, 0, None) \in AnswersTo(async[c].peer, accepted')
    BY DEF Message, Messages, AnswersTo
  <2>3. AnswersOnWire'
    BY <2>1, <2>2, WireAnswers DEF AcceptInv
  <2>4. AnswersQueued'
    BY <2>1, QueueAnswers DEF AcceptInv
  <2>5. AnswersHeeded'
    BY <2>1, HandsAnswers DEF AcceptInv
  <2>6. QED
    BY <2>3, <2>4, <2>5 DEF AcceptInv
<1>3. CASE Accept(c)
  <2> DEFINE f == async[c].file
  <2>1. /\ async[c].at = "dialog" /\ async[c].peer \in Clients /\ f \in Files
        /\ fileExchangeMessages' = Set(fileExchangeMessages, c, <<>>)
        /\ \/ /\ Send(c, async[c].peer, Message("answer", c, Size[f], None)) /\ Goes(c, "receiving")
              /\ accepted' = accepted \cup {<<c, async[c].peer, Size[f]>>}
           \/ UNCHANGED <<channel, accepted>> /\ Goes(c, "received")
    BY <1>3 DEF Accept, Fails, At, TypeOK, Idle
  <2>2. accepted' = accepted \cup {<<c, async[c].peer, Size[f]>>}
          => Message("answer", c, Size[f], None) \in AnswersTo(async[c].peer, accepted')
    BY <2>1 DEF Message, Messages, AnswersTo, Sizes
  <2> HIDE DEF f
  <2>3. AnswersOnWire'
    BY <2>1, <2>2, WireAnswers DEF AcceptInv
  <2>4. AnswersQueued'
    BY <2>1, QueueAnswers DEF AcceptInv
  <2>5. AnswersHeeded'
    BY <2>1, HandsAnswers DEF AcceptInv, Steps
  <2>6. QED
    BY <2>3, <2>4, <2>5 DEF AcceptInv
<1>4. CASE ReceiveChunk(c) \/ ReceiveEnds(c)
  <2>1. /\ UNCHANGED <<channel, accepted>>
        /\ UNCHANGED async \/ (Goes(c, "received") /\ async[c].at # "idle")
        /\ \/ UNCHANGED fileExchangeMessages
           \/ fileExchangeMessages' = Set(fileExchangeMessages, c, <<>>)
           \/ /\ fileExchangeMessages[c] # <<>>
              /\ fileExchangeMessages' = [fileExchangeMessages EXCEPT ![c] = Tail(@)]
    BY <1>4 DEF ReceiveChunk, ReceiveEnds, At, FinishFileExchanging, netc, history
  <2>2. AnswersQueued'
    BY <2>1, QueueAnswers DEF AcceptInv
  <2>3. AnswersHeeded'
    BY <2>1, HandsAnswers DEF AcceptInv, Steps
  <2>4. QED
    BY <2>1, <2>2, <2>3 DEF AcceptInv, AnswersOnWire
<1>5. QED
  BY <1>1, <1>2, <1>3, <1>4

LEMMA NextAcceptInv == TypeOK /\ AcceptInv /\ [Next]_vars => AcceptInv'
<1> SUFFICES ASSUME TypeOK, AcceptInv, [Next]_vars PROVE AcceptInv'
  OBVIOUS
<1>1. CASE UNCHANGED vars
  BY <1>1, QuietAcceptInv DEF vars, netc, history
<1>2. ASSUME NEW c \in Clients, UIThread(c) \/ Leave(c) PROVE AcceptInv'
  <2>1. UNCHANGED <<channel, fileExchangeMessages, async, accepted>>
    BY <1>2 DEF UIThread, ConversationOpened, FileChosen, Leave, Abort, netc, history
  <2>2. QED
    BY <2>1, QuietAcceptInv
<1>3. ASSUME NEW c \in Clients, AsyncThread(c) \/ NetThread(c) PROVE AcceptInv'
  BY <1>3, SendingAcceptInv, ReceivingAcceptInv, NetAcceptInv DEF AsyncThread
<1>4. QED
  BY <1>1, <1>2, <1>3 DEF Next, Rest

(* Chunks are sent only after somebody's acceptance, meant for the sender, *)
(* of the size it had offered: netBeginFileExchange compares the size of   *)
(* the answer with its own (net.c:1021 to 1026), and no size is zero. *)
THEOREM AcceptanceComesFirst == Spec => []SentAfterAcceptance
<1>1. AcceptInv => SentAfterAcceptance
  BY DEF AcceptInv, AnswersHeeded, SentAfterAcceptance, At
<1>2. QED
  BY <1>1, InitTypeOK, NextTypeOK, InitAcceptInv, NextAcceptInv, PTL DEF Spec

-----------------------------------------------------------------------------
(* The file handle.  It is opened for reading before the job is queued and *)
(* for writing when the async thread is in the middle of a request; there  *)
(* is one handle, so there is at most one job that sends, and none while a *)
(* file is sent or received.                                               *)

Sends(s) == \E i \in 1..Len(s) : s[i].op = "send"
OneSends(s) == \A i, j \in 1..Len(s) : s[i].op = "send" /\ s[j].op = "send" => i = j
Sending(task) == task.at \in {"answer", "sending", "sent"}
Receiving(task) == task.at \in {"receiving", "received"}

Handle(c) ==
  /\ rwops[c] = "reading" <=> Sending(async[c]) \/ Sends(jobs[c])
  /\ rwops[c] = "writing" <=> Receiving(async[c])
  /\ OneSends(jobs[c])
  /\ Sending(async[c]) => ~Sends(jobs[c])

HandleInv == \A c \in Clients : Alive(c) => Handle(c)

LEMMA SendsAppended ==
  ASSUME NEW s \in Seq(Jobs), NEW j \in Jobs
  PROVE  /\ Sends(Append(s, j)) <=> Sends(s) \/ j.op = "send"
         /\ OneSends(s) /\ ~(Sends(s) /\ j.op = "send") => OneSends(Append(s, j))
<1>1. /\ Len(Append(s, j)) = Len(s) + 1 /\ Append(s, j)[Len(s) + 1] = j
      /\ \A i \in 1..Len(s) : Append(s, j)[i] = s[i]
      /\ Len(s) \in Nat
  OBVIOUS
<1>2. \A i \in 1..Len(s) + 1 : i \in 1..Len(s) \/ i = Len(s) + 1
  BY <1>1
<1>3. 1..Len(s) \subseteq 1..Len(s) + 1 /\ Len(s) + 1 \in 1..Len(s) + 1
  BY <1>1
<1>4. Sends(Append(s, j)) <=> Sends(s) \/ j.op = "send"
  <2>1. ASSUME Sends(Append(s, j)) PROVE Sends(s) \/ j.op = "send"
    BY <1>1, <1>2, <2>1 DEF Sends
  <2>2. ASSUME Sends(s) \/ j.op = "send" PROVE Sends(Append(s, j))
    BY <1>1, <1>3, <2>2 DEF Sends
  <2>3. QED
    BY <2>1, <2>2
<1>5. ASSUME OneSends(s), ~(Sends(s) /\ j.op = "send") PROVE OneSends(Append(s, j))
  BY <1>1, <1>2, <1>5 DEF Sends, OneSends
<1>6. QED
  BY <1>4, <1>5

LEMMA SendsTaken ==
  ASSUME NEW s \in Seq(Jobs), s # <<>>, OneSends(s)
  PROVE  /\ OneSends(Tail(s))
         /\ Head(s).op = "send" => Sends(s) /\ ~Sends(Tail(s))
         /\ Head(s).op # "send" => (Sends(Tail(s)) <=> Sends(s))
<1>1. /\ Len(s) \in Nat \ {0} /\ Len(Tail(s)) = Len(s) - 1
      /\ Head(s) = s[1] /\ \A i \in 1..Len(s) - 1 : Tail(s)[i] = s[i + 1]
  OBVIOUS
<1>2. \A i \in 1..Len(s) - 1 : i + 1 \in 1..Len(s) /\ i + 1 # 1
  BY <1>1
<1>3. 1 \in 1..Len(s)
  BY <1>1
<1>4. OneSends(Tail(s))
  <2>1. ASSUME NEW i \in 1..Len(s) - 1, NEW j \in 1..Len(s) - 1,
               Tail(s)[i].op = "send", Tail(s)[j].op = "send"
        PROVE  i = j
    <3>1. i + 1 = j + 1
      BY <1>1, <1>2, <2>1 DEF OneSends
    <3>2. QED
      BY <3>1
  <2>2. QED
    BY <1>1, <2>1 DEF OneSends
<1>5. ASSUME Head(s).op = "send" PROVE Sends(s) /\ ~Sends(Tail(s))
  <2>1. Sends(s)
    BY <1>1, <1>3, <1>5 DEF Sends
  <2>2. ASSUME NEW i \in 1..Len(s) - 1, Tail(s)[i].op = "send" PROVE FALSE
    <3>1. s[i + 1].op = "send" /\ s[1].op = "send"
      BY <1>1, <1>5, <2>2
    <3>2. i + 1 = 1
      BY <1>2, <1>3, <3>1 DEF OneSends
    <3>3. QED
      BY <1>2, <3>2
  <2>3. QED
    BY <1>1, <2>1, <2>2 DEF Sends
<1>6. ASSUME Head(s).op # "send" PROVE Sends(Tail(s)) <=> Sends(s)
  <2>1. ASSUME Sends(Tail(s)) PROVE Sends(s)
    BY <1>1, <1>2, <2>1 DEF Sends
  <2>2. ASSUME Sends(s) PROVE Sends(Tail(s))
    <3>1. PICK i \in 1..Len(s) : s[i].op = "send"
      BY <2>2 DEF Sends
    <3>2. i - 1 \in 1..Len(s) - 1 /\ (i - 1) + 1 = i
      BY <1>1, <1>6, <3>1
    <3>3. Tail(s)[i - 1].op = "send"
      BY <1>1, <3>1, <3>2
    <3>4. QED
      BY <1>1, <3>2, <3>3 DEF Sends
  <2>3. QED
    BY <2>1, <2>2
<1>7. QED
  BY <1>4, <1>5, <1>6

LEMMA InitHandleInv == Init => HandleInv
BY DEF Init, HandleInv, Handle, Sends, OneSends, Sending, Receiving, Idle

(* A step of one client leaves the others' handle, jobs and thread alone,  *)
(* and nobody comes back. *)
Others(c) ==
  /\ \A d \in Clients \ {c} : rwops'[d] = rwops[d] /\ jobs'[d] = jobs[d] /\ async'[d] = async[d]
  /\ \A d \in Clients : Alive(d)' => Alive(d)

LEMMA HandleOf ==
  ASSUME HandleInv, NEW c \in Clients, Others(c), Alive(c)' => Handle(c)'
  PROVE  HandleInv'
BY DEF HandleInv, Handle, Others

LEMMA AbortHandle ==
  ASSUME TypeOK, HandleInv, NEW c \in Clients,
         NEW assertion \in Assertions, Abort(c, assertion)
  PROVE  HandleInv'
<1>1. UNCHANGED <<rwops, jobs, async, gone>> /\ failed' = [failed EXCEPT ![c] = assertion]
  BY DEF Abort, logic, users
<1>2. \A d \in Clients : Alive(d)' => Alive(d)
  BY <1>1 DEF Alive, TypeOK, Assertions
<1>3. QED
  BY <1>1, <1>2 DEF HandleInv, Handle

LEMMA QuietHandle ==
  ASSUME HandleInv, UNCHANGED <<rwops, jobs, async, failed, gone>>
  PROVE  HandleInv'
BY DEF HandleInv, Handle, Alive

(* What a client that keeps running does to its handle. *)
LEMMA StepHandle ==
  ASSUME TypeOK, HandleInv, NEW c \in Clients, UNCHANGED <<failed, gone>>,
         \A d \in Clients \ {c} : rwops'[d] = rwops[d] /\ jobs'[d] = jobs[d] /\ async'[d] = async[d],
         Handle(c)'
  PROVE  HandleInv'
BY HandleOf DEF Others, Alive

LEMMA UIHandle ==
  ASSUME TypeOK, HandleInv, NEW c \in Clients, UIThread(c) \/ Leave(c)
  PROVE  HandleInv'
<1>1. ASSUME NEW d \in Clients, ConversationOpened(c, d) PROVE HandleInv'
  BY <1>1, QuietHandle DEF ConversationOpened, users
<1>2. ASSUME NEW f \in Files, FileChosen(c, f) PROVE HandleInv'
  <2>1. CASE rwops[c] = "closed"
    <3> DEFINE s == Append(jobs[c], Job("send", None, f))
    <3>1. /\ Alive(c) /\ UNCHANGED <<failed, gone, async>>
          /\ rwops' = [rwops EXCEPT ![c] = "reading"] /\ jobs' = [jobs EXCEPT ![c] = s]
      BY <1>2, <2>1 DEF FileChosen, Set, users
    <3>2. /\ Handle(c) /\ jobs[c] \in Seq(Jobs)
          /\ Job("send", None, f) \in Jobs /\ Job("send", None, f).op = "send"
      BY <3>1 DEF HandleInv, TypeOK, Job, Jobs
    <3>3. ~Sends(jobs[c]) /\ OneSends(jobs[c]) /\ ~Sending(async[c]) /\ ~Receiving(async[c])
      BY <2>1, <3>2 DEF Handle
    <3>4. OneSends(s) /\ Sends(s)
      BY <3>2, <3>3, SendsAppended
    <3> HIDE DEF s
    <3>5. /\ rwops'[c] = "reading" /\ jobs'[c] = s /\ async'[c] = async[c]
          /\ \A d \in Clients \ {c} : rwops'[d] = rwops[d] /\ jobs'[d] = jobs[d] /\ async'[d] = async[d]
      BY <3>1 DEF TypeOK
    <3>6. Handle(c)'
      BY <3>3, <3>4, <3>5 DEF Handle
    <3>7. QED
      BY <3>1, <3>5, <3>6, StepHandle
  <2>2. CASE rwops[c] # "closed"
    BY <1>2, <2>2, AbortHandle DEF FileChosen, Assertions
  <2>3. QED
    BY <2>1, <2>2
<1>3. CASE Leave(c)
  <2>1. CASE rwops[c] = "closed"
    BY <1>3, <2>1 DEF Leave, logic, HandleInv, Handle, Alive
  <2>2. CASE rwops[c] # "closed"
    BY <1>3, <2>2, AbortHandle DEF Leave, Assertions
  <2>3. QED
    BY <2>1, <2>2
<1>4. QED
  BY <1>1, <1>2, <1>3 DEF UIThread

LEMMA NetHandle ==
  ASSUME TypeOK, HandleInv, NEW c \in Clients, NetThread(c)
  PROVE  HandleInv'
<1>1. ASSUME NEW d \in Clients, TakeRequest(d, c) \/ TakeFileMessage(d, c) PROVE HandleInv'
  BY <1>1, QuietHandle DEF TakeRequest, TakeFileMessage, logic, users
<1>2. CASE RaiseFlag(c)
  <2> DEFINE s == Append(jobs[c], raising[c])
  <2>1. /\ Alive(c) /\ UNCHANGED <<rwops, async, failed, gone>>
        /\ jobs' = [jobs EXCEPT ![c] = s] /\ raising[c] # None
    BY <1>2 DEF RaiseFlag, logic, users
  <2>2. /\ raising[c] \in Jobs /\ raising[c].op = "reply"
        /\ jobs[c] \in Seq(Jobs) /\ Handle(c)
    BY <2>1 DEF Jobs, Replies, TypeOK, HandleInv
  <2>3. (Sends(s) <=> Sends(jobs[c])) /\ OneSends(s)
    BY <2>2, SendsAppended DEF Handle
  <2> HIDE DEF s
  <2>4. /\ rwops'[c] = rwops[c] /\ jobs'[c] = s /\ async'[c] = async[c]
        /\ \A e \in Clients \ {c} : rwops'[e] = rwops[e] /\ jobs'[e] = jobs[e] /\ async'[e] = async[e]
    BY <2>1 DEF TypeOK
  <2>5. Handle(c)'
    BY <2>2, <2>3, <2>4 DEF Handle
  <2>6. QED
    BY <2>1, <2>4, <2>5, StepHandle
<1>3. QED
  BY <1>1, <1>2 DEF NetThread

(* The async thread between the steps of its queue: the jobs stay. *)
LEMMA AsyncHandle ==
  ASSUME TypeOK, HandleInv, NEW c \in Clients, Alive(c), UNCHANGED <<failed, gone, jobs>>,
         \/ /\ UNCHANGED rwops
            /\ \/ UNCHANGED async
               \/ Goes(c, "sending") /\ Sending(async[c])
               \/ Goes(c, "sent") /\ Sending(async[c])
               \/ Goes(c, "received") /\ Receiving(async[c])
               \/ async[c].at = "sending" /\ async' = [async EXCEPT ![c].index = async[c].index + 1]
               \/ async[c].at = "dialog" /\ async' = Set(async, c, Idle)
         \/ /\ rwops[c] = "closed" /\ rwops' = Set(rwops, c, "writing")
            /\ Goes(c, "receiving") \/ Goes(c, "received")
            /\ async[c].at = "dialog"
         \/ /\ rwops' = Set(rwops, c, "closed") /\ async' = Set(async, c, Idle)
            /\ async[c].at \in {"sent", "received"}
  PROVE  HandleInv'
<1>1. async[c] \in Active \cup {Idle} /\ rwops[c] \in {"closed", "reading", "writing"}
  BY DEF TypeOK, Active
<1>2. Handle(c)
  BY DEF HandleInv
<1>3. \A d \in Clients \ {c} : rwops'[d] = rwops[d] /\ jobs'[d] = jobs[d] /\ async'[d] = async[d]
  BY DEF TypeOK, Set, Goes
<1>4. Handle(c)'
  <2>1. /\ rwops'[c] = "reading" <=> Sending(async'[c]) \/ Sends(jobs[c])
        /\ rwops'[c] = "writing" <=> Receiving(async'[c])
        /\ Sending(async'[c]) => ~Sends(jobs[c])
    BY <1>1, <1>2 DEF Handle, Sending, Receiving, Goes, Set, TypeOK, Active, Idle
  <2>2. QED
    BY <1>2, <2>1 DEF Handle
<1>5. QED
  BY <1>3, <1>4, StepHandle

LEMMA SendingHandle ==
  ASSUME TypeOK, HandleInv, NEW c \in Clients,
         RunSend(c) \/ TakeAnswer(c) \/ AnswerTimesOut(c) \/ SendChunk(c) \/ SendEnds(c) \/ Sent(c)
  PROVE  HandleInv'
<1> SUFFICES ASSUME ~Fails(c) PROVE HandleInv'
  BY FailsAborts, AbortHandle
<1>1. CASE RunSend(c) /\ ~exchangingFile[c]
  <2> DEFINE s == Tail(jobs[c])
  <2>1. /\ Alive(c) /\ UNCHANGED <<failed, gone, rwops>> /\ jobs[c] # <<>> /\ Head(jobs[c]).op = "send"
        /\ jobs' = [jobs EXCEPT ![c] = s]
        /\ \A d \in Clients \ {c} : async'[d] = async[d]
        /\ Sending(async'[c]) /\ ~Receiving(async'[c])
    BY <1>1 DEF RunSend, Runs, At, Pop, Set, Sending, Receiving, logic, users, TypeOK
  <2>2. Handle(c) /\ jobs[c] \in Seq(Jobs)
    BY <2>1 DEF HandleInv, TypeOK
  <2>3. OneSends(s) /\ Sends(jobs[c]) /\ ~Sends(s)
    BY <2>1, <2>2, SendsTaken DEF Handle
  <2> HIDE DEF s
  <2>4. /\ rwops'[c] = rwops[c] /\ jobs'[c] = s
        /\ \A d \in Clients \ {c} : rwops'[d] = rwops[d] /\ jobs'[d] = jobs[d] /\ async'[d] = async[d]
    BY <2>1 DEF TypeOK
  <2>5. Handle(c)'
    BY <2>1, <2>2, <2>3, <2>4 DEF Handle
  <2>6. QED
    BY <2>1, <2>4, <2>5, StepHandle
<1>2. CASE RunSend(c) /\ exchangingFile[c]
  BY <1>2, AbortHandle DEF RunSend, Assertions
<1>3. CASE TakeAnswer(c) \/ AnswerTimesOut(c) \/ SendEnds(c)
  <2>1. /\ Alive(c) /\ UNCHANGED <<failed, gone, jobs, rwops>> /\ Sending(async[c])
        /\ Goes(c, "sending") \/ Goes(c, "sent")
    BY <1>3 DEF TakeAnswer, AnswerTimesOut, SendEnds, Fails, StopWaiting, TimesOut, At, Sending, logic, users
  <2>2. QED
    BY <2>1, AsyncHandle
<1>4. CASE SendChunk(c)
  <2>1. /\ Alive(c) /\ UNCHANGED <<failed, gone, jobs, rwops>> /\ async[c].at = "sending"
        /\ async' = [async EXCEPT ![c].index = async[c].index + 1]
    BY <1>4 DEF SendChunk, At, logic, users
  <2>2. QED
    BY <2>1, AsyncHandle
<1>5. CASE Sent(c)
  <2>1. /\ Alive(c) /\ UNCHANGED <<failed, gone, jobs>> /\ async[c].at = "sent"
        /\ rwops' = Set(rwops, c, "closed") /\ async' = Set(async, c, Idle)
    BY <1>5 DEF Sent, CloseFile, Close, At, users
  <2>2. QED
    BY <2>1, AsyncHandle
<1>6. QED
  BY <1>1, <1>2, <1>3, <1>4, <1>5

LEMMA ReceivingHandle ==
  ASSUME TypeOK, HandleInv, NEW c \in Clients,
         RunReply(c) \/ Decline(c) \/ Accept(c) \/ ReceiveChunk(c) \/ ReceiveEnds(c) \/ Received(c)
  PROVE  HandleInv'
<1> SUFFICES ASSUME ~Fails(c) PROVE HandleInv'
  BY FailsAborts, AbortHandle
<1>1. CASE RunReply(c)
  <2> DEFINE s == Tail(jobs[c])
  <2>1. /\ Alive(c) /\ UNCHANGED <<failed, gone, rwops>> /\ jobs[c] # <<>> /\ Head(jobs[c]).op = "reply"
        /\ jobs' = [jobs EXCEPT ![c] = s]
        /\ \A d \in Clients \ {c} : async'[d] = async[d]
        /\ ~Sending(async[c]) /\ ~Receiving(async[c])
        /\ ~Sending(async'[c]) /\ ~Receiving(async'[c])
    BY <1>1 DEF RunReply, Runs, At, Pop, Set, Sending, Receiving, logic, users, TypeOK
  <2>2. Handle(c) /\ jobs[c] \in Seq(Jobs)
    BY <2>1 DEF HandleInv, TypeOK
  <2>3. OneSends(s) /\ (Sends(s) <=> Sends(jobs[c]))
    BY <2>1, <2>2, SendsTaken DEF Handle
  <2> HIDE DEF s
  <2>4. /\ rwops'[c] = rwops[c] /\ jobs'[c] = s
        /\ \A d \in Clients \ {c} : rwops'[d] = rwops[d] /\ jobs'[d] = jobs[d] /\ async'[d] = async[d]
    BY <2>1 DEF TypeOK
  <2>5. Handle(c)'
    BY <2>1, <2>2, <2>3, <2>4 DEF Handle
  <2>6. QED
    BY <2>1, <2>4, <2>5, StepHandle
<1>2. CASE Decline(c)
  <2>1. /\ Alive(c) /\ UNCHANGED <<failed, gone, jobs, rwops>> /\ async[c].at = "dialog"
        /\ async' = Set(async, c, Idle)
    BY <1>2 DEF Decline, Fails, At, logic, users
  <2>2. QED
    BY <2>1, AsyncHandle
<1>3. CASE Accept(c)
  <2>1. /\ Alive(c) /\ rwops[c] = "closed" /\ UNCHANGED <<failed, gone, jobs>> /\ async[c].at = "dialog"
        /\ rwops' = Set(rwops, c, "writing")
        /\ Goes(c, "receiving") \/ Goes(c, "received")
    BY <1>3 DEF Accept, Fails, At, users
  <2>2. QED
    BY <2>1, AsyncHandle
<1>4. CASE ReceiveChunk(c)
  <2>1. UNCHANGED <<rwops, jobs, async, gone>>
    BY <1>4 DEF ReceiveChunk, users
  <2>2. UNCHANGED failed \/ failed' = [failed EXCEPT ![c] = "chunk"]
    BY <1>4 DEF ReceiveChunk
  <2>3. \A d \in Clients : Alive(d)' => Alive(d)
    BY <2>1, <2>2 DEF Alive, TypeOK
  <2>4. QED
    BY <2>1, <2>3 DEF HandleInv, Handle
<1>5. CASE ReceiveEnds(c)
  <2>1. /\ Alive(c) /\ UNCHANGED <<failed, gone, jobs, rwops>> /\ Receiving(async[c])
        /\ Goes(c, "received")
    BY <1>5 DEF ReceiveEnds, At, Receiving, logic, users
  <2>2. QED
    BY <2>1, AsyncHandle
<1>6. CASE Received(c)
  <2>1. /\ Alive(c) /\ UNCHANGED <<failed, gone, jobs>> /\ async[c].at = "received"
        /\ rwops' = Set(rwops, c, "closed") /\ async' = Set(async, c, Idle)
    BY <1>6 DEF Received, CloseFile, Close, At, users
  <2>2. QED
    BY <2>1, AsyncHandle
<1>7. QED
  BY <1>1, <1>2, <1>3, <1>4, <1>5, <1>6

LEMMA NextHandleInv == TypeOK /\ HandleInv /\ [Next]_vars => HandleInv'
<1> SUFFICES ASSUME TypeOK, HandleInv, [Next]_vars PROVE HandleInv'
  OBVIOUS
<1>1. CASE UNCHANGED vars
  BY <1>1, QuietHandle DEF vars, logic, users
<1>2. ASSUME NEW c \in Clients, UIThread(c) \/ AsyncThread(c) \/ NetThread(c) \/ Leave(c)
      PROVE  HandleInv'
  BY <1>2, UIHandle, SendingHandle, ReceivingHandle, NetHandle DEF AsyncThread
<1>3. QED
  BY <1>1, <1>2 DEF Next, Rest

(* A file is open to be read exactly while its job is queued or sends it,  *)
(* to be written exactly while something is received, on every way out of  *)
(* beginFileExchange and replyToFileExchangeRequest: the one rwops of      *)
(* logic.c is never left open, nor closed under the job that uses it. *)
THEOREM HandleIsForItsJob == Spec => []OpenForItsJob
<1>1. ASSUME TypeOK, HandleInv PROVE OpenForItsJob
  <2>1. \A c \in Clients : Sends(jobs[c]) <=> \E j \in Range(jobs[c]) : j.op = "send"
    <3> SUFFICES ASSUME NEW c \in Clients
                 PROVE  Sends(jobs[c]) <=> \E j \in Range(jobs[c]) : j.op = "send"
      OBVIOUS
    <3>1. DOMAIN jobs[c] = 1..Len(jobs[c])
      BY <1>1 DEF TypeOK
    <3>2. QED
      BY <3>1 DEF Sends, Range
  <2>2. QED
    BY <1>1, <2>1 DEF HandleInv, Handle, OpenForItsJob, Sending, Receiving
<1>2. QED
  BY <1>1, InitTypeOK, NextTypeOK, InitHandleInv, NextHandleInv, PTL DEF Spec
=============================================================================
