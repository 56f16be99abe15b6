------------------------- MODULE MessageFetch_proofs -------------------------
(***************************************************************************)
(* Catching up, for any users, any lists of conversations and any number   *)
(* of log ins, refreshes and messages: types, that replies come only when  *)
(* they are waited for, and that nothing but what was ignored is missed    *)
(* for good; with at most one conversation also that no second request is  *)
(* made while one is out, no message is stored twice and the counts agree. *)
(***************************************************************************)
EXTENDS MessageFetch, WellFoundedInduction, TLAPS

-----------------------------------------------------------------------------
(* Sequences: what is in them, and what is behind what.                    *)

(* Of any two elements, the one in front is in R with the one behind. *)
Ordered(s, R) == \A i, k \in 1..Len(s) : i < k => <<s[i], s[k]>> \in R

LEMMA InRange ==
  ASSUME NEW S, NEW s \in Seq(S), NEW e
  PROVE  e \in Range(s) <=> \E i \in 1..Len(s) : e = s[i]
<1>1. DOMAIN s = 1..Len(s)
  OBVIOUS
<1>2. e \in Range(s) <=> \E i \in DOMAIN s : e = s[i]
  BY DEF Range
<1>3. QED
  BY <1>1, <1>2

LEMMA Nothing == Range(<<>>) = {} /\ \A R : Ordered(<<>>, R)
BY DEF Range, Ordered

LEMMA Single ==
  ASSUME NEW S, NEW m \in S
  PROVE  <<m>> \in Seq(S) /\ Range(<<m>>) = {m} /\ \A R : Ordered(<<m>>, R)
<1>1. DOMAIN <<m>> = {1} /\ Len(<<m>>) = 1 /\ <<m>>[1] = m
  OBVIOUS
<1>2. Range(<<m>>) = {m}
  BY <1>1 DEF Range
<1>3. \A R : Ordered(<<m>>, R)
  BY <1>1 DEF Ordered
<1>4. QED
  BY <1>2, <1>3

LEMMA Joined ==
  ASSUME NEW S, NEW s \in Seq(S), NEW t \in Seq(S)
  PROVE  /\ s \o t \in Seq(S) /\ Range(s \o t) = Range(s) \cup Range(t)
         /\ \A R : Ordered(s, R) /\ Ordered(t, R) /\ (\A a \in Range(s), b \in Range(t) : <<a, b>> \in R)
                     => Ordered(s \o t, R)
<1> DEFINE u == s \o t
<1>0. u \in Seq(S)
  OBVIOUS
<1>1. /\ Len(u) = Len(s) + Len(t) /\ Len(s) \in Nat /\ Len(t) \in Nat
      /\ \A i \in 1..Len(s) : u[i] = s[i]
      /\ \A i \in 1..Len(t) : u[Len(s) + i] = t[i]
  OBVIOUS
<1> HIDE DEF u
<1>2. /\ \A i \in 1..Len(u) :
           i \in 1..Len(s) \/ (i - Len(s) \in 1..Len(t) /\ Len(s) + (i - Len(s)) = i)
      /\ \A i \in 1..Len(s) : i \in 1..Len(u)
      /\ \A i \in 1..Len(t) : Len(s) + i \in 1..Len(u)
  BY <1>1
<1>3. ASSUME NEW i \in 1..Len(u), i \notin 1..Len(s)
      PROVE  u[i] = t[i - Len(s)] /\ i - Len(s) \in 1..Len(t)
  BY <1>1, <1>2, <1>3
<1>4. ASSUME NEW e PROVE e \in Range(u) <=> e \in Range(s) \cup Range(t)
  <2>1. e \in Range(u) <=> \E i \in 1..Len(u) : e = u[i]
    BY <1>0, InRange
  <2>2. e \in Range(s) <=> \E i \in 1..Len(s) : e = s[i]
    BY InRange
  <2>3. e \in Range(t) <=> \E i \in 1..Len(t) : e = t[i]
    BY InRange
  <2>4. ASSUME e \in Range(u) PROVE e \in Range(s) \cup Range(t)
    <3>1. PICK i \in 1..Len(u) : e = u[i]
      BY <2>1, <2>4
    <3>2. QED
      BY <1>1, <1>3, <2>2, <2>3, <3>1
  <2>5. ASSUME e \in Range(s) \cup Range(t) PROVE e \in Range(u)
    BY <1>1, <1>2, <2>1, <2>2, <2>3, <2>5
  <2>6. QED
    BY <2>4, <2>5
<1>5. ASSUME NEW R, Ordered(s, R), Ordered(t, R), \A a \in Range(s), b \in Range(t) : <<a, b>> \in R
      PROVE  Ordered(u, R)
  <2> SUFFICES ASSUME NEW i \in 1..Len(u), NEW k \in 1..Len(u), i < k PROVE <<u[i], u[k]>> \in R
    BY DEF Ordered
  <2>1. CASE i \in 1..Len(s) /\ k \in 1..Len(s)
    BY <1>1, <1>5, <2>1 DEF Ordered
  <2>2. CASE i \in 1..Len(s) /\ k \notin 1..Len(s)
    <3>1. u[i] = s[i] /\ s[i] \in Range(s)
      BY <1>1, <2>2, InRange
    <3>2. u[k] \in Range(t)
      BY <1>3, <2>2, InRange
    <3>3. QED
      BY <1>5, <3>1, <3>2
  <2>3. CASE i \notin 1..Len(s)
    <3>1. k \notin 1..Len(s) /\ i - Len(s) < k - Len(s)
      BY <1>1, <2>3
    <3>2. QED
      BY <1>3, <1>5, <2>3, <3>1 DEF Ordered
  <2>4. QED
    BY <2>1, <2>2, <2>3
<1>6. QED
  BY <1>0, <1>4, <1>5 DEF u

LEMMA OneMore ==
  ASSUME NEW S, NEW s \in Seq(S), NEW m \in S
  PROVE  /\ Append(s, m) \in Seq(S) /\ Range(Append(s, m)) = Range(s) \cup {m}
         /\ \A R : Ordered(s, R) /\ (\A a \in Range(s) : <<a, m>> \in R) => Ordered(Append(s, m), R)
<1>1. Append(s, m) = s \o <<m>>
  OBVIOUS
<1>2. <<m>> \in Seq(S) /\ Range(<<m>>) = {m} /\ \A R : Ordered(<<m>>, R)
  BY Single
<1> DEFINE t == <<m>>
<1>3. /\ t \in Seq(S) /\ Range(t) = {m} /\ (\A R : Ordered(t, R)) /\ Append(s, m) = s \o t
  BY <1>1, <1>2
<1> HIDE DEF t
<1>4. /\ s \o t \in Seq(S) /\ Range(s \o t) = Range(s) \cup Range(t)
      /\ \A R : Ordered(s, R) /\ Ordered(t, R) /\ (\A a \in Range(s), b \in Range(t) : <<a, b>> \in R)
                  => Ordered(s \o t, R)
  BY <1>3, Joined
<1>5. QED
  BY <1>3, <1>4

LEMMA OneLess ==
  ASSUME NEW S, NEW s \in Seq(S), s # <<>>
  PROVE  /\ Tail(s) \in Seq(S) /\ Head(s) \in S /\ Head(s) \in Range(s)
         /\ Range(s) = {Head(s)} \cup Range(Tail(s))
         /\ \A R : Ordered(s, R) => /\ Ordered(Tail(s), R)
                                    /\ \A b \in Range(Tail(s)) : <<Head(s), b>> \in R
<1> DEFINE t == Tail(s)
<1>1. /\ t \in Seq(S) /\ Head(s) \in S /\ Len(s) \in Nat \ {0} /\ Len(t) = Len(s) - 1
      /\ Head(s) = s[1] /\ \A i \in 1..Len(t) : t[i] = s[i + 1]
  OBVIOUS
<1> HIDE DEF t
<1>2. /\ 1 \in 1..Len(s) /\ \A i \in 1..Len(t) : i + 1 \in 1..Len(s) /\ 1 < i + 1
      /\ \A i \in 1..Len(s) : i = 1 \/ (i - 1 \in 1..Len(t) /\ (i - 1) + 1 = i)
  BY <1>1
<1>3. ASSUME NEW e PROVE e \in Range(s) <=> e = Head(s) \/ e \in Range(t)
  <2>1. e \in Range(t) <=> \E i \in 1..Len(t) : e = t[i]
    BY <1>1, InRange
  <2>2. e \in Range(s) <=> \E i \in 1..Len(s) : e = s[i]
    BY InRange
  <2>3. ASSUME NEW i \in 1..Len(s), i # 1 PROVE s[i] = t[i - 1] /\ i - 1 \in 1..Len(t)
    BY <1>1, <1>2, <2>3
  <2>4. ASSUME e \in Range(s) PROVE e = Head(s) \/ e \in Range(t)
    <3>1. PICK i \in 1..Len(s) : e = s[i]
      BY <2>2, <2>4
    <3>2. QED
      BY <1>1, <2>1, <2>3, <3>1
  <2>5. ASSUME e = Head(s) \/ e \in Range(t) PROVE e \in Range(s)
    BY <1>1, <1>2, <2>1, <2>2, <2>5
  <2>6. QED
    BY <2>4, <2>5
<1>4. ASSUME NEW R, Ordered(s, R)
      PROVE  Ordered(t, R) /\ \A b \in Range(t) : <<Head(s), b>> \in R
  <2>1. ASSUME NEW i \in 1..Len(t), NEW k \in 1..Len(t), i < k PROVE <<t[i], t[k]>> \in R
    <3>1. i + 1 < k + 1 /\ i + 1 \in 1..Len(s) /\ k + 1 \in 1..Len(s)
      BY <1>1, <1>2, <2>1
    <3>2. QED
      BY <1>1, <1>4, <3>1 DEF Ordered
  <2>2. ASSUME NEW b \in Range(t) PROVE <<Head(s), b>> \in R
    <3>1. PICK k \in 1..Len(t) : b = t[k]
      BY <1>1, InRange
    <3>2. <<s[1], s[k + 1]>> \in R
      BY <1>2, <1>4 DEF Ordered
    <3>3. QED
      BY <1>1, <3>1, <3>2
  <2>3. QED
    BY <2>1, <2>2 DEF Ordered
<1>5. QED
  BY <1>1, <1>3, <1>4 DEF t

(* A set of times that is not empty has a latest one. *)
LEMMA Latest ==
  ASSUME NEW n \in Nat, NEW T \in SUBSET (0..n), T # {}
  PROVE  Max(T) \in T /\ \A t \in T : t <= Max(T)
<1> DEFINE Sooner == {n - t : t \in T}
<1>1. Sooner \subseteq Nat /\ Sooner # {}
  OBVIOUS
<1>2. PICK x \in Sooner : \A y \in Sooner : ~(<<y, x>> \in OpToRel(<, Nat))
  BY <1>1, NatLessThanWellFounded, WFMin
<1>3. \A y \in Sooner : ~(y < x)
  BY <1>1, <1>2 DEF OpToRel
<1>4. PICK m \in T : x = n - m
  OBVIOUS
<1>5. \A t \in T : m >= t
  BY <1>3, <1>4
<1>6. \E u \in T : \A t \in T : u >= t
  BY <1>5
<1>7. QED
  BY <1>6 DEF Max

-----------------------------------------------------------------------------
(* Types, with what they rest on: the server keeps no more messages than   *)
(* were sent, in order.                                                    *)

Before == {pair \in Times \X Times : pair[1] < pair[2]}
MailInv ==
  \A p \in Peers : /\ Len(mailbox[p]) <= now
                   /\ \A t \in Range(mailbox[p]) : t <= now
                   /\ Ordered(mailbox[p], Before)

Base == TypeOK /\ MailInv

(* The types, in parts. *)
ServerTypes ==
  /\ withConversation \in Lists /\ now \in Times /\ mailbox \in [Peers -> Seq(Times)]
  /\ request \in Requests \cup {None} /\ toClient \in Seq(Replies)
NetTypes ==
  /\ connected \in BOOLEAN /\ fetchingUsers \in BOOLEAN
  /\ fetchingMessages \in BOOLEAN /\ ignoreUsualMessages \in BOOLEAN
  /\ net \in {"idle", "usersDone", "compare", "messagesDone"}
FetchTypes == missingMessagesFetchers \in Nat /\ userIdsToFetchMessagesFrom \in Seq(Peers)
PageTypes ==
  /\ listed \in BOOLEAN /\ page \in {"logIn", "users"} /\ allowInput \in BOOLEAN
  /\ logIns \in 0..MaxLogIns /\ updates \in 0..MaxUpdates
JobTypes == jobs \in Seq(Jobs) /\ asking \in Peers \cup {None}
StoreTypes == stored \in [Peers -> SUBSET Times] /\ own \in [Peers -> SUBSET Times]
PastTypes == dropped \in [Peers -> SUBSET Times] /\ since \in Times /\ refused \in BOOLEAN /\ failed \in Asserts
Typed ==
  /\ ServerTypes /\ NetTypes /\ FetchTypes /\ PageTypes /\ JobTypes /\ StoreTypes /\ PastTypes

LEMMA TypedMeans == (TypeOK <=> Typed) /\ (TypeOK' <=> Typed')
<1>1. TypeOK <=> Typed
  BY DEF TypeOK, Typed, ServerTypes, NetTypes, FetchTypes, PageTypes, JobTypes, StoreTypes, PastTypes
<1>2. TypeOK' <=> Typed'
  BY DEF TypeOK, Typed, ServerTypes, NetTypes, FetchTypes, PageTypes, JobTypes, StoreTypes, PastTypes
<1>3. QED
  BY <1>1, <1>2

LEMMA JobsTyped ==
  /\ \A op \in {"logIn", "fetchUsers", "processUsers"} :
       Job(op, None, 0) \in Jobs /\ Job(op, None, 0).op = op
  /\ \A op \in {"fetchMessages", "send"}, p \in Peers : Job(op, p, 0) \in Jobs /\ Job(op, p, 0).op = op
  /\ \A p \in Peers, t \in Times :
       /\ Job("received", p, t) \in Jobs /\ Job("received", p, t).op = "received"
       /\ Job("received", p, t).peer = p /\ Job("received", p, t).time = t
  /\ \A j \in Jobs : /\ j.op \in {"fetchMessages", "send", "received"} => j.peer \in Peers
                     /\ j.op = "received" => j.time \in Times
                     /\ j.op = "received" => j = Job("received", j.peer, j.time)
BY DEF Jobs, Job

LEMMA RepliesTyped ==
  /\ \A kind \in {"loggedIn", "users", "error"} : Reply(kind, None, 0, 0) \in Replies /\ Reply(kind, None, 0, 0).kind = kind
  /\ \A p \in Peers, t \in Times :
       /\ Reply("live", p, t, 0) \in Replies /\ Reply("live", p, t, 0).kind = "live"
       /\ Reply("live", p, t, 0).peer = p /\ Reply("live", p, t, 0).time = t
  /\ \A p \in Peers, t \in Times, more \in Times :
       /\ Reply("fetched", p, t, more) \in Replies /\ Reply("fetched", p, t, more).kind = "fetched"
       /\ Reply("fetched", p, t, more).peer = p /\ Reply("fetched", p, t, more).time = t
       /\ Reply("fetched", p, t, more).more = more
  /\ \A p \in Peers : Reply("nothing", p, 0, 0) \in Replies /\ Reply("nothing", p, 0, 0).kind = "nothing"
  /\ \A r \in Replies : /\ r.kind \in {"live", "fetched", "nothing"} => r.peer \in Peers
                        /\ r.time \in Times /\ r.more \in Times
                        /\ r.kind # "fetched" => r.more = 0
                        /\ r.kind \in {"loggedIn", "users", "error", "live", "fetched", "nothing"}
<1>1. 0 \in Times
  BY BoundsAssumption DEF Times
<1>2. QED
  BY <1>1 DEF Replies, Reply

LEMMA RecentTyped ==
  ASSUME Typed, NEW p \in Peers
  PROVE  /\ MostRecent(p) \in Times
         /\ \A t \in stored[p] \cup own[p] : t <= MostRecent(p)
<1> DEFINE T == stored[p] \cup own[p] \cup {0}
<1>1. T \in SUBSET (0..MaxTime) /\ T # {} /\ MaxTime \in Nat
  BY BoundsAssumption DEF Typed, StoreTypes, Times
<1>2. Max(T) \in T /\ \A t \in T : t <= Max(T)
  BY <1>1, Latest
<1>3. QED
  BY <1>1, <1>2 DEF MostRecent, Times

(* Asked for is what is younger than all that is there and than the        *)
(* earliest time there may be.                                             *)
LEMMA AskedTyped ==
  ASSUME Typed, NEW p \in Peers
  PROVE  /\ AsksAfter(p) \in Times /\ MostRecent(p) <= AsksAfter(p)
         /\ AsksAfter(p) = MostRecent(p) \/ AsksAfter(p) = MinimalPossibleTimestamp
         /\ \A t \in stored[p] \cup own[p] : t <= AsksAfter(p)
<1> DEFINE T == {MostRecent(p), MinimalPossibleTimestamp}
<1>1. T \in SUBSET (0..MaxTime) /\ T # {} /\ MaxTime \in Nat /\ MostRecent(p) \in T
  BY RecentTyped, BoundsAssumption DEF MinimalPossibleTimestamp, ConversationTimestamp, Times
<1>2. Max(T) \in T /\ \A t \in T : t <= Max(T)
  BY <1>1, Latest
<1>3. /\ AsksAfter(p) \in 0..MaxTime /\ MostRecent(p) \in 0..MaxTime /\ MostRecent(p) <= AsksAfter(p)
      /\ AsksAfter(p) \in T
  BY <1>1, <1>2 DEF AsksAfter
<1>4. ASSUME NEW t \in stored[p] \cup own[p] PROVE t <= AsksAfter(p)
  <2>1. t \in 0..MaxTime /\ t <= MostRecent(p)
    BY <1>4, RecentTyped DEF Typed, StoreTypes, Times
  <2>2. QED
    BY <1>1, <1>3, <2>1
<1>5. QED
  BY <1>3, <1>4 DEF Times

(* The answer to a request for messages: there are none, or those after    *)
(* the first k, in order, with how many are to follow.                     *)
LEMMA AnswerIs ==
  ASSUME Base, NEW p \in Peers, NEW k \in 0..Len(mailbox[p])
  PROVE  /\ AnswerFrom(p, k) \in Seq(Replies)
         /\ \/ AnswerFrom(p, k) = <<Reply("nothing", p, 0, 0)>>
            \/ /\ Len(mailbox[p]) - k \in Nat /\ Len(AnswerFrom(p, k)) = Len(mailbox[p]) - k
               /\ \A i \in 1..Len(AnswerFrom(p, k)) :
                    /\ k + i \in 1..Len(mailbox[p]) /\ mailbox[p][k + i] \in Times
                    /\ Len(mailbox[p]) - k - i \in Times
                    /\ AnswerFrom(p, k)[i]
                         = Reply("fetched", p, mailbox[p][k + i], Len(mailbox[p]) - k - i)
<1> DEFINE new == Len(mailbox[p]) - k
<1>1. /\ mailbox[p] \in Seq(Times) /\ Len(mailbox[p]) \in Nat /\ Len(mailbox[p]) <= MaxTime
      /\ MaxTime \in Nat /\ new \in Nat /\ k \in Nat
  BY TypedMeans, BoundsAssumption DEF Base, MailInv, Typed, ServerTypes, Times
<1>2. CASE new = 0
  <2>1. AnswerFrom(p, k) = <<Reply("nothing", p, 0, 0)>>
    BY <1>2 DEF AnswerFrom
  <2>2. QED
    BY <2>1, RepliesTyped, Single
<1>3. CASE new # 0
  <2> DEFINE a == [i \in 1..new |-> Reply("fetched", p, mailbox[p][k + i], new - i)]
  <2>1. AnswerFrom(p, k) = a
    BY <1>3 DEF AnswerFrom
  <2>2. ASSUME NEW i \in 1..new
        PROVE  k + i \in 1..Len(mailbox[p]) /\ mailbox[p][k + i] \in Times /\ new - i \in Times
    <3>1. k + i \in 1..Len(mailbox[p]) /\ new - i \in 0..MaxTime
      BY <1>1
    <3>2. QED
      BY <1>1, <3>1 DEF Times
  <2>3. \A i \in 1..new : Reply("fetched", p, mailbox[p][k + i], new - i) \in Replies
    BY <2>2, RepliesTyped
  <2>4. a \in Seq(Replies) /\ Len(a) = new /\ DOMAIN a = 1..new
    BY <1>1, <2>3
  <2>5. QED
    BY <1>1, <2>1, <2>2, <2>4
<1>4. QED
  BY <1>2, <1>3

LEMMA InitBase == Init => Base
<1> SUFFICES ASSUME Init PROVE Base
  OBVIOUS
<1>1. MaxTime \in Nat /\ 0 \in Times /\ now \in Times /\ 0 \in 0..MaxLogIns /\ 0 \in 0..MaxUpdates
  BY BoundsAssumption DEF Init, MinimalPossibleTimestamp, ConversationTimestamp, Times
<1>2. <<>> \in Seq(Replies) /\ <<>> \in Seq(Peers) /\ <<>> \in Seq(Jobs) /\ <<>> \in Seq(Times)
  OBVIOUS
<1>3. ServerTypes /\ NetTypes /\ FetchTypes
  BY <1>1, <1>2 DEF Init, ServerTypes, NetTypes, FetchTypes
<1>4. PageTypes /\ JobTypes /\ StoreTypes /\ PastTypes
  BY <1>1, <1>2 DEF Init, PageTypes, JobTypes, StoreTypes, PastTypes, Asserts
<1>5. MailInv
  <2> SUFFICES ASSUME NEW p \in Peers
               PROVE  Len(mailbox[p]) <= now /\ Range(mailbox[p]) = {} /\ Ordered(mailbox[p], Before)
    BY DEF MailInv
  <2>1. mailbox[p] = <<>> /\ 0 <= now
    BY DEF Init, MinimalPossibleTimestamp, ConversationTimestamp
  <2>2. QED
    BY <2>1, Nothing
<1>6. QED
  BY <1>3, <1>4, <1>5, TypedMeans DEF Base, Typed

LEMMA AbortBase ==
  ASSUME Base, NEW a \in Asserts, Abort(a)
  PROVE  Base'
<1>1. UNCHANGED <<server, netc, fetch, listed, ui, jobs, asking, net, store, past>> /\ failed' = a
  BY DEF Abort
<1>2. Typed'
  BY <1>1, TypedMeans
     DEF Base, Typed, ServerTypes, NetTypes, FetchTypes, PageTypes, JobTypes, StoreTypes, PastTypes,
         server, netc, fetch, ui, store, past
<1>3. MailInv'
  BY <1>1 DEF Base, MailInv, server
<1>4. QED
  BY <1>2, <1>3, TypedMeans DEF Base

(* The users and the jobs that only log in. *)
LEMMA UserBase == ASSUME Base, UIThread \/ RunLogIn \/ Disconnected PROVE Base'
<1>0. Typed /\ MailInv
  BY TypedMeans DEF Base
<1>1. ASSUME NEW j \in Jobs, Push(j) PROVE jobs' \in Seq(Jobs)
  BY <1>0, <1>1, OneMore DEF Push, Typed, JobTypes
<1>2. ASSUME LogInClicked PROVE Base'
  <2>1. jobs' \in Seq(Jobs)
    BY <1>1, <1>2, JobsTyped DEF LogInClicked
  <2>2. logIns' \in 0..MaxLogIns
    BY <1>0, <1>2, BoundsAssumption DEF LogInClicked, Typed, PageTypes
  <2>3. (ServerTypes /\ NetTypes /\ FetchTypes /\ PageTypes /\ JobTypes /\ StoreTypes /\ PastTypes)'
    BY <1>0, <1>2, <2>1, <2>2
       DEF LogInClicked, Typed, ServerTypes, NetTypes, FetchTypes, PageTypes, JobTypes, StoreTypes, PastTypes,
           server, netc, fetch, store, past
  <2>4. MailInv'
    BY <1>0, <1>2 DEF LogInClicked, MailInv, server
  <2>5. QED
    BY <2>3, <2>4, TypedMeans DEF Base, Typed
<1>3. ASSUME UpdateClicked PROVE Base'
  <2>1. CASE Abort("updateUsersList")
    BY <2>1, AbortBase DEF Asserts
  <2>2. CASE ~Abort("updateUsersList")
    <3>1. /\ updates < MaxUpdates /\ updates' = updates + 1 /\ allowInput' = FALSE /\ listed' = FALSE
          /\ Push(Job("fetchUsers", None, 0))
          /\ UNCHANGED <<server, netc, fetch, page, logIns, asking, net, store, past, failed>>
      BY <1>3, <2>2 DEF UpdateClicked
    <3>2. jobs' \in Seq(Jobs)
      BY <1>1, <3>1, JobsTyped
    <3>3. updates' \in 0..MaxUpdates
      BY <1>0, <3>1, BoundsAssumption DEF Typed, PageTypes
    <3>4. (ServerTypes /\ NetTypes /\ FetchTypes /\ PageTypes /\ JobTypes /\ StoreTypes /\ PastTypes)'
      BY <1>0, <3>1, <3>2, <3>3
         DEF Typed, ServerTypes, NetTypes, FetchTypes, PageTypes, JobTypes, StoreTypes, PastTypes,
             server, netc, fetch, store, past
    <3>5. MailInv'
      BY <1>0, <3>1 DEF MailInv, server
    <3>6. QED
      BY <3>4, <3>5, TypedMeans DEF Base, Typed
  <2>3. QED
    BY <2>1, <2>2
<1>4. ASSUME NEW p \in Peers, SendClicked(p) PROVE Base'
  <2>1. jobs' \in Seq(Jobs)
    BY <1>1, <1>4, JobsTyped DEF SendClicked
  <2>2. (ServerTypes /\ NetTypes /\ FetchTypes /\ PageTypes /\ JobTypes /\ StoreTypes /\ PastTypes)'
    BY <1>0, <1>4, <2>1
       DEF SendClicked, Typed, ServerTypes, NetTypes, FetchTypes, PageTypes, JobTypes, StoreTypes, PastTypes,
           server, netc, fetch, ui, store, past
  <2>3. MailInv'
    BY <1>0, <1>4 DEF SendClicked, MailInv, server
  <2>4. QED
    BY <2>2, <2>3, TypedMeans DEF Base, Typed
<1>5. ASSUME RunLogIn PROVE Base'
  <2>1. jobs # <<>> /\ jobs' = Tail(jobs)
    BY <1>5 DEF RunLogIn, Runs, Pop
  <2>2. jobs' \in Seq(Jobs)
    BY <1>0, <2>1, OneLess DEF Typed, JobTypes
  <2>3. toClient' \in Seq(Replies)
    <3>1. toClient' = <<Reply("loggedIn", None, 0, 0)>> \/ toClient' = toClient
      BY <1>5 DEF RunLogIn
    <3>2. Reply("loggedIn", None, 0, 0) \in Replies
      BY RepliesTyped
    <3>3. <<Reply("loggedIn", None, 0, 0)>> \in Seq(Replies)
      BY <3>2
    <3>4. QED
      BY <1>0, <3>1, <3>3 DEF Typed, ServerTypes
  <2>4. NetTypes' /\ allowInput' \in BOOLEAN /\ since' \in Times
    BY <1>0, <1>5 DEF RunLogIn, netc, Typed, NetTypes, PageTypes, PastTypes, ServerTypes
  <2>5. (ServerTypes /\ FetchTypes /\ PageTypes /\ JobTypes /\ StoreTypes /\ PastTypes)'
    BY <1>0, <1>5, <2>2, <2>3, <2>4
       DEF RunLogIn, Typed, ServerTypes, FetchTypes, PageTypes, JobTypes, StoreTypes, PastTypes, fetch, store
  <2>6. MailInv'
    BY <1>0, <1>5 DEF RunLogIn, MailInv
  <2>7. QED
    BY <2>4, <2>5, <2>6, TypedMeans DEF Base, Typed
<1>6. ASSUME Disconnected PROVE Base'
  <2>1. <<>> \in Seq(Replies)
    OBVIOUS
  <2>2. (ServerTypes /\ NetTypes /\ FetchTypes /\ PageTypes /\ JobTypes /\ StoreTypes /\ PastTypes)'
    BY <1>0, <1>6, <2>1
       DEF Disconnected, Typed, ServerTypes, NetTypes, FetchTypes, PageTypes, JobTypes, StoreTypes, PastTypes,
           fetch, store
  <2>3. MailInv'
    BY <1>0, <1>6 DEF Disconnected, MailInv
  <2>4. QED
    BY <2>2, <2>3, TypedMeans DEF Base, Typed
<1>7. QED
  BY <1>2, <1>3, <1>4, <1>5, <1>6 DEF UIThread

LEMMA AsyncBase ==
  ASSUME Base, \/ RunFetchUsers \/ RunProcessUsers \/ RunFetchMessages
               \/ AskForMessages \/ RunReceived \/ RunSend
  PROVE  Base'
<1>0. Typed /\ MailInv
  BY TypedMeans DEF Base
<1>1. ASSUME NEW op, Runs(op), Pop
      PROVE  /\ jobs' \in Seq(Jobs) /\ Head(jobs) \in Jobs /\ Head(jobs).op = op
  BY <1>0, <1>1, OneLess DEF Runs, Pop, Typed, JobTypes
<1>2. ASSUME RunFetchUsers PROVE Base'
  <2>1. CASE Abort("netFetchUsers")
    BY <2>1, AbortBase DEF Asserts
  <2>2. CASE ~Abort("netFetchUsers")
    <3>1. /\ Runs("fetchUsers") /\ Pop /\ fetchingUsers' = TRUE /\ request' = Request(None, 0)
          /\ UNCHANGED <<withConversation, now, mailbox, toClient, connected, fetchingMessages,
                         ignoreUsualMessages, fetch, listed, ui, asking, net, store, past, failed>>
      BY <1>2, <2>2 DEF RunFetchUsers
    <3>2. request' \in Requests
      BY <3>1 DEF Request, Requests
    <3>3. jobs' \in Seq(Jobs)
      BY <1>1, <3>1
    <3>4. (ServerTypes /\ NetTypes /\ FetchTypes /\ PageTypes /\ JobTypes /\ StoreTypes /\ PastTypes)'
      BY <1>0, <3>1, <3>2, <3>3
         DEF Typed, ServerTypes, NetTypes, FetchTypes, PageTypes, JobTypes, StoreTypes, PastTypes,
             fetch, ui, store, past
    <3>5. MailInv'
      BY <1>0, <3>1 DEF MailInv
    <3>6. QED
      BY <3>4, <3>5, TypedMeans DEF Base, Typed
  <2>3. QED
    BY <2>1, <2>2
<1>3. ASSUME RunProcessUsers PROVE Base'
  <2>1. CASE Abort("processFetchedUsers")
    BY <2>1, AbortBase DEF Asserts
  <2>2. CASE ~Abort("processFetchedUsers")
    <3>1. /\ Runs("processUsers") /\ Pop /\ listed' = TRUE /\ page' = "users"
          /\ IF withConversation = <<>>
               THEN /\ userIdsToFetchMessagesFrom' = <<>>
                    /\ ignoreUsualMessages' = FALSE
                    /\ allowInput' = TRUE
                    /\ UNCHANGED <<missingMessagesFetchers, asking>>
               ELSE /\ userIdsToFetchMessagesFrom' = Tail(withConversation)
                    /\ missingMessagesFetchers' = 1
                    /\ asking' = Head(withConversation)
                    /\ HoldsControls
                    /\ UNCHANGED ignoreUsualMessages
          /\ UNCHANGED <<server, connected, fetchingUsers, fetchingMessages, logIns, updates,
                         net, store, past, failed>>
      BY <1>3, <2>2 DEF RunProcessUsers
    <3>2. jobs' \in Seq(Jobs)
      BY <1>1, <3>1
    <3>3. /\ userIdsToFetchMessagesFrom' \in Seq(Peers) /\ missingMessagesFetchers' \in Nat
          /\ asking' \in Peers \cup {None}
          /\ allowInput' \in BOOLEAN /\ ignoreUsualMessages' \in BOOLEAN
      <4>1. CASE withConversation = <<>>
        <5>1. <<>> \in Seq(Peers)
          OBVIOUS
        <5>2. QED
          BY <1>0, <3>1, <4>1, <5>1 DEF Typed, FetchTypes, JobTypes
      <4>2. CASE withConversation # <<>>
        <5>1. Tail(withConversation) \in Seq(Peers) /\ Head(withConversation) \in Peers
          BY <1>0, <4>2, ListsAssumption, OneLess DEF Typed, ServerTypes
        <5>2. allowInput' = allowInput
          BY <3>1, <4>2 DEF HoldsControls, KeepsControls
        <5>3. QED
          BY <1>0, <3>1, <4>2, <5>1, <5>2 DEF Typed, NetTypes, PageTypes
      <4>3. QED
        BY <4>1, <4>2
    <3>4. (ServerTypes /\ NetTypes /\ FetchTypes /\ PageTypes /\ JobTypes /\ StoreTypes /\ PastTypes)'
      BY <1>0, <3>1, <3>2, <3>3
         DEF Typed, ServerTypes, NetTypes, FetchTypes, PageTypes, JobTypes, StoreTypes, PastTypes,
             server, store, past
    <3>5. MailInv'
      BY <1>0, <3>1 DEF MailInv, server
    <3>6. QED
      BY <3>4, <3>5, TypedMeans DEF Base, Typed
  <2>3. QED
    BY <2>1, <2>2
<1>4. ASSUME RunFetchMessages PROVE Base'
  <2>1. jobs' \in Seq(Jobs) /\ Head(jobs).peer \in Peers
    BY <1>1, <1>4, JobsTyped DEF RunFetchMessages
  <2>2. (ServerTypes /\ NetTypes /\ FetchTypes /\ PageTypes /\ JobTypes /\ StoreTypes /\ PastTypes)'
    BY <1>0, <1>4, <2>1
       DEF RunFetchMessages, Typed, ServerTypes, NetTypes, FetchTypes, PageTypes, JobTypes, StoreTypes, PastTypes,
           server, netc, ui, store, past
  <2>3. MailInv'
    BY <1>0, <1>4 DEF RunFetchMessages, MailInv, server
  <2>4. QED
    BY <2>2, <2>3, TypedMeans DEF Base, Typed
<1>5. ASSUME AskForMessages PROVE Base'
  <2>1. CASE Abort("netFetchMessages") \/ Abort("fetchMissingMessages")
    BY <2>1, AbortBase DEF Asserts
  <2>2. CASE ~(Abort("netFetchMessages") \/ Abort("fetchMissingMessages"))
    <3>1. /\ asking # None /\ fetchingMessages' = TRUE
          /\ request' = Request(asking, AsksAfter(asking)) /\ asking' = None
          /\ UNCHANGED <<withConversation, now, mailbox, toClient, connected, fetchingUsers,
                         ignoreUsualMessages, fetch, listed, ui, jobs, net, store, past, failed>>
      BY <1>5, <2>2 DEF AskForMessages
    <3>2. asking \in Peers
      BY <1>0, <3>1 DEF Typed, JobTypes
    <3>3. request' \in Requests
      BY <1>0, <3>1, <3>2, AskedTyped DEF Request, Requests
    <3>4. (ServerTypes /\ NetTypes /\ FetchTypes /\ PageTypes /\ JobTypes /\ StoreTypes /\ PastTypes)'
      BY <1>0, <3>1, <3>3
         DEF Typed, ServerTypes, NetTypes, FetchTypes, PageTypes, JobTypes, StoreTypes, PastTypes,
             fetch, ui, store, past
    <3>5. MailInv'
      BY <1>0, <3>1 DEF MailInv
    <3>6. QED
      BY <3>4, <3>5, TypedMeans DEF Base, Typed
  <2>3. QED
    BY <2>1, <2>2
<1>6. ASSUME RunReceived PROVE Base'
  <2>1. CASE Abort("listBinarySearch") \/ Abort("databaseAddMessage")
    BY <2>1, AbortBase DEF Asserts
  <2>2. CASE ~(Abort("listBinarySearch") \/ Abort("databaseAddMessage"))
    <3>1. /\ Runs("received") /\ Pop
          /\ stored' = [stored EXCEPT ![Head(jobs).peer] = @ \cup {Head(jobs).time}]
          /\ UNCHANGED <<server, netc, fetch, listed, ui, asking, net, own, past, failed>>
      BY <1>6, <2>2 DEF RunReceived
    <3>2. jobs' \in Seq(Jobs) /\ Head(jobs).peer \in Peers /\ Head(jobs).time \in Times
      BY <1>1, <3>1, JobsTyped
    <3>3. StoreTypes'
      BY <1>0, <3>1, <3>2 DEF Typed, StoreTypes
    <3>4. (ServerTypes /\ NetTypes /\ FetchTypes /\ PageTypes /\ JobTypes /\ PastTypes)'
      BY <1>0, <3>1, <3>2
         DEF Typed, ServerTypes, NetTypes, FetchTypes, PageTypes, JobTypes, PastTypes,
             server, netc, fetch, ui, past
    <3>5. MailInv'
      BY <1>0, <3>1 DEF MailInv, server
    <3>6. QED
      BY <3>3, <3>4, <3>5, TypedMeans DEF Base, Typed
  <2>3. QED
    BY <2>1, <2>2
<1>7. ASSUME RunSend PROVE Base'
  <2>1. CASE Abort("sendMessage")
    BY <2>1, AbortBase DEF Asserts
  <2>2. CASE ~Abort("sendMessage")
    <3>1. /\ Runs("send") /\ Pop
          /\ \/ /\ now < MaxTime /\ now' = now + 1
                /\ own' = [own EXCEPT ![Head(jobs).peer] = @ \cup {now + 1}]
             \/ UNCHANGED <<now, own>>
          /\ UNCHANGED <<withConversation, mailbox, request, toClient, netc, fetch, listed, ui, asking,
                         net, stored, past, failed>>
      BY <1>7, <2>2 DEF RunSend, server, store
    <3>2. jobs' \in Seq(Jobs) /\ Head(jobs).peer \in Peers
      BY <1>1, <3>1, JobsTyped
    <3>3. now \in Nat /\ now' \in Times /\ now <= now' /\ (now' = now + 1 => now + 1 \in Times)
      BY <1>0, <3>1, BoundsAssumption DEF Typed, ServerTypes, Times
    <3>4. StoreTypes'
      BY <1>0, <3>1, <3>2, <3>3 DEF Typed, StoreTypes
    <3>5. (ServerTypes /\ NetTypes /\ FetchTypes /\ PageTypes /\ JobTypes /\ PastTypes)'
      BY <1>0, <3>1, <3>2, <3>3
         DEF Typed, ServerTypes, NetTypes, FetchTypes, PageTypes, JobTypes, PastTypes,
             netc, fetch, ui, past
    <3>6. MailInv'
      <4>1. mailbox' = mailbox /\ now' \in Nat
        BY <3>1, <3>3, BoundsAssumption DEF Times
      <4> SUFFICES ASSUME NEW p \in Peers
                   PROVE  /\ Len(mailbox[p]) <= now' /\ Ordered(mailbox[p], Before)
                          /\ \A t \in Range(mailbox[p]) : t <= now'
        BY <4>1 DEF MailInv
      <4>2. mailbox[p] \in Seq(Times) /\ Len(mailbox[p]) \in Nat /\ \A t \in Range(mailbox[p]) : t \in Nat
        BY <1>0, InRange, BoundsAssumption DEF Typed, ServerTypes, Times
      <4>3. QED
        BY <1>0, <3>3, <4>1, <4>2 DEF MailInv
    <3>7. QED
      BY <3>4, <3>5, <3>6, TypedMeans DEF Base, Typed
  <2>3. QED
    BY <2>1, <2>2
<1>8. QED
  BY <1>2, <1>3, <1>4, <1>5, <1>6, <1>7

(* The net thread and the server. *)
LEMMA NetBase == ASSUME Base, NetThread PROVE Base'
<1>0. Typed /\ MailInv
  BY TypedMeans DEF Base
<1>1. ASSUME NEW kind, Takes(kind)
      PROVE  /\ toClient # <<>> /\ Tail(toClient) \in Seq(Replies)
             /\ Head(toClient) \in Replies /\ Head(toClient).kind = kind
  BY <1>0, <1>1, OneLess DEF Takes, Typed, ServerTypes
<1>2. ASSUME NEW j \in Jobs, Push(j) PROVE jobs' \in Seq(Jobs)
  BY <1>0, <1>2, OneMore DEF Push, Typed, JobTypes
<1>3. ASSUME LoggedIn PROVE Base'
  <2>1. toClient' \in Seq(Replies) /\ jobs' \in Seq(Jobs)
    BY <1>1, <1>2, <1>3, JobsTyped DEF LoggedIn, Taken
  <2>2. (ServerTypes /\ NetTypes /\ FetchTypes /\ PageTypes /\ JobTypes /\ StoreTypes /\ PastTypes)'
    BY <1>0, <1>3, <2>1
       DEF LoggedIn, Typed, ServerTypes, NetTypes, FetchTypes, PageTypes, JobTypes, StoreTypes, PastTypes,
           netc, fetch, ui, store, past
  <2>3. MailInv'
    BY <1>0, <1>3 DEF LoggedIn, MailInv
  <2>4. QED
    BY <2>2, <2>3, TypedMeans DEF Base, Typed
<1>4. ASSUME LiveMessage PROVE Base'
  <2> DEFINE m == Head(toClient)
  <2>1. m \in Replies /\ m.peer \in Peers /\ m.time \in Times /\ toClient' \in Seq(Replies)
    BY <1>1, <1>4, RepliesTyped DEF LiveMessage, Taken
  <2>2. /\ \/ Push(Job("received", m.peer, m.time)) /\ dropped' = dropped
           \/ jobs' = jobs /\ dropped' = [dropped EXCEPT ![m.peer] = @ \cup {m.time}]
        /\ UNCHANGED <<withConversation, now, mailbox, request, netc, fetch, listed, ui, asking, net,
                       store, since, refused, failed>>
    BY <1>4 DEF LiveMessage
  <2> HIDE DEF m
  <2>3. jobs' \in Seq(Jobs)
    BY <1>0, <1>2, <2>1, <2>2, JobsTyped DEF Typed, JobTypes
  <2>4. dropped' \in [Peers -> SUBSET Times]
    BY <1>0, <2>1, <2>2 DEF Typed, PastTypes
  <2>5. (ServerTypes /\ NetTypes /\ FetchTypes /\ PageTypes /\ JobTypes /\ StoreTypes /\ PastTypes)'
    BY <1>0, <2>1, <2>2, <2>3, <2>4
       DEF Typed, ServerTypes, NetTypes, FetchTypes, PageTypes, JobTypes, StoreTypes, PastTypes,
           netc, fetch, ui, store
  <2>6. MailInv'
    BY <1>0, <2>2 DEF MailInv
  <2>7. QED
    BY <2>5, <2>6, TypedMeans DEF Base, Typed
<1>5. ASSUME UsersFetched PROVE Base'
  <2>1. toClient' \in Seq(Replies) /\ jobs' \in Seq(Jobs)
    BY <1>1, <1>2, <1>5, JobsTyped DEF UsersFetched, Taken
  <2>2. (ServerTypes /\ NetTypes /\ FetchTypes /\ PageTypes /\ JobTypes /\ StoreTypes /\ PastTypes)'
    BY <1>0, <1>5, <2>1
       DEF UsersFetched, Typed, ServerTypes, NetTypes, FetchTypes, PageTypes, JobTypes, StoreTypes, PastTypes,
           netc, fetch, ui, store, past
  <2>3. MailInv'
    BY <1>0, <1>5 DEF UsersFetched, MailInv
  <2>4. QED
    BY <2>2, <2>3, TypedMeans DEF Base, Typed
<1>6. ASSUME UsersDone \/ MessagesDone PROVE Base'
  <2>1. (ServerTypes /\ NetTypes /\ FetchTypes /\ PageTypes /\ JobTypes /\ StoreTypes /\ PastTypes)'
    BY <1>0, <1>6
       DEF UsersDone, MessagesDone, Typed, ServerTypes, NetTypes, FetchTypes, PageTypes, JobTypes,
           StoreTypes, PastTypes, server, fetch, ui, store, past
  <2>2. MailInv'
    BY <1>0, <1>6 DEF UsersDone, MessagesDone, MailInv, server
  <2>3. QED
    BY <2>1, <2>2, TypedMeans DEF Base, Typed
<1>7. ASSUME NextMessageFetched PROVE Base'
  <2> DEFINE m == Head(toClient)
  <2>1. /\ Takes("fetched") \/ Takes("nothing")
        /\ UNCHANGED <<withConversation, now, mailbox, request, netc, listed, ui, asking, store, past>>
        /\ \/ /\ jobs' = jobs \o ReceivedJobs(m) /\ Taken
              /\ UNCHANGED <<fetch, net, failed>>
           \/ /\ missingMessagesFetchers > 0
              /\ jobs' = jobs \o ReceivedJobs(m) \o NextFetch /\ Taken
              /\ missingMessagesFetchers' = missingMessagesFetchers - 1
              /\ userIdsToFetchMessagesFrom' =
                   IF userIdsToFetchMessagesFrom = <<>> THEN <<>> ELSE Tail(userIdsToFetchMessagesFrom)
              /\ net' = "compare"
              /\ UNCHANGED failed
           \/ /\ failed' = "missingMessagesFetchers"
              /\ UNCHANGED <<toClient, fetch, jobs, net>>
    BY <1>7 DEF NextMessageFetched
  <2>2. m \in Replies /\ m.peer \in Peers /\ m.time \in Times /\ Tail(toClient) \in Seq(Replies)
    <3>1. m \in Replies /\ m.kind \in {"fetched", "nothing"} /\ Tail(toClient) \in Seq(Replies)
      BY <1>1, <2>1
    <3>2. QED
      BY <3>1, RepliesTyped
  <2> HIDE DEF m
  <2>3. toClient' \in Seq(Replies)
    BY <1>0, <2>1, <2>2 DEF Taken, Typed, ServerTypes
  <2>4. ReceivedJobs(m) \in Seq(Jobs)
    <3>1. CASE m.kind = "fetched"
      BY <2>2, <3>1, JobsTyped, Single DEF ReceivedJobs
    <3>2. CASE m.kind # "fetched"
      BY <3>2 DEF ReceivedJobs
    <3>3. QED
      BY <3>1, <3>2
  <2>5. NextFetch \in Seq(Jobs)
    <3>1. CASE userIdsToFetchMessagesFrom = <<>>
      BY <3>1 DEF NextFetch
    <3>2. CASE userIdsToFetchMessagesFrom # <<>>
      <4>1. Head(userIdsToFetchMessagesFrom) \in Peers
        BY <1>0, <3>2, OneLess DEF Typed, FetchTypes
      <4>2. QED
        BY <3>2, <4>1, JobsTyped, Single DEF NextFetch
    <3>3. QED
      BY <3>1, <3>2
  <2>6. jobs' \in Seq(Jobs)
    <3>1. jobs \in Seq(Jobs)
      BY <1>0 DEF Typed, JobTypes
    <3>2. /\ jobs \o ReceivedJobs(m) \in Seq(Jobs)
          /\ jobs \o ReceivedJobs(m) \o NextFetch \in Seq(Jobs)
      BY <2>4, <2>5, <3>1, Joined
    <3>3. QED
      BY <2>1, <3>1, <3>2
  <2>7. (FetchTypes)'
    <3>1. userIdsToFetchMessagesFrom' \in Seq(Peers)
      <4>1. /\ userIdsToFetchMessagesFrom \in Seq(Peers)
            /\ userIdsToFetchMessagesFrom # <<>> => Tail(userIdsToFetchMessagesFrom) \in Seq(Peers)
        BY <1>0, OneLess DEF Typed, FetchTypes
      <4>2. QED
        BY <2>1, <4>1 DEF fetch
    <3>2. missingMessagesFetchers' \in Nat
      BY <1>0, <2>1 DEF fetch, Typed, FetchTypes
    <3>3. QED
      BY <3>1, <3>2 DEF FetchTypes
  <2>8. (ServerTypes /\ NetTypes /\ PageTypes /\ JobTypes /\ StoreTypes /\ PastTypes)'
    BY <1>0, <2>1, <2>3, <2>6
       DEF Typed, ServerTypes, NetTypes, PageTypes, JobTypes, StoreTypes, PastTypes,
           netc, ui, store, past, Asserts
  <2>9. MailInv'
    BY <1>0, <2>1 DEF MailInv
  <2>10. QED
    BY <2>7, <2>8, <2>9, TypedMeans DEF Base, Typed
<1>8. ASSUME Compare PROVE Base'
  <2>1. CASE Abort("fetchersMatch")
    BY <2>1, AbortBase DEF Asserts
  <2>2. CASE ~Abort("fetchersMatch")
    <3>1. /\ net' = "messagesDone"
          /\ \/ UNCHANGED <<ignoreUsualMessages, allowInput>>
             \/ ignoreUsualMessages' = FALSE /\ allowInput' = TRUE
          /\ UNCHANGED <<server, connected, fetchingUsers, fetchingMessages, fetch, listed,
                         page, logIns, updates, jobs, asking, store, past, failed>>
      BY <1>8, <2>2 DEF Compare, Release, FinishFetching
    <3>2. ignoreUsualMessages' \in BOOLEAN /\ allowInput' \in BOOLEAN
      BY <1>0, <3>1 DEF Typed, NetTypes, PageTypes
    <3>3. (ServerTypes /\ NetTypes /\ FetchTypes /\ PageTypes /\ JobTypes /\ StoreTypes /\ PastTypes)'
      BY <1>0, <3>1, <3>2
         DEF Typed, ServerTypes, NetTypes, FetchTypes, PageTypes, JobTypes, StoreTypes, PastTypes,
             server, fetch, store, past
    <3>4. MailInv'
      BY <1>0, <3>1 DEF MailInv, server
    <3>5. QED
      BY <3>3, <3>4, TypedMeans DEF Base, Typed
  <2>3. QED
    BY <2>1, <2>2
<1>9. ASSUME ErrorReceived PROVE Base'
  <2>1. toClient' \in Seq(Replies) /\ now \in Times
    BY <1>0, <1>1, <1>9 DEF ErrorReceived, Taken, Typed, ServerTypes
  <2>2. (ServerTypes /\ NetTypes /\ FetchTypes /\ PageTypes /\ JobTypes /\ StoreTypes /\ PastTypes)'
    BY <1>0, <1>9, <2>1
       DEF ErrorReceived, Typed, ServerTypes, NetTypes, FetchTypes, PageTypes, JobTypes, StoreTypes, PastTypes,
           netc, fetch, store
  <2>3. MailInv'
    BY <1>0, <1>9 DEF ErrorReceived, MailInv
  <2>4. QED
    BY <2>2, <2>3, TypedMeans DEF Base, Typed
<1>10. QED
  BY <1>3, <1>4, <1>5, <1>6, <1>7, <1>8, <1>9 DEF NetThread

LEMMA ServerBase ==
  ASSUME Base, ServerAnswers \/ ServerRefuses \/ \E p \in Peers : PeerSends(p)
  PROVE  Base'
<1>0. Typed /\ MailInv
  BY TypedMeans DEF Base
<1>1. ASSUME ServerAnswers PROVE Base'
  <2>1. /\ request # None /\ request' = None
        /\ UNCHANGED <<withConversation, now, mailbox, netc, fetch, listed, ui, jobs, asking, net,
                       store, past, failed>>
    BY <1>1 DEF ServerAnswers
  <2>2. toClient' \in Seq(Replies)
    <3>1. CASE request.peer = None
      <4>1. PICK kind \in {"users", "error"} : toClient' = Append(toClient, Reply(kind, None, 0, 0))
        BY <1>1, <3>1 DEF ServerAnswers
      <4>2. Reply(kind, None, 0, 0) \in Replies /\ toClient \in Seq(Replies)
        BY <1>0, RepliesTyped DEF Typed, ServerTypes
      <4>3. QED
        BY <4>1, <4>2, OneMore
    <3>2. CASE request.peer # None
      <4>1. PICK k \in 0..Len(mailbox[request.peer]) : toClient' = toClient \o AnswerFrom(request.peer, k)
        BY <1>1, <3>2 DEF ServerAnswers
      <4>2. request.peer \in Peers /\ toClient \in Seq(Replies)
        BY <1>0, <2>1, <3>2 DEF Typed, ServerTypes, Requests
      <4>3. AnswerFrom(request.peer, k) \in Seq(Replies)
        BY <4>2, AnswerIs
      <4>4. QED
        BY <4>1, <4>2, <4>3, Joined
    <3>3. QED
      BY <3>1, <3>2
  <2>3. (ServerTypes /\ NetTypes /\ FetchTypes /\ PageTypes /\ JobTypes /\ StoreTypes /\ PastTypes)'
    BY <1>0, <2>1, <2>2
       DEF Typed, ServerTypes, NetTypes, FetchTypes, PageTypes, JobTypes, StoreTypes, PastTypes,
           netc, fetch, ui, store, past
  <2>4. MailInv'
    BY <1>0, <2>1 DEF MailInv
  <2>5. QED
    BY <2>3, <2>4, TypedMeans DEF Base, Typed
<1>2. ASSUME NEW p \in Peers, PeerSends(p) PROVE Base'
  <2>1. /\ now < MaxTime /\ now' = now + 1
        /\ mailbox' = [mailbox EXCEPT ![p] = Append(@, now + 1)]
        /\ \/ toClient' = Append(toClient, Reply("live", p, now + 1, 0))
           \/ toClient' = toClient
        /\ UNCHANGED <<withConversation, request, netc, fetch, listed, ui, jobs, asking, net, store, past, failed>>
    BY <1>2 DEF PeerSends
  <2>2. now \in Nat /\ now + 1 \in Nat /\ now' \in Times /\ MaxTime \in Nat
    BY <1>0, <2>1, BoundsAssumption DEF Typed, ServerTypes, Times
  <2>3. toClient' \in Seq(Replies)
    <3>1. now + 1 \in Times /\ toClient \in Seq(Replies)
      BY <1>0, <2>1, <2>2 DEF Typed, ServerTypes
    <3>2. Reply("live", p, now + 1, 0) \in Replies
      BY <3>1, RepliesTyped
    <3>3. QED
      BY <2>1, <3>1, <3>2, OneMore
  <2>4. \A q \in Peers : mailbox[q] \in Seq(Times) /\ Len(mailbox[q]) \in Nat
    BY <1>0 DEF Typed, ServerTypes
  <2>5. Append(mailbox[p], now + 1) \in Seq(Times)
    BY <2>1, <2>2, <2>4
  <2>6. mailbox' \in [Peers -> Seq(Times)] /\ mailbox'[p] = Append(mailbox[p], now + 1)
        /\ \A q \in Peers \ {p} : mailbox'[q] = mailbox[q]
    BY <1>0, <2>1, <2>5 DEF Typed, ServerTypes
  <2>7. (ServerTypes /\ NetTypes /\ FetchTypes /\ PageTypes /\ JobTypes /\ StoreTypes /\ PastTypes)'
    BY <1>0, <2>1, <2>2, <2>3, <2>6
       DEF Typed, ServerTypes, NetTypes, FetchTypes, PageTypes, JobTypes, StoreTypes, PastTypes,
           netc, fetch, ui, store, past
  <2>8. MailInv'
    <3> SUFFICES ASSUME NEW q \in Peers
                 PROVE  /\ Len(mailbox'[q]) <= now + 1 /\ \A t \in Range(mailbox'[q]) : t <= now + 1
                        /\ Ordered(mailbox'[q], Before)
      BY <2>1 DEF MailInv
    <3>1. /\ Len(mailbox[q]) <= now /\ Ordered(mailbox[q], Before)
          /\ \A t \in Range(mailbox[q]) : t \in Times /\ t \in Nat /\ t <= now
      <4>1. \A t \in Range(mailbox[q]) : t \in Times
        BY <2>4, InRange
      <4>2. QED
        BY <1>0, <4>1, BoundsAssumption DEF MailInv, Times
    <3>2. CASE q # p
      BY <2>2, <2>4, <2>6, <3>1, <3>2
    <3>3. CASE q = p
      <4>1. /\ Range(Append(mailbox[p], now + 1)) = Range(mailbox[p]) \cup {now + 1}
            /\ Ordered(mailbox[p], Before) /\ (\A a \in Range(mailbox[p]) : <<a, now + 1>> \in Before)
                 => Ordered(Append(mailbox[p], now + 1), Before)
        BY <2>1, <2>2, <2>4, OneMore
      <4>2. \A a \in Range(mailbox[p]) : <<a, now + 1>> \in Before
        BY <2>1, <2>2, <3>1, <3>3 DEF Before
      <4>3. Len(Append(mailbox[p], now + 1)) = Len(mailbox[p]) + 1
        BY <2>1, <2>2, <2>4
      <4> DEFINE longer == Append(mailbox[p], now + 1)
      <4>4. mailbox'[q] = longer /\ Ordered(longer, Before)
        BY <2>6, <3>1, <3>3, <4>1, <4>2
      <4>5. Range(longer) = Range(mailbox[p]) \cup {now + 1} /\ Len(longer) = Len(mailbox[p]) + 1
        BY <4>1, <4>3
      <4> HIDE DEF longer
      <4>6. Len(longer) <= now + 1
        BY <2>2, <2>4, <3>1, <3>3, <4>5
      <4>7. \A t \in Range(longer) : t <= now + 1
        BY <2>2, <3>1, <3>3, <4>5
      <4>8. QED
        BY <4>4, <4>6, <4>7
    <3>4. QED
      BY <3>2, <3>3
  <2>9. QED
    BY <2>7, <2>8, TypedMeans DEF Base, Typed
<1>3. ASSUME ServerRefuses PROVE Base'
  <2>1. (ServerTypes /\ NetTypes /\ FetchTypes /\ PageTypes /\ JobTypes /\ StoreTypes /\ PastTypes)'
    BY <1>0, <1>3
       DEF ServerRefuses, Typed, ServerTypes, NetTypes, FetchTypes, PageTypes, JobTypes, StoreTypes, PastTypes,
           netc, fetch, ui, store
  <2>2. MailInv'
    BY <1>0, <1>3 DEF ServerRefuses, MailInv
  <2>3. QED
    BY <2>1, <2>2, TypedMeans DEF Base, Typed
<1>4. QED
  BY <1>1, <1>2, <1>3

LEMMA NextBase == Base /\ [Next]_vars => Base'
<1> SUFFICES ASSUME Base, [Next]_vars PROVE Base'
  OBVIOUS
<1>1. ASSUME UNCHANGED vars PROVE Base'
  <2>1. TypeOK'
    BY <1>1 DEF vars, Base, TypeOK, server, netc, fetch, ui, store, past
  <2>2. MailInv'
    BY <1>1 DEF vars, Base, MailInv, server
  <2>3. QED
    BY <2>1, <2>2 DEF Base
<1>2. QED
  BY <1>1, UserBase, AsyncBase, NetBase, ServerBase DEF Next, AsyncThread, Rest

(* Every variable keeps its type: the count of fetchers does not go below  *)
(* 0, and no more is announced to follow than was ever sent.               *)
THEOREM TypesHold == Spec => []TypeOK
<1>1. Init => Base
  BY InitBase
<1>2. Base /\ [Next]_vars => Base'
  BY NextBase
<1>3. Base => TypeOK
  BY DEF Base
<1>4. QED
  BY <1>1, <1>2, <1>3, PTL DEF Spec

-----------------------------------------------------------------------------
(* Replies come when they are waited for.                                  *)

IsAnswer(r) == r.kind \in {"users", "error", "fetched", "nothing"}

(* Only the last of the answers says that none follows; what is relayed is *)
(* younger than all in front of it.                                        *)
InTurn ==
  {pair \in Replies \X Replies :
     /\ IsAnswer(pair[1]) /\ IsAnswer(pair[2]) => pair[1].more > 0
     /\ ~(pair[1].kind = "loggedIn" /\ pair[2].kind = "loggedIn")
     /\ pair[1].kind \in {"live", "fetched"} /\ pair[2].kind = "live" => pair[1].time < pair[2].time
     /\ pair[1].kind = "fetched" /\ pair[2].kind = "fetched" => pair[1].time < pair[2].time}
TurnInv ==
  /\ Ordered(toClient, InTurn)
  /\ \A r \in Range(toClient) : r.kind \in {"live", "fetched"} => r.time <= now

(* Nothing is queued behind a log in, and it waits without a connection:   *)
(* every job of the last connection has run when the next one is made.     *)
LogInLast == {pair \in Jobs \X Jobs : pair[1].op # "logIn"}
LogInInv ==
  /\ Ordered(jobs, LogInLast)
  /\ \A j \in Range(jobs) : j.op = "logIn" => ~connected /\ ~allowInput
OfflineInv == ~connected => net = "idle" /\ request = None /\ toClient = <<>> /\ page = "logIn"

(* Of one thing at a time the client waits for an answer: it is asked for, *)
(* on its way, or the net thread is in its callback's wake, and until that *)
(* is over its flag is up.                                                 *)
FlagInv ==
  connected =>
    /\ ~(fetchingUsers /\ fetchingMessages)
    /\ request # None => IF request.peer = None THEN fetchingUsers ELSE fetchingMessages
    /\ net = "usersDone" => fetchingUsers
    /\ net \in {"compare", "messagesDone"} => fetchingMessages
    /\ request # None => net = "idle"
    /\ request # None \/ net # "idle" => \A r \in Range(toClient) : ~IsAnswer(r)
    /\ \A r \in Range(toClient) : /\ r.kind \in {"users", "error"} => fetchingUsers
                                  /\ r.kind \in {"fetched", "nothing"} => fetchingMessages

Wired == Base /\ TurnInv /\ LogInInv /\ OfflineInv /\ FlagInv

LEMMA QueuesTyped ==
  Base => /\ jobs \in Seq(Jobs) /\ toClient \in Seq(Replies)
          /\ \A r \in Range(toClient) : r \in Replies
          /\ \A j \in Range(jobs) : j \in Jobs
          /\ now \in Nat /\ Times \subseteq Nat
<1> SUFFICES ASSUME Base PROVE QueuesTyped!2
  OBVIOUS
<1>1. jobs \in Seq(Jobs) /\ toClient \in Seq(Replies) /\ now \in Times /\ Times \subseteq Nat
  BY TypedMeans, BoundsAssumption DEF Base, Typed, JobTypes, ServerTypes, Times
<1>2. QED
  BY <1>1, InRange

LEMMA InTurnMeans ==
  ASSUME NEW a \in Replies, NEW b \in Replies
  PROVE  <<a, b>> \in InTurn <=>
           /\ IsAnswer(a) /\ IsAnswer(b) => a.more > 0
           /\ ~(a.kind = "loggedIn" /\ b.kind = "loggedIn")
           /\ a.kind \in {"live", "fetched"} /\ b.kind = "live" => a.time < b.time
           /\ a.kind = "fetched" /\ b.kind = "fetched" => a.time < b.time
BY DEF InTurn, IsAnswer

(* What the server answers with. *)
LEMMA Answered ==
  ASSUME Base, NEW p \in Peers, NEW k \in 0..Len(mailbox[p]), NEW after \in Times, NewFrom(p, after, k)
  PROVE  /\ AnswerFrom(p, k) \in Seq(Replies) /\ Ordered(AnswerFrom(p, k), InTurn)
         /\ \A r \in Range(AnswerFrom(p, k)) :
              /\ r \in Replies /\ r.kind \in {"fetched", "nothing"} /\ IsAnswer(r) /\ r.peer = p
              /\ r.kind = "fetched" => r.time \in Times /\ r.time <= now /\ r.time > after
<1> DEFINE a == AnswerFrom(p, k)
<1>1. a \in Seq(Replies)
  BY AnswerIs
<1>2. CASE a = <<Reply("nothing", p, 0, 0)>>
  <2>1. Reply("nothing", p, 0, 0) \in Replies
    BY RepliesTyped
  <2>2. Range(a) = {Reply("nothing", p, 0, 0)} /\ Ordered(a, InTurn)
    BY <1>2, <2>1, Single
  <2>3. QED
    BY <1>1, <2>1, <2>2 DEF Reply, IsAnswer
<1>3. CASE /\ Len(mailbox[p]) - k \in Nat /\ Len(a) = Len(mailbox[p]) - k
           /\ \A i \in 1..Len(a) :
                /\ k + i \in 1..Len(mailbox[p]) /\ mailbox[p][k + i] \in Times
                /\ Len(mailbox[p]) - k - i \in Times
                /\ a[i] = Reply("fetched", p, mailbox[p][k + i], Len(mailbox[p]) - k - i)
  <2>1. /\ mailbox[p] \in Seq(Times) /\ Len(mailbox[p]) \in Nat /\ k \in Nat /\ Times \subseteq Nat
        /\ Ordered(mailbox[p], Before) /\ \A t \in Range(mailbox[p]) : t <= now
    BY TypedMeans, QueuesTyped DEF Base, MailInv, Typed, ServerTypes
  <2>2. ASSUME NEW i \in 1..Len(a)
        PROVE  /\ a[i] \in Replies /\ a[i].kind = "fetched" /\ a[i].peer = p
               /\ a[i].time = mailbox[p][k + i] /\ a[i].more = Len(mailbox[p]) - k - i
               /\ a[i].time \in Times /\ a[i].time <= now /\ a[i].time > after
    <3>1. k + i \in 1..Len(mailbox[p]) /\ mailbox[p][k + i] \in Times /\ Len(mailbox[p]) - k - i \in Times
          /\ a[i] = Reply("fetched", p, mailbox[p][k + i], Len(mailbox[p]) - k - i)
      BY <1>3
    <3>2. mailbox[p][k + i] \in Range(mailbox[p])
      BY <2>1, <3>1, InRange
    <3>3. k + i \in (k + 1)..Len(mailbox[p])
      BY <1>3, <2>1, <3>1
    <3>4. mailbox[p][k + i] > after
      BY <3>3 DEF NewFrom
    <3> DEFINE t == mailbox[p][k + i]
               more == Len(mailbox[p]) - k - i
    <3>5. a[i] = Reply("fetched", p, t, more) /\ t \in Times /\ more \in Times
          /\ t <= now /\ t > after
      BY <2>1, <3>1, <3>2, <3>4
    <3> HIDE DEF a, t, more
    <3>6. /\ a[i] \in Replies /\ a[i].kind = "fetched" /\ a[i].peer = p
          /\ a[i].time = t /\ a[i].more = more
      BY <3>5, RepliesTyped
    <3>7. QED
      BY <3>5, <3>6 DEF t, more
  <2>3. ASSUME NEW i \in 1..Len(a), NEW l \in 1..Len(a), i < l
        PROVE  <<a[i], a[l]>> \in InTurn
    <3>1. k + i < k + l /\ k + i \in 1..Len(mailbox[p]) /\ k + l \in 1..Len(mailbox[p])
      BY <1>3, <2>1, <2>3
    <3>2. <<mailbox[p][k + i], mailbox[p][k + l]>> \in Before
      BY <2>1, <3>1 DEF Ordered
    <3>3. mailbox[p][k + i] < mailbox[p][k + l]
      BY <3>2 DEF Before
    <3>4. Len(mailbox[p]) - k - i > 0
      BY <1>3, <2>1, <2>3
    <3>5. QED
      BY <2>2, <3>3, <3>4, InTurnMeans
  <2>4. \A r \in Range(a) : \E i \in 1..Len(a) : r = a[i]
    BY <1>1, InRange
  <2>5. QED
    BY <1>1, <2>2, <2>3, <2>4 DEF Ordered, IsAnswer
<1>4. QED
  BY <1>2, <1>3, AnswerIs

(* What a step does to a queue that it takes from or does not touch. *)
LEMMA TurnKept ==
  ASSUME Base, TurnInv, now' \in Times, now <= now',
         \/ toClient' = toClient
         \/ toClient # <<>> /\ toClient' = Tail(toClient)
         \/ toClient' = <<>>
  PROVE  TurnInv' /\ Range(toClient') \subseteq Range(toClient)
<1>1. /\ toClient \in Seq(Replies) /\ now \in Nat /\ Times \subseteq Nat
      /\ \A r \in Range(toClient) : r \in Replies /\ r.time \in Times
  BY QueuesTyped, RepliesTyped
<1>2. Ordered(toClient', InTurn) /\ Range(toClient') \subseteq Range(toClient)
  <2>1. CASE toClient' = toClient
    BY <2>1 DEF TurnInv
  <2>2. CASE toClient # <<>> /\ toClient' = Tail(toClient)
    BY <1>1, <2>2, OneLess DEF TurnInv
  <2>3. CASE toClient' = <<>>
    BY <2>3, Nothing
  <2>4. QED
    BY <2>1, <2>2, <2>3
<1>3. ASSUME NEW r \in Range(toClient'), r.kind \in {"live", "fetched"} PROVE r.time <= now'
  <2>1. r \in Range(toClient) /\ r.time <= now
    BY <1>2, <1>3 DEF TurnInv
  <2>2. r.time \in Nat /\ now \in Nat /\ now' \in Nat
    BY <1>1, <2>1
  <2>3. QED
    BY <2>1, <2>2
<1>4. QED
  BY <1>2, <1>3 DEF TurnInv

LEMMA JobsKept ==
  ASSUME Base, LogInInv, connected' = connected \/ connected, allowInput' = allowInput \/ connected,
         connected' => connected,
         jobs' = jobs \/ (jobs # <<>> /\ jobs' = Tail(jobs))
  PROVE  LogInInv' /\ Range(jobs') \subseteq Range(jobs)
<1>1. jobs \in Seq(Jobs)
  BY QueuesTyped
<1>2. Ordered(jobs', LogInLast) /\ Range(jobs') \subseteq Range(jobs)
  <2>1. CASE jobs' = jobs
    BY <2>1 DEF LogInInv
  <2>2. CASE jobs # <<>> /\ jobs' = Tail(jobs)
    BY <1>1, <2>2, OneLess DEF LogInInv
  <2>3. QED
    BY <2>1, <2>2
<1>3. \A j \in Range(jobs') : j.op = "logIn" => ~connected' /\ ~allowInput'
  BY <1>2 DEF LogInInv
<1>4. QED
  BY <1>2, <1>3 DEF LogInInv

(* Jobs pushed when no log in is queued. *)
LEMMA JobsPushed ==
  ASSUME Base, LogInInv, NEW added \in Seq(Jobs), connected \/ allowInput,
         jobs' = jobs \o added, \A j \in Range(added) : j.op # "logIn"
  PROVE  LogInInv' /\ Range(jobs') = Range(jobs) \cup Range(added)
<1>1. jobs \in Seq(Jobs) /\ \A j \in Range(jobs) : j \in Jobs /\ j.op # "logIn"
  BY QueuesTyped DEF LogInInv
<1>2. Range(jobs') = Range(jobs) \cup Range(added) /\ jobs' \in Seq(Jobs)
  BY <1>1, Joined
<1>3. ASSUME NEW i \in 1..Len(jobs'), NEW k \in 1..Len(jobs')
      PROVE  <<jobs'[i], jobs'[k]>> \in LogInLast
  <2>1. jobs'[i] \in Range(jobs') /\ jobs'[i] \in Jobs /\ jobs'[k] \in Jobs
    BY <1>2, InRange
  <2>2. QED
    BY <1>1, <1>2, <2>1 DEF LogInLast
<1>4. QED
  BY <1>1, <1>2, <1>3 DEF LogInInv, Ordered

LEMMA JobPushed ==
  ASSUME Base, LogInInv, NEW j \in Jobs, connected \/ allowInput, Push(j), j.op # "logIn"
  PROVE  LogInInv' /\ Range(jobs') = Range(jobs) \cup {j}
<1>1. <<j>> \in Seq(Jobs) /\ Range(<<j>>) = {j}
  BY Single
<1>2. jobs' = jobs \o <<j>>
  BY QueuesTyped DEF Push
<1>3. QED
  BY <1>1, <1>2, JobsPushed

LEMMA FlagKept ==
  ASSUME FlagInv, UNCHANGED <<connected, fetchingUsers, fetchingMessages, request, net>>,
         Range(toClient') \subseteq Range(toClient)
  PROVE  FlagInv'
BY DEF FlagInv

LEMMA OfflineKept ==
  ASSUME OfflineInv, UNCHANGED <<connected, request, net>>,
         toClient' = toClient \/ connected, page' = page \/ connected
  PROVE  OfflineInv'
BY DEF OfflineInv

(* Neither flag is up: nothing is waited for. *)
LEMMA NothingAwaited ==
  ASSUME Base, FlagInv, connected, ~fetchingUsers, ~fetchingMessages
  PROVE  request = None /\ net = "idle" /\ \A r \in Range(toClient) : ~IsAnswer(r)
BY TypedMeans DEF FlagInv, IsAnswer, Base, Typed, NetTypes

Lines == TurnInv /\ LogInInv /\ OfflineInv /\ FlagInv
Same == UNCHANGED <<request, toClient, connected, fetchingUsers, fetchingMessages, net, page>>

LEMMA SameLines ==
  ASSUME Base, Base', Lines, UNCHANGED <<now, jobs, allowInput>>, Same
  PROVE  Lines'
<1>1. now \in Nat /\ now' \in Times
  BY QueuesTyped, TypedMeans DEF Base, Typed, ServerTypes
<1>2. TurnInv' /\ LogInInv'
  BY <1>1, TurnKept, JobsKept DEF Lines, Same
<1>3. QED
  BY <1>2, FlagKept, OfflineKept DEF Lines, Same

(* A job is done that leaves the connection alone. *)
LEMMA JobDone ==
  ASSUME Base, Base', Lines, now <= now', jobs # <<>>, Pop,
         UNCHANGED <<request, toClient, connected, fetchingUsers, fetchingMessages, net>>,
         UNCHANGED <<page, allowInput>> \/ connected
  PROVE  Lines'
<1>1. now \in Nat /\ now' \in Times
  BY QueuesTyped, TypedMeans DEF Base, Typed, ServerTypes
<1>2. TurnInv' /\ LogInInv'
  BY <1>1, TurnKept, JobsKept DEF Lines, Pop
<1>3. QED
  BY <1>2, FlagKept, OfflineKept DEF Lines

LEMMA AbortLines ==
  ASSUME Base, Base', Lines, NEW a, Abort(a)
  PROVE  Lines'
BY SameLines DEF Abort, Same, server, netc, ui

LEMMA UserLines == ASSUME Base, Base', Lines, UIThread \/ RunLogIn \/ Disconnected PROVE Lines'
<1>0. /\ now \in Nat /\ now' \in Times /\ jobs \in Seq(Jobs) /\ Typed
      /\ \A j \in Range(jobs) : j \in Jobs
  BY QueuesTyped, TypedMeans DEF Base, Typed, ServerTypes
<1>1. ASSUME LogInClicked PROVE Lines'
  <2> DEFINE j == Job("logIn", None, 0)
  <2>1. j \in Jobs /\ j.op = "logIn" /\ ~connected /\ allowInput /\ ~allowInput' /\ Push(j) /\ UNCHANGED now /\ Same
    BY <1>1, JobsTyped DEF LogInClicked, Same, server, netc
  <2> HIDE DEF j
  <2>2. Range(jobs') = Range(jobs) \cup {j} /\ Ordered(jobs', LogInLast)
    <3>1. \A i \in Range(jobs) : <<i, j>> \in LogInLast
      BY <1>0, <2>1 DEF Lines, LogInInv, LogInLast
    <3>2. QED
      BY <1>0, <2>1, <3>1, OneMore DEF Push, Lines, LogInInv
  <2>3. LogInInv'
    BY <2>1, <2>2 DEF LogInInv, Same
  <2>4. TurnInv'
    BY <1>0, <2>1, TurnKept DEF Lines, Same
  <2>5. QED
    BY <2>1, <2>3, <2>4, FlagKept, OfflineKept DEF Lines, Same
<1>2. ASSUME NEW j \in Jobs, Push(j), allowInput, j.op # "logIn", UNCHANGED now, Same
      PROVE  Lines'
  <2>1. LogInInv'
    BY <1>2, JobPushed DEF Lines
  <2>2. TurnInv'
    BY <1>0, <1>2, TurnKept DEF Lines, Same
  <2>3. QED
    BY <1>2, <2>1, <2>2, FlagKept, OfflineKept DEF Lines, Same
<1>3. ASSUME UpdateClicked PROVE Lines'
  <2>1. CASE Abort("updateUsersList")
    BY <2>1, AbortLines
  <2>2. CASE ~Abort("updateUsersList")
    <3>1. allowInput /\ Push(Job("fetchUsers", None, 0)) /\ UNCHANGED now /\ Same
      BY <1>3, <2>2 DEF UpdateClicked, Same, server, netc
    <3>2. QED
      BY <1>2, <3>1, JobsTyped
  <2>3. QED
    BY <2>1, <2>2
<1>4. ASSUME NEW p \in Peers, SendClicked(p) PROVE Lines'
  <2>1. allowInput /\ Push(Job("send", p, 0)) /\ UNCHANGED now /\ Same
    BY <1>4 DEF SendClicked, Same, server, netc, ui
  <2>2. QED
    BY <1>2, <2>1, JobsTyped
<1>5. ASSUME RunLogIn PROVE Lines'
  <2>1. /\ jobs # <<>> /\ Head(jobs).op = "logIn" /\ jobs' = Tail(jobs)
        /\ UNCHANGED <<now, request, net, page>>
        /\ \/ /\ connected' = TRUE /\ fetchingUsers' = FALSE /\ fetchingMessages' = FALSE
              /\ toClient' = <<Reply("loggedIn", None, 0, 0)>>
           \/ UNCHANGED <<connected, fetchingUsers, fetchingMessages, toClient>>
    BY <1>5 DEF RunLogIn, Runs, Pop, netc
  <2>2. Ordered(jobs', LogInLast) /\ Range(jobs') = {} /\ ~connected
    <3>1. /\ Head(jobs) \in Range(jobs) /\ Ordered(Tail(jobs), LogInLast)
          /\ \A b \in Range(Tail(jobs)) : <<Head(jobs), b>> \in LogInLast
      BY <1>0, <2>1, OneLess DEF Lines, LogInInv
    <3>2. QED
      BY <2>1, <3>1 DEF Lines, LogInInv, LogInLast
  <2>3. net = "idle" /\ request = None /\ toClient = <<>>
    BY <2>2 DEF Lines, OfflineInv
  <2>4. LogInInv'
    BY <2>2 DEF LogInInv
  <2>5. CASE UNCHANGED <<connected, fetchingUsers, fetchingMessages, toClient>>
    BY <1>0, <2>1, <2>4, <2>5, TurnKept, FlagKept, OfflineKept DEF Lines
  <2>6. CASE /\ connected' = TRUE /\ fetchingUsers' = FALSE /\ fetchingMessages' = FALSE
             /\ toClient' = <<Reply("loggedIn", None, 0, 0)>>
    <3> DEFINE m == Reply("loggedIn", None, 0, 0)
    <3>1. m \in Replies /\ m.kind = "loggedIn"
      BY RepliesTyped
    <3>2. toClient' = <<m>> /\ connected'
      BY <2>6
    <3> HIDE DEF m
    <3>3. Range(toClient') = {m} /\ Ordered(toClient', InTurn)
      BY <3>1, <3>2, Single
    <3>4. TurnInv'
      BY <3>1, <3>3 DEF TurnInv
    <3>5. FlagInv'
      BY <2>1, <2>3, <2>6, <3>1, <3>3 DEF FlagInv
    <3>6. QED
      BY <2>4, <3>2, <3>4, <3>5 DEF Lines, OfflineInv
  <2>7. QED
    BY <2>1, <2>5, <2>6
<1>6. ASSUME Disconnected PROVE Lines'
  <2>1. connected /\ ~connected' /\ net = "idle" /\ UNCHANGED <<net, jobs, now>> /\ request' = None
        /\ toClient' = <<>> /\ page' = "logIn"
    BY <1>6 DEF Disconnected
  <2>2. LogInInv'
    BY <2>1 DEF Lines, LogInInv
  <2>3. QED
    BY <1>0, <2>1, <2>2, TurnKept DEF Lines, OfflineInv, FlagInv
<1>7. QED
  BY <1>1, <1>3, <1>4, <1>5, <1>6 DEF UIThread

LEMMA AsyncLines ==
  ASSUME Base, Base', Lines, \/ RunFetchUsers \/ RunProcessUsers \/ RunFetchMessages
                             \/ AskForMessages \/ RunReceived \/ RunSend
  PROVE  Lines'
<1>0. now \in Nat /\ now' \in Times /\ Typed
  BY QueuesTyped, TypedMeans DEF Base, Typed, ServerTypes
<1>1. ASSUME RunFetchUsers PROVE Lines'
  <2>1. CASE Abort("netFetchUsers")
    BY <2>1, AbortLines
  <2>2. CASE ~Abort("netFetchUsers")
    <3>1. /\ connected /\ ~fetchingUsers /\ ~fetchingMessages /\ fetchingUsers' = TRUE
          /\ request' = Request(None, 0) /\ jobs # <<>> /\ jobs' = Tail(jobs)
          /\ UNCHANGED <<now, toClient, connected, fetchingMessages, net, page, allowInput>>
      BY <1>1, <2>2 DEF RunFetchUsers, Runs, Pop, ui
    <3>2. net = "idle" /\ \A r \in Range(toClient) : ~IsAnswer(r)
      BY <3>1, NothingAwaited DEF Lines
    <3>3. request' # None => request'.peer = None
      BY <3>1 DEF Request
    <3>4. FlagInv'
      BY <3>1, <3>2, <3>3 DEF FlagInv, IsAnswer
    <3>5. LogInInv' /\ TurnInv'
      BY <1>0, <3>1, JobsKept, TurnKept DEF Lines
    <3>6. QED
      BY <3>1, <3>4, <3>5 DEF Lines, OfflineInv
  <2>3. QED
    BY <2>1, <2>2
<1>2. ASSUME RunProcessUsers PROVE Lines'
  <2>1. CASE Abort("processFetchedUsers")
    BY <2>1, AbortLines
  <2>2. CASE ~Abort("processFetchedUsers")
    <3>1. /\ connected /\ jobs # <<>> /\ Pop
          /\ UNCHANGED <<now, request, toClient, connected, fetchingUsers, fetchingMessages, net>>
      BY <1>2, <2>2 DEF RunProcessUsers, Runs, server
    <3>2. QED
      BY <1>0, <3>1, JobDone
  <2>3. QED
    BY <2>1, <2>2
<1>3. ASSUME RunFetchMessages PROVE Lines'
  BY <1>0, <1>3, JobDone DEF RunFetchMessages, Runs, server, netc, ui
<1>4. ASSUME AskForMessages PROVE Lines'
  <2>1. CASE Abort("netFetchMessages") \/ Abort("fetchMissingMessages")
    BY <2>1, AbortLines
  <2>2. CASE ~(Abort("netFetchMessages") \/ Abort("fetchMissingMessages"))
    <3>1. /\ connected /\ ~fetchingUsers /\ ~fetchingMessages /\ fetchingMessages' = TRUE
          /\ request' = Request(asking, AsksAfter(asking)) /\ asking # None
          /\ UNCHANGED <<now, toClient, connected, fetchingUsers, net, page, allowInput, jobs>>
      BY <1>4, <2>2 DEF AskForMessages, ui
    <3>2. net = "idle" /\ \A r \in Range(toClient) : ~IsAnswer(r)
      BY <3>1, NothingAwaited DEF Lines
    <3>3. request'.peer # None
      BY <3>1 DEF Request
    <3>4. FlagInv'
      BY <3>1, <3>2, <3>3 DEF FlagInv, IsAnswer
    <3>5. LogInInv' /\ TurnInv'
      BY <1>0, <3>1, JobsKept, TurnKept DEF Lines
    <3>6. QED
      BY <3>1, <3>4, <3>5 DEF Lines, OfflineInv
  <2>3. QED
    BY <2>1, <2>2
<1>5. ASSUME RunReceived PROVE Lines'
  <2>1. CASE Abort("listBinarySearch") \/ Abort("databaseAddMessage")
    BY <2>1, AbortLines
  <2>2. CASE ~(Abort("listBinarySearch") \/ Abort("databaseAddMessage"))
    <3>1. jobs # <<>> /\ Pop /\ UNCHANGED <<server, netc, ui, net>>
      BY <1>5, <2>2 DEF RunReceived, Runs
    <3>2. QED
      BY <1>0, <3>1, JobDone DEF server, netc, ui
  <2>3. QED
    BY <2>1, <2>2
<1>6. ASSUME RunSend PROVE Lines'
  <2>1. CASE Abort("sendMessage")
    BY <2>1, AbortLines
  <2>2. CASE ~Abort("sendMessage")
    <3>1. /\ jobs # <<>> /\ Pop
          /\ now' = now + 1 \/ now' = now
          /\ UNCHANGED <<request, toClient, netc, ui, net>>
      BY <1>6, <2>2 DEF RunSend, Runs, server
    <3>2. QED
      BY <1>0, <3>1, JobDone DEF netc, ui
  <2>3. QED
    BY <2>1, <2>2
<1>7. QED
  BY <1>1, <1>2, <1>3, <1>4, <1>5, <1>6

(* What the net thread takes. *)
LEMMA TakesMeans ==
  ASSUME Base, Lines, NEW kind, Takes(kind)
  PROVE  /\ connected /\ net = "idle" /\ toClient # <<>>
         /\ Head(toClient) \in Range(toClient) /\ Head(toClient) \in Replies
         /\ Head(toClient).kind = kind
         /\ Range(toClient) = {Head(toClient)} \cup Range(Tail(toClient))
         /\ \A b \in Range(Tail(toClient)) : b \in Replies /\ <<Head(toClient), b>> \in InTurn
BY QueuesTyped, OneLess DEF Takes, Lines, TurnInv

(* The last of the answers is taken. *)
LEMMA LastTaken ==
  ASSUME Base, Lines, Takes("users") \/ Takes("error") \/ Takes("fetched") \/ Takes("nothing"),
         Head(toClient).more = 0
  PROVE  request = None /\ \A r \in Range(Tail(toClient)) : ~IsAnswer(r)
<1> DEFINE m == Head(toClient)
<1>1. /\ connected /\ m \in Range(toClient) /\ m \in Replies /\ IsAnswer(m) /\ m.more = 0
      /\ \A b \in Range(Tail(toClient)) : b \in Replies /\ <<m, b>> \in InTurn
  BY TakesMeans DEF IsAnswer
<1> HIDE DEF m
<1>2. request = None
  BY <1>1 DEF Lines, FlagInv
<1>3. ASSUME NEW b \in Range(Tail(toClient)) PROVE ~IsAnswer(b)
  <2>1. IsAnswer(m) /\ IsAnswer(b) => m.more > 0
    BY <1>1, InTurnMeans
  <2>2. QED
    BY <1>1, <2>1
<1>4. QED
  BY <1>2, <1>3

LEMMA NetLines == ASSUME Base, Base', Lines, NetThread PROVE Lines'
<1>0. /\ now \in Nat /\ now' \in Times /\ toClient \in Seq(Replies) /\ jobs \in Seq(Jobs)
      /\ \A r \in Range(toClient) : r \in Replies
  BY QueuesTyped, TypedMeans DEF Base, Typed, ServerTypes
<1>2. ASSUME connected, toClient # <<>>, toClient' = toClient \/ Taken, LogInInv',
             UNCHANGED <<now, request, connected, fetchingUsers, fetchingMessages, net, page>>
      PROVE  Lines'
  <2>1. TurnInv' /\ Range(toClient') \subseteq Range(toClient)
    BY <1>0, <1>2, TurnKept DEF Taken, Lines
  <2>2. QED
    BY <1>2, <2>1, FlagKept, OfflineKept DEF Lines
<1>3. ASSUME LoggedIn PROVE Lines'
  <2>1. connected /\ toClient # <<>>
    BY <1>3, TakesMeans DEF LoggedIn
  <2>2. LogInInv'
    BY <1>3, <2>1, JobPushed, JobsTyped DEF LoggedIn, Lines
  <2>3. QED
    BY <1>2, <1>3, <2>1, <2>2 DEF LoggedIn, netc, ui
<1>4. ASSUME LiveMessage PROVE Lines'
  <2> DEFINE m == Head(toClient)
  <2>1. connected /\ toClient # <<>> /\ m \in Replies /\ m.peer \in Peers /\ m.time \in Times
    BY <1>4, TakesMeans, RepliesTyped DEF LiveMessage
  <2>2. /\ Push(Job("received", m.peer, m.time)) \/ UNCHANGED jobs
        /\ Taken /\ UNCHANGED <<now, request, netc, ui, net>>
    BY <1>4 DEF LiveMessage
  <2> HIDE DEF m
  <2>3. LogInInv'
    <3>1. CASE Push(Job("received", m.peer, m.time))
      BY <2>1, <3>1, JobPushed, JobsTyped DEF Lines
    <3>2. CASE UNCHANGED jobs
      BY <2>1, <2>2, <3>2, JobsKept DEF Lines, netc, ui
    <3>3. QED
      BY <2>2, <3>1, <3>2
  <2>4. QED
    BY <1>2, <2>1, <2>2, <2>3 DEF netc, ui
<1>6. ASSUME UsersFetched PROVE Lines'
  <2>1. /\ connected /\ toClient # <<>> /\ fetchingUsers /\ Head(toClient).more = 0
        /\ Taken /\ net' = "usersDone"
        /\ UNCHANGED <<now, request, connected, fetchingUsers, fetchingMessages, ui>>
    BY <1>6, TakesMeans, RepliesTyped DEF UsersFetched, Lines, FlagInv
  <2>2. request = None /\ \A r \in Range(toClient') : ~IsAnswer(r)
    BY <1>6, <2>1, LastTaken DEF UsersFetched, Taken
  <2>3. LogInInv'
    BY <1>6, <2>1, JobPushed, JobsTyped DEF UsersFetched, Lines
  <2>4. TurnInv'
    BY <1>0, <2>1, TurnKept DEF Lines, Taken
  <2>5. FlagInv'
    <3>1. ~fetchingMessages
      BY <2>1 DEF Lines, FlagInv
    <3>2. QED
      BY <2>1, <2>2, <3>1 DEF FlagInv, IsAnswer
  <2>6. QED
    BY <2>1, <2>3, <2>4, <2>5 DEF Lines, OfflineInv
<1>7. ASSUME UsersDone \/ MessagesDone PROVE Lines'
  <2>1. /\ net # "idle" /\ net' = "idle"
        /\ (net = "usersDone" /\ ~fetchingUsers' /\ fetchingMessages' = fetchingMessages)
             \/ (net = "messagesDone" /\ ~fetchingMessages' /\ fetchingUsers' = fetchingUsers)
        /\ UNCHANGED <<server, connected, ui, jobs>>
    BY <1>7 DEF UsersDone, MessagesDone
  <2>2. connected
    BY <2>1 DEF Lines, OfflineInv
  <2>3. /\ ~(fetchingUsers /\ fetchingMessages) /\ net = "usersDone" => fetchingUsers
        /\ net = "messagesDone" => fetchingMessages
        /\ request = None /\ \A r \in Range(toClient) : ~IsAnswer(r)
    BY <2>1, <2>2 DEF Lines, FlagInv
  <2>4. LogInInv' /\ TurnInv'
    BY <1>0, <2>1, TurnKept, JobsKept DEF Lines, server, ui
  <2>5. FlagInv'
    BY <2>1, <2>3 DEF FlagInv, IsAnswer, server
  <2>6. QED
    BY <2>1, <2>2, <2>4, <2>5 DEF Lines, OfflineInv
<1>8. ASSUME NextMessageFetched PROVE Lines'
  <2> DEFINE m == Head(toClient)
  <2>1. /\ Takes("fetched") \/ Takes("nothing")
        /\ UNCHANGED <<now, request, netc, ui>>
        /\ \/ /\ jobs' = jobs \o ReceivedJobs(m) /\ Taken /\ UNCHANGED net
           \/ /\ m.more = 0
              /\ jobs' = jobs \o ReceivedJobs(m) \o NextFetch /\ Taken /\ net' = "compare"
           \/ UNCHANGED <<toClient, jobs, net>>
    BY <1>8 DEF NextMessageFetched, IsLast, NoneFollows
  <2>2. /\ connected /\ toClient # <<>> /\ m \in Range(toClient) /\ m \in Replies
        /\ m.kind \in {"fetched", "nothing"} /\ fetchingMessages /\ ~fetchingUsers
    BY <2>1, TakesMeans DEF Lines, FlagInv
  <2>3. ReceivedJobs(m) \in Seq(Jobs) /\ \A j \in Range(ReceivedJobs(m)) : j.op = "received"
    <3> HIDE DEF m
    <3>1. CASE m.kind = "fetched"
      <4>1. Job("received", m.peer, m.time) \in Jobs /\ Job("received", m.peer, m.time).op = "received"
        BY <2>2, JobsTyped, RepliesTyped
      <4>2. QED
        BY <3>1, <4>1, Single DEF ReceivedJobs
    <3>2. CASE m.kind # "fetched"
      BY <3>2, Nothing DEF ReceivedJobs
    <3>3. QED
      BY <3>1, <3>2
  <2>4. NextFetch \in Seq(Jobs) /\ \A j \in Range(NextFetch) : j.op = "fetchMessages"
    <3>1. CASE userIdsToFetchMessagesFrom = <<>>
      BY <3>1, Nothing DEF NextFetch
    <3>2. CASE userIdsToFetchMessagesFrom # <<>>
      <4>1. Head(userIdsToFetchMessagesFrom) \in Peers
        BY <3>2, TypedMeans, OneLess DEF Base, Typed, FetchTypes
      <4>2. QED
        BY <3>2, <4>1, JobsTyped, Single DEF NextFetch
    <3>3. QED
      BY <3>1, <3>2
  <2>5. CASE UNCHANGED <<toClient, jobs, net>>
    BY <2>1, <2>5, SameLines DEF Same, netc, ui
  <2>6. CASE jobs' = jobs \o ReceivedJobs(m) /\ Taken /\ UNCHANGED net
    <3>1. LogInInv'
      BY <2>2, <2>3, <2>6, JobsPushed DEF Lines
    <3>2. QED
      BY <1>2, <2>1, <2>2, <2>6, <3>1 DEF netc, ui
  <2>7. CASE /\ m.more = 0 /\ Taken /\ net' = "compare"
             /\ jobs' = jobs \o ReceivedJobs(m) \o NextFetch
    <3> DEFINE added == ReceivedJobs(m) \o NextFetch
    <3>1. added \in Seq(Jobs) /\ Range(added) = Range(ReceivedJobs(m)) \cup Range(NextFetch)
      BY <2>3, <2>4, Joined
    <3>2. jobs' = jobs \o added
      BY <1>0, <2>3, <2>4, <2>7
    <3> HIDE DEF added
    <3>3. LogInInv'
      BY <2>2, <2>3, <2>4, <3>1, <3>2, JobsPushed DEF Lines
    <3>4. request = None /\ \A r \in Range(toClient') : ~IsAnswer(r)
      BY <2>1, <2>7, LastTaken DEF Taken
    <3>5. TurnInv'
      BY <1>0, <2>1, <2>2, <2>7, TurnKept DEF Lines, Taken
    <3>6. FlagInv'
      BY <2>1, <2>2, <2>7, <3>4 DEF FlagInv, IsAnswer, netc
    <3>7. QED
      BY <2>1, <2>2, <3>3, <3>5, <3>6 DEF Lines, OfflineInv, netc
  <2>8. QED
    BY <2>1, <2>5, <2>6, <2>7
<1>9. ASSUME Compare PROVE Lines'
  <2>1. CASE Abort("fetchersMatch")
    BY <2>1, AbortLines
  <2>2. CASE ~Abort("fetchersMatch")
    <3>1. /\ net = "compare" /\ net' = "messagesDone"
          /\ UNCHANGED <<server, connected, fetchingUsers, fetchingMessages, jobs>>
      BY <1>9, <2>2 DEF Compare
    <3>2. connected
      BY <3>1 DEF Lines, OfflineInv
    <3>3. LogInInv' /\ TurnInv'
      BY <1>0, <3>1, <3>2, JobsKept, TurnKept DEF Lines, server
    <3>4. FlagInv'
      BY <3>1 DEF Lines, FlagInv, server
    <3>5. QED
      BY <3>1, <3>2, <3>3, <3>4 DEF Lines, OfflineInv
  <2>3. QED
    BY <2>1, <2>2
<1>10. ASSUME ErrorReceived PROVE Lines'
  <2>1. /\ connected /\ toClient # <<>> /\ Taken
        /\ UNCHANGED <<now, request, netc, page, jobs, net>>
    BY <1>10, TakesMeans DEF ErrorReceived
  <2>2. LogInInv'
    BY <2>1, JobsKept DEF Lines, netc
  <2>3. QED
    BY <1>2, <2>1, <2>2 DEF netc
<1>11. QED
  BY <1>3, <1>4, <1>6, <1>7, <1>8, <1>9, <1>10 DEF NetThread

LEMMA ServerLines ==
  ASSUME Base, Base', Lines, ServerAnswers \/ ServerRefuses \/ \E p \in Peers : PeerSends(p)
  PROVE  Lines'
<1>0. /\ now \in Nat /\ now' \in Times /\ toClient \in Seq(Replies) /\ Typed
      /\ \A r \in Range(toClient) : r \in Replies
  BY QueuesTyped, TypedMeans DEF Base, Typed, ServerTypes
<1>1. ASSUME ServerAnswers PROVE Lines'
  <2>1. request # None /\ request' = None /\ UNCHANGED <<now, netc, ui, jobs, net>>
    BY <1>1 DEF ServerAnswers
  <2>2. /\ connected /\ net = "idle" /\ ~(fetchingUsers /\ fetchingMessages)
        /\ IF request.peer = None THEN fetchingUsers ELSE fetchingMessages
        /\ \A r \in Range(toClient) : ~IsAnswer(r)
    <3>1. connected
      BY <2>1 DEF Lines, OfflineInv
    <3>2. QED
      BY <2>1, <3>1 DEF Lines, FlagInv
  <2>3. LogInInv'
    BY <2>1, JobsKept DEF Lines, netc, ui
  <2>4. ASSUME NEW added \in Seq(Replies), toClient' = toClient \o added, Ordered(added, InTurn),
               \A r \in Range(added) :
                  /\ r \in Replies
                  /\ (r.kind \in {"users", "error"} /\ fetchingUsers)
                       \/ (r.kind \in {"fetched", "nothing"} /\ fetchingMessages)
                  /\ r.kind = "fetched" => r.time <= now
        PROVE  Lines'
    <3>1. ASSUME NEW a \in Range(toClient), NEW b \in Range(added) PROVE <<a, b>> \in InTurn
      <4>1. a \in Replies /\ b \in Replies /\ ~IsAnswer(a) /\ b.kind \notin {"loggedIn", "live"}
        BY <1>0, <2>2, <2>4
      <4>2. QED
        BY <4>1, InTurnMeans DEF IsAnswer
    <3>2. Ordered(toClient', InTurn) /\ Range(toClient') = Range(toClient) \cup Range(added)
      BY <1>0, <2>4, <3>1, Joined DEF Lines, TurnInv
    <3>3. TurnInv'
      <4>1. \A r \in Range(toClient') : r.kind \in {"live", "fetched"} => r.time <= now
        BY <2>4, <3>2 DEF Lines, TurnInv
      <4>2. QED
        BY <2>1, <3>2, <4>1 DEF TurnInv
    <3>4. FlagInv'
      <4>1. \A r \in Range(toClient') : /\ r.kind \in {"users", "error"} => fetchingUsers
                                        /\ r.kind \in {"fetched", "nothing"} => fetchingMessages
        <5>1. \A r \in Range(toClient) : r.kind \notin {"users", "error", "fetched", "nothing"}
          BY <2>2 DEF IsAnswer
        <5>2. \A r \in Range(added) : /\ r.kind \in {"users", "error"} => fetchingUsers
                                      /\ r.kind \in {"fetched", "nothing"} => fetchingMessages
          BY <2>4
        <5>3. QED
          BY <3>2, <5>1, <5>2
      <4>2. request' = None /\ net' = "idle" /\ ~(fetchingUsers' /\ fetchingMessages')
        BY <2>1, <2>2 DEF netc
      <4>3. \A r \in Range(toClient') : /\ r.kind \in {"users", "error"} => fetchingUsers'
                                        /\ r.kind \in {"fetched", "nothing"} => fetchingMessages'
        BY <2>1, <4>1 DEF netc
      <4>4. /\ net' # "usersDone" /\ net' \notin {"compare", "messagesDone"}
            /\ ~(request' # None) /\ ~(net' # "idle")
        BY <4>2
      <4>5. QED
        BY <4>2, <4>3, <4>4, Zenon DEF FlagInv
    <3>5. QED
      BY <2>1, <2>2, <2>3, <3>3, <3>4 DEF Lines, OfflineInv, netc
  <2>5. CASE request.peer = None
    <3>0. PICK kind \in {"users", "error"} : toClient' = Append(toClient, Reply(kind, None, 0, 0))
      BY <1>1, <2>5 DEF ServerAnswers
    <3> DEFINE m == Reply(kind, None, 0, 0)
    <3>1. m \in Replies /\ m.kind \in {"users", "error"}
      BY RepliesTyped
    <3>2. toClient' = toClient \o <<m>>
      BY <1>0, <3>0, <3>1
    <3> HIDE DEF m
    <3>3. <<m>> \in Seq(Replies) /\ Range(<<m>>) = {m} /\ Ordered(<<m>>, InTurn)
      BY <3>1, Single
    <3>4. QED
      BY <2>2, <2>4, <2>5, <3>1, <3>2, <3>3
  <2>6. CASE request.peer # None
    <3>1. request.peer \in Peers /\ request.after \in Times
      BY <1>0, <2>1, <2>6 DEF Typed, ServerTypes, Requests
    <3>2. PICK k \in 0..Len(mailbox[request.peer]) :
            NewFrom(request.peer, request.after, k) /\ toClient' = toClient \o AnswerFrom(request.peer, k)
      BY <1>1, <2>6 DEF ServerAnswers
    <3> DEFINE added == AnswerFrom(request.peer, k)
    <3>3. /\ added \in Seq(Replies) /\ Ordered(added, InTurn)
          /\ \A r \in Range(added) : /\ r \in Replies /\ r.kind \in {"fetched", "nothing"}
                                     /\ r.kind = "fetched" => r.time <= now
      BY <3>1, <3>2, Answered
    <3>4. toClient' = toClient \o added
      BY <3>2
    <3> HIDE DEF added
    <3>5. fetchingMessages
      BY <2>2, <2>6
    <3>6. \A r \in Range(added) :
             /\ r \in Replies
             /\ (r.kind \in {"users", "error"} /\ fetchingUsers)
                  \/ (r.kind \in {"fetched", "nothing"} /\ fetchingMessages)
             /\ r.kind = "fetched" => r.time <= now
      BY <3>3, <3>5
    <3>7. QED
      BY <2>4, <3>3, <3>4, <3>6, Zenon
  <2>7. QED
    BY <2>5, <2>6
<1>2. ASSUME NEW p \in Peers, PeerSends(p) PROVE Lines'
  <2> DEFINE m == Reply("live", p, now + 1, 0)
  <2>1. /\ now' = now + 1 /\ toClient' = IF connected THEN Append(toClient, m) ELSE toClient
        /\ UNCHANGED <<request, netc, ui, jobs, net>>
    BY <1>2 DEF PeerSends
  <2>2. m \in Replies /\ m.kind = "live" /\ m.time = now + 1
    BY <1>0, <2>1, RepliesTyped
  <2> HIDE DEF m
  <2>3. LogInInv'
    BY <2>1, JobsKept DEF Lines, netc, ui
  <2>4. CASE ~connected
    BY <1>0, <2>1, <2>3, <2>4, TurnKept, FlagKept, OfflineKept DEF Lines, netc, ui
  <2>5. CASE connected
    <3>1. \A r \in Range(toClient) : r.kind \in {"live", "fetched"} => r.time \in Nat /\ r.time < now + 1
      <4>1. \A r \in Range(toClient) : r.time \in Nat
        BY <1>0, RepliesTyped, QueuesTyped
      <4>2. QED
        BY <1>0, <4>1 DEF Lines, TurnInv
    <3>2. ASSUME NEW a \in Range(toClient) PROVE <<a, m>> \in InTurn
      BY <1>0, <2>2, <3>1, InTurnMeans DEF IsAnswer
    <3>3. toClient' = Append(toClient, m)
      BY <2>1, <2>5
    <3>4. Ordered(toClient', InTurn) /\ Range(toClient') = Range(toClient) \cup {m}
      BY <1>0, <2>2, <3>2, <3>3, OneMore DEF Lines, TurnInv
    <3>5. TurnInv'
      BY <1>0, <2>1, <2>2, <3>1, <3>4 DEF TurnInv
    <3>6. FlagInv'
      BY <2>1, <2>2, <3>4 DEF Lines, FlagInv, IsAnswer, netc
    <3>7. QED
      BY <2>1, <2>3, <2>5, <3>5, <3>6 DEF Lines, OfflineInv, netc
  <2>6. QED
    BY <2>4, <2>5
<1>3. ASSUME ServerRefuses PROVE Lines'
  <2>1. request # None /\ request' = None /\ UNCHANGED <<now, toClient, netc, ui, jobs, net>>
    BY <1>3 DEF ServerRefuses
  <2>2. connected /\ net = "idle" /\ ~(fetchingUsers /\ fetchingMessages)
    BY <2>1 DEF Lines, OfflineInv, FlagInv
  <2>3. LogInInv' /\ TurnInv'
    BY <1>0, <2>1, JobsKept, TurnKept DEF Lines, netc, ui
  <2>4. FlagInv'
    BY <2>1, <2>2 DEF Lines, FlagInv, netc
  <2>5. QED
    BY <2>1, <2>2, <2>3, <2>4 DEF Lines, OfflineInv, netc
<1>4. QED
  BY <1>1, <1>2, <1>3

LEMMA NextWired == Wired /\ [Next]_vars => Wired'
<1> SUFFICES ASSUME Wired, [Next]_vars PROVE Wired'
  OBVIOUS
<1>1. Base /\ Base' /\ Lines
  BY NextBase DEF Wired, Lines
<1>2. CASE UNCHANGED vars
  BY <1>1, <1>2, SameLines DEF vars, server, netc, ui, Same, Wired, Lines
<1>3. QED
  BY <1>1, <1>2, UserLines, AsyncLines, NetLines, ServerLines DEF Next, AsyncThread, Rest, Wired, Lines

LEMMA InitWired == Init => Wired
<1> SUFFICES ASSUME Init PROVE Wired
  OBVIOUS
<1>1. Range(jobs) = {} /\ Range(toClient) = {} /\ Ordered(jobs, LogInLast) /\ Ordered(toClient, InTurn)
  BY Nothing DEF Init
<1>2. QED
  BY <1>1, InitBase DEF Init, Wired, TurnInv, LogInInv, OfflineInv, FlagInv

(* The answers the net thread takes are those it waits for: a reply to a   *)
(* request finds the flag of its request up, though the flag falls only    *)
(* after the callback and the next request may be on its way by then.      *)
THEOREM RepliesAreExpected == Spec => []RepliesExpected
<1>1. Init => Wired
  BY InitWired
<1>2. Wired /\ [Next]_vars => Wired'
  BY NextWired
<1>3. Wired => RepliesExpected
  BY DEF Wired, FlagInv, RepliesExpected
<1>4. QED
  BY <1>1, <1>2, <1>3, PTL DEF Spec

-----------------------------------------------------------------------------
(* With at most one conversation, catching up is in one place at a time.   *)

Greeted == \E r \in Range(toClient) : r.kind = "loggedIn"
Refreshing == {"fetchUsers", "processUsers"}
Queued == \E j \in Range(jobs) : j.op \in Refreshing
Asked == request # None
Answering == \E r \in Range(toClient) : IsAnswer(r)
Asking == asking # None
Comparing == net = "compare"

PlaceInv ==
  /\ Greeted => ~Queued /\ ~Asked /\ ~Answering /\ ~Asking /\ ~Comparing
  /\ Queued => ~Asked /\ ~Answering /\ ~Asking /\ ~Comparing
  /\ Asked => ~Answering /\ ~Asking /\ ~Comparing
  /\ Answering => ~Asking /\ ~Comparing
  /\ Asking => ~Comparing

(* While it is in one of them, a connected user's controls are off... *)
Busy == Greeted \/ Queued \/ Asked \/ Answering \/ Asking \/ Comparing
ControlsInv == connected /\ allowInput => ~Busy

(* ...and from the list on until the messages are asked for, usual ones    *)
(* are ignored.                                                            *)
Processing == \E j \in Range(jobs) : j.op = "processUsers"
IgnoreInv == Processing \/ Asking => ignoreUsualMessages

OneRefresh == {pair \in Jobs \X Jobs : ~(pair[1].op \in Refreshing /\ pair[2].op \in Refreshing)}
OneInv ==
  /\ userIdsToFetchMessagesFrom = <<>>
  /\ Ordered(jobs, OneRefresh)
  /\ \A j \in Range(jobs) : j.op # "fetchMessages"

Token == OneInv /\ PlaceInv /\ ControlsInv /\ IgnoreInv

(* At most one conversation: one, or none. *)
LEMMA AtMostOne ==
  ASSUME Base, OneToFetch
  PROVE  \/ withConversation = <<>>
         \/ /\ withConversation # <<>> /\ Tail(withConversation) = <<>>
            /\ Head(withConversation) \in Peers /\ Head(withConversation) # None
<1>1. withConversation \in Seq(Peers) /\ Len(withConversation) <= 1
  BY ListsAssumption, TypedMeans DEF Base, Typed, ServerTypes, OneToFetch
<1>2. CASE withConversation # <<>>
  <2> DEFINE rest == Tail(withConversation)
  <2>1. /\ Head(withConversation) \in Peers /\ rest \in Seq(Peers)
        /\ Len(withConversation) \in Nat /\ Len(withConversation) # 0
        /\ Len(rest) = Len(withConversation) - 1
    BY <1>1, <1>2
  <2>2. Len(rest) = 0
    BY <1>1, <2>1
  <2> HIDE DEF rest
  <2>3. rest = <<>>
    BY <2>1, <2>2
  <2>4. QED
    BY <1>2, <2>1, <2>3, ListsAssumption DEF rest
<1>3. QED
  BY <1>2

(* Jobs are run, or one is pushed. *)
LEMMA JobRun ==
  ASSUME Base, OneInv, jobs # <<>>, Pop
  PROVE  /\ Head(jobs) \in Range(jobs) /\ Range(jobs') \subseteq Range(jobs) /\ Range(jobs) = {Head(jobs)} \cup Range(jobs')
         /\ Ordered(jobs', OneRefresh)
         /\ \A j \in Range(jobs') : j.op # "fetchMessages"
         /\ Queued' => Queued /\ Head(jobs).op \notin Refreshing
         /\ Processing' => Processing
<1>1. jobs \in Seq(Jobs) /\ jobs' = Tail(jobs)
  BY QueuesTyped DEF Pop
<1>2. /\ Head(jobs) \in Range(jobs) /\ Range(jobs) = {Head(jobs)} \cup Range(jobs')
      /\ Ordered(jobs', OneRefresh) /\ \A b \in Range(jobs') : <<Head(jobs), b>> \in OneRefresh
  BY <1>1, OneLess DEF OneInv
<1>3. Queued' => Queued /\ Head(jobs).op \notin Refreshing
  BY <1>2 DEF Queued, OneRefresh
<1>4. Processing' => Processing
  BY <1>2 DEF Processing
<1>5. QED
  BY <1>2, <1>3, <1>4 DEF OneInv

LEMMA RefreshPushed ==
  ASSUME Base, OneInv, NEW j \in Jobs, Push(j), j.op # "fetchMessages",
         j.op \in Refreshing => ~Queued
  PROVE  /\ Range(jobs') = Range(jobs) \cup {j} /\ Ordered(jobs', OneRefresh)
         /\ \A i \in Range(jobs') : i.op # "fetchMessages"
         /\ Queued' <=> Queued \/ j.op \in Refreshing
         /\ Processing' <=> Processing \/ j.op = "processUsers"
<1>1. jobs \in Seq(Jobs) /\ \A i \in Range(jobs) : i \in Jobs
  BY QueuesTyped
<1>2. \A i \in Range(jobs) : <<i, j>> \in OneRefresh
  BY <1>1 DEF OneRefresh, Queued
<1>3. Range(jobs') = Range(jobs) \cup {j} /\ Ordered(jobs', OneRefresh)
  BY <1>1, <1>2, OneMore DEF Push, OneInv
<1>4. Queued' <=> Queued \/ j.op \in Refreshing
  BY <1>3 DEF Queued
<1>5. Processing' <=> Processing \/ j.op = "processUsers"
  BY <1>3 DEF Processing
<1>6. QED
  BY <1>3, <1>4, <1>5 DEF OneInv

(* What is where stays when what it is told by stays. *)
LEMMA SamePlaces ==
  /\ toClient' = toClient => (Greeted' <=> Greeted) /\ (Answering' <=> Answering)
  /\ jobs' = jobs => (Queued' <=> Queued) /\ (Processing' <=> Processing)
  /\ request' = request => (Asked' <=> Asked)
  /\ asking' = asking => (Asking' <=> Asking)
  /\ net' = net => (Comparing' <=> Comparing)
<1>1. toClient' = toClient => (Greeted' <=> Greeted) /\ (Answering' <=> Answering)
  BY DEF Greeted, Answering
<1>2. jobs' = jobs => (Queued' <=> Queued) /\ (Processing' <=> Processing)
  BY DEF Queued, Processing
<1>3. request' = request => (Asked' <=> Asked)
  BY DEF Asked
<1>4. asking' = asking => (Asking' <=> Asking)
  BY DEF Asking
<1>5. net' = net => (Comparing' <=> Comparing)
  BY DEF Comparing
<1>6. QED
  BY <1>1, <1>2, <1>3, <1>4, <1>5

LEMMA SameToken ==
  ASSUME Token, UNCHANGED <<userIdsToFetchMessagesFrom, jobs, toClient, request, asking, net, connected,
                            allowInput, ignoreUsualMessages>>
  PROVE  Token'
<1>1. OneInv'
  BY DEF Token, OneInv
<1>2. PlaceInv' /\ ControlsInv' /\ IgnoreInv'
  BY SamePlaces DEF Token, PlaceInv, ControlsInv, Busy, IgnoreInv
<1>3. QED
  BY <1>1, <1>2 DEF Token

LEMMA AbortToken == ASSUME Token, NEW a, Abort(a) PROVE Token'
BY SameToken DEF Abort, server, netc, fetch, ui

LEMMA UserToken ==
  ASSUME Base, Lines, OneToFetch, Token, UIThread \/ RunLogIn \/ Disconnected
  PROVE  Token'
<1>0. OneInv /\ PlaceInv /\ ControlsInv /\ IgnoreInv
  BY DEF Token
<1>1. ASSUME LogInClicked PROVE Token'
  <2>1. /\ Push(Job("logIn", None, 0)) /\ ~connected /\ ~connected'
        /\ UNCHANGED <<userIdsToFetchMessagesFrom, toClient, request, asking, net, ignoreUsualMessages>>
    BY <1>1 DEF LogInClicked, server, netc, fetch
  <2>2. /\ Ordered(jobs', OneRefresh) /\ (\A i \in Range(jobs') : i.op # "fetchMessages")
        /\ (Queued' <=> Queued) /\ (Processing' <=> Processing)
    BY <1>0, <2>1, RefreshPushed, JobsTyped DEF Refreshing
  <2>3. QED
    BY <1>0, <2>1, <2>2, SamePlaces DEF Token, OneInv, PlaceInv, ControlsInv, IgnoreInv
<1>2. ASSUME UpdateClicked PROVE Token'
  <2>1. CASE Abort("updateUsersList")
    BY <2>1, AbortToken
  <2>2. CASE ~Abort("updateUsersList")
    <3>1. /\ Push(Job("fetchUsers", None, 0)) /\ allowInput /\ ~allowInput' /\ page = "users"
          /\ UNCHANGED <<userIdsToFetchMessagesFrom, toClient, request, asking, net, ignoreUsualMessages>>
      BY <1>2, <2>2 DEF UpdateClicked, server, netc, fetch
    <3>2. ~Busy
      BY <1>0, <3>1 DEF Lines, OfflineInv, ControlsInv
    <3>3. /\ Ordered(jobs', OneRefresh) /\ (\A i \in Range(jobs') : i.op # "fetchMessages")
          /\ (Processing' <=> Processing)
      BY <1>0, <3>1, <3>2, RefreshPushed, JobsTyped DEF Busy
    <3>4. QED
      BY <1>0, <3>1, <3>2, <3>3, SamePlaces DEF Token, OneInv, PlaceInv, ControlsInv, IgnoreInv, Busy
  <2>3. QED
    BY <2>1, <2>2
<1>3. ASSUME NEW p \in Peers, SendClicked(p) PROVE Token'
  <2>1. /\ Push(Job("send", p, 0))
        /\ UNCHANGED <<userIdsToFetchMessagesFrom, toClient, request, asking, net, ignoreUsualMessages,
                       connected, allowInput>>
    BY <1>3 DEF SendClicked, server, netc, fetch, ui
  <2>2. /\ Ordered(jobs', OneRefresh) /\ (\A i \in Range(jobs') : i.op # "fetchMessages")
        /\ (Queued' <=> Queued) /\ (Processing' <=> Processing)
    BY <1>0, <2>1, RefreshPushed, JobsTyped DEF Refreshing
  <2>3. QED
    BY <1>0, <2>1, <2>2, SamePlaces DEF Token, OneInv, PlaceInv, ControlsInv, IgnoreInv, Busy
<1>4. ASSUME RunLogIn PROVE Token'
  <2>1. /\ jobs # <<>> /\ Head(jobs).op = "logIn" /\ Pop /\ asking = None
        /\ UNCHANGED <<userIdsToFetchMessagesFrom, request, asking, net>>
        /\ \/ toClient' = <<Reply("loggedIn", None, 0, 0)>> /\ UNCHANGED allowInput
           \/ UNCHANGED <<toClient, connected>>
    BY <1>4 DEF RunLogIn, Runs, fetch, netc
  <2>2. Range(jobs') = {} /\ ~connected /\ ~allowInput
    <3>1. Head(jobs) \in Range(jobs) /\ \A b \in Range(Tail(jobs)) : <<Head(jobs), b>> \in LogInLast
      BY <2>1, QueuesTyped, OneLess DEF Lines, LogInInv
    <3>2. QED
      BY <2>1, <3>1 DEF Lines, LogInInv, LogInLast, Pop
  <2>3. net = "idle" /\ request = None /\ toClient = <<>>
    BY <2>2 DEF Lines, OfflineInv
  <2>4. ~Queued' /\ ~Processing' /\ ~Asked' /\ ~Asking' /\ ~Comparing'
    BY <2>1, <2>2, <2>3 DEF Queued, Processing, Asked, Asking, Comparing
  <2>5. Ordered(jobs', OneRefresh)
    BY <1>0, <2>1, JobRun
  <2>6. ~Answering' /\ (~connected' \/ ~allowInput')
    <3>1. CASE toClient' = <<Reply("loggedIn", None, 0, 0)>> /\ UNCHANGED allowInput
      <4> DEFINE m == Reply("loggedIn", None, 0, 0)
      <4>1. m \in Replies /\ m.kind = "loggedIn" /\ toClient' = <<m>>
        BY <3>1, RepliesTyped
      <4> HIDE DEF m
      <4>2. Range(toClient') = {m}
        BY <4>1, Single
      <4>3. QED
        BY <2>2, <3>1, <4>1, <4>2 DEF Answering, IsAnswer
    <3>2. CASE UNCHANGED <<toClient, connected>>
      BY <2>2, <2>3, <3>2, Nothing DEF Answering
    <3>3. QED
      BY <2>1, <3>1, <3>2
  <2>7. QED
    BY <1>0, <2>1, <2>2, <2>4, <2>5, <2>6 DEF Token, OneInv, PlaceInv, ControlsInv, IgnoreInv
<1>5. ASSUME Disconnected PROVE Token'
  <2>1. /\ ~connected' /\ request' = None /\ toClient' = <<>>
        /\ UNCHANGED <<userIdsToFetchMessagesFrom, jobs, asking, net, ignoreUsualMessages>>
    BY <1>5 DEF Disconnected, fetch
  <2>2. ~Greeted' /\ ~Answering' /\ ~Asked'
    BY <2>1, Nothing DEF Greeted, Answering, Asked
  <2>3. QED
    BY <1>0, <2>1, <2>2, SamePlaces DEF Token, OneInv, PlaceInv, ControlsInv, IgnoreInv
<1>6. QED
  BY <1>1, <1>2, <1>3, <1>4, <1>5 DEF UIThread

LEMMA AsyncToken ==
  ASSUME Base, Lines, OneToFetch, Token,
         \/ RunFetchUsers \/ RunProcessUsers \/ RunFetchMessages
         \/ AskForMessages \/ RunReceived \/ RunSend
  PROVE  Token'
<1>0. OneInv /\ PlaceInv /\ ControlsInv /\ IgnoreInv
  BY DEF Token
<1>1. ASSUME RunFetchUsers PROVE Token'
  <2>1. CASE Abort("netFetchUsers")
    BY <2>1, AbortToken
  <2>2. CASE ~Abort("netFetchUsers")
    <3>1. /\ connected /\ jobs # <<>> /\ Pop /\ Head(jobs).op = "fetchUsers"
          /\ UNCHANGED <<userIdsToFetchMessagesFrom, toClient, asking, net, connected, allowInput,
                         ignoreUsualMessages>>
      BY <1>1, <2>2 DEF RunFetchUsers, Runs, fetch, ui
    <3>2. /\ Ordered(jobs', OneRefresh) /\ (\A i \in Range(jobs') : i.op # "fetchMessages")
          /\ ~Queued' /\ (Processing' => Processing) /\ Head(jobs) \in Range(jobs)
      BY <1>0, <3>1, JobRun DEF Refreshing
    <3>3. Queued
      BY <3>1, <3>2 DEF Queued, Refreshing
    <3>4. QED
      BY <1>0, <3>1, <3>2, <3>3, SamePlaces DEF Token, OneInv, PlaceInv, ControlsInv, IgnoreInv, Busy
  <2>3. QED
    BY <2>1, <2>2
<1>2. ASSUME RunProcessUsers PROVE Token'
  <2>1. CASE Abort("processFetchedUsers")
    BY <2>1, AbortToken
  <2>2. CASE ~Abort("processFetchedUsers")
    <3>1. /\ connected /\ jobs # <<>> /\ Pop /\ Head(jobs).op = "processUsers" /\ asking = None
          /\ IF withConversation = <<>>
               THEN /\ userIdsToFetchMessagesFrom' = <<>>
                    /\ ignoreUsualMessages' = FALSE
                    /\ allowInput' = TRUE
                    /\ UNCHANGED <<missingMessagesFetchers, asking>>
               ELSE /\ userIdsToFetchMessagesFrom' = Tail(withConversation)
                    /\ missingMessagesFetchers' = 1
                    /\ asking' = Head(withConversation)
                    /\ HoldsControls
                    /\ UNCHANGED ignoreUsualMessages
          /\ UNCHANGED <<toClient, request, net, connected>>
      BY <1>2, <2>2 DEF RunProcessUsers, Runs, server
    <3>2. /\ Ordered(jobs', OneRefresh) /\ (\A i \in Range(jobs') : i.op # "fetchMessages")
          /\ ~Queued' /\ Head(jobs) \in Range(jobs)
      BY <1>0, <3>1, JobRun DEF Refreshing
    <3>3. Queued /\ Processing /\ ~Processing'
      BY <3>1, <3>2 DEF Queued, Processing, Refreshing
    <3>4. ~Greeted' /\ ~Asked' /\ ~Answering' /\ ~Comparing' /\ ~Queued'
      BY <1>0, <3>1, <3>2, <3>3, SamePlaces DEF PlaceInv
    <3>5. /\ userIdsToFetchMessagesFrom' = <<>>
          /\ Asking' => ignoreUsualMessages' /\ (connected => ~allowInput')
      <4>1. CASE withConversation = <<>>
        BY <3>1, <4>1 DEF Asking
      <4>2. CASE withConversation # <<>>
        <5>1. ~allowInput
          BY <1>0, <3>1, <3>3 DEF ControlsInv, Busy
        <5>2. ignoreUsualMessages
          BY <1>0, <3>3 DEF IgnoreInv
        <5>3. QED
          BY <3>1, <4>2, <5>1, <5>2, AtMostOne DEF HoldsControls, KeepsControls
      <4>3. QED
        BY <4>1, <4>2
    <3>6. OneInv' /\ PlaceInv' /\ IgnoreInv'
      BY <3>2, <3>3, <3>4, <3>5 DEF OneInv, PlaceInv, IgnoreInv
    <3>7. ControlsInv'
      BY <3>1, <3>4, <3>5 DEF ControlsInv, Busy
    <3>8. QED
      BY <3>6, <3>7 DEF Token
  <2>3. QED
    BY <2>1, <2>2
<1>3. ASSUME RunFetchMessages PROVE FALSE
  <2>1. jobs # <<>> /\ Pop /\ Head(jobs).op = "fetchMessages"
    BY <1>3 DEF RunFetchMessages, Runs
  <2>2. QED
    BY <1>0, <2>1, JobRun DEF OneInv
<1>4. ASSUME AskForMessages PROVE Token'
  <2>1. CASE Abort("netFetchMessages") \/ Abort("fetchMissingMessages")
    BY <2>1, AbortToken
  <2>2. CASE ~(Abort("netFetchMessages") \/ Abort("fetchMissingMessages"))
    <3>1. /\ asking # None /\ asking' = None
          /\ UNCHANGED <<userIdsToFetchMessagesFrom, toClient, jobs, net, connected, allowInput,
                         ignoreUsualMessages>>
      BY <1>4, <2>2 DEF AskForMessages, fetch, ui
    <3>2. Asking /\ ~Asking'
      BY <3>1 DEF Asking
    <3>3. QED
      BY <1>0, <3>1, <3>2, SamePlaces DEF Token, OneInv, PlaceInv, ControlsInv, IgnoreInv, Busy
  <2>3. QED
    BY <2>1, <2>2
<1>5. ASSUME jobs # <<>>, Pop, UNCHANGED <<userIdsToFetchMessagesFrom, toClient, request, asking, net, connected,
                                           allowInput, ignoreUsualMessages>>
      PROVE  Token'
  <2>1. /\ Ordered(jobs', OneRefresh) /\ (\A i \in Range(jobs') : i.op # "fetchMessages")
        /\ (Queued' => Queued) /\ (Processing' => Processing)
    BY <1>0, <1>5, JobRun
  <2>2. QED
    BY <1>0, <1>5, <2>1, SamePlaces DEF Token, OneInv, PlaceInv, ControlsInv, IgnoreInv, Busy
<1>6. ASSUME RunReceived PROVE Token'
  <2>1. CASE Abort("listBinarySearch") \/ Abort("databaseAddMessage")
    BY <2>1, AbortToken
  <2>2. CASE ~(Abort("listBinarySearch") \/ Abort("databaseAddMessage"))
    BY <1>5, <1>6, <2>2 DEF RunReceived, Runs, server, netc, fetch, ui
  <2>3. QED
    BY <2>1, <2>2
<1>7. ASSUME RunSend PROVE Token'
  <2>1. CASE Abort("sendMessage")
    BY <2>1, AbortToken
  <2>2. CASE ~Abort("sendMessage")
    BY <1>5, <1>7, <2>2 DEF RunSend, Runs, server, netc, fetch, ui
  <2>3. QED
    BY <2>1, <2>2
<1>8. QED
  BY <1>1, <1>2, <1>3, <1>4, <1>6, <1>7

LEMMA NetToken ==
  ASSUME Base, Lines, OneToFetch, Token, NetThread
  PROVE  Token'
<1>0. OneInv /\ PlaceInv /\ ControlsInv /\ IgnoreInv
  BY DEF Token
<1>1. ASSUME NEW kind, Takes(kind), Taken \/ UNCHANGED toClient
      PROVE  /\ Range(toClient') \subseteq Range(toClient)
             /\ (Greeted' => Greeted) /\ (Answering' => Answering)
  <2>1. Range(toClient') \subseteq Range(toClient)
    BY <1>1, TakesMeans DEF Taken
  <2>2. QED
    BY <2>1 DEF Greeted, Answering
<1>2. ASSUME LoggedIn PROVE Token'
  <2>1. /\ Takes("loggedIn") /\ Taken /\ Push(Job("fetchUsers", None, 0))
        /\ UNCHANGED <<userIdsToFetchMessagesFrom, request, asking, net, connected, allowInput,
                       ignoreUsualMessages>>
    BY <1>2 DEF LoggedIn, netc, fetch, ui
  <2>2. Greeted /\ ~Greeted'
    <3> DEFINE m == Head(toClient)
    <3>1. /\ m \in Range(toClient) /\ m \in Replies /\ m.kind = "loggedIn"
          /\ \A b \in Range(toClient') : b \in Replies /\ <<m, b>> \in InTurn
      BY <2>1, TakesMeans DEF Taken
    <3> HIDE DEF m
    <3>2. \A b \in Range(toClient') : ~(m.kind = "loggedIn" /\ b.kind = "loggedIn")
      BY <3>1, InTurnMeans
    <3>3. QED
      BY <3>1, <3>2 DEF Greeted
  <2>3. Answering' => Answering
    BY <1>1, <2>1
  <2>4. /\ Ordered(jobs', OneRefresh) /\ (\A i \in Range(jobs') : i.op # "fetchMessages")
        /\ (Processing' <=> Processing)
    BY <1>0, <2>1, <2>2, RefreshPushed, JobsTyped DEF PlaceInv
  <2>5. QED
    BY <1>0, <2>1, <2>2, <2>3, <2>4, SamePlaces DEF Token, OneInv, PlaceInv, ControlsInv, IgnoreInv, Busy
<1>3. ASSUME LiveMessage PROVE Token'
  <2> DEFINE m == Head(toClient)
  <2>1. /\ Takes("live") /\ Taken
        /\ Push(Job("received", m.peer, m.time)) \/ UNCHANGED jobs
        /\ UNCHANGED <<userIdsToFetchMessagesFrom, request, asking, net, connected, allowInput,
                       ignoreUsualMessages>>
    BY <1>3 DEF LiveMessage, netc, fetch, ui
  <2>2. Job("received", m.peer, m.time) \in Jobs /\ Job("received", m.peer, m.time).op = "received"
    <3>1. m \in Replies /\ m.kind = "live"
      BY <2>1, TakesMeans
    <3> HIDE DEF m
    <3>2. QED
      BY <3>1, JobsTyped, RepliesTyped
  <2> HIDE DEF m
  <2>3. /\ Ordered(jobs', OneRefresh) /\ (\A i \in Range(jobs') : i.op # "fetchMessages")
        /\ (Queued' <=> Queued) /\ (Processing' <=> Processing)
    <3>1. CASE Push(Job("received", m.peer, m.time))
      BY <1>0, <2>2, <3>1, RefreshPushed DEF Refreshing
    <3>2. CASE UNCHANGED jobs
      BY <1>0, <3>2, SamePlaces DEF OneInv
    <3>3. QED
      BY <2>1, <3>1, <3>2
  <2>4. (Greeted' => Greeted) /\ (Answering' => Answering)
    BY <1>1, <2>1
  <2>5. QED
    BY <1>0, <2>1, <2>3, <2>4, SamePlaces DEF Token, OneInv, PlaceInv, ControlsInv, IgnoreInv, Busy
<1>4. ASSUME UsersFetched PROVE Token'
  <2>1. /\ Takes("users") /\ Taken /\ Push(Job("processUsers", None, 0)) /\ net' = "usersDone"
        /\ ignoreUsualMessages' = TRUE
        /\ UNCHANGED <<userIdsToFetchMessagesFrom, request, asking, connected, allowInput>>
    BY <1>4 DEF UsersFetched, fetch, ui
  <2>2. Answering /\ Head(toClient).more = 0
    <3>1. Head(toClient) \in Range(toClient) /\ Head(toClient) \in Replies /\ Head(toClient).kind = "users"
      BY <2>1, TakesMeans
    <3>2. QED
      BY <3>1, RepliesTyped DEF Answering, IsAnswer
  <2>3. ~Answering'
    BY <2>1, <2>2, LastTaken DEF Taken, Answering
  <2>4. /\ Ordered(jobs', OneRefresh) /\ (\A i \in Range(jobs') : i.op # "fetchMessages")
    BY <1>0, <2>1, <2>2, RefreshPushed, JobsTyped DEF PlaceInv
  <2>5. (Greeted' => Greeted) /\ ~Comparing'
    BY <1>1, <2>1 DEF Comparing
  <2>6. QED
    BY <1>0, <2>1, <2>2, <2>3, <2>4, <2>5, SamePlaces
       DEF Token, OneInv, PlaceInv, ControlsInv, IgnoreInv, Busy
<1>5. ASSUME UsersDone \/ MessagesDone PROVE Token'
  <2>1. /\ UNCHANGED <<userIdsToFetchMessagesFrom, jobs, toClient, request, asking, connected, allowInput,
                       ignoreUsualMessages>>
        /\ net' = "idle"
    BY <1>5 DEF UsersDone, MessagesDone, server, fetch, ui
  <2>2. ~Comparing'
    BY <2>1 DEF Comparing
  <2>3. QED
    BY <1>0, <2>1, <2>2, SamePlaces DEF Token, OneInv, PlaceInv, ControlsInv, IgnoreInv, Busy
<1>6. ASSUME NextMessageFetched PROVE Token'
  <2> DEFINE m == Head(toClient)
  <2>1. /\ Takes("fetched") \/ Takes("nothing")
        /\ UNCHANGED <<request, asking, connected, allowInput, ignoreUsualMessages>>
        /\ \/ /\ jobs' = jobs \o ReceivedJobs(m) /\ Taken /\ UNCHANGED <<userIdsToFetchMessagesFrom, net>>
           \/ /\ m.more = 0 /\ net' = "compare" /\ Taken
              /\ jobs' = jobs \o ReceivedJobs(m) \o NextFetch
              /\ userIdsToFetchMessagesFrom' =
                   IF userIdsToFetchMessagesFrom = <<>> THEN <<>> ELSE Tail(userIdsToFetchMessagesFrom)
           \/ UNCHANGED <<toClient, jobs, userIdsToFetchMessagesFrom, net>>
    BY <1>6 DEF NextMessageFetched, IsLast, NoneFollows, fetch, netc, ui
  <2>2. m \in Range(toClient) /\ m \in Replies /\ m.kind \in {"fetched", "nothing"}
    BY <2>1, TakesMeans
  <2>3. Answering /\ (Greeted' => Greeted) /\ (Answering' => Answering)
    <3>1. Answering
      BY <2>2 DEF Answering, IsAnswer
    <3>2. Taken \/ UNCHANGED toClient
      BY <2>1
    <3>3. QED
      BY <1>1, <2>1, <3>1, <3>2
  <2>4. NextFetch = <<>> /\ userIdsToFetchMessagesFrom' = <<>> /\ userIdsToFetchMessagesFrom = <<>>
    BY <1>0, <2>1 DEF OneInv, NextFetch
  <2>5. m.more = 0 /\ Taken => ~Answering'
    BY <2>1, LastTaken DEF Taken, Answering
  <2> HIDE DEF m
  <2>6. UNCHANGED jobs \/ jobs' = jobs \o ReceivedJobs(m)
    <3>1. CASE m.kind = "fetched"
      <4>1. Job("received", m.peer, m.time) \in Jobs
        BY <2>2, JobsTyped, RepliesTyped
      <4>2. jobs \in Seq(Jobs) /\ ReceivedJobs(m) = <<Job("received", m.peer, m.time)>>
        BY <3>1, QueuesTyped DEF ReceivedJobs
      <4>3. jobs \o ReceivedJobs(m) \o <<>> = jobs \o ReceivedJobs(m)
        BY <4>1, <4>2
      <4>4. QED
        BY <2>1, <2>4, <4>3
    <3>2. CASE m.kind # "fetched"
      <4>1. jobs \in Seq(Jobs) /\ ReceivedJobs(m) = <<>>
        BY <3>2, QueuesTyped DEF ReceivedJobs
      <4>2. QED
        BY <2>1, <2>4, <4>1
    <3>3. QED
      BY <3>1, <3>2
  <2>7. /\ Ordered(jobs', OneRefresh) /\ (\A i \in Range(jobs') : i.op # "fetchMessages")
        /\ (Queued' <=> Queued) /\ (Processing' <=> Processing)
    <3>1. CASE m.kind = "fetched" /\ jobs' = jobs \o ReceivedJobs(m)
      <4> DEFINE j == Job("received", m.peer, m.time)
      <4>1. j \in Jobs /\ j.op = "received"
        BY <2>2, <3>1, JobsTyped, RepliesTyped
      <4>2. jobs' = jobs \o <<j>>
        BY <3>1 DEF ReceivedJobs
      <4> HIDE DEF j
      <4>3. Push(j)
        BY <4>1, <4>2, QueuesTyped DEF Push
      <4>4. QED
        BY <1>0, <4>1, <4>3, RefreshPushed DEF Refreshing
    <3>2. CASE UNCHANGED jobs
      BY <1>0, <3>2, SamePlaces DEF OneInv
    <3>3. CASE m.kind # "fetched" /\ jobs' = jobs \o ReceivedJobs(m)
      <4>1. UNCHANGED jobs
        BY <3>3, QueuesTyped DEF ReceivedJobs
      <4>2. QED
        BY <3>2, <4>1
    <3>4. QED
      BY <2>6, <3>1, <3>2, <3>3
  <2>8. (Comparing' => Comparing) \/ ~Answering'
    BY <2>1, <2>5 DEF Comparing
  <2>9. QED
    BY <1>0, <2>1, <2>3, <2>4, <2>7, <2>8, SamePlaces
       DEF Token, OneInv, PlaceInv, ControlsInv, IgnoreInv, Busy
<1>7. ASSUME Compare PROVE Token'
  <2>1. CASE Abort("fetchersMatch")
    BY <2>1, AbortToken
  <2>2. CASE ~Abort("fetchersMatch")
    <3>1. /\ net = "compare" /\ net' = "messagesDone"
          /\ \/ UNCHANGED <<ignoreUsualMessages, allowInput>>
             \/ ignoreUsualMessages' = FALSE /\ allowInput' = TRUE
          /\ UNCHANGED <<userIdsToFetchMessagesFrom, jobs, toClient, request, asking, connected>>
      BY <1>7, <2>2 DEF Compare, Release, FinishFetching, server, fetch
    <3>2. Comparing /\ ~Comparing'
      BY <3>1 DEF Comparing
    <3>3. ~Busy'
      BY <1>0, <3>1, <3>2, SamePlaces DEF PlaceInv, Busy
    <3>4. ~Processing'
      BY <3>3 DEF Busy, Queued, Processing, Refreshing
    <3>5. QED
      BY <1>0, <3>1, <3>3, <3>4 DEF Token, OneInv, PlaceInv, ControlsInv, IgnoreInv, Busy
  <2>3. QED
    BY <2>1, <2>2
<1>8. ASSUME ErrorReceived PROVE Token'
  <2>1. /\ Takes("error") /\ Taken
        /\ UNCHANGED <<userIdsToFetchMessagesFrom, jobs, request, asking, net, connected, ignoreUsualMessages>>
    BY <1>8 DEF ErrorReceived, fetch, netc
  <2>2. Answering /\ Head(toClient).more = 0
    <3>1. Head(toClient) \in Range(toClient) /\ Head(toClient) \in Replies /\ Head(toClient).kind = "error"
      BY <2>1, TakesMeans
    <3>2. QED
      BY <3>1, RepliesTyped DEF Answering, IsAnswer
  <2>3. ~Answering'
    BY <2>1, <2>2, LastTaken DEF Taken, Answering
  <2>4. Greeted' => Greeted
    BY <1>1, <2>1
  <2>5. QED
    BY <1>0, <2>1, <2>2, <2>3, <2>4, SamePlaces DEF Token, OneInv, PlaceInv, ControlsInv, IgnoreInv, Busy
<1>9. QED
  BY <1>2, <1>3, <1>4, <1>5, <1>6, <1>7, <1>8 DEF NetThread

LEMMA ServerToken ==
  ASSUME Base, Lines, OneToFetch, Token, ServerAnswers \/ ServerRefuses \/ \E p \in Peers : PeerSends(p)
  PROVE  Token'
<1>0. /\ OneInv /\ PlaceInv /\ ControlsInv /\ IgnoreInv
      /\ toClient \in Seq(Replies) /\ \A r \in Range(toClient) : r \in Replies
  BY QueuesTyped DEF Token
<1>1. ASSUME UNCHANGED <<userIdsToFetchMessagesFrom, jobs, asking, net, connected, allowInput, ignoreUsualMessages>>,
             NEW added \in Seq(Replies), toClient' = toClient \o added,
             \A r \in Range(added) : r.kind # "loggedIn",
             \/ UNCHANGED request /\ \A r \in Range(added) : ~IsAnswer(r)
             \/ Asked /\ ~Asked'
      PROVE  Token'
  <2>1. Range(toClient') = Range(toClient) \cup Range(added)
    BY <1>0, <1>1, Joined
  <2>2. (Greeted' <=> Greeted) /\ (Answering' => Answering \/ \E r \in Range(added) : IsAnswer(r))
    BY <1>1, <2>1 DEF Greeted, Answering
  <2>3. (Asked' => Asked) /\ (Answering' => Answering \/ (Asked /\ ~Asked'))
    BY <1>1, <2>2, SamePlaces
  <2>4. QED
    BY <1>0, <1>1, <2>2, <2>3, SamePlaces DEF Token, OneInv, PlaceInv, ControlsInv, IgnoreInv, Busy
<1>2. ASSUME ServerAnswers PROVE Token'
  <2>1. /\ request # None /\ request' = None
        /\ UNCHANGED <<userIdsToFetchMessagesFrom, jobs, asking, net, connected, allowInput, ignoreUsualMessages>>
    BY <1>2 DEF ServerAnswers, netc, fetch, ui
  <2>2. Asked /\ ~Asked'
    BY <2>1 DEF Asked
  <2>3. CASE request.peer = None
    <3>0. PICK kind \in {"users", "error"} : toClient' = Append(toClient, Reply(kind, None, 0, 0))
      BY <1>2, <2>3 DEF ServerAnswers
    <3> DEFINE m == Reply(kind, None, 0, 0)
    <3>1. m \in Replies /\ m.kind \in {"users", "error"}
      BY RepliesTyped
    <3>2. toClient' = toClient \o <<m>>
      BY <1>0, <3>0, <3>1
    <3> HIDE DEF m
    <3>3. <<m>> \in Seq(Replies) /\ Range(<<m>>) = {m}
      BY <3>1, Single
    <3>4. QED
      BY <1>1, <2>1, <2>2, <3>1, <3>2, <3>3
  <2>4. CASE request.peer # None
    <3>1. request.peer \in Peers /\ request.after \in Times
      BY <2>1, <2>4, TypedMeans DEF Base, Typed, ServerTypes, Requests
    <3>2. PICK k \in 0..Len(mailbox[request.peer]) :
            NewFrom(request.peer, request.after, k) /\ toClient' = toClient \o AnswerFrom(request.peer, k)
      BY <1>2, <2>4 DEF ServerAnswers
    <3> DEFINE added == AnswerFrom(request.peer, k)
    <3>3. added \in Seq(Replies) /\ \A r \in Range(added) : r.kind \in {"fetched", "nothing"}
      BY <3>1, <3>2, Answered
    <3>4. toClient' = toClient \o added
      BY <3>2
    <3> HIDE DEF added
    <3>5. QED
      BY <1>1, <2>1, <2>2, <3>3, <3>4
  <2>5. QED
    BY <2>3, <2>4
<1>3. ASSUME NEW p \in Peers, PeerSends(p) PROVE Token'
  <2> DEFINE m == Reply("live", p, now + 1, 0)
  <2>1. /\ toClient' = IF connected THEN Append(toClient, m) ELSE toClient
        /\ now < MaxTime
        /\ UNCHANGED <<userIdsToFetchMessagesFrom, request, jobs, asking, net, connected, allowInput,
                       ignoreUsualMessages>>
    BY <1>3 DEF PeerSends, netc, fetch, ui
  <2>2. m \in Replies /\ m.kind = "live"
    <3>1. now + 1 \in Times
      BY <2>1, TypedMeans, BoundsAssumption DEF Base, Typed, ServerTypes, Times
    <3>2. QED
      BY <3>1, RepliesTyped
  <2> HIDE DEF m
  <2>3. <<m>> \in Seq(Replies) /\ Range(<<m>>) = {m}
    BY <2>2, Single
  <2>4. CASE toClient' = toClient
    BY <2>1, <2>4, SameToken DEF Token
  <2>5. CASE toClient' = Append(toClient, m)
    <3>1. toClient' = toClient \o <<m>>
      BY <1>0, <2>2, <2>5
    <3>2. QED
      BY <1>1, <2>1, <2>2, <2>3, <3>1 DEF IsAnswer
  <2>6. QED
    BY <2>1, <2>4, <2>5
<1>4. ASSUME ServerRefuses PROVE Token'
  <2>1. /\ ~Asked'
        /\ UNCHANGED <<userIdsToFetchMessagesFrom, jobs, toClient, asking, net, connected, allowInput,
                       ignoreUsualMessages>>
    BY <1>4 DEF ServerRefuses, Asked, netc, fetch, ui
  <2>2. QED
    BY <1>0, <2>1, SamePlaces DEF Token, OneInv, PlaceInv, ControlsInv, IgnoreInv, Busy
<1>5. QED
  BY <1>2, <1>3, <1>4

LEMMA ListKept == Next => withConversation' = withConversation
<1>1. UIThread => withConversation' = withConversation
  BY DEF UIThread, LogInClicked, UpdateClicked, SendClicked, Abort, server
<1>2. AsyncThread => withConversation' = withConversation
  BY DEF AsyncThread, RunLogIn, RunFetchUsers, RunProcessUsers, RunFetchMessages, AskForMessages,
         RunReceived, RunSend, Abort, server
<1>3. NetThread => withConversation' = withConversation
  BY DEF NetThread, LoggedIn, LiveMessage, UsersFetched, UsersDone, ErrorReceived,
         NextMessageFetched, Compare, MessagesDone, Abort, server
<1>4. Disconnected \/ ServerAnswers \/ ServerRefuses \/ (\E p \in Peers : PeerSends(p)) \/ Rest
        => withConversation' = withConversation
  BY DEF Disconnected, ServerAnswers, ServerRefuses, PeerSends, Rest, vars, server
<1>5. QED
  BY <1>1, <1>2, <1>3, <1>4 DEF Next

InOnePlace == Wired /\ (OneToFetch => Token)

LEMMA NextToken == InOnePlace /\ [Next]_vars => InOnePlace'
<1> SUFFICES ASSUME InOnePlace, [Next]_vars PROVE InOnePlace'
  OBVIOUS
<1>1. Wired' /\ Base /\ Lines
  BY NextWired DEF InOnePlace, Wired, Lines
<1>2. OneToFetch' => OneToFetch
  BY ListKept DEF OneToFetch, vars, server
<1>3. ASSUME OneToFetch PROVE Token'
  <2>1. Token
    BY <1>3 DEF InOnePlace
  <2>2. CASE UNCHANGED vars
    BY <2>1, <2>2, SameToken DEF vars, server, netc, fetch, ui
  <2>3. QED
    BY <1>1, <1>3, <2>1, <2>2, UserToken, AsyncToken, NetToken, ServerToken DEF Next, AsyncThread, Rest
<1>4. QED
  BY <1>1, <1>2, <1>3 DEF InOnePlace

LEMMA InitToken == Init => InOnePlace
<1> SUFFICES ASSUME Init PROVE InOnePlace
  OBVIOUS
<1>1. Range(jobs) = {} /\ Range(toClient) = {} /\ Ordered(jobs, OneRefresh)
  BY Nothing DEF Init
<1>2. ~Greeted /\ ~Queued /\ ~Asked /\ ~Answering /\ ~Asking /\ ~Comparing /\ ~Processing /\ ~connected
  BY <1>1 DEF Init, Greeted, Queued, Asked, Answering, Asking, Comparing, Processing
<1>3. OneInv
  BY <1>1 DEF Init, OneInv
<1>4. QED
  BY <1>2, <1>3, InitWired DEF InOnePlace, Token, PlaceInv, ControlsInv, IgnoreInv

(* While a request is with the server or its answer on the way the user    *)
(* cannot start another: with at most one conversation the controls come   *)
(* back only when the last answer has been taken and compared.             *)
THEOREM NoSecondRequest == Spec => []BlockedWhileFetching
<1>1. Init => InOnePlace
  BY InitToken
<1>2. InOnePlace /\ [Next]_vars => InOnePlace'
  BY NextToken
<1>3. InOnePlace => BlockedWhileFetching
  <2> SUFFICES ASSUME InOnePlace, OneToFetch, Fetching PROVE ~allowInput
    BY DEF BlockedWhileFetching
  <2>1. \A r \in Range(toClient) : r.kind \notin {"live", "loggedIn"} => IsAnswer(r)
    <3>1. \A r \in Range(toClient) : r \in Replies
      BY QueuesTyped DEF InOnePlace, Wired
    <3>2. QED
      BY <3>1, RepliesTyped DEF IsAnswer
  <2>2. connected /\ (Asked \/ Answering)
    BY <2>1 DEF Fetching, Asked, Answering
  <2>3. QED
    BY <2>2 DEF InOnePlace, Token, ControlsInv, Busy
<1>4. QED
  BY <1>1, <1>2, <1>3, PTL DEF Spec

-----------------------------------------------------------------------------
(* With at most one conversation, no message is stored twice.              *)

Asks == Asked /\ request.peer # None
NoReceived == \A j \in Range(jobs) : j.op # "received"

(* No message waits behind a new list, and none waits twice... *)
Behind ==
  {pair \in Jobs \X Jobs : /\ ~(pair[1].op = "processUsers" /\ pair[2].op = "received")
                           /\ pair[1].op = "received" => pair[1] # pair[2]}
(* ...so that what is stored is known when messages are asked for: those   *)
(* that come in answer are younger.                                        *)
AskInv ==
  /\ Asking \/ Asks => NoReceived
  /\ Asks => \A t \in stored[request.peer] : t <= request.after

(* What waits, or is on its way, is not stored; what is on its way does    *)
(* not wait as well.                                                       *)
NewInv ==
  /\ \A p \in Peers : \A t \in stored[p] : t <= now
  /\ \A j \in Range(jobs) : j.op = "received" => j.time \notin stored[j.peer] /\ j.time <= now
  /\ \A r \in Range(toClient) : r.kind \in {"live", "fetched"} =>
       r.time \notin stored[r.peer] /\ Job("received", r.peer, r.time) \notin Range(jobs)

Received == Ordered(jobs, Behind) /\ AskInv /\ NewInv /\ failed # "databaseAddMessage"

(* A step that stores nothing and brings nothing new. *)
LEMMA NothingNew ==
  ASSUME Base, Base', Received, Ordered(jobs', Behind),
         \A j \in Range(jobs') : j.op = "received" => j \in Range(jobs),
         \A r \in Range(toClient') : r.kind \in {"live", "fetched"} => r \in Range(toClient),
         stored' = stored, now <= now',
         Asking' => Asking \/ NoReceived',
         Asks' => request' = request,
         failed' # "databaseAddMessage"
  PROVE  Received'
<1>1. /\ \A p \in Peers : \A t \in stored[p] : t \in Nat
      /\ \A j \in Range(jobs) : j.op = "received" => j.time \in Nat
      /\ now \in Nat /\ now' \in Nat
  <2>1. Typed /\ Typed' /\ Times \subseteq Nat /\ \A j \in Range(jobs) : j \in Jobs
    BY TypedMeans, QueuesTyped DEF Base
  <2>2. \A j \in Range(jobs) : j.op = "received" => j.time \in Nat
    BY <2>1, JobsTyped
  <2>3. QED
    BY <2>1, <2>2 DEF Typed, ServerTypes, StoreTypes
<1>2. NewInv'
  <2>1. \A p \in Peers : \A t \in stored[p] : t <= now'
    BY <1>1 DEF Received, NewInv
  <2>2. \A j \in Range(jobs') : j.op = "received" => j.time \notin stored[j.peer] /\ j.time <= now'
    BY <1>1 DEF Received, NewInv
  <2>3. ASSUME NEW r \in Range(toClient'), r.kind \in {"live", "fetched"}
        PROVE  r.time \notin stored[r.peer] /\ Job("received", r.peer, r.time) \notin Range(jobs')
    <3>1. /\ r.time \notin stored[r.peer] /\ Job("received", r.peer, r.time) \notin Range(jobs)
      BY <2>3 DEF Received, NewInv
    <3>2. Job("received", r.peer, r.time).op = "received"
      BY DEF Job
    <3>3. QED
      BY <3>1, <3>2
  <2>4. QED
    BY <2>1, <2>2, <2>3 DEF NewInv
<1>3. AskInv'
  <2>1. Asks' => Asks /\ request' = request
    BY DEF Asks, Asked
  <2>2. NoReceived => NoReceived'
    BY DEF NoReceived
  <2>3. QED
    BY <2>1, <2>2 DEF Received, AskInv
<1>4. QED
  BY <1>2, <1>3 DEF Received

(* ...of which many leave the jobs alone or take one, *)
LEMMA FewerJobs ==
  ASSUME Base, Received, jobs' = jobs \/ (jobs # <<>> /\ Pop)
  PROVE  Ordered(jobs', Behind) /\ Range(jobs') \subseteq Range(jobs)
<1>1. CASE jobs' = jobs
  BY <1>1 DEF Received
<1>2. CASE jobs # <<>> /\ Pop
  BY <1>2, QueuesTyped, OneLess DEF Received, Pop
<1>3. QED
  BY <1>1, <1>2

(* ...or push one that is not about a message. *)
LEMMA OtherPushed ==
  ASSUME Base, Received, NEW j \in Jobs, Push(j), j.op # "received"
  PROVE  /\ Ordered(jobs', Behind) /\ Range(jobs') = Range(jobs) \cup {j}
         /\ \A i \in Range(jobs') : i.op = "received" => i \in Range(jobs)
<1>1. \A i \in Range(jobs) : <<i, j>> \in Behind
  BY QueuesTyped DEF Behind
<1>2. QED
  BY <1>1, QueuesTyped, OneMore DEF Push, Received

LEMMA AbortReceived ==
  ASSUME Base, Base', Received, NEW a, Abort(a), a # "databaseAddMessage"
  PROVE  Received'
<1>1. UNCHANGED <<jobs, toClient, stored, now, asking, request>> /\ failed' = a
  BY DEF Abort, server, store
<1>2. (Asking' <=> Asking) /\ now \in Nat
  BY <1>1, SamePlaces, QueuesTyped
<1>3. QED
  BY <1>1, <1>2, NothingNew DEF Received

LEMMA UserReceived ==
  ASSUME Base, Base', Lines, Received, UIThread \/ RunLogIn \/ Disconnected
  PROVE  Received'
<1>0. now \in Nat
  BY QueuesTyped
<1>1. ASSUME NEW j \in Jobs, Push(j), j.op # "received",
             UNCHANGED <<toClient, stored, now, asking, request, failed>>
      PROVE  Received'
  <2>1. Asking' <=> Asking
    BY <1>1, SamePlaces
  <2>2. QED
    BY <1>0, <1>1, <2>1, OtherPushed, NothingNew DEF Received
<1>2. ASSUME LogInClicked PROVE Received'
  BY <1>1, <1>2, JobsTyped DEF LogInClicked, server, store
<1>3. ASSUME UpdateClicked PROVE Received'
  <2>1. CASE Abort("updateUsersList")
    BY <2>1, AbortReceived
  <2>2. CASE ~Abort("updateUsersList")
    BY <1>1, <1>3, <2>2, JobsTyped DEF UpdateClicked, server, store
  <2>3. QED
    BY <2>1, <2>2
<1>4. ASSUME NEW p \in Peers, SendClicked(p) PROVE Received'
  BY <1>1, <1>4, JobsTyped DEF SendClicked, server, store
<1>5. ASSUME RunLogIn PROVE Received'
  <2>1. /\ jobs # <<>> /\ Pop /\ UNCHANGED <<stored, now, asking, request, failed>>
        /\ toClient' = <<Reply("loggedIn", None, 0, 0)>> \/ UNCHANGED toClient
    BY <1>5 DEF RunLogIn, Runs, store
  <2>2. \A r \in Range(toClient') : r.kind \in {"live", "fetched"} => r \in Range(toClient)
    <3> DEFINE m == Reply("loggedIn", None, 0, 0)
    <3>1. m \in Replies /\ m.kind = "loggedIn" /\ (toClient' = <<m>> \/ UNCHANGED toClient)
      BY <2>1, RepliesTyped
    <3> HIDE DEF m
    <3>2. Range(<<m>>) = {m}
      BY <3>1, Single
    <3>3. QED
      BY <3>1, <3>2
  <2>3. Asking' <=> Asking
    BY <2>1, SamePlaces
  <2>4. QED
    BY <1>0, <2>1, <2>2, <2>3, FewerJobs, NothingNew DEF Received
<1>6. ASSUME Disconnected PROVE Received'
  <2>1. UNCHANGED <<jobs, stored, now, asking, failed>> /\ request' = None /\ toClient' = <<>>
    BY <1>6 DEF Disconnected, store
  <2>2. Range(toClient') = {} /\ ~Asks' /\ (Asking' <=> Asking)
    BY <2>1, Nothing, SamePlaces DEF Asks, Asked
  <2>3. QED
    BY <1>0, <2>1, <2>2, NothingNew DEF Received
<1>7. QED
  BY <1>2, <1>3, <1>4, <1>5, <1>6 DEF UIThread

LEMMA AsyncReceived ==
  ASSUME Base, Base', Lines, OneToFetch, Token, Received,
         \/ RunFetchUsers \/ RunProcessUsers \/ RunFetchMessages
         \/ AskForMessages \/ RunReceived \/ RunSend
  PROVE  Received'
<1>0. /\ now \in Nat /\ Typed /\ Typed' /\ Times \subseteq Nat /\ jobs \in Seq(Jobs)
      /\ \A j \in Range(jobs) : j \in Jobs
      /\ \A r \in Range(toClient) : r \in Replies
  BY QueuesTyped, TypedMeans DEF Base
<1>1. ASSUME RunFetchUsers PROVE Received'
  <2>1. CASE Abort("netFetchUsers")
    BY <2>1, AbortReceived
  <2>2. CASE ~Abort("netFetchUsers")
    <3>1. /\ jobs # <<>> /\ Pop /\ request' = Request(None, 0)
          /\ UNCHANGED <<toClient, stored, now, asking, failed>>
      BY <1>1, <2>2 DEF RunFetchUsers, Runs, store
    <3>2. ~Asks' /\ (Asking' <=> Asking)
      BY <3>1, SamePlaces DEF Asks, Request
    <3>3. QED
      BY <1>0, <3>1, <3>2, FewerJobs, NothingNew DEF Received
  <2>3. QED
    BY <2>1, <2>2
<1>2. ASSUME RunProcessUsers PROVE Received'
  <2>1. CASE Abort("processFetchedUsers")
    BY <2>1, AbortReceived
  <2>2. CASE ~Abort("processFetchedUsers")
    <3>1. /\ jobs # <<>> /\ Pop /\ Head(jobs).op = "processUsers"
          /\ UNCHANGED <<request, toClient, stored, now, failed>>
      BY <1>2, <2>2 DEF RunProcessUsers, Runs, server, store
    <3>2. NoReceived'
      <4>1. \A b \in Range(Tail(jobs)) : <<Head(jobs), b>> \in Behind
        BY <1>0, <3>1, OneLess DEF Received
      <4>2. QED
        BY <3>1, <4>1 DEF Behind, NoReceived, Pop
    <3>3. QED
      BY <1>0, <3>1, <3>2, FewerJobs, NothingNew DEF Received
  <2>3. QED
    BY <2>1, <2>2
<1>3. ASSUME RunFetchMessages PROVE FALSE
  <2>1. jobs # <<>> /\ Pop /\ Head(jobs).op = "fetchMessages"
    BY <1>3 DEF RunFetchMessages, Runs
  <2>2. QED
    BY <2>1, JobRun DEF Token, OneInv
<1>4. ASSUME AskForMessages PROVE Received'
  <2>1. CASE Abort("netFetchMessages") \/ Abort("fetchMissingMessages")
    BY <2>1, AbortReceived
  <2>2. CASE ~(Abort("netFetchMessages") \/ Abort("fetchMissingMessages"))
    <3>1. /\ asking # None /\ asking' = None /\ request' = Request(asking, AsksAfter(asking))
          /\ UNCHANGED <<toClient, stored, now, jobs, failed>>
      BY <1>4, <2>2 DEF AskForMessages, store
    <3>2. asking \in Peers /\ request'.peer = asking /\ request'.after = AsksAfter(asking)
      BY <1>0, <3>1 DEF Typed, JobTypes, Request
    <3>3. \A t \in stored[asking] : t <= AsksAfter(asking)
      BY <1>0, <3>2, AskedTyped
    <3>4. NoReceived
      BY <3>1 DEF Received, AskInv, Asking
    <3>5. AskInv'
      BY <3>1, <3>2, <3>3, <3>4 DEF AskInv, NoReceived
    <3>6. NewInv'
      BY <3>1 DEF Received, NewInv
    <3>7. QED
      BY <3>1, <3>5, <3>6 DEF Received
  <2>3. QED
    BY <2>1, <2>2
<1>5. ASSUME RunReceived PROVE Received'
  <2> DEFINE j == Head(jobs)
  <2>1. jobs # <<>> /\ j.op = "received" /\ j \in Range(jobs) /\ j \in Jobs
    BY <1>0, <1>5, OneLess DEF RunReceived, Runs
  <2>2. j.peer \in Peers /\ j.time \in Times /\ j.time \in Nat /\ j = Job("received", j.peer, j.time)
        /\ j.time \notin stored[j.peer] /\ j.time <= now
    <3> HIDE DEF j
    <3>1. j.peer \in Peers /\ j.time \in Times /\ j = Job("received", j.peer, j.time)
      BY <2>1, JobsTyped
    <3>2. j.time \notin stored[j.peer] /\ j.time <= now
      BY <2>1 DEF Received, NewInv
    <3>3. QED
      BY <1>0, <3>1, <3>2
  <2>3. CASE Abort("listBinarySearch")
    BY <2>3, AbortReceived
  <2>4. CASE ~Abort("listBinarySearch")
    <3>1. /\ stored' = [stored EXCEPT ![j.peer] = @ \cup {j.time}] /\ jobs' = Tail(jobs)
          /\ UNCHANGED <<request, toClient, now, asking, failed>>
      BY <1>5, <2>2, <2>4 DEF RunReceived, Pop, server
    <3>2. /\ Range(jobs) = {j} \cup Range(jobs') /\ Ordered(jobs', Behind)
          /\ \A b \in Range(jobs') : <<j, b>> \in Behind
      BY <1>0, <2>1, <3>1, OneLess DEF Received
    <3> HIDE DEF j
    <3>3. /\ \A p \in Peers : \A t \in stored'[p] : t \in stored[p] \/ (p = j.peer /\ t = j.time)
      BY <1>0, <2>2, <3>1 DEF Typed, StoreTypes
    <3>4. \A b \in Range(jobs') : b # j
      BY <2>1, <3>2 DEF Behind
    <3>5. \A b \in Range(jobs') : b.op = "received" => b.time \notin stored'[b.peer] /\ b.time <= now
      <4> SUFFICES ASSUME NEW b \in Range(jobs'), b.op = "received"
                   PROVE  b.time \notin stored'[b.peer] /\ b.time <= now
        OBVIOUS
      <4>1. b \in Jobs /\ b \in Range(jobs) /\ b # j
        BY <1>0, <3>2, <3>4
      <4>2. b.peer \in Peers /\ b = Job("received", b.peer, b.time)
        BY <4>1, JobsTyped
      <4>3. b.time \notin stored[b.peer] /\ b.time <= now
        BY <4>1 DEF Received, NewInv
      <4>4. ~(b.peer = j.peer /\ b.time = j.time)
        BY <2>2, <4>1, <4>2
      <4>5. QED
        BY <3>3, <4>2, <4>3, <4>4
    <3>6. \A r \in Range(toClient) : r.kind \in {"live", "fetched"} =>
            r.time \notin stored'[r.peer] /\ Job("received", r.peer, r.time) \notin Range(jobs')
      <4> SUFFICES ASSUME NEW r \in Range(toClient), r.kind \in {"live", "fetched"}
                   PROVE  r.time \notin stored'[r.peer] /\ Job("received", r.peer, r.time) \notin Range(jobs')
        OBVIOUS
      <4>1. r.peer \in Peers
        BY <1>0, RepliesTyped
      <4>2. r.time \notin stored[r.peer] /\ Job("received", r.peer, r.time) \notin Range(jobs)
        BY DEF Received, NewInv
      <4>3. ~(r.peer = j.peer /\ r.time = j.time)
        BY <2>1, <2>2, <4>2
      <4>4. QED
        BY <3>2, <3>3, <4>1, <4>2, <4>3
    <3>7. NewInv'
      <4>1. \A p \in Peers : \A t \in stored'[p] : t <= now
        BY <2>2, <3>3 DEF Received, NewInv
      <4>2. QED
        BY <3>1, <3>5, <3>6, <4>1 DEF NewInv
    <3>8. ~Asking /\ ~Asks
      BY <2>1 DEF Received, AskInv, NoReceived
    <3>9. AskInv'
      BY <3>1, <3>8 DEF AskInv, Asking, Asks, Asked
    <3>10. QED
      BY <3>1, <3>2, <3>7, <3>9 DEF Received
  <2>5. QED
    BY <2>3, <2>4
<1>6. ASSUME RunSend PROVE Received'
  <2>1. CASE Abort("sendMessage")
    BY <2>1, AbortReceived
  <2>2. CASE ~Abort("sendMessage")
    <3>1. /\ jobs # <<>> /\ Pop
          /\ now' = now + 1 \/ now' = now
          /\ UNCHANGED <<request, toClient, asking, stored, failed>>
      BY <1>6, <2>2 DEF RunSend, Runs, server, store
    <3>2. Asking' <=> Asking
      BY <3>1, SamePlaces
    <3>3. QED
      BY <1>0, <3>1, <3>2, FewerJobs, NothingNew DEF Received
  <2>3. QED
    BY <2>1, <2>2
<1>7. QED
  BY <1>1, <1>2, <1>3, <1>4, <1>5, <1>6

(* The message at the head of the queue becomes a job. *)
LEMMA MessageQueued ==
  ASSUME Base, Base', Lines, Received, NEW kind \in {"live", "fetched"}, Takes(kind), Taken,
         Push(Job("received", Head(toClient).peer, Head(toClient).time)),
         UNCHANGED <<stored, now, failed>>,
         ~Processing, ~Asking', ~Asks',
         kind = "live" => \A r \in Range(toClient) : ~IsAnswer(r)
  PROVE  Received'
<1> DEFINE m == Head(toClient)
           j == Job("received", m.peer, m.time)
<1>0. /\ jobs \in Seq(Jobs) /\ now \in Nat /\ Typed /\ Times \subseteq Nat
      /\ \A i \in Range(jobs) : i \in Jobs
      /\ m \in Replies /\ m \in Range(toClient) /\ m.kind = kind
      /\ Range(toClient) = {m} \cup Range(toClient')
      /\ \A b \in Range(toClient') : b \in Replies /\ <<m, b>> \in InTurn
  BY QueuesTyped, TypedMeans, TakesMeans DEF Base, Taken
<1>1. Append(jobs, j) = jobs'
  BY DEF Push
<1> HIDE DEF m
<1>2. /\ m.peer \in Peers /\ m.time \in Times /\ m.time \in Nat /\ m.time <= now
      /\ m.time \notin stored[m.peer] /\ j \notin Range(jobs)
  BY <1>0, RepliesTyped DEF Received, NewInv, Lines, TurnInv
<1>3. j \in Jobs /\ j.op = "received" /\ j.peer = m.peer /\ j.time = m.time
  BY <1>2, JobsTyped
<1> HIDE DEF j
<1>4. \A i \in Range(jobs) : <<i, j>> \in Behind
  BY <1>0, <1>2, <1>3 DEF Behind, Processing
<1>5. Range(jobs') = Range(jobs) \cup {j} /\ Ordered(jobs', Behind)
  <2>1. Ordered(jobs, Behind)
    BY DEF Received
  <2>2. /\ Range(Append(jobs, j)) = Range(jobs) \cup {j}
        /\ \A R : Ordered(jobs, R) /\ (\A a \in Range(jobs) : <<a, j>> \in R) => Ordered(Append(jobs, j), R)
    BY <1>0, <1>3, OneMore
  <2>3. Ordered(Append(jobs, j), Behind)
    BY <1>4, <2>1, <2>2
  <2>4. QED
    BY <1>1, <2>2, <2>3
<1>6. ASSUME NEW r \in Range(toClient'), r.kind \in {"live", "fetched"}
      PROVE  r.time \notin stored[r.peer] /\ Job("received", r.peer, r.time) \notin Range(jobs')
  <2>1. r.time \notin stored[r.peer] /\ Job("received", r.peer, r.time) \notin Range(jobs) /\ r \in Replies
    BY <1>0, <1>6 DEF Received, NewInv
  <2>2. m.time < r.time
    <3>1. kind = "live" => r.kind = "live"
      BY <1>0, <1>6 DEF IsAnswer
    <3>2. QED
      BY <1>0, <1>6, <2>1, <3>1, InTurnMeans
  <2>3. r.peer \in Peers /\ r.time \in Times
    BY <1>6, <2>1, RepliesTyped
  <2>4. Job("received", r.peer, r.time).time = r.time
    BY <2>3, JobsTyped
  <2>5. Job("received", r.peer, r.time) # j
    BY <1>0, <1>2, <1>3, <2>2, <2>3, <2>4
  <2>6. QED
    BY <1>5, <2>1, <2>5
<1>7. NewInv'
  <2>1. \A i \in Range(jobs') : i.op = "received" => i.time \notin stored[i.peer] /\ i.time <= now
    BY <1>2, <1>3, <1>5 DEF Received, NewInv
  <2>2. QED
    BY <1>6, <2>1 DEF Received, NewInv
<1>8. QED
  BY <1>5, <1>7 DEF Received, AskInv

LEMMA NetReceived ==
  ASSUME Base, Base', Lines, OneToFetch, Token, Received, NetThread
  PROVE  Received'
<1>0. /\ now \in Nat /\ Typed /\ PlaceInv /\ IgnoreInv /\ OneInv /\ jobs \in Seq(Jobs)
  BY QueuesTyped, TypedMeans DEF Base, Token
<1>1. ASSUME NEW kind, Takes(kind), Taken \/ UNCHANGED toClient
      PROVE  Range(toClient') \subseteq Range(toClient)
  BY <1>1, TakesMeans DEF Taken
<1>2. ASSUME Range(toClient') \subseteq Range(toClient), UNCHANGED <<jobs, stored, now, asking, request>>,
             failed' # "databaseAddMessage"
      PROVE  Received'
  <2>1. Asking' <=> Asking
    BY <1>2, SamePlaces
  <2>2. QED
    BY <1>0, <1>2, <2>1, NothingNew DEF Received
<1>3. ASSUME NEW j \in Jobs, Push(j), j.op # "received", Range(toClient') \subseteq Range(toClient),
             UNCHANGED <<stored, now, asking, request, failed>>
      PROVE  Received'
  <2>1. Asking' <=> Asking
    BY <1>3, SamePlaces
  <2>2. QED
    BY <1>0, <1>3, <2>1, OtherPushed, NothingNew DEF Received
<1>4. ASSUME LoggedIn PROVE Received'
  <2>1. /\ Takes("loggedIn") /\ Taken /\ Push(Job("fetchUsers", None, 0))
        /\ UNCHANGED <<stored, now, asking, request, failed>>
    BY <1>4 DEF LoggedIn, store
  <2>2. QED
    BY <1>1, <1>3, <2>1, JobsTyped
<1>5. ASSUME UsersFetched PROVE Received'
  <2>1. /\ Takes("users") /\ Taken /\ Push(Job("processUsers", None, 0))
        /\ UNCHANGED <<stored, now, asking, request, failed>>
    BY <1>5 DEF UsersFetched, store
  <2>2. QED
    BY <1>1, <1>3, <2>1, JobsTyped
<1>6. ASSUME LiveMessage PROVE Received'
  <2>1. /\ Takes("live") /\ Taken /\ UNCHANGED <<stored, now, asking, request, failed>>
        /\ \/ Accepts /\ Push(Job("received", Head(toClient).peer, Head(toClient).time))
           \/ UNCHANGED jobs
    BY <1>6 DEF LiveMessage, store
  <2>2. CASE UNCHANGED jobs
    BY <1>1, <1>2, <2>1, <2>2 DEF Received
  <2>3. CASE Accepts /\ Push(Job("received", Head(toClient).peer, Head(toClient).time))
    <3>1. ~fetchingUsers /\ ~fetchingMessages /\ ~ignoreUsualMessages /\ connected
      BY <2>1, <2>3, TakesMeans DEF Accepts, TakesUsual
    <3>2. request = None /\ \A r \in Range(toClient) : ~IsAnswer(r)
      BY <3>1, NothingAwaited DEF Lines
    <3>3. ~Processing /\ ~Asking' /\ ~Asks'
      BY <1>0, <2>1, <3>1, <3>2, SamePlaces DEF IgnoreInv, Asks, Asked
    <3>4. QED
      BY <2>1, <2>3, <3>2, <3>3, MessageQueued
  <2>4. QED
    BY <2>1, <2>2, <2>3
<1>7. ASSUME UsersDone \/ MessagesDone PROVE Received'
  BY <1>2, <1>7 DEF UsersDone, MessagesDone, server, store, Received
<1>8. ASSUME NextMessageFetched PROVE Received'
  <2> DEFINE m == Head(toClient)
  <2>1. /\ Takes("fetched") \/ Takes("nothing")
        /\ UNCHANGED <<now, request, asking, stored>>
        /\ \/ /\ jobs' = jobs \o ReceivedJobs(m) /\ Taken /\ UNCHANGED failed
           \/ /\ jobs' = jobs \o ReceivedJobs(m) \o NextFetch /\ Taken /\ UNCHANGED failed
           \/ /\ UNCHANGED <<toClient, jobs>> /\ failed' = "missingMessagesFetchers"
    BY <1>8 DEF NextMessageFetched, store
  <2>2. m \in Range(toClient) /\ m \in Replies /\ m.kind \in {"fetched", "nothing"}
    BY <2>1, TakesMeans
  <2>3. ~Processing /\ ~Asking' /\ ~Asks'
    <3>1. Answering
      BY <2>2 DEF Answering, IsAnswer
    <3>2. ~Queued /\ ~Asking /\ ~Asked
      BY <1>0, <3>1 DEF PlaceInv
    <3>3. QED
      BY <2>1, <3>2, SamePlaces DEF Queued, Processing, Refreshing, Asks
  <2>4. CASE UNCHANGED <<toClient, jobs>> /\ failed' = "missingMessagesFetchers"
    BY <1>2, <2>1, <2>4
  <2>5. CASE Taken /\ UNCHANGED failed /\ (\/ jobs' = jobs \o ReceivedJobs(m)
                                           \/ jobs' = jobs \o ReceivedJobs(m) \o NextFetch)
    <3>1. NextFetch = <<>>
      BY <1>0 DEF OneInv, NextFetch
    <3>2. CASE m.kind = "fetched"
      <4> DEFINE j == Job("received", m.peer, m.time)
      <4>1. j \in Jobs
        BY <2>2, <3>2, JobsTyped, RepliesTyped
      <4>2. ReceivedJobs(m) = <<j>> /\ Takes("fetched")
        BY <2>1, <3>2 DEF ReceivedJobs, Takes
      <4>3. Append(jobs, j) = jobs \o <<j>> /\ jobs \o <<j>> \o <<>> = jobs \o <<j>>
        <5> HIDE DEF j
        <5>1. QED
          BY <1>0, <4>1
      <4>4. Push(j)
        BY <2>5, <3>1, <4>2, <4>3 DEF Push
      <4>5. QED
        BY <2>1, <2>3, <2>5, <4>2, <4>4, MessageQueued
    <3>3. CASE m.kind # "fetched"
      <4>1. ReceivedJobs(m) = <<>>
        BY <3>3 DEF ReceivedJobs
      <4>2. jobs' = jobs
        BY <1>0, <2>5, <3>1, <4>1
      <4>3. QED
        BY <1>1, <1>2, <2>1, <2>5, <4>2 DEF Received
    <3>4. QED
      BY <3>2, <3>3
  <2>6. QED
    BY <2>1, <2>4, <2>5
<1>9. ASSUME Compare PROVE Received'
  <2>1. CASE Abort("fetchersMatch")
    BY <2>1, AbortReceived
  <2>2. CASE ~Abort("fetchersMatch")
    BY <1>2, <1>9, <2>2 DEF Compare, server, store, Received
  <2>3. QED
    BY <2>1, <2>2
<1>10. ASSUME ErrorReceived PROVE Received'
  <2>1. Takes("error") /\ Taken /\ UNCHANGED <<jobs, stored, now, asking, request, failed>>
    BY <1>10 DEF ErrorReceived, store
  <2>2. QED
    BY <1>1, <1>2, <2>1 DEF Received
<1>11. QED
  BY <1>4, <1>5, <1>6, <1>7, <1>8, <1>9, <1>10 DEF NetThread

LEMMA ServerReceived ==
  ASSUME Base, Base', Lines, Received, ServerAnswers \/ ServerRefuses \/ \E p \in Peers : PeerSends(p)
  PROVE  Received'
<1>0. /\ now \in Nat /\ Typed /\ Times \subseteq Nat /\ toClient \in Seq(Replies)
      /\ \A j \in Range(jobs) : j \in Jobs
  BY QueuesTyped, TypedMeans DEF Base
<1>1. ASSUME NEW added \in Seq(Replies), toClient' = toClient \o added,
             UNCHANGED <<jobs, stored, asking, failed>>, now <= now', now' \in Nat,
             \A r \in Range(added) : r.kind \in {"live", "fetched"} =>
               r.time \notin stored[r.peer] /\ Job("received", r.peer, r.time) \notin Range(jobs),
             Asks' => request' = request
      PROVE  Received'
  <2>1. Range(toClient') = Range(toClient) \cup Range(added)
    BY <1>0, <1>1, Joined
  <2>2. \A r \in Range(toClient') : r.kind \in {"live", "fetched"} =>
          r.time \notin stored[r.peer] /\ Job("received", r.peer, r.time) \notin Range(jobs)
    BY <1>1, <2>1 DEF Received, NewInv
  <2>3. /\ \A p \in Peers : \A t \in stored[p] : t <= now'
        /\ \A j \in Range(jobs) : j.op = "received" => j.time \notin stored[j.peer] /\ j.time <= now'
    <3>1. /\ \A p \in Peers : \A t \in stored[p] : t \in Nat
          /\ \A j \in Range(jobs) : j.op = "received" => j.time \in Nat
      BY <1>0, JobsTyped DEF Typed, StoreTypes
    <3>2. QED
      BY <1>0, <1>1, <3>1 DEF Received, NewInv
  <2>4. NewInv'
    BY <1>1, <2>2, <2>3 DEF NewInv
  <2>5. AskInv'
    <3>1. (Asking' <=> Asking) /\ (Asks' => Asks /\ request' = request)
      BY <1>1, SamePlaces DEF Asks, Asked
    <3>2. QED
      BY <1>1, <3>1 DEF Received, AskInv, NoReceived
  <2>6. QED
    BY <1>1, <2>4, <2>5 DEF Received
<1>2. ASSUME ServerAnswers PROVE Received'
  <2>1. /\ request # None /\ request' = None /\ ~Asks' /\ now \in Nat
        /\ UNCHANGED <<jobs, stored, asking, failed, now>>
    BY <1>0, <1>2 DEF ServerAnswers, store, Asks, Asked
  <2>2. CASE request.peer = None
    <3>0. PICK kind \in {"users", "error"} : toClient' = Append(toClient, Reply(kind, None, 0, 0))
      BY <1>2, <2>2 DEF ServerAnswers
    <3> DEFINE m == Reply(kind, None, 0, 0)
    <3>1. m \in Replies /\ m.kind \in {"users", "error"}
      BY RepliesTyped
    <3>2. toClient' = toClient \o <<m>>
      BY <1>0, <3>0, <3>1
    <3> HIDE DEF m
    <3>3. <<m>> \in Seq(Replies) /\ Range(<<m>>) = {m}
      BY <3>1, Single
    <3>4. \A r \in Range(<<m>>) : r.kind \notin {"live", "fetched"}
      BY <3>1, <3>3
    <3>5. now <= now' /\ now' \in Nat
      BY <2>1
    <3>6. QED
      BY <1>1, <2>1, <3>2, <3>3, <3>4, <3>5
  <2>3. CASE request.peer # None
    <3>1. request.peer \in Peers /\ request.after \in Times
      BY <1>0, <2>1, <2>3 DEF Typed, ServerTypes, Requests
    <3>2. PICK k \in 0..Len(mailbox[request.peer]) :
            NewFrom(request.peer, request.after, k) /\ toClient' = toClient \o AnswerFrom(request.peer, k)
      BY <1>2, <2>3 DEF ServerAnswers
    <3> DEFINE added == AnswerFrom(request.peer, k)
    <3>3. /\ added \in Seq(Replies)
          /\ \A r \in Range(added) :
               /\ r.kind \in {"fetched", "nothing"} /\ r.peer = request.peer
               /\ r.kind = "fetched" => r.time \in Times /\ r.time > request.after
      BY <3>1, <3>2, Answered
    <3>4. toClient' = toClient \o added
      BY <3>2
    <3> HIDE DEF added
    <3>5. NoReceived /\ \A t \in stored[request.peer] : t <= request.after
      BY <2>1, <2>3 DEF Received, AskInv, Asks, Asked
    <3>6. ASSUME NEW r \in Range(added), r.kind \in {"live", "fetched"}
          PROVE  r.time \notin stored[r.peer] /\ Job("received", r.peer, r.time) \notin Range(jobs)
      <4>1. r.peer = request.peer /\ r.time \in Times /\ r.time > request.after
        BY <3>3, <3>6
      <4>2. r.time \notin stored[r.peer]
        <5>1. r.time \in Nat /\ request.after \in Nat
          BY <1>0, <3>1, <4>1
        <5>2. QED
          BY <3>5, <4>1, <5>1
      <4>3. Job("received", r.peer, r.time).op = "received"
        BY DEF Job
      <4>4. QED
        BY <3>5, <4>2, <4>3 DEF NoReceived
    <3>7. QED
      BY <1>1, <2>1, <3>3, <3>4, <3>6
  <2>4. QED
    BY <2>2, <2>3
<1>3. ASSUME NEW p \in Peers, PeerSends(p) PROVE Received'
  <2> DEFINE m == Reply("live", p, now + 1, 0)
  <2>1. /\ now < MaxTime /\ now' = now + 1
        /\ toClient' = IF connected THEN Append(toClient, m) ELSE toClient
        /\ UNCHANGED <<request, jobs, stored, asking, failed>>
    BY <1>3 DEF PeerSends, store
  <2>2. m \in Replies /\ m.kind = "live" /\ m.peer = p /\ m.time = now + 1 /\ now + 1 \in Times
    <3>1. now + 1 \in Times
      BY <1>0, <2>1, BoundsAssumption DEF Times
    <3>2. QED
      BY <3>1, RepliesTyped
  <2>3. now + 1 \notin stored[p] /\ Job("received", p, now + 1) \notin Range(jobs)
    <3>1. now + 1 \notin stored[p]
      BY <1>0 DEF Received, NewInv
    <3>2. ASSUME Job("received", p, now + 1) \in Range(jobs) PROVE FALSE
      <4>1. /\ Job("received", p, now + 1).op = "received"
            /\ Job("received", p, now + 1).time = now + 1
        BY <2>2, JobsTyped
      <4>2. now + 1 <= now
        BY <3>2, <4>1 DEF Received, NewInv
      <4>3. QED
        BY <1>0, <4>2
    <3>3. QED
      BY <3>1, <3>2
  <2> HIDE DEF m
  <2>4. <<m>> \in Seq(Replies) /\ Range(<<m>>) = {m} /\ now <= now' /\ now' \in Nat
    BY <1>0, <2>1, <2>2, Single
  <2>5. CASE toClient' = Append(toClient, m)
    <3>1. toClient' = toClient \o <<m>>
      BY <1>0, <2>2, <2>5
    <3>2. \A r \in Range(<<m>>) : r.time \notin stored[r.peer] /\ Job("received", r.peer, r.time) \notin Range(jobs)
      BY <2>2, <2>3, <2>4
    <3>3. QED
      BY <1>1, <2>1, <2>4, <3>1, <3>2
  <2>6. CASE toClient' = toClient
    <3>1. Asking' <=> Asking
      BY <2>1, SamePlaces
    <3>2. /\ Ordered(jobs', Behind) /\ failed' # "databaseAddMessage" /\ stored' = stored /\ request' = request
          /\ \A j \in Range(jobs') : j \in Range(jobs)
          /\ \A r \in Range(toClient') : r \in Range(toClient)
      BY <2>1, <2>6 DEF Received
    <3>3. QED
      BY <2>4, <3>1, <3>2, NothingNew
  <2>7. QED
    BY <2>1, <2>5, <2>6
<1>4. ASSUME ServerRefuses PROVE Received'
  <2>1. ~Asks' /\ UNCHANGED <<jobs, toClient, stored, asking, failed, now>>
    BY <1>4 DEF ServerRefuses, store, Asks, Asked
  <2>2. Asking' <=> Asking
    BY <2>1, SamePlaces
  <2>3. QED
    BY <1>0, <2>1, <2>2, NothingNew DEF Received
<1>5. QED
  BY <1>2, <1>3, <1>4

StoredOnce == InOnePlace /\ (OneToFetch => Received)

LEMMA NextStored == StoredOnce /\ [Next]_vars => StoredOnce'
<1> SUFFICES ASSUME StoredOnce, [Next]_vars PROVE StoredOnce'
  OBVIOUS
<1>1. InOnePlace' /\ Base /\ Base' /\ Lines
  BY NextToken DEF StoredOnce, InOnePlace, Wired, Lines
<1>2. OneToFetch' => OneToFetch
  BY ListKept DEF OneToFetch, vars, server
<1>3. ASSUME OneToFetch PROVE Received'
  <2>1. Token /\ Received
    BY <1>3 DEF StoredOnce, InOnePlace
  <2>2. CASE UNCHANGED vars
    <3>1. UNCHANGED <<jobs, toClient, stored, now, asking, request, failed>> /\ now \in Nat
      BY <2>2, <1>1, QueuesTyped DEF vars, server, store
    <3>2. Asking' <=> Asking
      BY <3>1, SamePlaces
    <3>3. QED
      BY <1>1, <2>1, <3>1, <3>2, NothingNew DEF Received
  <2>3. QED
    BY <1>1, <1>3, <2>1, <2>2, UserReceived, AsyncReceived, NetReceived, ServerReceived
       DEF Next, AsyncThread, Rest
<1>4. QED
  BY <1>1, <1>2, <1>3 DEF StoredOnce

LEMMA InitStored == Init => StoredOnce
<1> SUFFICES ASSUME Init PROVE StoredOnce
  OBVIOUS
<1>1. Range(jobs) = {} /\ Range(toClient) = {} /\ Ordered(jobs, Behind)
  BY Nothing DEF Init
<1>2. AskInv
  BY <1>1 DEF Init, AskInv, Asking, Asks, Asked
<1>3. NewInv
  BY <1>1 DEF Init, NewInv
<1>4. QED
  BY <1>1, <1>2, <1>3, InitToken DEF Init, StoredOnce, Received

(* No message is stored twice, though it may be relayed, fetched and, after *)
(* a refresh or a new connection, fetched again: messages are asked for     *)
(* when all that came before are stored, and by the youngest of those.      *)
THEOREM NothingStoredTwice == Spec => []InsertSucceeds
<1>1. Init => StoredOnce
  BY InitStored
<1>2. StoredOnce /\ [Next]_vars => StoredOnce'
  BY NextStored
<1>3. StoredOnce => InsertSucceeds
  BY DEF StoredOnce, Received, InsertSucceeds
<1>4. QED
  BY <1>1, <1>2, <1>3, PTL DEF Spec
-----------------------------------------------------------------------------
(* Nothing is missed for good, with any number of conversations.           *)

(* What has become of a message: it is too old to be looked at, ignored,   *)
(* stored, waiting, on its way, or will be in the answer to a request.     *)
Known(p, t) ==
  \/ t <= MinimalPossibleTimestamp
  \/ t <= since \/ t \in dropped[p] \/ t \in stored[p]
  \/ Job("received", p, t) \in Range(jobs)
  \/ \E r \in Range(toClient) : r.kind \in {"live", "fetched"} /\ r.peer = p /\ r.time = t
  \/ request # None /\ request.peer = p /\ request.after < t
Hidden(p) == {t \in Range(mailbox[p]) : ~Known(p, t)}

(* A job that makes the conversation with p younger. *)
Grows(j, p) == j.op \in {"received", "send"} /\ j.peer = p

(* Messages of p are asked for before the conversation gets younger: p is  *)
(* the next to be asked for, or is to become so, while nothing comes of p  *)
(* and the user is kept from writing; or the job to ask is queued in front.*)
Quiet(p) ==
  /\ \A j \in Range(jobs) : ~Grows(j, p)
  /\ \A r \in Range(toClient) : ~(r.kind = "fetched" /\ r.peer = p)
  /\ request # None => request.peer # p
  /\ ignoreUsualMessages /\ ~allowInput
Ahead(p) ==
  \E k \in 1..Len(jobs) : /\ jobs[k].op = "fetchMessages" /\ jobs[k].peer = p
                          /\ \A i \in 1..Len(jobs) : i < k => ~Grows(jobs[i], p)
Due(p) ==
  \/ asking = p
  \/ p \in Range(userIdsToFetchMessagesFrom) /\ Quiet(p)
  \/ Ahead(p)

HiddenInv ==
  \A p \in Peers : \A t \in Hidden(p) :
    /\ t > MostRecent(p)
    /\ connected => IF page = "users" THEN Due(p) ELSE ~listed /\ ~allowInput

(* What is there is of the past, and without a connection it is older than *)
(* the end of the last one.                                                *)
PastInv ==
  /\ since <= now
  /\ \A p \in Peers : \A t \in stored[p] \cup own[p] : t <= now
  /\ \A j \in Range(jobs) : j.op = "received" => j.time <= now /\ (~connected => j.time <= since)
  /\ \A p \in Peers : mailbox[p] # <<>> => p \in Range(withConversation)

(* Until the first list of a connection, no messages are asked for and     *)
(* none is written; what was relayed waits in front of that list.          *)
ListFirst == {pair \in Jobs \X Jobs : ~(pair[1].op = "processUsers" /\ pair[2].op = "received")}
Fresh == connected /\ page = "logIn"
Unasked ==
  /\ asking = None /\ net # "compare"
  /\ request # None => request.peer = None
  /\ \A r \in Range(toClient) : r.kind \notin {"fetched", "nothing"}
  /\ \A j \in Range(jobs) : j.op \notin {"fetchMessages", "send"}
  /\ Ordered(jobs, ListFirst)
  /\ Processing => ignoreUsualMessages
FreshInv == Fresh => Unasked

Followed == Wired /\ PastInv /\ FreshInv /\ HiddenInv

(* What most steps do to what is of the past. *)
LEMMA PastKept ==
  ASSUME Base, Base', PastInv, now <= now',
         since' = since \/ since' = now,
         connected' \/ ~connected \/ since' = now,
         \A j \in Range(jobs') : j.op = "received" => j \in Range(jobs) \/ (j.time <= now /\ connected'),
         \A p \in Peers : \A t \in stored'[p] \cup own'[p] : t \in stored[p] \cup own[p] \/ t <= now',
         withConversation' = withConversation,
         \A p \in Peers : mailbox'[p] # <<>> => mailbox[p] # <<>> \/ p \in Range(withConversation)
  PROVE  PastInv'
<1>1. /\ Times \subseteq Nat /\ now \in Nat /\ now' \in Nat /\ since \in Nat /\ since' \in Nat
      /\ \A p \in Peers : stored[p] \cup own[p] \subseteq Nat
      /\ \A j \in Range(jobs) : j.op = "received" => j.time \in Nat
      /\ \A j \in Range(jobs') : j.op = "received" => j.time \in Nat
  <2>1. Typed /\ Typed' /\ Times \subseteq Nat /\ \A j \in Range(jobs) : j \in Jobs
    BY TypedMeans, QueuesTyped DEF Base
  <2>2. jobs' \in Seq(Jobs) /\ now' \in Times /\ since \in Times /\ since' \in Times /\ now \in Times
    BY <2>1 DEF Typed, JobTypes, ServerTypes, PastTypes
  <2>3. \A j \in Range(jobs') : j \in Jobs
    BY <2>2, InRange
  <2>4. \A p \in Peers : stored[p] \cup own[p] \subseteq Times
    BY <2>1 DEF Typed, StoreTypes
  <2>5. QED
    BY <2>1, <2>2, <2>3, <2>4, JobsTyped
<1>2. since' <= now'
  BY <1>1 DEF PastInv
<1>3. ASSUME NEW p \in Peers, NEW t \in stored'[p] \cup own'[p] PROVE t <= now'
  <2>1. t \in stored[p] \cup own[p] \/ t <= now'
    BY <1>3
  <2>2. CASE t \in stored[p] \cup own[p]
    <3>1. t \in Nat /\ t <= now
      BY <1>1, <2>2 DEF PastInv
    <3>2. QED
      BY <1>1, <3>1
  <2>3. QED
    BY <2>1, <2>2
<1>4. ASSUME NEW j \in Range(jobs'), j.op = "received"
      PROVE  j.time <= now' /\ (~connected' => j.time <= since')
  <2>1. CASE j \in Range(jobs)
    <3>1. j.time <= now /\ (~connected => j.time <= since) /\ since <= now /\ j.time \in Nat
      BY <1>1, <1>4, <2>1 DEF PastInv
    <3>2. j.time <= now'
      BY <1>1, <3>1
    <3>3. ASSUME ~connected' PROVE j.time <= since'
      BY <1>1, <3>1, <3>3
    <3>4. QED
      BY <3>2, <3>3
  <2>2. CASE j.time <= now /\ connected'
    BY <1>1, <1>4, <2>2
  <2>3. QED
    BY <1>4, <2>1, <2>2
<1>5. \A p \in Peers : mailbox'[p] # <<>> => p \in Range(withConversation')
  BY DEF PastInv
<1>6. QED
  BY <1>2, <1>3, <1>4, <1>5 DEF PastInv

LEMMA AbortPast ==
  ASSUME Base, Base', PastInv, NEW a, Abort(a)
  PROVE  PastInv'
BY DEF Abort, server, netc, past, store, PastInv

(* Jobs are left alone, run or pushed. *)
LEMMA JobsAre ==
  ASSUME Base
  PROVE  /\ jobs' = jobs => Range(jobs') = Range(jobs)
         /\ jobs # <<>> /\ Pop => /\ Head(jobs) \in Range(jobs) /\ Head(jobs) \in Jobs
                                  /\ Range(jobs) = {Head(jobs)} \cup Range(jobs')
                                  /\ \A R : Ordered(jobs, R) => Ordered(jobs', R)
         /\ \A j \in Jobs : Push(j) => /\ Range(jobs') = Range(jobs) \cup {j}
                                       /\ jobs' = jobs \o <<j>> /\ <<j>> \in Seq(Jobs)
<1>1. jobs \in Seq(Jobs)
  BY QueuesTyped
<1>2. jobs # <<>> /\ Pop => /\ Head(jobs) \in Range(jobs) /\ Head(jobs) \in Jobs
                            /\ Range(jobs) = {Head(jobs)} \cup Range(jobs')
                            /\ \A R : Ordered(jobs, R) => Ordered(jobs', R)
  BY <1>1, OneLess DEF Pop
<1>3. ASSUME NEW j \in Jobs, Push(j)
      PROVE  Range(jobs') = Range(jobs) \cup {j} /\ jobs' = jobs \o <<j>> /\ <<j>> \in Seq(Jobs)
  BY <1>1, <1>3, OneMore DEF Push
<1>4. QED
  BY <1>2, <1>3

LEMMA UserPast ==
  ASSUME Base, Base', Lines, PastInv, UIThread \/ RunLogIn \/ Disconnected
  PROVE  PastInv'
<1>0. /\ now \in Nat /\ now' \in Nat
  BY QueuesTyped, TypedMeans, BoundsAssumption DEF Base, Typed, ServerTypes, Times
<1>1. ASSUME NEW j \in Jobs, Push(j), j.op # "received",
             UNCHANGED <<now, since, connected, stored, own, withConversation, mailbox>>
      PROVE  PastInv'
  <2>1. Range(jobs') = Range(jobs) \cup {j}
    BY <1>1, JobsAre
  <2>2. \A i \in Range(jobs') : i.op = "received" => i \in Range(jobs)
    BY <1>1, <2>1
  <2>3. QED
    BY <1>0, <1>1, <2>2, PastKept
<1>2. ASSUME LogInClicked PROVE PastInv'
  BY <1>1, <1>2, JobsTyped DEF LogInClicked, server, netc, store, past
<1>3. ASSUME UpdateClicked PROVE PastInv'
  <2>1. CASE Abort("updateUsersList")
    BY <2>1, AbortPast
  <2>2. CASE ~Abort("updateUsersList")
    BY <1>1, <1>3, <2>2, JobsTyped DEF UpdateClicked, server, netc, store, past
  <2>3. QED
    BY <2>1, <2>2
<1>4. ASSUME NEW p \in Peers, SendClicked(p) PROVE PastInv'
  BY <1>1, <1>4, JobsTyped DEF SendClicked, server, netc, store, past
<1>5. ASSUME RunLogIn PROVE PastInv'
  <2>1. /\ jobs # <<>> /\ Pop /\ UNCHANGED <<now, stored, own, withConversation, mailbox>>
        /\ since' = since \/ since' = now
        /\ connected' \/ UNCHANGED connected
    BY <1>5 DEF RunLogIn, Runs, store, netc
  <2>2. QED
    BY <1>0, <2>1, JobsAre, PastKept
<1>6. ASSUME Disconnected PROVE PastInv'
  <2>1. UNCHANGED <<jobs, now, stored, own, withConversation, mailbox>> /\ since' = now
    BY <1>6 DEF Disconnected, store
  <2>2. QED
    BY <1>0, <2>1, PastKept
<1>7. QED
  BY <1>2, <1>3, <1>4, <1>5, <1>6 DEF UIThread

LEMMA AsyncPast ==
  ASSUME Base, Base', Lines, PastInv,
         \/ RunFetchUsers \/ RunProcessUsers \/ RunFetchMessages
         \/ AskForMessages \/ RunReceived \/ RunSend
  PROVE  PastInv'
<1>0. /\ now \in Nat /\ now' \in Nat /\ Typed /\ jobs \in Seq(Jobs)
  BY QueuesTyped, TypedMeans, BoundsAssumption DEF Base, Typed, ServerTypes, Times
<1>1. ASSUME jobs' = jobs \/ (jobs # <<>> /\ Pop),
             UNCHANGED <<now, since, connected, stored, own, withConversation, mailbox>>
      PROVE  PastInv'
  BY <1>0, <1>1, JobsAre, PastKept
<1>2. CASE \E a : Abort(a)
  BY <1>2, AbortPast
<1>3. CASE ~\E a : Abort(a)
  <2>1. ASSUME RunFetchUsers PROVE PastInv'
    BY <1>1, <1>3, <2>1 DEF RunFetchUsers, Runs, store, past
  <2>2. ASSUME RunProcessUsers PROVE PastInv'
    BY <1>1, <1>3, <2>2 DEF RunProcessUsers, Runs, server, store, past
  <2>3. ASSUME RunFetchMessages PROVE PastInv'
    BY <1>1, <2>3 DEF RunFetchMessages, Runs, server, netc, store, past
  <2>4. ASSUME AskForMessages PROVE PastInv'
    BY <1>1, <1>3, <2>4 DEF AskForMessages, store, past
  <2>5. ASSUME RunReceived PROVE PastInv'
    <3> DEFINE j == Head(jobs)
    <3>1. /\ jobs # <<>> /\ Pop /\ j.op = "received"
          /\ stored' = [stored EXCEPT ![j.peer] = @ \cup {j.time}]
          /\ UNCHANGED <<now, since, connected, own, withConversation, mailbox>>
      BY <1>3, <2>5 DEF RunReceived, Runs, server, netc, past
    <3>2. j \in Range(jobs) /\ Range(jobs') \subseteq Range(jobs)
      BY <3>1, JobsAre
    <3> HIDE DEF j
    <3>3. j.time <= now
      BY <3>1, <3>2 DEF PastInv
    <3>4. \A p \in Peers : \A t \in stored'[p] : t \in stored[p] \/ t <= now
      BY <1>0, <3>1, <3>3 DEF Typed, StoreTypes
    <3>5. QED
      BY <1>0, <3>1, <3>2, <3>4, PastKept
  <2>6. ASSUME RunSend PROVE PastInv'
    <3>1. CASE now' = now
      <4>1. UNCHANGED <<stored, own>>
        BY <1>0, <1>3, <2>6, <3>1 DEF RunSend, store
      <4>2. QED
        BY <1>1, <1>3, <2>6, <3>1, <4>1 DEF RunSend, Runs, server, netc, past
    <3>2. CASE now' # now
      <4> DEFINE q == Head(jobs).peer
      <4>1. /\ jobs # <<>> /\ Pop /\ now' = now + 1
            /\ own' = [own EXCEPT ![q] = @ \cup {now + 1}]
            /\ UNCHANGED <<stored, since, connected, withConversation, mailbox>>
        BY <1>3, <2>6, <3>2 DEF RunSend, Runs, server, netc, past
      <4> HIDE DEF q
      <4>2. \A p \in Peers : \A t \in own'[p] : t \in own[p] \/ t <= now'
        BY <1>0, <4>1 DEF Typed, StoreTypes
      <4>3. Range(jobs') \subseteq Range(jobs) /\ now <= now'
        BY <1>0, <4>1, JobsAre
      <4>4. QED
        BY <4>1, <4>2, <4>3, PastKept
    <3>3. QED
      BY <3>1, <3>2
  <2>7. QED
    BY <2>1, <2>2, <2>3, <2>4, <2>5, <2>6
<1>4. QED
  BY <1>2, <1>3

(* What the net thread pushes for a reply to a request. *)
LEMMA FetchedJobs ==
  ASSUME Base, NEW m \in Replies, m.kind \in {"fetched", "nothing"}
  PROVE  /\ ReceivedJobs(m) \in Seq(Jobs) /\ NextFetch \in Seq(Jobs)
         /\ \A j \in Range(ReceivedJobs(m)) :
              j = Job("received", m.peer, m.time) /\ m.kind = "fetched"
              /\ j.op = "received" /\ j.peer = m.peer /\ j.time = m.time
         /\ m.kind = "fetched" => Job("received", m.peer, m.time) \in Range(ReceivedJobs(m))
         /\ userIdsToFetchMessagesFrom = <<>> => Range(NextFetch) = {}
         /\ userIdsToFetchMessagesFrom # <<>> =>
              /\ Head(userIdsToFetchMessagesFrom) \in Peers
              /\ Range(userIdsToFetchMessagesFrom) = {Head(userIdsToFetchMessagesFrom)} \cup Range(Tail(userIdsToFetchMessagesFrom))
              /\ NextFetch = <<Job("fetchMessages", Head(userIdsToFetchMessagesFrom), 0)>>
         /\ \A j \in Range(NextFetch) : j.op = "fetchMessages"
<1> DEFINE u == userIdsToFetchMessagesFrom
<1>1. u \in Seq(Peers)
  BY TypedMeans DEF Base, Typed, FetchTypes
<1>2. /\ ReceivedJobs(m) \in Seq(Jobs)
      /\ \A j \in Range(ReceivedJobs(m)) :
           j = Job("received", m.peer, m.time) /\ m.kind = "fetched"
           /\ j.op = "received" /\ j.peer = m.peer /\ j.time = m.time
      /\ m.kind = "fetched" => Job("received", m.peer, m.time) \in Range(ReceivedJobs(m))
  <2>1. CASE m.kind = "fetched"
    <3> DEFINE j == Job("received", m.peer, m.time)
    <3>1. j \in Jobs /\ j.op = "received" /\ j.peer = m.peer /\ j.time = m.time
      BY <2>1, RepliesTyped, JobsTyped
    <3>2. ReceivedJobs(m) = <<j>>
      BY <2>1 DEF ReceivedJobs
    <3> HIDE DEF j
    <3>3. <<j>> \in Seq(Jobs) /\ Range(<<j>>) = {j}
      BY <3>1, Single
    <3>4. QED
      BY <2>1, <3>1, <3>2, <3>3 DEF j
  <2>2. CASE m.kind # "fetched"
    <3>1. ReceivedJobs(m) = <<>>
      BY <2>2 DEF ReceivedJobs
    <3>2. QED
      BY <2>2, <3>1, Nothing
  <2>3. QED
    BY <2>1, <2>2
<1>3. CASE u = <<>>
  <2>1. NextFetch = <<>>
    BY <1>3 DEF NextFetch
  <2>2. NextFetch \in Seq(Jobs) /\ Range(NextFetch) = {}
    BY <2>1, Nothing
  <2>3. QED
    BY <1>3, <2>2, <1>2
<1>4. CASE u # <<>>
  <2> DEFINE f == Job("fetchMessages", Head(u), 0)
  <2>1. Head(u) \in Peers /\ Range(u) = {Head(u)} \cup Range(Tail(u))
    BY <1>1, <1>4, OneLess
  <2>2. f \in Jobs /\ f.op = "fetchMessages"
    BY <2>1, JobsTyped
  <2>3. NextFetch = <<f>>
    BY <1>4 DEF NextFetch
  <2> HIDE DEF f
  <2>4. NextFetch \in Seq(Jobs) /\ Range(NextFetch) = {f}
    BY <2>2, <2>3, Single
  <2>5. QED
    BY <1>4, <1>2, <2>1, <2>2, <2>3, <2>4 DEF f
<1>5. QED
  BY <1>3, <1>4

LEMMA NetPast ==
  ASSUME Base, Base', Lines, PastInv, NetThread
  PROVE  PastInv'
<1>0. /\ now \in Nat /\ jobs \in Seq(Jobs) /\ \A r \in Range(toClient) : r \in Replies
  BY QueuesTyped
<1>1. ASSUME NEW added \in Seq(Jobs), jobs' = jobs \o added, connected',
             \A j \in Range(added) : j.op = "received" => j.time <= now,
             UNCHANGED <<now, since, stored, own, withConversation, mailbox>>
      PROVE  PastInv'
  <2>1. Range(jobs') = Range(jobs) \cup Range(added)
    BY <1>0, <1>1, Joined
  <2>2. QED
    BY <1>0, <1>1, <2>1, PastKept
<1>2. ASSUME UNCHANGED <<jobs, connected, now, since, stored, own, withConversation, mailbox>>
      PROVE  PastInv'
  BY <1>0, <1>2, PastKept
<1>3. ASSUME NEW j \in Jobs, Push(j), connected', j.op = "received" => j.time <= now,
             UNCHANGED <<now, since, stored, own, withConversation, mailbox>>
      PROVE  PastInv'
  <2>1. jobs' = jobs \o <<j>> /\ <<j>> \in Seq(Jobs) /\ Range(<<j>>) = {j}
    BY <1>3, JobsAre, Single
  <2>2. QED
    BY <1>1, <1>3, <2>1
<1>4. ASSUME LoggedIn PROVE PastInv'
  BY <1>3, <1>4, JobsTyped DEF LoggedIn, Takes, netc, store, past
<1>5. ASSUME UsersFetched PROVE PastInv'
  BY <1>3, <1>5, JobsTyped DEF UsersFetched, Takes, store, past
<1>6. ASSUME LiveMessage PROVE PastInv'
  <2> DEFINE m == Head(toClient)
             j == Job("received", m.peer, m.time)
  <2>1. /\ Takes("live") /\ connected' /\ connected
        /\ UNCHANGED <<now, since, stored, own, withConversation, mailbox>>
        /\ Push(j) \/ UNCHANGED jobs
    BY <1>6 DEF LiveMessage, Takes, netc, store
  <2>2. m \in Range(toClient) /\ m \in Replies /\ m.kind = "live"
    BY <2>1, TakesMeans
  <2>3. j \in Jobs /\ j.time = m.time
    BY <2>2, RepliesTyped, JobsTyped
  <2>4. m.time <= now
    <3> HIDE DEF m
    <3>1. QED
      BY <2>2 DEF Lines, TurnInv
  <2> HIDE DEF m, j
  <2>5. QED
    BY <1>2, <1>3, <2>1, <2>3, <2>4
<1>7. ASSUME UsersDone \/ MessagesDone PROVE PastInv'
  BY <1>2, <1>7 DEF UsersDone, MessagesDone, server, store, past
<1>8. ASSUME NextMessageFetched PROVE PastInv'
  <2> DEFINE m == Head(toClient)
  <2>1. /\ Takes("fetched") \/ Takes("nothing")
        /\ connected' /\ connected /\ UNCHANGED <<now, since, stored, own, withConversation, mailbox>>
        /\ \/ jobs' = jobs \o ReceivedJobs(m)
           \/ jobs' = jobs \o ReceivedJobs(m) \o NextFetch
           \/ UNCHANGED jobs
    BY <1>8 DEF NextMessageFetched, Takes, netc, store, past
  <2>2. m \in Range(toClient) /\ m \in Replies /\ m.kind \in {"fetched", "nothing"}
    BY <2>1, TakesMeans
  <2> HIDE DEF m
  <2>3. m.kind = "fetched" => m.time <= now
    BY <2>2 DEF Lines, TurnInv
  <2>4. CASE UNCHANGED jobs
    BY <1>2, <2>1, <2>4
  <2>5. CASE jobs' = jobs \o ReceivedJobs(m)
    BY <1>1, <2>1, <2>2, <2>3, <2>5, FetchedJobs
  <2>6. CASE jobs' = jobs \o ReceivedJobs(m) \o NextFetch
    <3> DEFINE added == ReceivedJobs(m) \o NextFetch
    <3>1. ReceivedJobs(m) \in Seq(Jobs) /\ NextFetch \in Seq(Jobs)
      BY <2>2, FetchedJobs
    <3>2. added \in Seq(Jobs) /\ Range(added) = Range(ReceivedJobs(m)) \cup Range(NextFetch)
      BY <3>1, Joined
    <3>3. jobs' = jobs \o added
      BY <1>0, <2>6, <3>1
    <3> HIDE DEF added
    <3>4. \A j \in Range(added) : j.op = "received" => j.time <= now
      BY <2>2, <2>3, <3>2, FetchedJobs
    <3>5. QED
      BY <1>1, <2>1, <3>2, <3>3, <3>4
  <2>7. QED
    BY <2>1, <2>4, <2>5, <2>6
<1>9. ASSUME Compare PROVE PastInv'
  <2>1. CASE Abort("fetchersMatch")
    BY <2>1, AbortPast
  <2>2. CASE ~Abort("fetchersMatch")
    BY <1>2, <1>9, <2>2 DEF Compare, server, store, past
  <2>3. QED
    BY <2>1, <2>2
<1>10. ASSUME ErrorReceived PROVE PastInv'
  BY <1>0, <1>10, PastKept DEF ErrorReceived, netc, store
<1>11. QED
  BY <1>4, <1>5, <1>6, <1>7, <1>8, <1>9, <1>10 DEF NetThread

LEMMA ServerPast ==
  ASSUME Base, Base', Lines, PastInv, ServerAnswers \/ ServerRefuses \/ \E p \in Peers : PeerSends(p)
  PROVE  PastInv'
<1>0. now \in Nat /\ Typed
  BY QueuesTyped, TypedMeans DEF Base
<1>1. ASSUME ServerAnswers PROVE PastInv'
  BY <1>0, <1>1, PastKept DEF ServerAnswers, netc, store, past
<1>2. ASSUME NEW q \in Peers, PeerSends(q) PROVE PastInv'
  <2>1. /\ q \in Range(withConversation) /\ now' = now + 1
        /\ mailbox' = [mailbox EXCEPT ![q] = Append(@, now + 1)]
        /\ UNCHANGED <<withConversation, connected, jobs, stored, own, since>>
    BY <1>2 DEF PeerSends, netc, store, past
  <2>2. \A p \in Peers : mailbox'[p] # <<>> => mailbox[p] # <<>> \/ p \in Range(withConversation)
    BY <1>0, <2>1 DEF Typed, ServerTypes
  <2>3. QED
    BY <1>0, <2>1, <2>2, PastKept
<1>3. ASSUME ServerRefuses PROVE PastInv'
  BY <1>0, <1>3, PastKept DEF ServerRefuses, netc, store
<1>4. QED
  BY <1>1, <1>2, <1>3

(* Until the first list, a step that leaves the jobs alone, runs one or    *)
(* pushes one changes nothing of this. *)
LEMMA UnaskedKept ==
  ASSUME Base, Unasked, asking' = asking, net' # "compare",
         request' # None => request'.peer = None,
         \A r \in Range(toClient') : r \in Range(toClient) \/ r.kind \notin {"fetched", "nothing"},
         \/ /\ jobs' = jobs \/ (jobs # <<>> /\ Pop)
            /\ ignoreUsualMessages => ignoreUsualMessages'
         \/ \E j \in Jobs : /\ Push(j) /\ j.op \notin {"fetchMessages", "send"}
                            /\ j.op = "received" => ~Processing
                            /\ ignoreUsualMessages => ignoreUsualMessages'
                            /\ j.op = "processUsers" => ignoreUsualMessages'
  PROVE  Unasked'
<1>1. asking' = None /\ net' # "compare" /\ (request' # None => request'.peer = None)
  BY DEF Unasked
<1>2. \A r \in Range(toClient') : r.kind \notin {"fetched", "nothing"}
  BY DEF Unasked
<1>3. CASE (jobs' = jobs \/ (jobs # <<>> /\ Pop)) /\ (ignoreUsualMessages => ignoreUsualMessages')
  <2>1. Range(jobs') \subseteq Range(jobs) /\ Ordered(jobs', ListFirst)
    BY <1>3, JobsAre DEF Unasked
  <2>2. Processing' => Processing
    BY <2>1 DEF Processing
  <2>3. QED
    BY <1>1, <1>2, <1>3, <2>1, <2>2 DEF Unasked
<1>4. ASSUME NEW j \in Jobs, Push(j), j.op \notin {"fetchMessages", "send"},
             j.op = "received" => ~Processing,
             ignoreUsualMessages => ignoreUsualMessages',
             j.op = "processUsers" => ignoreUsualMessages'
      PROVE  Unasked'
  <2>1. Range(jobs') = Range(jobs) \cup {j} /\ jobs \in Seq(Jobs) /\ jobs' = Append(jobs, j)
    BY <1>4, JobsAre, QueuesTyped DEF Push
  <2>2. \A i \in Range(jobs) : <<i, j>> \in ListFirst
    BY <1>4, QueuesTyped DEF ListFirst, Processing
  <2>3. Ordered(jobs', ListFirst)
    <3>1. Ordered(jobs, ListFirst)
      BY DEF Unasked
    <3>2. Ordered(Append(jobs, j), ListFirst)
      BY <2>1, <2>2, <3>1, OneMore
    <3>3. QED
      BY <2>1, <3>2
  <2>4. Processing' => Processing \/ j.op = "processUsers"
    BY <2>1 DEF Processing
  <2>5. \A i \in Range(jobs') : i.op \notin {"fetchMessages", "send"}
    BY <1>4, <2>1 DEF Unasked
  <2>6. Processing' => ignoreUsualMessages'
    BY <1>4, <2>4 DEF Unasked
  <2>7. QED
    BY <1>1, <1>2, <2>3, <2>5, <2>6 DEF Unasked
<1>5. QED
  BY <1>3, <1>4

LEMMA AbortFresh ==
  ASSUME FreshInv, NEW a, Abort(a)
  PROVE  FreshInv'
BY DEF Abort, server, netc, ui, FreshInv, Fresh, Unasked, Processing

LEMMA UserFresh ==
  ASSUME Base, Lines, FreshInv, UIThread \/ RunLogIn \/ Disconnected
  PROVE  FreshInv'
<1>1. ASSUME LogInClicked PROVE ~Fresh'
  BY <1>1 DEF LogInClicked, Fresh, netc
<1>2. ASSUME UpdateClicked PROVE FreshInv'
  <2>1. CASE Abort("updateUsersList")
    BY <2>1, AbortFresh
  <2>2. CASE ~Abort("updateUsersList")
    BY <1>2, <2>2 DEF UpdateClicked, FreshInv, Fresh
  <2>3. QED
    BY <2>1, <2>2
<1>3. ASSUME NEW p \in Peers, SendClicked(p) PROVE ~Fresh'
  BY <1>3 DEF SendClicked, Fresh, ui
<1>4. ASSUME RunLogIn PROVE FreshInv'
  <2>1. jobs # <<>> /\ Pop /\ Head(jobs).op = "logIn" /\ asking = None /\ UNCHANGED <<request, net, asking>>
    BY <1>4 DEF RunLogIn, Runs
  <2>2. Head(jobs) \in Range(jobs) /\ Range(jobs') = {} /\ jobs' \in Seq(Jobs)
    <3>1. jobs \in Seq(Jobs) /\ Ordered(jobs, LogInLast)
      BY QueuesTyped DEF Lines, LogInInv
    <3>2. Head(jobs) \in Range(jobs) /\ Tail(jobs) \in Seq(Jobs) /\ \A b \in Range(Tail(jobs)) : <<Head(jobs), b>> \in LogInLast
      BY <2>1, <3>1, OneLess
    <3>3. QED
      BY <2>1, <3>2 DEF LogInLast, Pop
  <2>3. ~connected /\ ~allowInput /\ net = "idle" /\ request = None
    BY <2>1, <2>2 DEF Lines, LogInInv, OfflineInv
  <2>4. CASE ~connected'
    BY <2>4 DEF FreshInv, Fresh
  <2>5. CASE connected'
    <3>1. toClient' = <<Reply("loggedIn", None, 0, 0)>> /\ UNCHANGED allowInput
      BY <1>4, <2>3, <2>5 DEF RunLogIn, netc
    <3>2. \A r \in Range(toClient') : r.kind = "loggedIn"
      BY <3>1, RepliesTyped, Single
    <3>3. Ordered(jobs', ListFirst)
      BY <2>2, InRange DEF Ordered
    <3>4. QED
      BY <2>1, <2>2, <2>3, <3>1, <3>2, <3>3 DEF FreshInv, Unasked, Processing
  <2>6. QED
    BY <2>4, <2>5
<1>5. ASSUME Disconnected PROVE ~Fresh'
  BY <1>5 DEF Disconnected, Fresh
<1>6. QED
  BY <1>1, <1>2, <1>3, <1>4, <1>5 DEF UIThread, FreshInv

LEMMA AsyncFresh ==
  ASSUME Base, Lines, FreshInv,
         \/ RunFetchUsers \/ RunProcessUsers \/ RunFetchMessages
         \/ AskForMessages \/ RunReceived \/ RunSend
  PROVE  FreshInv'
<1>1. CASE \E a : Abort(a)
  BY <1>1, AbortFresh
<1>2. CASE ~\E a : Abort(a)
  <2> SUFFICES ASSUME Fresh' PROVE Unasked'
    BY DEF FreshInv
  <2>1. ASSUME RunProcessUsers PROVE FALSE
    BY <1>2, <2>1 DEF RunProcessUsers, Fresh
  <2>2. ASSUME ~RunProcessUsers PROVE Fresh /\ Unasked
    BY <1>2, <2>2 DEF RunFetchUsers, RunFetchMessages, AskForMessages, RunReceived, RunSend,
                      netc, ui, Fresh, FreshInv
  <2>3. \A j \in Range(jobs) : j.op \notin {"fetchMessages", "send"}
    BY <2>1, <2>2 DEF Unasked
  <2>4. ASSUME RunFetchUsers PROVE Unasked'
    <3>1. /\ jobs # <<>> /\ Pop /\ request' = Request(None, 0)
          /\ UNCHANGED <<toClient, asking, allowInput, net, ignoreUsualMessages>>
      BY <1>2, <2>4 DEF RunFetchUsers, Runs, ui
    <3>2. request'.peer = None /\ net # "compare"
      BY <2>1, <2>2, <3>1 DEF Request, Unasked
    <3>3. QED
      BY <2>1, <2>2, <3>1, <3>2, UnaskedKept
  <2>5. ASSUME RunFetchMessages \/ RunSend PROVE FALSE
    <3>1. jobs # <<>> /\ Head(jobs).op \in {"fetchMessages", "send"}
      BY <1>2, <2>5 DEF RunFetchMessages, RunSend, Runs
    <3>2. Head(jobs) \in Range(jobs)
      BY <3>1, QueuesTyped, OneLess
    <3>3. QED
      BY <2>3, <3>1, <3>2
  <2>6. ASSUME AskForMessages PROVE FALSE
    BY <1>2, <2>1, <2>2, <2>6 DEF AskForMessages, Unasked
  <2>7. ASSUME RunReceived PROVE Unasked'
    <3>1. /\ jobs # <<>> /\ Pop
          /\ UNCHANGED <<request, toClient, asking, allowInput, net, ignoreUsualMessages>>
      BY <1>2, <2>7 DEF RunReceived, Runs, server, netc, ui
    <3>2. net # "compare" /\ (request # None => request.peer = None)
      BY <2>1, <2>2 DEF Unasked
    <3>3. QED
      BY <2>1, <2>2, <3>1, <3>2, UnaskedKept
  <2>8. QED
    BY <2>1, <2>4, <2>5, <2>6, <2>7
<1>3. QED
  BY <1>1, <1>2

LEMMA NetFresh ==
  ASSUME Base, Lines, FreshInv, NetThread
  PROVE  FreshInv'
<1>1. CASE \E a : Abort(a)
  BY <1>1, AbortFresh
<1>2. CASE ~\E a : Abort(a)
  <2> SUFFICES ASSUME Fresh' PROVE Unasked'
    BY DEF FreshInv
  <2>1. Fresh /\ Unasked
    BY <1>2 DEF NetThread, LoggedIn, LiveMessage, UsersFetched, UsersDone, ErrorReceived,
                NextMessageFetched, Compare, MessagesDone, netc, ui, Fresh, FreshInv
  <2>2. net # "compare" /\ (request # None => request.peer = None)
    BY <2>1 DEF Unasked
  <2>3. ASSUME NEW kind, Takes(kind)
        PROVE  /\ Head(toClient) \in Range(toClient) /\ Head(toClient) \in Replies /\ Head(toClient).kind = kind
               /\ kind \notin {"fetched", "nothing"}
               /\ Taken => Range(toClient') \subseteq Range(toClient)
    <3>1. /\ Head(toClient) \in Range(toClient) /\ Head(toClient) \in Replies /\ Head(toClient).kind = kind
          /\ Taken => Range(toClient') \subseteq Range(toClient)
      BY <2>3, TakesMeans DEF Taken
    <3>2. QED
      BY <2>1, <3>1 DEF Unasked
  <2>4. ASSUME LoggedIn PROVE Unasked'
    <3>1. /\ Takes("loggedIn") /\ Taken /\ Push(Job("fetchUsers", None, 0))
          /\ UNCHANGED <<request, asking, allowInput, net, ignoreUsualMessages>>
      BY <2>4 DEF LoggedIn, netc, ui
    <3>2. QED
      BY <2>1, <2>2, <2>3, <3>1, JobsTyped, UnaskedKept
  <2>5. ASSUME LiveMessage PROVE Unasked'
    <3> DEFINE m == Head(toClient)
               j == Job("received", m.peer, m.time)
    <3>1. /\ Takes("live") /\ Taken /\ UNCHANGED <<request, asking, allowInput, net, ignoreUsualMessages>>
          /\ (Accepts /\ Push(j)) \/ UNCHANGED jobs
      BY <2>5 DEF LiveMessage, netc, ui
    <3>2. j \in Jobs /\ j.op = "received"
      BY <2>3, <3>1, RepliesTyped, JobsTyped
    <3>3. Accepts => ~Processing
      BY <2>1 DEF Accepts, TakesUsual, Unasked
    <3> HIDE DEF m, j
    <3>4. QED
      BY <2>1, <2>2, <2>3, <3>1, <3>2, <3>3, UnaskedKept
  <2>6. ASSUME UsersFetched PROVE Unasked'
    <3>1. /\ Takes("users") /\ Taken /\ Push(Job("processUsers", None, 0))
          /\ UNCHANGED <<request, asking, allowInput>> /\ net' = "usersDone" /\ ignoreUsualMessages'
      BY <2>6 DEF UsersFetched, ui
    <3>2. QED
      BY <2>1, <2>2, <2>3, <3>1, JobsTyped, UnaskedKept
  <2>7. ASSUME UsersDone \/ MessagesDone PROVE Unasked'
    <3>1. UNCHANGED <<request, toClient, jobs, asking, allowInput, ignoreUsualMessages>> /\ net' = "idle"
      BY <2>7 DEF UsersDone, MessagesDone, server, ui
    <3>2. QED
      BY <2>1, <2>2, <3>1, UnaskedKept
  <2>8. ASSUME NextMessageFetched PROVE FALSE
    BY <2>3, <2>8 DEF NextMessageFetched
  <2>9. ASSUME Compare PROVE FALSE
    BY <2>2, <2>9 DEF Compare
  <2>10. ASSUME ErrorReceived PROVE Unasked'
    <3>1. Takes("error") /\ Taken /\ UNCHANGED <<request, asking, net, jobs, ignoreUsualMessages>>
      BY <2>10 DEF ErrorReceived, netc
    <3>2. QED
      BY <2>1, <2>2, <2>3, <3>1, UnaskedKept
  <2>11. QED
    BY <2>4, <2>5, <2>6, <2>7, <2>8, <2>9, <2>10 DEF NetThread
<1>3. QED
  BY <1>1, <1>2

LEMMA ServerFresh ==
  ASSUME Base, Lines, FreshInv, ServerAnswers \/ ServerRefuses \/ \E p \in Peers : PeerSends(p)
  PROVE  FreshInv'
<1> SUFFICES ASSUME Fresh' PROVE Unasked'
  BY DEF FreshInv
<1>1. /\ UNCHANGED <<connected, page, asking, allowInput, net, ignoreUsualMessages, jobs>>
      /\ request' = None \/ request' = request
  BY DEF ServerAnswers, ServerRefuses, PeerSends, netc, ui
<1>2. Fresh /\ Unasked
  BY <1>1 DEF Fresh, FreshInv
<1>3. /\ net # "compare" /\ (request # None => request.peer = None)
      /\ toClient \in Seq(Replies)
  BY <1>2, QueuesTyped DEF Unasked
<1>4. ASSUME NEW m \in Replies, m.kind \notin {"fetched", "nothing"}, toClient' = Append(toClient, m)
      PROVE  Unasked'
  <2>1. Range(toClient') = Range(toClient) \cup {m}
    BY <1>3, <1>4, OneMore
  <2>2. QED
    BY <1>1, <1>2, <1>3, <1>4, <2>1, UnaskedKept
<1>5. ASSUME ServerAnswers PROVE Unasked'
  BY <1>3, <1>4, <1>5, RepliesTyped DEF ServerAnswers
<1>6. ASSUME NEW p \in Peers, PeerSends(p) PROVE Unasked'
  <2>1. now + 1 \in Times
    BY <1>6, QueuesTyped, BoundsAssumption DEF PeerSends, Times
  <2>2. toClient' = Append(toClient, Reply("live", p, now + 1, 0))
    BY <1>2, <1>6 DEF PeerSends, Fresh
  <2>3. QED
    BY <1>4, <2>1, <2>2, RepliesTyped
<1>7. ASSUME ServerRefuses PROVE FALSE
  BY <1>3, <1>7 DEF ServerRefuses
<1>8. QED
  BY <1>5, <1>6, <1>7

(* What is most recent is stored or our own, or there is nothing. *)
LEMMA RecentIs ==
  ASSUME NEW T \in SUBSET Times
  PROVE  Max(T \cup {0}) \in T \cup {0} /\ \A t \in T : t <= Max(T \cup {0})
<1>1. T \cup {0} \in SUBSET (0..MaxTime) /\ T \cup {0} # {} /\ MaxTime \in Nat
  BY BoundsAssumption DEF Times
<1>2. QED
  BY <1>1, Latest

(* A message that becomes known stays so when what knows it stays. *)
LEMMA KnownKept ==
  ASSUME NEW p, NEW t, Known(p, t), UNCHANGED <<dropped, stored, since>>,
         Job("received", p, t) \in Range(jobs) => Job("received", p, t) \in Range(jobs'),
         \A r \in Range(toClient) : r.kind \in {"live", "fetched"} => r \in Range(toClient'),
         request = None \/ request' = request
  PROVE  Known(p, t)'
BY DEF Known

(* The job to ask for messages of p, with none in front of it that makes   *)
(* the conversation younger, stays so.                                     *)
LEMMA AheadPushed ==
  ASSUME Base, NEW p, Ahead(p), NEW added \in Seq(Jobs), jobs' = jobs \o added
  PROVE  Ahead(p)'
<1>1. jobs \in Seq(Jobs)
  BY QueuesTyped
<1>2. PICK k \in 1..Len(jobs) : /\ jobs[k].op = "fetchMessages" /\ jobs[k].peer = p
                                /\ \A i \in 1..Len(jobs) : i < k => ~Grows(jobs[i], p)
  BY DEF Ahead
<1>3. /\ Len(jobs') \in Nat /\ Len(jobs) \in Nat /\ Len(jobs) <= Len(jobs')
      /\ \A i \in 1..Len(jobs) : jobs'[i] = jobs[i]
  BY <1>1
<1>4. k \in 1..Len(jobs') /\ jobs'[k] = jobs[k]
  BY <1>3
<1>5. ASSUME NEW i \in 1..Len(jobs'), i < k PROVE ~Grows(jobs'[i], p)
  <2>1. i \in 1..Len(jobs)
    BY <1>3, <1>5
  <2>2. QED
    BY <1>2, <1>3, <1>5, <2>1
<1>6. QED
  BY <1>2, <1>4, <1>5 DEF Ahead

LEMMA AheadPopped ==
  ASSUME Base, NEW p, Ahead(p), jobs # <<>>, Pop
  PROVE  /\ ~Grows(Head(jobs), p)
         /\ ~(Head(jobs).op = "fetchMessages" /\ Head(jobs).peer = p) => Ahead(p)'
<1>1. jobs \in Seq(Jobs)
  BY QueuesTyped
<1>2. PICK k \in 1..Len(jobs) : /\ jobs[k].op = "fetchMessages" /\ jobs[k].peer = p
                                /\ \A i \in 1..Len(jobs) : i < k => ~Grows(jobs[i], p)
  BY DEF Ahead
<1>3. /\ Len(jobs) \in Nat \ {0} /\ Len(jobs') = Len(jobs) - 1 /\ Head(jobs) = jobs[1]
      /\ \A i \in 1..Len(jobs') : jobs'[i] = jobs[i + 1] /\ i + 1 \in 1..Len(jobs)
  BY <1>1 DEF Pop
<1>4. CASE k = 1
  BY <1>2, <1>3, <1>4 DEF Grows
<1>5. CASE k # 1
  <2>1. 1 \in 1..Len(jobs) /\ 1 < k /\ k - 1 \in 1..Len(jobs') /\ (k - 1) + 1 = k
    BY <1>3, <1>5
  <2>2. ~Grows(Head(jobs), p)
    BY <1>2, <1>3, <2>1
  <2>3. jobs'[k - 1] = jobs[k]
    BY <1>3, <2>1
  <2>4. ASSUME NEW i \in 1..Len(jobs'), i < k - 1 PROVE ~Grows(jobs'[i], p)
    <3>1. i + 1 < k
      BY <1>3, <2>4
    <3>2. QED
      BY <1>2, <1>3, <3>1
  <2>5. Ahead(p)'
    BY <1>2, <2>1, <2>3, <2>4 DEF Ahead
  <2>6. QED
    BY <2>2, <2>5
<1>6. QED
  BY <1>4, <1>5

(* What is to be asked for stays so. *)
LEMMA DueKept ==
  ASSUME Base, NEW p \in Peers, Due(p), asking' = asking,
         userIdsToFetchMessagesFrom' = userIdsToFetchMessagesFrom, Quiet(p) => Quiet(p)',
         \/ jobs' = jobs
         \/ jobs # <<>> /\ Pop /\ Head(jobs).op # "fetchMessages"
         \/ \E added \in Seq(Jobs) : jobs' = jobs \o added
  PROVE  Due(p)'
<1>1. CASE asking = p
  BY <1>1 DEF Due
<1>2. CASE p \in Range(userIdsToFetchMessagesFrom) /\ Quiet(p)
  BY <1>2 DEF Due
<1>3. CASE Ahead(p)
  <2>1. Ahead(p)'
    <3>1. CASE jobs' = jobs
      BY <1>3, <3>1 DEF Ahead
    <3>2. QED
      BY <1>3, <3>1, AheadPushed, AheadPopped
  <2>2. QED
    BY <2>1 DEF Due
<1>4. QED
  BY <1>1, <1>2, <1>3 DEF Due

(* Nothing comes of p, and the user is kept from writing. *)
LEMMA QuietKept ==
  ASSUME NEW p, Quiet(p),
         \A j \in Range(jobs') : j \in Range(jobs) \/ ~Grows(j, p),
         \A r \in Range(toClient') : r \in Range(toClient) \/ ~(r.kind = "fetched" /\ r.peer = p),
         request' = request \/ (request' # None => request'.peer # p),
         ignoreUsualMessages', ~allowInput'
  PROVE  Quiet(p)'
BY DEF Quiet

(* A job that is run while messages of p are hidden does not make the      *)
(* conversation younger.                                                   *)
LEMMA NotYounger ==
  ASSUME Base, NEW p \in Peers, Due(p), asking = None, jobs # <<>>, Pop
  PROVE  ~Grows(Head(jobs), p)
<1>1. asking # p
  BY ListsAssumption
<1>2. Head(jobs) \in Range(jobs)
  BY JobsAre
<1>3. QED
  BY <1>1, <1>2, AheadPopped DEF Due, Quiet

(* Most steps hide nothing, make no conversation younger, and ask for what *)
(* is due as before.                                                       *)
LEMMA HiddenKept ==
  ASSUME HiddenInv,
         \A p \in Peers : \A t \in Range(mailbox'[p]) : Known(p, t) => Known(p, t)',
         UNCHANGED <<mailbox, stored, own>>,
         connected' => connected /\ page' = page /\ (listed' => listed),
         page = "users" \/ (allowInput' => allowInput) \/ ~connected',
         \A p \in Peers : Hidden(p) # {} /\ connected' /\ Due(p) => Due(p)'
  PROVE  HiddenInv'
<1> SUFFICES ASSUME NEW p \in Peers, NEW t \in Range(mailbox'[p]), ~Known(p, t)'
             PROVE  /\ t > MostRecent(p)'
                    /\ connected' => IF page' = "users" THEN Due(p)' ELSE ~listed' /\ ~allowInput'
  BY DEF HiddenInv, Hidden
<1>1. t \in Hidden(p)
  BY DEF Hidden
<1>2. MostRecent(p)' = MostRecent(p)
  BY DEF MostRecent
<1>3. t > MostRecent(p)'
  BY <1>1, <1>2 DEF HiddenInv
<1>4. ASSUME connected' PROVE IF page' = "users" THEN Due(p)' ELSE ~listed' /\ ~allowInput'
  BY <1>1, <1>4 DEF HiddenInv
<1>5. QED
  BY <1>3, <1>4

LEMMA AbortHidden ==
  ASSUME HiddenInv, NEW a, Abort(a)
  PROVE  HiddenInv'
BY DEF Abort, server, netc, fetch, ui, past, store, HiddenInv, Hidden, Known, MostRecent, Due, Quiet, Ahead

LEMMA UserHidden ==
  ASSUME Base, Base', Lines, PastInv, HiddenInv, UIThread \/ RunLogIn \/ Disconnected
  PROVE  HiddenInv'
<1>0. \A p \in Peers : \A t \in Range(mailbox[p]) : t <= now
  BY DEF Base, MailInv
<1>1. ASSUME NEW j \in Jobs, Push(j), UNCHANGED <<dropped, stored, own, since, request, toClient, mailbox>>
      PROVE  /\ \A p \in Peers : \A t \in Range(mailbox'[p]) : Known(p, t) => Known(p, t)'
             /\ <<j>> \in Seq(Jobs) /\ jobs' = jobs \o <<j>>
  BY <1>1, JobsAre, KnownKept
<1>2. ASSUME LogInClicked PROVE HiddenInv'
  <2>1. /\ Push(Job("logIn", None, 0)) /\ ~connected'
        /\ UNCHANGED <<dropped, stored, own, since, request, toClient, mailbox>>
    BY <1>2 DEF LogInClicked, server, netc, past, store
  <2>2. QED
    BY <1>1, <2>1, JobsTyped, HiddenKept
<1>3. ASSUME UpdateClicked PROVE HiddenInv'
  <2>1. CASE Abort("updateUsersList")
    BY <2>1, AbortHidden
  <2>2. CASE ~Abort("updateUsersList")
    <3>1. /\ Push(Job("fetchUsers", None, 0)) /\ allowInput /\ ~listed' /\ page = "users"
          /\ UNCHANGED <<dropped, stored, own, since, request, toClient, mailbox>>
          /\ UNCHANGED <<connected, page, asking, userIdsToFetchMessagesFrom>>
      BY <1>3, <2>2 DEF UpdateClicked, server, netc, fetch, past, store
    <3>2. ASSUME NEW p \in Peers, Due(p) PROVE Due(p)'
      <4>1. ~Quiet(p)
        BY <3>1 DEF Quiet
      <4>2. QED
        BY <1>1, <3>1, <3>2, <4>1, JobsTyped, DueKept
    <3>3. QED
      BY <1>1, <3>1, <3>2, JobsTyped, HiddenKept
  <2>3. QED
    BY <2>1, <2>2
<1>4. ASSUME NEW q \in Peers, SendClicked(q) PROVE HiddenInv'
  <2>1. /\ Push(Job("send", q, 0)) /\ allowInput /\ page = "users"
        /\ UNCHANGED <<dropped, stored, own, since, request, toClient, mailbox>>
        /\ UNCHANGED <<connected, page, listed, asking, userIdsToFetchMessagesFrom>>
    BY <1>4 DEF SendClicked, server, netc, fetch, ui, past, store
  <2>2. Job("send", q, 0) \in Jobs
    BY JobsTyped
  <2>3. ASSUME NEW p \in Peers, Due(p) PROVE Due(p)'
    <3>1. ~Quiet(p)
      BY <2>1 DEF Quiet
    <3>2. QED
      BY <1>1, <2>1, <2>2, <2>3, <3>1, DueKept
  <2>4. QED
    BY <1>1, <2>1, <2>2, <2>3, HiddenKept
<1>5. ASSUME RunLogIn PROVE HiddenInv'
  <2>1. /\ jobs # <<>> /\ Pop /\ Head(jobs).op = "logIn"
        /\ UNCHANGED <<dropped, stored, own, request, mailbox, page, listed, asking, userIdsToFetchMessagesFrom>>
    BY <1>5 DEF RunLogIn, Runs, store, fetch
  <2>2. ~connected /\ request = None /\ toClient = <<>> /\ page = "logIn" /\ ~allowInput
    BY <2>1, JobsAre DEF Lines, LogInInv, OfflineInv
  <2>3. /\ \A r \in Range(toClient) : FALSE
        /\ \A p \in Peers, t \in Times : Job("received", p, t) \in Range(jobs) => Job("received", p, t) \in Range(jobs')
    <3>1. Range(jobs) = {Head(jobs)} \cup Range(jobs')
      BY <2>1, JobsAre
    <3>2. \A p \in Peers, t \in Times : Job("received", p, t) # Head(jobs)
      BY <2>1, JobsTyped
    <3>3. QED
      BY <2>2, <3>1, <3>2, Nothing
  <2>4. \A p \in Peers : Range(mailbox[p]) \subseteq Times
    BY TypedMeans, InRange DEF Base, Typed, ServerTypes
  <2>5. CASE since' = since
    <3>1. \A p \in Peers : \A t \in Range(mailbox[p]) : Known(p, t) => Known(p, t)'
      BY <2>1, <2>2, <2>3, <2>4, <2>5, KnownKept
    <3>2. CASE ~connected'
      BY <2>1, <3>1, <3>2, HiddenKept
    <3>3. CASE connected'
      <4>0. since' = (IF listed THEN now ELSE since) /\ UNCHANGED allowInput
        BY <1>5, <2>2, <3>3 DEF RunLogIn, netc
      <4>1. (~listed \/ now = since) /\ ~allowInput'
        <5>1. ~allowInput'
          BY <2>2, <4>0
        <5>2. ~listed \/ now = since
          BY <2>5, <4>0
        <5>3. QED
          BY <5>1, <5>2
      <4>2. ASSUME NEW p \in Peers, NEW t \in Range(mailbox[p]), ~Known(p, t)'
            PROVE  t > MostRecent(p)' /\ page' # "users" /\ ~listed' /\ ~allowInput'
        <5>1. t \in Hidden(p)
          BY <3>1, <4>2 DEF Hidden
        <5>2. t > MostRecent(p) /\ MostRecent(p)' = MostRecent(p)
          BY <2>1, <5>1 DEF HiddenInv, MostRecent
        <5>3. now # since
          BY <1>0, <5>1 DEF Hidden, Known
        <5>4. QED
          BY <2>1, <2>2, <4>1, <5>2, <5>3
      <4>3. QED
        BY <2>1, <4>2 DEF HiddenInv, Hidden
    <3>4. QED
      BY <3>2, <3>3
  <2>6. CASE since' = now
    BY <1>0, <2>1, <2>6 DEF HiddenInv, Hidden, Known
  <2>7. QED
    BY <1>5, <2>5, <2>6 DEF RunLogIn
<1>6. ASSUME Disconnected PROVE HiddenInv'
  BY <1>0, <1>6 DEF Disconnected, HiddenInv, Hidden, Known
<1>7. QED
  BY <1>2, <1>3, <1>4, <1>5, <1>6 DEF UIThread

(* A job that is run is no longer queued; messages of those whose job is   *)
(* not run stay queued. *)
LEMMA RunKnown ==
  ASSUME Base, jobs # <<>>, Pop, UNCHANGED <<dropped, stored, since, toClient>>,
         Head(jobs).op # "received", request = None \/ request' = request,
         NEW p \in Peers, NEW t \in Range(mailbox[p]), Known(p, t)
  PROVE  Known(p, t)'
<1>1. t \in Times
  BY TypedMeans, InRange DEF Base, Typed, ServerTypes
<1>2. Job("received", p, t).op = "received"
  BY <1>1, JobsTyped
<1>3. Range(jobs) = {Head(jobs)} \cup Range(jobs')
  BY JobsAre
<1>4. Job("received", p, t) \in Range(jobs) => Job("received", p, t) \in Range(jobs')
  BY <1>2, <1>3
<1>5. QED
  BY <1>4, KnownKept

LEMMA FetchUsersHidden ==
  ASSUME Base, Lines, HiddenInv, RunFetchUsers, ~\E a : Abort(a)
  PROVE  HiddenInv'
<1>1. /\ jobs # <<>> /\ Pop /\ Head(jobs).op = "fetchUsers" /\ request' = Request(None, 0)
      /\ connected /\ ~fetchingUsers /\ ~fetchingMessages
      /\ UNCHANGED <<dropped, stored, own, since, toClient, mailbox, connected, page, listed, asking,
                     userIdsToFetchMessagesFrom, ignoreUsualMessages, allowInput>>
  BY DEF RunFetchUsers, Runs, fetch, ui, store, past
<1>2. request = None
  BY <1>1, NothingAwaited DEF Lines
<1>3. \A p \in Peers : \A t \in Range(mailbox'[p]) : Known(p, t) => Known(p, t)'
  BY <1>1, <1>2, RunKnown
<1>4. Range(jobs') \subseteq Range(jobs)
  BY <1>1, JobsAre
<1>5. ASSUME NEW p \in Peers, Due(p) PROVE Due(p)'
  <2>1. ASSUME Quiet(p) PROVE Quiet(p)'
    <3>1. request'.peer # p
      BY <1>1, ListsAssumption DEF Request
    <3>2. ignoreUsualMessages' /\ ~allowInput'
      BY <1>1, <2>1 DEF Quiet
    <3>3. QED
      BY <1>1, <1>4, <2>1, <3>1, <3>2, QuietKept
  <2>2. QED
    BY <1>1, <1>5, <2>1, DueKept
<1>6. QED
  BY <1>1, <1>3, <1>5, HiddenKept

LEMMA ProcessUsersHidden ==
  ASSUME Base, Lines, PastInv, FreshInv, HiddenInv, RunProcessUsers, ~\E a : Abort(a)
  PROVE  HiddenInv'
<1>1. /\ jobs # <<>> /\ Pop /\ Head(jobs).op = "processUsers" /\ asking = None /\ connected
      /\ page' = "users"
      /\ UNCHANGED <<dropped, stored, own, since, request, toClient, mailbox>>
      /\ withConversation # <<>> =>
           /\ userIdsToFetchMessagesFrom' = Tail(withConversation)
           /\ asking' = Head(withConversation)
           /\ UNCHANGED <<ignoreUsualMessages, allowInput>>
  BY DEF RunProcessUsers, Runs, server, store, past, HoldsControls, KeepsControls
<1>2. \A p \in Peers : \A t \in Range(mailbox[p]) : Known(p, t) => Known(p, t)'
  BY <1>1, RunKnown
<1>3. /\ jobs \in Seq(Jobs) /\ Head(jobs) \in Range(jobs) /\ Head(jobs) \in Jobs
      /\ Range(jobs') \subseteq Range(jobs)
  BY <1>1, JobsAre, QueuesTyped
<1>4. SUFFICES ASSUME NEW p \in Peers, NEW t \in Range(mailbox[p]), ~Known(p, t)'
               PROVE  t > MostRecent(p)' /\ Due(p)'
  BY <1>1 DEF HiddenInv, Hidden
<1>5. t \in Hidden(p)
  BY <1>2, <1>4 DEF Hidden
<1>6. t > MostRecent(p)'
  BY <1>1, <1>5 DEF HiddenInv, MostRecent
<1>7. p \in Range(withConversation)
  <2>1. mailbox[p] # <<>>
    BY <1>4, Nothing
  <2>2. QED
    BY <2>1 DEF PastInv
<1>8. withConversation # <<>> /\ (p = Head(withConversation) \/ p \in Range(Tail(withConversation)))
  <2>1. withConversation \in Seq(Peers)
    BY ListsAssumption, TypedMeans DEF Base, Typed, ServerTypes
  <2>2. withConversation # <<>>
    BY <1>7, Nothing
  <2>3. QED
    BY <1>7, <2>1, <2>2, OneLess
<1>9. CASE page = "users"
  <2>1. Due(p)
    BY <1>1, <1>5, <1>9 DEF HiddenInv
  <2>2. CASE Ahead(p)
    BY <1>1, <1>6, <2>2, AheadPopped DEF Due
  <2>3. CASE Quiet(p)
    <3>1. ignoreUsualMessages' /\ ~allowInput'
      BY <1>1, <1>8, <2>3 DEF Quiet
    <3>2. Quiet(p)'
      BY <1>1, <1>3, <2>3, <3>1, QuietKept
    <3>3. QED
      BY <1>1, <1>6, <1>8, <3>2 DEF Due
  <2>4. asking # p
    BY <1>1, ListsAssumption
  <2>5. QED
    BY <1>6, <2>1, <2>2, <2>3, <2>4 DEF Due
<1>10. CASE page # "users"
  <2>1. Unasked
    <3>1. page = "logIn"
      BY <1>10, TypedMeans DEF Base, Typed, PageTypes
    <3>2. QED
      BY <1>1, <3>1 DEF FreshInv, Fresh
  <2>2. \A j \in Range(jobs') : <<Head(jobs), j>> \in ListFirst
    BY <1>1, <1>3, <2>1, OneLess DEF Unasked, Pop
  <2>3. \A j \in Range(jobs') : ~Grows(j, p)
    BY <1>1, <1>3, <2>1, <2>2 DEF Grows, ListFirst, Unasked
  <2>4. Processing
    BY <1>1, <1>3 DEF Processing
  <2>5. Quiet(p)'
    <3>1. request' # None => request'.peer # p
      BY <1>1, <2>1, ListsAssumption DEF Unasked
    <3>2. ignoreUsualMessages' /\ ~allowInput'
      BY <1>1, <1>5, <1>8, <1>10, <2>1, <2>4 DEF Unasked, HiddenInv
    <3>3. \A r \in Range(toClient') : ~(r.kind = "fetched" /\ r.peer = p)
      BY <1>1, <2>1 DEF Unasked
    <3>4. QED
      BY <2>3, <3>1, <3>2, <3>3 DEF Quiet
  <2>6. QED
    BY <1>1, <1>6, <1>8, <2>5 DEF Due
<1>11. QED
  BY <1>9, <1>10

LEMMA FetchMessagesHidden ==
  ASSUME Base, Lines, HiddenInv, RunFetchMessages
  PROVE  HiddenInv'
<1>1. /\ jobs # <<>> /\ Pop /\ Head(jobs).op = "fetchMessages" /\ asking = None
      /\ asking' = Head(jobs).peer
      /\ UNCHANGED <<dropped, stored, own, since, request, toClient, mailbox, connected, page, listed,
                     userIdsToFetchMessagesFrom, ignoreUsualMessages, allowInput>>
  BY DEF RunFetchMessages, Runs, server, netc, ui, store, past
<1>2. \A p \in Peers : \A t \in Range(mailbox'[p]) : Known(p, t) => Known(p, t)'
  BY <1>1, RunKnown
<1>3. ASSUME NEW p \in Peers, Due(p) PROVE Due(p)'
  <2>1. asking # p /\ Range(jobs') \subseteq Range(jobs)
    BY <1>1, ListsAssumption, JobsAre
  <2>2. CASE Head(jobs).peer = p
    BY <1>1, <2>2 DEF Due
  <2>3. CASE Head(jobs).peer # p /\ Ahead(p)
    BY <1>1, <2>3, AheadPopped DEF Due
  <2>4. CASE Quiet(p) /\ p \in Range(userIdsToFetchMessagesFrom)
    <3>1. ignoreUsualMessages' /\ ~allowInput'
      BY <1>1, <2>4 DEF Quiet
    <3>2. Quiet(p)'
      BY <1>1, <2>1, <2>4, <3>1, QuietKept
    <3>3. QED
      BY <1>1, <2>4, <3>2 DEF Due
  <2>5. QED
    BY <1>3, <2>1, <2>2, <2>3, <2>4 DEF Due
<1>4. QED
  BY <1>1, <1>2, <1>3, HiddenKept

LEMMA AskHidden ==
  ASSUME Base, Lines, HiddenInv, AskForMessages, ~\E a : Abort(a)
  PROVE  HiddenInv'
<1>1. /\ asking # None /\ asking' = None /\ request' = Request(asking, AsksAfter(asking))
      /\ connected /\ ~fetchingUsers /\ ~fetchingMessages
      /\ UNCHANGED <<dropped, stored, own, since, toClient, mailbox, connected, page, listed, jobs,
                     userIdsToFetchMessagesFrom, ignoreUsualMessages, allowInput>>
  BY DEF AskForMessages, fetch, ui, store, past
<1>2. request = None /\ request' # None /\ request'.peer = asking /\ request'.after = AsksAfter(asking)
  <2>1. request = None
    BY <1>1, NothingAwaited DEF Lines
  <2>2. asking \in Peers /\ AsksAfter(asking) \in Times
    BY <1>1, TypedMeans, AskedTyped DEF Base, Typed, JobTypes
  <2>3. request' \in Requests
    BY <1>1, <2>2 DEF Requests, Request
  <2>4. request' # None
    BY <2>3, RequestsAssumption
  <2>5. QED
    BY <1>1, <2>1, <2>4 DEF Request
<1>3. \A p \in Peers : \A t \in Range(mailbox[p]) : Known(p, t) => Known(p, t)'
  BY <1>1, <1>2, KnownKept
<1>4. SUFFICES ASSUME NEW p \in Peers, NEW t \in Range(mailbox[p]), ~Known(p, t)'
               PROVE  t > MostRecent(p)' /\ (IF page' = "users" THEN Due(p)' ELSE ~listed' /\ ~allowInput')
  BY <1>1 DEF HiddenInv, Hidden
<1>5. t \in Hidden(p)
  BY <1>3, <1>4 DEF Hidden
<1>6. t > MostRecent(p) /\ MostRecent(p)' = MostRecent(p)
  BY <1>1, <1>5 DEF HiddenInv, MostRecent
<1>7. p # asking
  <2>1. t > MostRecent(p) /\ ~(t <= MinimalPossibleTimestamp) /\ t \in Nat
    <3>1. mailbox[p] \in Seq(Times) /\ Times \subseteq Nat
      BY TypedMeans, QueuesTyped DEF Base, Typed, ServerTypes
    <3>2. QED
      BY <1>4, <1>6, <3>1, InRange DEF Known
  <2>2. /\ AsksAfter(p) = MostRecent(p) \/ AsksAfter(p) = MinimalPossibleTimestamp
        /\ MinimalPossibleTimestamp \in Nat
    BY TypedMeans, AskedTyped DEF Base, MinimalPossibleTimestamp, ConversationTimestamp
  <2>3. t > AsksAfter(p)
    BY <2>1, <2>2
  <2>4. AsksAfter(p) < t
    BY <2>1, <2>2, <2>3, TypedMeans, RecentTyped, QueuesTyped DEF Base
  <2>5. QED
    BY <1>2, <1>4, <2>4 DEF Known
<1>8. ASSUME page = "users" PROVE Due(p)'
  <2>1. Due(p)
    BY <1>1, <1>5, <1>8 DEF HiddenInv
  <2>2. CASE Ahead(p)
    BY <1>1, <2>2 DEF Due, Ahead
  <2>3. CASE Quiet(p) /\ p \in Range(userIdsToFetchMessagesFrom)
    BY <1>1, <1>2, <1>7, <2>3 DEF Due, Quiet
  <2>4. QED
    BY <1>7, <2>1, <2>2, <2>3 DEF Due
<1>9. ASSUME page # "users" PROVE ~listed' /\ ~allowInput'
  BY <1>1, <1>5, <1>9 DEF HiddenInv
<1>10. QED
  BY <1>1, <1>6, <1>8, <1>9

LEMMA ReceivedHidden ==
  ASSUME Base, Base', Lines, PastInv, FreshInv, HiddenInv, RunReceived, ~\E a : Abort(a)
  PROVE  HiddenInv'
<1>1. PICK j : j = Head(jobs)
  OBVIOUS
<1>2. /\ jobs # <<>> /\ Pop /\ j.op = "received" /\ asking = None /\ listed
      /\ stored' = [stored EXCEPT ![j.peer] = @ \cup {j.time}]
      /\ UNCHANGED <<dropped, own, since, request, toClient, mailbox, connected, page, listed, asking,
                     userIdsToFetchMessagesFrom, ignoreUsualMessages, allowInput>>
  BY <1>1 DEF RunReceived, Runs, server, netc, fetch, ui, past
<1>3. /\ j \in Range(jobs) /\ j \in Jobs /\ Range(jobs) = {j} \cup Range(jobs')
      /\ j.peer \in Peers /\ j.time \in Times /\ Typed /\ Typed' /\ Times \subseteq Nat /\ since \in Nat
  BY <1>1, <1>2, JobsAre, JobsTyped, TypedMeans, QueuesTyped DEF Base, Typed, PastTypes
<1>4. \A p \in Peers : stored'[p] = IF p = j.peer THEN stored[p] \cup {j.time} ELSE stored[p]
  BY <1>2, <1>3 DEF Typed, StoreTypes
<1>5. \A p \in Peers : Range(mailbox[p]) \subseteq Times
  BY TypedMeans, InRange DEF Base, Typed, ServerTypes
<1>6. ASSUME NEW p \in Peers, NEW t \in Range(mailbox[p]), Known(p, t) PROVE Known(p, t)'
  <2>1. CASE Job("received", p, t) \in Range(jobs)
    <3>1. /\ Job("received", p, t).peer = p /\ Job("received", p, t).time = t
      BY <1>5, JobsTyped
    <3>2. CASE Job("received", p, t) = j
      BY <1>4, <3>1, <3>2 DEF Known
    <3>3. CASE Job("received", p, t) # j
      BY <1>3, <2>1, <3>3 DEF Known
    <3>4. QED
      BY <3>2, <3>3
  <2>2. CASE Job("received", p, t) \notin Range(jobs)
    BY <1>2, <1>4, <1>6, <2>2 DEF Known
  <2>3. QED
    BY <2>1, <2>2
<1>7. SUFFICES ASSUME NEW p \in Peers, NEW t \in Range(mailbox[p]), ~Known(p, t)'
               PROVE  /\ t > MostRecent(p)'
                      /\ connected => IF page = "users" THEN Due(p)' ELSE ~listed /\ ~allowInput
  BY <1>2 DEF HiddenInv, Hidden
<1>8. t \in Hidden(p)
  BY <1>6, <1>7 DEF Hidden
<1>9. t > MostRecent(p) /\ t \in Nat /\ ~(t <= since)
  BY <1>3, <1>5, <1>8 DEF HiddenInv, Hidden, Known
<1>10. ASSUME connected PROVE page = "users" /\ Due(p) /\ j.peer # p
  <2>1. page = "users" /\ Due(p)
    BY <1>2, <1>8, <1>10 DEF HiddenInv
  <2>2. ~Grows(j, p)
    BY <1>1, <1>2, <2>1, NotYounger
  <2>3. QED
    BY <1>2, <2>1, <2>2 DEF Grows
<1>11. t > MostRecent(p)'
  <2>1. CASE j.peer # p
    BY <1>2, <1>4, <1>9, <2>1 DEF MostRecent
  <2>2. CASE j.peer = p
    <3>1. j.time <= since
      BY <1>2, <1>3, <1>10, <2>2 DEF PastInv
    <3>2. MostRecent(p) \in Nat /\ \A u \in stored[p] \cup own[p] : u <= MostRecent(p) /\ u \in Nat
      BY <1>3, RecentTyped DEF Typed, StoreTypes
    <3> DEFINE T == stored'[p] \cup own'[p]
    <3>3. T \in SUBSET Times /\ MostRecent(p)' = Max(T \cup {0})
      <4>1. stored'[p] \in SUBSET Times /\ own'[p] \in SUBSET Times
        BY <1>3 DEF Typed, StoreTypes
      <4>2. MostRecent(p)' = Max(T \cup {0})
        BY DEF MostRecent
      <4>3. QED
        BY <4>1, <4>2
    <3>4. \A u \in T : u \in stored[p] \cup own[p] \/ u = j.time
      BY <1>2, <1>4, <2>2
    <3> HIDE DEF T
    <3>5. MostRecent(p)' \in T \/ MostRecent(p)' = 0
      BY <3>3, RecentIs
    <3>6. ASSUME NEW u \in T PROVE u < t
      <4>1. CASE u \in stored[p] \cup own[p]
        BY <1>9, <3>2, <4>1
      <4>2. CASE u = j.time
        <5>1. u \in Nat /\ u <= since
          BY <1>3, <3>1, <4>2
        <5>2. QED
          BY <1>3, <1>9, <5>1
      <4>3. QED
        BY <3>4, <4>1, <4>2
    <3>7. 0 < t
      BY <1>3, <1>9
    <3>8. QED
      BY <1>3, <1>9, <3>3, <3>5, <3>6, <3>7
  <2>3. QED
    BY <2>1, <2>2
<1>12. ASSUME Due(p) PROVE Due(p)'
  <2>1. ASSUME Quiet(p) PROVE Quiet(p)'
    <3>1. ignoreUsualMessages' /\ ~allowInput'
      BY <1>2, <2>1 DEF Quiet
    <3>2. QED
      BY <1>2, <1>3, <2>1, <3>1, QuietKept
  <2>2. QED
    BY <1>1, <1>2, <1>12, <2>1, DueKept
<1>13. QED
  BY <1>10, <1>11, <1>12

LEMMA SendHidden ==
  ASSUME Base, Base', Lines, PastInv, FreshInv, HiddenInv, RunSend, ~\E a : Abort(a)
  PROVE  HiddenInv'
<1>1. PICK j : j = Head(jobs)
  OBVIOUS
<1>2. /\ jobs # <<>> /\ Pop /\ j.op = "send" /\ asking = None /\ connected
      /\ own' = [own EXCEPT ![j.peer] = @ \cup {now + 1}] \/ own' = own
      /\ UNCHANGED <<dropped, stored, since, request, toClient, mailbox, connected, page, listed, asking,
                     userIdsToFetchMessagesFrom, ignoreUsualMessages, allowInput>>
  BY <1>1 DEF RunSend, Runs, server, netc, fetch, ui, past, store
<1>3. j \in Range(jobs) /\ j \in Jobs /\ j.peer \in Peers /\ Typed /\ Range(jobs') \subseteq Range(jobs)
  BY <1>1, <1>2, JobsAre, JobsTyped, TypedMeans DEF Base
<1>4. \A p \in Peers : p # j.peer => own'[p] = own[p]
  BY <1>2, <1>3 DEF Typed, StoreTypes
<1>5. \A p \in Peers : \A t \in Range(mailbox[p]) : Known(p, t) => Known(p, t)'
  BY <1>1, <1>2, RunKnown
<1>6. SUFFICES ASSUME NEW p \in Peers, NEW t \in Range(mailbox[p]), ~Known(p, t)'
               PROVE  t > MostRecent(p)' /\ page = "users" /\ Due(p)'
  BY <1>2 DEF HiddenInv, Hidden
<1>7. t \in Hidden(p)
  BY <1>5, <1>6 DEF Hidden
<1>8. page = "users"
  <2>1. ~Fresh
    BY <1>2, <1>3 DEF FreshInv, Unasked
  <2>2. QED
    BY <1>2, <1>3, <2>1 DEF Fresh, Typed, PageTypes
<1>9. Due(p)
  BY <1>2, <1>7, <1>8 DEF HiddenInv
<1>10. j.peer # p
  <2>1. ~Grows(j, p)
    BY <1>1, <1>2, <1>9, NotYounger
  <2>2. QED
    BY <1>2, <2>1 DEF Grows
<1>11. t > MostRecent(p)'
  BY <1>2, <1>4, <1>7, <1>10 DEF HiddenInv, MostRecent
<1>12. ASSUME Quiet(p) PROVE Quiet(p)'
  <2>1. ignoreUsualMessages' /\ ~allowInput'
    BY <1>2, <1>12 DEF Quiet
  <2>2. QED
    BY <1>2, <1>3, <1>12, <2>1, QuietKept
<1>13. Due(p)'
  BY <1>1, <1>2, <1>9, <1>12, DueKept
<1>14. QED
  BY <1>8, <1>11, <1>13

(* The message at the head of the queue becomes a job, or is ignored. *)
LEMMA TakenKnown ==
  ASSUME Base, NEW kind, Takes(kind), Taken, UNCHANGED <<stored, since, request>>,
         NEW p \in Peers, NEW t, Known(p, t), dropped[p] \subseteq dropped'[p],
         Range(jobs) \subseteq Range(jobs'),
         kind \in {"live", "fetched"} /\ Head(toClient).peer = p =>
           \/ Head(toClient).time \in dropped'[p]
           \/ Job("received", p, Head(toClient).time) \in Range(jobs')
  PROVE  Known(p, t)'
<1>1. /\ Head(toClient).kind = kind /\ Range(toClient) = {Head(toClient)} \cup Range(toClient')
  <2>1. toClient \in Seq(Replies) /\ toClient # <<>> /\ Head(toClient).kind = kind
    BY QueuesTyped DEF Takes
  <2>2. QED
    BY <2>1, OneLess DEF Taken
<1>2. ASSUME NEW r \in Range(toClient), r.kind \in {"live", "fetched"}, r.peer = p, r.time = t
      PROVE  Known(p, t)'
  <2>1. CASE r \in Range(toClient')
    BY <1>2, <2>1 DEF Known
  <2>2. CASE r = Head(toClient)
    BY <1>1, <1>2, <2>2 DEF Known
  <2>3. QED
    BY <1>1, <2>1, <2>2
<1>3. QED
  BY <1>2 DEF Known

LEMMA AheadAtEnd ==
  ASSUME NEW p, NEW s \in Seq(Jobs), NEW f \in Jobs, f.op = "fetchMessages", f.peer = p,
         \A j \in Range(s) : ~Grows(j, p), jobs' = Append(s, f)
  PROVE  Ahead(p)'
<1>1. /\ Len(jobs') = Len(s) + 1 /\ Len(s) \in Nat /\ jobs'[Len(s) + 1] = f
      /\ \A i \in 1..Len(s) : jobs'[i] = s[i]
  OBVIOUS
<1>2. Len(s) + 1 \in 1..Len(jobs')
  BY <1>1
<1>3. ASSUME NEW i \in 1..Len(jobs'), i < Len(s) + 1 PROVE ~Grows(jobs'[i], p)
  <2>1. i \in 1..Len(s)
    BY <1>1, <1>3
  <2>2. s[i] \in Range(s)
    BY <2>1, InRange
  <2>3. QED
    BY <1>1, <2>1, <2>2
<1>4. QED
  BY <1>1, <1>2, <1>3 DEF Ahead

LEMMA LiveHidden ==
  ASSUME Base, Lines, HiddenInv, LiveMessage
  PROVE  HiddenInv'
<1>1. PICK m : m = Head(toClient)
  OBVIOUS
<1>2. PICK j : j = Job("received", m.peer, m.time)
  OBVIOUS
<1>3. /\ Takes("live") /\ Taken
      /\ UNCHANGED <<stored, own, since, request, mailbox, connected, page, listed, asking,
                     userIdsToFetchMessagesFrom, ignoreUsualMessages, allowInput>>
      /\ \/ Accepts /\ Push(j) /\ UNCHANGED dropped
         \/ dropped' = [dropped EXCEPT ![m.peer] = @ \cup {m.time}] /\ UNCHANGED jobs
  BY <1>1, <1>2 DEF LiveMessage, netc, fetch, ui, store
<1>4. /\ m \in Replies /\ m.kind = "live" /\ m.peer \in Peers /\ m.time \in Times
      /\ Range(toClient') \subseteq Range(toClient) /\ Typed
  BY <1>1, <1>3, TakesMeans, RepliesTyped, TypedMeans DEF Base, Taken
<1>5. j \in Jobs
  BY <1>2, <1>4, JobsTyped
<1>6. \A p \in Peers : dropped[p] \subseteq dropped'[p]
  BY <1>3, <1>4 DEF Typed, PastTypes
<1>7. Range(jobs) \subseteq Range(jobs')
  BY <1>3, <1>5, JobsAre
<1>8. m.time \in dropped'[m.peer] \/ j \in Range(jobs')
  BY <1>3, <1>4, <1>5, JobsAre DEF Typed, PastTypes
<1>9. \A p \in Peers : \A t \in Range(mailbox'[p]) : Known(p, t) => Known(p, t)'
  BY <1>1, <1>2, <1>3, <1>6, <1>7, <1>8, TakenKnown
<1>10. ASSUME NEW p \in Peers, Due(p) PROVE Due(p)'
  <2>1. CASE UNCHANGED jobs
    <3>1. ASSUME Quiet(p) PROVE Quiet(p)'
      BY <1>3, <1>4, <2>1, <3>1 DEF Quiet
    <3>2. QED
      BY <1>3, <1>10, <2>1, <3>1, DueKept
  <2>2. CASE Accepts /\ Push(j)
    <3>1. ~Quiet(p)
      BY <2>2 DEF Accepts, TakesUsual, Quiet
    <3>2. jobs' = jobs \o <<j>> /\ <<j>> \in Seq(Jobs)
      BY <1>5, <2>2, JobsAre
    <3>3. QED
      BY <1>3, <1>10, <3>1, <3>2, DueKept
  <2>3. QED
    BY <1>3, <2>1, <2>2
<1>11. QED
  BY <1>3, <1>9, <1>10, HiddenKept

LEMMA FetchedHidden ==
  ASSUME Base, Lines, HiddenInv, NextMessageFetched, ~\E a : Abort(a)
  PROVE  HiddenInv'
<1>1. PICK m : m = Head(toClient)
  OBVIOUS
<1>2. /\ Takes("fetched") \/ Takes("nothing")
      /\ UNCHANGED <<dropped, stored, own, since, request, mailbox, connected, page, listed, asking,
                     ignoreUsualMessages, allowInput>>
  BY DEF NextMessageFetched, netc, ui, past, store
<1>3. PICK u : u = userIdsToFetchMessagesFrom
  OBVIOUS
<1>4. /\ Taken
      /\ \/ jobs' = jobs \o ReceivedJobs(m) /\ userIdsToFetchMessagesFrom' = u
         \/ /\ jobs' = jobs \o ReceivedJobs(m) \o NextFetch
            /\ userIdsToFetchMessagesFrom' = IF u = <<>> THEN <<>> ELSE Tail(u)
  <2>1. ASSUME failed' = "missingMessagesFetchers", UNCHANGED <<toClient, fetch, jobs, net>>
        PROVE  FALSE
    <3>1. Abort("missingMessagesFetchers")
      BY <2>1 DEF NextMessageFetched, Abort, server
    <3>2. QED
      BY <3>1
  <2>2. QED
    BY <1>1, <1>3, <2>1 DEF NextMessageFetched, fetch
<1>5. /\ m \in Range(toClient) /\ m \in Replies /\ m.kind \in {"fetched", "nothing"}
      /\ Range(toClient') \subseteq Range(toClient)
  BY <1>1, <1>2, <1>4, TakesMeans DEF Taken
<1>6. PICK got : got = ReceivedJobs(m)
  OBVIOUS
<1>7. /\ got \in Seq(Jobs) /\ NextFetch \in Seq(Jobs) /\ jobs \in Seq(Jobs)
      /\ jobs \o got \in Seq(Jobs) /\ Range(jobs \o got) = Range(jobs) \cup Range(got)
  <2>1. got \in Seq(Jobs) /\ NextFetch \in Seq(Jobs) /\ jobs \in Seq(Jobs)
    BY <1>5, <1>6, FetchedJobs, QueuesTyped
  <2>2. QED
    BY <2>1, Joined
<1>8. PICK added \in Seq(Jobs) :
        /\ jobs' = jobs \o added /\ Range(got) \subseteq Range(added)
        /\ \A j \in Range(added) : j \in Range(got) \/ j.op = "fetchMessages"
  <2>1. CASE jobs' = jobs \o got
    BY <1>7, <2>1
  <2>2. CASE jobs' = jobs \o got \o NextFetch
    <3>1. PICK both : both = got \o NextFetch
      OBVIOUS
    <3>2. /\ both \in Seq(Jobs) /\ Range(both) = Range(got) \cup Range(NextFetch)
      BY <1>7, <3>1, Joined
    <3>3. jobs' = jobs \o both
      BY <1>7, <2>2, <3>1
    <3>4. \A j \in Range(NextFetch) : j.op = "fetchMessages"
      BY <1>5, FetchedJobs
    <3>5. QED
      BY <3>2, <3>3, <3>4
  <2>3. QED
    BY <1>4, <1>6, <2>1, <2>2
<1>9. Range(jobs') = Range(jobs) \cup Range(added)
  BY <1>7, <1>8, Joined
<1>10. \A p \in Peers : \A t \in Range(mailbox'[p]) : Known(p, t) => Known(p, t)'
  <2>1. m.kind = "fetched" => Job("received", m.peer, m.time) \in Range(jobs')
    BY <1>5, <1>6, <1>8, <1>9, FetchedJobs
  <2>2. PICK kind \in {"fetched", "nothing"} : Takes(kind) /\ m.kind = kind
    BY <1>1, <1>2, TakesMeans
  <2>3. QED
    BY <1>1, <1>2, <1>4, <1>9, <2>1, <2>2, TakenKnown
<1>11. ASSUME NEW p \in Peers, Due(p) PROVE Due(p)'
  <2>1. ASSUME Quiet(p) PROVE Quiet(p)' /\ \A j \in Range(jobs \o got) : ~Grows(j, p)
    <3>1. \A j \in Range(got) : ~Grows(j, p)
      <4>1. \A j \in Range(got) : j.peer = m.peer /\ m.kind = "fetched"
        BY <1>5, <1>6, FetchedJobs
      <4>2. m.kind = "fetched" => m.peer # p
        BY <1>5, <2>1 DEF Quiet
      <4>3. QED
        BY <4>1, <4>2 DEF Grows
    <3>2. \A j \in Range(jobs) : ~Grows(j, p)
      BY <2>1 DEF Quiet
    <3>3. \A j \in Range(jobs') : j \in Range(jobs) \/ ~Grows(j, p)
      BY <1>8, <1>9, <3>1 DEF Grows
    <3>4. ignoreUsualMessages' /\ ~allowInput'
      BY <1>2, <2>1 DEF Quiet
    <3>5. Quiet(p)'
      BY <1>2, <1>5, <2>1, <3>3, <3>4, QuietKept
    <3>6. QED
      BY <1>7, <3>1, <3>2, <3>5
  <2>2. CASE userIdsToFetchMessagesFrom' = u
    BY <1>2, <1>3, <1>8, <1>11, <2>1, <2>2, DueKept
  <2>3. CASE asking = p \/ Ahead(p)
    BY <1>2, <1>8, <2>3, AheadPushed DEF Due
  <2>4. CASE /\ p \in Range(u) /\ Quiet(p)
             /\ jobs' = jobs \o got \o NextFetch
             /\ userIdsToFetchMessagesFrom' = IF u = <<>> THEN <<>> ELSE Tail(u)
    <3>1. u # <<>>
      BY <2>4, Nothing
    <3>2. /\ Head(u) \in Peers /\ Range(u) = {Head(u)} \cup Range(Tail(u))
          /\ NextFetch = <<Job("fetchMessages", Head(u), 0)>>
      BY <1>3, <1>5, <3>1, FetchedJobs
    <3>3. CASE p = Head(u)
      <4>1. PICK f : f = Job("fetchMessages", p, 0)
        OBVIOUS
      <4>2. f \in Jobs /\ f.op = "fetchMessages" /\ f.peer = p
        BY <4>1, JobsTyped DEF Job
      <4>3. jobs' = Append(jobs \o got, f)
        BY <1>7, <2>4, <3>2, <3>3, <4>1, <4>2
      <4>4. Ahead(p)'
        BY <1>7, <2>1, <2>4, <4>2, <4>3, AheadAtEnd
      <4>5. QED
        BY <4>4 DEF Due
    <3>4. CASE p \in Range(Tail(u))
      BY <2>1, <2>4, <3>1, <3>4 DEF Due
    <3>5. QED
      BY <2>4, <3>2, <3>3, <3>4
  <2>5. QED
    BY <1>3, <1>4, <1>6, <1>11, <2>2, <2>3, <2>4 DEF Due
<1>12. QED
  BY <1>2, <1>10, <1>11, HiddenKept

LEMMA NetHidden ==
  ASSUME Base, Lines, FreshInv, HiddenInv, NetThread
  PROVE  HiddenInv'
<1>1. CASE \E a : Abort(a)
  BY <1>1, AbortHidden
<1>2. CASE ~\E a : Abort(a)
  <2>1. ASSUME NEW j \in Jobs, Push(j), j.op \notin {"received", "send"},
               NEW kind \in {"loggedIn", "users"}, Takes(kind), Taken,
               UNCHANGED <<dropped, stored, own, since, request, mailbox, connected, page, listed, asking,
                           userIdsToFetchMessagesFrom, allowInput>>,
               ignoreUsualMessages => ignoreUsualMessages'
        PROVE  HiddenInv'
    <3>1. /\ jobs' = jobs \o <<j>> /\ <<j>> \in Seq(Jobs) /\ Range(jobs') = Range(jobs) \cup {j}
          /\ Range(toClient') \subseteq Range(toClient)
      BY <2>1, JobsAre, TakesMeans DEF Taken
    <3>2. \A p \in Peers : \A t \in Range(mailbox'[p]) : Known(p, t) => Known(p, t)'
      BY <2>1, <3>1, TakenKnown
    <3>3. ASSUME NEW p \in Peers, Due(p) PROVE Due(p)'
      <4>1. ASSUME Quiet(p) PROVE Quiet(p)'
        <5>1. ignoreUsualMessages' /\ ~allowInput'
          BY <2>1, <4>1 DEF Quiet
        <5>2. ~Grows(j, p)
          BY <2>1 DEF Grows
        <5>3. QED
          BY <2>1, <3>1, <4>1, <5>1, <5>2, QuietKept
      <4>2. QED
        BY <2>1, <3>1, <3>3, <4>1, DueKept
    <3>4. QED
      BY <2>1, <3>2, <3>3, HiddenKept
  <2>2. ASSUME UNCHANGED <<dropped, stored, own, since, request, toClient, mailbox, connected, page, listed,
                           jobs, asking, userIdsToFetchMessagesFrom>>,
               page = "users" \/ UNCHANGED allowInput,
               \A p \in Peers : p \in Range(userIdsToFetchMessagesFrom) =>
                 UNCHANGED <<ignoreUsualMessages, allowInput>>
        PROVE  HiddenInv'
    <3>1. \A p \in Peers : \A t \in Range(mailbox'[p]) : Known(p, t) => Known(p, t)'
      BY <2>2, KnownKept
    <3>2. ASSUME NEW p \in Peers, Due(p) PROVE Due(p)'
      <4>1. CASE asking = p \/ Ahead(p)
        BY <2>2, <4>1 DEF Due, Ahead
      <4>2. CASE p \in Range(userIdsToFetchMessagesFrom) /\ Quiet(p)
        BY <2>2, <4>2 DEF Due, Quiet
      <4>3. QED
        BY <3>2, <4>1, <4>2 DEF Due
    <3>3. QED
      BY <2>2, <3>1, <3>2, HiddenKept
  <2>3. ASSUME LoggedIn PROVE HiddenInv'
    <3>1. /\ Takes("loggedIn") /\ Taken /\ Push(Job("fetchUsers", None, 0))
          /\ UNCHANGED <<dropped, stored, own, since, request, mailbox, connected, page, listed, asking,
                         userIdsToFetchMessagesFrom, allowInput, ignoreUsualMessages>>
      BY <2>3 DEF LoggedIn, netc, fetch, ui, store, past
    <3>2. QED
      BY <2>1, <3>1, JobsTyped
  <2>4. ASSUME UsersFetched PROVE HiddenInv'
    <3>1. /\ Takes("users") /\ Taken /\ Push(Job("processUsers", None, 0)) /\ ignoreUsualMessages'
          /\ UNCHANGED <<dropped, stored, own, since, request, mailbox, connected, page, listed, asking,
                         userIdsToFetchMessagesFrom, allowInput>>
      BY <2>4 DEF UsersFetched, fetch, ui, store, past
    <3>2. QED
      BY <2>1, <3>1, JobsTyped
  <2>5. ASSUME UsersDone \/ MessagesDone PROVE HiddenInv'
    BY <2>2, <2>5 DEF UsersDone, MessagesDone, server, fetch, ui, store, past
  <2>6. ASSUME Compare PROVE HiddenInv'
    <3>1. UNCHANGED <<dropped, stored, own, since, request, toClient, mailbox, connected, page, listed,
                      jobs, asking, userIdsToFetchMessagesFrom>>
      BY <1>2, <2>6 DEF Compare, server, fetch, store, past
    <3>2. ASSUME NEW p \in Peers, p \in Range(userIdsToFetchMessagesFrom)
          PROVE  UNCHANGED <<ignoreUsualMessages, allowInput>>
      <4>1. userIdsToFetchMessagesFrom \in Seq(Peers)
        BY TypedMeans DEF Base, Typed, FetchTypes
      <4>2. userIdsToFetchMessagesFrom # <<>>
        BY <3>2, Nothing
      <4>3. Len(userIdsToFetchMessagesFrom) # 0
        BY <4>1, <4>2
      <4>4. QED
        BY <1>2, <2>6, <4>3 DEF Compare
    <3>3. page = "users"
      <4>1. net = "compare" /\ connected
        BY <1>2, <2>6 DEF Compare, Lines, OfflineInv
      <4>2. ~Fresh
        BY <4>1 DEF FreshInv, Unasked
      <4>3. QED
        BY <4>1, <4>2, TypedMeans DEF Fresh, Base, Typed, PageTypes
    <3>4. QED
      BY <2>2, <3>1, <3>2, <3>3
  <2>7. ASSUME ErrorReceived PROVE HiddenInv'
    <3>1. since' = now /\ UNCHANGED mailbox
      BY <2>7 DEF ErrorReceived
    <3>2. QED
      BY <3>1 DEF HiddenInv, Hidden, Known, Base, MailInv
  <2>8. QED
    BY <1>2, <2>3, <2>4, <2>5, <2>6, <2>7, LiveHidden, FetchedHidden DEF NetThread
<1>3. QED
  BY <1>1, <1>2

(* The answer to a request has all that is younger. *)
LEMMA AnswerHas ==
  ASSUME Base, NEW p \in Peers, NEW k \in 0..Len(mailbox[p]), NEW after \in Times, NewFrom(p, after, k),
         NEW t \in Range(mailbox[p]), after < t
  PROVE  \E r \in Range(AnswerFrom(p, k)) : r.kind = "fetched" /\ r.peer = p /\ r.time = t
<1>1. mailbox[p] \in Seq(Times) /\ Times \subseteq Nat
  BY TypedMeans, QueuesTyped DEF Base, Typed, ServerTypes
<1>2. PICK i \in 1..Len(mailbox[p]) : t = mailbox[p][i]
  BY <1>1, InRange
<1>3. Len(mailbox[p]) \in Nat /\ t \in Nat /\ after \in Nat /\ k \in Nat
  <2>1. mailbox[p][i] \in Times /\ Len(mailbox[p]) \in Nat
    BY <1>1
  <2>2. t \in Times
    BY <1>2, <2>1
  <2>3. k \in Nat
    BY <2>1
  <2>4. t \in Nat /\ after \in Nat
    BY <1>1, <2>2
  <2>5. QED
    BY <2>1, <2>3, <2>4
<1>4. ~(i \in 1..k)
  <2>1. i \in 1..k => t <= after
    BY <1>2 DEF NewFrom
  <2>2. QED
    BY <1>3, <2>1
<1>5. PICK n : n = Len(mailbox[p]) - k
  OBVIOUS
<1>6. PICK x : x = i - k
  OBVIOUS
<1>7. x \in 1..n /\ n # 0 /\ k + x = i
  <2>1. i \in Nat /\ i >= 1 /\ i <= Len(mailbox[p])
    BY <1>3
  <2>2. i > k
    BY <1>3, <1>4, <2>1
  <2>3. QED
    BY <1>3, <1>5, <1>6, <2>1, <2>2
<1>8. AnswerFrom(p, k) = [l \in 1..n |-> Reply("fetched", p, mailbox[p][k + l], n - l)]
  BY <1>5, <1>7 DEF AnswerFrom
<1>9. AnswerFrom(p, k)[x] = Reply("fetched", p, t, n - x) /\ x \in DOMAIN AnswerFrom(p, k)
  BY <1>2, <1>7, <1>8
<1>10. AnswerFrom(p, k)[x] \in Range(AnswerFrom(p, k))
  BY <1>9 DEF Range
<1>11. Reply("fetched", p, t, n - x).kind = "fetched" /\ Reply("fetched", p, t, n - x).peer = p
       /\ Reply("fetched", p, t, n - x).time = t
  BY DEF Reply
<1>12. QED
  BY <1>9, <1>10, <1>11

LEMMA ServerHidden ==
  ASSUME Base, Base', Lines, PastInv, HiddenInv, ServerAnswers \/ ServerRefuses \/ \E p \in Peers : PeerSends(p)
  PROVE  HiddenInv'
<1>0. toClient \in Seq(Replies) /\ Typed /\ now \in Nat /\ Times \subseteq Nat
  BY QueuesTyped, TypedMeans DEF Base
<1>1. ASSUME NEW added \in Seq(Replies), toClient' = toClient \o added,
             NEW p \in Peers, Due(p),
             Quiet(p) => \A r \in Range(added) : ~(r.kind = "fetched" /\ r.peer = p),
             request' = None \/ request' = request,
             UNCHANGED <<jobs, asking, userIdsToFetchMessagesFrom, ignoreUsualMessages, allowInput>>
      PROVE  Due(p)'
  <2>1. Range(toClient') = Range(toClient) \cup Range(added)
    BY <1>0, <1>1, Joined
  <2>2. ASSUME Quiet(p) PROVE Quiet(p)'
    <3>1. ignoreUsualMessages' /\ ~allowInput'
      BY <1>1, <2>2 DEF Quiet
    <3>2. QED
      BY <1>1, <2>1, <2>2, <3>1, QuietKept
  <2>3. QED
    BY <1>1, <2>2, DueKept
<1>2. ASSUME ServerAnswers PROVE HiddenInv'
  <2>1. /\ request # None /\ request' = None
        /\ UNCHANGED <<dropped, stored, own, since, mailbox, connected, page, listed, jobs, asking,
                       userIdsToFetchMessagesFrom, ignoreUsualMessages, allowInput>>
    BY <1>2 DEF ServerAnswers, netc, fetch, ui, store, past
  <2>2. PICK added \in Seq(Replies) :
          /\ toClient' = toClient \o added
          /\ \A r \in Range(added) : r.kind = "fetched" => r.peer = request.peer
          /\ \A p \in Peers : \A t \in Range(mailbox[p]) :
               request.peer = p /\ request.after < t =>
                 \E r \in Range(added) : r.kind = "fetched" /\ r.peer = p /\ r.time = t
    <3>1. CASE request.peer = None
      <4>0. PICK kind \in {"users", "error"} : toClient' = Append(toClient, Reply(kind, None, 0, 0))
        BY <1>2, <3>1 DEF ServerAnswers
      <4>1. PICK m : m = Reply(kind, None, 0, 0)
        OBVIOUS
      <4>2. m \in Replies /\ m.kind \in {"users", "error"}
        BY <4>1, RepliesTyped
      <4>3. toClient' = toClient \o <<m>>
        BY <1>0, <4>0, <4>1, <4>2
      <4>4. <<m>> \in Seq(Replies) /\ Range(<<m>>) = {m}
        BY <4>2, Single
      <4>5. QED
        BY <3>1, <4>2, <4>3, <4>4, ListsAssumption
    <3>2. CASE request.peer # None
      <4>1. request.peer \in Peers /\ request.after \in Times
        BY <1>0, <2>1, <3>2 DEF Typed, ServerTypes, Requests
      <4>2. PICK k \in 0..Len(mailbox[request.peer]) :
              NewFrom(request.peer, request.after, k) /\ toClient' = toClient \o AnswerFrom(request.peer, k)
        BY <1>2, <3>2 DEF ServerAnswers
      <4>3. PICK added : added = AnswerFrom(request.peer, k)
        OBVIOUS
      <4>4. added \in Seq(Replies) /\ \A r \in Range(added) : r.peer = request.peer
        BY <4>1, <4>2, <4>3, Answered
      <4>5. \A t \in Range(mailbox[request.peer]) : request.after < t =>
              \E r \in Range(added) : r.kind = "fetched" /\ r.peer = request.peer /\ r.time = t
        BY <4>1, <4>2, <4>3, AnswerHas
      <4>6. toClient' = toClient \o added
        BY <4>2, <4>3
      <4>7. \A p \in Peers : \A t \in Range(mailbox[p]) :
               request.peer = p /\ request.after < t =>
                 \E r \in Range(added) : r.kind = "fetched" /\ r.peer = p /\ r.time = t
        BY <4>5
      <4>8. \A r \in Range(added) : r.kind = "fetched" => r.peer = request.peer
        BY <4>4
      <4>9. added \in Seq(Replies)
        BY <4>4
      <4>10. QED
        BY <4>6, <4>7, <4>8, <4>9
    <3>3. QED
      BY <3>1, <3>2
  <2>3. Range(toClient') = Range(toClient) \cup Range(added)
    BY <1>0, <2>2, Joined
  <2>4. \A p \in Peers : \A t \in Range(mailbox[p]) : Known(p, t) => Known(p, t)'
    <3> SUFFICES ASSUME NEW p \in Peers, NEW t \in Range(mailbox[p]), Known(p, t) PROVE Known(p, t)'
      OBVIOUS
    <3>1. CASE request.peer = p /\ request.after < t
      BY <2>2, <2>3, <3>1 DEF Known
    <3>2. CASE ~(request.peer = p /\ request.after < t)
      BY <2>1, <2>3, <3>2 DEF Known
    <3>3. QED
      BY <3>1, <3>2
  <2>5. ASSUME NEW p \in Peers, Due(p) PROVE Due(p)'
    <3>1. Quiet(p) => \A r \in Range(added) : ~(r.kind = "fetched" /\ r.peer = p)
      BY <2>1, <2>2 DEF Quiet
    <3>2. QED
      BY <1>1, <2>1, <2>2, <2>5, <3>1
  <2>6. QED
    BY <2>1, <2>4, <2>5, HiddenKept
<1>3. ASSUME NEW q \in Peers, PeerSends(q) PROVE HiddenInv'
  <2>1. PICK m : m = Reply("live", q, now + 1, 0)
    OBVIOUS
  <2>2. /\ now < MaxTime /\ mailbox' = [mailbox EXCEPT ![q] = Append(@, now + 1)]
        /\ toClient' = IF connected THEN Append(toClient, m) ELSE toClient
        /\ UNCHANGED <<dropped, stored, own, since, request, connected, page, listed, jobs, asking,
                       userIdsToFetchMessagesFrom, ignoreUsualMessages, allowInput>>
    BY <1>3, <2>1 DEF PeerSends, netc, fetch, ui, store, past
  <2>3. m \in Replies /\ m.kind = "live" /\ m.peer = q /\ m.time = now + 1
    <3>1. now + 1 \in Times
      BY <1>0, <2>2, BoundsAssumption DEF Times
    <3>2. QED
      BY <2>1, <3>1, RepliesTyped
  <2>4. PICK added \in Seq(Replies) :
          /\ toClient' = toClient \o added
          /\ connected => m \in Range(added)
          /\ \A r \in Range(added) : r.kind = "live"
    <3>1. CASE connected
      <4>1. toClient' = toClient \o <<m>>
        BY <1>0, <2>2, <2>3, <3>1
      <4>2. <<m>> \in Seq(Replies) /\ Range(<<m>>) = {m}
        BY <2>3, Single
      <4>3. QED
        BY <2>3, <4>1, <4>2
    <3>2. CASE ~connected
      <4>1. toClient' = toClient \o <<>> /\ <<>> \in Seq(Replies) /\ Range(<<>>) = {}
        BY <1>0, <2>2, <3>2, Nothing
      <4>2. QED
        BY <3>2, <4>1
    <3>3. QED
      BY <3>1, <3>2
  <2>5. Range(toClient') = Range(toClient) \cup Range(added)
    BY <1>0, <2>4, Joined
  <2>6. \A p \in Peers : \A t \in Range(mailbox'[p]) : t \in Range(mailbox[p]) \/ (p = q /\ t = now + 1)
    <3>1. mailbox[q] \in Seq(Times) /\ now + 1 \in Times
      BY <1>0, <2>2, BoundsAssumption DEF Typed, ServerTypes, Times
    <3>2. Range(Append(mailbox[q], now + 1)) = Range(mailbox[q]) \cup {now + 1}
      BY <3>1, OneMore
    <3>3. \A p \in Peers : mailbox'[p] = IF p = q THEN Append(mailbox[q], now + 1) ELSE mailbox[p]
      BY <1>0, <2>2 DEF Typed, ServerTypes
    <3>4. QED
      BY <3>2, <3>3
  <2>7. SUFFICES ASSUME NEW p \in Peers, NEW t \in Range(mailbox'[p]), ~Known(p, t)'
                 PROVE  /\ t > MostRecent(p)
                        /\ connected => IF page = "users" THEN Due(p)' ELSE ~listed /\ ~allowInput
    BY <2>2 DEF HiddenInv, Hidden, MostRecent
  <2>8. CASE t \in Range(mailbox[p])
    <3>1. Known(p, t) => Known(p, t)'
      BY <2>2, <2>5, KnownKept
    <3>2. t \in Hidden(p)
      BY <2>7, <2>8, <3>1 DEF Hidden
    <3>3. Due(p) => Due(p)'
      <4>1. Quiet(p) => \A r \in Range(added) : ~(r.kind = "fetched" /\ r.peer = p)
        BY <2>4
      <4>2. QED
        BY <1>1, <2>2, <2>4, <4>1
    <3>4. QED
      BY <3>2, <3>3 DEF HiddenInv
  <2>9. CASE p = q /\ t = now + 1
    <3>1. ~connected
      BY <2>3, <2>4, <2>5, <2>7, <2>9 DEF Known
    <3>2. PICK T : T = stored[p] \cup own[p]
      OBVIOUS
    <3>3. T \in SUBSET Times /\ MostRecent(p) = Max(T \cup {0}) /\ \A u \in T : u <= now
      <4>1. stored[p] \in SUBSET Times /\ own[p] \in SUBSET Times
        BY <1>0 DEF Typed, StoreTypes
      <4>2. \A u \in T : u <= now
        BY <3>2 DEF PastInv
      <4>3. MostRecent(p) = Max(T \cup {0})
        BY <3>2 DEF MostRecent
      <4>4. QED
        BY <3>2, <4>1, <4>2, <4>3
    <3>4. MostRecent(p) \in T \/ MostRecent(p) = 0
      BY <3>3, RecentIs
    <3>5. MostRecent(p) <= now /\ MostRecent(p) \in Nat
      <4>1. CASE MostRecent(p) \in T
        BY <1>0, <3>3, <4>1
      <4>2. CASE MostRecent(p) = 0
        BY <1>0, <4>2
      <4>3. QED
        BY <3>4, <4>1, <4>2
    <3>6. QED
      BY <1>0, <2>9, <3>1, <3>5
  <2>10. QED
    BY <2>6, <2>7, <2>8, <2>9
<1>4. ASSUME ServerRefuses PROVE HiddenInv'
  <2>1. since' = now /\ UNCHANGED mailbox
    BY <1>4 DEF ServerRefuses
  <2>2. QED
    BY <2>1 DEF HiddenInv, Hidden, Known, Base, MailInv
<1>5. QED
  BY <1>2, <1>3, <1>4

LEMMA NextFollowed == Followed /\ [Next]_vars => Followed'
<1> SUFFICES ASSUME Followed, [Next]_vars PROVE Followed'
  OBVIOUS
<1>1. Wired' /\ Base /\ Base' /\ Lines /\ PastInv /\ FreshInv /\ HiddenInv
  BY NextWired DEF Followed, Wired, Lines
<1>2. CASE UNCHANGED vars
  <2>1. PastInv'
    BY <1>1, <1>2 DEF vars, server, netc, past, store, PastInv
  <2>2. FreshInv'
    BY <1>1, <1>2 DEF vars, server, netc, ui, FreshInv, Fresh, Unasked, Processing
  <2>3. HiddenInv'
    BY <1>1, <1>2 DEF vars, server, netc, fetch, ui, past, store, HiddenInv, Hidden, Known, MostRecent,
                      Due, Quiet, Ahead
  <2>4. QED
    BY <1>1, <2>1, <2>2, <2>3 DEF Followed
<1>3. CASE UIThread \/ RunLogIn \/ Disconnected
  BY <1>1, <1>3, UserPast, UserFresh, UserHidden DEF Followed
<1>4. CASE \/ RunFetchUsers \/ RunProcessUsers \/ RunFetchMessages
           \/ AskForMessages \/ RunReceived \/ RunSend
  <2>1. HiddenInv'
    <3>1. CASE \E a : Abort(a)
      BY <1>1, <3>1, AbortHidden
    <3>2. CASE ~\E a : Abort(a)
      BY <1>1, <1>4, <3>2, FetchUsersHidden, ProcessUsersHidden, FetchMessagesHidden,
         AskHidden, ReceivedHidden, SendHidden
    <3>3. QED
      BY <3>1, <3>2
  <2>2. QED
    BY <1>1, <1>4, <2>1, AsyncPast, AsyncFresh DEF Followed
<1>5. CASE NetThread
  BY <1>1, <1>5, NetPast, NetFresh, NetHidden DEF Followed
<1>6. CASE ServerAnswers \/ ServerRefuses \/ \E p \in Peers : PeerSends(p)
  BY <1>1, <1>6, ServerPast, ServerFresh, ServerHidden DEF Followed
<1>7. QED
  BY <1>2, <1>3, <1>4, <1>5, <1>6 DEF Next, AsyncThread, Rest

LEMMA InitFollowed == Init => Followed
<1> SUFFICES ASSUME Init PROVE Followed
  OBVIOUS
<1>1. /\ Range(jobs) = {} /\ 0 <= now /\ since = 0 /\ ~connected
      /\ \A p \in Peers : mailbox[p] = <<>> /\ stored[p] = {} /\ own[p] = {}
      /\ \A p \in Peers : Range(mailbox[p]) = {}
  BY Nothing DEF Init, MinimalPossibleTimestamp, ConversationTimestamp
<1>2. PastInv
  BY <1>1 DEF PastInv
<1>3. FreshInv
  BY <1>1 DEF FreshInv, Fresh
<1>4. HiddenInv
  BY <1>1 DEF HiddenInv, Hidden
<1>5. QED
  BY <1>2, <1>3, <1>4, InitWired DEF Followed

(* Catching up works, with any number of conversations, log ins and broken *)
(* connections: a message that is older than what is most recent in its    *)
(* conversation, by which logic.c asks for more (databaseGetMostRecent-    *)
(* MessageTimestamp), is there or will come, unless it was ignored on      *)
(* arrival, is older than the connection or the last refusal, or is of the *)
(* conversation's first unit of time.                                      *)
THEOREM NothingElseMissed == Spec => []OnlyIgnoredMissed
<1>1. Init => Followed
  BY InitFollowed
<1>2. Followed /\ [Next]_vars => Followed'
  BY NextFollowed
<1>3. Followed => OnlyIgnoredMissed
  <2> SUFFICES ASSUME Followed, NEW p \in Peers, NEW t \in Missed(p), t \notin dropped[p], ~(t <= since),
                      ~(t <= MinimalPossibleTimestamp)
               PROVE  FALSE
    BY DEF OnlyIgnoredMissed
  <2>1. /\ t \in Range(mailbox[p]) /\ t < MostRecent(p) /\ t \notin stored[p] /\ t \notin UnderWay(p)
    BY DEF Missed
  <2>2. Typed /\ Times \subseteq Nat
    BY TypedMeans, QueuesTyped DEF Followed, Wired, Base
  <2>3. t \in Times /\ t \in Nat /\ MostRecent(p) \in Nat
    <3>1. mailbox[p] \in Seq(Times)
      BY <2>2 DEF Typed, ServerTypes
    <3>2. t \in Times
      BY <2>1, <3>1, InRange
    <3>3. QED
      BY <2>2, <3>2, RecentTyped
  <2>4. ~Known(p, t)
    BY <2>1, <2>3 DEF Known, UnderWay
  <2>5. t > MostRecent(p)
    BY <2>1, <2>4 DEF Followed, HiddenInv, Hidden
  <2>6. QED
    BY <2>1, <2>3, <2>5
<1>4. QED
  BY <1>1, <1>2, <1>3, PTL DEF Spec

-----------------------------------------------------------------------------
(* With at most one conversation the counts agree.                         *)

MessagesComing == \E r \in Range(toClient) : r.kind \in {"fetched", "nothing"}
Counted == Asking \/ Asks \/ MessagesComing
Miscounts == {"fetchersMatch", "missingMessagesFetchers", "updateUsersList"}

(* The list is on its way, or that it is refused. *)
ListAsked == Asked /\ request.peer = None
ListComing == \E r \in Range(toClient) : r.kind \in {"users", "error"}
Listing == Greeted \/ Queued \/ ListAsked \/ ListComing

(* The counter is 1 from before the messages are asked for until the last  *)
(* is taken, and 0 when the queue is compared with it, while a refreshed   *)
(* list is on its way and whenever the user may refresh; a connection that *)
(* breaks leaves 1 at most, and that only on the page to log in.           *)
CountInv ==
  /\ missingMessagesFetchers \in {0, 1}
  /\ connected /\ Counted => missingMessagesFetchers = 1
  /\ Comparing => missingMessagesFetchers = 0
  /\ page = "users" /\ (allowInput \/ Listing) => missingMessagesFetchers = 0
  /\ failed \notin Miscounts

LEMMA CountKept ==
  ASSUME CountInv, UNCHANGED missingMessagesFetchers,
         connected' /\ Counted' => connected /\ Counted,
         Comparing' => Comparing,
         page' = "users" /\ (allowInput' \/ Listing')
           => (page = "users" /\ (allowInput \/ Listing)) \/ missingMessagesFetchers = 0,
         failed' \notin Miscounts
  PROVE  CountInv'
BY DEF CountInv

LEMMA CountedKept ==
  /\ request' = request => (Asks' <=> Asks)
  /\ toClient' = toClient => (MessagesComing' <=> MessagesComing)
  /\ UNCHANGED <<request, toClient, asking>> => (Counted' <=> Counted)
  /\ request' = request => (ListAsked' <=> ListAsked)
  /\ toClient' = toClient => (ListComing' <=> ListComing)
  /\ UNCHANGED <<request, toClient, jobs>> => (Listing' <=> Listing)
<1>1. request' = request => (Asks' <=> Asks)
  BY DEF Asks, Asked
<1>2. toClient' = toClient => (MessagesComing' <=> MessagesComing)
  BY DEF MessagesComing
<1>3. request' = request => (ListAsked' <=> ListAsked)
  BY SamePlaces DEF ListAsked
<1>4. toClient' = toClient => (ListComing' <=> ListComing)
  BY DEF ListComing
<1>5. UNCHANGED <<request, toClient, jobs>> => (Listing' <=> Listing)
  BY <1>3, <1>4, SamePlaces DEF Listing
<1>6. QED
  BY <1>1, <1>2, <1>3, <1>4, <1>5, SamePlaces DEF Counted

(* A job that asks for no list may be run or queued. *)
LEMMA ListingKept ==
  ASSUME UNCHANGED <<request, toClient>>, Queued' => Queued
  PROVE  Listing' => Listing
BY CountedKept, SamePlaces DEF Listing

LEMMA QueuedKept ==
  ASSUME Base, NEW j \in Jobs, Push(j), j.op \notin Refreshing
  PROVE  Queued' => Queued
<1>1. jobs \in Seq(Jobs) /\ jobs' = Append(jobs, j)
  BY QueuesTyped DEF Push
<1>2. Range(jobs') = Range(jobs) \cup {j}
  BY <1>1, OneMore
<1>3. QED
  BY <1>2 DEF Queued

LEMMA SameCount ==
  ASSUME CountInv, UNCHANGED <<missingMessagesFetchers, request, toClient, asking, connected, net>>,
         page' = "users" /\ (allowInput' \/ Listing')
           => (page = "users" /\ (allowInput \/ Listing)) \/ missingMessagesFetchers = 0,
         failed' \notin Miscounts
  PROVE  CountInv'
BY CountedKept, SamePlaces, CountKept

LEMMA AbortCount ==
  ASSUME CountInv, NEW a, Abort(a), a \notin Miscounts
  PROVE  CountInv'
<1>1. /\ UNCHANGED <<missingMessagesFetchers, request, toClient, asking, connected, net, page, allowInput, jobs>>
      /\ failed' = a
  BY DEF Abort, server, netc, fetch, ui
<1>2. Listing' <=> Listing
  BY <1>1, CountedKept
<1>3. QED
  BY <1>1, <1>2, SameCount

LEMMA UserCount ==
  ASSUME Base, Lines, OneToFetch, Token, CountInv, UIThread \/ RunLogIn \/ Disconnected
  PROVE  CountInv'
<1>0. failed \notin Miscounts
  BY DEF CountInv
<1>1. ASSUME LogInClicked PROVE CountInv'
  BY <1>0, <1>1, SameCount DEF LogInClicked, server, netc, fetch
<1>2. ASSUME UpdateClicked PROVE CountInv'
  <2>1. missingMessagesFetchers = 0
    BY <1>2 DEF UpdateClicked, CountInv
  <2>2. QED
    BY <1>0, <1>2, <2>1, SameCount DEF UpdateClicked, server, netc, fetch
<1>3. ASSUME NEW p \in Peers, SendClicked(p) PROVE CountInv'
  <2>1. /\ Push(Job("send", p, 0))
        /\ UNCHANGED <<missingMessagesFetchers, request, toClient, asking, connected, net, page, allowInput, failed>>
    BY <1>3 DEF SendClicked, server, netc, fetch, ui
  <2>2. PICK j : j = Job("send", p, 0)
    OBVIOUS
  <2>3. Queued' => Queued
    <3>1. j \in Jobs /\ j.op \notin Refreshing
      BY <2>2, JobsTyped DEF Refreshing
    <3>2. Push(j)
      BY <2>1, <2>2
    <3>3. QED
      BY <3>1, <3>2, QueuedKept
  <2>4. Listing' => Listing
    BY <2>1, <2>3, ListingKept
  <2>5. QED
    BY <1>0, <2>1, <2>4, SameCount
<1>4. ASSUME RunLogIn PROVE CountInv'
  <2>1. /\ Head(jobs).op = "logIn" /\ jobs # <<>> /\ asking = None
        /\ UNCHANGED <<missingMessagesFetchers, page, request, asking, net, failed>>
        /\ toClient' = <<Reply("loggedIn", None, 0, 0)>> \/ UNCHANGED connected
    BY <1>4 DEF RunLogIn, Runs, fetch, netc
  <2>2. ~connected
    <3>1. Head(jobs) \in Range(jobs)
      BY <2>1, QueuesTyped, OneLess
    <3>2. QED
      BY <2>1, <3>1 DEF Lines, LogInInv
  <2>3. request = None /\ page = "logIn"
    BY <2>2 DEF Lines, OfflineInv
  <2>4. connected' => ~Counted'
    <3>1. CASE toClient' = <<Reply("loggedIn", None, 0, 0)>>
      <4>1. PICK m : m = Reply("loggedIn", None, 0, 0)
        OBVIOUS
      <4>2. m \in Replies /\ m.kind = "loggedIn" /\ toClient' = <<m>>
        BY <3>1, <4>1, RepliesTyped
      <4>3. Range(toClient') = {m}
        BY <4>2, Single
      <4>4. ~MessagesComing'
        BY <4>2, <4>3 DEF MessagesComing
      <4>5. QED
        BY <2>1, <2>3, <4>4 DEF Counted, Asking, Asks, Asked
    <3>2. QED
      BY <2>1, <2>2, <3>1
  <2>5. QED
    BY <1>0, <2>1, <2>3, <2>4, SamePlaces, CountKept
<1>5. ASSUME Disconnected PROVE CountInv'
  <2>1. /\ ~connected' /\ page' = "logIn"
        /\ UNCHANGED <<missingMessagesFetchers, net, failed>>
    BY <1>5 DEF Disconnected, fetch
  <2>2. QED
    BY <1>0, <2>1, SamePlaces, CountKept
<1>6. QED
  BY <1>1, <1>2, <1>3, <1>4, <1>5 DEF UIThread

LEMMA AsyncCount ==
  ASSUME Base, Lines, OneToFetch, Token, CountInv,
         \/ RunFetchUsers \/ RunProcessUsers \/ RunFetchMessages
         \/ AskForMessages \/ RunReceived \/ RunSend
  PROVE  CountInv'
<1>0. OneInv /\ PlaceInv /\ ControlsInv /\ failed \notin Miscounts
  BY DEF Token, CountInv
<1>1. ASSUME RunFetchUsers PROVE CountInv'
  <2>1. CASE Abort("netFetchUsers")
    BY <2>1, AbortCount DEF Miscounts
  <2>2. CASE ~Abort("netFetchUsers")
    <3>1. /\ request' = Request(None, 0)
          /\ UNCHANGED <<missingMessagesFetchers, toClient, asking, net, connected, page, allowInput, failed>>
      BY <1>1, <2>2 DEF RunFetchUsers, fetch, ui
    <3>2. ~Asks' /\ (Counted' => Counted)
      BY <3>1, CountedKept, SamePlaces DEF Asks, Request, Counted
    <3>3. jobs # <<>> /\ Head(jobs).op = "fetchUsers"
      BY <1>1 DEF RunFetchUsers, Runs
    <3>4. Listing
      <4>1. Head(jobs) \in Range(jobs)
        BY <3>3, QueuesTyped, OneLess
      <4>2. QED
        BY <3>3, <4>1 DEF Listing, Queued, Refreshing
    <3>5. QED
      BY <1>0, <3>1, <3>2, <3>4, SamePlaces, CountKept
  <2>3. QED
    BY <2>1, <2>2
<1>2. ASSUME RunProcessUsers PROVE CountInv'
  <2>1. CASE Abort("processFetchedUsers")
    BY <2>1, AbortCount DEF Miscounts
  <2>2. CASE ~Abort("processFetchedUsers")
    <3>1. /\ connected /\ jobs # <<>> /\ Head(jobs).op = "processUsers" /\ missingMessagesFetchers = 0
          /\ UNCHANGED <<request, toClient, net, connected, failed>> /\ Pop
          /\ \/ UNCHANGED <<missingMessagesFetchers, asking>>
             \/ missingMessagesFetchers' = 1 /\ UNCHANGED allowInput
      BY <1>2, <2>2 DEF RunProcessUsers, Runs, server, HoldsControls, KeepsControls
    <3>2. Queued
      <4>1. Head(jobs) \in Range(jobs)
        BY <3>1, QueuesTyped, OneLess
      <4>2. QED
        BY <3>1, <4>1 DEF Queued, Refreshing
    <3>3. CASE UNCHANGED <<missingMessagesFetchers, asking>>
      BY <1>0, <3>1, <3>3, SameCount
    <3>4. CASE missingMessagesFetchers' = 1 /\ UNCHANGED allowInput
      <4>1. ~allowInput' /\ ~Comparing'
        BY <1>0, <3>1, <3>2, <3>4, SamePlaces DEF ControlsInv, Busy, PlaceInv
      <4>2. ~Queued'
        BY <1>0, <3>1, JobRun DEF Refreshing
      <4>3. ~Greeted' /\ ~ListAsked' /\ ~ListComing'
        <5>1. ~Greeted /\ ~Asked /\ ~Answering
          BY <1>0, <3>2 DEF PlaceInv
        <5>2. ~ListAsked /\ ~ListComing
          BY <5>1 DEF ListAsked, ListComing, Answering, IsAnswer
        <5>3. QED
          BY <3>1, <5>1, <5>2, SamePlaces, CountedKept
      <4>4. ~Listing'
        BY <4>2, <4>3 DEF Listing
      <4>5. QED
        BY <1>0, <3>1, <3>4, <4>1, <4>4 DEF CountInv
    <3>5. QED
      BY <3>1, <3>3, <3>4
  <2>3. QED
    BY <2>1, <2>2
<1>3. ASSUME RunFetchMessages PROVE FALSE
  <2>1. jobs # <<>> /\ Head(jobs).op = "fetchMessages"
    BY <1>3 DEF RunFetchMessages, Runs
  <2>2. Head(jobs) \in Range(jobs)
    BY <2>1, QueuesTyped, OneLess
  <2>3. QED
    BY <1>0, <2>1, <2>2 DEF OneInv
<1>4. ASSUME AskForMessages PROVE CountInv'
  <2>1. CASE Abort("netFetchMessages") \/ Abort("fetchMissingMessages")
    BY <2>1, AbortCount DEF Miscounts
  <2>2. CASE ~(Abort("netFetchMessages") \/ Abort("fetchMissingMessages"))
    <3>1. /\ asking # None /\ connected
          /\ UNCHANGED <<missingMessagesFetchers, net, connected, page, allowInput, failed>>
      BY <1>4, <2>2 DEF AskForMessages, fetch, ui
    <3>2. connected /\ Counted
      BY <3>1 DEF Counted, Asking
    <3>3. Listing' => Listing
      <4>1. request'.peer = asking /\ UNCHANGED <<jobs, toClient>>
        BY <1>4, <2>2 DEF AskForMessages, Request
      <4>2. ~ListAsked'
        BY <3>1, <4>1 DEF ListAsked
      <4>3. QED
        BY <4>1, <4>2, SamePlaces, CountedKept DEF Listing
    <3>4. QED
      BY <1>0, <3>1, <3>2, <3>3, SamePlaces, CountKept
  <2>3. QED
    BY <2>1, <2>2
<1>5. ASSUME RunReceived PROVE CountInv'
  <2>1. CASE Abort("listBinarySearch") \/ Abort("databaseAddMessage")
    BY <2>1, AbortCount DEF Miscounts
  <2>2. CASE ~(Abort("listBinarySearch") \/ Abort("databaseAddMessage"))
    <3>1. /\ jobs # <<>> /\ Pop
          /\ UNCHANGED <<missingMessagesFetchers, request, toClient, asking, connected, net, page, allowInput, failed>>
      BY <1>5, <2>2 DEF RunReceived, Runs, server, netc, fetch, ui
    <3>2. Listing' => Listing
      BY <1>0, <3>1, JobRun, ListingKept
    <3>3. QED
      BY <1>0, <3>1, <3>2, SameCount
  <2>3. QED
    BY <2>1, <2>2
<1>6. ASSUME RunSend PROVE CountInv'
  <2>1. CASE Abort("sendMessage")
    BY <2>1, AbortCount DEF Miscounts
  <2>2. CASE ~Abort("sendMessage")
    <3>1. /\ jobs # <<>> /\ Pop
          /\ UNCHANGED <<missingMessagesFetchers, request, toClient, asking, connected, net, page, allowInput, failed>>
      BY <1>6, <2>2 DEF RunSend, Runs, server, netc, fetch, ui
    <3>2. Listing' => Listing
      BY <1>0, <3>1, JobRun, ListingKept
    <3>3. QED
      BY <1>0, <3>1, <3>2, SameCount
  <2>3. QED
    BY <2>1, <2>2
<1>7. QED
  BY <1>1, <1>2, <1>3, <1>4, <1>5, <1>6

LEMMA NetCount ==
  ASSUME Base, Lines, OneToFetch, Token, CountInv, NetThread
  PROVE  CountInv'
<1>0. OneInv /\ PlaceInv /\ ControlsInv /\ failed \notin Miscounts
  BY DEF Token, CountInv
<1>1. ASSUME NEW kind, Takes(kind), Taken,
             UNCHANGED <<missingMessagesFetchers, request, asking, connected, page, allowInput, failed>>,
             ~Comparing', Queued' => Queued \/ Greeted \/ ListComing
      PROVE  CountInv'
  <2>1. Range(toClient') \subseteq Range(toClient)
    BY <1>1, TakesMeans DEF Taken
  <2>2. Counted' => Counted
    BY <1>1, <2>1, CountedKept, SamePlaces DEF Counted, MessagesComing
  <2>3. Listing' => Listing
    <3>1. (Greeted' => Greeted) /\ (ListComing' => ListComing)
      BY <2>1 DEF Greeted, ListComing
    <3>2. ListAsked' => ListAsked
      BY <1>1, CountedKept
    <3>3. QED
      BY <1>1, <3>1, <3>2 DEF Listing
  <2>4. QED
    BY <1>0, <1>1, <2>2, <2>3, CountKept
<1>2. ASSUME LoggedIn PROVE CountInv'
  <2>1. /\ Takes("loggedIn") /\ Taken /\ ~Comparing'
        /\ UNCHANGED <<missingMessagesFetchers, request, asking, connected, page, allowInput, failed>>
    BY <1>2 DEF LoggedIn, Takes, Comparing, netc, fetch, ui
  <2>2. Greeted
    BY <2>1, TakesMeans DEF Greeted
  <2>3. QED
    BY <1>1, <2>1, <2>2
<1>3. ASSUME LiveMessage PROVE CountInv'
  <2>1. /\ Takes("live") /\ Taken /\ ~Comparing'
        /\ UNCHANGED <<missingMessagesFetchers, request, asking, connected, page, allowInput, failed>>
    BY <1>3 DEF LiveMessage, Takes, Comparing, netc, fetch, ui
  <2>2. Queued' => Queued
    <3>1. \/ UNCHANGED jobs
          \/ Push(Job("received", Head(toClient).peer, Head(toClient).time))
      BY <1>3 DEF LiveMessage
    <3>2. Head(toClient).peer \in Peers /\ Head(toClient).time \in Times
      BY <2>1, TakesMeans DEF Replies
    <3>3. PICK j : j = Job("received", Head(toClient).peer, Head(toClient).time)
      OBVIOUS
    <3>4. j \in Jobs /\ j.op \notin Refreshing
      BY <3>2, <3>3, JobsTyped DEF Refreshing
    <3>5. CASE UNCHANGED jobs
      BY <3>5, SamePlaces
    <3>6. CASE Push(Job("received", Head(toClient).peer, Head(toClient).time))
      <4>1. Push(j)
        BY <3>3, <3>6
      <4>2. QED
        BY <3>4, <4>1, QueuedKept
    <3>7. QED
      BY <3>1, <3>5, <3>6
  <2>3. QED
    BY <1>1, <2>1, <2>2
<1>4. ASSUME UsersFetched PROVE CountInv'
  <2>1. /\ Takes("users") /\ Taken /\ ~Comparing'
        /\ UNCHANGED <<missingMessagesFetchers, request, asking, connected, page, allowInput, failed>>
    BY <1>4 DEF UsersFetched, Comparing, fetch, ui
  <2>2. ListComing
    BY <2>1, TakesMeans DEF ListComing
  <2>3. QED
    BY <1>1, <2>1, <2>2
<1>5. ASSUME UsersDone \/ MessagesDone PROVE CountInv'
  <2>1. /\ ~Comparing'
        /\ UNCHANGED <<missingMessagesFetchers, request, toClient, jobs, asking, connected, page, allowInput, failed>>
    BY <1>5 DEF UsersDone, MessagesDone, Comparing, server, fetch, ui
  <2>2. QED
    BY <1>0, <2>1, CountedKept, CountKept
<1>6. ASSUME NextMessageFetched PROVE CountInv'
  <2>1. PICK kind \in {"fetched", "nothing"} : Takes(kind)
    BY <1>6 DEF NextMessageFetched
  <2>2. MessagesComing /\ connected /\ net = "idle"
    BY <2>1, TakesMeans DEF MessagesComing
  <2>3. missingMessagesFetchers = 1 /\ ~Asking
    <3>1. Answering
      BY <2>2 DEF MessagesComing, Answering, IsAnswer
    <3>2. QED
      BY <1>0, <2>2, <3>1 DEF CountInv, Counted, PlaceInv
  <2>4. /\ UNCHANGED <<request, asking, connected, page, allowInput, failed>> /\ Taken
        /\ \/ UNCHANGED <<missingMessagesFetchers, net>>
           \/ Head(toClient).more = 0 /\ missingMessagesFetchers' = missingMessagesFetchers - 1
    BY <1>6, <2>3 DEF NextMessageFetched, IsLast, NoneFollows, netc, ui, fetch
  <2>5. CASE UNCHANGED <<missingMessagesFetchers, net>>
    <3>1. ~Greeted /\ ~Queued
      BY <1>0, <2>2, <2>3 DEF PlaceInv, MessagesComing, Answering, IsAnswer
    <3>2. ~Queued'
      <4>1. PICK m : m = Head(toClient)
        OBVIOUS
      <4>2. jobs' = jobs \o ReceivedJobs(m)
        BY <1>6, <2>2, <2>3, <2>5, <4>1 DEF NextMessageFetched
      <4>3. CASE m.kind = "fetched"
        <5>1. m.peer \in Peers /\ m.time \in Times
          BY <2>1, <4>1, <4>3, TakesMeans, RepliesTyped
        <5>2. PICK j : j = Job("received", m.peer, m.time)
          OBVIOUS
        <5>3. j \in Jobs /\ j.op \notin Refreshing
          BY <5>1, <5>2, JobsTyped DEF Refreshing
        <5>4. Push(j)
          <6>1. jobs \in Seq(Jobs) /\ jobs' = jobs \o <<j>>
            BY <4>2, <4>3, <5>2, QueuesTyped DEF ReceivedJobs
          <6>2. QED
            BY <5>3, <6>1 DEF Push
        <5>5. QED
          BY <3>1, <5>3, <5>4, QueuedKept
      <4>4. CASE m.kind # "fetched"
        <5>1. UNCHANGED jobs
          BY <4>2, <4>4, QueuesTyped DEF ReceivedJobs
        <5>2. QED
          BY <3>1, <5>1, SamePlaces
      <4>5. QED
        BY <4>3, <4>4
    <3>3. QED
      BY <1>1, <2>1, <2>2, <2>4, <2>5, <3>2 DEF Comparing
  <2>6. CASE Head(toClient).more = 0 /\ missingMessagesFetchers' = missingMessagesFetchers - 1
    <3>1. request = None /\ \A r \in Range(toClient') : ~IsAnswer(r)
      BY <2>1, <2>4, <2>6, LastTaken DEF Taken
    <3>2. ~Counted'
      BY <2>3, <2>4, <3>1 DEF Counted, Asking, Asks, Asked, MessagesComing, IsAnswer
    <3>3. missingMessagesFetchers' = 0
      BY <2>3, <2>6
    <3>4. QED
      BY <1>0, <2>4, <3>2, <3>3 DEF CountInv
  <2>7. QED
    BY <2>4, <2>5, <2>6
<1>7. ASSUME Compare PROVE CountInv'
  <2>1. missingMessagesFetchers = 0 /\ Len(userIdsToFetchMessagesFrom) = 0
    <3>1. Comparing
      BY <1>7 DEF Compare, Comparing
    <3>2. missingMessagesFetchers = 0
      BY <3>1 DEF CountInv
    <3>3. QED
      BY <1>0, <3>2 DEF OneInv
  <2>2. /\ net' = "messagesDone"
        /\ UNCHANGED <<missingMessagesFetchers, request, toClient, jobs, asking, connected, page, failed>>
    BY <1>7, <2>1 DEF Compare, server, fetch
  <2>3. ~Comparing'
    BY <2>2 DEF Comparing
  <2>4. QED
    BY <1>0, <2>1, <2>2, <2>3, CountedKept, CountKept
<1>8. ASSUME ErrorReceived PROVE CountInv'
  <2>1. /\ Takes("error") /\ Taken
        /\ UNCHANGED <<missingMessagesFetchers, request, asking, connected, net, page, jobs, failed>>
    BY <1>8 DEF ErrorReceived, netc, fetch
  <2>2. Listing /\ net = "idle" /\ Range(toClient') \subseteq Range(toClient)
    BY <2>1, TakesMeans DEF Taken, Listing, ListComing
  <2>3. Counted' => Counted
    BY <2>1, <2>2, CountedKept, SamePlaces DEF Counted, MessagesComing
  <2>4. QED
    BY <1>0, <2>1, <2>2, <2>3, SamePlaces, CountKept
<1>9. QED
  BY <1>2, <1>3, <1>4, <1>5, <1>6, <1>7, <1>8 DEF NetThread

LEMMA ServerCount ==
  ASSUME Base, Lines, CountInv, ServerAnswers \/ ServerRefuses \/ \E p \in Peers : PeerSends(p)
  PROVE  CountInv'
<1>0. /\ toClient \in Seq(Replies) /\ failed \notin Miscounts
  BY QueuesTyped DEF CountInv
<1>1. ASSUME NEW added \in Seq(Replies), toClient' = toClient \o added,
             UNCHANGED <<missingMessagesFetchers, jobs, asking, net, connected, page, allowInput, failed>>,
             Asks' => Asks, ListAsked' => ListAsked,
             ListAsked \/ \A r \in Range(added) : r.kind \notin {"loggedIn", "users", "error"},
             Asks \/ \A r \in Range(added) : r.kind \notin {"fetched", "nothing"}
      PROVE  CountInv'
  <2>1. Range(toClient') = Range(toClient) \cup Range(added)
    BY <1>0, <1>1, Joined
  <2>2. Counted' => Counted
    BY <1>1, <2>1, SamePlaces DEF Counted, MessagesComing
  <2>3. Listing' => Listing
    BY <1>1, <2>1, SamePlaces DEF Listing, ListComing, Greeted
  <2>4. QED
    BY <1>0, <1>1, <2>2, <2>3, SamePlaces, CountKept
<1>2. ASSUME ServerAnswers PROVE CountInv'
  <2>1. /\ request # None /\ request' = None
        /\ UNCHANGED <<missingMessagesFetchers, jobs, asking, net, connected, page, allowInput, failed>>
    BY <1>2 DEF ServerAnswers, netc, fetch, ui
  <2>2. ~Asks' /\ ~ListAsked'
    BY <2>1 DEF Asks, ListAsked, Asked
  <2>3. CASE request.peer = None
    <3>0. PICK kind \in {"users", "error"} : toClient' = Append(toClient, Reply(kind, None, 0, 0))
      BY <1>2, <2>3 DEF ServerAnswers
    <3>1. PICK m : m = Reply(kind, None, 0, 0)
      OBVIOUS
    <3>2. m \in Replies /\ m.kind \in {"users", "error"}
      BY <3>1, RepliesTyped
    <3>3. toClient' = toClient \o <<m>>
      BY <1>0, <3>0, <3>1, <3>2
    <3>4. <<m>> \in Seq(Replies) /\ Range(<<m>>) = {m}
      BY <3>2, Single
    <3>5. ListAsked
      BY <2>1, <2>3 DEF ListAsked, Asked
    <3>6. QED
      BY <1>1, <2>1, <2>2, <3>2, <3>3, <3>4, <3>5
  <2>4. CASE request.peer # None
    <3>1. request.peer \in Peers /\ request.after \in Times
      BY <2>1, <2>4, TypedMeans DEF Base, Typed, ServerTypes, Requests
    <3>2. PICK k \in 0..Len(mailbox[request.peer]) :
            NewFrom(request.peer, request.after, k) /\ toClient' = toClient \o AnswerFrom(request.peer, k)
      BY <1>2, <2>4 DEF ServerAnswers
    <3>3. AnswerFrom(request.peer, k) \in Seq(Replies) /\ Asks
      BY <2>1, <2>4, <3>1, <3>2, Answered DEF Asks, Asked
    <3>4. \A r \in Range(AnswerFrom(request.peer, k)) : r.kind \in {"fetched", "nothing"}
      BY <3>1, <3>2, Answered
    <3>5. QED
      BY <1>1, <2>1, <2>2, <3>2, <3>3, <3>4
  <2>5. QED
    BY <2>3, <2>4
<1>3. ASSUME NEW p \in Peers, PeerSends(p) PROVE CountInv'
  <2>1. PICK m : m = Reply("live", p, now + 1, 0)
    OBVIOUS
  <2>2. /\ toClient' = IF connected THEN Append(toClient, m) ELSE toClient
        /\ now < MaxTime
        /\ UNCHANGED <<missingMessagesFetchers, request, jobs, asking, net, connected, page, allowInput, failed>>
    BY <1>3, <2>1 DEF PeerSends, netc, fetch, ui
  <2>3. m \in Replies /\ m.kind = "live"
    <3>1. now + 1 \in Times
      BY <2>2, TypedMeans, BoundsAssumption DEF Base, Typed, ServerTypes, Times
    <3>2. QED
      BY <2>1, <3>1, RepliesTyped
  <2>4. <<m>> \in Seq(Replies) /\ Range(<<m>>) = {m}
    BY <2>3, Single
  <2>5. CASE toClient' = toClient
    BY <1>0, <2>2, <2>5, CountedKept, SameCount
  <2>6. CASE toClient' = Append(toClient, m)
    <3>1. toClient' = toClient \o <<m>>
      BY <1>0, <2>3, <2>6
    <3>2. QED
      BY <1>1, <2>2, <2>3, <2>4, <3>1, CountedKept
  <2>7. QED
    BY <2>2, <2>5, <2>6
<1>4. ASSUME ServerRefuses PROVE CountInv'
  <2>1. /\ request' = None
        /\ UNCHANGED <<missingMessagesFetchers, toClient, jobs, asking, net, connected, page, allowInput, failed>>
    BY <1>4 DEF ServerRefuses, netc, fetch, ui
  <2>2. ~Asks' /\ ~ListAsked'
    BY <2>1 DEF Asks, ListAsked, Asked
  <2>3. (Counted' => Counted) /\ (Listing' => Listing)
    BY <2>1, <2>2, CountedKept, SamePlaces DEF Counted, Listing
  <2>4. QED
    BY <1>0, <2>1, <2>3, SamePlaces, CountKept
<1>5. QED
  BY <1>2, <1>3, <1>4

CountsTogether == InOnePlace /\ (OneToFetch => CountInv)

LEMMA NextCounts == CountsTogether /\ [Next]_vars => CountsTogether'
<1> SUFFICES ASSUME CountsTogether, [Next]_vars PROVE CountsTogether'
  OBVIOUS
<1>1. InOnePlace' /\ Base /\ Lines
  BY NextToken DEF CountsTogether, InOnePlace, Wired, Lines
<1>2. OneToFetch' => OneToFetch
  BY ListKept DEF OneToFetch, vars, server
<1>3. ASSUME OneToFetch PROVE CountInv'
  <2>1. Token /\ CountInv
    BY <1>3 DEF CountsTogether, InOnePlace
  <2>2. CASE UNCHANGED vars
    <3>1. UNCHANGED <<missingMessagesFetchers, request, toClient, jobs, asking, connected, net, page, allowInput, failed>>
      BY <2>2 DEF vars, server, netc, fetch, ui
    <3>2. QED
      BY <2>1, <3>1, CountedKept, SameCount DEF CountInv
  <2>3. QED
    BY <1>1, <1>3, <2>1, <2>2, UserCount, AsyncCount, NetCount, ServerCount
       DEF Next, AsyncThread, Rest
<1>4. QED
  BY <1>1, <1>2, <1>3 DEF CountsTogether

LEMMA InitCounts == Init => CountsTogether
<1> SUFFICES ASSUME Init PROVE CountsTogether
  OBVIOUS
<1>1. Range(toClient) = {}
  BY Nothing DEF Init
<1>2. CountInv
  BY <1>1 DEF Init, CountInv, Comparing, Miscounts
<1>3. QED
  BY <1>2, InitToken DEF CountsTogether

(* The two counts that logic.c compares are one, with at most one          *)
(* conversation: no assertion on them fails, those of the net thread's     *)
(* callbacks (logic.c:351 and 360) and the one on a refresh (logic.c:1156).*)
(* With more conversations they do not all hold: see the README.           *)
THEOREM CountsMatch == Spec => [](OneToFetch => FetchersMatch /\ failed # "updateUsersList")
<1>1. Init => CountsTogether
  BY InitCounts
<1>2. CountsTogether /\ [Next]_vars => CountsTogether'
  BY NextCounts
<1>3. CountsTogether => (OneToFetch => FetchersMatch /\ failed # "updateUsersList")
  BY DEF CountsTogether, CountInv, Miscounts, FetchersMatch
<1>4. QED
  BY <1>1, <1>2, <1>3, PTL DEF Spec

=============================================================================
