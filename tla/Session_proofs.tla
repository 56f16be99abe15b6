--------------------------- MODULE Session_proofs ---------------------------
(***************************************************************************)
(* A client's sessions, for any credentials and any number of attempts,    *)
(* acts and starts: types, the three modules' agreement on the connection, *)
(* what a connection taken for secured may be, whose requests carry the    *)
(* token, whose database is open, and that logging in stays possible.      *)
(***************************************************************************)
EXTENDS Session, TLAPS

-----------------------------------------------------------------------------
(* Sequences: what is in them.                                             *)

Ops(queue) == {j.op : j \in Range(queue)}
Kinds(requests) == {q.kind : q \in Range(requests)}

(* No job of a kind in B is queued behind an attempt. *)
AttemptsAfter(queue, B) ==
  \A i, k \in 1..Len(queue) : i < k /\ queue[i].op \in Attempts => queue[k].op \notin B

LEMMA InRange ==
  ASSUME NEW S, NEW s \in Seq(S), NEW e
  PROVE  e \in Range(s) <=> \E i \in 1..Len(s) : e = s[i]
<1>1. DOMAIN s = 1..Len(s)
  OBVIOUS
<1>2. e \in Range(s) <=> \E i \in DOMAIN s : e = s[i]
  BY DEF Range
<1>3. QED
  BY <1>1, <1>2

LEMMA NothingIn == Range(<<>>) = {} /\ Ops(<<>>) = {} /\ Kinds(<<>>) = {}
<1>1. Range(<<>>) = {}
  BY DEF Range
<1>2. QED
  BY <1>1 DEF Ops, Kinds

LEMMA OneMore ==
  ASSUME NEW S, NEW s \in Seq(S), NEW m \in S
  PROVE  Append(s, m) \in Seq(S) /\ Range(Append(s, m)) = Range(s) \cup {m}
<1> DEFINE t == Append(s, m)
<1>1. /\ t \in Seq(S) /\ Len(t) = Len(s) + 1 /\ Len(s) \in Nat
      /\ t[Len(s) + 1] = m /\ \A i \in 1..Len(s) : t[i] = s[i]
  OBVIOUS
<1> HIDE DEF t
<1>2. \A i : i \in 1..Len(t) <=> i \in 1..Len(s) \/ i = Len(s) + 1
  BY <1>1
<1>3. ASSUME NEW e PROVE e \in Range(t) <=> e \in Range(s) \cup {m}
  <2>1. e \in Range(t) <=> \E i \in 1..Len(t) : e = t[i]
    BY <1>1, InRange
  <2>2. e \in Range(s) <=> \E i \in 1..Len(s) : e = s[i]
    BY InRange
  <2>3. QED
    BY <1>1, <1>2, <2>1, <2>2
<1>4. QED
  BY <1>1, <1>3 DEF t

LEMMA OneLess ==
  ASSUME NEW S, NEW s \in Seq(S), s # <<>>
  PROVE  /\ Tail(s) \in Seq(S) /\ Head(s) \in S /\ Head(s) \in Range(s)
         /\ Range(s) = {Head(s)} \cup Range(Tail(s))
<1> DEFINE t == Tail(s)
<1>1. /\ t \in Seq(S) /\ Head(s) \in S /\ Len(s) \in Nat \ {0} /\ Len(t) = Len(s) - 1
      /\ Head(s) = s[1] /\ \A i \in 1..Len(t) : t[i] = s[i + 1]
  OBVIOUS
<1> HIDE DEF t
<1>2. /\ 1 \in 1..Len(s) /\ \A i \in 1..Len(t) : i + 1 \in 1..Len(s)
      /\ \A i \in 1..Len(s) : i = 1 \/ (i - 1 \in 1..Len(t) /\ (i - 1) + 1 = i)
  BY <1>1
<1>3. ASSUME NEW e PROVE e \in Range(s) <=> e = Head(s) \/ e \in Range(t)
  <2>1. e \in Range(t) <=> \E i \in 1..Len(t) : e = t[i]
    BY <1>1, InRange
  <2>2. e \in Range(s) <=> \E i \in 1..Len(s) : e = s[i]
    BY InRange
  <2>3. ASSUME NEW i \in 1..Len(s), i # 1 PROVE s[i] = t[i - 1] /\ i - 1 \in 1..Len(t)
    BY <1>1, <1>2, <2>3
  <2>4. ASSUME e \in Range(s) PROVE e = Head(s) \/ e \in Range(t)
    <3>1. PICK i \in 1..Len(s) : e = s[i]
      BY <2>2, <2>4
    <3>2. QED
      BY <1>1, <2>1, <2>3, <3>1
  <2>5. ASSUME e = Head(s) \/ e \in Range(t) PROVE e \in Range(s)
    BY <1>1, <1>2, <2>1, <2>2, <2>5
  <2>6. QED
    BY <2>4, <2>5
<1>4. QED
  BY <1>1, <1>3 DEF t

LEMMA Joined ==
  ASSUME NEW S, NEW s \in Seq(S), NEW t \in Seq(S)
  PROVE  s \o t \in Seq(S) /\ Range(s \o t) = Range(s) \cup Range(t)
<1> DEFINE u == s \o t
<1>0. u \in Seq(S)
  OBVIOUS
<1>1. /\ Len(u) = Len(s) + Len(t) /\ Len(s) \in Nat /\ Len(t) \in Nat
      /\ \A i \in 1..Len(s) : u[i] = s[i]
      /\ \A i \in 1..Len(t) : u[Len(s) + i] = t[i]
  OBVIOUS
<1> HIDE DEF u
<1>2. /\ \A i \in 1..Len(u) :
           i \in 1..Len(s) \/ (i - Len(s) \in 1..Len(t) /\ Len(s) + (i - Len(s)) = i)
      /\ \A i \in 1..Len(s) : i \in 1..Len(u)
      /\ \A i \in 1..Len(t) : Len(s) + i \in 1..Len(u)
  BY <1>1
<1>3. ASSUME NEW e PROVE e \in Range(u) <=> e \in Range(s) \cup Range(t)
  <2>1. e \in Range(u) <=> \E i \in 1..Len(u) : e = u[i]
    BY <1>0, InRange
  <2>2. e \in Range(s) <=> \E i \in 1..Len(s) : e = s[i]
    BY InRange
  <2>3. e \in Range(t) <=> \E i \in 1..Len(t) : e = t[i]
    BY InRange
  <2>4. ASSUME NEW i \in 1..Len(u), i \notin 1..Len(s)
        PROVE  u[i] = t[i - Len(s)] /\ i - Len(s) \in 1..Len(t)
    BY <1>1, <1>2, <2>4
  <2>5. ASSUME e \in Range(u) PROVE e \in Range(s) \cup Range(t)
    <3>1. PICK i \in 1..Len(u) : e = u[i]
      BY <2>1, <2>5
    <3>2. QED
      BY <1>1, <2>2, <2>3, <2>4, <3>1
  <2>6. ASSUME e \in Range(s) \cup Range(t) PROVE e \in Range(u)
    BY <1>1, <1>2, <2>1, <2>2, <2>3, <2>6
  <2>7. QED
    BY <2>5, <2>6
<1>4. QED
  BY <1>0, <1>3 DEF u

LEMMA AfterAppend ==
  ASSUME NEW s \in Seq(Jobs), NEW j \in Jobs, NEW B, AttemptsAfter(s, B),
         j.op \in B => Ops(s) \cap Attempts = {}
  PROVE  AttemptsAfter(Append(s, j), B)
<1> DEFINE t == Append(s, j)
<1>1. /\ t \in Seq(Jobs) /\ Len(t) = Len(s) + 1 /\ Len(s) \in Nat
      /\ t[Len(s) + 1] = j /\ \A i \in 1..Len(s) : t[i] = s[i]
  OBVIOUS
<1> HIDE DEF t
<1>2. \A i \in 1..Len(s) : s[i].op \in Ops(s)
  <2> SUFFICES ASSUME NEW i \in 1..Len(s) PROVE s[i].op \in Ops(s)
    OBVIOUS
  <2>1. s[i] \in Range(s)
    BY InRange
  <2>2. QED
    BY <2>1 DEF Ops
<1>3. ASSUME NEW i \in 1..Len(t), NEW k \in 1..Len(t), i < k, t[i].op \in Attempts
      PROVE  t[k].op \notin B
  <2>1. i \in 1..Len(s) /\ t[i] = s[i]
    BY <1>1, <1>3
  <2>2. CASE k \in 1..Len(s)
    BY <1>1, <1>3, <2>1, <2>2 DEF AttemptsAfter
  <2>3. CASE k = Len(s) + 1
    BY <1>1, <1>2, <1>3, <2>1, <2>3
  <2>4. QED
    BY <1>1, <2>2, <2>3
<1>4. QED
  BY <1>3 DEF AttemptsAfter, t

LEMMA AfterTail ==
  ASSUME NEW s \in Seq(Jobs), s # <<>>, NEW B, AttemptsAfter(s, B)
  PROVE  /\ AttemptsAfter(Tail(s), B)
         /\ Head(s).op \in Attempts => Ops(Tail(s)) \cap B = {}
<1> DEFINE t == Tail(s)
<1>1. /\ t \in Seq(Jobs) /\ Len(s) \in Nat \ {0} /\ Len(t) = Len(s) - 1
      /\ Head(s) = s[1] /\ \A i \in 1..Len(t) : t[i] = s[i + 1]
  OBVIOUS
<1> HIDE DEF t
<1>2. 1 \in 1..Len(s) /\ \A i \in 1..Len(t) : i + 1 \in 1..Len(s) /\ 1 < i + 1
  BY <1>1
<1>3. AttemptsAfter(t, B)
  <2> SUFFICES ASSUME NEW i \in 1..Len(t), NEW k \in 1..Len(t), i < k, t[i].op \in Attempts
               PROVE  t[k].op \notin B
    BY DEF AttemptsAfter
  <2>1. i + 1 < k + 1 /\ s[i + 1].op \in Attempts
    BY <1>1
  <2>2. s[k + 1].op \notin B
    BY <1>2, <2>1 DEF AttemptsAfter
  <2>3. QED
    BY <1>1, <2>2
<1>4. ASSUME Head(s).op \in Attempts, NEW j \in Range(t) PROVE j.op \notin B
  <2>1. PICK i \in 1..Len(t) : j = t[i]
    BY <1>1, <1>4, InRange
  <2>2. s[i + 1].op \notin B
    BY <1>1, <1>2, <1>4 DEF AttemptsAfter
  <2>3. QED
    BY <1>1, <2>1, <2>2
<1>5. QED
  BY <1>3, <1>4 DEF Ops, t

LEMMA AfterNothing == \A B : AttemptsAfter(<<>>, B)
BY DEF AttemptsAfter

-----------------------------------------------------------------------------
(* What the operations on the queue of jobs and on the connection do.      *)

LEMMA Tuples ==
  /\ Len(Handshake) = 4
  /\ NetStates = {"keyReceived", "keySent", "headerReceived", "established",
                  "authenticated", "finishedWithError", "undefined"}
<1>1. Handshake = <<"keyReceived", "keySent", "headerReceived", "established">>
  BY DEF Handshake
<1>2. Len(Handshake) = 4 /\ DOMAIN Handshake = 1..4
  BY <1>1
<1>3. Range(Handshake) = {Handshake[i] : i \in 1..4}
  BY <1>2 DEF Range
<1>4. Range(Handshake) = {"keyReceived", "keySent", "headerReceived", "established"}
  BY <1>1, <1>3
<1>5. QED
  BY <1>2, <1>4 DEF NetStates

LEMMA JobsOps == \A j \in Jobs : j.op \in Attempts => j.who \in Credentials
BY DEF Jobs, Attempts

LEMMA Pushed ==
  ASSUME jobs \in Seq(Jobs), NEW j \in Jobs, Push(j)
  PROVE  /\ jobs' \in Seq(Jobs)
         /\ Ops(jobs) \subseteq Ops(jobs') /\ Ops(jobs') \subseteq Ops(jobs) \cup {j.op}
         /\ life = "running" => j.op \in Ops(jobs')
         /\ \A B : AttemptsAfter(jobs, B) /\ (j.op \in B => Ops(jobs) \cap Attempts = {})
                     => AttemptsAfter(jobs', B)
<1>1. Append(jobs, j) \in Seq(Jobs) /\ Range(Append(jobs, j)) = Range(jobs) \cup {j}
  BY OneMore
<1>2. jobs' = Append(jobs, j) \/ (life # "running" /\ jobs' = jobs)
  BY DEF Push
<1>3. CASE jobs' = Append(jobs, j)
  <2>1. Ops(jobs') = Ops(jobs) \cup {j.op}
    BY <1>1, <1>3 DEF Ops
  <2>2. QED
    BY <1>1, <1>3, <2>1, AfterAppend
<1>4. QED
  BY <1>2, <1>3

LEMMA Popped ==
  ASSUME jobs \in Seq(Jobs), jobs # <<>>
  PROVE  /\ Head(jobs) \in Jobs /\ Tail(jobs) \in Seq(Jobs)
         /\ Ops(jobs) = {Head(jobs).op} \cup Ops(Tail(jobs))
         /\ \A B : AttemptsAfter(jobs, B) =>
                     /\ AttemptsAfter(Tail(jobs), B)
                     /\ Head(jobs).op \in Attempts => Ops(Tail(jobs)) \cap B = {}
<1>1. /\ Head(jobs) \in Jobs /\ Tail(jobs) \in Seq(Jobs)
      /\ Range(jobs) = {Head(jobs)} \cup Range(Tail(jobs))
  BY OneLess
<1>2. Ops(jobs) = {Head(jobs).op} \cup Ops(Tail(jobs))
  BY <1>1 DEF Ops
<1>3. QED
  BY <1>1, <1>2, AfterTail

LEMMA UnderWayOps ==
  \A queue : UnderWay(queue) <=> Connecting \/ Ops(queue) \cap Attempts # {}
BY DEF UnderWay, Ops

Linked == toServer \in Seq(Requests) /\ toClient \in Seq(Replies) /\ closing \in BOOLEAN

LEMMA Sent ==
  ASSUME Linked, NEW request \in Requests, Send(request)
  PROVE  /\ Linked'
         /\ \/ closing /\ UNCHANGED link
            \/ /\ ~closing /\ Secured /\ UNCHANGED <<toClient, closing>>
               /\ Range(toServer') = Range(toServer) \cup {request}
               /\ Kinds(toServer') = Kinds(toServer) \cup {request.kind}
            \/ /\ ~closing /\ ~Secured /\ toServer' = <<>> /\ closing'
               /\ Range(toClient') = Range(toClient) \cup {"closed"}
<1>1. CASE closing
  BY <1>1 DEF Send, Linked, link
<1>2. CASE ~closing /\ Secured
  <2>1. toServer' = Append(toServer, request) /\ UNCHANGED <<toClient, closing>>
    BY <1>2 DEF Send
  <2>2. toServer' \in Seq(Requests) /\ Range(toServer') = Range(toServer) \cup {request}
    BY <2>1, OneMore DEF Linked
  <2>3. QED
    BY <1>2, <2>1, <2>2 DEF Linked, Kinds
<1>3. CASE ~closing /\ ~Secured
  <2>1. toServer' = <<>> /\ toClient' = Append(toClient, "closed") /\ closing' = TRUE
    BY <1>3 DEF Send
  <2>2. "closed" \in Replies
    BY DEF Replies
  <2>3. toClient' \in Seq(Replies) /\ Range(toClient') = Range(toClient) \cup {"closed"}
    BY <2>1, <2>2, OneMore DEF Linked
  <2>4. toServer' \in Seq(Requests)
    BY <2>1
  <2>5. QED
    BY <1>3, <2>1, <2>3, <2>4 DEF Linked
<1>4. QED
  BY <1>1, <1>2, <1>3

LEMMA Took ==
  ASSUME Linked, NEW reply, Takes(reply)
  PROVE  /\ Linked' /\ UNCHANGED <<toServer, closing>>
         /\ reply \in Range(toClient) /\ Range(toClient) = {reply} \cup Range(toClient')
         /\ Alive /\ netInitialized /\ net = "idle"
<1>1. /\ toClient # <<>> /\ Head(toClient) = reply /\ toClient' = Tail(toClient)
      /\ Alive /\ netInitialized /\ net = "idle" /\ UNCHANGED <<toServer, closing>>
  BY DEF Takes
<1>2. toClient' \in Seq(Replies) /\ Range(toClient) = {reply} \cup Range(toClient')
  BY <1>1, OneLess DEF Linked
<1>3. QED
  BY <1>1, <1>2 DEF Linked

LEMMA OneReply ==
  ASSUME NEW a \in Replies
  PROVE  <<a>> \in Seq(Replies) /\ Range(<<a>>) = {a}
<1>1. DOMAIN <<a>> = {1}
  OBVIOUS
<1>2. QED
  BY <1>1 DEF Range

LEMMA TwoReplies ==
  ASSUME NEW a \in Replies, NEW b \in Replies
  PROVE  <<a, b>> \in Seq(Replies) /\ Range(<<a, b>>) = {a, b}
<1>1. DOMAIN <<a, b>> = {1, 2}
  OBVIOUS
<1>2. QED
  BY <1>1 DEF Range

LEMMA Answered ==
  ASSUME NEW q \in Requests
  PROVE  /\ Answers(q) \in Seq(Replies)
         /\ \A reply : Contains(Answers(q), reply) <=> reply \in Range(Answers(q))
         /\ "closed" \notin Range(Answers(q)) => Range(Answers(q)) \subseteq {"loggedIn", "users"}
         /\ q.kind \in Attempts => "closed" \in Range(Answers(q)) \/ "loggedIn" \in Range(Answers(q))
         /\ "loggedIn" \in Range(Answers(q)) => q.kind = "logIn"
         /\ "users" \in Range(Answers(q)) <=> q.kind = "fetchUsers"
<1> DEFINE Fits ==
             /\ "closed" \notin Range(Answers(q)) => Range(Answers(q)) \subseteq {"loggedIn", "users"}
             /\ q.kind \in Attempts => "closed" \in Range(Answers(q)) \/ "loggedIn" \in Range(Answers(q))
             /\ "loggedIn" \in Range(Answers(q)) => q.kind = "logIn"
             /\ "users" \in Range(Answers(q)) <=> q.kind = "fetchUsers"
<1>1. /\ q.kind = "logIn" =>
           Answers(q) = IF q.who \in accounts THEN <<"loggedIn">> ELSE <<"logInRefused", "closed">>
      /\ q.kind = "register" =>
           Answers(q) = IF q.who \in accounts THEN <<"registerRefused", "closed">> ELSE <<"registered", "closed">>
      /\ q.kind = "fetchUsers" => Answers(q) = <<"users">>
      /\ q.kind = "shutdown" => Answers(q) = <<"closed">>
      /\ q.kind = "broadcast" => Answers(q) = <<>>
  BY DEF Answers
<1>2. {"loggedIn", "logInRefused", "registered", "registerRefused", "users", "closed"} \subseteq Replies
  BY DEF Replies
<1>3. Attempts = {"logIn", "register"}
  BY DEF Attempts
<1>4. ASSUME q.kind = "logIn" PROVE Answers(q) \in Seq(Replies) /\ Fits
  <2>1. CASE q.who \in accounts
    <3>1. Answers(q) = <<"loggedIn">>
      BY <1>1, <1>4, <2>1
    <3>2. /\ Answers(q) \in Seq(Replies)
          /\ Range(Answers(q)) = {"loggedIn"}
      BY <1>2, <3>1, OneReply
    <3>3. QED
      BY <1>4, <3>2, <1>3
  <2>2. CASE q.who \notin accounts
    <3>1. Answers(q) = <<"logInRefused", "closed">>
      BY <1>1, <1>4, <2>2
    <3>2. /\ Answers(q) \in Seq(Replies)
          /\ Range(Answers(q)) = {"logInRefused", "closed"}
      BY <1>2, <3>1, TwoReplies
    <3>3. QED
      BY <1>4, <3>2, <1>3
  <2>3. QED
    BY <2>1, <2>2
<1>5. ASSUME q.kind = "register" PROVE Answers(q) \in Seq(Replies) /\ Fits
  <2>1. CASE q.who \in accounts
    <3>1. Answers(q) = <<"registerRefused", "closed">>
      BY <1>1, <1>5, <2>1
    <3>2. /\ Answers(q) \in Seq(Replies)
          /\ Range(Answers(q)) = {"registerRefused", "closed"}
      BY <1>2, <3>1, TwoReplies
    <3>3. QED
      BY <1>5, <3>2, <1>3
  <2>2. CASE q.who \notin accounts
    <3>1. Answers(q) = <<"registered", "closed">>
      BY <1>1, <1>5, <2>2
    <3>2. /\ Answers(q) \in Seq(Replies)
          /\ Range(Answers(q)) = {"registered", "closed"}
      BY <1>2, <3>1, TwoReplies
    <3>3. QED
      BY <1>5, <3>2, <1>3
  <2>3. QED
    BY <2>1, <2>2
<1>6. ASSUME q.kind = "fetchUsers" PROVE Answers(q) \in Seq(Replies) /\ Fits
  <2>1. Answers(q) = <<"users">>
    BY <1>1, <1>6
  <2>2. /\ Answers(q) \in Seq(Replies)
        /\ Range(Answers(q)) = {"users"}
    BY <1>2, <2>1, OneReply
  <2>3. QED
    BY <1>6, <2>2, <1>3
<1>7. ASSUME q.kind = "shutdown" PROVE Answers(q) \in Seq(Replies) /\ Fits
  <2>1. Answers(q) = <<"closed">>
    BY <1>1, <1>7
  <2>2. /\ Answers(q) \in Seq(Replies)
        /\ Range(Answers(q)) = {"closed"}
    BY <1>2, <2>1, OneReply
  <2>3. QED
    BY <1>7, <2>2, <1>3
<1>8. ASSUME q.kind = "broadcast" PROVE Answers(q) \in Seq(Replies) /\ Fits
  <2>1. Answers(q) = <<>>
    BY <1>1, <1>8
  <2>2. /\ Answers(q) \in Seq(Replies)
        /\ Range(Answers(q)) = {}
    BY <1>2, <2>1, NothingIn
  <2>3. QED
    BY <1>8, <2>2, <1>3
<1>9. Answers(q) \in Seq(Replies) /\ Fits
  <2>1. q.kind \in {"logIn", "register", "fetchUsers", "shutdown", "broadcast"}
    BY DEF Requests
  <2>2. QED
    BY <2>1, <1>4, <1>5, <1>6, <1>7, <1>8
<1>10. ASSUME NEW reply PROVE Contains(Answers(q), reply) <=> reply \in Range(Answers(q))
  <2>1. reply \in Range(Answers(q)) <=> \E i \in 1..Len(Answers(q)) : reply = Answers(q)[i]
    BY <1>9, InRange
  <2>2. QED
    BY <2>1 DEF Contains
<1>11. QED
  BY <1>9, <1>10

LEMMA ServerAnswered ==
  ASSUME Linked, toServer # <<>>, toClient' = toClient \o Answers(Head(toServer)),
         closing' = Contains(Answers(Head(toServer)), "closed"),
         toServer' = IF closing' THEN <<>> ELSE Tail(toServer)
  PROVE  /\ Linked' /\ Head(toServer) \in Requests /\ Head(toServer) \in Range(toServer)
         /\ Range(toClient') = Range(toClient) \cup Range(Answers(Head(toServer)))
         /\ closing' <=> "closed" \in Range(Answers(Head(toServer)))
         /\ closing' => toServer' = <<>>
         /\ ~closing' => Range(toServer) = {Head(toServer)} \cup Range(toServer')
<1>1. /\ Head(toServer) \in Requests /\ Head(toServer) \in Range(toServer)
      /\ Tail(toServer) \in Seq(Requests)
      /\ Range(toServer) = {Head(toServer)} \cup Range(Tail(toServer))
  BY OneLess DEF Linked
<1>2. /\ Answers(Head(toServer)) \in Seq(Replies)
      /\ closing' <=> "closed" \in Range(Answers(Head(toServer)))
  BY <1>1, Answered
<1>3. toClient' \in Seq(Replies) /\ Range(toClient') = Range(toClient) \cup Range(Answers(Head(toServer)))
  BY <1>2, Joined DEF Linked
<1>4. closing' \in BOOLEAN /\ toServer' \in Seq(Requests)
  BY <1>1 DEF Contains
<1>5. QED
  BY <1>1, <1>2, <1>3, <1>4 DEF Linked

-----------------------------------------------------------------------------
(* Types, with what they rest on: a job that runs is an attempt, the first *)
(* job finds the program as it was started, and when the program is gone   *)
(* nothing of it is left.                                                  *)

Starting ==
  /\ jobs = <<Job("show", None)>> /\ page = "splash" /\ state = "unauthenticated"
  /\ ~netInitialized /\ ~netThis /\ async = "idle" /\ net = "idle"
  /\ autoLoggingIn => saved # None

JobInv ==
  /\ async # "idle" => job.op \in Attempts
  /\ async = "handshake" => progress < Len(Handshake)
  /\ "show" \in Ops(jobs) => Starting

GoneInv ==
  life = "gone" => /\ async = "idle" /\ net = "idle" /\ jobs = <<>>
                   /\ toServer = <<>> /\ toClient = <<>> /\ ~closing

Base == TypeOK /\ JobInv /\ GoneInv

(* The types, in parts. *)
LinkTypes ==
  /\ accounts \subseteq Credentials
  /\ toServer \in Seq(Requests) /\ toClient \in Seq(Replies) /\ closing \in BOOLEAN
DiskTypes == dbKey \in Credentials \cup {None} /\ saved \in Credentials \cup {None}
JobTypes ==
  /\ life \in {"running", "leaving", "gone"}
  /\ jobs \in Seq(Jobs) /\ job \in Jobs
ThreadTypes ==
  /\ async \in {"idle", "netInit", "handshake", "compare", "secured", "credentials"}
  /\ net \in {"idle", "loggedIn", "disconnected", "finishLoading", "showLogIn", "netClean", "listen"}
LogicTypes ==
  /\ state \in {"unauthenticated", "awaiting", "authenticated", "exchanging"}
  /\ netInitialized \in BOOLEAN /\ databaseInitialized \in BOOLEAN /\ autoLoggingIn \in BOOLEAN
NetTypes ==
  /\ netThis \in BOOLEAN /\ netState \in NetStates /\ leftOver \in NetStates
  /\ progress \in 0..Len(Handshake) /\ token \in Tokens /\ loggedInAs \in Credentials \cup {None}
PageTypes ==
  /\ page \in {"splash", "logIn", "register", "users", "conversation", "admin"}
  /\ allowInput \in BOOLEAN
BoundTypes == attempts \in 0..MaxAttempts /\ acts \in 0..MaxActs /\ starts \in 1..MaxStarts
Assertions ==
  {"netInitialized", "netThis", "netInit", "netLogIn", "netFetchUsers", "netCurrentUserId",
   "netShutdownServer", "netSendBroadcast", "netCreateConversation",
   "netReplyToConversationSetUpInvite", "databaseInitialized", "netListen", "receive", "netClean",
   "freed"}
HistoryTypes ==
  /\ late \in BOOLEAN /\ twice \in BOOLEAN /\ early \in BOOLEAN
  /\ failed \in Assertions \cup {"none"}
Typed ==
  /\ LinkTypes /\ DiskTypes /\ JobTypes /\ ThreadTypes /\ LogicTypes /\ NetTypes /\ PageTypes
  /\ BoundTypes /\ HistoryTypes

LEMMA TypedMeans == (TypeOK <=> Typed) /\ (TypeOK' <=> Typed')
<1>1. TypeOK <=> Typed
  BY DEF TypeOK, Typed, LinkTypes, DiskTypes, JobTypes, ThreadTypes, LogicTypes, NetTypes, PageTypes,
         BoundTypes, HistoryTypes, Assertions
<1>2. TypeOK' <=> Typed'
  BY DEF TypeOK, Typed, LinkTypes, DiskTypes, JobTypes, ThreadTypes, LogicTypes, NetTypes, PageTypes,
         BoundTypes, HistoryTypes, Assertions
<1>3. QED
  BY <1>1, <1>2

LEMMA JobsTyped ==
  /\ \A who \in Credentials, op \in Attempts : Job(op, who) \in Jobs /\ Job(op, who).op = op
  /\ \A op \in {"show", "fetchUsers", "processUsers", "shutdown", "continue", "start", "delete", "reply"} :
       Job(op, None) \in Jobs /\ Job(op, None).op = op
  /\ <<Job("show", None)>> \in Seq(Jobs) /\ Ops(<<Job("show", None)>>) = {"show"}
<1>1. /\ \A who \in Credentials, op \in Attempts : Job(op, who) \in Jobs /\ Job(op, who).op = op
      /\ \A op \in {"show", "fetchUsers", "processUsers", "shutdown", "continue", "start", "delete", "reply"} :
           Job(op, None) \in Jobs /\ Job(op, None).op = op
  BY DEF Job, Jobs, Attempts
<1>2. ASSUME NEW j \in Jobs PROVE <<j>> \in Seq(Jobs) /\ Ops(<<j>>) = {j.op}
  <2>1. DOMAIN <<j>> = {1}
    OBVIOUS
  <2>2. Range(<<j>>) = {j}
    BY <2>1 DEF Range
  <2>3. QED
    BY <2>2 DEF Ops
<1>3. QED
  BY <1>1, <1>2

LEMMA RequestTypes ==
  ASSUME TypeOK
  PROVE  /\ \A who \in Credentials, kind \in Attempts :
              Request(kind, who) \in Requests /\ Request(kind, who).kind = kind
              /\ Request(kind, who).who = who
         /\ \A kind \in {"fetchUsers", "shutdown", "broadcast"} :
              Request(kind, None) \in Requests /\ Request(kind, None).kind = kind
              /\ Request(kind, None).token = token
BY DEF TypeOK, Request, Requests, Attempts

LEMMA InitBase == Init => Base
<1> SUFFICES ASSUME Init PROVE Base
  OBVIOUS
<1>1. Ops(jobs) = {"show"} /\ jobs \in Seq(Jobs) /\ job \in Jobs
  BY JobsTyped DEF Init
<1>2. JobInv /\ GoneInv
  BY <1>1 DEF Init, JobInv, GoneInv, Starting
<1>3. toServer \in Seq(Requests) /\ toClient \in Seq(Replies)
  BY DEF Init
<1>4. /\ progress \in 0..Len(Handshake) /\ netState \in NetStates /\ leftOver \in NetStates
      /\ attempts \in 0..MaxAttempts /\ acts \in 0..MaxActs /\ starts \in 1..MaxStarts
  BY Tuples, BoundsAssumption DEF Init
<1>5. TypeOK
  BY <1>1, <1>3, <1>4 DEF Init, TypeOK, Tokens
<1>6. QED
  BY <1>2, <1>5 DEF Base

(* A failed assertion, and a step of nobody's, leave all this alone. *)
LEMMA AbortBase ==
  ASSUME Base,
         NEW a \in Assertions, Abort(a)
  PROVE  Base'
<1>1. /\ failed' = a
      /\ UNCHANGED <<accounts, link, disk, life, jobs, async, job, net, logic, netc, ui, bound, history>>
  BY DEF Abort
<1>2. TypeOK'
  BY <1>1 DEF Base, TypeOK, Assertions, link, disk, logic, netc, ui, bound, history
<1>3. (JobInv /\ GoneInv)'
  BY <1>1 DEF Base, JobInv, GoneInv, Starting, Ops, link, disk, logic, netc, ui
<1>4. QED
  BY <1>2, <1>3 DEF Base

(* Steps that change what is queued and shown, and the state of the user. *)
LEMMA ShownBase ==
  ASSUME Base, life # "gone", jobs' \in Seq(Jobs), "show" \notin Ops(jobs'),
         state' \in {"unauthenticated", "awaiting", "authenticated", "exchanging"},
         PageTypes', acts' \in 0..MaxActs, late' \in BOOLEAN,
         UNCHANGED <<accounts, link, disk, life, async, job, net, netInitialized, databaseInitialized,
                     autoLoggingIn, netc, attempts, starts, twice, early, failed>>
  PROVE  Base'
<1>1. Typed /\ JobInv /\ GoneInv
  BY TypedMeans DEF Base
<1>2. (LinkTypes /\ DiskTypes /\ ThreadTypes /\ NetTypes)'
  BY <1>1 DEF Typed, LinkTypes, DiskTypes, ThreadTypes, NetTypes, link, disk, netc
<1>3. (JobTypes /\ LogicTypes /\ BoundTypes)'
  BY <1>1 DEF Typed, JobTypes, LogicTypes, BoundTypes
<1>4. HistoryTypes'
  BY <1>1 DEF Typed, HistoryTypes
<1>5. (JobInv /\ GoneInv)'
  BY <1>1 DEF JobInv, GoneInv, netc
<1>6. QED
  BY <1>2, <1>3, <1>4, <1>5, TypedMeans DEF Base, Typed

(* Such a step of the user, who may queue a job. *)
LEMMA QueuedBase ==
  ASSUME Base, life # "gone", page # "splash", NEW j \in Jobs, j.op # "show",
         Push(j) \/ jobs' = jobs,
         state' \in {state, "exchanging"}, allowInput' \in {allowInput, FALSE},
         page' \in {page, "users", "admin"}, acts < MaxActs, acts' = acts + 1, late' \in BOOLEAN,
         UNCHANGED <<accounts, link, disk, life, async, job, net, netInitialized, databaseInitialized,
                     autoLoggingIn, netc, attempts, starts, twice, early, failed>>
  PROVE  Base'
<1>1. Typed /\ JobInv
  BY TypedMeans DEF Base
<1>2. jobs \in Seq(Jobs) /\ "show" \notin Ops(jobs)
  BY <1>1 DEF Typed, JobTypes, JobInv, Starting
<1>3. jobs' \in Seq(Jobs) /\ Ops(jobs') \subseteq Ops(jobs) \cup {j.op}
  <2>1. CASE Push(j)
    BY <1>2, <2>1, Pushed
  <2>2. CASE jobs' = jobs
    BY <1>2, <2>2 DEF Ops
  <2>3. QED
    BY <2>1, <2>2
<1>4. PageTypes' /\ state' \in {"unauthenticated", "awaiting", "authenticated", "exchanging"}
  BY <1>1 DEF Typed, PageTypes, LogicTypes
<1>5. acts' \in 0..MaxActs
  BY <1>1, BoundsAssumption DEF Typed, BoundTypes
<1>6. QED
  BY <1>2, <1>3, <1>4, <1>5, ShownBase

(* The next job, of which another may come. *)
LEMMA RanBase ==
  ASSUME Base, life # "gone", jobs # <<>>, Head(jobs).op # "show",
         jobs' = Tail(jobs) \/ jobs' = Append(Tail(jobs), Job("fetchUsers", None)),
         state' \in {state, "exchanging"}, allowInput' \in BOOLEAN,
         page' \in {page, "users", "conversation"}, late' \in BOOLEAN,
         UNCHANGED <<accounts, link, disk, life, async, job, net, netInitialized, databaseInitialized,
                     autoLoggingIn, netc, bound, twice, early, failed>>
  PROVE  Base'
<1>1. Typed /\ JobInv
  BY TypedMeans DEF Base
<1>2. jobs \in Seq(Jobs)
  BY <1>1 DEF Typed, JobTypes
<1>3. Tail(jobs) \in Seq(Jobs) /\ Ops(jobs) = {Head(jobs).op} \cup Ops(Tail(jobs))
  BY <1>2, Popped
<1>4. "show" \notin Ops(jobs)
  <2>1. ASSUME Starting PROVE FALSE
    BY <2>1 DEF Starting, Job
  <2>2. QED
    BY <1>1, <2>1 DEF JobInv
<1>5. jobs' \in Seq(Jobs) /\ "show" \notin Ops(jobs')
  <2>1. Job("fetchUsers", None) \in Jobs /\ Job("fetchUsers", None).op = "fetchUsers"
    BY JobsTyped
  <2>2. /\ Append(Tail(jobs), Job("fetchUsers", None)) \in Seq(Jobs)
        /\ Range(Append(Tail(jobs), Job("fetchUsers", None))) = Range(Tail(jobs)) \cup {Job("fetchUsers", None)}
    <3>1. PICK q : q = Tail(jobs)
      OBVIOUS
    <3>2. PICK j : j = Job("fetchUsers", None)
      OBVIOUS
    <3>3. q \in Seq(Jobs) /\ j \in Jobs
      BY <1>3, <2>1, <3>1, <3>2
    <3>4. Append(q, j) \in Seq(Jobs) /\ Range(Append(q, j)) = Range(q) \cup {j}
      BY <3>3, OneMore
    <3>5. QED
      BY <3>1, <3>2, <3>4
  <2>3. "show" \notin Ops(Append(Tail(jobs), Job("fetchUsers", None)))
    BY <1>3, <1>4, <2>1, <2>2 DEF Ops
  <2>4. QED
    BY <1>3, <1>4, <2>2, <2>3
<1>6. PageTypes' /\ state' \in {"unauthenticated", "awaiting", "authenticated", "exchanging"}
  BY <1>1 DEF Typed, PageTypes, LogicTypes
<1>7. acts' \in 0..MaxActs /\ UNCHANGED <<attempts, starts>>
  BY <1>1 DEF Typed, BoundTypes, bound
<1>8. QED
  BY <1>5, <1>6, <1>7, ShownBase

(* What is left of an attempt that is taken. *)
LEMMA TakenBase ==
  ASSUME Base, NEW op \in Attempts, NEW who \in Credentials, NEW rest \in Seq(Jobs),
         TakeCredentials(op, who, rest), "show" \notin Ops(rest), life # "gone",
         attempts' \in 0..MaxAttempts, acts' \in 0..MaxActs, starts' \in 1..MaxStarts
  PROVE  Base'
<1>0. LinkTypes /\ DiskTypes /\ JobTypes /\ ThreadTypes /\ LogicTypes /\ NetTypes /\ PageTypes /\ HistoryTypes
  BY TypedMeans DEF Base, Typed
<1>1. CASE TakeCredentials(op, who, rest) /\ netInitialized
  <2>1. Abort("netInitialized")
    BY <1>1 DEF TakeCredentials
  <2>2. QED
    BY <2>1, AbortBase DEF Assertions
<1>2. CASE ~netInitialized
  <2>1. /\ jobs' = Append(rest, Job(op, who)) \/ jobs' = rest
        /\ state' = "awaiting" /\ allowInput' = FALSE /\ twice' = (twice \/ UnderWay(rest))
        /\ UNCHANGED <<accounts, link, disk, life, async, job, net, netInitialized,
                       databaseInitialized, autoLoggingIn, netc, page, late, early, failed>>
    BY <1>2 DEF TakeCredentials
  <2>2. Job(op, who) \in Jobs /\ Job(op, who).op = op /\ op # "show"
    BY JobsTyped DEF Attempts
  <2>3. jobs' \in Seq(Jobs) /\ "show" \notin Ops(jobs')
    <3>1. Append(rest, Job(op, who)) \in Seq(Jobs)
          /\ Range(Append(rest, Job(op, who))) = Range(rest) \cup {Job(op, who)}
      BY <2>2, OneMore
    <3>2. QED
      BY <2>1, <2>2, <3>1 DEF Ops
  <2>5. (LinkTypes /\ DiskTypes /\ ThreadTypes /\ NetTypes)'
    BY <1>0, <2>1 DEF LinkTypes, DiskTypes, ThreadTypes, NetTypes, link, disk, netc
  <2>6. (JobTypes /\ LogicTypes /\ PageTypes /\ BoundTypes)'
    BY <1>0, <2>1, <2>3 DEF JobTypes, LogicTypes, PageTypes, BoundTypes
  <2>7. HistoryTypes'
    <3>1. twice' = TRUE \/ twice' = FALSE
      BY <2>1
    <3>2. QED
      BY <1>0, <2>1, <3>1 DEF HistoryTypes
  <2>8. Typed'
    BY <2>5, <2>6, <2>7 DEF Typed
  <2>9. (JobInv /\ GoneInv)'
    BY <2>1, <2>3 DEF Base, JobInv, GoneInv, link, disk, netc
  <2>10. QED
    BY <2>8, <2>9, TypedMeans DEF Base
<1>3. QED
  BY <1>1, <1>2

(* The user's acts. *)
LEMMA UserBase == ASSUME Base, UserActs PROVE Base'
<1>0. Typed /\ JobInv /\ GoneInv
  BY TypedMeans DEF Base
<1>1. ASSUME NEW who \in Credentials, CredentialsEntered(who) PROVE Base'
  <2>1. /\ Alive /\ page \in {"logIn", "register"} /\ attempts < MaxAttempts
        /\ TakeCredentials(page, who, jobs)
        /\ failed' = "none" => attempts' = attempts + 1 /\ UNCHANGED <<acts, starts>>
    BY <1>1 DEF CredentialsEntered
  <2>2. CASE netInitialized
    <3>1. Abort("netInitialized")
      BY <2>1, <2>2 DEF TakeCredentials
    <3>2. QED
      BY <3>1, AbortBase DEF Assertions
  <2>3. CASE ~netInitialized
    <3>1. failed' = "none"
      BY <2>1, <2>3 DEF TakeCredentials, Alive
    <3>2. attempts' \in 0..MaxAttempts /\ acts' \in 0..MaxActs /\ starts' \in 1..MaxStarts
      BY <1>0, <2>1, <3>1, BoundsAssumption DEF Typed, BoundTypes
    <3>3. "show" \notin Ops(jobs) /\ life # "gone"
      BY <1>0, <2>1 DEF JobInv, Starting, Alive
    <3>4. jobs \in Seq(Jobs) /\ page \in Attempts
      BY <1>0, <2>1 DEF Typed, JobTypes, Attempts
    <3>5. QED
      BY <2>1, <3>2, <3>3, <3>4, TakenBase
  <2>4. QED
    BY <2>2, <2>3
<1>2. ASSUME PageQueried PROVE Base'
  <2>1. Typed'
    BY <1>0, <1>2, BoundsAssumption
       DEF PageQueried, Acts, Typed, LinkTypes, DiskTypes, JobTypes, ThreadTypes, LogicTypes, NetTypes,
           PageTypes, BoundTypes, HistoryTypes, link, disk, logic, netc, history
  <2>2. (JobInv /\ GoneInv)'
    BY <1>0, <1>2 DEF PageQueried, Acts, Alive, JobInv, GoneInv, Starting, link, disk, logic, netc, ui
  <2>3. QED
    BY <2>1, <2>2, TypedMeans DEF Base
<1>3. ASSUME AutoLoggingInChanged PROVE Base'
  <2>1. Typed'
    BY <1>0, <1>3, BoundsAssumption
       DEF AutoLoggingInChanged, Acts, Typed, LinkTypes, DiskTypes, JobTypes, ThreadTypes, LogicTypes,
           NetTypes, PageTypes, BoundTypes, HistoryTypes, link, netc, ui, history
  <2>2. (JobInv /\ GoneInv)'
    BY <1>0, <1>3 DEF AutoLoggingInChanged, Acts, Alive, JobInv, GoneInv, Starting, link, netc, ui
  <2>3. QED
    BY <2>1, <2>2, TypedMeans DEF Base
<1>4. ASSUME UserChosen PROVE Base'
  <2>1. PICK op \in {"continue", "start", "delete"} : Push(Job(op, None)) \/ jobs' = jobs
    BY <1>4 DEF UserChosen
  <2>2. Job(op, None) \in Jobs /\ Job(op, None).op # "show"
    BY JobsTyped
  <2>3. /\ life # "gone" /\ page # "splash" /\ acts < MaxActs /\ acts' = acts + 1
        /\ state' = "exchanging" /\ allowInput' \in {allowInput, FALSE} /\ page' = page
        /\ late' = TRUE \/ late' = FALSE
        /\ UNCHANGED <<accounts, link, disk, life, async, job, net, netInitialized, databaseInitialized,
                       autoLoggingIn, netc, attempts, starts, twice, early, failed>>
    BY <1>4 DEF UserChosen, Acts, Alive
  <2>4. QED
    BY <2>1, <2>2, <2>3, QueuedBase
<1>5. ASSUME PageChanged \/ (ConversationLeft /\ databaseInitialized) PROVE Base'
  <2>1. PICK j \in Jobs : j.op # "show"
    BY JobsTyped
  <2>2. /\ life # "gone" /\ page # "splash" /\ acts < MaxActs /\ acts' = acts + 1 /\ page' \in {"users", "admin"}
        /\ UNCHANGED <<accounts, link, disk, life, jobs, async, job, net, logic, netc, allowInput, attempts,
                       starts, history, failed>>
    BY <1>5 DEF PageChanged, ConversationLeft, Acts, Alive
  <2>3. late' \in BOOLEAN
    BY <1>0, <2>2 DEF Typed, HistoryTypes, history
  <2>4. /\ UNCHANGED <<state, netInitialized, databaseInitialized, autoLoggingIn>>
        /\ UNCHANGED <<twice, early>>
    BY <2>2 DEF logic, history
  <2>5. QED
    BY <2>1, <2>2, <2>3, <2>4, QueuedBase
<1>11. ASSUME (ConversationLeft \/ UpdateClicked) /\ ~databaseInitialized PROVE Base'
  <2>1. Abort("databaseInitialized")
    BY <1>11 DEF ConversationLeft, UpdateClicked
  <2>2. QED
    BY <2>1, AbortBase DEF Assertions
<1>12. ASSUME UpdateClicked /\ databaseInitialized PROVE Base'
  <2>1. Push(Job("fetchUsers", None))
    BY <1>12 DEF UpdateClicked
  <2>2. Job("fetchUsers", None) \in Jobs /\ Job("fetchUsers", None).op # "show"
    BY JobsTyped
  <2>3. /\ life # "gone" /\ page # "splash" /\ acts < MaxActs /\ acts' = acts + 1
        /\ allowInput' = FALSE /\ page' = page
        /\ late' = TRUE \/ late' = FALSE
        /\ UNCHANGED <<accounts, link, disk, life, async, job, net, state, netInitialized, databaseInitialized,
                       autoLoggingIn, netc, attempts, starts, twice, early, failed>>
    BY <1>12 DEF UpdateClicked, Acts, Alive, logic
  <2>4. QED
    BY <2>1, <2>2, <2>3, QueuedBase
<1>6. ASSUME ShutdownRequested PROVE Base'
  <2>1. Push(Job("shutdown", None)) /\ Job("shutdown", None) \in Jobs
        /\ Job("shutdown", None).op = "shutdown"
    BY <1>6, JobsTyped DEF ShutdownRequested
  <2>2. jobs' \in Seq(Jobs) /\ Ops(jobs') \subseteq Ops(jobs) \cup {"shutdown"}
    BY <1>0, <2>1, Pushed DEF Typed, JobTypes
  <2>3. Typed'
    <3>1. /\ acts < MaxActs /\ acts' = acts + 1 /\ allowInput' = FALSE
          /\ UNCHANGED <<accounts, link, disk, async, net, logic, netc, page, attempts, starts,
                         history, failed>>
      BY <1>6 DEF ShutdownRequested, Acts
    <3>2. PageTypes'
      BY <1>0, <3>1 DEF Typed, PageTypes
    <3>3. BoundTypes'
      BY <1>0, <3>1, BoundsAssumption DEF Typed, BoundTypes
    <3>4. (LinkTypes /\ DiskTypes /\ ThreadTypes /\ LogicTypes /\ NetTypes /\ HistoryTypes)'
      BY <1>0, <3>1
         DEF Typed, LinkTypes, DiskTypes, ThreadTypes, LogicTypes, NetTypes, HistoryTypes, link, disk,
             logic, netc, history
    <3>5. QED
      BY <1>0, <1>6, <2>2, <3>2, <3>3, <3>4 DEF ShutdownRequested, Typed, JobTypes
  <2>4. (JobInv /\ GoneInv)'
    BY <1>0, <1>6, <2>2 DEF ShutdownRequested, Acts, Alive, JobInv, GoneInv, Starting, link, disk, logic, netc
  <2>5. QED
    BY <2>3, <2>4, TypedMeans DEF Base
<1>7. ASSUME BroadcastRequested PROVE Base'
  <2>1. CASE ~(netInitialized /\ netThis)
    <3>1. Abort("netSendBroadcast")
      BY <1>7, <2>1 DEF BroadcastRequested
    <3>2. QED
      BY <3>1, AbortBase DEF Assertions
  <2>2. CASE netInitialized /\ netThis
    <3>1. /\ Alive /\ page = "admin" /\ acts < MaxActs /\ acts' = acts + 1
          /\ Send(Request("broadcast", None))
          /\ UNCHANGED <<accounts, disk, life, jobs, async, job, net, logic, netc,
                         ui, attempts, starts, history, failed>>
      BY <1>7, <2>2 DEF BroadcastRequested
    <3>2. Linked'
      <4>1. Request("broadcast", None) \in Requests /\ Linked
        BY <1>0, RequestTypes, TypedMeans DEF Typed, LinkTypes, Linked
      <4>2. QED
        BY <3>1, <4>1, Sent
    <3>3. Typed'
      BY <1>0, <3>1, <3>2, BoundsAssumption
         DEF Typed, LinkTypes, Linked, DiskTypes, JobTypes, ThreadTypes, LogicTypes, NetTypes,
             PageTypes, BoundTypes, HistoryTypes, disk, logic, netc, ui, history
    <3>4. (JobInv /\ GoneInv)'
      BY <1>0, <3>1 DEF Alive, JobInv, GoneInv, Starting, disk, logic, netc, ui
    <3>5. QED
      BY <3>3, <3>4, TypedMeans DEF Base
  <2>3. QED
    BY <2>1, <2>2
<1>8. ASSUME Quit PROVE Base'
  <2>1. Typed'
    BY <1>0, <1>8
       DEF Quit, Typed, LinkTypes, DiskTypes, JobTypes, ThreadTypes, LogicTypes, NetTypes,
           PageTypes, BoundTypes, HistoryTypes, link, disk, logic, netc, ui, bound, history
  <2>2. (JobInv /\ GoneInv)'
    BY <1>0, <1>8 DEF Quit, Alive, JobInv, GoneInv, Starting, link, disk, logic, netc, ui
  <2>3. QED
    BY <2>1, <2>2, TypedMeans DEF Base
<1>9. ASSUME Restart PROVE Base'
  <2>1. jobs' \in Seq(Jobs) /\ Ops(jobs') = {"show"}
    BY <1>9, JobsTyped DEF Restart
  <2>2. (autoLoggingIn' = TRUE \/ autoLoggingIn' = FALSE) /\ (autoLoggingIn' => saved' # None)
    BY <1>9 DEF Restart, LogsInAtStart, CredentialsStored, disk
  <2>3. netState' \in NetStates /\ leftOver' \in NetStates /\ progress' \in 0..Len(Handshake)
    BY <1>9, Tuples DEF Restart
  <2>4. (LinkTypes /\ DiskTypes /\ JobTypes /\ ThreadTypes /\ BoundTypes)'
    BY <1>0, <1>9, <2>1, BoundsAssumption
       DEF Restart, Typed, LinkTypes, DiskTypes, JobTypes, ThreadTypes, BoundTypes, link, disk
  <2>5. (LogicTypes /\ NetTypes /\ PageTypes /\ HistoryTypes)'
    BY <1>0, <1>9, <2>2, <2>3
       DEF Restart, Typed, LogicTypes, NetTypes, PageTypes, HistoryTypes, Tokens
  <2>6. (JobInv /\ GoneInv)'
    BY <1>0, <1>9, <2>2 DEF Restart, JobInv, GoneInv, Starting
  <2>7. QED
    BY <2>4, <2>5, <2>6, TypedMeans DEF Base, Typed
<1>10. QED
  BY <1>1, <1>2, <1>3, <1>4, <1>5, <1>6, <1>7, <1>8, <1>9, <1>11, <1>12 DEF UserActs

(* The jobs. *)
LEMMA AsyncBase == ASSUME Base, AsyncThread \/ HandshakeStep PROVE Base'
<1>0. Typed /\ JobInv /\ GoneInv
  BY TypedMeans DEF Base
<1>j. jobs \in Seq(Jobs)
  BY <1>0 DEF Typed, JobTypes
<1>1. ASSUME RunShow PROVE Base'
  <2>1. /\ Alive /\ life = "running" /\ async = "idle" /\ jobs # <<>> /\ Head(jobs).op = "show"
        /\ UNCHANGED bound
    BY <1>1 DEF RunShow, Runs
  <2>2. Starting
    <3>1. Head(jobs).op \in Ops(jobs)
      BY <1>j, <2>1, Popped
    <3>2. QED
      BY <1>0, <2>1, <3>1 DEF JobInv
  <2>3. Tail(jobs) = <<>> /\ Ops(Tail(jobs)) = {}
    BY <2>2, NothingIn DEF Starting
  <2>4. CASE ~autoLoggingIn
    <3>1. /\ jobs' = <<>> /\ page' = "logIn"
          /\ UNCHANGED <<accounts, link, disk, life, async, job, net, logic, netc, allowInput, history, failed>>
      BY <1>1, <2>3, <2>4 DEF RunShow, Pop, TakeCredentials
    <3>2. Typed'
      BY <1>0, <2>1, <3>1
         DEF Typed, LinkTypes, DiskTypes, JobTypes, ThreadTypes, LogicTypes, NetTypes, PageTypes, BoundTypes,
             HistoryTypes, link, disk, logic, netc, history, bound
    <3>3. (JobInv /\ GoneInv)'
      BY <1>0, <2>1, <3>1, NothingIn DEF JobInv, GoneInv, netc
    <3>4. QED
      BY <3>2, <3>3, TypedMeans DEF Base
  <2>5. CASE autoLoggingIn
    <3>1. TakeCredentials("logIn", saved, Tail(jobs))
      BY <1>1, <2>5 DEF RunShow
    <3>2. saved \in Credentials
      BY <1>0, <2>2, <2>5 DEF Starting, Typed, DiskTypes
    <3>3. attempts' \in 0..MaxAttempts /\ acts' \in 0..MaxActs /\ starts' \in 1..MaxStarts
      BY <1>0, <2>1 DEF Typed, BoundTypes, bound
    <3>4. Tail(jobs) \in Seq(Jobs) /\ "show" \notin Ops(Tail(jobs)) /\ "logIn" \in Attempts /\ life # "gone"
      BY <1>j, <2>1, <2>3, Popped DEF Attempts
    <3>5. QED
      BY <3>1, <3>2, <3>3, <3>4, TakenBase
  <2>6. QED
    BY <2>4, <2>5
<1>2. ASSUME RunCredentials PROVE Base'
  <2>1. /\ Alive /\ life = "running" /\ async = "idle" /\ jobs # <<>> /\ Head(jobs).op \in Attempts
        /\ jobs' = Tail(jobs) /\ job' = Head(jobs)
        /\ UNCHANGED <<accounts, link, life, net, netInitialized, autoLoggingIn, netc, bound, history, failed>>
    BY <1>2 DEF RunCredentials, Runs, Pop, Attempts
  <2>2. /\ Head(jobs) \in Jobs /\ jobs' \in Seq(Jobs) /\ Ops(jobs') \subseteq Ops(jobs)
        /\ Head(jobs).op \in Ops(jobs) /\ Head(jobs).who \in Credentials
    BY <1>j, <2>1, Popped, JobsOps
  <2>3. "show" \notin Ops(jobs)
    <3>1. ASSUME Starting PROVE FALSE
      BY <2>1, <3>1 DEF Starting, Job, Attempts
    <3>2. QED
      BY <1>0, <3>1 DEF JobInv
  <2>4. DiskTypes' /\ databaseInitialized' \in BOOLEAN
    <3>1. CASE Head(jobs).op = "register"
      BY <1>0, <1>2, <3>1 DEF RunCredentials, disk, DiskTypes, Typed, LogicTypes
    <3>2. CASE Head(jobs).op # "register"
      <4>1. saved' \in {Head(jobs).who, saved} /\ dbKey' \in {Head(jobs).who, dbKey}
        BY <1>2, <3>2 DEF RunCredentials
      <4>2. databaseInitialized' = checkKey(Head(jobs).who)
        BY <1>2, <3>2 DEF RunCredentials
      <4>3. databaseInitialized' \in BOOLEAN
        BY <4>2 DEF checkKey, KeyMatches
      <4>4. QED
        BY <1>0, <2>2, <4>1, <4>3 DEF DiskTypes, Typed
    <3>3. QED
      BY <3>1, <3>2
  <2>5. /\ async' \in {"idle", "netInit"} /\ PageTypes'
        /\ state' \in {"unauthenticated", "awaiting", "authenticated", "exchanging"}
    BY <1>0, <1>2, <2>1 DEF RunCredentials, Typed, LogicTypes, PageTypes, ui, AttemptFails, FinishLoading
  <2>6. Typed'
    BY <1>0, <2>1, <2>2, <2>4, <2>5
       DEF Typed, LinkTypes, JobTypes, ThreadTypes, LogicTypes, NetTypes, BoundTypes,
           HistoryTypes, link, netc, history, bound
  <2>7. (JobInv /\ GoneInv)'
    BY <2>1, <2>2, <2>3, <2>5 DEF JobInv, GoneInv
  <2>8. QED
    BY <2>6, <2>7, TypedMeans DEF Base
<1>3. ASSUME NetInit PROVE Base'
  <2>1. CASE netThis
    <3>1. Abort("netThis")
      BY <1>3, <2>1 DEF NetInit
    <3>2. QED
      BY <3>1, AbortBase DEF Assertions
  <2>2. Alive /\ async = "netInit" /\ "show" \notin Ops(jobs)
    BY <1>0, <1>3 DEF NetInit, JobInv, Starting
  <2>3. CASE ~netThis /\ async' = "handshake"
    <3>1. /\ netThis' = TRUE /\ netState' \in {"undefined", leftOver}
          /\ progress' = 0 /\ token' = "anonymous" /\ loggedInAs' = None
          /\ UNCHANGED <<accounts, link, disk, life, jobs, job, net, logic, leftOver, ui, bound, history, failed>>
      BY <1>3, <2>3 DEF NetInit
    <3>2. NetTypes'
      BY <1>0, <3>1, Tuples DEF Typed, NetTypes, Tokens
    <3>3. Typed'
      BY <1>0, <2>3, <3>1, <3>2
         DEF Typed, LinkTypes, DiskTypes, JobTypes, ThreadTypes, LogicTypes, PageTypes, BoundTypes,
             HistoryTypes, link, disk, logic, ui, bound, history
    <3>4. (JobInv /\ GoneInv)'
      BY <1>0, <2>2, <2>3, <3>1, Tuples DEF JobInv, GoneInv, Alive, Ops
    <3>5. QED
      BY <3>3, <3>4, TypedMeans DEF Base
  <2>4. CASE ~netThis /\ async' # "handshake"
    <3>1. /\ async' = "idle" /\ netInitialized' = FALSE /\ AttemptFails
          /\ UNCHANGED <<accounts, link, disk, life, jobs, job, net, databaseInitialized, autoLoggingIn,
                         netc, bound, history, failed>>
      BY <1>3, <2>4 DEF NetInit
    <3>2. LogicTypes' /\ PageTypes'
      BY <1>0, <3>1 DEF Typed, LogicTypes, PageTypes, AttemptFails, FinishLoading
    <3>3. Typed'
      BY <1>0, <3>1, <3>2
         DEF Typed, LinkTypes, DiskTypes, JobTypes, ThreadTypes, NetTypes, BoundTypes, HistoryTypes,
             link, disk, netc, bound, history
    <3>4. (JobInv /\ GoneInv)'
      BY <1>0, <2>2, <3>1 DEF JobInv, GoneInv, Alive, Ops
    <3>5. QED
      BY <3>3, <3>4, TypedMeans DEF Base
  <2>5. QED
    BY <2>1, <2>3, <2>4
<1>4. ASSUME HandshakeStep PROVE Base'
  <2>1. /\ Alive /\ async = "handshake" /\ progress' = progress + 1 /\ netState' = Handshake[progress']
        /\ async' = IF progress' = Len(Handshake) THEN "compare" ELSE "handshake"
        /\ UNCHANGED <<accounts, link, disk, life, jobs, job, net, logic, netThis, leftOver, token,
                       loggedInAs, ui, bound, history, failed>>
    BY <1>4 DEF HandshakeStep
  <2>2. progress' \in 1..4 /\ progress' \in 0..Len(Handshake)
    BY <1>0, <2>1, Tuples DEF Typed, NetTypes, JobInv
  <2>3. netState' \in NetStates
    BY <2>1, <2>2, Tuples DEF Handshake
  <2>4. Typed'
    BY <1>0, <2>1, <2>2, <2>3
       DEF Typed, LinkTypes, DiskTypes, JobTypes, ThreadTypes, LogicTypes, NetTypes, PageTypes, BoundTypes,
           HistoryTypes, link, disk, logic, ui, bound, history
  <2>5. (JobInv /\ GoneInv)'
    BY <1>0, <2>1, <2>2, Tuples DEF JobInv, GoneInv, Alive, Ops, Starting
  <2>6. QED
    BY <2>4, <2>5, TypedMeans DEF Base
<1>5. ASSUME HandshakeFails PROVE Base'
  <2>1. /\ Alive /\ async = "handshake" /\ async' = "compare"
        /\ UNCHANGED <<accounts, link, disk, life, jobs, job, net, logic, netc, ui, bound, history, failed>>
    BY <1>5 DEF HandshakeFails, StopWaiting, TimesOut
  <2>2. Typed'
    BY <1>0, <2>1
       DEF Typed, LinkTypes, DiskTypes, JobTypes, ThreadTypes, LogicTypes, NetTypes, PageTypes, BoundTypes,
           HistoryTypes, link, disk, logic, netc, ui, bound, history
  <2>3. (JobInv /\ GoneInv)'
    BY <1>0, <2>1 DEF JobInv, GoneInv, Alive, Ops, Starting
  <2>4. QED
    BY <2>2, <2>3, TypedMeans DEF Base
<1>6. ASSUME NetInitReturns \/ NetInitialized PROVE Base'
  <2>1. CASE Abort("netInit")
    BY <2>1, AbortBase DEF Assertions
  <2>2. CASE ~Abort("netInit") /\ ~(async' = "idle")
    <3>1. /\ Alive /\ async \in {"compare", "secured"} /\ async' \in {"secured", "credentials"}
          /\ netInitialized' = netInitialized \/ netInitialized' = TRUE
          /\ UNCHANGED <<accounts, link, disk, life, jobs, job, net, state, databaseInitialized, autoLoggingIn,
                         netc, ui, bound, history, failed>>
      BY <1>6, <2>2 DEF NetInitReturns, NetInitialized, logic
    <3>2. Typed'
      <4>1. netInitialized' \in BOOLEAN
        BY <1>0, <3>1 DEF Typed, LogicTypes
      <4>2. (ThreadTypes /\ LogicTypes)'
        BY <1>0, <3>1, <4>1 DEF Typed, ThreadTypes, LogicTypes
      <4>3. QED
        BY <1>0, <3>1, <4>2
           DEF Typed, LinkTypes, DiskTypes, JobTypes, NetTypes, PageTypes, BoundTypes,
               HistoryTypes, link, disk, netc, ui, bound, history
    <3>3. (JobInv /\ GoneInv)'
      BY <1>0, <3>1 DEF JobInv, GoneInv, Alive, Ops, Starting
    <3>4. QED
      BY <3>2, <3>3, TypedMeans DEF Base
  <2>3. CASE ~Abort("netInit") /\ async' = "idle"
    <3>1. /\ Alive /\ async = "compare" /\ netInitialized' = FALSE /\ GivesUp /\ AttemptFails
          /\ UNCHANGED <<accounts, disk, life, jobs, job, net, databaseInitialized, autoLoggingIn,
                         netState, progress, token, loggedInAs, bound, history, failed>>
      BY <1>6, <2>3 DEF NetInitReturns, NetInitialized
    <3>2. LinkTypes' /\ netThis' \in BOOLEAN /\ leftOver' \in NetStates
      <4>1. /\ netThis' = FALSE /\ leftOver' = netState
            /\ toServer' = <<>> /\ toClient' = <<>> /\ closing' = FALSE
        BY <3>1 DEF GivesUp, CleanUp
      <4>2. toServer' \in Seq(Requests) /\ toClient' \in Seq(Replies)
        BY <4>1
      <4>3. QED
        BY <1>0, <3>1, <4>1, <4>2 DEF Typed, LinkTypes, NetTypes
    <3>3. LogicTypes' /\ PageTypes'
      BY <1>0, <3>1 DEF AttemptFails, FinishLoading, Typed, LogicTypes, PageTypes
    <3>4. Typed'
      BY <1>0, <2>3, <3>1, <3>2, <3>3
         DEF Typed, DiskTypes, JobTypes, ThreadTypes, NetTypes, BoundTypes, HistoryTypes, disk, bound, history
    <3>5. (JobInv /\ GoneInv)'
      BY <1>0, <2>3, <3>1 DEF JobInv, GoneInv, Alive, Ops, Starting
    <3>6. QED
      BY <3>4, <3>5, TypedMeans DEF Base
  <2>4. QED
    BY <2>1, <2>2, <2>3
<1>7. ASSUME SendCredentials PROVE Base'
  <2>1. CASE ~netThis
    <3>1. Abort("netLogIn")
      BY <1>7, <2>1 DEF SendCredentials
    <3>2. QED
      BY <3>1, AbortBase DEF Assertions
  <2>2. CASE netThis
    <3>1. /\ Alive /\ async = "credentials" /\ async' = "idle" /\ Send(Request(job.op, job.who))
          /\ UNCHANGED <<accounts, disk, life, jobs, job, net, logic, netc, ui, bound, history, failed>>
      BY <1>7, <2>2 DEF SendCredentials
    <3>2. Linked'
      <4>1. job \in Jobs /\ job.op \in Attempts
        BY <1>0, <3>1 DEF Typed, JobTypes, JobInv
      <4>2. Request(job.op, job.who) \in Requests /\ Linked
        BY <1>0, <4>1, RequestTypes, JobsOps, TypedMeans DEF Typed, LinkTypes, Linked
      <4>3. QED
        BY <3>1, <4>2, Sent
    <3>3. Typed'
      BY <1>0, <3>1, <3>2
         DEF Typed, LinkTypes, Linked, DiskTypes, JobTypes, ThreadTypes, LogicTypes, NetTypes,
             PageTypes, BoundTypes, HistoryTypes, disk, logic, netc, ui, bound, history
    <3>4. (JobInv /\ GoneInv)'
      BY <1>0, <3>1 DEF Alive, JobInv, GoneInv, Ops, Starting
    <3>5. QED
      BY <3>3, <3>4, TypedMeans DEF Base
  <2>3. QED
    BY <2>1, <2>2
<1>8. ASSUME NEW op \in {"fetchUsers", "shutdown"}, NEW a \in {"netFetchUsers", "netShutdownServer"},
             RunRequest(op, a)
      PROVE  Base'
  <2>1. CASE ~netThis
    <3>1. Abort(a)
      BY <1>8, <2>1 DEF RunRequest
    <3>2. QED
      BY <3>1, AbortBase DEF Assertions
  <2>2. CASE netThis
    <3>1. /\ Alive /\ jobs # <<>> /\ jobs' = Tail(jobs) /\ Head(jobs).op = op
          /\ Send(Request(op, None))
          /\ UNCHANGED <<accounts, disk, life, async, job, net, logic, netc, ui, bound, history, failed>>
      BY <1>8, <2>2 DEF RunRequest, Runs, Pop
    <3>2. Linked'
      <4>1. Request(op, None) \in Requests /\ Linked
        BY <1>0, RequestTypes, TypedMeans DEF Typed, LinkTypes, Linked
      <4>2. QED
        BY <3>1, <4>1, Sent
    <3>3. jobs' \in Seq(Jobs) /\ "show" \notin Ops(jobs')
      BY <1>0, <1>j, <2>2, <3>1, Popped DEF JobInv, Starting
    <3>4. Typed'
      BY <1>0, <3>1, <3>2, <3>3
         DEF Typed, LinkTypes, Linked, DiskTypes, JobTypes, ThreadTypes, LogicTypes, NetTypes,
             PageTypes, BoundTypes, HistoryTypes, disk, logic, netc, ui, bound, history
    <3>5. (JobInv /\ GoneInv)'
      BY <1>0, <3>1, <3>3 DEF Alive, JobInv, GoneInv, netc
    <3>6. QED
      BY <3>4, <3>5, TypedMeans DEF Base
  <2>3. QED
    BY <2>1, <2>2
<1>9. ASSUME NEW a \in Assertions, Abort(a) PROVE Base'
  BY <1>9, AbortBase
<1>10. ASSUME RunProcessUsers \/ RunContinue \/ RunDelete, ~\E a \in Assertions : Abort(a) PROVE Base'
  <2>1. /\ life # "gone" /\ jobs # <<>> /\ Head(jobs).op # "show"
        /\ jobs' = Tail(jobs) \/ jobs' = Append(Tail(jobs), Job("fetchUsers", None))
        /\ page' \in {page, "users", "conversation"} /\ allowInput' \in BOOLEAN
        /\ late' = TRUE \/ late' = FALSE
        /\ UNCHANGED <<accounts, link, disk, life, async, job, net, state, netInitialized, databaseInitialized,
                       autoLoggingIn, netc, bound, twice, early, failed>>
    BY <1>10 DEF RunProcessUsers, RunContinue, RunDelete, UpdateUsersList, Runs, Pop, Alive, FinishLoading,
                 Assertions, logic
  <2>2. QED
    BY <2>1, RanBase
<1>12. ASSUME NEW op \in {"start", "reply"},
              NEW a \in {"netCreateConversation", "netReplyToConversationSetUpInvite"},
              RunSetUp(op, a), ~\E x \in Assertions : Abort(x)
       PROVE  Base'
  <2>1. /\ life # "gone" /\ jobs # <<>> /\ Head(jobs).op # "show"
        /\ jobs' = Tail(jobs) \/ jobs' = Append(Tail(jobs), Job("fetchUsers", None))
        /\ page' \in {page, "users", "conversation"} /\ allowInput' \in BOOLEAN
        /\ state' \in {state, "exchanging"}
        /\ late' = TRUE \/ late' = FALSE \/ late' = late
        /\ UNCHANGED <<accounts, link, disk, life, async, job, net, netInitialized, databaseInitialized,
                       autoLoggingIn, netc, bound, twice, early, failed>>
    BY <1>12 DEF RunSetUp, UpdateUsersList, Runs, Pop, Alive, FinishLoading, Assertions
  <2>2. late' \in BOOLEAN
    BY <1>0, <2>1 DEF Typed, HistoryTypes
  <2>3. QED
    BY <2>1, <2>2, RanBase
<1>11. QED
  BY <1>1, <1>2, <1>3, <1>4, <1>5, <1>6, <1>7, <1>8, <1>9, <1>10, <1>12 DEF AsyncThread

(* What the server sends is taken, and the connection taken down. *)
LEMMA NetBase == ASSUME Base, NetThread PROVE Base'
<1>0. Typed /\ JobInv /\ GoneInv /\ Linked
  BY TypedMeans DEF Base, Typed, LinkTypes, Linked
<1>j. jobs \in Seq(Jobs)
  BY <1>0 DEF Typed, JobTypes
<1>1. ASSUME LoggedIn PROVE Base'
  <2>1. Takes("loggedIn")
    BY <1>1 DEF LoggedIn
  <2>2. Linked' /\ Alive /\ netInitialized
    BY <1>0, <2>1, Took
  <2>3. /\ netState' = "authenticated" /\ token' = "session" /\ net' = "loggedIn"
        /\ UNCHANGED <<accounts, disk, life, jobs, async, job, logic, netThis, leftOver, progress,
                       loggedInAs, ui, bound, history, failed>>
    BY <1>1 DEF LoggedIn, TokenReceived, StoreToken
  <2>4. NetTypes'
    BY <1>0, <2>3, Tuples DEF Typed, NetTypes, Tokens
  <2>5. Typed'
    BY <1>0, <2>2, <2>3, <2>4
       DEF Typed, LinkTypes, Linked, DiskTypes, JobTypes, ThreadTypes, LogicTypes, PageTypes, BoundTypes,
           HistoryTypes, disk, logic, ui, bound, history
  <2>6. (JobInv /\ GoneInv)'
    BY <1>0, <2>2, <2>3 DEF JobInv, GoneInv, Starting, Alive, Ops
  <2>7. QED
    BY <2>5, <2>6, TypedMeans DEF Base
<1>2. ASSUME OnLoggedIn PROVE Base'
  <2>1. /\ Alive /\ net = "loggedIn" /\ net' = "idle" /\ state' = "authenticated"
        /\ Push(Job("fetchUsers", None))
        /\ Job("fetchUsers", None) \in Jobs /\ Job("fetchUsers", None).op = "fetchUsers"
        /\ UNCHANGED <<accounts, link, disk, life, async, job, netInitialized, databaseInitialized,
                       autoLoggingIn, netc, ui, bound, history, failed>>
    BY <1>2, JobsTyped DEF OnLoggedIn
  <2>2. jobs' \in Seq(Jobs) /\ Ops(jobs') \subseteq Ops(jobs) \cup {"fetchUsers"}
    BY <1>j, <2>1, Pushed
  <2>3. (DiskTypes /\ JobTypes /\ ThreadTypes /\ LogicTypes /\ PageTypes /\ BoundTypes)'
    BY <1>0, <2>1, <2>2
       DEF Typed, DiskTypes, JobTypes, ThreadTypes, LogicTypes, PageTypes, BoundTypes, disk, ui, bound
  <2>4. (LinkTypes /\ NetTypes /\ HistoryTypes)'
    BY <1>0, <2>1 DEF Typed, LinkTypes, NetTypes, HistoryTypes, link, netc, history
  <2>5. (JobInv /\ GoneInv)'
    BY <1>0, <2>1, <2>2 DEF JobInv, GoneInv, Starting, Alive, netc
  <2>6. QED
    BY <2>3, <2>4, <2>5, TypedMeans DEF Base, Typed
<1>3. ASSUME LogInRefused PROVE Base'
  <2>1. Takes("logInRefused")
    BY <1>3 DEF LogInRefused
  <2>2. Linked' /\ Alive /\ netInitialized
    BY <1>0, <2>1, Took
  <2>3. /\ netState' = "finishedWithError" /\ state' = "unauthenticated" /\ page' = "logIn"
        /\ allowInput' = TRUE
        /\ UNCHANGED <<accounts, disk, life, jobs, async, job, net, netInitialized, databaseInitialized,
                       autoLoggingIn, netThis, leftOver, progress, token, loggedInAs, bound, history, failed>>
    BY <1>3 DEF LogInRefused, FinishLoading
  <2>4. NetTypes' /\ PageTypes'
    BY <1>0, <2>3, Tuples DEF Typed, NetTypes, PageTypes
  <2>5. Typed'
    BY <1>0, <2>2, <2>3, <2>4
       DEF Typed, LinkTypes, Linked, DiskTypes, JobTypes, ThreadTypes, LogicTypes, BoundTypes,
           HistoryTypes, disk, bound, history
  <2>6. (JobInv /\ GoneInv)'
    BY <1>0, <2>2, <2>3 DEF JobInv, GoneInv, Starting, Alive, Ops
  <2>7. QED
    BY <2>5, <2>6, TypedMeans DEF Base
<1>4. ASSUME RegisterResult PROVE Base'
  <2>1. Takes("registered") \/ Takes("registerRefused")
    BY <1>4 DEF RegisterResult
  <2>2. Linked' /\ Alive /\ netInitialized
    BY <1>0, <2>1, Took
  <2>3. /\ netState' \in {netState, "finishedWithError"} /\ state' = "unauthenticated"
        /\ UNCHANGED <<accounts, disk, life, jobs, async, job, net, netInitialized, databaseInitialized,
                       autoLoggingIn, netThis, leftOver, progress, token, loggedInAs, ui, bound, history, failed>>
    BY <1>4 DEF RegisterResult
  <2>4. NetTypes'
    BY <1>0, <2>3, Tuples DEF Typed, NetTypes
  <2>5. Typed'
    BY <1>0, <2>2, <2>3, <2>4
       DEF Typed, LinkTypes, Linked, DiskTypes, JobTypes, ThreadTypes, LogicTypes, PageTypes, BoundTypes,
           HistoryTypes, disk, ui, bound, history
  <2>6. (JobInv /\ GoneInv)'
    BY <1>0, <2>2, <2>3 DEF JobInv, GoneInv, Starting, Alive, Ops
  <2>7. QED
    BY <2>5, <2>6, TypedMeans DEF Base
<1>5. ASSUME UsersFetched PROVE Base'
  <2>1. /\ Takes("users") /\ Push(Job("processUsers", None))
        /\ Job("processUsers", None) \in Jobs /\ Job("processUsers", None).op = "processUsers"
        /\ UNCHANGED <<accounts, disk, life, async, job, net, logic, netc, ui, bound, history, failed>>
    BY <1>5, JobsTyped DEF UsersFetched
  <2>2. Linked' /\ Alive /\ netInitialized
    BY <1>0, <2>1, Took
  <2>3. jobs' \in Seq(Jobs) /\ Ops(jobs') \subseteq Ops(jobs) \cup {"processUsers"}
    BY <1>j, <2>1, Pushed
  <2>4. (DiskTypes /\ JobTypes /\ ThreadTypes /\ LogicTypes /\ PageTypes /\ BoundTypes)'
    BY <1>0, <2>1, <2>3
       DEF Typed, DiskTypes, JobTypes, ThreadTypes, LogicTypes, PageTypes, BoundTypes, disk, logic, ui, bound
  <2>5. (LinkTypes /\ NetTypes /\ HistoryTypes)'
    BY <1>0, <2>1, <2>2 DEF Typed, LinkTypes, Linked, NetTypes, HistoryTypes, netc, history
  <2>6. (JobInv /\ GoneInv)'
    BY <1>0, <2>1, <2>2, <2>3 DEF JobInv, GoneInv, Starting, Alive, logic, netc
  <2>7. QED
    BY <2>4, <2>5, <2>6, TypedMeans DEF Base, Typed
<1>14. ASSUME InviteReceived PROVE Base'
  <2>1. /\ Takes("invite") /\ Push(Job("reply", None)) /\ allowInput' = FALSE
        /\ Job("reply", None) \in Jobs /\ Job("reply", None).op = "reply"
        /\ UNCHANGED <<accounts, disk, life, async, job, net, logic, netc, page, bound, history, failed>>
    BY <1>14, JobsTyped DEF InviteReceived
  <2>2. Linked' /\ Alive /\ netInitialized
    BY <1>0, <2>1, Took
  <2>3. jobs' \in Seq(Jobs) /\ Ops(jobs') \subseteq Ops(jobs) \cup {"reply"}
    BY <1>j, <2>1, Pushed
  <2>4. PageTypes'
    BY <1>0, <2>1 DEF Typed, PageTypes
  <2>5. (DiskTypes /\ JobTypes /\ ThreadTypes /\ LogicTypes /\ BoundTypes)'
    BY <1>0, <2>1, <2>3
       DEF Typed, DiskTypes, JobTypes, ThreadTypes, LogicTypes, BoundTypes, disk, logic, bound
  <2>6. (LinkTypes /\ NetTypes /\ HistoryTypes)'
    BY <1>0, <2>1, <2>2 DEF Typed, LinkTypes, Linked, NetTypes, HistoryTypes, netc, history
  <2>7. (JobInv /\ GoneInv)'
    BY <1>0, <2>1, <2>2, <2>3 DEF JobInv, GoneInv, Starting, Alive, logic, netc
  <2>8. QED
    BY <2>4, <2>5, <2>6, <2>7, TypedMeans DEF Base, Typed
<1>6. ASSUME ErrorReceived PROVE Base'
  <2>1. /\ Takes("error") /\ allowInput' = TRUE
        /\ UNCHANGED <<accounts, disk, life, jobs, async, job, net, logic, netc, page, bound, history, failed>>
    BY <1>6 DEF ErrorReceived, FinishLoading
  <2>2. Linked' /\ Alive /\ netInitialized
    BY <1>0, <2>1, Took
  <2>3. PageTypes'
    BY <1>0, <2>1 DEF Typed, PageTypes
  <2>4. Typed'
    BY <1>0, <2>1, <2>2, <2>3
       DEF Typed, LinkTypes, Linked, DiskTypes, JobTypes, ThreadTypes, LogicTypes, NetTypes, BoundTypes,
           HistoryTypes, disk, logic, netc, bound, history
  <2>5. (JobInv /\ GoneInv)'
    BY <1>0, <2>1, <2>2 DEF JobInv, GoneInv, Starting, Alive, Ops, logic, netc
  <2>6. QED
    BY <2>4, <2>5, TypedMeans DEF Base
<1>7. ASSUME Disconnected PROVE Base'
  <2>1. /\ Takes("closed") /\ netInitialized' = FALSE /\ net' = "disconnected"
        /\ UNCHANGED <<accounts, disk, life, jobs, async, job, state, databaseInitialized, autoLoggingIn,
                       netc, ui, bound, history, failed>>
    BY <1>7 DEF Disconnected
  <2>2. Linked' /\ Alive /\ netInitialized
    BY <1>0, <2>1, Took
  <2>3. LogicTypes'
    BY <1>0, <2>1 DEF Typed, LogicTypes
  <2>4. Typed'
    BY <1>0, <2>1, <2>2, <2>3
       DEF Typed, LinkTypes, Linked, DiskTypes, JobTypes, ThreadTypes, NetTypes, PageTypes, BoundTypes,
           HistoryTypes, disk, netc, ui, bound, history
  <2>5. (JobInv /\ GoneInv)'
    BY <1>0, <2>1, <2>2 DEF JobInv, GoneInv, Starting, Alive, Ops, netc
  <2>6. QED
    BY <2>4, <2>5, TypedMeans DEF Base
<1>8. ASSUME OnDisconnected PROVE Base'
  <2>1. Typed'
    BY <1>0, <1>8
       DEF OnDisconnected, UserGone, ForgetUser, Typed, LinkTypes, DiskTypes, JobTypes, ThreadTypes,
           LogicTypes, NetTypes, PageTypes, BoundTypes, HistoryTypes, link, disk, netc, ui, bound, history
  <2>2. (JobInv /\ GoneInv)'
    BY <1>0, <1>8 DEF OnDisconnected, JobInv, GoneInv, Starting, Alive, Ops, link, netc
  <2>3. QED
    BY <2>1, <2>2, TypedMeans DEF Base
<1>9. ASSUME OnDisconnectedControls PROVE Base'
  <2>1. PageTypes'
    BY <1>0, <1>9 DEF OnDisconnectedControls, ControlsBack, FinishLoading, Typed, PageTypes
  <2>2. Typed'
    BY <1>0, <1>9, <2>1
       DEF OnDisconnectedControls, Typed, LinkTypes, DiskTypes, JobTypes, ThreadTypes,
           LogicTypes, NetTypes, BoundTypes, HistoryTypes, link, disk, logic, netc, bound, history
  <2>3. (JobInv /\ GoneInv)'
    BY <1>0, <1>9 DEF OnDisconnectedControls, JobInv, GoneInv, Starting, Alive, Ops, link, netc
  <2>4. QED
    BY <2>2, <2>3, TypedMeans DEF Base
<1>10. ASSUME OnDisconnectedPage PROVE Base'
  <2>1. Typed'
    BY <1>0, <1>10
       DEF OnDisconnectedPage, Typed, LinkTypes, DiskTypes, JobTypes, ThreadTypes,
           LogicTypes, NetTypes, PageTypes, BoundTypes, HistoryTypes, link, disk, logic, netc, bound, history
  <2>2. (JobInv /\ GoneInv)'
    BY <1>0, <1>10 DEF OnDisconnectedPage, JobInv, GoneInv, Starting, Alive, Ops, link, netc
  <2>3. QED
    BY <2>1, <2>2, TypedMeans DEF Base
<1>11. ASSUME OnDisconnectedClean PROVE Base'
  <2>1. /\ Alive /\ net = "netClean" /\ net' = "listen"
        /\ netThis' = FALSE /\ leftOver' = netState
        /\ toServer' = <<>> /\ toClient' = <<>> /\ closing' = FALSE
        /\ UNCHANGED <<accounts, disk, life, jobs, async, job, logic, netState, progress, token, loggedInAs,
                       ui, bound, history, failed>>
    BY <1>11 DEF OnDisconnectedClean, CleanUp
  <2>2. LinkTypes' /\ NetTypes'
    <3>1. toServer' \in Seq(Requests) /\ toClient' \in Seq(Replies)
      BY <2>1
    <3>2. QED
      BY <1>0, <2>1, <3>1 DEF Typed, LinkTypes, NetTypes
  <2>3. Typed'
    BY <1>0, <2>1, <2>2
       DEF Typed, DiskTypes, JobTypes, ThreadTypes, LogicTypes, PageTypes, BoundTypes, HistoryTypes,
           disk, logic, ui, bound, history
  <2>4. (JobInv /\ GoneInv)'
    BY <1>0, <2>1 DEF JobInv, GoneInv, Starting, Alive, Ops
  <2>5. QED
    BY <2>3, <2>4, TypedMeans DEF Base
<1>12. ASSUME ListenAgain \/ ListenNowhere PROVE Base'
  <2>1. CASE Abort("receive") \/ Abort("netListen")
    BY <2>1, AbortBase DEF Assertions
  <2>2. CASE ~(Abort("receive") \/ Abort("netListen")) /\ net' = "idle"
    <3>1. /\ Alive /\ net = "listen" /\ net' = "idle"
          /\ UNCHANGED <<accounts, link, disk, life, jobs, async, job, logic, netc, ui, bound, history, failed>>
      BY <1>12, <2>2 DEF ListenAgain, ListenNowhere
    <3>2. Typed'
      BY <1>0, <3>1
         DEF Typed, LinkTypes, DiskTypes, JobTypes, ThreadTypes, LogicTypes, NetTypes, PageTypes, BoundTypes,
             HistoryTypes, link, disk, logic, netc, ui, bound, history
    <3>3. (JobInv /\ GoneInv)'
      BY <1>0, <3>1 DEF JobInv, GoneInv, Starting, Alive, Ops, link, netc
    <3>4. QED
      BY <3>2, <3>3, TypedMeans DEF Base
  <2>3. CASE ~(Abort("receive") \/ Abort("netListen")) /\ net' # "idle"
    <3>1. /\ Alive /\ net = "listen" /\ net' = "disconnected" /\ netInitialized' = FALSE /\ early' = TRUE
          /\ toClient # <<>> /\ toClient' = Tail(toClient)
          /\ UNCHANGED <<accounts, toServer, closing, disk, life, jobs, async, job, state,
                         databaseInitialized, autoLoggingIn, netc, ui, bound, late, twice, failed>>
      BY <1>12, <2>3 DEF ListenAgain, ListenNowhere
    <3>2. LinkTypes'
      BY <1>0, <3>1, OneLess DEF Typed, LinkTypes, Linked
    <3>3. (LogicTypes /\ HistoryTypes)'
      BY <1>0, <3>1 DEF Typed, LogicTypes, HistoryTypes
    <3>4. Typed'
      BY <1>0, <3>1, <3>2, <3>3
         DEF Typed, DiskTypes, JobTypes, ThreadTypes, NetTypes, PageTypes, BoundTypes, disk, netc, ui, bound
    <3>5. (JobInv /\ GoneInv)'
      BY <1>0, <3>1 DEF JobInv, GoneInv, Starting, Alive, Ops, netc
    <3>6. QED
      BY <3>4, <3>5, TypedMeans DEF Base
  <2>4. QED
    BY <2>1, <2>2, <2>3
<1>13. QED
  BY <1>1, <1>2, <1>3, <1>4, <1>5, <1>6, <1>7, <1>8, <1>9, <1>10, <1>11, <1>12, <1>14 DEF NetThread

(* The server's steps, the end of the program, and no step. *)
LEMMA OtherBase ==
  ASSUME Base, Clean \/ ServerAnswers \/ ServerFails \/ Rest \/ UNCHANGED vars
  PROVE  Base'
<1>0. Typed /\ JobInv /\ GoneInv /\ Linked
  BY TypedMeans DEF Base, Typed, LinkTypes, Linked
<1>1. ASSUME Clean PROVE Base'
  <2>1. CASE Abort("freed") \/ Abort("netClean")
    BY <2>1, AbortBase DEF Assertions
  <2>2. CASE ~(Abort("freed") \/ Abort("netClean"))
    <3>1. /\ Alive /\ life = "leaving" /\ async = "idle" /\ life' = "gone" /\ jobs' = <<>>
          /\ netThis' = FALSE \/ netThis' = netThis
          /\ closing' = FALSE /\ toServer' = <<>> /\ toClient' = <<>>
          /\ databaseInitialized' = FALSE /\ net' = "idle"
          /\ UNCHANGED <<accounts, disk, async, job, state, netInitialized, autoLoggingIn,
                         netState, leftOver, progress, token, loggedInAs, ui, bound, history, failed>>
      <4>1. netThis' = (netThis /\ ~netInitialized)
        BY <1>1, <2>2 DEF Clean
      <4>2. netThis' = FALSE \/ netThis' = netThis
        BY <1>0, <4>1 DEF Typed, NetTypes, LogicTypes
      <4>3. QED
        BY <1>1, <2>2, <4>2 DEF Clean
    <3>2. LinkTypes' /\ NetTypes'
      <4>1. toServer' \in Seq(Requests) /\ toClient' \in Seq(Replies)
        BY <3>1
      <4>2. QED
        BY <1>0, <3>1, <4>1 DEF Typed, LinkTypes, NetTypes
    <3>3. LogicTypes'
      BY <1>0, <3>1 DEF Typed, LogicTypes
    <3>4. JobTypes' /\ ThreadTypes'
      BY <1>0, <3>1 DEF Typed, JobTypes, ThreadTypes
    <3>5. Typed'
      BY <1>0, <3>1, <3>2, <3>3, <3>4
         DEF Typed, DiskTypes, PageTypes, BoundTypes, HistoryTypes, disk, ui, bound, history
    <3>6. (JobInv /\ GoneInv)'
      BY <3>1, NothingIn DEF JobInv, GoneInv
    <3>7. QED
      BY <3>5, <3>6, TypedMeans DEF Base
  <2>3. QED
    BY <2>1, <2>2
<1>2. ASSUME ServerAnswers PROVE Base'
  <2> DEFINE q == Head(toServer)
  <2>1. /\ Alive /\ toServer # <<>> /\ toClient' = toClient \o Answers(q)
        /\ closing' = Contains(Answers(q), "closed")
        /\ toServer' = IF closing' THEN <<>> ELSE Tail(toServer)
        /\ accounts' = IF q.kind = "register" THEN accounts \cup {q.who} ELSE accounts
        /\ loggedInAs' = IF Contains(Answers(q), "loggedIn") THEN q.who ELSE loggedInAs
        /\ UNCHANGED <<disk, life, jobs, async, job, net, logic, netThis, netState, leftOver, progress,
                       token, ui, bound, history, failed>>
    BY <1>2 DEF ServerAnswers
  <2>2. Linked' /\ q \in Requests
    BY <1>0, <2>1, ServerAnswered
  <2> HIDE DEF q
  <2>3. (q.kind = "register" => q.who \in Credentials) /\ q.who \in Credentials \cup {None}
    BY <2>2 DEF Requests
  <2>4. LinkTypes' /\ loggedInAs' \in Credentials \cup {None}
    BY <1>0, <2>1, <2>2, <2>3 DEF Typed, LinkTypes, NetTypes, Linked
  <2>5. Typed'
    BY <1>0, <2>1, <2>4
       DEF Typed, DiskTypes, JobTypes, ThreadTypes, LogicTypes, NetTypes, PageTypes, BoundTypes,
           HistoryTypes, disk, logic, ui, bound, history
  <2>6. (JobInv /\ GoneInv)'
    BY <1>0, <2>1 DEF JobInv, GoneInv, Starting, Alive, Ops, disk, logic, ui
  <2>7. QED
    BY <2>5, <2>6, TypedMeans DEF Base
<1>3. ASSUME ServerFails PROVE Base'
  <2>1. /\ Alive /\ netThis /\ acts < MaxActs /\ acts' = acts + 1
        /\ UNCHANGED <<accounts, disk, life, jobs, async, job, net, logic, netc, ui,
                       attempts, starts, history, failed>>
    BY <1>3 DEF ServerFails
  <2>2. Linked'
    <3>1. {"error", "invite", "closed"} \subseteq Replies
      BY DEF Replies
    <3>2. \A reply \in {"error", "invite", "closed"} : Append(toClient, reply) \in Seq(Replies)
      BY <1>0, <3>1, OneMore DEF Linked
    <3>3. CASE toClient' = Append(toClient, "closed") /\ toServer' = <<>> /\ closing' = TRUE
      BY <3>2, <3>3 DEF Linked
    <3>4. CASE /\ toServer # <<>> /\ toClient' = Append(toClient, "error") /\ toServer' = Tail(toServer)
               /\ UNCHANGED closing
      BY <1>0, <3>2, <3>4, OneLess DEF Linked
    <3>6. CASE toClient' = Append(toClient, "invite") /\ UNCHANGED <<toServer, closing>>
      BY <1>0, <3>2, <3>6 DEF Linked
    <3>5. QED
      BY <1>3, <3>3, <3>4, <3>6 DEF ServerFails
  <2>3. BoundTypes'
    BY <1>0, <2>1, BoundsAssumption DEF Typed, BoundTypes
  <2>4. Typed'
    BY <1>0, <2>1, <2>2, <2>3
       DEF Typed, LinkTypes, Linked, DiskTypes, JobTypes, ThreadTypes, LogicTypes, NetTypes, PageTypes,
           HistoryTypes, disk, logic, netc, ui, history
  <2>5. (JobInv /\ GoneInv)'
    BY <1>0, <2>1 DEF JobInv, GoneInv, Starting, Alive, Ops, disk, logic, netc, ui
  <2>6. QED
    BY <2>4, <2>5, TypedMeans DEF Base
<1>4. ASSUME UNCHANGED vars PROVE Base'
  <2>1. Typed'
    BY <1>0, <1>4
       DEF Typed, LinkTypes, DiskTypes, JobTypes, ThreadTypes, LogicTypes, NetTypes, PageTypes, BoundTypes,
           HistoryTypes, link, disk, logic, netc, ui, bound, history, vars
  <2>2. (JobInv /\ GoneInv)'
    BY <1>0, <1>4 DEF JobInv, GoneInv, Starting, Ops, link, disk, logic, netc, ui, vars
  <2>3. QED
    BY <2>1, <2>2, TypedMeans DEF Base
<1>5. QED
  BY <1>1, <1>2, <1>3, <1>4 DEF Rest

LEMMA NextBase == Base /\ [Next]_vars => Base'
BY UserBase, AsyncBase, NetBase, OtherBase DEF Next

(* Everything the program keeps stays within its types: the request or the *)
(* job that is made of another, the steps of the key exchange, the state   *)
(* that is found in freed memory.                                          *)
THEOREM TypesHold == Spec => []TypeOK
<1>1. Init => Base
  BY InitBase
<1>2. Base /\ [Next]_vars => Base'
  BY NextBase
<1>3. Base => TypeOK
  BY DEF Base
<1>4. QED
  BY <1>1, <1>2, <1>3, PTL DEF Spec

-----------------------------------------------------------------------------
(* The connection: which module knows of it when, what is on it, and how   *)
(* far its key exchange went.                                              *)

Goodbye == {"disconnected", "finishLoading", "showLogIn", "netClean"}
Exchanging == async \in {"handshake", "compare", "secured"}
Ending == {"closed", "logInRefused", "registered", "registerRefused"}

ConnInv ==
  life # "gone" =>
    /\ netInitialized => netThis
    /\ net \in Goodbye => netThis /\ ~netInitialized /\ closing
    /\ Exchanging => netThis /\ ~netInitialized /\ net \notin Goodbye
    /\ netThis => netInitialized \/ net \in Goodbye \/ Exchanging
    /\ net = "loggedIn" => netInitialized /\ token = "session"

LinkInv ==
  life # "gone" =>
    /\ ~netThis => toServer = <<>> /\ toClient = <<>> /\ ~closing
    /\ closing => toServer = <<>>
    /\ closing => net \in Goodbye \/ "closed" \in Range(toClient)
    /\ (\E reply \in Ending : reply \in Range(toClient)) => closing
    /\ ~Secured => toServer = <<>>
    /\ Exchanging => toServer = <<>> /\ loggedInAs = None /\ toClient \in {<<>>, <<"closed">>}

(* As long as no connection is found closed before it is noted. *)
Wired == Base /\ ConnInv /\ LinkInv

(* Steps that leave the connection, and who knows of it, alone. *)
LEMMA Untouched ==
  ASSUME Wired, life # "gone",
         UNCHANGED <<link, async, net, netInitialized, netThis, netState, leftOver, progress, token, loggedInAs>>
  PROVE  (ConnInv /\ LinkInv)'
<1>1. ConnInv'
  BY DEF Wired, ConnInv, Exchanging, Goodbye, link
<1>2. LinkInv'
  BY DEF Wired, LinkInv, Exchanging, Goodbye, Secured, link
<1>4. QED
  BY <1>1, <1>2

LEMMA AbortWired ==
  ASSUME Wired, NEW a, Abort(a)
  PROVE  (ConnInv /\ LinkInv)'
<1>1. UNCHANGED <<link, life, async, net, netInitialized, netThis, netState, leftOver, progress, token, loggedInAs>>
  BY DEF Abort, logic, netc
<1>2. CASE life # "gone"
  BY <1>1, <1>2, Untouched
<1>3. CASE life = "gone"
  BY <1>1, <1>3 DEF Wired, Base, GoneInv, ConnInv, LinkInv, Exchanging
<1>4. QED
  BY <1>2, <1>3

(* Something is sent, on a connection that is there. *)
LEMMA SendWired ==
  ASSUME Wired, NEW request \in Requests, Send(request), life # "gone", netThis, ~Exchanging, ~Exchanging',
         UNCHANGED <<net, netInitialized, netThis, netState, leftOver, progress, token, loggedInAs>>,
         async' \in {async, "idle"}
  PROVE  (ConnInv /\ LinkInv)'
<1>0. Linked
  BY TypedMeans DEF Wired, Base, Typed, LinkTypes, Linked
<1>1. \/ closing /\ UNCHANGED link
      \/ /\ ~closing /\ Secured /\ UNCHANGED <<toClient, closing>>
      \/ /\ ~closing /\ ~Secured /\ toServer' = <<>> /\ closing'
         /\ Range(toClient') = Range(toClient) \cup {"closed"}
  BY <1>0, Sent
<1>2. ConnInv'
  BY <1>1 DEF Wired, ConnInv, link
<1>3. LinkInv'
  BY <1>1 DEF Wired, LinkInv, Secured, link
<1>5. QED
  BY <1>2, <1>3

(* Something is taken of what the server sent. *)
LEMMA TakeWired ==
  ASSUME Wired, NEW reply, Takes(reply), netThis' = netThis,
         net' \in Goodbye \/ reply # "closed",
         net' \in Goodbye => ~netInitialized' /\ reply = "closed",
         net' \notin Goodbye => netInitialized' = netInitialized,
         net' = "loggedIn" => token' = "session",
         UNCHANGED <<async, life, leftOver, progress>>,
         netState' \in {netState, "authenticated", "finishedWithError"}
  PROVE  (ConnInv /\ LinkInv)'
<1>0. Linked
  BY TypedMeans DEF Wired, Base, Typed, LinkTypes, Linked
<1>1. /\ UNCHANGED <<toServer, closing>>
      /\ reply \in Range(toClient) /\ Range(toClient) = {reply} \cup Range(toClient')
      /\ life # "gone" /\ netInitialized /\ net = "idle"
  BY <1>0, Took DEF Alive
<1>2. netThis /\ ~Exchanging
  BY <1>1 DEF Wired, ConnInv
<1>3. reply = "closed" => closing
  BY <1>1 DEF Wired, LinkInv, Ending
<1>4. ConnInv'
  BY <1>1, <1>2, <1>3 DEF ConnInv, Exchanging, Goodbye
<1>5. LinkInv'
  BY <1>1, <1>2 DEF Wired, LinkInv, Exchanging, Goodbye, Secured
<1>7. QED
  BY <1>4, <1>5

(* A connection is cleaned up. *)
LEMMA CleanWired ==
  ASSUME CleanUp, ~netInitialized', net' \notin Goodbye, net' # "loggedIn", ~Exchanging'
  PROVE  (ConnInv /\ LinkInv)'
<1>1. ~netThis' /\ toServer' = <<>> /\ toClient' = <<>> /\ ~closing'
  BY DEF CleanUp
<1>2. ConnInv'
  BY <1>1 DEF ConnInv
<1>3. LinkInv'
  BY <1>1, NothingIn DEF LinkInv, Ending
<1>4. QED
  BY <1>2, <1>3

(* The program is started anew, whatever was before. *)
LEMMA RestartWired == ASSUME Base, Restart PROVE (ConnInv /\ LinkInv)'
<1>1. /\ ~netInitialized' /\ ~netThis' /\ UNCHANGED <<link, async, net>>
      /\ async = "idle" /\ net = "idle" /\ toServer = <<>> /\ toClient = <<>> /\ ~closing
  BY DEF Restart, Base, GoneInv
<1>2. ConnInv'
  BY <1>1 DEF ConnInv, Exchanging, Goodbye
<1>3. LinkInv'
  BY <1>1, NothingIn DEF LinkInv, Ending, Exchanging, link
<1>4. QED
  BY <1>2, <1>3

LEMMA UserWired == ASSUME Wired, UserActs PROVE (ConnInv /\ LinkInv)'
<1>1. ASSUME NEW who \in Credentials, CredentialsEntered(who) PROVE (ConnInv /\ LinkInv)'
  <2>1. CASE Abort("netInitialized")
    BY <2>1, AbortWired
  <2>2. CASE ~Abort("netInitialized")
    <3>1. /\ life # "gone"
          /\ UNCHANGED <<link, async, net, netInitialized, netThis, netState, leftOver, progress, token, loggedInAs>>
      BY <1>1, <2>2 DEF CredentialsEntered, TakeCredentials, Alive, netc
    <3>2. QED
      BY <3>1, Untouched
  <2>3. QED
    BY <2>1, <2>2
<1>2. ASSUME \/ PageQueried \/ AutoLoggingInChanged \/ UserChosen \/ PageChanged \/ ConversationLeft
             \/ UpdateClicked \/ ShutdownRequested \/ Quit,
             ~Abort("databaseInitialized")
      PROVE  (ConnInv /\ LinkInv)'
  <2>1. /\ life # "gone"
        /\ UNCHANGED <<link, async, net, netInitialized, netThis, netState, leftOver, progress, token, loggedInAs>>
    BY <1>2 DEF PageQueried, AutoLoggingInChanged, UserChosen, PageChanged, ConversationLeft, UpdateClicked,
                ShutdownRequested, Quit, Acts, Alive, logic, netc
  <2>2. QED
    BY <2>1, Untouched
<1>3. ASSUME BroadcastRequested PROVE (ConnInv /\ LinkInv)'
  <2>1. CASE ~(netInitialized /\ netThis)
    BY <1>3, <2>1, AbortWired DEF BroadcastRequested
  <2>2. CASE netInitialized /\ netThis
    <3>1. /\ life # "gone" /\ Send(Request("broadcast", None))
          /\ UNCHANGED <<async, net, netInitialized, netThis, netState, leftOver, progress, token, loggedInAs>>
      BY <1>3, <2>2 DEF BroadcastRequested, Alive, logic, netc
    <3>2. ~Exchanging /\ ~Exchanging'
      BY <2>2, <3>1 DEF Wired, ConnInv, Exchanging
    <3>3. Request("broadcast", None) \in Requests
      BY RequestTypes DEF Wired, Base
    <3>4. QED
      BY <2>2, <3>1, <3>2, <3>3, SendWired
  <2>3. QED
    BY <2>1, <2>2
<1>4. ASSUME Restart PROVE (ConnInv /\ LinkInv)'
  BY <1>4, RestartWired DEF Wired
<1>5. QED
  BY <1>1, <1>2, <1>3, <1>4, AbortWired DEF UserActs

LEMMA AsyncWired == ASSUME Wired, AsyncThread \/ HandshakeStep PROVE (ConnInv /\ LinkInv)'
<1>1. ASSUME \/ RunShow \/ RunProcessUsers \/ RunContinue \/ RunDelete
             \/ RunSetUp("start", "netCreateConversation")
             \/ RunSetUp("reply", "netReplyToConversationSetUpInvite"),
             ~\E a \in Assertions : Abort(a)
      PROVE  (ConnInv /\ LinkInv)'
  <2>1. /\ life # "gone"
        /\ UNCHANGED <<link, async, net, netInitialized, netThis, netState, leftOver, progress, token, loggedInAs>>
    BY <1>1 DEF RunShow, RunProcessUsers, RunContinue, RunDelete, RunSetUp, Runs, TakeCredentials, Alive,
                Assertions, logic, netc
  <2>2. QED
    BY <2>1, Untouched
<1>2. ASSUME RunCredentials PROVE (ConnInv /\ LinkInv)'
  <2>1. /\ life # "gone" /\ async = "idle" /\ async' \in {"idle", "netInit"}
        /\ UNCHANGED <<link, net, netInitialized, netThis, netState, leftOver, progress, token, loggedInAs>>
    BY <1>2 DEF RunCredentials, Runs, Alive, netc
  <2>2. ConnInv'
    BY <2>1 DEF Wired, ConnInv, Exchanging, Goodbye, link
  <2>3. LinkInv'
    BY <2>1 DEF Wired, LinkInv, Exchanging, Goodbye, Secured, link
  <2>5. QED
    BY <2>2, <2>3
<1>3. ASSUME NetInit PROVE (ConnInv /\ LinkInv)'
  <2>1. CASE Abort("netThis")
    BY <2>1, AbortWired
  <2>2. CASE ~Abort("netThis")
    <3>1. /\ life # "gone" /\ async = "netInit" /\ ~netThis /\ UNCHANGED <<link, net, life>>
          /\ \/ /\ netThis' /\ async' = "handshake" /\ netState' \in {"undefined", leftOver}
                /\ loggedInAs' = None
                /\ UNCHANGED <<netInitialized, leftOver>>
             \/ async' = "idle" /\ ~netInitialized' /\ netThis' = netThis
      BY <1>3, <2>2 DEF NetInit, Alive, logic, netc
    <3>2. /\ ~netInitialized /\ net \notin Goodbye /\ net # "loggedIn"
          /\ toServer = <<>> /\ toClient = <<>> /\ ~closing
      BY <3>1 DEF Wired, ConnInv, LinkInv
    <3>3. ConnInv'
      BY <3>1, <3>2 DEF ConnInv, Exchanging, Goodbye
    <3>4. LinkInv'
      BY <3>1, <3>2, NothingIn DEF LinkInv, Exchanging, Ending, link
    <3>6. QED
      BY <3>3, <3>4
  <2>3. QED
    BY <2>1, <2>2
<1>4. ASSUME HandshakeStep \/ HandshakeFails PROVE (ConnInv /\ LinkInv)'
  <2>1. /\ life # "gone" /\ async = "handshake" /\ async' \in {"handshake", "compare"}
        /\ UNCHANGED <<link, life, net, netInitialized, netThis, leftOver, token, loggedInAs>>
    BY <1>4 DEF HandshakeStep, HandshakeFails, StopWaiting, TimesOut, Alive, logic, netc
  <2>2. ConnInv'
    BY <2>1 DEF Wired, ConnInv, Exchanging, Goodbye, link
  <2>3. LinkInv'
    BY <2>1 DEF Wired, LinkInv, Exchanging, Goodbye, link
  <2>6. QED
    BY <2>2, <2>3
<1>5. ASSUME NetInitReturns \/ NetInitialized PROVE (ConnInv /\ LinkInv)'
  <2>1. CASE Abort("netInit")
    BY <2>1, AbortWired
  <2>2. CASE ~Abort("netInit")
    <3>1. /\ life # "gone" /\ Exchanging /\ async # "handshake" /\ UNCHANGED <<life, net, progress, token, loggedInAs>>
      BY <1>5, <2>2 DEF NetInitReturns, NetInitialized, Alive, Exchanging, netc
    <3>2. /\ netThis /\ ~netInitialized /\ net \notin Goodbye /\ net # "loggedIn" /\ toServer = <<>>
          /\ loggedInAs = None /\ toClient \in {<<>>, <<"closed">>}
      BY <3>1 DEF Wired, ConnInv, LinkInv
    <3>3. CASE async' = "secured"
      <4>1. UNCHANGED <<netInitialized, netThis, leftOver, link>>
        BY <1>5, <2>2, <3>3 DEF NetInitReturns, NetInitialized, logic, netc
      <4>2. ConnInv'
        BY <3>1, <3>2, <3>3, <4>1 DEF ConnInv, Exchanging, Goodbye
      <4>3. LinkInv'
        BY <3>1, <3>2, <3>3, <4>1 DEF Wired, LinkInv, Exchanging, Goodbye, Secured, link
      <4>4. QED
        BY <4>2, <4>3
    <3>4. CASE async' = "credentials"
      <4>1. netInitialized' = TRUE /\ UNCHANGED <<netThis, leftOver, link>>
        BY <1>5, <2>2, <3>4 DEF NetInitReturns, NetInitialized, netc
      <4>2. ConnInv'
        BY <3>1, <3>2, <3>4, <4>1 DEF ConnInv, Exchanging, Goodbye
      <4>3. LinkInv'
        BY <3>1, <3>2, <3>4, <4>1 DEF Wired, LinkInv, Exchanging, Goodbye, Secured, link
      <4>4. QED
        BY <4>2, <4>3
    <3>5. CASE async' = "idle"
      <4>1. ~netInitialized' /\ CleanUp
        BY <1>5, <2>2, <3>5 DEF NetInitReturns, NetInitialized, GivesUp
      <4>2. net' \notin Goodbye /\ net' # "loggedIn" /\ ~Exchanging'
        BY <3>1, <3>2, <3>5 DEF Exchanging
      <4>3. QED
        BY <4>1, <4>2, CleanWired
    <3>6. QED
      BY <1>5, <2>2, <3>3, <3>4, <3>5 DEF NetInitReturns, NetInitialized
  <2>3. QED
    BY <2>1, <2>2
<1>6. ASSUME SendCredentials PROVE (ConnInv /\ LinkInv)'
  <2>1. CASE ~netThis
    BY <1>6, <2>1, AbortWired DEF SendCredentials
  <2>2. CASE netThis
    <3>1. /\ life # "gone" /\ async = "credentials" /\ async' = "idle" /\ Send(Request(job.op, job.who))
          /\ UNCHANGED <<net, netInitialized, netThis, netState, leftOver, progress, token, loggedInAs>>
      BY <1>6, <2>2 DEF SendCredentials, Alive, logic, netc
    <3>2. Request(job.op, job.who) \in Requests
      <4>1. job \in Jobs /\ job.op \in Attempts
        BY <3>1, TypedMeans DEF Wired, Base, Typed, JobTypes, JobInv
      <4>2. QED
        BY <4>1, RequestTypes, JobsOps DEF Wired, Base
    <3>3. QED
      BY <2>2, <3>1, <3>2, SendWired DEF Exchanging
  <2>3. QED
    BY <2>1, <2>2
<1>7. ASSUME NEW op \in {"fetchUsers", "shutdown"}, NEW a, RunRequest(op, a)
      PROVE  (ConnInv /\ LinkInv)'
  <2>1. CASE ~netThis
    BY <1>7, <2>1, AbortWired DEF RunRequest
  <2>2. CASE netThis
    <3>1. /\ life # "gone" /\ async = "idle" /\ async' = async /\ Send(Request(op, None))
          /\ UNCHANGED <<net, netInitialized, netThis, netState, leftOver, progress, token, loggedInAs>>
      BY <1>7, <2>2 DEF RunRequest, Runs, Alive, logic, netc
    <3>2. Request(op, None) \in Requests
      BY RequestTypes DEF Wired, Base
    <3>3. QED
      BY <2>2, <3>1, <3>2, SendWired DEF Exchanging
  <2>3. QED
    BY <2>1, <2>2
<1>8. QED
  BY <1>1, <1>2, <1>3, <1>4, <1>5, <1>6, <1>7, AbortWired DEF AsyncThread

LEMMA NetWired == ASSUME Wired, NetThread, ~early' PROVE (ConnInv /\ LinkInv)'
<1>1. ASSUME LoggedIn PROVE (ConnInv /\ LinkInv)'
  <2>1. /\ Takes("loggedIn") /\ netState' = "authenticated" /\ token' = "session" /\ net' = "loggedIn"
        /\ UNCHANGED <<netInitialized, netThis, async, life, leftOver, progress>>
    BY <1>1 DEF LoggedIn, TokenReceived, StoreToken, logic
  <2>2. QED
    BY <2>1, TakeWired DEF Goodbye
<1>2. ASSUME LogInRefused \/ RegisterResult \/ UsersFetched \/ InviteReceived \/ ErrorReceived
      PROVE  (ConnInv /\ LinkInv)'
  <2>1. PICK reply \in {"logInRefused", "registered", "registerRefused", "users", "invite", "error"} : Takes(reply)
    BY <1>2 DEF LogInRefused, RegisterResult, UsersFetched, InviteReceived, ErrorReceived
  <2>2. /\ UNCHANGED <<net, netInitialized, netThis, async, life, leftOver, progress>>
        /\ netState' \in {netState, "finishedWithError"} /\ net = "idle"
    BY <1>2 DEF LogInRefused, RegisterResult, UsersFetched, InviteReceived, ErrorReceived, logic, netc, Takes
  <2>3. QED
    BY <2>1, <2>2, TakeWired DEF Goodbye
<1>3. ASSUME Disconnected PROVE (ConnInv /\ LinkInv)'
  <2>1. /\ Takes("closed") /\ ~netInitialized' /\ net' = "disconnected"
        /\ UNCHANGED <<netThis, async, life, leftOver, progress, netState>>
    BY <1>3 DEF Disconnected, netc
  <2>2. QED
    BY <2>1, TakeWired DEF Goodbye
<1>4. ASSUME OnLoggedIn \/ OnDisconnected \/ OnDisconnectedControls \/ OnDisconnectedPage
      PROVE  (ConnInv /\ LinkInv)'
  <2>1. /\ life # "gone" /\ net' # "loggedIn" /\ (net' \in Goodbye <=> net \in Goodbye)
        /\ UNCHANGED <<link, async, life, netInitialized, netThis, netState, leftOver, progress, token, loggedInAs>>
    BY <1>4 DEF OnLoggedIn, OnDisconnected, OnDisconnectedControls, OnDisconnectedPage, Alive, Goodbye,
                logic, netc
  <2>2. ConnInv'
    BY <2>1 DEF Wired, ConnInv, Exchanging, link
  <2>3. LinkInv'
    BY <2>1 DEF Wired, LinkInv, Exchanging, Secured, link
  <2>5. QED
    BY <2>2, <2>3
<1>5. ASSUME OnDisconnectedClean PROVE (ConnInv /\ LinkInv)'
  <2>1. /\ life # "gone" /\ net = "netClean" /\ net' = "listen" /\ CleanUp
        /\ UNCHANGED <<netInitialized, async>>
    BY <1>5 DEF OnDisconnectedClean, Alive, logic
  <2>2. ~netInitialized /\ ~Exchanging
    BY <2>1 DEF Wired, ConnInv, Goodbye
  <2>3. QED
    BY <2>1, <2>2, CleanWired DEF Exchanging, Goodbye
<1>6. ASSUME ListenAgain \/ ListenNowhere, ~early' PROVE (ConnInv /\ LinkInv)'
  <2>1. CASE Abort("receive") \/ Abort("netListen")
    BY <2>1, AbortWired
  <2>2. CASE ~(Abort("receive") \/ Abort("netListen"))
    <3>1. /\ life # "gone" /\ net = "listen" /\ net' = "idle"
          /\ UNCHANGED <<link, async, life, netInitialized, netThis, netState, leftOver, progress, token, loggedInAs>>
      BY <1>6, <2>2 DEF ListenAgain, ListenNowhere, Alive, logic, netc
    <3>2. ConnInv'
      BY <3>1 DEF Wired, ConnInv, Exchanging, Goodbye, link
    <3>3. LinkInv'
      BY <3>1 DEF Wired, LinkInv, Exchanging, Goodbye, Secured, link
    <3>5. QED
      BY <3>2, <3>3
  <2>3. QED
    BY <2>1, <2>2
<1>7. QED
  BY <1>1, <1>2, <1>3, <1>4, <1>5, <1>6 DEF NetThread

LEMMA OtherWired ==
  ASSUME Wired, Clean \/ ServerAnswers \/ ServerFails \/ Rest \/ UNCHANGED vars
  PROVE  (ConnInv /\ LinkInv)'
<1>0. Linked
  BY TypedMeans DEF Wired, Base, Typed, LinkTypes, Linked
<1>1. ASSUME Clean PROVE (ConnInv /\ LinkInv)'
  <2>1. CASE Abort("freed") \/ Abort("netClean")
    BY <2>1, AbortWired
  <2>2. CASE ~(Abort("freed") \/ Abort("netClean"))
    <3>1. life' = "gone" /\ async' = "idle"
      BY <1>1, <2>2 DEF Clean
    <3>2. QED
      BY <3>1 DEF ConnInv, LinkInv, Exchanging
  <2>3. QED
    BY <2>1, <2>2
<1>2. ASSUME ServerAnswers PROVE (ConnInv /\ LinkInv)'
  <2> DEFINE q == Head(toServer)
  <2>1. /\ life # "gone" /\ toServer # <<>> /\ toClient' = toClient \o Answers(q)
        /\ closing' = Contains(Answers(q), "closed")
        /\ toServer' = IF closing' THEN <<>> ELSE Tail(toServer)
        /\ UNCHANGED <<life, async, net, netInitialized, netThis, netState, leftOver, progress, token>>
    BY <1>2 DEF ServerAnswers, Alive, logic
  <2>2. /\ q \in Requests /\ Range(toClient') = Range(toClient) \cup Range(Answers(q))
        /\ closing' <=> "closed" \in Range(Answers(q))
        /\ closing' => toServer' = <<>>
    BY <1>0, <2>1, ServerAnswered
  <2> HIDE DEF q
  <2>3. "closed" \notin Range(Answers(q)) => Range(Answers(q)) \subseteq {"loggedIn", "users"}
    BY <2>2, Answered
  <2>4. /\ netThis /\ ~closing /\ Secured /\ ~Exchanging
        /\ \A reply \in Ending : reply \notin Range(toClient)
    BY <2>1 DEF Wired, LinkInv
  <2>5. ConnInv'
    BY <2>1, <2>4 DEF Wired, ConnInv, Exchanging
  <2>6. LinkInv'
    BY <2>1, <2>2, <2>3, <2>4 DEF LinkInv, Ending, Secured, Exchanging
  <2>8. QED
    BY <2>5, <2>6
<1>3. ASSUME ServerFails PROVE (ConnInv /\ LinkInv)'
  <2>1. /\ life # "gone" /\ netThis /\ Secured /\ ~closing
        /\ UNCHANGED <<life, async, net, netInitialized, netThis, netState, leftOver, progress, token, loggedInAs>>
    BY <1>3 DEF ServerFails, Alive, logic, netc
  <2>2. \/ toServer # <<>> /\ toClient' = Append(toClient, "error") /\ closing' = closing
        \/ loggedInAs # None /\ toClient' = Append(toClient, "invite") /\ UNCHANGED <<toServer, closing>>
        \/ toServer' = <<>> /\ toClient' = Append(toClient, "closed") /\ closing' = TRUE
    BY <1>3 DEF ServerFails
  <2>3. /\ "error" \in Replies /\ "invite" \in Replies /\ "closed" \in Replies
        /\ \A reply \in Replies : Range(Append(toClient, reply)) = Range(toClient) \cup {reply}
    BY <1>0, OneMore DEF Linked, Replies
  <2>4. ConnInv'
    BY <2>1, <2>2 DEF Wired, ConnInv, Exchanging
  <2>5. Exchanging => toServer' = <<>> /\ toClient' = <<"closed">>
    <3>1. Range(<<"closed">>) = {"closed"}
      BY <2>3, OneReply
    <3>2. Exchanging => toClient = <<>> /\ toServer = <<>> /\ loggedInAs = None
      BY <2>1, <3>1 DEF Wired, LinkInv, Ending
    <3>3. QED
      BY <2>2, <3>2
  <2>6. LinkInv'
    BY <2>1, <2>2, <2>3, <2>5 DEF Wired, LinkInv, Ending, Secured, Exchanging
  <2>7. QED
    BY <2>4, <2>6
<1>4. ASSUME UNCHANGED vars PROVE (ConnInv /\ LinkInv)'
  <2>1. UNCHANGED <<link, life, async, net, netInitialized, netThis, netState, leftOver, progress, token, loggedInAs>>
    BY <1>4 DEF vars, logic, netc
  <2>2. CASE life # "gone"
    BY <2>1, <2>2, Untouched
  <2>3. CASE life = "gone"
    BY <2>1, <2>3 DEF Wired, Base, GoneInv, ConnInv, LinkInv, Exchanging
  <2>4. QED
    BY <2>2, <2>3
<1>5. QED
  BY <1>1, <1>2, <1>3, <1>4 DEF Rest

LEMMA InitWired == Init => Wired
<1>1. Init => Base
  BY InitBase
<1>2. Init => ConnInv
  BY DEF Init, ConnInv, Exchanging, Goodbye
<1>3. Init => LinkInv
  BY NothingIn DEF Init, LinkInv, Exchanging, Ending
<1>4. QED
  BY <1>1, <1>2, <1>3 DEF Wired

(* A connection found closed before it is noted is that for good. *)
LEMMA EarlyStays ==
  ASSUME [Next]_vars, ~Restart
  PROVE  early => early'
<1>1. ASSUME NEW a, Abort(a) PROVE early => early'
  BY <1>1 DEF Abort, history
<1>2. ASSUME UserActs, ~\E a : Abort(a) PROVE early => early'
  BY <1>2
     DEF UserActs, CredentialsEntered, TakeCredentials, PageQueried, AutoLoggingInChanged, UserChosen,
         PageChanged, ConversationLeft, UpdateClicked, ShutdownRequested, BroadcastRequested, Quit, history
<1>3. ASSUME AsyncThread \/ HandshakeStep, ~\E a : Abort(a) PROVE early => early'
  BY <1>3
     DEF AsyncThread, HandshakeStep, RunShow, TakeCredentials, RunCredentials, NetInit, HandshakeFails,
         NetInitReturns, NetInitialized, SendCredentials, RunRequest, RunProcessUsers, RunContinue,
         RunDelete, RunSetUp, UpdateUsersList, history
<1>4. ASSUME NetThread, ~\E a : Abort(a) PROVE early => early'
  BY <1>4
     DEF NetThread, LoggedIn, OnLoggedIn, LogInRefused, RegisterResult, UsersFetched, InviteReceived,
         ErrorReceived, Disconnected, OnDisconnected, OnDisconnectedControls, OnDisconnectedPage,
         OnDisconnectedClean, ListenAgain, ListenNowhere, history
<1>5. ASSUME Clean \/ ServerAnswers \/ ServerFails \/ UNCHANGED vars, ~\E a : Abort(a) PROVE early => early'
  BY <1>5 DEF Clean, ServerAnswers, ServerFails, vars, history
<1>6. QED
  BY <1>1, <1>2, <1>3, <1>4, <1>5 DEF Next, Rest

LEMMA NotEarly ==
  ASSUME ~early, early', [Next]_vars
  PROVE  ListenAgain /\ ~\E a : Abort(a)
<1>1. ASSUME NEW a, Abort(a) PROVE FALSE
  BY <1>1 DEF Abort, history
<1>2. ASSUME UserActs PROVE FALSE
  BY <1>1, <1>2
     DEF UserActs, CredentialsEntered, TakeCredentials, PageQueried, AutoLoggingInChanged, UserChosen, Restart,
         PageChanged, ConversationLeft, UpdateClicked, ShutdownRequested, BroadcastRequested, Quit, history
<1>3. ASSUME AsyncThread \/ HandshakeStep PROVE FALSE
  BY <1>1, <1>3
     DEF AsyncThread, HandshakeStep, RunShow, TakeCredentials, RunCredentials, NetInit, HandshakeFails,
         NetInitReturns, NetInitialized, SendCredentials, RunRequest, RunProcessUsers, RunContinue,
         RunDelete, RunSetUp, UpdateUsersList, history
<1>4. ASSUME NetThread, ~ListenAgain PROVE FALSE
  BY <1>1, <1>4
     DEF NetThread, LoggedIn, OnLoggedIn, LogInRefused, RegisterResult, UsersFetched, InviteReceived,
         ErrorReceived, Disconnected, OnDisconnected, OnDisconnectedControls, OnDisconnectedPage,
         OnDisconnectedClean, ListenNowhere, history
<1>5. ASSUME Clean \/ ServerAnswers \/ ServerFails \/ UNCHANGED vars PROVE FALSE
  BY <1>1, <1>5 DEF Clean, ServerAnswers, ServerFails, vars, history
<1>6. QED
  BY <1>1, <1>2, <1>3, <1>4, <1>5 DEF Next, Rest

(* So are two attempts at once, and the end of the program.                *)
LEMMA TwiceStays ==
  ASSUME [Next]_vars, ~Restart
  PROVE  twice => twice'
<1>1. ASSUME NEW a, Abort(a) PROVE twice => twice'
  BY <1>1 DEF Abort, history
<1>2. ASSUME UserActs, ~\E a : Abort(a) PROVE twice => twice'
  BY <1>2
     DEF UserActs, CredentialsEntered, TakeCredentials, PageQueried, AutoLoggingInChanged, UserChosen,
         PageChanged, ConversationLeft, UpdateClicked, ShutdownRequested, BroadcastRequested, Quit, history
<1>3. ASSUME AsyncThread \/ HandshakeStep, ~\E a : Abort(a) PROVE twice => twice'
  BY <1>3
     DEF AsyncThread, HandshakeStep, RunShow, TakeCredentials, RunCredentials, NetInit, HandshakeFails,
         NetInitReturns, NetInitialized, SendCredentials, RunRequest, RunProcessUsers, RunContinue,
         RunDelete, RunSetUp, UpdateUsersList, history
<1>4. ASSUME NetThread, ~\E a : Abort(a) PROVE twice => twice'
  BY <1>4
     DEF NetThread, LoggedIn, OnLoggedIn, LogInRefused, RegisterResult, UsersFetched, InviteReceived,
         ErrorReceived, Disconnected, OnDisconnected, OnDisconnectedControls, OnDisconnectedPage,
         OnDisconnectedClean, ListenAgain, ListenNowhere, history
<1>5. ASSUME Clean \/ ServerAnswers \/ ServerFails \/ UNCHANGED vars, ~\E a : Abort(a) PROVE twice => twice'
  BY <1>5 DEF Clean, ServerAnswers, ServerFails, vars, history
<1>6. QED
  BY <1>1, <1>2, <1>3, <1>4, <1>5 DEF Next, Rest

LEMMA GoneStays ==
  ASSUME [Next]_vars, ~Restart
  PROVE  life = "gone" => life' = "gone"
<1> SUFFICES ASSUME life = "gone" PROVE life' = "gone"
  OBVIOUS
<1>1. ~Alive
  BY DEF Alive
<1>2. ASSUME UserActs PROVE FALSE
  BY <1>1, <1>2
     DEF UserActs, CredentialsEntered, PageQueried, AutoLoggingInChanged, UserChosen, PageChanged,
         ConversationLeft, UpdateClicked, ShutdownRequested, BroadcastRequested, Quit, Acts
<1>3. ASSUME AsyncThread \/ HandshakeStep PROVE FALSE
  BY <1>1, <1>3
     DEF AsyncThread, HandshakeStep, RunShow, RunCredentials, NetInit, HandshakeFails,
         NetInitReturns, NetInitialized, SendCredentials, RunRequest, RunProcessUsers, RunContinue,
         RunDelete, RunSetUp, Runs
<1>4. ASSUME NetThread PROVE FALSE
  BY <1>1, <1>4
     DEF NetThread, LoggedIn, OnLoggedIn, LogInRefused, RegisterResult, UsersFetched, InviteReceived,
         ErrorReceived, Disconnected, OnDisconnected, OnDisconnectedControls, OnDisconnectedPage,
         OnDisconnectedClean, ListenAgain, ListenNowhere, Takes
<1>5. ASSUME Clean \/ ServerAnswers \/ ServerFails PROVE FALSE
  BY <1>1, <1>5 DEF Clean, ServerAnswers, ServerFails
<1>6. ASSUME UNCHANGED vars PROVE life' = "gone"
  BY <1>6 DEF vars
<1>7. QED
  BY <1>2, <1>3, <1>4, <1>5, <1>6 DEF Next, Rest

WiredInv == Base /\ (early \/ Wired)

LEMMA NextWired == WiredInv /\ [Next]_vars => WiredInv'
<1> SUFFICES ASSUME WiredInv, [Next]_vars, ~early' PROVE Wired'
  BY NextBase DEF WiredInv
<1>1. Base'
  BY NextBase DEF WiredInv
<1>2. CASE Restart
  BY <1>1, <1>2, RestartWired DEF WiredInv, Wired
<1>3. CASE ~Restart
  <2>1. Wired
    BY <1>3, EarlyStays DEF WiredInv
  <2>2. QED
    BY <1>1, <2>1, UserWired, AsyncWired, NetWired, OtherWired DEF Wired, Next
<1>4. QED
  BY <1>2, <1>3

(* logic.c and net.c agree on whether there is a connection whenever none  *)
(* is being made or taken down: what logic.c asks for after it has looked  *)
(* at netInitialized finds net.c's this, for any number of connections     *)
(* lost, refused and made again, over any number of starts; until one is   *)
(* found closed before logic.c has noted that it was made.                 *)
THEOREM ModulesAgreeAlways == Spec => []ModulesAgree
<1>1. Init => WiredInv
  BY InitWired DEF WiredInv, Wired
<1>2. WiredInv /\ [Next]_vars => WiredInv'
  BY NextWired
<1>3. WiredInv => ModulesAgree
  <2> SUFFICES ASSUME WiredInv, Alive, async = "idle", net = "idle", ~early PROVE netInitialized = netThis
    BY DEF ModulesAgree
  <2>1. netInitialized <=> netThis
    BY DEF WiredInv, Wired, ConnInv, Alive, Exchanging, Goodbye
  <2>2. netInitialized \in BOOLEAN /\ netThis \in BOOLEAN
    BY TypedMeans DEF WiredInv, Base, Typed, LogicTypes, NetTypes
  <2>3. QED
    BY <2>1, <2>2
<1>4. QED
  BY <1>1, <1>2, <1>3, PTL DEF Spec

(* The state that makes a connection pass for secured: it was set by the   *)
(* last step of the key exchange, or found in memory.                      *)
MayPass == Secured \/ leftOver = "established"
SecureInv ==
  /\ netThis /\ async \in {"handshake", "compare"} /\ netState = "established" => MayPass
  /\ netThis /\ async \in {"secured", "credentials"} => MayPass

LEMMA SecureNext == ASSUME Base, SecureInv, [Next]_vars PROVE SecureInv'
<1>1. ASSUME UNCHANGED <<async, progress>>,
             netState' \in {netState, "authenticated", "finishedWithError"},
             ~netThis' \/ UNCHANGED <<netThis, leftOver>>
      PROVE  SecureInv'
  BY <1>1 DEF SecureInv, MayPass, Secured
<1>2. ASSUME NEW a, Abort(a) PROVE SecureInv'
  BY <1>2 DEF Abort, SecureInv, MayPass, Secured, netc
<1>3. ASSUME UserActs, ~\E a : Abort(a) PROVE SecureInv'
  <2>1. CASE Restart
    BY <2>1 DEF Restart, SecureInv
  <2>2. CASE ~Restart
    <3>1. UNCHANGED <<async, progress, netState, netThis, leftOver>>
      BY <1>3, <2>2
         DEF UserActs, CredentialsEntered, TakeCredentials, PageQueried, AutoLoggingInChanged, UserChosen,
             PageChanged, ConversationLeft, UpdateClicked, ShutdownRequested, BroadcastRequested, Quit, netc
    <3>2. QED
      BY <1>1, <3>1
  <2>3. QED
    BY <2>1, <2>2
<1>4. ASSUME NetInit, ~\E a : Abort(a) PROVE SecureInv'
  BY <1>4 DEF NetInit, SecureInv, MayPass
<1>5. ASSUME HandshakeStep \/ HandshakeFails PROVE SecureInv'
  <2>1. /\ async = "handshake" /\ async' \in {"handshake", "compare"} /\ UNCHANGED <<netThis, leftOver>>
    BY <1>5 DEF HandshakeStep, HandshakeFails, StopWaiting, TimesOut, netc
  <2>2. CASE HandshakeFails
    BY <2>1, <2>2 DEF HandshakeFails, netc, SecureInv, MayPass, Secured
  <2>3. CASE HandshakeStep
    <3>1. progress \in 0..3 /\ progress' = progress + 1 /\ netState' = Handshake[progress']
      BY <2>1, <2>3, TypedMeans, Tuples DEF HandshakeStep, Base, Typed, NetTypes, JobInv
    <3>2. progress' \in 1..4 /\ (netState' = "established" => progress' = 4)
      BY <3>1 DEF Handshake
    <3>3. QED
      BY <2>1, <3>2, Tuples DEF SecureInv, MayPass, Secured
  <2>4. QED
    BY <1>5, <2>2, <2>3
<1>6. ASSUME NetInitReturns \/ NetInitialized, ~\E a : Abort(a) PROVE SecureInv'
  BY <1>6
     DEF NetInitReturns, NetInitialized, SecureInv, MayPass, Secured, Established, StateEstablished,
         GivesUp, CleanUp, netc
<1>7. ASSUME RunCredentials \/ SendCredentials, ~\E a : Abort(a) PROVE SecureInv'
  <2>1. async' \in {"idle", "netInit"}
    BY <1>7 DEF RunCredentials, SendCredentials, Runs
  <2>2. QED
    BY <2>1 DEF SecureInv
<1>8. ASSUME \/ RunShow \/ RunProcessUsers \/ RunContinue \/ RunDelete
             \/ RunRequest("fetchUsers", "netFetchUsers") \/ RunRequest("shutdown", "netShutdownServer")
             \/ RunSetUp("start", "netCreateConversation")
             \/ RunSetUp("reply", "netReplyToConversationSetUpInvite"),
             ~\E a : Abort(a)
      PROVE  SecureInv'
  <2>1. UNCHANGED <<async, progress, netState, netThis, leftOver>>
    BY <1>8 DEF RunShow, RunProcessUsers, RunContinue, RunDelete, RunRequest, RunSetUp, TakeCredentials, netc
  <2>2. QED
    BY <1>1, <2>1
<1>9. ASSUME NetThread, ~\E a : Abort(a) PROVE SecureInv'
  <2>1. UNCHANGED <<async, progress>> /\ netState' \in {netState, "authenticated", "finishedWithError"}
    BY <1>9
       DEF NetThread, LoggedIn, OnLoggedIn, LogInRefused, RegisterResult, UsersFetched, InviteReceived,
           ErrorReceived, Disconnected, OnDisconnected, OnDisconnectedControls, OnDisconnectedPage,
           OnDisconnectedClean, ListenAgain, ListenNowhere, netc
  <2>2. ~netThis' \/ UNCHANGED <<netThis, leftOver>>
    BY <1>9
       DEF NetThread, LoggedIn, OnLoggedIn, LogInRefused, RegisterResult, UsersFetched, InviteReceived,
           ErrorReceived, Disconnected, OnDisconnected, OnDisconnectedControls, OnDisconnectedPage,
           OnDisconnectedClean, CleanUp, ListenAgain, ListenNowhere, netc
  <2>3. QED
    BY <1>1, <2>1, <2>2
<1>10. ASSUME Clean, ~\E a : Abort(a) PROVE SecureInv'
  BY <1>10 DEF Clean, SecureInv
<1>11. ASSUME ServerAnswers \/ ServerFails \/ UNCHANGED vars PROVE SecureInv'
  <2>1. UNCHANGED <<async, progress, netState, netThis, leftOver>>
    BY <1>11 DEF ServerAnswers, ServerFails, vars, netc
  <2>2. QED
    BY <1>1, <2>1
<1>12. QED
  BY <1>2, <1>3, <1>4, <1>5, <1>6, <1>7, <1>8, <1>9, <1>10, <1>11 DEF Next, AsyncThread, Rest

(* A connection that netInit takes for secured went through the whole key  *)
(* exchange, or its memory held the state of an earlier one (net.c:339):   *)
(* that is the one way by which credentials get sent unencrypted.          *)
THEOREM SecuredOrLeftOver == Spec => []SecuredUnlessLeftOver
<1>1. Init => Base /\ SecureInv
  BY InitBase DEF Init, SecureInv
<1>2. Base /\ SecureInv /\ [Next]_vars => (Base /\ SecureInv)'
  BY NextBase, SecureNext
<1>3. Base /\ SecureInv => SecuredUnlessLeftOver
  BY DEF SecureInv, MayPass, SecuredUnlessLeftOver
<1>4. QED
  BY <1>1, <1>2, <1>3, PTL DEF Spec

-----------------------------------------------------------------------------
(* One attempt after another: the database stays that of who logs in.      *)

Early == {"fetchUsers", "processUsers"}

(* The attempt that has its connection made found the database its own. *)
KeyInv == async # "idle" /\ job.op = "logIn" => databaseInitialized /\ dbKey = job.who

(* While an attempt is under way there is no connection yet, and nothing   *)
(* is queued that belongs to a session, unless it was queued late.         *)
OnceInv ==
  ~twice /\ life # "gone" =>
    /\ Connecting \/ Ops(jobs) \cap Attempts # {} => ~netInitialized
    /\ Connecting => Ops(jobs) \cap Attempts = {}
    /\ AttemptsAfter(jobs, Attempts)
    /\ ~late => (Connecting => Ops(jobs) \cap Early = {}) /\ AttemptsAfter(jobs, Early)

OwnerInv ==
  ~twice /\ life # "gone" =>
    /\ netInitialized /\ loggedInAs # None => databaseInitialized /\ dbKey = loggedInAs
    /\ \A q \in Range(toServer) : q.kind = "logIn" => databaseInitialized /\ dbKey = q.who

Owned == Wired /\ KeyInv /\ OnceInv /\ OwnerInv

LEMMA QueueTyped == Wired => jobs \in Seq(Jobs) /\ Linked
BY TypedMeans DEF Wired, Base, Typed, JobTypes, LinkTypes, Linked

(* Steps that neither make a connection nor change the queue... *)
LEMMA OnceKept ==
  ASSUME OnceInv, life # "gone", twice' = twice, late => late', netInitialized' => netInitialized,
         Connecting' => Connecting, jobs' = jobs
  PROVE  OnceInv'
BY DEF OnceInv

(* ...that queue another job than an attempt... *)
LEMMA OncePushed ==
  ASSUME Wired, OnceInv, life # "gone", twice' = twice, late => late', netInitialized' => netInitialized,
         Connecting' => Connecting, NEW j \in Jobs, Push(j), j.op \notin Attempts,
         j.op \in Early => netInitialized \/ late'
  PROVE  OnceInv'
<1> SUFFICES ASSUME ~twice PROVE OnceInv'
  BY DEF OnceInv
<1>1. /\ Ops(jobs') \subseteq Ops(jobs) \cup {j.op}
      /\ AttemptsAfter(jobs, Attempts) => AttemptsAfter(jobs', Attempts)
      /\ AttemptsAfter(jobs, Early) /\ (j.op \in Early => Ops(jobs) \cap Attempts = {})
         => AttemptsAfter(jobs', Early)
  BY QueueTyped, Pushed
<1>2. j.op \in Early /\ ~late' => Ops(jobs) \cap Attempts = {} /\ ~Connecting
  BY DEF OnceInv
<1>3. AttemptsAfter(jobs', Attempts) /\ (~late' => AttemptsAfter(jobs', Early))
  BY <1>1, <1>2 DEF OnceInv
<1>4. Ops(jobs') \cap Attempts \subseteq Ops(jobs) \cap Attempts
  BY <1>1
<1>5. Connecting' => Ops(jobs') \cap Attempts = {} /\ (~late' => Ops(jobs') \cap Early = {})
  BY <1>1, <1>2 DEF OnceInv
<1>6. Connecting' \/ Ops(jobs') \cap Attempts # {} => ~netInitialized'
  BY <1>4 DEF OnceInv
<1>7. QED
  BY <1>3, <1>5, <1>6 DEF OnceInv

(* ...or take the next one... *)
LEMMA OncePopped ==
  ASSUME Wired, OnceInv, life # "gone", twice' = twice, late => late', netInitialized' => netInitialized,
         jobs # <<>>, jobs' = Tail(jobs), Connecting' => Connecting \/ Head(jobs).op \in Attempts
  PROVE  OnceInv'
<1> SUFFICES ASSUME ~twice PROVE OnceInv'
  BY DEF OnceInv
<1>1. /\ Ops(jobs) = {Head(jobs).op} \cup Ops(jobs')
      /\ \A B : AttemptsAfter(jobs, B) =>
           /\ AttemptsAfter(jobs', B)
           /\ Head(jobs).op \in Attempts => Ops(jobs') \cap B = {}
  BY QueueTyped, Popped
<1>2. /\ AttemptsAfter(jobs', Attempts) /\ (~late' => AttemptsAfter(jobs', Early))
      /\ Head(jobs).op \in Attempts => Ops(jobs') \cap Attempts = {}
      /\ Head(jobs).op \in Attempts /\ ~late' => Ops(jobs') \cap Early = {}
  BY <1>1 DEF OnceInv
<1>3. Connecting' => Ops(jobs') \cap Attempts = {} /\ (~late' => Ops(jobs') \cap Early = {})
  BY <1>1, <1>2 DEF OnceInv
<1>4. Connecting' \/ Ops(jobs') \cap Attempts # {} => ~netInitialized'
  BY <1>1 DEF OnceInv
<1>5. QED
  BY <1>2, <1>3, <1>4 DEF OnceInv

(* ...which has the list of users updated. *)
LEMMA OnceUpdated ==
  ASSUME Wired, OnceInv, life # "gone", UNCHANGED <<twice, netInitialized, async>>, late' = (late \/ ~netInitialized),
         async = "idle", jobs # <<>>, jobs' = Append(Tail(jobs), Job("fetchUsers", None))
  PROVE  OnceInv'
<1> SUFFICES ASSUME ~twice PROVE OnceInv'
  BY DEF OnceInv
<1>1. PICK rest \in Seq(Jobs) :
        /\ rest = Tail(jobs) /\ Ops(jobs) = {Head(jobs).op} \cup Ops(rest)
        /\ \A B : AttemptsAfter(jobs, B) => AttemptsAfter(rest, B)
  BY QueueTyped, Popped
<1>2. PICK j \in Jobs : j = Job("fetchUsers", None) /\ j.op = "fetchUsers"
  BY JobsTyped
<1>3. jobs' = Append(rest, j) /\ j.op \notin Attempts
  BY <1>1, <1>2 DEF Attempts
<1>4. Ops(jobs') = Ops(rest) \cup {j.op}
  <2>1. Range(jobs') = Range(rest) \cup {j}
    BY <1>3, OneMore
  <2>2. QED
    BY <2>1 DEF Ops
<1>5. ~Connecting' /\ (Ops(jobs') \cap Attempts # {} => ~netInitialized')
  BY <1>1, <1>3, <1>4 DEF OnceInv, Connecting
<1>6. AttemptsAfter(jobs', Attempts)
  BY <1>1, <1>3, AfterAppend DEF OnceInv
<1>7. ASSUME ~late' PROVE AttemptsAfter(jobs', Early)
  <2>1. Ops(rest) \cap Attempts = {} /\ AttemptsAfter(rest, Early)
    BY <1>1, <1>7 DEF OnceInv
  <2>2. QED
    BY <1>3, <2>1, AfterAppend
<1>8. QED
  BY <1>5, <1>6, <1>7 DEF OnceInv

(* An attempt is taken: the first, or it is the second at once. *)
LEMMA OnceTaken ==
  ASSUME OnceInv, NEW op \in Attempts, NEW who \in Credentials, NEW rest \in Seq(Jobs),
         life # "gone", TakeCredentials(op, who, rest),
         rest = jobs \/ rest = <<>>
  PROVE  OnceInv'
<1>1. CASE Abort("netInitialized")
  BY <1>1 DEF Abort, OnceInv, Connecting, Ops, logic, history
<1>2. CASE ~Abort("netInitialized")
  <2>1. /\ jobs' = Append(rest, Job(op, who)) \/ jobs' = rest
        /\ UNCHANGED <<async, netInitialized, late>> /\ ~netInitialized
        /\ twice' = (twice \/ UnderWay(rest))
    BY <1>2 DEF TakeCredentials
  <2>2. SUFFICES ASSUME ~twice' PROVE OnceInv'
    BY DEF OnceInv
  <2>3. ~twice /\ ~Connecting /\ Ops(rest) \cap Attempts = {}
    BY <2>1, <2>2, UnderWayOps
  <2>4. AttemptsAfter(rest, Attempts) /\ (~late => AttemptsAfter(rest, Early))
    BY <2>3, AfterNothing DEF OnceInv
  <2>5. Job(op, who) \in Jobs /\ Job(op, who).op \notin Early
    BY JobsTyped DEF Attempts, Early
  <2>6. /\ AttemptsAfter(Append(rest, Job(op, who)), Attempts)
        /\ ~late => AttemptsAfter(Append(rest, Job(op, who)), Early)
    BY <2>3, <2>4, <2>5, AfterAppend
  <2>7. ~Connecting' /\ ~netInitialized'
    BY <2>1, <2>3 DEF Connecting
  <2>8. AttemptsAfter(jobs', Attempts) /\ (~late' => AttemptsAfter(jobs', Early))
    BY <2>1, <2>4, <2>6
  <2>9. QED
    BY <2>7, <2>8 DEF OnceInv
<1>3. QED
  BY <1>1, <1>2

LEMMA RestartOnce == ASSUME Base, Restart PROVE OnceInv'
<1>1. /\ jobs' = <<Job("show", None)>> /\ Ops(jobs') = {"show"} /\ ~netInitialized'
      /\ async' = "idle"
  BY JobsTyped DEF Restart, Base, GoneInv
<1>2. AttemptsAfter(jobs', Attempts) /\ AttemptsAfter(jobs', Early)
  BY <1>1 DEF AttemptsAfter
<1>3. QED
  BY <1>1, <1>2 DEF OnceInv, Connecting, Attempts

LEMMA OnceNext == ASSUME Wired, OnceInv, [Next]_vars PROVE OnceInv'
<1>1. ASSUME NEW a, Abort(a) PROVE OnceInv'
  BY <1>1 DEF Abort, OnceInv, Connecting, Ops, logic, history
<1>2. ASSUME NEW who \in Credentials, CredentialsEntered(who) PROVE OnceInv'
  <2>1. page \in Attempts /\ TakeCredentials(page, who, jobs) /\ life # "gone"
    BY <1>2 DEF CredentialsEntered, Attempts, Alive
  <2>2. QED
    BY <2>1, QueueTyped, OnceTaken
<1>3. ASSUME PageQueried \/ AutoLoggingInChanged \/ PageChanged \/ ConversationLeft \/ Quit,
             ~Abort("databaseInitialized")
      PROVE  OnceInv'
  <2>1. life # "gone" /\ UNCHANGED <<twice, late, netInitialized, async, jobs>>
    BY <1>3 DEF PageQueried, AutoLoggingInChanged, PageChanged, ConversationLeft, Quit, Acts, Alive, logic, history
  <2>2. QED
    BY <2>1, OnceKept DEF Connecting
<1>4. ASSUME UserChosen \/ ShutdownRequested PROVE OnceInv'
  <2>1. PICK op \in {"continue", "start", "delete", "shutdown"} : Push(Job(op, None)) \/ jobs' = jobs
    <3>1. CASE UserChosen
      <4>1. (\E op \in {"continue", "start", "delete"} : Push(Job(op, None))) \/ jobs' = jobs
        BY <3>1 DEF UserChosen
      <4>2. QED
        BY <4>1
    <3>2. CASE ShutdownRequested
      <4>1. Push(Job("shutdown", None))
        BY <3>2 DEF ShutdownRequested
      <4>2. QED
        BY <4>1
    <3>3. QED
      BY <1>4, <3>1, <3>2
  <2>2. life # "gone" /\ UNCHANGED <<twice, netInitialized, async>> /\ (late => late')
    <3>1. life # "gone" /\ UNCHANGED <<twice, netInitialized, async>>
      BY <1>4 DEF UserChosen, ShutdownRequested, Acts, Alive, logic, history
    <3>2. CASE UserChosen
      <4>1. late' = (late \/ ~netInitialized)
        BY <3>2 DEF UserChosen
      <4>2. QED
        BY <3>1, <4>1
    <3>3. CASE ShutdownRequested
      BY <3>1, <3>3 DEF ShutdownRequested, history
    <3>4. QED
      BY <1>4, <3>2, <3>3
  <2>3. Job(op, None) \in Jobs /\ Job(op, None).op \notin Attempts \cup Early
    BY JobsTyped DEF Attempts, Early
  <2>4. CASE Push(Job(op, None))
    <3>1. PICK j \in Jobs : j = Job(op, None) /\ j.op \notin Attempts \cup Early
      BY <2>3
    <3>2. Push(j)
      BY <2>4, <3>1
    <3>3. QED
      BY <2>2, <3>1, <3>2, OncePushed DEF Connecting
  <2>5. CASE jobs' = jobs
    BY <2>2, <2>5, OnceKept DEF Connecting
  <2>6. QED
    BY <2>1, <2>4, <2>5
<1>22. ASSUME UpdateClicked, ~Abort("databaseInitialized") PROVE OnceInv'
  <2>1. Push(Job("fetchUsers", None)) /\ late' = (late \/ ~netInitialized)
    BY <1>22 DEF UpdateClicked
  <2>2. life # "gone" /\ UNCHANGED <<twice, netInitialized, async>>
    BY <1>22 DEF UpdateClicked, Acts, Alive, logic
  <2>3. Job("fetchUsers", None) \in Jobs /\ Job("fetchUsers", None).op \notin Attempts
    BY JobsTyped DEF Attempts
  <2>4. QED
    BY <2>1, <2>2, <2>3, OncePushed DEF Connecting
<1>5. ASSUME BroadcastRequested PROVE OnceInv'
  <2>1. CASE Abort("netSendBroadcast")
    BY <1>1, <2>1
  <2>2. CASE ~Abort("netSendBroadcast")
    <3>1. life # "gone" /\ UNCHANGED <<twice, late, netInitialized, async, jobs>>
      BY <1>5, <2>2 DEF BroadcastRequested, Alive, logic, history
    <3>2. QED
      BY <3>1, OnceKept DEF Connecting
  <2>3. QED
    BY <2>1, <2>2
<1>6. ASSUME Restart PROVE OnceInv'
  BY <1>6, RestartOnce DEF Wired
<1>7. ASSUME RunShow PROVE OnceInv'
  <2>1. /\ life # "gone" /\ jobs # <<>> /\ Head(jobs).op = "show"
        /\ async = "idle"
    BY <1>7 DEF RunShow, Runs, Alive
  <2>2. Starting
    BY <2>1, QueueTyped, Popped DEF Wired, Base, JobInv
  <2>3. Tail(jobs) = <<>> /\ <<>> \in Seq(Jobs)
    BY <2>2 DEF Starting
  <2>4. CASE autoLoggingIn
    <3>1. TakeCredentials("logIn", saved, <<>>) /\ "logIn" \in Attempts
      BY <1>7, <2>3, <2>4 DEF RunShow, Attempts
    <3>2. saved \in Credentials
      BY <2>2, <2>4, TypedMeans DEF Starting, Wired, Base, Typed, DiskTypes
    <3>3. QED
      BY <2>1, <2>3, <3>1, <3>2, OnceTaken
  <2>5. CASE ~autoLoggingIn
    <3>1. jobs' = Tail(jobs) /\ UNCHANGED <<twice, late, netInitialized, async>>
      BY <1>7, <2>5 DEF RunShow, Pop, logic, history
    <3>2. QED
      BY <2>1, <3>1, OncePopped DEF Connecting
  <2>6. QED
    BY <2>4, <2>5
<1>8. ASSUME RunCredentials PROVE OnceInv'
  <2>1. /\ life # "gone" /\ jobs # <<>> /\ jobs' = Tail(jobs) /\ Head(jobs).op \in Attempts
        /\ UNCHANGED <<twice, late, netInitialized>>
    BY <1>8 DEF RunCredentials, Runs, Pop, Alive, Attempts, history
  <2>2. QED
    BY <2>1, OncePopped
<1>9. ASSUME NetInit PROVE OnceInv'
  <2>1. CASE Abort("netThis")
    BY <1>1, <2>1
  <2>2. CASE ~Abort("netThis")
    <3>1. /\ life # "gone" /\ async = "netInit" /\ UNCHANGED <<twice, late, jobs>>
          /\ netInitialized' = netInitialized \/ ~netInitialized'
      BY <1>9, <2>2 DEF NetInit, Alive, logic, history
    <3>2. QED
      BY <3>1, OnceKept DEF Connecting
  <2>3. QED
    BY <2>1, <2>2
<1>10. ASSUME HandshakeStep \/ HandshakeFails PROVE OnceInv'
  <2>1. /\ life # "gone" /\ async = "handshake" /\ UNCHANGED <<twice, late, netInitialized, jobs>>
    BY <1>10 DEF HandshakeStep, HandshakeFails, Alive, logic, history
  <2>2. QED
    BY <2>1, OnceKept DEF Connecting
<1>11. ASSUME NetInitReturns \/ NetInitialized, ~Abort("netInit") PROVE OnceInv'
  <2>1. /\ life # "gone" /\ Connecting /\ async' \in {"idle", "secured", "credentials"}
        /\ async' = "secured" => netInitialized' = netInitialized
        /\ UNCHANGED <<twice, late, jobs>>
    BY <1>11 DEF NetInitReturns, NetInitialized, Alive, Connecting, logic, history
  <2>2. SUFFICES ASSUME ~twice PROVE OnceInv'
    BY <2>1 DEF OnceInv
  <2>3. /\ Ops(jobs) \cap Attempts = {} /\ AttemptsAfter(jobs, Attempts) /\ ~netInitialized
        /\ ~late => Ops(jobs) \cap Early = {} /\ AttemptsAfter(jobs, Early)
    BY <2>1, <2>2 DEF OnceInv
  <2>4. Connecting' => ~netInitialized'
    BY <2>1, <2>3 DEF Connecting
  <2>5. QED
    BY <2>1, <2>3, <2>4 DEF OnceInv
<1>12. ASSUME SendCredentials PROVE OnceInv'
  <2>1. CASE Abort("netLogIn")
    BY <1>1, <2>1
  <2>2. CASE ~Abort("netLogIn")
    <3>1. life # "gone" /\ async' = "idle" /\ UNCHANGED <<twice, late, netInitialized, jobs>>
      BY <1>12, <2>2 DEF SendCredentials, Alive, logic, history
    <3>2. QED
      BY <3>1, OnceKept DEF Connecting
  <2>3. QED
    BY <2>1, <2>2
<1>13. ASSUME NEW op \in {"fetchUsers", "shutdown"}, NEW a, RunRequest(op, a) PROVE OnceInv'
  <2>1. CASE Abort(a)
    BY <1>1, <2>1
  <2>2. CASE ~Abort(a)
    <3>1. /\ life # "gone" /\ jobs # <<>> /\ jobs' = Tail(jobs)
          /\ UNCHANGED <<twice, late, netInitialized, async>>
      BY <1>13, <2>2 DEF RunRequest, Runs, Pop, Alive, logic, history
    <3>2. QED
      BY <3>1, OncePopped DEF Connecting
  <2>3. QED
    BY <2>1, <2>2
<1>14. ASSUME RunProcessUsers \/ RunContinue, ~\E a : Abort(a) PROVE OnceInv'
  <2>1. /\ life # "gone" /\ jobs # <<>> /\ jobs' = Tail(jobs) /\ (late => late')
        /\ UNCHANGED <<twice, netInitialized, async>>
    BY <1>14 DEF RunProcessUsers, RunContinue, Runs, Pop, Alive, logic
  <2>2. QED
    BY <2>1, OncePopped DEF Connecting
<1>23. ASSUME NEW op, NEW a, RunSetUp(op, a) \/ RunDelete, ~\E x : Abort(x) PROVE OnceInv'
  <2>1. /\ life # "gone" /\ jobs # <<>> /\ async = "idle" /\ UNCHANGED <<twice, netInitialized, async>>
    BY <1>23 DEF RunSetUp, RunDelete, Runs, Alive, logic
  <2>2. \/ jobs' = Tail(jobs) /\ late' = late
        \/ jobs' = Append(Tail(jobs), Job("fetchUsers", None)) /\ late' = (late \/ ~netInitialized)
    BY <1>23 DEF RunSetUp, RunDelete, UpdateUsersList, Pop
  <2>3. QED
    BY <2>1, <2>2, OncePopped, OnceUpdated DEF Connecting
<1>15. ASSUME OnLoggedIn \/ UsersFetched PROVE OnceInv'
  <2>1. PICK op \in Early : Push(Job(op, None))
    BY <1>15 DEF OnLoggedIn, UsersFetched, Early
  <2>2. life # "gone" /\ netInitialized /\ UNCHANGED <<twice, late, netInitialized, async>>
    BY <1>15 DEF OnLoggedIn, UsersFetched, Takes, Alive, Wired, ConnInv, logic, history
  <2>3. Job(op, None) \in Jobs /\ Job(op, None).op \notin Attempts
    BY JobsTyped DEF Attempts, Early
  <2>4. QED
    BY <2>1, <2>2, <2>3, OncePushed DEF Connecting
<1>24. ASSUME InviteReceived PROVE OnceInv'
  <2>1. Push(Job("reply", None)) /\ life # "gone" /\ UNCHANGED <<twice, late, netInitialized, async>>
    BY <1>24 DEF InviteReceived, Takes, Alive, logic, history
  <2>2. Job("reply", None) \in Jobs /\ Job("reply", None).op \notin Attempts \cup Early
    BY JobsTyped DEF Attempts, Early
  <2>3. QED
    BY <2>1, <2>2, OncePushed DEF Connecting
<1>16. ASSUME \/ LoggedIn \/ LogInRefused \/ RegisterResult \/ ErrorReceived
              \/ Disconnected \/ OnDisconnected \/ OnDisconnectedControls \/ OnDisconnectedPage
              \/ OnDisconnectedClean
       PROVE  OnceInv'
  <2>1. /\ life # "gone" /\ UNCHANGED <<twice, late, async, jobs>>
        /\ netInitialized' = netInitialized \/ ~netInitialized'
    BY <1>16
       DEF LoggedIn, LogInRefused, RegisterResult, ErrorReceived, Disconnected, OnDisconnected,
           OnDisconnectedControls, OnDisconnectedPage, OnDisconnectedClean, Takes, Alive, logic, history
  <2>2. QED
    BY <2>1, OnceKept DEF Connecting
<1>17. ASSUME ListenAgain \/ ListenNowhere, ~\E a : Abort(a) PROVE OnceInv'
  <2>1. /\ life # "gone" /\ UNCHANGED <<twice, late, async, jobs>>
        /\ netInitialized' = netInitialized \/ ~netInitialized'
    BY <1>17 DEF ListenAgain, ListenNowhere, Alive, logic, history
  <2>2. QED
    BY <2>1, OnceKept DEF Connecting
<1>18. ASSUME Clean PROVE OnceInv'
  <2>1. CASE \E a : Abort(a)
    BY <1>1, <2>1
  <2>2. CASE ~\E a : Abort(a)
    BY <1>18, <2>2 DEF Clean, OnceInv
  <2>3. QED
    BY <2>1, <2>2
<1>19. ASSUME ServerAnswers \/ ServerFails PROVE OnceInv'
  <2>1. life # "gone" /\ UNCHANGED <<twice, late, netInitialized, async, jobs>>
    BY <1>19 DEF ServerAnswers, ServerFails, Alive, logic, history
  <2>2. QED
    BY <2>1, OnceKept DEF Connecting
<1>20. ASSUME UNCHANGED vars PROVE OnceInv'
  BY <1>20 DEF vars, OnceInv, Connecting, Ops, logic, history
<1>21. QED
  BY <1>1, <1>2, <1>3, <1>4, <1>5, <1>6, <1>7, <1>8, <1>9, <1>10, <1>11, <1>12, <1>13, <1>14, <1>15, <1>16,
     <1>17, <1>18, <1>19, <1>20, <1>22, <1>23, <1>24
     DEF Next, UserActs, AsyncThread, NetThread, Rest

(* The key of an attempt under way: only the next attempt, and the end of  *)
(* the program, change what the database is open under.                    *)
LEMMA KeyNext == ASSUME Base, KeyInv, [Next]_vars PROVE KeyInv'
<1>1. ASSUME NEW a, Abort(a) PROVE KeyInv'
  BY <1>1 DEF Abort, KeyInv, disk, logic
<1>2. ASSUME UserActs PROVE KeyInv'
  <2>1. CASE Restart
    BY <2>1 DEF Restart, Base, GoneInv, KeyInv
  <2>2. CASE ~Restart
    <3>1. \/ \E a \in {"netInitialized", "netSendBroadcast", "databaseInitialized"} : Abort(a)
          \/ UNCHANGED <<async, job, databaseInitialized, dbKey>>
      BY <1>2, <2>2
         DEF UserActs, CredentialsEntered, TakeCredentials, PageQueried, AutoLoggingInChanged, UserChosen,
             PageChanged, ConversationLeft, UpdateClicked, ShutdownRequested, BroadcastRequested, Quit, disk, logic
    <3>2. QED
      BY <1>1, <3>1 DEF KeyInv
  <2>3. QED
    BY <2>1, <2>2
<1>3. ASSUME RunCredentials PROVE KeyInv'
  <2>1. CASE Head(jobs).op = "register"
    BY <1>3, <2>1 DEF RunCredentials, KeyInv
  <2>2. CASE Head(jobs).op # "register" /\ ~checkKey(Head(jobs).who)
    BY <1>3, <2>2 DEF RunCredentials, Runs, KeyInv
  <2>3. CASE Head(jobs).op # "register" /\ checkKey(Head(jobs).who)
    <3>1. /\ job' = Head(jobs) /\ databaseInitialized' = checkKey(Head(jobs).who)
          /\ dbKey' = IF dbKey = None THEN Head(jobs).who ELSE dbKey
      BY <1>3, <2>3 DEF RunCredentials
    <3>2. dbKey' = Head(jobs).who
      BY <2>3, <3>1 DEF checkKey, KeyMatches
    <3>3. databaseInitialized'
      BY <2>3, <3>1
    <3>4. QED
      BY <3>1, <3>2, <3>3 DEF KeyInv
  <2>4. QED
    BY <2>1, <2>2, <2>3
<1>4. ASSUME (AsyncThread /\ ~RunCredentials) \/ HandshakeStep, ~\E a : Abort(a) PROVE KeyInv'
  <2>1. /\ UNCHANGED <<job, databaseInitialized, dbKey>>
        /\ async' = "idle" \/ async' = async \/ async # "idle"
    BY <1>4
       DEF AsyncThread, HandshakeStep, RunShow, TakeCredentials, NetInit, HandshakeFails, NetInitReturns,
           NetInitialized, SendCredentials, RunRequest, RunProcessUsers, RunContinue, RunSetUp, RunDelete,
           disk, logic
  <2>2. QED
    BY <2>1 DEF KeyInv
<1>5. ASSUME NetThread \/ ServerAnswers \/ ServerFails \/ UNCHANGED vars, ~\E a : Abort(a) PROVE KeyInv'
  <2>1. UNCHANGED <<async, job, databaseInitialized, dbKey>>
    BY <1>5
       DEF NetThread, LoggedIn, OnLoggedIn, LogInRefused, RegisterResult, UsersFetched, InviteReceived,
           ErrorReceived, Disconnected, OnDisconnected, OnDisconnectedControls, OnDisconnectedPage,
           OnDisconnectedClean, ListenAgain, ListenNowhere, ServerAnswers, ServerFails, vars, disk, logic
  <2>2. QED
    BY <2>1 DEF KeyInv
<1>6. ASSUME Clean, ~\E a : Abort(a) PROVE KeyInv'
  <2>1. async = "idle" /\ async' = async
    BY <1>6 DEF Clean
  <2>2. QED
    BY <2>1 DEF KeyInv
<1>7. QED
  BY <1>1, <1>2, <1>3, <1>4, <1>5, <1>6 DEF Next, Rest

(* Steps that leave the database alone, and ask for no log in. *)
LEMMA OwnerKept ==
  ASSUME OwnerInv, life # "gone", twice => twice',
         netInitialized' => netInitialized, UNCHANGED <<loggedInAs, databaseInitialized, dbKey>>,
         \A q : q \in Range(toServer') => q \in Range(toServer) \/ q.kind # "logIn"
  PROVE  OwnerInv'
<1>1. SUFFICES ASSUME ~twice' PROVE OwnerInv'
  BY DEF OwnerInv
<1>3. (netInitialized /\ loggedInAs # None => databaseInitialized /\ dbKey = loggedInAs)'
  BY <1>1 DEF OwnerInv
<1>4. (\A q \in Range(toServer) : q.kind = "logIn" => databaseInitialized /\ dbKey = q.who)'
  BY <1>1 DEF OwnerInv
<1>5. QED
  BY <1>3, <1>4 DEF OwnerInv

(* With no connection nothing is asked of a server. *)
LEMMA NotAsked ==
  ASSUME Wired, life # "gone", ~netInitialized
  PROVE  toServer = <<>> /\ Range(toServer) = {}
<1>1. ~netThis \/ closing \/ Exchanging
  BY DEF Wired, ConnInv
<1>2. toServer = <<>>
  BY <1>1 DEF Wired, LinkInv
<1>3. QED
  BY <1>2, NothingIn

LEMMA RestartOwner == ASSUME Base, Restart PROVE OwnerInv'
<1>1. loggedInAs' = None /\ ~netInitialized' /\ toServer' = <<>>
  BY DEF Restart, Base, GoneInv, link
<1>2. Range(toServer') = {}
  BY <1>1, NothingIn
<1>3. QED
  BY <1>1, <1>2 DEF OwnerInv

LEMMA OwnerNext == ASSUME Wired, KeyInv, OnceInv, OwnerInv, [Next]_vars PROVE OwnerInv'
<1>0. Linked /\ jobs \in Seq(Jobs)
  BY QueueTyped
<1>1. ASSUME NEW a, Abort(a) PROVE OwnerInv'
  BY <1>1 DEF Abort, OwnerInv, Exchanging, link, disk, logic, netc, history
<1>2. ASSUME \/ \E who \in Credentials : CredentialsEntered(who)
             \/ PageQueried \/ AutoLoggingInChanged \/ UserChosen \/ PageChanged \/ ConversationLeft
             \/ UpdateClicked \/ ShutdownRequested \/ Quit \/ RunShow,
             ~\E a : Abort(a)
      PROVE  OwnerInv'
  <2>1. life # "gone" /\ UNCHANGED <<async, netInitialized, loggedInAs, databaseInitialized, dbKey, toServer>>
    BY <1>2
       DEF CredentialsEntered, TakeCredentials, PageQueried, AutoLoggingInChanged, UserChosen, PageChanged,
           ConversationLeft, UpdateClicked, ShutdownRequested, Quit, RunShow, Runs, Acts, Alive, link, disk,
           logic, netc
  <2>2. twice => twice'
    BY <1>2
       DEF CredentialsEntered, TakeCredentials, PageQueried, AutoLoggingInChanged, UserChosen, PageChanged,
           ConversationLeft, UpdateClicked, ShutdownRequested, Quit, RunShow, history
  <2>3. QED
    BY <2>1, <2>2, OwnerKept
<1>3. ASSUME BroadcastRequested PROVE OwnerInv'
  <2>1. CASE Abort("netSendBroadcast")
    BY <1>1, <2>1
  <2>2. CASE ~Abort("netSendBroadcast")
    <3>1. /\ life # "gone" /\ Send(Request("broadcast", None))
          /\ UNCHANGED <<twice, async, netInitialized, loggedInAs, databaseInitialized, dbKey>>
      BY <1>3, <2>2 DEF BroadcastRequested, Alive, disk, logic, netc, history
    <3>2. Request("broadcast", None) \in Requests /\ Request("broadcast", None).kind = "broadcast"
      BY RequestTypes DEF Wired, Base
    <3>3. Range(toServer') \subseteq Range(toServer) \cup {Request("broadcast", None)}
      BY <1>0, <3>1, <3>2, Sent, NothingIn DEF link
    <3>4. QED
      BY <3>1, <3>2, <3>3, OwnerKept DEF Exchanging
  <2>3. QED
    BY <2>1, <2>2
<1>4. ASSUME Restart PROVE OwnerInv'
  BY <1>4, RestartOwner DEF Wired
<1>5. ASSUME RunCredentials PROVE OwnerInv'
  <2>1. /\ life # "gone" /\ jobs # <<>> /\ Head(jobs).op \in Attempts
        /\ async = "idle" /\ async' \in {"idle", "netInit"}
        /\ UNCHANGED <<twice, toServer, netInitialized, loggedInAs>>
    BY <1>5 DEF RunCredentials, Runs, Alive, Attempts, link, netc, history
  <2>2. SUFFICES ASSUME ~twice PROVE OwnerInv'
    BY <2>1 DEF OwnerInv
  <2>3. ~netInitialized
    <3>1. Head(jobs).op \in Ops(jobs)
      BY <1>0, <2>1, Popped
    <3>2. QED
      BY <2>1, <2>2, <3>1 DEF OnceInv
  <2>4. Range(toServer) = {}
    BY <2>1, <2>3, NotAsked
  <2>5. Range(toServer') = {} /\ ~netInitialized'
    BY <2>1, <2>3, <2>4
  <2>6. QED
    BY <2>5 DEF OwnerInv
<1>6. ASSUME NetInit PROVE OwnerInv'
  <2>1. CASE Abort("netThis")
    BY <1>1, <2>1
  <2>2. CASE ~Abort("netThis")
    <3>1. /\ life # "gone" /\ ~netThis /\ toServer' = toServer
          /\ \/ async' = "handshake" /\ loggedInAs' = None
             \/ async' = "idle" /\ ~netInitialized'
      BY <1>6, <2>2 DEF NetInit, Alive, link
    <3>2. Range(toServer') = {}
      BY <3>1, NothingIn DEF Wired, LinkInv
    <3>3. QED
      BY <3>1, <3>2 DEF OwnerInv, Exchanging
  <2>3. QED
    BY <2>1, <2>2
<1>7. ASSUME HandshakeStep \/ HandshakeFails PROVE OwnerInv'
  <2>1. /\ life # "gone" /\ Exchanging
        /\ UNCHANGED <<twice, toServer, netInitialized, loggedInAs, databaseInitialized, dbKey>>
    BY <1>7 DEF HandshakeStep, HandshakeFails, Alive, Exchanging, link, disk, logic, netc, history
  <2>2. QED
    BY <2>1, OwnerKept
<1>8. ASSUME NetInitReturns \/ NetInitialized, ~\E a : Abort(a) PROVE OwnerInv'
  <2>1. /\ life # "gone" /\ Exchanging
        /\ UNCHANGED <<twice, loggedInAs, databaseInitialized, dbKey>>
        /\ toServer' = toServer \/ toServer' = <<>>
    BY <1>8 DEF NetInitReturns, NetInitialized, Alive, Exchanging, GivesUp, CleanUp, link, disk, netc, logic, history
  <2>2. Range(toServer') = {} /\ loggedInAs = None
    BY <2>1, NothingIn DEF Wired, LinkInv
  <2>3. QED
    BY <2>1, <2>2 DEF OwnerInv
<1>9. ASSUME SendCredentials PROVE OwnerInv'
  <2>1. CASE Abort("netLogIn")
    BY <1>1, <2>1
  <2>2. CASE ~Abort("netLogIn")
    <3>1. /\ life # "gone" /\ async = "credentials" /\ async' = "idle" /\ Send(Request(job.op, job.who))
          /\ UNCHANGED <<twice, netInitialized, loggedInAs, databaseInitialized, dbKey>>
      BY <1>9, <2>2 DEF SendCredentials, Alive, disk, logic, netc, history
    <3>2. /\ Request(job.op, job.who) \in Requests /\ Request(job.op, job.who).kind = job.op
          /\ Request(job.op, job.who).who = job.who
      <4>1. job \in Jobs /\ job.op \in Attempts
        BY <3>1, TypedMeans DEF Wired, Base, Typed, JobTypes, JobInv
      <4>2. QED
        BY <4>1, RequestTypes, JobsOps DEF Wired, Base
    <3>3. Range(toServer') \subseteq Range(toServer) \cup {Request(job.op, job.who)}
      BY <1>0, <3>1, <3>2, Sent, NothingIn DEF link
    <3>4. job.op = "logIn" => databaseInitialized /\ dbKey = job.who
      BY <3>1 DEF KeyInv
    <3>5. SUFFICES ASSUME ~twice PROVE OwnerInv'
      BY <3>1 DEF OwnerInv
    <3>6. (\A q \in Range(toServer) : q.kind = "logIn" => databaseInitialized /\ dbKey = q.who)'
      BY <3>1, <3>2, <3>3, <3>4, <3>5 DEF OwnerInv
    <3>7. QED
      BY <3>1, <3>5, <3>6 DEF OwnerInv, Exchanging
  <2>3. QED
    BY <2>1, <2>2
<1>10. ASSUME NEW op \in {"fetchUsers", "shutdown"}, NEW a, RunRequest(op, a) PROVE OwnerInv'
  <2>1. CASE Abort(a)
    BY <1>1, <2>1
  <2>2. CASE ~Abort(a)
    <3>1. /\ life # "gone" /\ Send(Request(op, None))
          /\ UNCHANGED <<twice, async, netInitialized, loggedInAs, databaseInitialized, dbKey>>
      BY <1>10, <2>2 DEF RunRequest, Runs, Alive, disk, logic, netc, history
    <3>2. Request(op, None) \in Requests /\ Request(op, None).kind # "logIn"
      BY RequestTypes DEF Wired, Base
    <3>3. Range(toServer') \subseteq Range(toServer) \cup {Request(op, None)}
      BY <1>0, <3>1, <3>2, Sent, NothingIn DEF link
    <3>4. QED
      BY <3>1, <3>2, <3>3, OwnerKept DEF Exchanging
  <2>3. QED
    BY <2>1, <2>2
<1>11. ASSUME \/ RunProcessUsers \/ RunContinue \/ RunDelete
              \/ RunSetUp("start", "netCreateConversation")
              \/ RunSetUp("reply", "netReplyToConversationSetUpInvite"),
              ~\E a : Abort(a)
       PROVE  OwnerInv'
  <2>1. /\ life # "gone"
        /\ UNCHANGED <<twice, async, toServer, netInitialized, loggedInAs, databaseInitialized, dbKey>>
    BY <1>11 DEF RunProcessUsers, RunContinue, RunDelete, RunSetUp, Runs, Alive, link, disk, logic, netc
  <2>2. QED
    BY <2>1, OwnerKept
<1>12. ASSUME NetThread, ~\E a : Abort(a) PROVE OwnerInv'
  <2>1. /\ life # "gone" /\ UNCHANGED <<twice, async, loggedInAs, databaseInitialized, dbKey>>
        /\ netInitialized' = netInitialized \/ ~netInitialized'
        /\ toServer' = toServer \/ toServer' = <<>>
    BY <1>12
       DEF NetThread, LoggedIn, OnLoggedIn, LogInRefused, RegisterResult, UsersFetched, InviteReceived,
           ErrorReceived, Disconnected, OnDisconnected, OnDisconnectedControls, OnDisconnectedPage,
           OnDisconnectedClean, ListenAgain, ListenNowhere, Takes, CleanUp, Alive, link, disk, logic, netc, history
  <2>2. Range(toServer') \subseteq Range(toServer)
    BY <2>1, NothingIn
  <2>3. QED
    BY <2>1, <2>2, OwnerKept
<1>13. ASSUME Clean PROVE OwnerInv'
  <2>1. CASE \E a : Abort(a)
    BY <1>1, <2>1
  <2>2. CASE ~\E a : Abort(a)
    BY <1>13, <2>2 DEF Clean, OwnerInv
  <2>3. QED
    BY <2>1, <2>2
<1>14. ASSUME ServerAnswers PROVE OwnerInv'
  <2> DEFINE q == Head(toServer)
  <2>1. /\ life # "gone" /\ toServer # <<>> /\ toClient' = toClient \o Answers(q)
        /\ closing' = Contains(Answers(q), "closed")
        /\ toServer' = IF closing' THEN <<>> ELSE Tail(toServer)
        /\ loggedInAs' = IF Contains(Answers(q), "loggedIn") THEN q.who ELSE loggedInAs
        /\ UNCHANGED <<twice, async, netInitialized, databaseInitialized, dbKey>>
    BY <1>14 DEF ServerAnswers, Alive, disk, logic, history
  <2>2. /\ q \in Requests /\ q \in Range(toServer)
        /\ closing' => toServer' = <<>>
        /\ ~closing' => Range(toServer) = {q} \cup Range(toServer')
    BY <1>0, <2>1, ServerAnswered
  <2>3. Range(toServer') \subseteq Range(toServer)
    BY <2>2, NothingIn
  <2> HIDE DEF q
  <2>4. loggedInAs' = loggedInAs \/ (q.kind = "logIn" /\ loggedInAs' = q.who)
    <3>1. Contains(Answers(q), "loggedIn") => q.kind = "logIn"
      BY <2>2, Answered
    <3>2. QED
      BY <2>1, <3>1
  <2>5. SUFFICES ASSUME ~twice PROVE OwnerInv'
    BY <2>1 DEF OwnerInv
  <2>7. (netInitialized /\ loggedInAs # None => databaseInitialized /\ dbKey = loggedInAs)'
    BY <2>1, <2>2, <2>4, <2>5 DEF OwnerInv
  <2>8. (\A r \in Range(toServer) : r.kind = "logIn" => databaseInitialized /\ dbKey = r.who)'
    BY <2>1, <2>3, <2>5 DEF OwnerInv
  <2>9. QED
    BY <2>7, <2>8 DEF OwnerInv
<1>15. ASSUME ServerFails PROVE OwnerInv'
  <2>1. /\ life # "gone"
        /\ UNCHANGED <<twice, async, netInitialized, loggedInAs, databaseInitialized, dbKey>>
        /\ (toServer # <<>> /\ toServer' = Tail(toServer)) \/ toServer' = <<>> \/ toServer' = toServer
    BY <1>15 DEF ServerFails, Alive, disk, logic, netc, history
  <2>2. Range(toServer') \subseteq Range(toServer)
    BY <1>0, <2>1, OneLess, NothingIn DEF Linked
  <2>3. QED
    BY <2>1, <2>2, OwnerKept DEF Exchanging
<1>16. ASSUME UNCHANGED vars PROVE OwnerInv'
  BY <1>16 DEF vars, OwnerInv, Exchanging, link, disk, logic, netc, history
<1>17. QED
  BY <1>1, <1>2, <1>3, <1>4, <1>5, <1>6, <1>7, <1>8, <1>9, <1>10, <1>11, <1>12, <1>13, <1>14, <1>15, <1>16
     DEF Next, UserActs, AsyncThread, Rest

(* A connection that was found closed before it was noted: it is noted     *)
(* after all, no other is made, and nothing is asked of anyone.            *)
DoomInv ==
  early /\ ~twice /\ life # "gone" =>
    /\ toServer = <<>> /\ toClient = <<>> /\ loggedInAs = None
    /\ netThis => closing
    /\ Ops(jobs) \cap Attempts = {}
    /\ \/ async \in {"idle", "credentials"} /\ netInitialized
       \/ async \in {"compare", "secured"} /\ ~netInitialized
    /\ async = "compare" /\ netThis => netState = "established"

(* Steps that leave it, and may take the next job that is no attempt, or   *)
(* queue one.                                                              *)
LEMMA DoomKept ==
  ASSUME early, ~twice, life # "gone", DoomInv, UNCHANGED <<link, loggedInAs, netThis, netState, async, netInitialized>>,
         Ops(jobs') \cap Attempts = {}
  PROVE  DoomInv'
BY DEF DoomInv, link

LEMMA DoomPushed ==
  ASSUME jobs \in Seq(Jobs), Ops(jobs) \cap Attempts = {}, NEW j \in Jobs, j.op \notin Attempts,
         Push(j) \/ jobs' = jobs
  PROVE  Ops(jobs') \cap Attempts = {}
<1>1. CASE Push(j)
  <2>1. Ops(jobs') \subseteq Ops(jobs) \cup {j.op}
    BY <1>1, Pushed
  <2>2. QED
    BY <2>1
<1>2. CASE jobs' = jobs
  BY <1>2 DEF Ops
<1>3. QED
  BY <1>1, <1>2

LEMMA DoomNext ==
  ASSUME Base, early, DoomInv, [Next]_vars, ~Restart
  PROVE  DoomInv'
<1>1. SUFFICES ASSUME ~twice, ~twice', life # "gone" PROVE DoomInv'
  <2>1. twice => twice' \/ life' = "gone"
    BY TwiceStays
  <2>2. life = "gone" => life' = "gone"
    BY GoneStays
  <2>3. QED
    BY <2>1, <2>2 DEF DoomInv
<1>d. /\ toServer = <<>> /\ toClient = <<>> /\ loggedInAs = None /\ (netThis => closing)
      /\ Ops(jobs) \cap Attempts = {} /\ jobs \in Seq(Jobs)
      /\ \/ async \in {"idle", "credentials"} /\ netInitialized
         \/ async \in {"compare", "secured"} /\ ~netInitialized
      /\ async = "compare" /\ netThis => netState = "established"
  BY <1>1, TypedMeans DEF DoomInv, Base, Typed, JobTypes
<1>2. ASSUME NEW a, Abort(a) PROVE DoomInv'
  <2>1. /\ UNCHANGED <<link, loggedInAs, netThis, netState, async, netInitialized, jobs>>
    BY <1>2 DEF Abort, logic, netc
  <2>2. QED
    BY <1>1, <1>d, <2>1, DoomKept DEF Ops
<1>3. ASSUME NEW op, NEW who, NEW rest, TakeCredentials(op, who, rest), ~\E a : Abort(a) PROVE FALSE
  <2>1. ~netInitialized /\ twice' = (twice \/ UnderWay(rest))
    BY <1>3 DEF TakeCredentials
  <2>2. Connecting
    BY <1>d, <2>1 DEF Connecting
  <2>3. QED
    BY <1>1, <2>1, <2>2 DEF UnderWay
<1>4. ASSUME UserActs, ~BroadcastRequested, ~\E a : Abort(a) PROVE DoomInv'
  <2>1. PICK op \in {"continue", "start", "delete", "shutdown", "fetchUsers"} : Push(Job(op, None)) \/ jobs' = jobs
    BY <1>4, <1>3
       DEF UserActs, CredentialsEntered, PageQueried, AutoLoggingInChanged, UserChosen,
           PageChanged, ConversationLeft, UpdateClicked, ShutdownRequested, Quit
  <2>2. UNCHANGED <<link, loggedInAs, netThis, netState, async, netInitialized>>
    BY <1>4, <1>3
       DEF UserActs, CredentialsEntered, PageQueried, AutoLoggingInChanged, UserChosen,
           PageChanged, ConversationLeft, UpdateClicked, ShutdownRequested, Quit, netc, logic
  <2>3. Job(op, None) \in Jobs /\ Job(op, None).op \notin Attempts
    BY JobsTyped DEF Attempts
  <2>4. QED
    BY <1>1, <1>d, <2>1, <2>2, <2>3, DoomPushed, DoomKept
<1>5. ASSUME BroadcastRequested, ~\E a : Abort(a) PROVE DoomInv'
  <2>1. /\ netThis /\ Send(Request("broadcast", None))
        /\ UNCHANGED <<loggedInAs, netThis, netState, async, netInitialized, jobs>>
    BY <1>5 DEF BroadcastRequested, netc, logic
  <2>2. UNCHANGED link
    BY <1>d, <2>1 DEF Send
  <2>3. QED
    BY <1>1, <1>d, <2>1, <2>2, DoomKept DEF Ops
<1>6. ASSUME RunCredentials \/ NetInit \/ HandshakeStep \/ HandshakeFails PROVE FALSE
  <2>1. async \notin {"netInit", "handshake"}
    BY <1>d
  <2>2. RunCredentials => FALSE
    <3>1. ASSUME RunCredentials PROVE Head(jobs).op \in Attempts /\ jobs # <<>>
      BY <3>1 DEF RunCredentials, Runs, Attempts
    <3>2. ASSUME jobs # <<>> PROVE Head(jobs).op \in Ops(jobs)
      BY <1>d, <3>2, Popped
    <3>3. QED
      BY <1>d, <3>1, <3>2
  <2>3. QED
    BY <1>6, <2>1, <2>2 DEF NetInit, HandshakeStep, HandshakeFails
<1>7. ASSUME NetInitReturns \/ NetInitialized, ~\E a : Abort(a) PROVE DoomInv'
  <2>1. /\ \/ async = "compare" /\ async' = "secured" /\ UNCHANGED netInitialized
           \/ async = "secured" /\ async' = "credentials" /\ netInitialized' = TRUE
        /\ UNCHANGED <<link, loggedInAs, netThis, netState, jobs>>
    BY <1>7, <1>d DEF NetInitReturns, NetInitialized, Established, StateEstablished, netc, logic
  <2>2. Ops(jobs') \cap Attempts = {}
    BY <1>d, <2>1 DEF Ops
  <2>3. QED
    BY <1>d, <2>1, <2>2 DEF DoomInv, link
<1>8. ASSUME SendCredentials, ~\E a : Abort(a) PROVE DoomInv'
  <2>1. /\ netThis /\ Send(Request(job.op, job.who)) /\ async = "credentials" /\ async' = "idle"
        /\ UNCHANGED <<loggedInAs, netThis, netState, netInitialized, jobs>>
    BY <1>8 DEF SendCredentials, netc, logic
  <2>2. UNCHANGED link
    BY <1>d, <2>1 DEF Send
  <2>3. Ops(jobs') \cap Attempts = {}
    BY <1>d, <2>1 DEF Ops
  <2>4. QED
    BY <1>d, <2>1, <2>2, <2>3 DEF DoomInv, link
<1>9. ASSUME \/ RunRequest("fetchUsers", "netFetchUsers") \/ RunRequest("shutdown", "netShutdownServer")
             \/ RunShow \/ RunProcessUsers \/ RunContinue \/ RunDelete
             \/ RunSetUp("start", "netCreateConversation")
             \/ RunSetUp("reply", "netReplyToConversationSetUpInvite"),
             ~\E a : Abort(a)
      PROVE  DoomInv'
  <2>1. jobs # <<>> /\ (jobs' = Tail(jobs) \/ jobs' = Append(Tail(jobs), Job("fetchUsers", None)))
    BY <1>9, <1>3 DEF RunRequest, RunShow, RunProcessUsers, RunContinue, RunDelete, RunSetUp, UpdateUsersList, Runs, Pop
  <2>2. UNCHANGED <<link, loggedInAs, netThis, netState, async, netInitialized>>
    <3>1. CASE RunRequest("fetchUsers", "netFetchUsers") \/ RunRequest("shutdown", "netShutdownServer")
      <4>1. PICK kind : netThis /\ Send(Request(kind, None)) /\ UNCHANGED <<async, logic, netc>>
        BY <1>9, <3>1 DEF RunRequest
      <4>2. UNCHANGED link
        BY <1>d, <4>1 DEF Send
      <4>3. QED
        BY <4>1, <4>2 DEF logic, netc
    <3>2. CASE ~(RunRequest("fetchUsers", "netFetchUsers") \/ RunRequest("shutdown", "netShutdownServer"))
      BY <1>9, <1>3, <3>2 DEF RunShow, RunProcessUsers, RunContinue, RunDelete, RunSetUp, logic, netc
    <3>3. QED
      BY <3>1, <3>2
  <2>3. Ops(jobs') \cap Attempts = {}
    <3>1. PICK rest \in Seq(Jobs) : rest = Tail(jobs) /\ Ops(rest) \subseteq Ops(jobs)
      BY <1>d, <2>1, Popped
    <3>2. PICK j \in Jobs : j = Job("fetchUsers", None) /\ j.op \notin Attempts
      BY JobsTyped DEF Attempts
    <3>3. Range(Append(rest, j)) = Range(rest) \cup {j}
      BY OneMore
    <3>4. Ops(Append(rest, j)) = Ops(rest) \cup {j.op}
      BY <3>3 DEF Ops
    <3>5. QED
      BY <1>d, <2>1, <3>1, <3>2, <3>4
  <2>4. QED
    BY <1>1, <2>2, <2>3, DoomKept
<1>10. ASSUME NetThread, ~\E a : Abort(a) PROVE DoomInv'
  <2>1. ASSUME NEW reply, Takes(reply) PROVE FALSE
    BY <1>d, <2>1 DEF Takes
  <2>2. OnLoggedIn \/ OnDisconnected \/ OnDisconnectedControls \/ OnDisconnectedPage \/ OnDisconnectedClean \/ ListenAgain
    BY <1>10, <2>1
       DEF NetThread, LoggedIn, LogInRefused, RegisterResult, UsersFetched, InviteReceived,
           ErrorReceived, Disconnected, ListenNowhere
  <2>3. Push(Job("fetchUsers", None)) \/ jobs' = jobs
    BY <1>10, <2>2
       DEF OnLoggedIn, OnDisconnected, OnDisconnectedControls, OnDisconnectedPage, OnDisconnectedClean, ListenAgain
  <2>4. Ops(jobs') \cap Attempts = {}
    <3>1. Job("fetchUsers", None) \in Jobs /\ Job("fetchUsers", None).op \notin Attempts
      BY JobsTyped DEF Attempts
    <3>2. QED
      BY <1>d, <2>3, <3>1, DoomPushed
  <2>5. CASE OnDisconnectedClean
    <3>1. /\ netThis' = FALSE /\ toServer' = <<>> /\ toClient' = <<>>
          /\ UNCHANGED <<async, netInitialized, loggedInAs>>
      BY <2>5 DEF OnDisconnectedClean, CleanUp, logic
    <3>2. QED
      BY <1>d, <2>4, <3>1 DEF DoomInv
  <2>6. CASE ~OnDisconnectedClean
    <3>1. UNCHANGED <<link, loggedInAs, netThis, netState, async, netInitialized>>
      BY <1>10, <1>d, <2>2, <2>6
         DEF OnLoggedIn, OnDisconnected, OnDisconnectedControls, OnDisconnectedPage, ListenAgain, netc, logic
    <3>2. QED
      BY <1>1, <2>4, <3>1, DoomKept
  <2>7. QED
    BY <2>5, <2>6
<1>11. ASSUME Clean \/ ServerAnswers \/ ServerFails \/ UNCHANGED vars, ~\E a : Abort(a) PROVE DoomInv'
  <2>1. CASE Clean
    BY <1>11, <2>1 DEF Clean, DoomInv
  <2>2. CASE ServerAnswers \/ ServerFails
    BY <1>d, <2>2 DEF ServerAnswers, ServerFails
  <2>3. CASE UNCHANGED vars
    <3>1. UNCHANGED <<link, loggedInAs, netThis, netState, async, netInitialized, jobs>>
      BY <2>3 DEF vars, netc, logic
    <3>2. QED
      BY <1>1, <1>d, <3>1, DoomKept DEF Ops
  <2>4. QED
    BY <1>11, <2>1, <2>2, <2>3
<1>12. QED
  BY <1>2, <1>4, <1>5, <1>6, <1>7, <1>8, <1>9, <1>10, <1>11 DEF Next, AsyncThread, Rest

(* It begins with what a connection that is being made is like.            *)
LEMMA DoomBegins ==
  ASSUME Wired, OnceInv, ~early, [Next]_vars, early'
  PROVE  DoomInv'
<1>1. ListenAgain /\ ~\E a : Abort(a)
  BY NotEarly
<1>2. /\ life # "gone" /\ net = "listen" /\ netThis /\ Exchanging /\ async # "handshake"
      /\ async = "compare" => netState = "established"
      /\ toClient # <<>> /\ toClient' = Tail(toClient) /\ netInitialized' = FALSE
      /\ UNCHANGED <<toServer, closing, life, jobs, async, netThis, netState, loggedInAs, twice>>
  BY <1>1 DEF ListenAgain, Alive, Established, StateEstablished, Exchanging, netc, history
<1>3. /\ toServer = <<>> /\ loggedInAs = None /\ toClient = <<"closed">> /\ closing
  <2>1. toServer = <<>> /\ loggedInAs = None /\ toClient = <<"closed">>
    BY <1>2 DEF Wired, LinkInv
  <2>2. "closed" \in Range(toClient)
    BY <2>1, OneReply DEF Replies
  <2>3. QED
    BY <1>2, <2>1, <2>2 DEF Wired, LinkInv, Ending
<1>4. toClient' = <<>>
  BY <1>2, <1>3
<1>5. SUFFICES ASSUME ~twice PROVE DoomInv'
  BY <1>2 DEF DoomInv
<1>6. Ops(jobs') \cap Attempts = {}
  BY <1>2, <1>5 DEF OnceInv, Connecting, Exchanging, Ops
<1>7. QED
  BY <1>2, <1>3, <1>4, <1>6 DEF DoomInv, Exchanging

LEMMA InitOwned == Init => Owned /\ DoomInv
<1> SUFFICES ASSUME Init PROVE Owned /\ DoomInv
  OBVIOUS
<1>1. jobs = <<Job("show", None)>> /\ Ops(jobs) = {"show"} /\ Range(toServer) = {}
  BY JobsTyped, NothingIn DEF Init
<1>2. AttemptsAfter(jobs, Attempts) /\ AttemptsAfter(jobs, Early)
  BY <1>1 DEF AttemptsAfter
<1>3. KeyInv /\ OwnerInv /\ DoomInv
  BY <1>1 DEF Init, KeyInv, OwnerInv, DoomInv
<1>4. OnceInv
  BY <1>1, <1>2 DEF Init, OnceInv, Connecting, Attempts
<1>5. QED
  BY <1>3, <1>4, InitWired DEF Owned

OwnedInv == Base /\ KeyInv /\ DoomInv /\ (early \/ Owned)

LEMMA NextOwned == OwnedInv /\ [Next]_vars => OwnedInv'
<1> SUFFICES ASSUME OwnedInv, [Next]_vars PROVE OwnedInv'
  OBVIOUS
<1>1. Base' /\ KeyInv'
  BY NextBase, KeyNext DEF OwnedInv
<1>2. WiredInv'
  BY NextWired DEF OwnedInv, WiredInv, Owned
<1>3. CASE Restart
  <2>1. ~early'
    BY <1>3 DEF Restart
  <2>2. Wired' /\ OnceInv' /\ OwnerInv'
    BY <1>2, <1>3, <2>1, RestartOnce, RestartOwner DEF OwnedInv, WiredInv
  <2>3. QED
    BY <1>1, <2>1, <2>2 DEF OwnedInv, Owned, DoomInv
<1>4. CASE ~Restart /\ early
  <2>1. early'
    BY <1>4, EarlyStays
  <2>2. DoomInv'
    BY <1>4, DoomNext DEF OwnedInv
  <2>3. QED
    BY <1>1, <2>1, <2>2 DEF OwnedInv
<1>5. CASE ~Restart /\ ~early
  <2>1. Owned
    BY <1>5 DEF OwnedInv
  <2>2. CASE early'
    BY <1>1, <1>5, <2>1, <2>2, DoomBegins DEF OwnedInv, Owned
  <2>3. CASE ~early'
    <3>1. Wired'
      BY <1>2, <2>3 DEF WiredInv
    <3>2. OnceInv' /\ OwnerInv'
      BY <2>1, OnceNext, OwnerNext DEF Owned
    <3>3. QED
      BY <1>1, <2>3, <3>1, <3>2 DEF OwnedInv, Owned, DoomInv
  <2>4. QED
    BY <2>2, <2>3
<1>6. QED
  BY <1>3, <1>4, <1>5

(* Whoever is logged in has the database open under their own password,    *)
(* however many users attempt to log in, fail and are disconnected, before *)
(* and after restarts; two attempts under way at once are the one way to   *)
(* have it opened by another (logic.c:836).                                *)
THEOREM OwnDatabase == Spec => []DatabaseOwner
<1>1. Init => OwnedInv
  BY InitOwned DEF OwnedInv, Owned, Wired
<1>2. OwnedInv /\ [Next]_vars => OwnedInv'
  BY NextOwned
<1>3. OwnedInv => DatabaseOwner
  BY DEF OwnedInv, DoomInv, Owned, OwnerInv, DatabaseOwner, Alive
<1>4. QED
  BY <1>1, <1>2, <1>3, PTL DEF Spec

-----------------------------------------------------------------------------
(* What is asked for, and by whom: the token of the session.               *)

Inside == {"users", "conversation", "admin"}
Inner == {"continue", "start", "delete", "reply", "shutdown"}
Leaving == {"disconnected", "finishLoading", "showLogIn"}
Busy == Connecting \/ Ops(jobs) \cap Attempts # {}

(* What fetches and shows the users carries the token, from its job to the *)
(* request, to the answer and to the next job.                             *)
TokenInv ==
  ~twice /\ ~late /\ life # "gone" =>
    /\ Ops(jobs) \cap Early # {} => token = "session"
    /\ "users" \in Range(toClient) => token = "session"
    /\ \A q \in Range(toServer) : q.kind \in Attempts \/ (q.token = "session" /\ token = "session")

(* Another user's invite reaches only who is logged in: behind the answer  *)
(* with the token, if that has not been taken yet.                         *)
WelcomeFirst(replies) ==
  \E i \in 1..Len(replies) : /\ replies[i] = "loggedIn"
                             /\ \A k \in 1..Len(replies) : replies[k] = "invite" => i < k
InviteInv ==
  life # "gone" /\ netThis =>
    \/ token = "session"
    \/ WelcomeFirst(toClient)
    \/ loggedInAs = None /\ "invite" \notin Range(toClient)

(* The pages of a session, and the jobs its user starts on them, are those *)
(* of the connection that is there, or of the one being taken down.        *)
InsideInv ==
  ~twice /\ ~late /\ life # "gone" =>
    /\ Ops(jobs) \cap Inner # {} => token = "session" /\ ~Connecting
    /\ AttemptsAfter(jobs, Inner)
    /\ page \in Inside => \/ netInitialized /\ token = "session"
                          \/ net \in Leaving /\ ~Busy

Tokened == Owned /\ InviteInv /\ TokenInv /\ InsideInv

LEMMA NotBusy ==
  ASSUME Owned, life # "gone", ~twice, netInitialized
  PROVE  ~Busy
BY DEF Owned, OnceInv, Busy

LEMMA TokenKept ==
  ASSUME TokenInv, life # "gone", twice => twice', late => late', token' = token \/ token' = "session",
         \A op \in Early : op \in Ops(jobs') => op \in Ops(jobs) \/ (~twice /\ ~late' => token' = "session"),
         "users" \in Range(toClient') => "users" \in Range(toClient) \/ (~twice /\ ~late' => token' = "session"),
         \A q \in Range(toServer') :
            \/ q \in Range(toServer)
            \/ q.kind \in Attempts
            \/ ~twice /\ ~late' => q.token = "session" /\ token' = "session"
  PROVE  TokenInv'
<1>1. SUFFICES ASSUME ~twice', ~late' PROVE TokenInv'
  BY DEF TokenInv
<1>2. (Ops(jobs) \cap Early # {} => token = "session")'
  BY <1>1 DEF TokenInv
<1>3. ("users" \in Range(toClient) => token = "session")'
  BY <1>1 DEF TokenInv
<1>4. ASSUME NEW q \in Range(toServer')
      PROVE  q.kind \in Attempts \/ (q.token = "session" /\ token' = "session")
  BY <1>1, <1>4 DEF TokenInv
<1>5. QED
  BY <1>2, <1>3, <1>4 DEF TokenInv

(* A queue of replies that grows, or whose first is taken. *)
LEMMA WelcomeJoined ==
  ASSUME NEW s \in Seq(Replies), NEW t \in Seq(Replies), WelcomeFirst(s)
  PROVE  WelcomeFirst(s \o t)
<1> DEFINE u == s \o t
<1>1. /\ Len(u) = Len(s) + Len(t) /\ Len(s) \in Nat /\ Len(t) \in Nat
      /\ \A i \in 1..Len(s) : u[i] = s[i]
  OBVIOUS
<1> HIDE DEF u
<1>2. PICK i \in 1..Len(s) : s[i] = "loggedIn" /\ \A k \in 1..Len(s) : s[k] = "invite" => i < k
  BY DEF WelcomeFirst
<1>3. i \in 1..Len(u) /\ u[i] = "loggedIn"
  BY <1>1, <1>2
<1>4. ASSUME NEW k \in 1..Len(u), u[k] = "invite" PROVE i < k
  <2>1. CASE k \in 1..Len(s)
    BY <1>1, <1>2, <1>4, <2>1
  <2>2. CASE k \notin 1..Len(s)
    BY <1>1, <2>2
  <2>3. QED
    BY <2>1, <2>2
<1>5. QED
  BY <1>3, <1>4 DEF WelcomeFirst, u

LEMMA WelcomeAppend ==
  ASSUME NEW s \in Seq(Replies), NEW e \in Replies, WelcomeFirst(s)
  PROVE  WelcomeFirst(Append(s, e))
<1>1. Append(s, e) = s \o <<e>> /\ <<e>> \in Seq(Replies)
  OBVIOUS
<1>2. QED
  BY <1>1, WelcomeJoined

LEMMA WelcomeNow ==
  ASSUME NEW s \in Seq(Replies), "invite" \notin Range(s)
  PROVE  WelcomeFirst(s \o <<"loggedIn">>)
<1> DEFINE u == s \o <<"loggedIn">>
<1>1. /\ Len(u) = Len(s) + 1 /\ Len(s) \in Nat /\ u[Len(s) + 1] = "loggedIn"
      /\ \A i \in 1..Len(s) : u[i] = s[i]
  OBVIOUS
<1> HIDE DEF u
<1>2. \A k \in 1..Len(s) : s[k] # "invite"
  BY InRange
<1>3. \A k \in 1..Len(u) : u[k] # "invite"
  <2> SUFFICES ASSUME NEW k \in 1..Len(u) PROVE u[k] # "invite"
    OBVIOUS
  <2>1. k \in 1..Len(s) \/ k = Len(s) + 1
    BY <1>1
  <2>2. QED
    BY <1>1, <1>2, <2>1
<1>4. Len(s) + 1 \in 1..Len(u)
  BY <1>1
<1>5. QED
  BY <1>1, <1>3, <1>4 DEF WelcomeFirst, u

LEMMA WelcomeTail ==
  ASSUME NEW s \in Seq(Replies), s # <<>>, WelcomeFirst(s)
  PROVE  /\ Head(s) # "loggedIn" => WelcomeFirst(Tail(s))
         /\ Head(s) # "invite"
<1> DEFINE t == Tail(s)
<1>1. /\ Len(s) \in Nat \ {0} /\ Len(t) = Len(s) - 1
      /\ Head(s) = s[1] /\ \A i \in 1..Len(t) : t[i] = s[i + 1]
  OBVIOUS
<1> HIDE DEF t
<1>2. PICK i \in 1..Len(s) : s[i] = "loggedIn" /\ \A k \in 1..Len(s) : s[k] = "invite" => i < k
  BY DEF WelcomeFirst
<1>3. Head(s) # "invite"
  BY <1>1, <1>2
<1>4. ASSUME Head(s) # "loggedIn" PROVE WelcomeFirst(t)
  <2>1. i # 1
    BY <1>1, <1>2, <1>4
  <2>2. i - 1 \in 1..Len(t) /\ t[i - 1] = "loggedIn"
    BY <1>1, <1>2, <2>1
  <2>3. ASSUME NEW k \in 1..Len(t), t[k] = "invite" PROVE i - 1 < k
    BY <1>1, <1>2, <2>3
  <2>4. QED
    BY <2>2, <2>3 DEF WelcomeFirst
<1>5. QED
  BY <1>3, <1>4 DEF t

LEMMA InviteKept ==
  ASSUME InviteInv, life # "gone", netThis' => netThis, token' = token \/ token' = "session",
         UNCHANGED loggedInAs,
         \/ toClient' = toClient
         \/ toClient \in Seq(Replies) /\ \E e \in Replies \ {"invite"} : toClient' = Append(toClient, e)
  PROVE  InviteInv'
<1>1. SUFFICES ASSUME life # "gone", netThis, token # "session", toClient' # toClient PROVE InviteInv'
  BY DEF InviteInv
<1>2. PICK e \in Replies \ {"invite"} : toClient' = Append(toClient, e)
  BY <1>1
<1>3. Range(toClient') = Range(toClient) \cup {e}
  BY <1>1, <1>2, OneMore
<1>4. WelcomeFirst(toClient) => WelcomeFirst(toClient')
  BY <1>1, <1>2, WelcomeAppend
<1>5. QED
  BY <1>1, <1>2, <1>3, <1>4 DEF InviteInv

LEMMA InviteTook ==
  ASSUME Wired, InviteInv, NEW reply, Takes(reply), netThis' = netThis, loggedInAs' = loggedInAs,
         token' = token \/ token' = "session", reply = "loggedIn" => token' = "session"
  PROVE  InviteInv' /\ (reply = "invite" => token = "session")
<1>0. Linked
  BY QueueTyped
<1>1. /\ toClient # <<>> /\ Head(toClient) = reply /\ toClient' = Tail(toClient)
      /\ life # "gone" /\ netInitialized /\ toClient \in Seq(Replies)
  BY <1>0 DEF Takes, Alive, Linked
<1>2. Range(toClient) = {reply} \cup Range(toClient') /\ netThis
  BY <1>0, <1>1, Took DEF Wired, ConnInv
<1>3. WelcomeFirst(toClient) => (reply # "loggedIn" => WelcomeFirst(toClient')) /\ reply # "invite"
  BY <1>1, WelcomeTail
<1>4. QED
  BY <1>1, <1>2, <1>3 DEF InviteInv

LEMMA InviteNext == ASSUME Owned, InviteInv, [Next]_vars, ~Restart PROVE InviteInv'
<1>0. Wired /\ Linked
  BY QueueTyped DEF Owned
<1>1. ASSUME NEW a, Abort(a) PROVE InviteInv'
  BY <1>1 DEF Abort, InviteInv, link, netc
<1>2. ASSUME UserActs, ~BroadcastRequested, ~\E a : Abort(a) PROVE InviteInv'
  <2>1. UNCHANGED <<netThis, token, loggedInAs, toClient>>
    BY <1>2
       DEF UserActs, CredentialsEntered, TakeCredentials, PageQueried, AutoLoggingInChanged, UserChosen, PageChanged,
           ConversationLeft, UpdateClicked, ShutdownRequested, Quit, link, netc
  <2>2. life # "gone"
    BY <1>2
       DEF UserActs, CredentialsEntered, PageQueried, AutoLoggingInChanged, UserChosen, PageChanged,
           ConversationLeft, UpdateClicked, ShutdownRequested, Quit, Acts, Alive
  <2>3. QED
    BY <2>1, <2>2, InviteKept
<1>3. ASSUME NEW request \in Requests, Send(request), life # "gone", UNCHANGED <<netThis, token, loggedInAs>>
      PROVE  InviteInv'
  <2>1. toClient' = toClient \/ toClient' = Append(toClient, "closed")
    BY <1>3 DEF Send, link
  <2>2. "closed" \in Replies \ {"invite"}
    BY DEF Replies
  <2>3. QED
    BY <1>0, <1>3, <2>1, <2>2, InviteKept DEF Linked
<1>4. ASSUME BroadcastRequested, ~\E a : Abort(a) PROVE InviteInv'
  <2>1. Send(Request("broadcast", None)) /\ life # "gone" /\ UNCHANGED <<netThis, token, loggedInAs>>
    BY <1>4 DEF BroadcastRequested, Alive, netc
  <2>2. Request("broadcast", None) \in Requests
    BY <1>0, RequestTypes DEF Wired, Base
  <2>3. QED
    BY <1>3, <2>1, <2>2
<1>5. ASSUME SendCredentials, ~\E a : Abort(a) PROVE InviteInv'
  <2>1. /\ Send(Request(job.op, job.who)) /\ life # "gone" /\ async = "credentials"
        /\ UNCHANGED <<netThis, token, loggedInAs>>
    BY <1>5 DEF SendCredentials, Alive, netc
  <2>2. Request(job.op, job.who) \in Requests
    <3>1. job \in Jobs /\ job.op \in Attempts
      BY <1>0, <2>1, TypedMeans DEF Wired, Base, Typed, JobTypes, JobInv
    <3>2. QED
      BY <1>0, <3>1, RequestTypes, JobsOps DEF Wired, Base
  <2>3. QED
    BY <1>3, <2>1, <2>2
<1>6. ASSUME NEW op \in {"fetchUsers", "shutdown"}, NEW a, RunRequest(op, a), ~Abort(a) PROVE InviteInv'
  <2>1. Send(Request(op, None)) /\ life # "gone" /\ UNCHANGED <<netThis, token, loggedInAs>>
    BY <1>6 DEF RunRequest, Runs, Alive, netc
  <2>2. Request(op, None) \in Requests
    BY <1>0, RequestTypes DEF Wired, Base
  <2>3. QED
    BY <1>3, <2>1, <2>2
<1>7. ASSUME NetInit, ~\E a : Abort(a) PROVE InviteInv'
  <2>1. /\ life # "gone" /\ ~netThis /\ toClient' = toClient
        /\ ~netThis' \/ loggedInAs' = None
    BY <1>7 DEF NetInit, Alive, link, netc
  <2>2. Range(toClient) = {}
    BY <1>0, <2>1, NothingIn DEF Wired, LinkInv
  <2>3. QED
    BY <2>1, <2>2 DEF InviteInv
<1>8. ASSUME HandshakeStep \/ HandshakeFails \/ NetInitReturns \/ NetInitialized, ~\E a : Abort(a) PROVE InviteInv'
  <2>1. /\ life # "gone" /\ UNCHANGED <<token, loggedInAs>>
        /\ ~netThis' \/ UNCHANGED <<netThis, toClient>>
    BY <1>8 DEF HandshakeStep, HandshakeFails, NetInitReturns, NetInitialized, GivesUp, CleanUp, Alive, link, netc
  <2>2. QED
    BY <2>1, InviteKept DEF InviteInv
<1>9. ASSUME \/ RunShow \/ RunCredentials \/ RunProcessUsers \/ RunContinue \/ RunDelete
             \/ RunSetUp("start", "netCreateConversation")
             \/ RunSetUp("reply", "netReplyToConversationSetUpInvite"),
             ~\E a : Abort(a)
      PROVE  InviteInv'
  <2>1. life # "gone" /\ UNCHANGED <<netThis, token, loggedInAs, toClient>>
    BY <1>9
       DEF RunShow, TakeCredentials, RunCredentials, RunProcessUsers, RunContinue, RunDelete, RunSetUp, Runs, Alive,
           link, netc
  <2>2. QED
    BY <2>1, InviteKept
<1>10. ASSUME \/ LoggedIn \/ LogInRefused \/ RegisterResult \/ UsersFetched \/ InviteReceived
              \/ ErrorReceived \/ Disconnected
       PROVE  InviteInv'
  <2>1. PICK reply : Takes(reply) /\ (reply = "loggedIn" => LoggedIn)
    BY <1>10 DEF LoggedIn, LogInRefused, RegisterResult, UsersFetched, InviteReceived, ErrorReceived, Disconnected
  <2>2. /\ UNCHANGED <<netThis, loggedInAs>> /\ (token' = token \/ token' = "session")
        /\ LoggedIn => token' = "session"
    BY <1>10
       DEF LoggedIn, LogInRefused, RegisterResult, UsersFetched, InviteReceived, ErrorReceived, Disconnected,
           TokenReceived, StoreToken, netc
  <2>3. QED
    BY <1>0, <2>1, <2>2, InviteTook
<1>11. ASSUME OnLoggedIn \/ OnDisconnected \/ OnDisconnectedControls \/ OnDisconnectedPage \/ OnDisconnectedClean
       PROVE  InviteInv'
  <2>1. /\ life # "gone" /\ UNCHANGED <<token, loggedInAs>>
        /\ ~netThis' \/ UNCHANGED <<netThis, toClient>>
    BY <1>11
       DEF OnLoggedIn, OnDisconnected, OnDisconnectedControls, OnDisconnectedPage, OnDisconnectedClean, CleanUp,
           Alive, link, netc
  <2>2. QED
    BY <2>1, InviteKept DEF InviteInv
<1>12. ASSUME ListenAgain \/ ListenNowhere, ~\E a : Abort(a) PROVE InviteInv'
  <2>1. life # "gone" /\ UNCHANGED <<netThis, token, loggedInAs>> /\ ListenAgain
    BY <1>12 DEF ListenAgain, ListenNowhere, Alive, netc
  <2>2. CASE toClient' = toClient
    BY <2>1, <2>2, InviteKept
  <2>3. CASE toClient' # toClient
    <3>1. toClient # <<>> /\ Head(toClient) = "closed" /\ toClient' = Tail(toClient) /\ toClient \in Seq(Replies)
      BY <1>0, <1>12, <2>1, <2>3 DEF ListenAgain, Linked, link
    <3>2. Range(toClient) = {"closed"} \cup Range(toClient')
      BY <3>1, OneLess
    <3>3. WelcomeFirst(toClient) => WelcomeFirst(toClient')
      BY <3>1, WelcomeTail
    <3>4. QED
      BY <2>1, <3>2, <3>3 DEF InviteInv
  <2>4. QED
    BY <2>2, <2>3
<1>13. ASSUME Clean, ~\E a : Abort(a) PROVE InviteInv'
  BY <1>13 DEF Clean, InviteInv
<1>14. ASSUME ServerAnswers PROVE InviteInv'
  <2>1. PICK q :
        /\ life # "gone" /\ toServer # <<>> /\ q = Head(toServer) /\ toClient' = toClient \o Answers(q)
        /\ loggedInAs' = IF Contains(Answers(q), "loggedIn") THEN q.who ELSE loggedInAs
        /\ UNCHANGED <<netThis, token>>
    BY <1>14 DEF ServerAnswers, Alive
  <2>2. toClient \in Seq(Replies) /\ q \in Requests
    BY <1>0, <2>1, OneLess DEF Linked
  <2>3. Answers(q) \in Seq(Replies) /\ \A reply : Contains(Answers(q), reply) <=> reply \in Range(Answers(q))
    BY <2>2, Answered
  <2>4. Answers(q) = <<"loggedIn">> \/ {"loggedIn", "invite"} \cap Range(Answers(q)) = {}
    <3>1. q.kind \in {"logIn", "register", "fetchUsers", "shutdown", "broadcast"}
      BY <2>2 DEF Requests
    <3>2. Answers(q) \in {<<"loggedIn">>, <<"logInRefused", "closed">>, <<"registerRefused", "closed">>,
                          <<"registered", "closed">>, <<"users">>, <<"closed">>, <<>>}
      BY <3>1 DEF Answers
    <3>3. /\ Range(<<"logInRefused", "closed">>) = {"logInRefused", "closed"}
          /\ Range(<<"registerRefused", "closed">>) = {"registerRefused", "closed"}
          /\ Range(<<"registered", "closed">>) = {"registered", "closed"}
      BY TwoReplies DEF Replies
    <3>4. Range(<<"users">>) = {"users"} /\ Range(<<"closed">>) = {"closed"} /\ Range(<<>>) = {}
      BY OneReply, NothingIn DEF Replies
    <3>5. QED
      BY <3>2, <3>3, <3>4
  <2>5. WelcomeFirst(toClient) => WelcomeFirst(toClient')
    BY <2>1, <2>2, <2>3, WelcomeJoined
  <2>6. CASE Answers(q) = <<"loggedIn">>
    <3>1. "invite" \notin Range(toClient) => WelcomeFirst(toClient')
      BY <2>1, <2>2, <2>6, WelcomeNow
    <3>2. QED
      BY <2>1, <2>5, <3>1 DEF InviteInv
  <2>7. CASE {"loggedIn", "invite"} \cap Range(Answers(q)) = {}
    <3>1. Range(toClient') = Range(toClient) \cup Range(Answers(q))
      BY <2>1, <2>2, <2>3, Joined
    <3>2. loggedInAs' = loggedInAs
      BY <2>1, <2>3, <2>7
    <3>3. QED
      BY <2>1, <2>5, <2>7, <3>1, <3>2 DEF InviteInv
  <2>8. QED
    BY <2>4, <2>6, <2>7
<1>15. ASSUME ServerFails PROVE InviteInv'
  <2>1. /\ life # "gone" /\ UNCHANGED <<netThis, token, loggedInAs>>
        /\ \/ toClient' = Append(toClient, "error") \/ toClient' = Append(toClient, "closed")
           \/ loggedInAs # None /\ toClient' = Append(toClient, "invite")
    BY <1>15 DEF ServerFails, Alive, netc
  <2>2. {"error", "closed", "invite"} \subseteq Replies /\ toClient \in Seq(Replies)
    BY <1>0 DEF Replies, Linked
  <2>3. CASE toClient' = Append(toClient, "error") \/ toClient' = Append(toClient, "closed")
    BY <2>1, <2>2, <2>3, InviteKept
  <2>4. CASE loggedInAs # None /\ toClient' = Append(toClient, "invite")
    <3>1. WelcomeFirst(toClient) => WelcomeFirst(toClient')
      BY <2>2, <2>4, WelcomeAppend
    <3>2. QED
      BY <2>1, <2>4, <3>1 DEF InviteInv
  <2>5. QED
    BY <2>1, <2>3, <2>4
<1>16. ASSUME UNCHANGED vars PROVE InviteInv'
  BY <1>16 DEF vars, InviteInv, link, netc
<1>17. QED
  BY <1>1, <1>2, <1>4, <1>5, <1>6, <1>7, <1>8, <1>9, <1>10, <1>11, <1>12, <1>13, <1>14, <1>15, <1>16
     DEF Next, AsyncThread, NetThread, Rest

(* A page of the session, or a job of its user, and a connection that is   *)
(* there: the token is that of the session.                                *)
LEMMA InsideToken ==
  ASSUME Tokened, life # "gone", ~twice, ~late, netInitialized
  PROVE  /\ page \in Inside => token = "session"
         /\ Ops(jobs) \cap (Inner \cup Early) # {} => token = "session"
<1>1. net \notin Leaving
  BY DEF Tokened, Owned, Wired, ConnInv, Goodbye, Leaving
<1>2. QED
  BY <1>1 DEF Tokened, TokenInv, InsideInv

LEMMA RestartToken == ASSUME Base, Restart PROVE (InviteInv /\ TokenInv /\ InsideInv)'
<1>1. /\ jobs' = <<Job("show", None)>> /\ Ops(jobs') = {"show"} /\ toServer' = <<>> /\ toClient' = <<>>
      /\ ~netThis' /\ page' = "splash"
  BY JobsTyped DEF Restart, Base, GoneInv, link
<1>2. Range(toServer') = {} /\ Range(toClient') = {}
  BY <1>1, NothingIn
<1>3. AttemptsAfter(jobs', Inner)
  BY <1>1 DEF AttemptsAfter
<1>4. InviteInv' /\ TokenInv' /\ InsideInv'
  BY <1>1, <1>2, <1>3 DEF InviteInv, TokenInv, InsideInv, Early, Inner, Inside
<1>5. QED
  BY <1>4

LEMMA TokenNext == ASSUME Tokened, [Next]_vars, ~Restart, ~early' PROVE TokenInv'
<1>0. Linked /\ jobs \in Seq(Jobs) /\ TokenInv /\ InviteInv /\ Wired /\ Owned
  BY QueueTyped DEF Tokened, Owned
<1>1. ASSUME NEW a, Abort(a) PROVE TokenInv'
  BY <1>0, <1>1 DEF Abort, TokenInv, Ops, link, netc, history
<1>2. ASSUME PageQueried \/ AutoLoggingInChanged \/ PageChanged \/ ConversationLeft \/ Quit,
             ~Abort("databaseInitialized")
      PROVE  TokenInv'
  <2>1. life # "gone" /\ UNCHANGED <<link, twice, late, token, jobs>>
    BY <1>2 DEF PageQueried, AutoLoggingInChanged, PageChanged, ConversationLeft, Quit, Acts, Alive, netc, history
  <2>2. QED
    BY <1>0, <2>1, TokenKept DEF link
<1>3. ASSUME NEW op \in Attempts, NEW who \in Credentials, NEW rest \in Seq(Jobs), life # "gone",
             TakeCredentials(op, who, rest), Ops(rest) \subseteq Ops(jobs)
      PROVE  TokenInv'
  <2>1. CASE Abort("netInitialized")
    BY <1>1, <2>1
  <2>2. CASE ~Abort("netInitialized")
    <3>1. jobs' = Append(rest, Job(op, who)) \/ jobs' = rest
      BY <1>3, <2>2 DEF TakeCredentials
    <3>2. (twice => twice') /\ UNCHANGED <<link, late, token>>
      BY <1>3, <2>2 DEF TakeCredentials, netc
    <3>3. Range(Append(rest, Job(op, who))) = Range(rest) \cup {Job(op, who)} /\ Job(op, who).op = op
      BY JobsTyped, OneMore
    <3>4. Ops(jobs') \subseteq Ops(jobs) \cup Attempts
      BY <1>3, <3>1, <3>3 DEF Ops
    <3>5. \A q \in Early : q \in Ops(jobs') => q \in Ops(jobs)
      BY <3>4 DEF Early, Attempts
    <3>6. QED
      BY <1>0, <1>3, <3>2, <3>5, TokenKept DEF link
  <2>3. QED
    BY <2>1, <2>2
<1>4. ASSUME NEW who \in Credentials, CredentialsEntered(who) PROVE TokenInv'
  <2>1. page \in Attempts /\ TakeCredentials(page, who, jobs) /\ life # "gone"
    BY <1>4 DEF CredentialsEntered, Attempts, Alive
  <2>2. QED
    BY <1>0, <1>3, <2>1
<1>5. ASSUME NEW op, Push(Job(op, None)) \/ jobs' = jobs, op \in Inner \cup Early, life # "gone",
             UNCHANGED <<twice, link, token>>, late => late',
             op \in Early /\ ~twice /\ ~late' => token = "session"
      PROVE  TokenInv'
  <2>1. \A e \in Early : e \in Ops(jobs') => e \in Ops(jobs) \/ e = op
    <3>1. CASE Push(Job(op, None))
      <4>1. PICK j \in Jobs : j = Job(op, None) /\ j.op = op
        BY <1>5, JobsTyped DEF Inner, Early
      <4>2. Ops(jobs') \subseteq Ops(jobs) \cup {op}
        BY <1>0, <3>1, <4>1, Pushed
      <4>3. QED
        BY <4>2
    <3>2. CASE jobs' = jobs
      BY <3>2 DEF Ops
    <3>3. QED
      BY <1>5, <3>1, <3>2
  <2>2. QED
    BY <1>0, <1>5, <2>1, TokenKept DEF link
<1>24. ASSUME UserChosen \/ ShutdownRequested PROVE TokenInv'
  <2>1. PICK op \in Inner : Push(Job(op, None)) \/ jobs' = jobs
    <3>1. CASE UserChosen
      <4>1. (\E op \in {"continue", "start", "delete"} : Push(Job(op, None))) \/ jobs' = jobs
        BY <3>1 DEF UserChosen
      <4>2. QED
        BY <4>1 DEF Inner
    <3>2. CASE ShutdownRequested
      <4>1. Push(Job("shutdown", None))
        BY <3>2 DEF ShutdownRequested
      <4>2. QED
        BY <4>1 DEF Inner
    <3>3. QED
      BY <1>24, <3>1, <3>2
  <2>2. life # "gone" /\ UNCHANGED <<twice, link, token>>
    BY <1>24 DEF UserChosen, ShutdownRequested, Acts, Alive, netc, history
  <2>3. late => late'
    BY <1>24 DEF UserChosen, ShutdownRequested, history
  <2>4. op \notin Early
    BY DEF Inner, Early
  <2>5. QED
    BY <1>5, <2>1, <2>2, <2>3, <2>4
<1>25. ASSUME UpdateClicked, ~Abort("databaseInitialized") PROVE TokenInv'
  <2>1. /\ Push(Job("fetchUsers", None)) /\ life # "gone" /\ page \in Inside
        /\ UNCHANGED <<twice, link, token>>
    BY <1>25 DEF UpdateClicked, Acts, Alive, Inside, netc
  <2>2. late' = (late \/ ~netInitialized)
    BY <1>25 DEF UpdateClicked
  <2>3. ~twice /\ ~late' => token = "session"
    BY <2>1, <2>2, InsideToken
  <2>4. "fetchUsers" \in Early
    BY DEF Early
  <2>5. QED
    BY <1>5, <2>1, <2>2, <2>3, <2>4
<1>6. ASSUME NEW kind \in {"fetchUsers", "shutdown", "broadcast"}, Send(Request(kind, None)), life # "gone",
             UNCHANGED <<twice, late, token>>, Ops(jobs') \subseteq Ops(jobs),
             ~twice /\ ~late => token = "session"
      PROVE  TokenInv'
  <2>1. /\ Request(kind, None) \in Requests /\ Request(kind, None).kind = kind
        /\ Request(kind, None).token = token
    BY <1>0, RequestTypes DEF Wired, Base
  <2>2. /\ Range(toServer') \subseteq Range(toServer) \cup {Request(kind, None)}
        /\ "users" \in Range(toClient') => "users" \in Range(toClient)
    BY <1>0, <1>6, <2>1, Sent, NothingIn DEF link
  <2>3. QED
    BY <1>0, <1>6, <2>1, <2>2, TokenKept
<1>7. ASSUME BroadcastRequested PROVE TokenInv'
  <2>1. CASE Abort("netSendBroadcast")
    BY <1>1, <2>1
  <2>2. CASE ~Abort("netSendBroadcast")
    <3>1. /\ life # "gone" /\ page = "admin" /\ netInitialized /\ Send(Request("broadcast", None))
          /\ UNCHANGED <<twice, late, token, jobs>>
      BY <1>7, <2>2 DEF BroadcastRequested, Alive, netc, history
    <3>2. ~twice /\ ~late => token = "session"
      BY <3>1, InsideToken DEF Inside
    <3>3. Ops(jobs') \subseteq Ops(jobs)
      BY <3>1
    <3>4. QED
      BY <1>6, <3>1, <3>2, <3>3
  <2>3. QED
    BY <2>1, <2>2
<1>9. ASSUME RunShow PROVE TokenInv'
  <2>1. life # "gone" /\ jobs # <<>> /\ Head(jobs).op = "show"
    BY <1>9 DEF RunShow, Runs, Alive
  <2>2. Starting
    BY <1>0, <2>1, Popped DEF Wired, Base, JobInv
  <2>3. Tail(jobs) = <<>> /\ Ops(<<>>) = {} /\ <<>> \in Seq(Jobs)
    BY <2>2, NothingIn DEF Starting
  <2>4. CASE autoLoggingIn
    <3>1. TakeCredentials("logIn", saved, <<>>) /\ "logIn" \in Attempts
      BY <1>9, <2>3, <2>4 DEF RunShow, Attempts
    <3>2. saved \in Credentials
      BY <1>0, <2>2, <2>4, TypedMeans DEF Starting, Wired, Base, Typed, DiskTypes
    <3>3. QED
      BY <1>3, <2>1, <2>3, <3>1, <3>2
  <2>5. CASE ~autoLoggingIn
    <3>1. jobs' = <<>> /\ UNCHANGED <<link, twice, late, token>>
      BY <1>9, <2>3, <2>5 DEF RunShow, Pop, netc, history
    <3>2. QED
      BY <1>0, <2>1, <2>3, <3>1, TokenKept DEF link
  <2>6. QED
    BY <2>4, <2>5
<1>10. ASSUME RunCredentials \/ RunProcessUsers \/ RunContinue,
              ~Abort("netCurrentUserId"), ~Abort("databaseInitialized")
       PROVE  TokenInv'
  <2>1. life # "gone" /\ jobs # <<>> /\ jobs' = Tail(jobs) /\ UNCHANGED <<link, twice, token>>
    BY <1>10 DEF RunCredentials, RunProcessUsers, RunContinue, Runs, Pop, Alive, netc, history
  <2>2. late => late'
    BY <1>10 DEF RunCredentials, RunProcessUsers, RunContinue, history
  <2>3. Ops(jobs') \subseteq Ops(jobs)
    BY <1>0, <2>1, Popped
  <2>4. QED
    BY <1>0, <2>1, <2>2, <2>3, TokenKept DEF link
<1>26. ASSUME \/ RunSetUp("start", "netCreateConversation")
              \/ RunSetUp("reply", "netReplyToConversationSetUpInvite")
              \/ RunDelete,
              ~\E a : Abort(a)
       PROVE  TokenInv'
  <2>1. /\ life # "gone" /\ jobs # <<>> /\ Head(jobs).op \in Inner /\ UNCHANGED <<link, twice, token>>
    BY <1>26 DEF RunSetUp, RunDelete, Runs, Alive, Inner, netc
  <2>2. \/ jobs' = Tail(jobs) /\ late' = late
        \/ jobs' = Append(Tail(jobs), Job("fetchUsers", None)) /\ late' = (late \/ ~netInitialized)
    BY <1>26 DEF RunSetUp, RunDelete, UpdateUsersList, Pop
  <2>3. Head(jobs).op \in Ops(jobs) /\ Tail(jobs) \in Seq(Jobs) /\ Ops(Tail(jobs)) \subseteq Ops(jobs)
    BY <1>0, <2>1, Popped
  <2>4. CASE jobs' = Tail(jobs) /\ late' = late
    <3>1. \A e \in Early : e \in Ops(jobs') => e \in Ops(jobs)
      BY <2>3, <2>4
    <3>2. QED
      BY <1>0, <2>1, <2>4, <3>1, TokenKept DEF link
  <2>5. CASE jobs' = Append(Tail(jobs), Job("fetchUsers", None)) /\ late' = (late \/ ~netInitialized)
    <3>1. PICK j \in Jobs : j = Job("fetchUsers", None) /\ j.op = "fetchUsers"
      BY JobsTyped
    <3>2. PICK rest \in Seq(Jobs) : rest = Tail(jobs) /\ Ops(rest) \subseteq Ops(jobs)
      BY <2>3
    <3>3. Ops(jobs') = Ops(rest) \cup {"fetchUsers"}
      <4>1. jobs' = Append(rest, j)
        BY <2>5, <3>1, <3>2
      <4>2. Range(jobs') = Range(rest) \cup {j}
        BY <4>1, OneMore
      <4>3. QED
        BY <3>1, <4>2 DEF Ops
    <3>4. ~twice /\ ~late' => token' = "session"
      BY <2>1, <2>3, <2>5, InsideToken
    <3>5. \A e \in Early : e \in Ops(jobs') => e \in Ops(jobs) \/ (~twice /\ ~late' => token' = "session")
      BY <3>2, <3>3, <3>4 DEF Early
    <3>6. late => late'
      BY <2>5
    <3>7. QED
      BY <1>0, <2>1, <3>5, <3>6, TokenKept DEF link
  <2>6. QED
    BY <2>2, <2>4, <2>5
<1>11. ASSUME NetInit PROVE TokenInv'
  <2>1. CASE Abort("netThis")
    BY <1>1, <2>1
  <2>2. CASE ~Abort("netThis")
    <3>1. /\ life # "gone" /\ async = "netInit" /\ ~netThis /\ UNCHANGED <<link, jobs, twice, late>>
      BY <1>11, <2>2 DEF NetInit, Alive, history
    <3>2. Range(toServer') = {} /\ Range(toClient') = {}
      BY <1>0, <3>1, NothingIn DEF Wired, LinkInv, link
    <3>3. ~twice /\ ~late => Ops(jobs') \cap Early = {}
      BY <1>0, <3>1 DEF Owned, OnceInv, Connecting
    <3>4. QED
      BY <3>1, <3>2, <3>3 DEF TokenInv
  <2>3. QED
    BY <2>1, <2>2
<1>12. ASSUME HandshakeStep \/ HandshakeFails \/ NetInitReturns \/ NetInitialized, ~Abort("netInit") PROVE TokenInv'
  <2>1. /\ life # "gone" /\ UNCHANGED <<twice, late, token, jobs>>
        /\ UNCHANGED link \/ (toServer' = <<>> /\ toClient' = <<>>)
    BY <1>12
       DEF HandshakeStep, HandshakeFails, NetInitReturns, NetInitialized, GivesUp, CleanUp, Alive, netc, history
  <2>2. Range(toServer') \subseteq Range(toServer) /\ Range(toClient') \subseteq Range(toClient)
    BY <2>1, NothingIn DEF link
  <2>3. QED
    BY <1>0, <2>1, <2>2, TokenKept
<1>13. ASSUME SendCredentials PROVE TokenInv'
  <2>1. CASE Abort("netLogIn")
    BY <1>1, <2>1
  <2>2. CASE ~Abort("netLogIn")
    <3>1. /\ life # "gone" /\ async = "credentials" /\ Send(Request(job.op, job.who))
          /\ UNCHANGED <<twice, late, token, jobs>>
      BY <1>13, <2>2 DEF SendCredentials, Alive, netc, history
    <3>2. Request(job.op, job.who) \in Requests /\ Request(job.op, job.who).kind \in Attempts
      <4>1. job \in Jobs /\ job.op \in Attempts
        BY <1>0, <3>1, TypedMeans DEF Wired, Base, Typed, JobTypes, JobInv
      <4>2. QED
        BY <1>0, <4>1, RequestTypes, JobsOps DEF Wired, Base
    <3>3. /\ Range(toServer') \subseteq Range(toServer) \cup {Request(job.op, job.who)}
          /\ "users" \in Range(toClient') => "users" \in Range(toClient)
      BY <1>0, <3>1, <3>2, Sent, NothingIn DEF link
    <3>4. QED
      BY <1>0, <3>1, <3>2, <3>3, TokenKept
  <2>3. QED
    BY <2>1, <2>2
<1>14. ASSUME NEW op \in {"fetchUsers", "shutdown"}, NEW a, RunRequest(op, a) PROVE TokenInv'
  <2>1. CASE Abort(a)
    BY <1>1, <2>1
  <2>2. CASE ~Abort(a)
    <3>1. /\ life # "gone" /\ jobs # <<>> /\ Head(jobs).op = op /\ jobs' = Tail(jobs)
          /\ Send(Request(op, None)) /\ UNCHANGED <<twice, late, token>>
      BY <1>14, <2>2 DEF RunRequest, Runs, Pop, Alive, netc, history
    <3>2. Ops(jobs') \subseteq Ops(jobs) /\ op \in Ops(jobs)
      BY <1>0, <3>1, Popped
    <3>3. ~twice /\ ~late => token = "session"
      BY <1>0, <3>1, <3>2 DEF TokenInv, Tokened, InsideInv, Early, Inner
    <3>4. QED
      BY <1>6, <3>1, <3>2, <3>3
  <2>3. QED
    BY <2>1, <2>2
<1>15. ASSUME OnLoggedIn PROVE TokenInv'
  <2>1. /\ Push(Job("fetchUsers", None)) /\ life # "gone" /\ net = "loggedIn"
        /\ UNCHANGED <<twice, late, token, link>>
    BY <1>15 DEF OnLoggedIn, Alive, netc, history
  <2>2. token = "session"
    BY <1>0, <2>1 DEF Wired, ConnInv
  <2>3. QED
    BY <1>0, <2>1, <2>2, TokenKept DEF link
<1>16. ASSUME \/ LoggedIn \/ LogInRefused \/ RegisterResult \/ ErrorReceived \/ Disconnected
              \/ UsersFetched \/ InviteReceived
       PROVE  TokenInv'
  <2>1. PICK reply : Takes(reply) /\ (UsersFetched => reply = "users")
    BY <1>16 DEF LoggedIn, LogInRefused, RegisterResult, ErrorReceived, Disconnected, UsersFetched, InviteReceived
  <2>2. /\ UNCHANGED toServer /\ life # "gone" /\ reply \in Range(toClient)
        /\ Range(toClient') \subseteq Range(toClient)
    BY <1>0, <2>1, Took DEF Alive
  <2>3. UNCHANGED <<twice, late>> /\ (token' = token \/ token' = "session")
    BY <1>16
       DEF LoggedIn, LogInRefused, RegisterResult, ErrorReceived, Disconnected, UsersFetched, InviteReceived,
           TokenReceived, StoreToken, netc, history
  <2>4. \A op \in Early : op \in Ops(jobs') => op \in Ops(jobs) \/ (~twice /\ ~late' => token' = "session")
    <3>1. CASE UsersFetched
      <4>1. "users" \in Range(toClient) /\ token' = token
        BY <2>1, <2>2, <3>1 DEF UsersFetched, netc
      <4>2. ~twice /\ ~late' => token' = "session"
        BY <1>0, <2>2, <2>3, <4>1 DEF TokenInv
      <4>3. QED
        BY <4>2
    <3>2. CASE InviteReceived
      <4>1. Push(Job("reply", None))
        BY <3>2 DEF InviteReceived
      <4>2. PICK j \in Jobs : j = Job("reply", None) /\ j.op = "reply"
        BY JobsTyped
      <4>3. Ops(jobs') \subseteq Ops(jobs) \cup {"reply"}
        BY <1>0, <4>1, <4>2, Pushed
      <4>4. QED
        BY <4>3 DEF Early
    <3>3. CASE ~UsersFetched /\ ~InviteReceived
      <4>1. jobs' = jobs
        BY <1>16, <3>3 DEF LoggedIn, LogInRefused, RegisterResult, ErrorReceived, Disconnected
      <4>2. QED
        BY <4>1
    <3>4. QED
      BY <3>1, <3>2, <3>3
  <2>5. QED
    BY <1>0, <2>2, <2>3, <2>4, TokenKept
<1>17. ASSUME \/ OnDisconnected \/ OnDisconnectedControls \/ OnDisconnectedPage \/ OnDisconnectedClean
       PROVE  TokenInv'
  <2>1. /\ life # "gone" /\ UNCHANGED <<twice, late, token, jobs>>
        /\ UNCHANGED link \/ (toServer' = <<>> /\ toClient' = <<>>)
    BY <1>17
       DEF OnDisconnected, OnDisconnectedControls, OnDisconnectedPage, OnDisconnectedClean, CleanUp, Alive,
           netc, history
  <2>2. Range(toServer') \subseteq Range(toServer) /\ Range(toClient') \subseteq Range(toClient)
    BY <2>1, NothingIn DEF link
  <2>3. QED
    BY <1>0, <2>1, <2>2, TokenKept
<1>18. ASSUME ListenAgain \/ ListenNowhere, ~\E a : Abort(a) PROVE TokenInv'
  <2>1. life # "gone" /\ UNCHANGED <<link, twice, late, token, jobs>>
    BY <1>18 DEF ListenAgain, ListenNowhere, Alive, netc, history
  <2>2. QED
    BY <1>0, <2>1, TokenKept DEF link
<1>19. ASSUME Clean, ~\E a : Abort(a) PROVE TokenInv'
  BY <1>19 DEF Clean, TokenInv
<1>20. ASSUME ServerAnswers PROVE TokenInv'
  <2> DEFINE q == Head(toServer)
  <2>1. /\ life # "gone" /\ toServer # <<>> /\ toClient' = toClient \o Answers(q)
        /\ closing' = Contains(Answers(q), "closed")
        /\ toServer' = IF closing' THEN <<>> ELSE Tail(toServer)
        /\ UNCHANGED <<twice, late, token, jobs>>
    BY <1>20 DEF ServerAnswers, Alive, history
  <2>2. /\ q \in Requests /\ q \in Range(toServer)
        /\ Range(toClient') = Range(toClient) \cup Range(Answers(q))
        /\ closing' => toServer' = <<>>
        /\ ~closing' => Range(toServer) = {q} \cup Range(toServer')
    BY <1>0, <2>1, ServerAnswered
  <2>3. Range(toServer') \subseteq Range(toServer)
    BY <2>2, NothingIn
  <2> HIDE DEF q
  <2>4. "users" \in Range(Answers(q)) => (~twice /\ ~late => token = "session")
    <3>1. "users" \in Range(Answers(q)) => q.kind = "fetchUsers"
      BY <2>2, Answered
    <3>2. QED
      BY <1>0, <2>1, <2>2, <3>1 DEF TokenInv, Attempts
  <2>5. QED
    BY <1>0, <2>1, <2>2, <2>3, <2>4, TokenKept
<1>21. ASSUME ServerFails PROVE TokenInv'
  <2>1. /\ life # "gone" /\ UNCHANGED <<twice, late, token, jobs>>
        /\ (toServer # <<>> /\ toServer' = Tail(toServer)) \/ toServer' = <<>> \/ toServer' = toServer
        /\ \/ toClient' = Append(toClient, "error") \/ toClient' = Append(toClient, "closed")
           \/ toClient' = Append(toClient, "invite")
    BY <1>21 DEF ServerFails, Alive, netc, history
  <2>2. Range(toServer') \subseteq Range(toServer)
    BY <1>0, <2>1, OneLess, NothingIn DEF Linked
  <2>3. Range(toClient') \subseteq Range(toClient) \cup {"error", "closed", "invite"}
    <3>1. {"error", "closed", "invite"} \subseteq Replies
      BY DEF Replies
    <3>2. \A reply \in Replies : Range(Append(toClient, reply)) = Range(toClient) \cup {reply}
      BY <1>0, OneMore DEF Linked
    <3>3. QED
      BY <2>1, <3>1, <3>2
  <2>4. QED
    BY <1>0, <2>1, <2>2, <2>3, TokenKept
<1>22. ASSUME UNCHANGED vars PROVE TokenInv'
  BY <1>0, <1>22 DEF vars, TokenInv, Ops, link, netc, history
<1>23. QED
  BY <1>1, <1>2, <1>4, <1>7, <1>9, <1>10, <1>11, <1>12, <1>13, <1>14, <1>15, <1>16, <1>17,
     <1>18, <1>19, <1>20, <1>21, <1>22, <1>24, <1>25, <1>26
     DEF Next, UserActs, AsyncThread, NetThread, Rest

(* Steps that change neither the queue nor the connection... *)
LEMMA InsideKept ==
  ASSUME InsideInv, life # "gone", twice => twice', late => late', token' = token \/ token' = "session",
         jobs' = jobs, Connecting' => Connecting, netInitialized' = netInitialized,
         page' \in Inside => page \in Inside,
         net \in Leaving /\ page' \in Inside => net' \in Leaving
  PROVE  InsideInv'
<1>1. SUFFICES ASSUME ~twice' /\ ~late' PROVE InsideInv'
  BY DEF InsideInv
<1>2. (Ops(jobs) \cap Inner # {} => token = "session" /\ ~Connecting)'
  BY <1>1 DEF InsideInv
<1>3. AttemptsAfter(jobs, Inner)'
  BY <1>1 DEF InsideInv
<1>4. Busy' => Busy
  BY DEF Busy
<1>5. page' \in Inside => \/ netInitialized' /\ token' = "session"
                          \/ net' \in Leaving /\ ~Busy'
  BY <1>1, <1>4 DEF InsideInv
<1>6. QED
  BY <1>2, <1>3, <1>5 DEF InsideInv

(* ...that queue another job than an attempt... *)
LEMMA InsidePushed ==
  ASSUME Tokened, life # "gone", twice => twice', late => late',
         UNCHANGED <<token, async, netInitialized>>,
         page' \in Inside => page \in Inside, net \in Leaving => net' \in Leaving,
         NEW j \in Jobs, Push(j), j.op \notin Attempts,
         j.op \in Inner => (~twice /\ ~late' => netInitialized /\ token = "session")
  PROVE  InsideInv'
<1>1. SUFFICES ASSUME ~twice' /\ ~late' PROVE InsideInv'
  BY DEF InsideInv
<1>2. /\ Ops(jobs') \subseteq Ops(jobs) \cup {j.op}
      /\ AttemptsAfter(jobs, Inner) /\ (j.op \in Inner => Ops(jobs) \cap Attempts = {})
           => AttemptsAfter(jobs', Inner)
  BY QueueTyped, Pushed DEF Tokened, Owned
<1>3. j.op \in Inner => ~Busy
  BY <1>1, NotBusy DEF Tokened
<1>4. AttemptsAfter(jobs, Inner) /\ (Ops(jobs) \cap Inner # {} => token = "session" /\ ~Connecting)
  BY <1>1 DEF Tokened, InsideInv
<1>5. AttemptsAfter(jobs', Inner)
  BY <1>2, <1>3, <1>4 DEF Busy
<1>6. Connecting' <=> Connecting
  BY DEF Connecting
<1>7. Ops(jobs') \cap Inner # {} => token' = "session" /\ ~Connecting'
  BY <1>1, <1>2, <1>3, <1>4, <1>6 DEF Busy
<1>8. Busy' => Busy
  BY <1>2, <1>6 DEF Busy
<1>9. page' \in Inside => \/ netInitialized' /\ token' = "session"
                          \/ net' \in Leaving /\ ~Busy'
  BY <1>1, <1>8 DEF Tokened, InsideInv
<1>10. QED
  BY <1>5, <1>7, <1>9 DEF InsideInv

(* ...or take the next one. *)
LEMMA InsidePopped ==
  ASSUME Tokened, life # "gone", twice => twice', late => late',
         UNCHANGED <<token, async, netInitialized, net>>, jobs # <<>>, jobs' = Tail(jobs),
         page' \in Inside => page \in Inside \/ (~twice /\ ~late' => netInitialized /\ token = "session")
  PROVE  InsideInv'
<1>1. SUFFICES ASSUME ~twice' /\ ~late' PROVE InsideInv'
  BY DEF InsideInv
<1>2. /\ Ops(jobs) = {Head(jobs).op} \cup Ops(jobs')
      /\ AttemptsAfter(jobs, Inner) => AttemptsAfter(jobs', Inner)
  BY QueueTyped, Popped DEF Tokened, Owned
<1>3. Connecting' <=> Connecting
  BY DEF Connecting
<1>4. AttemptsAfter(jobs', Inner)
  BY <1>1, <1>2 DEF Tokened, InsideInv
<1>5. Ops(jobs') \cap Inner # {} => token' = "session" /\ ~Connecting'
  BY <1>1, <1>2, <1>3 DEF Tokened, InsideInv
<1>6. Busy' => Busy
  BY <1>2, <1>3 DEF Busy
<1>7. page' \in Inside => \/ netInitialized' /\ token' = "session"
                          \/ net' \in Leaving /\ ~Busy'
  BY <1>1, <1>6 DEF Tokened, InsideInv
<1>8. QED
  BY <1>4, <1>5, <1>7 DEF InsideInv

(* ...and have the list of users updated. *)
LEMMA InsideUpdated ==
  ASSUME Tokened, life # "gone", UNCHANGED <<twice, token, async, netInitialized, net>>, jobs # <<>>,
         jobs' = Append(Tail(jobs), Job("fetchUsers", None)), late' = (late \/ ~netInitialized),
         Head(jobs).op \in Inner
  PROVE  InsideInv'
<1>1. SUFFICES ASSUME ~twice, ~late, netInitialized PROVE InsideInv'
  BY DEF InsideInv
<1>2. PICK rest \in Seq(Jobs) :
        /\ rest = Tail(jobs) /\ Ops(jobs) = {Head(jobs).op} \cup Ops(rest)
        /\ AttemptsAfter(jobs, Inner) => AttemptsAfter(rest, Inner)
  BY QueueTyped, Popped DEF Tokened, Owned
<1>3. PICK j \in Jobs : j = Job("fetchUsers", None) /\ j.op = "fetchUsers"
  BY JobsTyped
<1>4. jobs' = Append(rest, j) /\ j.op \notin Inner /\ j.op \notin Attempts
  BY <1>2, <1>3 DEF Inner, Attempts
<1>5. Ops(jobs') = Ops(rest) \cup {j.op}
  <2>1. Range(jobs') = Range(rest) \cup {j}
    BY <1>4, OneMore
  <2>2. QED
    BY <2>1 DEF Ops
<1>6. /\ AttemptsAfter(jobs, Inner) /\ (Ops(jobs) \cap Inner # {} => token = "session" /\ ~Connecting)
  BY <1>1 DEF Tokened, InsideInv
<1>7. AttemptsAfter(jobs', Inner)
  BY <1>2, <1>4, <1>6, AfterAppend
<1>8. token = "session" /\ ~Connecting
  BY <1>2, <1>6
<1>9. QED
  BY <1>1, <1>7, <1>8 DEF InsideInv, Connecting

(* An attempt is queued, from a page on which nobody is logged in. *)
LEMMA InsideTaken ==
  ASSUME Tokened, NEW op \in Attempts, NEW who \in Credentials, NEW rest \in Seq(Jobs),
         life # "gone", page \notin Inside, TakeCredentials(op, who, rest),
         rest = jobs \/ rest = <<>>
  PROVE  InsideInv'
<1>1. CASE Abort("netInitialized")
  BY <1>1 DEF Abort, Tokened, InsideInv, Busy, Connecting, Ops, logic, netc, ui, history
<1>2. CASE ~Abort("netInitialized")
  <2>1. jobs' = Append(rest, Job(op, who)) \/ jobs' = rest
    BY <1>2 DEF TakeCredentials
  <2>2. UNCHANGED <<async, late, page, token>> /\ (twice => twice')
    BY <1>2 DEF TakeCredentials, netc
  <2>3. SUFFICES ASSUME ~twice /\ ~late PROVE InsideInv'
    BY <2>2 DEF InsideInv
  <2>4. Job(op, who) \in Jobs /\ Job(op, who).op = op /\ op \notin Inner
    BY JobsTyped DEF Attempts, Inner
  <2>5. AttemptsAfter(jobs, Inner) /\ (Ops(jobs) \cap Inner # {} => token = "session" /\ ~Connecting)
    BY <2>3 DEF Tokened, InsideInv
  <2>6. AttemptsAfter(jobs', Inner)
    <3>1. AttemptsAfter(rest, Inner)
      BY <2>5, AfterNothing
    <3>2. AttemptsAfter(Append(rest, Job(op, who)), Inner)
      BY <2>4, <3>1, AfterAppend
    <3>3. QED
      BY <2>1, <3>1, <3>2
  <2>7. Ops(jobs') \cap Inner # {} => token' = "session" /\ ~Connecting'
    <3>1. Range(Append(rest, Job(op, who))) = Range(rest) \cup {Job(op, who)}
      BY <2>4, OneMore
    <3>2. Ops(rest) \subseteq Ops(jobs)
      BY NothingIn
    <3>3. Ops(jobs') \subseteq Ops(jobs) \cup {op}
      <4>1. CASE jobs' = rest
        BY <3>2, <4>1
      <4>2. CASE jobs' = Append(rest, Job(op, who))
        <5>1. Ops(jobs') = Ops(rest) \cup {op}
          BY <2>4, <3>1, <4>2 DEF Ops
        <5>2. QED
          BY <3>2, <5>1
      <4>3. QED
        BY <2>1, <4>1, <4>2
    <3>4. QED
      BY <2>2, <2>4, <2>5, <3>3 DEF Connecting
  <2>8. page' \notin Inside
    BY <2>2
  <2>9. QED
    BY <2>6, <2>7, <2>8 DEF InsideInv
<1>3. QED
  BY <1>1, <1>2

(* A connection is being made: the pages are those on which to log in. *)
LEMMA OutsideBusy ==
  ASSUME Tokened, life # "gone", ~twice, ~late, Busy
  PROVE  page \notin Inside
BY NotBusy DEF Tokened, InsideInv

LEMMA InsideNext == ASSUME Tokened, [Next]_vars, ~Restart, ~early' PROVE InsideInv'
<1>0. Linked /\ jobs \in Seq(Jobs) /\ InsideInv /\ Wired /\ Owned
  BY QueueTyped DEF Tokened, Owned
<1>1. ASSUME NEW a, Abort(a) PROVE InsideInv'
  BY <1>0, <1>1 DEF Abort, InsideInv, Busy, Connecting, Ops, logic, netc, ui, history
<1>2. ASSUME PageQueried \/ AutoLoggingInChanged \/ PageChanged \/ ConversationLeft \/ Quit,
             ~Abort("databaseInitialized")
      PROVE  InsideInv'
  <2>1. life # "gone" /\ UNCHANGED <<twice, late, token, jobs, async, net, netInitialized>>
    BY <1>2 DEF PageQueried, AutoLoggingInChanged, PageChanged, ConversationLeft, Quit, Acts, Alive, logic, netc, history
  <2>2. page' \in Inside => page \in Inside
    BY <1>2 DEF PageQueried, AutoLoggingInChanged, PageChanged, ConversationLeft, Quit, Acts, Inside, ui
  <2>3. QED
    BY <1>0, <2>1, <2>2, InsideKept DEF Connecting
<1>3. ASSUME NEW who \in Credentials, CredentialsEntered(who) PROVE InsideInv'
  <2>1. page \in Attempts /\ page \notin Inside /\ TakeCredentials(page, who, jobs) /\ life # "gone"
    BY <1>3 DEF CredentialsEntered, Attempts, Inside, Alive
  <2>2. QED
    BY <1>0, <2>1, InsideTaken
<1>4. ASSUME UserChosen \/ ShutdownRequested \/ UpdateClicked, ~Abort("databaseInitialized") PROVE InsideInv'
  <2>1. life # "gone" /\ page \in Inside /\ UNCHANGED <<twice, token, async, netInitialized, net, page>>
    BY <1>4 DEF UserChosen, ShutdownRequested, UpdateClicked, Acts, Alive, Inside, logic, netc, history
  <2>2. (late => late') /\ (~late' => netInitialized)
    <3>1. CASE UserChosen \/ UpdateClicked
      <4>1. late' = (late \/ ~netInitialized)
        BY <1>4, <3>1 DEF UserChosen, UpdateClicked
      <4>2. QED
        BY <4>1
    <3>2. CASE ShutdownRequested
      BY <3>2 DEF ShutdownRequested, history
    <3>3. QED
      BY <1>4, <3>1, <3>2
  <2>3. ~twice /\ ~late' => netInitialized /\ token = "session"
    BY <2>1, <2>2, InsideToken
  <2>4. PICK op \in Inner \cup Early : Push(Job(op, None)) \/ jobs' = jobs
    <3>1. CASE UserChosen
      <4>1. (\E op \in {"continue", "start", "delete"} : Push(Job(op, None))) \/ jobs' = jobs
        BY <3>1 DEF UserChosen
      <4>2. QED
        BY <4>1 DEF Inner
    <3>2. CASE ShutdownRequested
      <4>1. Push(Job("shutdown", None))
        BY <3>2 DEF ShutdownRequested
      <4>2. QED
        BY <4>1 DEF Inner
    <3>3. CASE UpdateClicked
      <4>1. Push(Job("fetchUsers", None))
        BY <1>4, <3>3 DEF UpdateClicked
      <4>2. QED
        BY <4>1 DEF Early
    <3>4. QED
      BY <1>4, <3>1, <3>2, <3>3
  <2>5. CASE Push(Job(op, None))
    <3>1. PICK j \in Jobs : j = Job(op, None) /\ j.op = op /\ j.op \notin Attempts
      BY JobsTyped DEF Inner, Early, Attempts
    <3>2. Push(j)
      BY <2>5, <3>1
    <3>3. QED
      BY <2>1, <2>2, <2>3, <3>1, <3>2, InsidePushed
  <2>6. CASE jobs' = jobs
    BY <1>0, <2>1, <2>2, <2>6, InsideKept DEF Connecting
  <2>7. QED
    BY <2>4, <2>5, <2>6
<1>5. ASSUME BroadcastRequested \/ ServerAnswers \/ ServerFails PROVE InsideInv'
  <2>1. CASE Abort("netSendBroadcast")
    BY <1>1, <2>1
  <2>2. CASE ~Abort("netSendBroadcast")
    <3>1. life # "gone" /\ UNCHANGED <<twice, late, token, jobs, async, net, netInitialized, page>>
      BY <1>5, <2>2 DEF BroadcastRequested, ServerAnswers, ServerFails, Alive, logic, netc, ui, history
    <3>2. QED
      BY <1>0, <3>1, InsideKept DEF Connecting
  <2>3. QED
    BY <2>1, <2>2
<1>7. ASSUME RunShow PROVE InsideInv'
  <2>1. life # "gone" /\ jobs # <<>> /\ Head(jobs).op = "show"
    BY <1>7 DEF RunShow, Runs, Alive
  <2>2. Starting
    BY <1>0, <2>1, Popped DEF Wired, Base, JobInv
  <2>3. Tail(jobs) = <<>> /\ <<>> \in Seq(Jobs) /\ page \notin Inside
    BY <2>2 DEF Starting, Inside
  <2>4. CASE autoLoggingIn
    <3>1. TakeCredentials("logIn", saved, <<>>) /\ "logIn" \in Attempts
      BY <1>7, <2>3, <2>4 DEF RunShow, Attempts
    <3>2. saved \in Credentials
      BY <1>0, <2>2, <2>4, TypedMeans DEF Starting, Wired, Base, Typed, DiskTypes
    <3>3. QED
      BY <2>1, <2>3, <3>1, <3>2, InsideTaken
  <2>5. CASE ~autoLoggingIn
    <3>1. /\ jobs' = Tail(jobs) /\ page' \notin Inside
          /\ UNCHANGED <<twice, late, token, async, netInitialized, net>>
      BY <1>7, <2>5 DEF RunShow, Pop, Inside, logic, netc, history
    <3>2. QED
      BY <2>1, <3>1, InsidePopped
  <2>6. QED
    BY <2>4, <2>5
<1>8. ASSUME RunCredentials PROVE InsideInv'
  <2>1. /\ life # "gone" /\ jobs # <<>> /\ jobs' = Tail(jobs) /\ Head(jobs).op \in Attempts
        /\ UNCHANGED <<twice, late>>
    BY <1>8 DEF RunCredentials, Runs, Pop, Alive, Attempts, history
  <2>2. page' = "logIn" \/ page' = page
    BY <1>8 DEF RunCredentials, AttemptFails, ui
  <2>3. SUFFICES ASSUME ~twice /\ ~late PROVE InsideInv'
    BY <2>1 DEF InsideInv
  <2>4. /\ Head(jobs).op \in Ops(jobs)
        /\ AttemptsAfter(jobs, Inner) => AttemptsAfter(jobs', Inner) /\ Ops(jobs') \cap Inner = {}
    BY <1>0, <2>1, Popped
  <2>5. AttemptsAfter(jobs', Inner) /\ Ops(jobs') \cap Inner = {}
    BY <1>0, <2>1, <2>3, <2>4 DEF InsideInv
  <2>6. page' \notin Inside
    <3>1. Busy
      BY <2>1, <2>4 DEF Busy
    <3>2. QED
      BY <2>1, <2>2, <2>3, <3>1, OutsideBusy DEF Inside
  <2>7. QED
    BY <2>5, <2>6 DEF InsideInv
<1>9. ASSUME NetInit \/ NetInitReturns \/ NetInitialized PROVE InsideInv'
  <2>1. CASE Abort("netThis") \/ Abort("netInit")
    BY <1>1, <2>1
  <2>2. CASE ~(Abort("netThis") \/ Abort("netInit"))
    <3>1. life # "gone" /\ Connecting /\ UNCHANGED <<twice, late, jobs>>
      BY <1>9, <2>2 DEF NetInit, NetInitReturns, NetInitialized, Connecting, Alive, history
    <3>2. page' = "logIn" \/ page' = page
      BY <1>9, <2>2 DEF NetInit, NetInitReturns, NetInitialized, AttemptFails, ui
    <3>3. SUFFICES ASSUME ~twice /\ ~late PROVE InsideInv'
      BY <3>1 DEF InsideInv
    <3>4. AttemptsAfter(jobs, Inner) /\ Ops(jobs) \cap Inner = {}
      BY <1>0, <3>1, <3>3 DEF InsideInv
    <3>5. page' \notin Inside
      <4>1. Busy
        BY <3>1 DEF Busy
      <4>2. QED
        BY <3>1, <3>2, <3>3, <4>1, OutsideBusy DEF Inside
    <3>6. QED
      BY <3>1, <3>4, <3>5 DEF InsideInv
  <2>3. QED
    BY <2>1, <2>2
<1>10. ASSUME HandshakeStep \/ HandshakeFails \/ SendCredentials PROVE InsideInv'
  <2>1. CASE Abort("netLogIn")
    BY <1>1, <2>1
  <2>2. CASE ~Abort("netLogIn")
    <3>1. /\ life # "gone" /\ UNCHANGED <<twice, late, token, jobs, net, netInitialized, page>>
          /\ async = "handshake" \/ async' = "idle"
      BY <1>10, <2>2 DEF HandshakeStep, HandshakeFails, SendCredentials, Alive, logic, netc, ui, history
    <3>2. QED
      BY <1>0, <3>1, InsideKept DEF Connecting
  <2>3. QED
    BY <2>1, <2>2
<1>11. ASSUME NEW op \in {"fetchUsers", "shutdown"}, NEW a, RunRequest(op, a) PROVE InsideInv'
  <2>1. CASE Abort(a)
    BY <1>1, <2>1
  <2>2. CASE ~Abort(a)
    <3>1. /\ life # "gone" /\ jobs # <<>> /\ jobs' = Tail(jobs)
          /\ UNCHANGED <<twice, late, token, async, netInitialized, net, page>>
      BY <1>11, <2>2 DEF RunRequest, Runs, Pop, Alive, logic, netc, ui, history
    <3>2. QED
      BY <3>1, InsidePopped
  <2>3. QED
    BY <2>1, <2>2
<1>12. ASSUME RunProcessUsers \/ RunContinue PROVE InsideInv'
  <2>1. CASE Abort("netCurrentUserId") \/ Abort("databaseInitialized")
    BY <1>1, <2>1
  <2>2. CASE ~(Abort("netCurrentUserId") \/ Abort("databaseInitialized"))
    <3>1. /\ life # "gone" /\ jobs # <<>> /\ Head(jobs).op \in Early \cup Inner /\ jobs' = Tail(jobs)
          /\ UNCHANGED <<twice, token, async, netInitialized, net>>
      BY <1>12, <2>2 DEF RunProcessUsers, RunContinue, Runs, Pop, Alive, Early, Inner, logic, netc
    <3>2. (late => late') /\ (~late' => netInitialized)
      BY <1>12, <2>2 DEF RunProcessUsers, RunContinue
    <3>3. Head(jobs).op \in Ops(jobs)
      BY <1>0, <3>1, Popped
    <3>4. ~twice /\ ~late' => netInitialized /\ token = "session"
      BY <1>0, <3>1, <3>2, <3>3 DEF Tokened, TokenInv, InsideInv
    <3>5. QED
      BY <3>1, <3>2, <3>4, InsidePopped
  <2>3. QED
    BY <2>1, <2>2
<1>21. ASSUME \/ RunSetUp("start", "netCreateConversation")
              \/ RunSetUp("reply", "netReplyToConversationSetUpInvite")
              \/ RunDelete,
              ~\E a : Abort(a)
       PROVE  InsideInv'
  <2>1. /\ life # "gone" /\ jobs # <<>> /\ Head(jobs).op \in Inner
        /\ UNCHANGED <<twice, token, async, netInitialized, net>>
    BY <1>21 DEF RunSetUp, RunDelete, Runs, Alive, Inner, logic, netc
  <2>2. \/ jobs' = Tail(jobs) /\ UNCHANGED <<page, late>>
        \/ jobs' = Append(Tail(jobs), Job("fetchUsers", None)) /\ late' = (late \/ ~netInitialized)
    BY <1>21 DEF RunSetUp, RunDelete, UpdateUsersList, Pop
  <2>3. QED
    BY <2>1, <2>2, InsidePopped, InsideUpdated
<1>22. ASSUME InviteReceived PROVE InsideInv'
  <2>1. /\ Takes("invite") /\ Push(Job("reply", None)) /\ life # "gone" /\ netInitialized /\ net = "idle"
        /\ UNCHANGED <<twice, late, token, async, netInitialized, page, net, netThis, loggedInAs>>
    BY <1>22 DEF InviteReceived, Takes, Alive, logic, netc, history
  <2>2. token = "session"
    BY <1>0, <2>1, InviteTook DEF Tokened
  <2>3. PICK j \in Jobs : j = Job("reply", None) /\ j.op \notin Attempts
    BY JobsTyped DEF Attempts
  <2>4. Push(j)
    BY <2>1, <2>3
  <2>5. QED
    BY <2>1, <2>2, <2>3, <2>4, InsidePushed
<1>13. ASSUME OnLoggedIn \/ UsersFetched PROVE InsideInv'
  <2>1. PICK op \in Early : Push(Job(op, None))
    BY <1>13 DEF OnLoggedIn, UsersFetched, Early
  <2>2. /\ life # "gone" /\ net \notin Leaving
        /\ UNCHANGED <<twice, late, token, async, netInitialized, page>>
    BY <1>13 DEF OnLoggedIn, UsersFetched, Takes, Alive, Leaving, logic, netc, ui, history
  <2>3. Job(op, None) \in Jobs /\ Job(op, None).op = op /\ op \notin Attempts /\ op \notin Inner
    BY JobsTyped DEF Early, Attempts, Inner
  <2>4. QED
    BY <2>1, <2>2, <2>3, InsidePushed
<1>14. ASSUME LoggedIn \/ LogInRefused \/ RegisterResult \/ ErrorReceived PROVE InsideInv'
  <2>1. /\ life # "gone" /\ net = "idle" /\ UNCHANGED <<twice, late, jobs, async, netInitialized>>
        /\ token' = token \/ token' = "session"
    BY <1>14
       DEF LoggedIn, LogInRefused, RegisterResult, ErrorReceived, Takes, Alive, TokenReceived, StoreToken,
           logic, netc, history
  <2>2. page' \in Inside => page \in Inside
    BY <1>14 DEF LoggedIn, LogInRefused, RegisterResult, ErrorReceived, ui, Inside
  <2>3. QED
    BY <1>0, <2>1, <2>2, InsideKept DEF Connecting, Leaving
<1>15. ASSUME Disconnected PROVE InsideInv'
  <2>1. /\ life # "gone" /\ netInitialized /\ net = "idle" /\ net' = "disconnected"
        /\ UNCHANGED <<twice, late, token, jobs, async, page>>
    BY <1>15 DEF Disconnected, Takes, Alive, netc, ui, history
  <2>2. SUFFICES ASSUME ~twice /\ ~late PROVE InsideInv'
    BY <2>1 DEF InsideInv
  <2>3. ~Busy'
    BY <1>0, <2>1, <2>2, NotBusy DEF Busy, Connecting
  <2>4. (Ops(jobs) \cap Inner # {} => token = "session" /\ ~Connecting)' /\ AttemptsAfter(jobs, Inner)'
    BY <1>0, <2>1, <2>2 DEF InsideInv, Connecting
  <2>5. QED
    BY <2>1, <2>3, <2>4 DEF InsideInv, Leaving
<1>16. ASSUME \/ OnDisconnected \/ OnDisconnectedControls \/ OnDisconnectedPage \/ OnDisconnectedClean
       PROVE  InsideInv'
  <2>1. life # "gone" /\ UNCHANGED <<twice, late, token, jobs, async, netInitialized>>
    BY <1>16
       DEF OnDisconnected, OnDisconnectedControls, OnDisconnectedPage, OnDisconnectedClean, Alive,
           logic, netc, history
  <2>2. /\ page' \in Inside => page \in Inside
        /\ net \in Leaving /\ page' \in Inside => net' \in Leaving
    BY <1>16
       DEF OnDisconnected, OnDisconnectedControls, OnDisconnectedPage, OnDisconnectedClean, ui, Inside, Leaving
  <2>3. QED
    BY <1>0, <2>1, <2>2, InsideKept DEF Connecting
<1>17. ASSUME ListenAgain \/ ListenNowhere, ~\E a : Abort(a) PROVE InsideInv'
  <2>1. /\ life # "gone" /\ net = "listen"
        /\ UNCHANGED <<twice, late, token, jobs, async, netInitialized, page>>
    BY <1>17 DEF ListenAgain, ListenNowhere, Alive, logic, netc, ui, history
  <2>2. QED
    BY <1>0, <2>1, InsideKept DEF Connecting, Leaving
<1>18. ASSUME Clean, ~\E a : Abort(a) PROVE InsideInv'
  BY <1>18 DEF Clean, InsideInv
<1>19. ASSUME UNCHANGED vars PROVE InsideInv'
  BY <1>0, <1>19 DEF vars, InsideInv, Busy, Connecting, Ops, logic, netc, ui, history
<1>20. QED
  BY <1>1, <1>2, <1>3, <1>4, <1>5, <1>7, <1>8, <1>9, <1>10, <1>11, <1>12, <1>13, <1>14, <1>15, <1>16, <1>17,
     <1>18, <1>19, <1>21, <1>22
     DEF Next, UserActs, AsyncThread, NetThread, Rest

LEMMA InitTokened == Init => Tokened
<1> SUFFICES ASSUME Init PROVE Tokened
  OBVIOUS
<1>1. /\ jobs = <<Job("show", None)>> /\ Ops(jobs) = {"show"} /\ Range(toServer) = {} /\ Range(toClient) = {}
      /\ page = "splash"
  BY JobsTyped, NothingIn DEF Init
<1>2. AttemptsAfter(jobs, Inner)
  BY <1>1 DEF AttemptsAfter
<1>3. TokenInv /\ InsideInv /\ InviteInv
  BY <1>1, <1>2 DEF Init, TokenInv, InsideInv, InviteInv, Early, Inner, Inside
<1>4. QED
  BY <1>3, InitOwned DEF Tokened

TokenedInv == OwnedInv /\ (early \/ Tokened)

LEMMA NextTokened == TokenedInv /\ [Next]_vars => TokenedInv'
<1> SUFFICES ASSUME TokenedInv, [Next]_vars, ~early' PROVE Tokened'
  BY NextOwned DEF TokenedInv
<1>1. Owned'
  BY NextOwned DEF TokenedInv, OwnedInv
<1>2. CASE Restart
  BY <1>1, <1>2, RestartToken DEF TokenedInv, OwnedInv, Tokened
<1>3. CASE ~Restart
  <2>1. Tokened
    BY <1>3, EarlyStays DEF TokenedInv
  <2>2. InviteInv' /\ TokenInv' /\ InsideInv'
    BY <1>3, <2>1, InviteNext, TokenNext, InsideNext DEF Tokened
  <2>3. QED
    BY <1>1, <2>2 DEF Tokened
<1>4. QED
  BY <1>2, <1>3

(* What is asked of the server after the log in carries the token of its   *)
(* session: the net thread has stored it before the job that asks is       *)
(* queued, and no later connection takes it away under that job; but for   *)
(* what a page opened late, or a job that ended late, has left over, and   *)
(* for two attempts under way at once.                                     *)
THEOREM RequestsCarryTheToken == Spec => []RequestsAuthenticated
<1>1. Init => TokenedInv
  BY InitTokened, InitOwned DEF TokenedInv, OwnedInv, Owned, Wired
<1>2. TokenedInv /\ [Next]_vars => TokenedInv'
  BY NextTokened
<1>3. TokenedInv => RequestsAuthenticated
  <2> SUFFICES ASSUME TokenedInv, ~twice, ~late, NEW q \in Range(toServer)
               PROVE  q.kind \in Attempts \/ q.token = "session"
    BY DEF RequestsAuthenticated
  <2>1. life # "gone"
    BY NothingIn DEF TokenedInv, OwnedInv, Base, GoneInv
  <2>2. ~early
    BY <2>1, NothingIn DEF TokenedInv, OwnedInv, DoomInv
  <2>3. QED
    BY <2>1, <2>2 DEF TokenedInv, Tokened, TokenInv
<1>4. QED
  BY <1>1, <1>2, <1>3, PTL DEF Spec

-----------------------------------------------------------------------------
(* Logging in stays possible: nothing comes to rest half way.              *)

(* A job that fetches or shows the users is queued behind every attempt. *)
Behind(queue) ==
  \E i \in 1..Len(queue) : /\ queue[i].op \in Early
                           /\ \A k \in 1..Len(queue) : i < k => queue[k].op \notin Attempts

LEMMA BehindAppend ==
  ASSUME NEW s \in Seq(Jobs), NEW j \in Jobs,
         \/ j.op \in Early
         \/ Behind(s) /\ j.op \notin Attempts
  PROVE  Behind(Append(s, j))
<1> DEFINE t == Append(s, j)
<1>1. /\ t \in Seq(Jobs) /\ Len(t) = Len(s) + 1 /\ Len(s) \in Nat
      /\ t[Len(s) + 1] = j /\ \A i \in 1..Len(s) : t[i] = s[i]
  OBVIOUS
<1> HIDE DEF t
<1>2. CASE j.op \in Early
  <2>1. Len(s) + 1 \in 1..Len(t) /\ \A k \in 1..Len(t) : ~(Len(s) + 1 < k)
    BY <1>1
  <2>2. QED
    BY <1>1, <1>2, <2>1 DEF Behind, t
<1>3. CASE Behind(s) /\ j.op \notin Attempts
  <2>1. PICK i \in 1..Len(s) : s[i].op \in Early /\ \A k \in 1..Len(s) : i < k => s[k].op \notin Attempts
    BY <1>3 DEF Behind
  <2>2. i \in 1..Len(t) /\ t[i].op \in Early
    BY <1>1, <2>1
  <2>3. ASSUME NEW k \in 1..Len(t), i < k PROVE t[k].op \notin Attempts
    <3>1. CASE k \in 1..Len(s)
      BY <1>1, <2>1, <2>3, <3>1
    <3>2. CASE k = Len(s) + 1
      BY <1>1, <1>3, <3>2
    <3>3. QED
      BY <1>1, <3>1, <3>2
  <2>4. QED
    BY <2>2, <2>3 DEF Behind, t
<1>4. QED
  BY <1>2, <1>3

LEMMA BehindTail ==
  ASSUME NEW s \in Seq(Jobs), s # <<>>, Behind(s)
  PROVE  \/ Behind(Tail(s))
         \/ Head(s).op \in Early /\ Ops(Tail(s)) \cap Attempts = {}
<1> DEFINE t == Tail(s)
<1>1. /\ t \in Seq(Jobs) /\ Len(s) \in Nat \ {0} /\ Len(t) = Len(s) - 1
      /\ Head(s) = s[1] /\ \A i \in 1..Len(t) : t[i] = s[i + 1]
  OBVIOUS
<1> HIDE DEF t
<1>2. PICK i \in 1..Len(s) : s[i].op \in Early /\ \A k \in 1..Len(s) : i < k => s[k].op \notin Attempts
  BY DEF Behind
<1>3. CASE i = 1
  <2>1. ASSUME NEW j \in Range(t) PROVE j.op \notin Attempts
    <3>1. PICK k \in 1..Len(t) : j = t[k]
      BY <1>1, <2>1, InRange
    <3>2. k + 1 \in 1..Len(s) /\ i < k + 1
      BY <1>1, <1>3
    <3>3. s[k + 1].op \notin Attempts
      BY <1>2, <3>2
    <3>4. QED
      BY <1>1, <3>1, <3>3
  <2>2. QED
    BY <1>1, <1>2, <1>3, <2>1 DEF Ops, t
<1>4. CASE i # 1
  <2>1. i - 1 \in 1..Len(t) /\ (i - 1) + 1 = i
    BY <1>1, <1>4
  <2>2. t[i - 1].op \in Early
    BY <1>1, <1>2, <2>1
  <2>3. ASSUME NEW k \in 1..Len(t), i - 1 < k PROVE t[k].op \notin Attempts
    <3>1. k + 1 \in 1..Len(s) /\ i < k + 1
      BY <1>1, <2>3
    <3>2. s[k + 1].op \notin Attempts
      BY <1>2, <3>1
    <3>3. QED
      BY <1>1, <3>2
  <2>4. QED
    BY <2>1, <2>2, <2>3 DEF Behind, t
<1>5. QED
  BY <1>3, <1>4

(* A user who is no longer logged out has an attempt under way or is       *)
(* connected; or is about to be logged out again.                          *)
StateInv ==
  ~late /\ life # "gone" /\ state # "unauthenticated" /\ ~netInitialized => Busy \/ net = "disconnected"

(* A connection on which the pages of the session are not open, or behind  *)
(* which attempts wait, has something coming that goes on with it.         *)
Pending ==
  \/ async = "credentials" \/ closing \/ net = "loggedIn"
  \/ \E q \in Range(toServer) : q.kind \in Attempts \cup {"fetchUsers"}
  \/ "loggedIn" \in Range(toClient) \/ "users" \in Range(toClient)
  \/ Behind(jobs)

PendingInv ==
  life = "running" /\ netInitialized /\ (page \notin Inside \/ Ops(jobs) \cap Attempts # {}) => Pending

LEMMA StateKept ==
  ASSUME StateInv, life # "gone", late => late', state' = state \/ state' = "unauthenticated",
         netInitialized' = netInitialized, Busy => Busy', net = "disconnected" => net' = "disconnected"
  PROVE  StateInv'
BY DEF StateInv

LEMMA StateNext == ASSUME Wired, StateInv, [Next]_vars, ~Restart, ~early' PROVE StateInv'
<1>0. Linked /\ jobs \in Seq(Jobs)
  BY QueueTyped
<1>1. ASSUME NEW a, Abort(a) PROVE StateInv'
  BY <1>1 DEF Abort, StateInv, Busy, Connecting, Ops, logic, history
<1>2. ASSUME NEW op \in Attempts, NEW who \in Credentials, NEW rest \in Seq(Jobs), life = "running",
             TakeCredentials(op, who, rest)
      PROVE  StateInv'
  <2>1. CASE Abort("netInitialized")
    BY <1>1, <2>1
  <2>2. CASE ~Abort("netInitialized")
    <3>1. jobs' = Append(rest, Job(op, who))
      BY <1>2, <2>2 DEF TakeCredentials
    <3>2. Range(jobs') = Range(rest) \cup {Job(op, who)} /\ Job(op, who).op = op
      BY <3>1, JobsTyped, OneMore
    <3>3. op \in Ops(jobs')
      BY <3>2 DEF Ops
    <3>4. QED
      BY <3>3 DEF StateInv, Busy
  <2>3. QED
    BY <2>1, <2>2
<1>3. ASSUME NEW who \in Credentials, CredentialsEntered(who) PROVE StateInv'
  <2>1. page \in Attempts /\ TakeCredentials(page, who, jobs) /\ life = "running"
    BY <1>3 DEF CredentialsEntered, Attempts
  <2>2. QED
    BY <1>0, <1>2, <2>1
<1>4. ASSUME PageQueried \/ AutoLoggingInChanged \/ PageChanged \/ ConversationLeft \/ Quit,
             ~Abort("databaseInitialized")
      PROVE  StateInv'
  <2>1. life # "gone" /\ UNCHANGED <<late, state, jobs, async, net, netInitialized>>
    BY <1>4 DEF PageQueried, AutoLoggingInChanged, PageChanged, ConversationLeft, Quit, Acts, Alive, logic, history
  <2>2. QED
    BY <2>1, StateKept DEF Busy, Connecting
<1>5. ASSUME UserChosen PROVE StateInv'
  <2>1. late' = (late \/ ~netInitialized) /\ netInitialized' = netInitialized
    BY <1>5 DEF UserChosen
  <2>2. QED
    BY <2>1 DEF StateInv
(* What is done late is not spoken of. *)
<1>22. ASSUME late' = (late \/ ~netInitialized), netInitialized' = netInitialized PROVE StateInv'
  BY <1>22 DEF StateInv
<1>23. ASSUME UpdateClicked, ~Abort("databaseInitialized") PROVE StateInv'
  BY <1>22, <1>23 DEF UpdateClicked, logic
<1>6. ASSUME ShutdownRequested \/ OnLoggedIn PROVE StateInv'
  <2>1. netInitialized /\ netInitialized' = netInitialized
    BY <1>6 DEF ShutdownRequested, OnLoggedIn, Alive, Wired, ConnInv, logic
  <2>2. QED
    BY <2>1 DEF StateInv
<1>7. ASSUME BroadcastRequested \/ ServerAnswers \/ ServerFails PROVE StateInv'
  <2>1. CASE Abort("netSendBroadcast")
    BY <1>1, <2>1
  <2>2. CASE ~Abort("netSendBroadcast")
    <3>1. life # "gone" /\ UNCHANGED <<late, state, jobs, async, net, netInitialized>>
      BY <1>7, <2>2 DEF BroadcastRequested, ServerAnswers, ServerFails, Alive, logic, history
    <3>2. QED
      BY <3>1, StateKept DEF Busy, Connecting
  <2>3. QED
    BY <2>1, <2>2
<1>9. ASSUME RunShow PROVE StateInv'
  <2>1. life = "running" /\ life # "gone" /\ jobs # <<>> /\ Head(jobs).op = "show"
    BY <1>9 DEF RunShow, Runs
  <2>2. Starting
    BY <1>0, <2>1, Popped DEF Wired, Base, JobInv
  <2>3. CASE autoLoggingIn
    <3>1. /\ TakeCredentials("logIn", saved, Tail(jobs)) /\ "logIn" \in Attempts
          /\ Tail(jobs) \in Seq(Jobs)
      BY <1>0, <1>9, <2>1, <2>3, Popped DEF RunShow, Attempts
    <3>2. saved \in Credentials
      BY <2>2, <2>3, TypedMeans DEF Starting, Wired, Base, Typed, DiskTypes
    <3>3. QED
      BY <1>2, <2>1, <3>1, <3>2
  <2>4. CASE ~autoLoggingIn
    <3>1. state' = "unauthenticated"
      BY <1>9, <2>2, <2>4 DEF RunShow, Starting, logic
    <3>2. QED
      BY <3>1 DEF StateInv
  <2>5. QED
    BY <2>3, <2>4
<1>10. ASSUME RunCredentials PROVE StateInv'
  <2>1. async' = "netInit" \/ state' = "unauthenticated"
    BY <1>10 DEF RunCredentials, AttemptFails
  <2>2. QED
    BY <2>1 DEF StateInv, Busy, Connecting
<1>11. ASSUME NetInit PROVE StateInv'
  <2>1. CASE Abort("netThis")
    BY <1>1, <2>1
  <2>2. CASE ~Abort("netThis")
    <3>1. async' = "handshake" \/ state' = "unauthenticated"
      BY <1>11, <2>2 DEF NetInit, AttemptFails
    <3>2. QED
      BY <3>1 DEF StateInv, Busy, Connecting
  <2>3. QED
    BY <2>1, <2>2
<1>12. ASSUME HandshakeStep \/ HandshakeFails PROVE StateInv'
  <2>1. async' \in {"handshake", "compare"}
    BY <1>12 DEF HandshakeStep, HandshakeFails, StopWaiting, TimesOut
  <2>2. QED
    BY <2>1 DEF StateInv, Busy, Connecting
<1>13. ASSUME NetInitReturns \/ NetInitialized, ~Abort("netInit") PROVE StateInv'
  <2>1. netInitialized' \/ state' = "unauthenticated" \/ async' = "secured"
    BY <1>13 DEF NetInitReturns, NetInitialized, AttemptFails
  <2>2. QED
    BY <2>1 DEF StateInv, Busy, Connecting
<1>14. ASSUME SendCredentials PROVE StateInv'
  <2>1. CASE Abort("netLogIn")
    BY <1>1, <2>1
  <2>2. CASE ~Abort("netLogIn")
    <3>1. /\ life # "gone" /\ async = "credentials" /\ UNCHANGED <<late, state, jobs, net, netInitialized>>
      BY <1>14, <2>2 DEF SendCredentials, Alive, logic, history
    <3>2. QED
      BY <3>1, StateKept DEF Busy, Connecting
  <2>3. QED
    BY <2>1, <2>2
<1>24. ASSUME life # "gone", jobs # <<>>, Head(jobs).op \notin Attempts, jobs' = Tail(jobs),
              UNCHANGED <<state, async, net, netInitialized>>, late => late'
       PROVE  StateInv'
  <2>1. Ops(jobs) \cap Attempts = Ops(jobs') \cap Attempts
    BY <1>0, <1>24, Popped
  <2>2. QED
    BY <1>24, <2>1, StateKept DEF Busy, Connecting
<1>15. ASSUME \/ RunRequest("fetchUsers", "netFetchUsers") \/ RunRequest("shutdown", "netShutdownServer")
              \/ RunProcessUsers \/ RunContinue,
              ~\E a : Abort(a)
       PROVE  StateInv'
  <2>1. /\ life # "gone" /\ jobs # <<>> /\ Head(jobs).op \notin Attempts /\ jobs' = Tail(jobs)
        /\ UNCHANGED <<state, async, net, netInitialized>>
    BY <1>15 DEF RunRequest, RunProcessUsers, RunContinue, Runs, Pop, Alive, Attempts, logic
  <2>2. late => late'
    BY <1>15 DEF RunRequest, RunProcessUsers, RunContinue, history
  <2>3. QED
    BY <1>24, <2>1, <2>2
<1>25. ASSUME \/ RunSetUp("start", "netCreateConversation")
              \/ RunSetUp("reply", "netReplyToConversationSetUpInvite")
              \/ RunDelete,
              ~\E a : Abort(a)
       PROVE  StateInv'
  <2>1. /\ life # "gone" /\ jobs # <<>> /\ Head(jobs).op \notin Attempts
        /\ UNCHANGED <<async, net, netInitialized>>
    BY <1>25 DEF RunSetUp, RunDelete, Runs, Alive, Attempts, logic
  <2>2. \/ jobs' = Tail(jobs) /\ UNCHANGED <<state, late>>
        \/ late' = (late \/ ~netInitialized)
    BY <1>25 DEF RunSetUp, RunDelete, UpdateUsersList, Pop
  <2>3. QED
    BY <1>22, <1>24, <2>1, <2>2
<1>16. ASSUME LoggedIn \/ LogInRefused \/ RegisterResult \/ UsersFetched \/ InviteReceived \/ ErrorReceived
       PROVE  StateInv'
  <2>1. netInitialized'
    BY <1>16 DEF LoggedIn, LogInRefused, RegisterResult, UsersFetched, InviteReceived, ErrorReceived, Takes, logic
  <2>2. QED
    BY <2>1 DEF StateInv
<1>17. ASSUME Disconnected \/ OnDisconnected PROVE StateInv'
  <2>1. net' = "disconnected" \/ state' = "unauthenticated"
    BY <1>17 DEF Disconnected, OnDisconnected, UserGone, ForgetUser
  <2>2. QED
    BY <2>1 DEF StateInv
<1>18. ASSUME OnDisconnectedControls \/ OnDisconnectedPage \/ OnDisconnectedClean
              \/ ListenAgain \/ ListenNowhere,
              ~\E a : Abort(a)
       PROVE  StateInv'
  <2>1. life # "gone" /\ net # "disconnected" /\ UNCHANGED <<late, state, jobs, async, netInitialized>>
    BY <1>18
       DEF OnDisconnectedControls, OnDisconnectedPage, OnDisconnectedClean, ListenAgain, ListenNowhere, Alive,
           logic, history
  <2>2. QED
    BY <2>1, StateKept DEF Busy, Connecting
<1>19. ASSUME Clean, ~\E a : Abort(a) PROVE StateInv'
  <2>1. life' = "gone"
    BY <1>19 DEF Clean
  <2>2. QED
    BY <2>1 DEF StateInv
<1>20. ASSUME UNCHANGED vars PROVE StateInv'
  BY <1>20 DEF vars, StateInv, Busy, Connecting, Ops, logic, history
<1>21. QED
  BY <1>1, <1>3, <1>4, <1>5, <1>6, <1>7, <1>9, <1>10, <1>11, <1>12, <1>13, <1>14, <1>15, <1>16, <1>17,
     <1>18, <1>19, <1>20, <1>23, <1>25
     DEF Next, UserActs, AsyncThread, NetThread, Rest

LEMMA PendingKept ==
  ASSUME PendingInv, life' = "running" => life = "running", netInitialized' => netInitialized,
         page' \notin Inside => page \notin Inside,
         Ops(jobs') \cap Attempts # {} => Ops(jobs) \cap Attempts # {},
         Pending => Pending'
  PROVE  PendingInv'
BY DEF PendingInv

LEMMA PendingNext == ASSUME Wired, PendingInv, [Next]_vars, ~Restart, ~early' PROVE PendingInv'
<1>0. Linked /\ jobs \in Seq(Jobs) /\ TypeOK
  BY QueueTyped DEF Wired, Base
<1>1. ASSUME NEW a, Abort(a) PROVE PendingInv'
  BY <1>1 DEF Abort, PendingInv, Pending, Behind, Ops, link, logic, ui
<1>2. ASSUME ~netInitialized, netInitialized' = netInitialized PROVE PendingInv'
  BY <1>2 DEF PendingInv
<1>3. ASSUME NEW op, NEW who, NEW rest, TakeCredentials(op, who, rest) PROVE PendingInv'
  BY <1>1, <1>2, <1>3 DEF TakeCredentials
<1>4. ASSUME PageQueried \/ AutoLoggingInChanged \/ PageChanged \/ ConversationLeft,
             ~Abort("databaseInitialized")
      PROVE  PendingInv'
  <2>1. /\ UNCHANGED <<link, life, jobs, async, net, netInitialized>>
        /\ page' \notin Inside => page \notin Inside
    BY <1>4 DEF PageQueried, AutoLoggingInChanged, PageChanged, ConversationLeft, Acts, Inside, logic
  <2>2. QED
    BY <2>1, PendingKept DEF Pending, link
<1>5. ASSUME NEW j \in Jobs, Push(j), j.op \notin Attempts, life = "running",
             UNCHANGED <<link, life, async, net, netInitialized, page>>
      PROVE  PendingInv'
  <2>1. jobs' = Append(jobs, j) /\ Ops(jobs') \subseteq Ops(jobs) \cup {j.op}
    BY <1>0, <1>5, Pushed DEF Push
  <2>2. Behind(jobs) => Behind(jobs')
    BY <1>0, <1>5, <2>1, BehindAppend
  <2>3. QED
    BY <1>5, <2>1, <2>2, PendingKept DEF Pending, link
<1>6. ASSUME UserChosen \/ ShutdownRequested PROVE PendingInv'
  <2>1. PICK op \in {"continue", "start", "delete", "shutdown"} : Push(Job(op, None)) \/ jobs' = jobs
    <3>1. CASE UserChosen
      <4>1. (\E op \in {"continue", "start", "delete"} : Push(Job(op, None))) \/ jobs' = jobs
        BY <3>1 DEF UserChosen
      <4>2. QED
        BY <4>1
    <3>2. CASE ShutdownRequested
      <4>1. Push(Job("shutdown", None))
        BY <3>2 DEF ShutdownRequested
      <4>2. QED
        BY <4>1
    <3>3. QED
      BY <1>6, <3>1, <3>2
  <2>2. life = "running" /\ UNCHANGED <<link, life, async, net, netInitialized, page>>
    BY <1>6 DEF UserChosen, ShutdownRequested, Acts, logic
  <2>3. CASE Push(Job(op, None))
    <3>1. PICK j \in Jobs : j = Job(op, None) /\ j.op \notin Attempts
      BY JobsTyped DEF Attempts
    <3>2. Push(j)
      BY <2>3, <3>1
    <3>3. QED
      BY <1>5, <2>2, <3>1, <3>2
  <2>4. CASE jobs' = jobs
    BY <2>2, <2>4, PendingKept DEF Pending, link
  <2>5. QED
    BY <2>1, <2>3, <2>4
<1>7. ASSUME NEW request \in Requests, Send(request), Pending
      PROVE  closing' \/ (UNCHANGED <<toClient, closing>> /\ Range(toServer) \subseteq Range(toServer'))
  BY <1>0, <1>7, Sent DEF link
<1>8. ASSUME BroadcastRequested PROVE PendingInv'
  <2>1. CASE Abort("netSendBroadcast")
    BY <1>1, <2>1
  <2>2. CASE ~Abort("netSendBroadcast")
    <3>1. Send(Request("broadcast", None)) /\ UNCHANGED <<life, jobs, async, net, netInitialized, page>>
      BY <1>8, <2>2 DEF BroadcastRequested, logic, ui
    <3>2. Pending => Pending'
      BY <1>0, <1>7, <3>1, RequestTypes DEF Pending
    <3>3. QED
      BY <3>1, <3>2, PendingKept
  <2>3. QED
    BY <2>1, <2>2
<1>9. ASSUME Quit \/ Clean, ~\E a : Abort(a) PROVE PendingInv'
  <2>1. life' # "running"
    BY <1>9 DEF Quit, Clean
  <2>2. QED
    BY <2>1 DEF PendingInv
<1>10. ASSUME RunShow PROVE PendingInv'
  <2>1. Starting
    BY <1>0, <1>10, Popped DEF RunShow, Runs, Wired, Base, JobInv
  <2>2. CASE autoLoggingIn
    BY <1>3, <1>10, <2>2 DEF RunShow
  <2>3. CASE ~autoLoggingIn
    BY <1>2, <1>10, <2>1, <2>3 DEF RunShow, Starting, logic
  <2>4. QED
    BY <2>2, <2>3
(* The first job is gone: nothing behind which another was changes. *)
<1>11. ASSUME jobs # <<>>, jobs' = Tail(jobs), Head(jobs).op \notin Early,
              life' = life, UNCHANGED netInitialized, page' \notin Inside => page \notin Inside
       PROVE  (Pending => Pending') => PendingInv'
  BY <1>0, <1>11, Popped, PendingKept
<1>12. ASSUME jobs # <<>>, jobs' = Tail(jobs), Head(jobs).op \notin Early PROVE Behind(jobs) => Behind(jobs')
  BY <1>0, <1>12, BehindTail
<1>13. ASSUME RunCredentials PROVE PendingInv'
  <2>1. CASE ~netInitialized
    BY <1>2, <1>13, <2>1 DEF RunCredentials
  <2>2. CASE netInitialized
    <3>1. /\ jobs # <<>> /\ jobs' = Tail(jobs) /\ Head(jobs).op \in Attempts
          /\ life = "running" /\ async = "idle" /\ UNCHANGED <<link, net>>
      BY <1>13 DEF RunCredentials, Runs, Pop, Attempts
    <3>2. Ops(jobs) \cap Attempts # {}
      BY <1>0, <3>1, Popped
    <3>3. Pending
      BY <2>2, <3>1, <3>2 DEF PendingInv
    <3>4. Behind(jobs) => Behind(jobs')
      BY <1>12, <3>1 DEF Attempts, Early
    <3>5. Pending'
      BY <3>1, <3>3, <3>4 DEF Pending, link
    <3>6. QED
      BY <3>5 DEF PendingInv
  <2>3. QED
    BY <2>1, <2>2
<1>14. ASSUME NetInit PROVE PendingInv'
  <2>1. CASE Abort("netThis")
    BY <1>1, <2>1
  <2>2. CASE ~Abort("netThis")
    <3>1. ~netThis /\ life # "gone" /\ (netInitialized' = FALSE \/ netInitialized' = netInitialized)
      BY <1>14, <2>2 DEF NetInit, Alive, logic
    <3>2. ~netInitialized
      BY <3>1 DEF Wired, ConnInv
    <3>3. QED
      BY <3>1, <3>2 DEF PendingInv
  <2>3. QED
    BY <2>1, <2>2
<1>15. ASSUME HandshakeStep \/ HandshakeFails PROVE PendingInv'
  <2>1. async = "handshake" /\ life # "gone" /\ netInitialized' = netInitialized
    BY <1>15 DEF HandshakeStep, HandshakeFails, Alive, logic
  <2>2. QED
    BY <1>2, <2>1 DEF Wired, ConnInv, Exchanging
<1>16. ASSUME NetInitReturns \/ NetInitialized, ~Abort("netInit") PROVE PendingInv'
  <2>1. netInitialized' = FALSE \/ async' = "credentials" \/ (Exchanging /\ life # "gone" /\ UNCHANGED netInitialized)
    BY <1>16 DEF NetInitReturns, NetInitialized, Exchanging, Alive, logic
  <2>2. CASE Exchanging /\ life # "gone" /\ UNCHANGED netInitialized
    BY <1>2, <2>2 DEF Wired, ConnInv
  <2>3. QED
    BY <2>1, <2>2 DEF PendingInv, Pending
(* What is asked is on its way, or the connection is closing. *)
<1>17. ASSUME NEW request \in Requests, Send(request), request.kind \in Attempts \cup {"fetchUsers"}
       PROVE  PendingInv'
  <2>1. closing' \/ request \in Range(toServer')
    BY <1>0, <1>17, Sent DEF link
  <2>2. QED
    BY <1>17, <2>1 DEF PendingInv, Pending
<1>18. ASSUME SendCredentials PROVE PendingInv'
  <2>1. CASE Abort("netLogIn")
    BY <1>1, <2>1
  <2>2. CASE ~Abort("netLogIn")
    <3>1. async = "credentials" /\ Send(Request(job.op, job.who))
      BY <1>18, <2>2 DEF SendCredentials
    <3>2. job.op \in Attempts /\ job.who \in Credentials
      BY <1>0, <3>1, JobsOps DEF Wired, Base, JobInv, TypeOK
    <3>3. QED
      BY <1>0, <1>17, <3>1, <3>2, RequestTypes
  <2>3. QED
    BY <2>1, <2>2
<1>19. ASSUME RunRequest("fetchUsers", "netFetchUsers") PROVE PendingInv'
  <2>1. Abort("netFetchUsers") \/ Send(Request("fetchUsers", None))
    BY <1>19 DEF RunRequest
  <2>2. QED
    BY <1>0, <1>1, <1>17, <2>1, RequestTypes
<1>20. ASSUME RunRequest("shutdown", "netShutdownServer") PROVE PendingInv'
  <2>1. CASE Abort("netShutdownServer")
    BY <1>1, <2>1
  <2>2. CASE ~Abort("netShutdownServer")
    <3>1. /\ jobs # <<>> /\ jobs' = Tail(jobs) /\ Head(jobs).op \notin Early
          /\ Send(Request("shutdown", None)) /\ UNCHANGED <<life, async, net, netInitialized, page>>
      BY <1>20, <2>2 DEF RunRequest, Runs, Pop, Early, logic, ui
    <3>2. Pending => Pending'
      BY <1>0, <1>7, <1>12, <3>1, RequestTypes DEF Pending
    <3>3. QED
      BY <1>11, <3>1, <3>2
  <2>3. QED
    BY <2>1, <2>2
<1>21. ASSUME RunContinue, ~Abort("databaseInitialized") PROVE PendingInv'
  <2>1. /\ jobs # <<>> /\ jobs' = Tail(jobs) /\ Head(jobs).op \notin Early
        /\ UNCHANGED <<link, life, async, net, netInitialized>>
        /\ page' \notin Inside => page \notin Inside
    BY <1>21 DEF RunContinue, Runs, Pop, Early, Inside, logic
  <2>2. Pending => Pending'
    BY <1>12, <2>1 DEF Pending, link
  <2>3. QED
    BY <1>11, <2>1, <2>2
<1>35. ASSUME \/ RunSetUp("start", "netCreateConversation")
              \/ RunSetUp("reply", "netReplyToConversationSetUpInvite")
              \/ RunDelete,
              ~\E a : Abort(a)
       PROVE  PendingInv'
  <2>1. /\ jobs # <<>> /\ Head(jobs).op \notin Early /\ UNCHANGED <<link, life, async, net, netInitialized>>
    BY <1>35 DEF RunSetUp, RunDelete, Runs, Early, logic
  <2>2. \/ jobs' = Tail(jobs) /\ page' = page
        \/ jobs' = Append(Tail(jobs), Job("fetchUsers", None))
    BY <1>35 DEF RunSetUp, RunDelete, UpdateUsersList, Pop
  <2>3. CASE jobs' = Tail(jobs) /\ page' = page
    <3>1. Pending => Pending'
      BY <1>12, <2>1, <2>3 DEF Pending, link
    <3>2. QED
      BY <1>11, <2>1, <2>3, <3>1
  <2>4. CASE jobs' = Append(Tail(jobs), Job("fetchUsers", None))
    <3>1. Job("fetchUsers", None) \in Jobs /\ Job("fetchUsers", None).op \in Early /\ Tail(jobs) \in Seq(Jobs)
      BY <1>0, <2>1, Popped, JobsTyped DEF Early
    <3>2. Behind(jobs')
      BY <2>4, <3>1, BehindAppend
    <3>3. QED
      BY <3>2 DEF PendingInv, Pending
  <2>5. QED
    BY <2>2, <2>3, <2>4
<1>22. ASSUME RunProcessUsers PROVE PendingInv'
  <2>1. CASE Abort("netCurrentUserId")
    BY <1>1, <2>1
  <2>2. CASE ~Abort("netCurrentUserId")
    <3>1. /\ jobs # <<>> /\ jobs' = Tail(jobs) /\ page' = "users"
          /\ UNCHANGED <<link, life, async, net, netInitialized>>
      BY <1>22, <2>2 DEF RunProcessUsers, Runs, Pop, logic
    <3>2. SUFFICES ASSUME life = "running", netInitialized, Ops(jobs') \cap Attempts # {}
                   PROVE  Pending'
      BY <3>1 DEF PendingInv, Inside
    <3>3. Ops(jobs) \cap Attempts # {}
      BY <1>0, <3>1, <3>2, Popped
    <3>4. Pending
      BY <3>2, <3>3 DEF PendingInv
    <3>5. Behind(jobs) => Behind(jobs')
      BY <1>0, <3>1, <3>2, BehindTail
    <3>6. QED
      BY <3>1, <3>4, <3>5 DEF Pending, link
  <2>3. QED
    BY <2>1, <2>2
<1>23. ASSUME LoggedIn PROVE PendingInv'
  BY <1>23 DEF LoggedIn, PendingInv, Pending
(* A job that fetches or shows the users comes to be the last. *)
<1>24. ASSUME NEW op \in Early, Push(Job(op, None)), life' = life PROVE PendingInv'
  <2>1. SUFFICES ASSUME life = "running" PROVE Behind(jobs')
    BY <1>24 DEF PendingInv, Pending
  <2>2. jobs' = Append(jobs, Job(op, None)) /\ Job(op, None) \in Jobs /\ Job(op, None).op = op
    BY <1>24, <2>1, JobsTyped DEF Push, Early
  <2>3. QED
    BY <1>0, <2>2, BehindAppend
<1>25. ASSUME OnLoggedIn \/ UsersFetched \/ UpdateClicked, ~Abort("databaseInitialized") PROVE PendingInv'
  <2>1. PICK op \in Early : Push(Job(op, None))
    BY <1>25 DEF OnLoggedIn, UsersFetched, UpdateClicked, Early
  <2>2. life' = life
    BY <1>25 DEF OnLoggedIn, UsersFetched, UpdateClicked
  <2>3. QED
    BY <1>24, <2>1, <2>2
<1>36. ASSUME InviteReceived PROVE PendingInv'
  <2>1. /\ UNCHANGED <<toServer, closing, life, async, net, netInitialized, page>>
        /\ Range(toClient) = {"invite"} \cup Range(toClient') /\ Push(Job("reply", None))
    BY <1>0, <1>36, Took DEF InviteReceived, logic
  <2>2. PICK j \in Jobs : j = Job("reply", None) /\ j.op \notin Attempts
    BY JobsTyped DEF Attempts
  <2>3. Push(j)
    BY <2>1, <2>2
  <2>4. Ops(jobs') \subseteq Ops(jobs) \cup {j.op}
    BY <1>0, <2>3, Pushed
  <2>5. Behind(jobs) => Behind(jobs')
    <3>1. jobs' = Append(jobs, j) \/ jobs' = jobs
      BY <2>3 DEF Push
    <3>2. QED
      BY <1>0, <2>2, <3>1, BehindAppend
  <2>6. Pending => Pending'
    BY <2>1, <2>5 DEF Pending
  <2>7. QED
    BY <2>1, <2>2, <2>4, <2>6, PendingKept
<1>26. ASSUME LogInRefused \/ RegisterResult PROVE PendingInv'
  <2>1. \E reply \in Ending : Takes(reply)
    BY <1>26 DEF LogInRefused, RegisterResult, Ending
  <2>2. closing /\ closing' = closing
    BY <1>0, <2>1, Took DEF Alive, Wired, LinkInv
  <2>3. QED
    BY <2>2 DEF PendingInv, Pending
<1>27. ASSUME ErrorReceived PROVE PendingInv'
  <2>1. /\ UNCHANGED <<toServer, closing, life, jobs, async, net, netInitialized, page>>
        /\ Range(toClient) = {"error"} \cup Range(toClient')
    BY <1>0, <1>27, Took DEF ErrorReceived, logic
  <2>2. Pending => Pending'
    BY <2>1 DEF Pending
  <2>3. QED
    BY <2>1, <2>2, PendingKept
<1>28. ASSUME Disconnected \/ OnDisconnected \/ OnDisconnectedControls \/ OnDisconnectedPage \/ OnDisconnectedClean
       PROVE  PendingInv'
  <2>1. netInitialized' = FALSE
        \/ (net \in Goodbye /\ life # "gone" /\ netInitialized' = netInitialized)
    BY <1>28
       DEF Disconnected, OnDisconnected, OnDisconnectedControls, OnDisconnectedPage, OnDisconnectedClean,
           Goodbye, Alive, logic
  <2>2. CASE netInitialized' = FALSE
    BY <2>2 DEF PendingInv
  <2>3. CASE net \in Goodbye /\ life # "gone" /\ netInitialized' = netInitialized
    BY <1>2, <2>3 DEF Wired, ConnInv
  <2>4. QED
    BY <2>1, <2>2, <2>3
<1>29. ASSUME ListenAgain \/ ListenNowhere, ~\E a : Abort(a) PROVE PendingInv'
  <2>1. net = "listen" /\ UNCHANGED <<link, life, jobs, async, netInitialized, page>>
    BY <1>29 DEF ListenAgain, ListenNowhere, logic, ui
  <2>2. Pending => Pending'
    BY <2>1 DEF Pending, link
  <2>3. QED
    BY <2>1, <2>2, PendingKept
<1>30. ASSUME ServerAnswers PROVE PendingInv'
  <2> DEFINE q == Head(toServer)
  <2>1. /\ life # "gone" /\ toServer # <<>> /\ toClient' = toClient \o Answers(q)
        /\ closing' = Contains(Answers(q), "closed")
        /\ toServer' = IF closing' THEN <<>> ELSE Tail(toServer)
        /\ UNCHANGED <<life, jobs, async, net, netInitialized, page>>
    BY <1>30 DEF ServerAnswers, Alive, logic, ui
  <2>2. /\ q \in Requests
        /\ Range(toClient') = Range(toClient) \cup Range(Answers(q))
        /\ closing' <=> "closed" \in Range(Answers(q))
        /\ ~closing' => Range(toServer) = {q} \cup Range(toServer')
    BY <1>0, <2>1, ServerAnswered
  <2>3. /\ q.kind \in Attempts => "closed" \in Range(Answers(q)) \/ "loggedIn" \in Range(Answers(q))
        /\ q.kind = "fetchUsers" => "users" \in Range(Answers(q))
    BY <2>2, Answered
  <2>4. ~closing
    BY <2>1 DEF Wired, LinkInv
  <2> HIDE DEF q
  <2>5. Pending => Pending'
    BY <2>1, <2>2, <2>3, <2>4 DEF Pending
  <2>6. QED
    BY <2>1, <2>5, PendingKept
<1>31. ASSUME ServerFails PROVE PendingInv'
  <2>1. UNCHANGED <<life, jobs, async, net, netInitialized, page>>
    BY <1>31 DEF ServerFails, logic, ui
  <2>2. CASE closing'
    BY <2>2 DEF PendingInv, Pending
  <2>3. CASE ~closing'
    <3>1. \/ /\ toServer # <<>> /\ Head(toServer).kind \in {"shutdown", "broadcast"}
             /\ toClient' = Append(toClient, "error") /\ toServer' = Tail(toServer) /\ UNCHANGED closing
          \/ toClient' = Append(toClient, "invite") /\ UNCHANGED <<toServer, closing>>
      BY <1>31, <2>3 DEF ServerFails
    <3>2. \A q \in Range(toServer) : q.kind \in Attempts \cup {"fetchUsers"} => q \in Range(toServer')
      <4>1. CASE toServer' = toServer
        BY <4>1
      <4>2. CASE toServer # <<>> /\ Head(toServer).kind \in {"shutdown", "broadcast"} /\ toServer' = Tail(toServer)
        <5>1. Range(toServer) = {Head(toServer)} \cup Range(toServer')
          BY <1>0, <4>2, OneLess DEF Linked
        <5>2. Head(toServer).kind \notin Attempts \cup {"fetchUsers"}
          BY <4>2 DEF Attempts
        <5>3. QED
          BY <5>1, <5>2
      <4>3. QED
        BY <3>1, <4>1, <4>2
    <3>3. Range(toClient) \subseteq Range(toClient')
      <4>1. {"error", "invite"} \subseteq Replies
        BY DEF Replies
      <4>2. \A reply \in Replies : Range(Append(toClient, reply)) = Range(toClient) \cup {reply}
        BY <1>0, OneMore DEF Linked
      <4>3. QED
        BY <3>1, <4>1, <4>2
    <3>4. UNCHANGED closing
      BY <3>1
    <3>5. Pending => Pending'
      BY <2>1, <3>2, <3>3, <3>4 DEF Pending
    <3>6. QED
      BY <2>1, <3>5, PendingKept
  <2>4. QED
    BY <2>2, <2>3
<1>32. ASSUME UNCHANGED vars PROVE PendingInv'
  BY <1>32 DEF vars, PendingInv, Pending, Behind, Ops, link, logic, ui
<1>33. ASSUME NEW who \in Credentials, CredentialsEntered(who) PROVE PendingInv'
  BY <1>3, <1>33 DEF CredentialsEntered
<1>34. QED
  BY <1>1, <1>4, <1>6, <1>8, <1>9, <1>10, <1>13, <1>14, <1>15, <1>16, <1>18, <1>19, <1>20, <1>21, <1>22, <1>23,
     <1>25, <1>26, <1>27, <1>28, <1>29, <1>30, <1>31, <1>32, <1>33, <1>35, <1>36
     DEF Next, UserActs, AsyncThread, NetThread, Rest

(* The inductive invariant of what comes to rest. *)
Rested == Wired /\ StateInv /\ PendingInv

LEMMA InitRested == Init => Rested
<1> SUFFICES ASSUME Init PROVE Rested
  OBVIOUS
<1>1. StateInv /\ PendingInv
  BY DEF Init, StateInv, PendingInv
<1>2. QED
  BY <1>1, InitWired DEF Rested

LEMMA RestartRested == ASSUME Base, Restart PROVE (StateInv /\ PendingInv)'
BY DEF Restart, StateInv, PendingInv

RestedInv == WiredInv /\ (early \/ Rested)

LEMMA NextRested == RestedInv /\ [Next]_vars => RestedInv'
<1> SUFFICES ASSUME RestedInv, [Next]_vars, ~early' PROVE Rested'
  BY NextWired DEF RestedInv
<1>1. Wired'
  BY NextWired DEF RestedInv, WiredInv
<1>2. CASE Restart
  BY <1>1, <1>2, RestartRested DEF RestedInv, WiredInv, Rested
<1>3. CASE ~Restart
  <2>1. Rested
    BY <1>3, EarlyStays DEF RestedInv
  <2>2. StateInv' /\ PendingInv'
    BY <1>3, <2>1, StateNext, PendingNext DEF Rested
  <2>3. QED
    BY <1>1, <2>2 DEF Rested
<1>4. QED
  BY <1>2, <1>3

LEMMA RestedMeans == RestedInv => LogInPossible
<1> SUFFICES ASSUME RestedInv, ~early, Quiet, page \in {"logIn", "register"}, ~late
             PROVE  state = "unauthenticated" /\ ~netInitialized
  BY DEF LogInPossible
<1>0. Rested
  BY DEF RestedInv
<1>1. /\ life = "running" /\ jobs = <<>> /\ async = "idle" /\ net = "idle"
      /\ toServer = <<>> /\ toClient = <<>>
  BY DEF Quiet
<1>2. Ops(jobs) = {} /\ Range(toServer) = {} /\ Range(toClient) = {}
  BY <1>1, NothingIn
<1>3. ~netInitialized
  <2>1. SUFFICES ASSUME netInitialized PROVE FALSE
    OBVIOUS
  <2>2. Pending
    BY <1>0, <1>1, <2>1 DEF Rested, PendingInv, Inside
  <2>3. ~closing
    BY <1>0, <1>1, <1>2 DEF Rested, Wired, LinkInv, Goodbye
  <2>4. ~Behind(jobs)
    BY <1>1 DEF Behind
  <2>5. QED
    BY <1>1, <1>2, <2>2, <2>3, <2>4 DEF Pending
<1>4. state = "unauthenticated"
  BY <1>0, <1>1, <1>2, <1>3 DEF Rested, StateInv, Busy, Connecting
<1>5. QED
  BY <1>3, <1>4

(* Whatever was refused, broken off, timed out or left, once all is at     *)
(* rest on the page to log in neither the state nor netInitialized turns   *)
(* an attempt down (logic.c:910, 911); but for a user chosen when the      *)
(* connection was gone, and a connection noted after it was gone.  This    *)
(* holds of overlapping attempts too.                                      *)
THEOREM LogInStaysPossible == Spec => []LogInPossible
<1>1. Init => RestedInv
  BY InitRested DEF RestedInv, WiredInv, Rested, Wired
<1>2. RestedInv /\ [Next]_vars => RestedInv'
  BY NextRested
<1>3. RestedInv => LogInPossible
  BY RestedMeans
<1>4. QED
  BY <1>1, <1>2, <1>3, PTL DEF Spec
=============================================================================
