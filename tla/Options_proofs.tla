--------------------------- MODULE Options_proofs ---------------------------
(***************************************************************************)
(* Proofs about Options, for any machines, accounts and first files.       *)
(***************************************************************************)
EXTENDS Options, FiniteSetTheorems, WellFoundedInduction, TLAPS

-----------------------------------------------------------------------------
(* Sequences of lines, and the first and the last of some places.          *)

LEMMA Elements ==
  ASSUME NEW S, NEW q \in Seq(S)
  PROVE  /\ Len(q) \in Nat /\ DOMAIN q = 1 .. Len(q)
         /\ \A i \in DOMAIN q : q[i] \in S /\ q[i] \in ToSet(q)
         /\ q # <<>> => Len(q) \in DOMAIN q /\ Last(q) = q[Len(q)]
  BY DEF ToSet, Last

LEMMA OfItself ==
  ASSUME NEW S, NEW q \in Seq(S)
  PROVE  q \in Seq(ToSet(q))
<1>1. DOMAIN q = 1 .. Len(q) /\ Len(q) \in Nat /\ \A i \in 1 .. Len(q) : q[i] \in ToSet(q)
  BY Elements
<1>2. q = [i \in 1 .. Len(q) |-> q[i]]
  OBVIOUS
<1> QED
  BY <1>1, <1>2

LEMMA OneMore ==
  ASSUME NEW S, NEW q \in Seq(S), NEW n \in 0 .. Len(q), NEW e
  PROVE  /\ SubSeq(q, 1, n) \o <<e>> \in Seq(S \cup {e})
         /\ Len(SubSeq(q, 1, n) \o <<e>>) = n + 1
         /\ DOMAIN (SubSeq(q, 1, n) \o <<e>>) = 1 .. n + 1
         /\ \A i \in 1 .. n : (SubSeq(q, 1, n) \o <<e>>)[i] = q[i]
         /\ (SubSeq(q, 1, n) \o <<e>>)[n + 1] = e
<1>1. n \in Nat /\ Len(q) \in Nat
  OBVIOUS
<1>2. SubSeq(q, 1, n) \in Seq(S) /\ Len(SubSeq(q, 1, n)) = n /\ \A i \in 1 .. n : SubSeq(q, 1, n)[i] = q[i]
  BY <1>1
<1>3. <<e>> \in Seq(S \cup {e}) /\ Len(<<e>>) = 1 /\ <<e>>[1] = e
  OBVIOUS
<1>4. PICK r : r = SubSeq(q, 1, n)
  OBVIOUS
<1>5. r \in Seq(S \cup {e}) /\ Len(r) = n
  BY <1>2, <1>4
<1>6. r \o <<e>> \in Seq(S \cup {e}) /\ Len(r \o <<e>>) = n + 1
  BY <1>3, <1>5
<1>7. \A i \in 1 .. n : (r \o <<e>>)[i] = r[i]
  BY <1>1, <1>3, <1>5
<1>8. (r \o <<e>>)[n + 1] = e
  BY <1>1, <1>3, <1>5
<1> QED
  BY <1>1, <1>2, <1>4, <1>6, <1>7, <1>8

LEMMA Cuts ==
  ASSUME NEW S, NEW q \in Seq(S), NEW a \in 1 .. Len(q), NEW b \in 1 .. Len(q), NEW e
  PROVE  SubSeq(q, 1, a - 1) \o <<e>> \o SubSeq(q, b + 1, Len(q)) \in Seq(S \cup {e})
<1>1. Len(q) \in Nat /\ a - 1 \in 0 .. Len(q)
  OBVIOUS
<1>2. PICK r : r = SubSeq(q, 1, a - 1) \o <<e>>
  OBVIOUS
<1>3. r \in Seq(S \cup {e})
  BY <1>1, <1>2, OneMore
<1>4. PICK t : t = SubSeq(q, b + 1, Len(q))
  OBVIOUS
<1>5. t \in Seq(S)
  BY <1>1, <1>4
<1>6. t \in Seq(S \cup {e})
  BY <1>5
<1>7. r \o t \in Seq(S \cup {e})
  BY <1>3, <1>6
<1> QED
  BY <1>2, <1>4, <1>7

LEMMA Earliest ==
  ASSUME NEW U, U \subseteq Nat, U # {}
  PROVE  Min(U) \in U /\ \A t \in U : Min(U) <= t
<1>1. PICK x \in U : \A y \in U : ~(<<y, x>> \in OpToRel(<, Nat))
  BY NatLessThanWellFounded, WFMin
<1>2. \A y \in U : ~(y < x)
  BY <1>1 DEF OpToRel
<1>3. \A y \in U : x <= y
  BY <1>2
<1>4. \E u \in U : \A t \in U : u <= t
  BY <1>3
<1> QED
  BY <1>4 DEF Min

LEMMA Latest ==
  ASSUME NEW n \in Nat, NEW U \in SUBSET (1 .. n), U # {}
  PROVE  Max(U) \in U
<1> DEFINE Sooner == {n - t : t \in U}
<1>1. Sooner \subseteq Nat /\ Sooner # {}
  <2>1. \A t \in U : t \in 1 .. n
    OBVIOUS
  <2>2. \A t \in 1 .. n : n - t \in Nat
    OBVIOUS
  <2> HIDE DEF Sooner
  <2>3. Sooner \subseteq Nat
    BY <2>1, <2>2 DEF Sooner
  <2>4. Sooner # {}
    BY DEF Sooner
  <2> QED
    BY <2>3, <2>4
<1>2. Min(Sooner) \in Sooner /\ \A y \in Sooner : Min(Sooner) <= y
  BY <1>1, Earliest
<1>3. PICK m \in U : Min(Sooner) = n - m
  BY <1>2
<1>4. ASSUME NEW t \in U PROVE m >= t
  <2>1. n - t \in Sooner /\ t \in Nat /\ m \in Nat
    OBVIOUS
  <2>2. n - m <= n - t
    BY <1>2, <1>3, <2>1
  <2> QED
    BY <2>1, <2>2
<1>5. \E u \in U : \A t \in U : u >= t
  BY <1>4
<1> QED
  BY <1>5 DEF Max

LEMMA OnlyOne ==
  ASSUME NEW n \in Nat
  PROVE  Max({n}) = n /\ Min({n}) = n
<1>1. n >= n /\ n <= n
  OBVIOUS
<1> QED
  BY <1>1 DEF Max, Min

-----------------------------------------------------------------------------
(* Types.                                                                  *)

LineOK(l) ==
  /\ l = Line(l.option, l.says, l.value, l.by)
  /\ l.option = "credentials" /\ l.value \in Accounts => l.by \in Machines
LinesOK(f) == f \in Seq(ToSet(f)) /\ \A l \in ToSet(f) : LineOK(l)

TypeInv == TypeOK /\ LinesOK(file) /\ first \in FirstFiles

LEMMA MadeLines ==
  ASSUME NEW S, \A l \in S : LineOK(l), NEW q \in Seq(S)
  PROVE  LinesOK(q)
<1>1. ToSet(q) \subseteq S
  BY Elements DEF ToSet
<1> QED
  BY <1>1, OfItself DEF LinesOK

LEMMA SealedLine ==
  /\ LineOK(NoCredentials) /\ LineOK(Torn)
  /\ \A who, m, says : m \in Machines => LineOK(Sealed(who, m, says))
  /\ \A o, v : o # "credentials" => LineOK(Plain(o, v))
  BY OptionsAssumption DEF LineOK, NoCredentials, Torn, Sealed, Plain, Line, Marks

LEMMA DefaultLines ==
  /\ LinesOK(DefaultFile) /\ Len(DefaultFile) = 7 /\ DOMAIN DefaultFile = 1 .. 7
  /\ DefaultFile[7] = NoCredentials
  /\ \A i \in 1 .. 6 : DefaultFile[i] = Plain(Order[i], DefaultFile[i].value)
<1> DEFINE S == {NoCredentials} \cup {Plain(o, v) : o \in Others,
                    v \in {"false", "127.0.0.1", "8080", "key", "1", "0"}}
<1>1. \A l \in S : LineOK(l)
  BY SealedLine DEF Others
<1>2. {"admin", "host", "port", "sspk", "theme", "language"} \subseteq Others
  BY DEF Others, Names
<1>3. DefaultFile \in Seq(S) /\ Len(DefaultFile) = 7 /\ DOMAIN DefaultFile = 1 .. 7
  BY <1>2 DEF DefaultFile
<1>4. DefaultFile[7] = NoCredentials
  BY DEF DefaultFile
<1>5. \A i \in 1 .. 6 : DefaultFile[i] = Plain(Order[i], DefaultFile[i].value)
  BY DEF DefaultFile, Order, Plain, Line
<1> QED
  BY <1>1, <1>3, <1>4, <1>5, MadeLines

LEMMA PlaceIn ==
  ASSUME NEW f, LinesOK(f), HasPlace(f)
  PROVE  /\ Place(f) \in 1 .. Len(f) /\ Place(f) \in DOMAIN f /\ Len(f) \in Nat
         /\ f[Place(f)].option = "credentials"
<1>1. DOMAIN f = 1 .. Len(f) /\ Len(f) \in Nat
  BY Elements DEF LinesOK
<1>2. Places(f) \subseteq Nat /\ Places(f) # {}
  BY <1>1 DEF Places, HasPlace
<1>3. Place(f) \in Places(f)
  BY <1>2, Earliest DEF Place
<1> QED
  BY <1>1, <1>3 DEF Places

LEMMA TruncatedLines ==
  ASSUME NEW f, LinesOK(f), HasPlace(f)
  PROVE  LinesOK(Truncated(f))
<1>1. Place(f) - 1 \in 0 .. Len(f) /\ f \in Seq(ToSet(f))
  BY PlaceIn DEF LinesOK
<1>2. Truncated(f) \in Seq(ToSet(f) \cup {NoCredentials})
  BY <1>1, OneMore DEF Truncated, CutOff
<1>3. \A l \in ToSet(f) \cup {NoCredentials} : LineOK(l)
  BY SealedLine DEF LinesOK
<1> QED
  BY <1>2, <1>3, MadeLines

LEMMA OverwrittenLines ==
  ASSUME NEW f, LinesOK(f), HasPlace(f), NEW line, LineOK(line), NEW g \in Overwritten(f, line)
  PROVE  LinesOK(g)
<1> DEFINE S == ToSet(f) \cup {line} \cup {Torn}
<1>1. PICK p : p = Place(f)
  OBVIOUS
<1>2. p \in 1 .. Len(f) /\ p \in DOMAIN f /\ f \in Seq(ToSet(f)) /\ Len(f) \in Nat
  BY <1>1, PlaceIn DEF LinesOK
<1>3. \A l \in S : LineOK(l)
  BY SealedLine DEF LinesOK
<1>4. f \in Seq(S)
  BY <1>2
<1>5. \/ g = f
      \/ g = [f EXCEPT ![p] = line]
      \/ \E n \in p + 1 .. Len(f), payload \in {line, Torn} :
           g = SubSeq(f, 1, p - 1) \o <<payload>> \o SubSeq(f, n + 1, Len(f))
  <2>1. g \in InPlace(f, line)
    BY DEF Overwritten
  <2>2. CASE f[p] = Torn
    BY <1>1, <2>1, <2>2 DEF InPlace
  <2>3. CASE f[p] # Torn /\ (f[p].by # NoMachine \/ p = Len(f))
    BY <1>1, <2>1, <2>3 DEF InPlace
  <2>4. CASE f[p] # Torn /\ ~(f[p].by # NoMachine \/ p = Len(f))
    <3>1. g \in UNION {{SubSeq(f, 1, p - 1) \o <<line>> \o SubSeq(f, n + 1, Len(f)),
                        SubSeq(f, 1, p - 1) \o <<Torn>> \o SubSeq(f, n + 1, Len(f))} :
                       n \in p + 1 .. Len(f)}
      BY <1>1, <2>1, <2>4 DEF InPlace
    <3> QED
      BY <3>1
  <2> QED
    BY <2>2, <2>3, <2>4
<1>6. CASE g = f
  BY <1>6
<1>7. CASE g = [f EXCEPT ![p] = line]
  <2>1. g \in Seq(S)
    BY <1>2, <1>4, <1>7
  <2> QED
    BY <1>3, <2>1, MadeLines
<1>8. ASSUME NEW n \in p + 1 .. Len(f), NEW payload \in {line, Torn},
             g = SubSeq(f, 1, p - 1) \o <<payload>> \o SubSeq(f, n + 1, Len(f))
      PROVE  LinesOK(g)
  <2>1. n \in 1 .. Len(f)
    BY <1>2
  <2>2. g \in Seq(S \cup {payload})
    BY <1>2, <1>4, <1>8, <2>1, Cuts
  <2>3. S \cup {payload} = S
    OBVIOUS
  <2> QED
    BY <1>3, <2>2, <2>3, MadeLines
<1> QED
  BY <1>5, <1>6, <1>7, <1>8

(* Credentials that are read are an account's. *)
LEMMA ReadAccount ==
  ASSUME NEW f, LinesOK(f), NEW m, ParsedCredentials(f, m) # "unset"
  PROVE  ParsedCredentials(f, m) \in Accounts
<1> DEFINE lines == {i \in LinesOf(f, "credentials") : f[i].value \in Accounts /\ Opens(f[i], m)}
<1>1. lines # {} /\ ParsedCredentials(f, m) = f[Max(lines)].value
  BY DEF ParsedCredentials
<1>2. Len(f) \in Nat /\ lines \in SUBSET (1 .. Len(f))
  BY Elements DEF LinesOK, LinesOf
<1>3. Max(lines) \in lines
  BY <1>1, <1>2, Latest
<1> QED
  BY <1>1, <1>3

LEMMA OffTypes ==
  ASSUME TypeInv, Off, UNCHANGED <<file, past>>,
         failed' \in {"none", "empty", "line", "value", "torn", "offset"}
  PROVE  TypeInv'
<1>1. DOMAIN read' = Names
  BY DEF Off, Unread
<1>2. LinesOK(file)'
  BY DEF TypeInv, LinesOK, LineOK, past
<1> QED
  BY <1>1, <1>2 DEF TypeInv, TypeOK, Off, Phases, past

LEMMA InitTypes == Init => TypeInv
<1> SUFFICES ASSUME Init PROVE TypeInv
  OBVIOUS
<1>1. first \in FirstFiles /\ file = first
  BY DEF Init
<1>2. file \in Seq(ToSet(file))
  BY <1>1, OptionsAssumption
<1>3. ASSUME NEW l \in ToSet(file) PROVE LineOK(l)
  <2>1. PICK i \in DOMAIN file : l = file[i]
    BY DEF ToSet
  <2> QED
    BY <1>1, <2>1, OptionsAssumption DEF LineOK
<1>4. \A i \in DOMAIN file : file[i].option = "credentials" /\ file[i].value \in Accounts
        => file[i].by \in Machines
  BY <1>2, <1>3, Elements DEF LineOK
<1>5. DOMAIN read = Names /\ phase = "off" /\ machine = NoMachine /\ autoLoggingIn = FALSE
      /\ entered = Nobody /\ failed = "none" /\ wanted # {}
      /\ spelled = FALSE
  BY DEF Init, Unread
<1>6. TypeOK
  BY <1>2, <1>4, <1>5 DEF TypeOK, Phases
<1> QED
  BY <1>1, <1>2, <1>3, <1>6 DEF TypeInv, LinesOK

(* TypeOK's part about the file is LinesOK's. *)
LEMMA FileTypes ==
  ASSUME LinesOK(file)'
  PROVE  /\ (file \in Seq(ToSet(file)))'
         /\ \A i \in DOMAIN file' : file'[i].option = "credentials" /\ file'[i].value \in Accounts
              => file'[i].by \in Machines
<1>1. file' \in Seq(ToSet(file')) /\ \A l \in ToSet(file') : LineOK(l)
  BY DEF LinesOK, LineOK
<1>2. \A i \in DOMAIN file' : LineOK(file'[i])
  BY <1>1, Elements
<1> QED
  BY <1>1, <1>2 DEF LineOK

LEMMA NextTypes == TypeInv /\ [Next]_vars => TypeInv'
<1> SUFFICES ASSUME TypeInv, [Next]_vars PROVE TypeInv'
  OBVIOUS
<1> USE DEF TypeInv, past
<1>0. UNCHANGED file => LinesOK(file)'
  BY DEF LinesOK, LineOK
<1>1. CASE UNCHANGED vars
  BY <1>0, <1>1 DEF TypeOK, vars, run
<1>2. CASE Ends
  BY <1>2, OffTypes DEF Ends, TypeOK
<1>3. CASE \E what \in {"empty", "line", "value", "torn", "offset"} : Abort(what)
  BY <1>3, OffTypes DEF Abort
<1>4. ASSUME NEW m \in Machines, Starts(m) PROVE TypeInv'
  <2>1. LinesOK(Empty)
    BY DEF Empty, LinesOK, ToSet
  <2>2. file' = Empty \/ file' = file
    BY <1>4 DEF Starts
  <2>3. LinesOK(file)'
    BY <1>0, <2>1, <2>2 DEF LinesOK, LineOK
  <2>4. m # NoMachine
    BY OptionsAssumption
  <2>5. phase' \in {"creating", "starting"} /\ machine' = m /\ UNCHANGED <<read, autoLoggingIn, entered, past, failed>>
    BY <1>4 DEF Starts
  <2> QED
    BY <2>3, <2>4, <2>5, FileTypes DEF TypeOK, Phases
<1>5. CASE Creates
  <2>1. LinesOK(file)'
    BY <1>5, DefaultLines DEF Creates, LinesOK, LineOK
  <2> QED
    BY <1>5, <2>1, FileTypes DEF Creates, TypeOK, Phases
<1>6. CASE Reads /\ ~ \E what \in {"empty", "line", "value", "torn", "offset"} : Abort(what)
  <2>1. /\ \E host : read' = [Parsed(file, machine) EXCEPT !["host"] = host]
        /\ autoLoggingIn' = ByItself(file, machine) /\ phase' = "waiting"
        /\ phase = "starting" /\ UNCHANGED <<file, machine, entered, past, failed>>
    BY <1>6 DEF Reads
  <2>2. DOMAIN read' = Names /\ read'["credentials"] = ParsedCredentials(file, machine)
    BY <2>1 DEF Parsed, Names
  <2>a. ParsedCredentials(file, machine) \in Accounts \cup {"unset"}
    BY ReadAccount
  <2>b. autoLoggingIn' = (ParsedCredentials(file, machine) # "unset")
    BY <2>1 DEF ByItself, Readable
  <2>3. autoLoggingIn' \in BOOLEAN /\ (autoLoggingIn' => read'["credentials"] \in Accounts)
    BY <2>2, <2>a, <2>b
  <2>4. LinesOK(file)'
    BY <1>0, <2>1
  <2> QED
    BY <2>1, <2>2, <2>3, <2>4, FileTypes DEF TypeOK, Phases
<1>7. CASE ShowsPage
  BY <1>0, <1>7, FileTypes DEF ShowsPage, TypeOK, Phases
<1>8. CASE TurnsOn
  BY <1>0, <1>8, FileTypes DEF TurnsOn, OnForm, TypeOK, Phases
<1>9. CASE TurnsOff /\ ~ \E what \in {"empty", "line", "value", "torn", "offset"} : Abort(what)
  <2>1. /\ file' = (IF HasPlace(file) THEN Truncated(file) ELSE file) /\ autoLoggingIn' = FALSE
        /\ wanted' = {NoCredentials} /\ UNCHANGED <<phase, machine, read, entered, first, spelled, failed>>
    BY <1>9 DEF TurnsOff
  <2>2. LinesOK(file)'
    <3>1. CASE HasPlace(file)
      BY <2>1, <3>1, TruncatedLines DEF LinesOK, LineOK
    <3>2. CASE ~HasPlace(file)
      BY <1>0, <2>1, <3>2
    <3> QED
      BY <3>1, <3>2
  <2> QED
    BY <2>1, <2>2, FileTypes DEF TypeOK
<1>10. ASSUME NEW who \in Accounts, LogsIn(who) PROVE TypeInv'
  BY <1>0, <1>10, FileTypes DEF LogsIn, OnForm, TypeOK, Phases
<1>11. CASE Registers \/ Answered \/ Disconnected
  BY <1>0, <1>11, FileTypes DEF Registers, Answered, Disconnected, OnForm, TypeOK, Phases
<1>12. CASE Writes /\ ~ \E what \in {"empty", "line", "value", "torn", "offset"} : Abort(what)
  <2>1. phase = "writing" /\ phase' = "logging" /\ entered' = Nobody
        /\ UNCHANGED <<machine, read, autoLoggingIn, first, failed>>
    BY <1>12 DEF Writes
  <2>2. PICK says, line : /\ line = Sealed(entered, machine, says)
                          /\ \/ UNCHANGED <<file, wanted>>
                             \/ wanted' = {line} /\ HasPlace(file) /\ file' \in Overwritten(file, line)
                             \/ wanted' = {line} /\ UNCHANGED file
    BY <1>12 DEF Writes
  <2>3. spelled' \in BOOLEAN
    BY <1>12 DEF Writes, TypeOK
  <2>4. machine \in Machines
    BY <2>1 DEF TypeOK
  <2>5. LineOK(line)
    BY <2>2, <2>4, SealedLine
  <2>6. LinesOK(file)'
    <3>1. CASE HasPlace(file) /\ file' \in Overwritten(file, line)
      BY <2>5, <3>1, OverwrittenLines DEF LinesOK, LineOK
    <3> QED
      BY <1>0, <2>2, <3>1
  <2>7. wanted' # {}
    BY <2>2 DEF TypeOK
  <2> QED
    BY <2>1, <2>3, <2>6, <2>7, FileTypes DEF TypeOK, Phases
<1> QED
  BY <1>1, <1>2, <1>3, <1>4, <1>5, <1>6, <1>7, <1>8, <1>9, <1>10, <1>11, <1>12 DEF Next

(* Types over any runs, on any machines: a payload that holds an account's *)
(* credentials was sealed by some machine, and credentials that logicInit  *)
(* is to log in with are an account's (options.c).                         *)
THEOREM TypesHold == Spec => []TypeOK
<1>1. Spec => []TypeInv
  BY InitTypes, NextTypes, PTL DEF Spec
<1>2. TypeInv => TypeOK
  BY DEF TypeInv
<1> QED
  BY <1>1, <1>2, PTL

-----------------------------------------------------------------------------
(* What is remembered.                                                     *)

(* A file that is another one with other credentials in the last line. *)
Keeps(f, b) ==
  /\ LinesOK(f) /\ Len(f) = Len(b)
  /\ \A i \in 1 .. Len(b) : i # Len(b) => f[i] = b[i]
  /\ f[Len(b)].option = "credentials" /\ f[Len(b)].value # "bad" /\ f[Len(b)] # Torn

Basis == IF first = Absent THEN DefaultFile ELSE first

(* The file is the one that was found or made but for the credentials, and *)
(* they are wanted; or it has not been made, or was left empty.  Until a   *)
(* payload has spelled a name, none in the file does.                      *)
Derived ==
  /\ Keeps(file, Basis) /\ Last(file) \in wanted /\ phase # "creating"
  /\ ~spelled => failed = "none" /\ Last(file).says = {}
  /\ phase \notin {"off", "starting"} /\ ~autoLoggingIn => ~Readable(file, machine)
Unmade ==
  /\ first = Absent
  /\ \/ file = Absent /\ phase = "off"
     \/ file = Empty /\ phase \in {"off", "creating", "starting"}
  /\ file = Absent \/ phase = "creating" => failed = "none" /\ NoCredentials \in wanted

Kept == (first = Absent \/ WellFormed(first)) => (Derived \/ Unmade)

(* A line that names no other option is read as its own. *)
LEMMA OwnOption ==
  ASSUME NEW l, l.says = {}, l.option \in Names
  PROVE  IsOption(l) /\ ParsedAs(l) = l.option
<1>1. DOMAIN Order = 1 .. 7
  BY DEF Order
<1>2. \A i, j \in 1 .. 7 : Order[i] = Order[j] => i = j
  BY DEF Order
<1>3. \A o \in Names : \E i \in 1 .. 7 : Order[i] = o
  BY DEF Order, Names
<1>4. PICK k \in 1 .. 7 : Order[k] = l.option
  BY <1>3
<1>5. Mentioned(l) = {i \in 1 .. 7 : Order[i] = l.option}
  BY <1>1 DEF Mentioned
<1>6. Mentioned(l) = {k}
  BY <1>2, <1>4, <1>5
<1>7. Min({k}) = k
  BY OnlyOne
<1> QED
  BY <1>4, <1>6, <1>7 DEF IsOption, ParsedAs

(* In a file in order every option has one line, that of the credentials   *)
(* is the last...                                                          *)
LEMMA InOrderLines ==
  ASSUME NEW f, LinesOK(f), InOrder(f)
  PROVE  /\ Len(f) \in Nat /\ Len(f) >= 1 /\ DOMAIN f = 1 .. Len(f) /\ Last(f) = f[Len(f)]
         /\ Places(f) = {Len(f)} /\ HasPlace(f) /\ Place(f) = Len(f)
         /\ \A o \in Names : \E i \in DOMAIN f : {j \in DOMAIN f : f[j].option = o} = {i} /\ Max({i}) = i
<1>1. f \in Seq(ToSet(f)) /\ f # <<>>
  BY DEF LinesOK, InOrder, Empty
<1>2. Len(f) \in Nat /\ Len(f) >= 1 /\ DOMAIN f = 1 .. Len(f) /\ Last(f) = f[Len(f)]
  BY <1>1, Elements
<1>3. ASSUME NEW o \in Names
      PROVE  \E i \in DOMAIN f : {j \in DOMAIN f : f[j].option = o} = {i} /\ Max({i}) = i
  <2>3. PICK U : U = {i \in DOMAIN f : f[i].option = o}
    OBVIOUS
  <2>4. IsFiniteSet(U)
    <3>1. IsFiniteSet(1 .. Len(f))
      BY <1>2, FS_Interval
    <3>2. U \subseteq 1 .. Len(f)
      BY <1>2, <2>3
    <3> QED
      BY <3>1, <3>2, FS_Subset
  <2>5. Cardinality(U) = 1
    BY <2>3 DEF InOrder
  <2>6. PICK i : U = {i}
    BY <2>4, <2>5, FS_Singleton
  <2>7. i \in DOMAIN f /\ i \in Nat
    BY <1>2, <2>3, <2>6
  <2>8. Max({i}) = i
    BY <2>7, OnlyOne
  <2> QED
    BY <2>3, <2>6, <2>7, <2>8
<1>4. Places(f) = {Len(f)}
  <2>1. "credentials" \in Names
    BY DEF Names
  <2>2. PICK i \in DOMAIN f : Places(f) = {i}
    BY <1>3, <2>1 DEF Places
  <2>3. Len(f) \in Places(f)
    BY <1>2 DEF Places, InOrder
  <2> QED
    BY <2>2, <2>3
<1>5. Place(f) = Len(f) /\ HasPlace(f)
  BY <1>2, <1>4, OnlyOne DEF Place, HasPlace
<1> QED
  BY <1>2, <1>3, <1>4, <1>5

(* ...and in a well formed one each is read as its option.                 *)
LEMMA WellFormedLines ==
  ASSUME NEW f, LinesOK(f), WellFormed(f)
  PROVE  /\ Len(f) \in Nat /\ Len(f) >= 1 /\ DOMAIN f = 1 .. Len(f) /\ Last(f) = f[Len(f)]
         /\ Places(f) = {Len(f)}
         /\ \A i \in DOMAIN f : IsOption(f[i]) /\ f[i].says = {}
         /\ \A o \in Names : LinesOf(f, o) = {i \in DOMAIN f : f[i].option = o}
         /\ \A o \in Names : \E i \in DOMAIN f : LinesOf(f, o) = {i} /\ Max({i}) = i
<1>1. InOrder(f) /\ Last(f).says = {}
  BY DEF WellFormed
<1>2. \A i \in DOMAIN f : f[i].says = {} /\ f[i].option \in Names
  BY <1>1, InOrderLines DEF InOrder
<1>3. \A i \in DOMAIN f : IsOption(f[i]) /\ ParsedAs(f[i]) = f[i].option
  BY <1>2, OwnOption
<1>4. \A o \in Names : LinesOf(f, o) = {i \in DOMAIN f : f[i].option = o}
  BY <1>3 DEF LinesOf
<1>5. ASSUME NEW o \in Names PROVE \E i \in DOMAIN f : LinesOf(f, o) = {i} /\ Max({i}) = i
  <2>1. PICK i \in DOMAIN f : {j \in DOMAIN f : f[j].option = o} = {i} /\ Max({i}) = i
    BY <1>1, InOrderLines
  <2>2. LinesOf(f, o) = {i}
    BY <1>4, <2>1
  <2> QED
    BY <2>1, <2>2
<1> QED
  BY <1>1, <1>2, <1>3, <1>4, <1>5, InOrderLines

LEMMA DefaultWellFormed == WellFormed(DefaultFile)
<1>1. /\ LinesOK(DefaultFile) /\ Len(DefaultFile) = 7 /\ DOMAIN DefaultFile = 1 .. 7
      /\ DefaultFile[7] = NoCredentials /\ Last(DefaultFile) = DefaultFile[7]
  BY DefaultLines, Elements DEF Last
<1>2. DefaultFile # Empty /\ DefaultFile # Absent
  <2>1. Len(Empty) = 0 /\ Len(Absent) = 1
    BY DEF Empty, Absent
  <2>2. Len(DefaultFile) # 0 /\ Len(DefaultFile) # 1
    BY <1>1
  <2> QED
    BY <2>1, <2>2, Zenon
<1>3. \A i \in 1 .. 7 : DefaultFile[i].option = Order[i]
  BY DEF DefaultFile, Order, Plain, NoCredentials, Sealed, Line
<1>4. \A i \in 1 .. 7 : Order[i] \in Names
  BY DEF Order, Names
<1>5. \A i \in 1 .. 7 : DefaultFile[i].says = {}
  BY DEF DefaultFile, Plain, NoCredentials, Sealed, Line
<1>6. Nobody # "bad" /\ Nobody # "torn"
  BY OptionsAssumption DEF Marks
<1>7. \A i \in 1 .. 6 : DefaultFile[i].value # "bad" /\ DefaultFile[i].value # "torn"
  BY DEF DefaultFile, Plain, NoCredentials, Sealed, Line
<1>8. DefaultFile[7].value = Nobody
  BY <1>1 DEF NoCredentials, Sealed, Line
<1>9. \A i \in 1 .. 7 : DefaultFile[i].value # "bad" /\ DefaultFile[i].value # "torn"
  BY <1>6, <1>7, <1>8
<1>10. Torn \notin ToSet(DefaultFile)
  <2>1. Torn.value = "torn"
    BY DEF Torn, Sealed, Line
  <2> QED
    BY <1>1, <1>9, <2>1 DEF ToSet
<1>11. ASSUME NEW o \in Names
       PROVE  Cardinality({i \in DOMAIN DefaultFile : DefaultFile[i].option = o}) = 1
  <2>1. \A i, j \in 1 .. 7 : Order[i] = Order[j] => i = j
    BY DEF Order
  <2>2. \E i \in 1 .. 7 : Order[i] = o
    BY DEF Order, Names
  <2>3. PICK k \in 1 .. 7 : {i \in DOMAIN DefaultFile : DefaultFile[i].option = o} = {k}
    BY <1>1, <1>3, <2>1, <2>2
  <2> QED
    BY <2>3, FS_Singleton
<1>12. Last(DefaultFile).option = "credentials"
  BY <1>1, <1>3 DEF Order
<1>13. \A i \in DOMAIN DefaultFile : /\ DefaultFile[i].option \in Names
                                    /\ DefaultFile[i].says = {} /\ DefaultFile[i].value # "bad"
  BY <1>1, <1>3, <1>4, <1>5, <1>9
<1>14. Last(DefaultFile).says = {}
  BY <1>1, <1>5
<1> QED
  BY <1>2, <1>10, <1>11, <1>12, <1>13, <1>14 DEF WellFormed, InOrder

LEMMA NothingBad ==
  ASSUME NEW f, LinesOK(f), WellFormed(f)
  PROVE  /\ f # Empty /\ \A i \in DOMAIN f : IsOption(f[i])
         /\ ~BadDigit(f) /\ ~MaybeBadDigit(f) /\ Torn \notin ToSet(f)
<1>1. \A i \in DOMAIN f : IsOption(f[i]) /\ f[i].value # "bad"
  BY WellFormedLines DEF WellFormed, InOrder
<1>2. {"theme", "language"} \subseteq Names
  BY DEF Names
<1>3. \A o \in Names : LinesOf(f, o) = {i \in DOMAIN f : f[i].option = o}
  BY WellFormedLines
<1>4. ~BadDigit(f)
  BY <1>1, <1>2, <1>3 DEF BadDigit
<1>5. ~MaybeBadDigit(f)
  BY <1>2, <1>3 DEF MaybeBadDigit
<1> QED
  BY <1>1, <1>4, <1>5 DEF WellFormed, InOrder

LEMMA KeepsItself ==
  ASSUME NEW b, LinesOK(b), WellFormed(b)
  PROVE  Keeps(b, b)
<1>1. /\ Len(b) \in DOMAIN b /\ Last(b) = b[Len(b)] /\ DOMAIN b = 1 .. Len(b)
      /\ b[Len(b)] \in ToSet(b)
  BY Elements DEF LinesOK, WellFormed, InOrder, Empty
<1>2. b[Len(b)].option = "credentials" /\ b[Len(b)].value # "bad" /\ b[Len(b)] # Torn
  BY <1>1 DEF WellFormed, InOrder
<1> QED
  BY <1>2 DEF Keeps

(* Other credentials leave a file in order and, if they spell no option's  *)
(* name, well formed and read the same.                                    *)
LEMMA KeepsWell ==
  ASSUME NEW b, LinesOK(b), WellFormed(b), NEW f, Keeps(f, b)
  PROVE  /\ InOrder(f)
         /\ WellFormed(f) => \A o \in Others : ParsedOther(f, o) = ParsedOther(b, o)
<1>1. PICK n : n = Len(b)
  OBVIOUS
<1>2. /\ n \in Nat /\ n >= 1 /\ DOMAIN b = 1 .. n /\ Last(b) = b[n]
      /\ \A o \in Names : LinesOf(b, o) = {i \in DOMAIN b : b[i].option = o}
  BY <1>1, WellFormedLines
<1>3. f \in Seq(ToSet(f)) /\ Len(f) = n
  BY <1>1 DEF Keeps, LinesOK
<1>4. DOMAIN f = 1 .. n /\ f # <<>> /\ Last(f) = f[n]
  <2>1. f # <<>>
    BY <1>2, <1>3
  <2> QED
    BY <1>3, <2>1, Elements
<1>5. /\ \A i \in 1 .. n : i # n => f[i] = b[i]
      /\ f[n].option = "credentials" /\ f[n].value # "bad" /\ f[n] # Torn
  BY <1>1 DEF Keeps
<1>6. \A i \in 1 .. n : b[i].option \in Names /\ b[i].says = {} /\ b[i].value # "bad" /\ b[i] # Torn
  <2>1. \A i \in 1 .. n : b[i] \in ToSet(b)
    BY <1>2 DEF ToSet
  <2> QED
    BY <1>2, <2>1, WellFormedLines DEF WellFormed, InOrder
<1>7. b[n].option = "credentials"
  BY <1>2 DEF WellFormed, InOrder
<1>8. \A i \in 1 .. n : /\ f[i].option = b[i].option /\ (i # n => f[i].says = {})
                        /\ f[i].value # "bad" /\ f[i] # Torn
  BY <1>5, <1>6, <1>7
<1>9. \A o : {i \in DOMAIN f : f[i].option = o} = {i \in DOMAIN b : b[i].option = o}
  BY <1>2, <1>4, <1>8
<1>10. InOrder(f)
  <2>1. f # Empty /\ f # Absent
    <3>1. f # Empty
      BY <1>4 DEF Empty
    <3>2. Absent[1].option = "absent" /\ "absent" \notin Names
      BY DEF Absent, Plain, Line, Names
    <3>3. f[1].option \in Names
      BY <1>2, <1>6, <1>8
    <3> QED
      BY <3>1, <3>2, <3>3
  <2>2. \A i \in DOMAIN f : f[i].option \in Names /\ (i # n => f[i].says = {}) /\ f[i].value # "bad"
    BY <1>4, <1>6, <1>8
  <2>3. \A o \in Names : Cardinality({i \in DOMAIN f : f[i].option = o}) = 1
    BY <1>9 DEF WellFormed, InOrder
  <2>4. Last(f).option = "credentials"
    BY <1>4, <1>5
  <2>5. Torn \notin ToSet(f)
    BY <1>4, <1>8 DEF ToSet
  <2> QED
    BY <1>3, <2>1, <2>2, <2>3, <2>4, <2>5 DEF InOrder
<1>11. ASSUME WellFormed(f), NEW o \in Others PROVE ParsedOther(f, o) = ParsedOther(b, o)
  <2>1. o \in Names /\ o # "credentials"
    BY DEF Others
  <2>2. PICK i \in DOMAIN b : LinesOf(b, o) = {i} /\ Max({i}) = i
    BY <2>1, WellFormedLines
  <2>3. LinesOf(f, o) = {j \in DOMAIN f : f[j].option = o}
    BY <1>11, <2>1, WellFormedLines DEF Keeps
  <2>4. LinesOf(f, o) = {i}
    BY <1>2, <1>9, <2>1, <2>2, <2>3
  <2>5. i # n
    BY <1>2, <1>7, <2>1, <2>2
  <2>6. f[i] = b[i]
    BY <1>2, <1>5, <2>2, <2>5
  <2> QED
    BY <2>2, <2>4, <2>6 DEF ParsedOther
<1> QED
  BY <1>10, <1>11

LEMMA KeepsTruncated ==
  ASSUME NEW b, LinesOK(b), WellFormed(b), NEW f, Keeps(f, b)
  PROVE  Keeps(Truncated(f), b) /\ Last(Truncated(f)) = NoCredentials
<1>1. LinesOK(f) /\ Len(f) = Len(b) /\ InOrder(f)
  BY KeepsWell DEF Keeps
<1>2. PICK n : n = Len(f)
  OBVIOUS
<1>3. n \in Nat /\ n >= 1 /\ Place(f) = n /\ HasPlace(f) /\ f \in Seq(ToSet(f))
  BY <1>1, <1>2, InOrderLines DEF LinesOK
<1>4. PICK g : g = Truncated(f)
  OBVIOUS
<1>5. g = SubSeq(f, 1, n - 1) \o <<NoCredentials>>
  BY <1>3, <1>4 DEF Truncated, CutOff
<1>6. n - 1 \in 0 .. Len(f) /\ (n - 1) + 1 = n
  BY <1>2, <1>3
<1>7. Len(g) = n /\ g[n] = NoCredentials /\ \A i \in 1 .. n - 1 : g[i] = f[i]
  BY <1>3, <1>5, <1>6, OneMore
<1>8. LinesOK(g)
  BY <1>1, <1>3, <1>4, TruncatedLines
<1>9. Last(g) = NoCredentials
  BY <1>7 DEF Last
<1>10. Nobody # "bad" /\ Nobody # "torn"
  BY OptionsAssumption DEF Marks
<1>11. /\ NoCredentials.option = "credentials"
       /\ NoCredentials.value # "bad" /\ NoCredentials # Torn
  BY <1>10 DEF NoCredentials, Torn, Sealed, Line
<1>12. \A i \in 1 .. n : i # n => g[i] = b[i]
  BY <1>1, <1>2, <1>3, <1>7 DEF Keeps
<1> QED
  BY <1>1, <1>2, <1>4, <1>7, <1>8, <1>9, <1>11, <1>12 DEF Keeps

LEMMA KeepsOverwritten ==
  ASSUME NEW b, LinesOK(b), WellFormed(b), NEW f, Keeps(f, b),
         NEW line, LineOK(line), line.option = "credentials",
         line.value # "bad", line # Torn, NEW g \in Overwritten(f, line)
  PROVE  Keeps(g, b) /\ Last(g) = line
<1>1. LinesOK(f) /\ Len(f) = Len(b) /\ InOrder(f) /\ f[Len(f)] # Torn
  BY KeepsWell DEF Keeps
<1>2. PICK n : n = Len(f)
  OBVIOUS
<1>3. n \in Nat /\ n >= 1 /\ Place(f) = n /\ HasPlace(f) /\ DOMAIN f = 1 .. n /\ f \in Seq(ToSet(f))
  BY <1>1, <1>2, InOrderLines DEF LinesOK
<1>4. g = [f EXCEPT ![n] = line]
  BY <1>1, <1>2, <1>3 DEF Overwritten, InPlace
<1>5. Len(g) = n /\ g[n] = line /\ \A i \in 1 .. n : i # n => g[i] = f[i]
  BY <1>2, <1>3, <1>4
<1>6. LinesOK(g)
  BY <1>1, <1>3, OverwrittenLines
<1>7. Last(g) = line
  BY <1>5 DEF Last
<1>8. \A i \in 1 .. n : i # n => g[i] = b[i]
  BY <1>1, <1>2, <1>5 DEF Keeps
<1> QED
  BY <1>1, <1>2, <1>5, <1>6, <1>7, <1>8 DEF Keeps

(* Without an account in the last line nothing is there to log in with.    *)
LEMMA Unreadable ==
  ASSUME NEW f, LinesOK(f), WellFormed(f), Last(f).value \notin Accounts, NEW m
  PROVE  ~Readable(f, m)
<1>1. Places(f) = {Len(f)} /\ Last(f) = f[Len(f)] /\ "credentials" \in Names
  BY WellFormedLines DEF Names
<1>2. LinesOf(f, "credentials") = {Len(f)}
  BY <1>1, WellFormedLines DEF Places
<1>3. {i \in LinesOf(f, "credentials") : f[i].value \in Accounts /\ Opens(f[i], m)} = {}
  BY <1>1, <1>2
<1>4. ParsedCredentials(f, m) = "unset"
  BY <1>3 DEF ParsedCredentials
<1> QED
  BY <1>4 DEF Readable

LEMMA BasisWell ==
  ASSUME TypeInv, first = Absent \/ WellFormed(first)
  PROVE  LinesOK(Basis) /\ WellFormed(Basis)
<1>1. first # Absent => LinesOK(first)
  <2>1. first \in Seq(ToSet(first))
    BY OptionsAssumption DEF TypeInv
  <2>2. ASSUME NEW l \in ToSet(first) PROVE LineOK(l)
    <3>1. PICK i \in DOMAIN first : l = first[i]
      BY DEF ToSet
    <3> QED
      BY <3>1, OptionsAssumption DEF LineOK, TypeInv
  <2> QED
    BY <2>1, <2>2 DEF LinesOK
<1> QED
  BY <1>1, DefaultLines, DefaultWellFormed DEF Basis

LEMMA KeptInit == Init => Kept
<1> SUFFICES ASSUME Init, first = Absent \/ WellFormed(first) PROVE Derived \/ Unmade
  BY DEF Kept
<1>1. /\ first \in FirstFiles /\ file = first /\ phase = "off" /\ failed = "none"
      /\ NoCredentials \in wanted
      /\ \A i \in DOMAIN first : first[i].option = "credentials" => first[i] \in wanted
  BY DEF Init
<1>2. CASE first = Absent
  BY <1>1, <1>2 DEF Unmade
<1>3. CASE first # Absent /\ WellFormed(first)
  <2>1. TypeInv
    BY InitTypes
  <2>2. LinesOK(first) /\ Basis = first
    BY <1>3, <2>1, BasisWell DEF Basis
  <2>3. Keeps(file, Basis)
    BY <1>1, <1>3, <2>2, KeepsItself
  <2>4. Last(first) = first[Len(first)] /\ Len(first) \in DOMAIN first
    BY <1>3, <2>2, Elements DEF LinesOK, WellFormed, InOrder, Empty
  <2>5. Last(file) \in wanted /\ Last(file).says = {}
    BY <1>1, <1>3, <2>4 DEF WellFormed, InOrder
  <2> QED
    BY <1>1, <2>3, <2>5 DEF Derived
<1> QED
  BY <1>2, <1>3

LEMMA KeptNext == TypeInv /\ Kept /\ [Next]_vars => Kept'
<1> SUFFICES ASSUME TypeInv, Kept, [Next]_vars, (first = Absent \/ WellFormed(first))'
             PROVE  (Derived \/ Unmade)'
  BY DEF Kept
<1>1. UNCHANGED first
  BY DEF Next, vars, run, Starts, Creates, Reads, ShowsPage, TurnsOn, TurnsOff, LogsIn, Registers,
         Writes, Answered, Disconnected, Ends, Abort, past
<1>2. first = Absent \/ WellFormed(first)
  BY <1>1
<1>3. Derived \/ Unmade
  BY <1>2 DEF Kept
<1>4. LinesOK(Basis) /\ WellFormed(Basis) /\ UNCHANGED Basis
  BY <1>1, <1>2, BasisWell DEF Basis
<1>5. LinesOK(file)
  BY DEF TypeInv
<1>6. Empty # Absent
  <2>1. Len(Empty) = 0 /\ Len(Absent) = 1
    BY DEF Empty, Absent
  <2> QED
    BY <2>1
<1>7. CASE Derived
  <2>1. /\ Keeps(file, Basis) /\ Last(file) \in wanted /\ phase # "creating"
        /\ ~spelled => failed = "none" /\ Last(file).says = {}
    BY <1>7 DEF Derived
  <2>2. InOrder(file) /\ (~spelled => WellFormed(file))
    BY <1>4, <2>1, KeepsWell DEF WellFormed
  <2>3. file # Empty /\ file # Absent
    BY <2>2 DEF InOrder
  <2>4. HasPlace(file)
    BY <1>5, <2>2, InOrderLines
  <2>5. ASSUME UNCHANGED <<file, wanted, spelled>>, failed' = failed \/ spelled, phase' # "creating",
               (phase \notin {"off", "starting"} /\ ~autoLoggingIn => ~Readable(file, machine))'
        PROVE  Derived'
    BY <1>4, <2>1, <2>5 DEF Derived
  <2>6. CASE UNCHANGED vars
    BY <1>7, <2>5, <2>6 DEF vars, run, past, Derived
  <2>7. CASE Ends
    BY <2>5, <2>7 DEF Ends, Off, past
  <2>8. ASSUME NEW m \in Machines, Starts(m) PROVE Derived'
    BY <2>3, <2>5, <2>8 DEF Starts, past
  <2>9. CASE Creates
    BY <2>1, <2>9 DEF Creates
  <2>10. CASE Reads
    <3>1. CASE /\ autoLoggingIn' = ByItself(file, machine) /\ phase' = "waiting"
               /\ UNCHANGED <<file, machine, wanted, spelled, failed>>
      <4>1. ~autoLoggingIn' => ~Readable(file', machine')
        BY <3>1 DEF ByItself
      <4> QED
        BY <2>5, <3>1, <4>1
    <3>2. CASE \E what : Abort(what) /\ spelled
      BY <2>5, <3>2 DEF Abort, Off, past
    <3>3. ~spelled => /\ file # Empty /\ \A i \in DOMAIN file : IsOption(file[i])
                      /\ ~BadDigit(file) /\ ~MaybeBadDigit(file) /\ Torn \notin ToSet(file)
      BY <1>5, <2>2, NothingBad
    <3> QED
      BY <2>10, <3>1, <3>2, <3>3 DEF Reads, past
  <2>11. CASE ShowsPage
    BY <1>7, <2>5, <2>11 DEF ShowsPage, past, Derived
  <2>12. CASE TurnsOn
    BY <1>7, <2>5, <2>12 DEF TurnsOn, OnForm, past, Derived
  <2>13. CASE TurnsOff
    <3>1. /\ phase = "page" /\ file' = Truncated(file) /\ wanted' = {NoCredentials}
          /\ UNCHANGED <<phase, machine, first, spelled, failed>>
      BY <2>4, <2>13 DEF TurnsOff, OnForm
    <3>2. Keeps(file', Basis) /\ Last(file') = NoCredentials
      BY <1>4, <2>1, <3>1, KeepsTruncated
    <3>3. LinesOK(file') /\ WellFormed(file') /\ Last(file').says = {}
      <4>1. NoCredentials.says = {}
        BY DEF NoCredentials, Sealed, Line
      <4> QED
        BY <1>4, <3>2, <4>1, KeepsWell DEF Keeps, WellFormed
    <3>4. Last(file').value \notin Accounts
      BY <3>2, OptionsAssumption DEF NoCredentials, Sealed, Line
    <3>5. ~Readable(file', machine')
      BY <3>3, <3>4, Unreadable
    <3> QED
      BY <1>4, <2>1, <3>1, <3>2, <3>3, <3>5 DEF Derived
  <2>14. ASSUME NEW who \in Accounts, LogsIn(who) PROVE Derived'
    BY <1>7, <2>5, <2>14 DEF LogsIn, OnForm, past, Derived
  <2>15. CASE Registers
    BY <1>7, <2>5, <2>15 DEF Registers, OnForm, past, Derived
  <2>16. CASE Writes /\ ~autoLoggingIn
    BY <1>7, <2>5, <2>16 DEF Writes, past, Derived
  <2>17. CASE Writes /\ autoLoggingIn
    <3>1. PICK says, line :
            /\ line = Sealed(entered, machine, says) /\ file' \in Overwritten(file, line)
            /\ wanted' = {line} /\ spelled' = (spelled \/ says # {})
      BY <2>4, <2>17 DEF Writes
    <3>2. /\ phase' = "logging" /\ UNCHANGED <<machine, autoLoggingIn, first, failed>> /\ phase = "writing"
      BY <2>4, <2>17 DEF Writes
    <3>3. machine \in Machines /\ entered \in Accounts \cup {Nobody}
      BY <3>2 DEF TypeInv, TypeOK
    <3>4. LineOK(line)
      BY <3>1, <3>3, SealedLine
    <3>5. entered # "bad" /\ entered # "torn"
      BY <3>3, OptionsAssumption DEF Marks
    <3>6. /\ line.option = "credentials" /\ line.says = says /\ line.value # "bad" /\ line # Torn
      BY <3>1, <3>5 DEF Sealed, Line, Torn
    <3>7. Keeps(file', Basis) /\ Last(file') = line
      BY <1>4, <2>1, <3>1, <3>4, <3>6, KeepsOverwritten
    <3> QED
      BY <1>4, <2>1, <2>17, <3>1, <3>2, <3>6, <3>7 DEF Derived
  <2>18. CASE Answered \/ Disconnected
    <3>1. /\ UNCHANGED <<file, machine, autoLoggingIn, wanted, spelled, failed>>
          /\ phase \in {"logging", "in"} /\ phase' \in {"page", "in"}
      BY <2>18 DEF Answered, Disconnected, past
    <3> QED
      BY <1>7, <2>5, <3>1 DEF Derived
  <2> QED
    BY <2>6, <2>7, <2>8, <2>9, <2>10, <2>11, <2>12, <2>13, <2>14, <2>15, <2>16, <2>17, <2>18 DEF Next
<1>8. CASE Unmade
  <2>1. first = Absent /\ Basis = DefaultFile
    BY <1>8 DEF Unmade, Basis
  <2>2. CASE UNCHANGED vars
    BY <1>8, <2>2 DEF vars, run, past, Unmade
  <2>3. CASE Ends
    BY <1>1, <1>6, <1>8, <2>3 DEF Ends, Off, Running, past, Unmade
  <2>4. ASSUME NEW m \in Machines, Starts(m) PROVE Unmade'
    BY <1>1, <1>6, <1>8, <2>4 DEF Starts, past, Unmade
  <2>5. CASE Creates
    <3>1. /\ file' = DefaultFile /\ phase' = "starting" /\ failed = "none" /\ NoCredentials \in wanted
          /\ UNCHANGED <<past, failed>>
      BY <1>8, <2>5 DEF Creates, past, Unmade
    <3>2. Keeps(DefaultFile, DefaultFile)
      BY DefaultLines, DefaultWellFormed, KeepsItself
    <3>3. Last(DefaultFile) = NoCredentials /\ NoCredentials.says = {}
      BY DefaultLines DEF Last, NoCredentials, Sealed, Line
    <3>4. Keeps(file', Basis') /\ Last(file') \in wanted' /\ phase' # "creating"
      BY <1>4, <2>1, <3>1, <3>2, <3>3 DEF past
    <3>5. failed' = "none" /\ Last(file').says = {} /\ phase' \in {"off", "starting"}
      BY <3>1, <3>3
    <3> QED
      BY <3>4, <3>5 DEF Derived
  <2>6. CASE Reads
    <3>1. phase = "starting" /\ file = Empty
      BY <1>6, <1>8, <2>6 DEF Reads, Unmade
    <3>2. phase' = "off" /\ UNCHANGED <<file, first, wanted>>
      BY <2>6, <3>1 DEF Reads, Abort, Off, past
    <3> QED
      BY <1>6, <2>1, <3>1, <3>2 DEF Unmade
  <2>7. phase \in {"off", "creating", "starting"}
    BY <1>8 DEF Unmade
  <2>8. ~(ShowsPage \/ TurnsOn \/ TurnsOff \/ (\E who \in Accounts : LogsIn(who))
          \/ Registers \/ Writes \/ Answered \/ Disconnected)
    BY <2>7 DEF ShowsPage, TurnsOn, TurnsOff, LogsIn, Registers, Writes, Answered, Disconnected,
                OnForm
  <2> QED
    BY <2>2, <2>3, <2>4, <2>5, <2>6, <2>8 DEF Next
<1> QED
  BY <1>3, <1>7, <1>8

LEMMA AlwaysKept == Spec => [](TypeInv /\ Kept)
<1>1. Init => TypeInv /\ Kept
  BY InitTypes, KeptInit
<1>2. TypeInv /\ Kept /\ [Next]_vars => (TypeInv /\ Kept)'
  BY NextTypes, KeptNext
<1> QED
  BY <1>1, <1>2, PTL DEF Spec

(* What Kept says of a file that is promised something. *)
LEMMA ProperDerived ==
  ASSUME TypeInv, Kept, Proper
  PROVE  Derived /\ LinesOK(Basis) /\ WellFormed(Basis)
<1>1. first = Absent \/ WellFormed(first)
  BY DEF Proper
<1>2. ~InOrder(Absent) /\ ~InOrder(Empty)
  BY DEF InOrder
<1>3. ~Unmade
  BY <1>2 DEF Proper, Unmade, WellFormed
<1> QED
  BY <1>1, <1>3, BasisWell DEF Kept

(* Whatever runs are made, on whatever machines, and wherever they are     *)
(* killed: the file holds the credentials of who asked for it last and     *)
(* nothing once that was turned off, and while the log in page says that   *)
(* it is off, nothing is there for this machine to log in with by itself   *)
(* (logic.c's logicOnAutoLoggingInChanged and processCredentials,          *)
(* options.c).                                                             *)
THEOREM Remembered == Spec => []RemembersLast
<1>1. TypeInv /\ Kept => RemembersLast
  <2> SUFFICES ASSUME TypeInv, Kept, Proper
               PROVE  /\ Last(file) \in wanted
                      /\ phase = "page" /\ ~autoLoggingIn => ParsedCredentials(file, machine) = "unset"
    BY DEF RemembersLast
  <2> QED
    BY ProperDerived DEF Derived, Readable
<1> QED
  BY <1>1, AlwaysKept, PTL

(* Writing credentials into a file as the client makes it, or cutting them *)
(* off, never costs it another option and never ends a later start: the    *)
(* payload is in the last line, so that nothing stands behind it that      *)
(* truncate or an overwriting could hit.  Only a payload that spells an    *)
(* option's name is read as that option, by the order of the tests in      *)
(* optionsInit, until it is written over or cut off (options.c).           *)
THEOREM StartsGoOn == Spec => []StartsAgain
<1>1. TypeInv /\ Kept => StartsAgain
  <2> SUFFICES ASSUME TypeInv, Kept, Proper
               PROVE  /\ (~spelled => failed = "none") /\ InOrder(file)
                      /\ WellFormed(file) => \A o \in Others : ParsedOther(file, o) = ParsedOther(Basis, o)
    BY DEF StartsAgain, Basis
  <2>1. Derived /\ LinesOK(Basis) /\ WellFormed(Basis)
    BY ProperDerived
  <2>2. Keeps(file, Basis) /\ (~spelled => failed = "none")
    BY <2>1 DEF Derived
  <2> QED
    BY <2>1, <2>2, KeepsWell
<1> QED
  BY <1>1, AlwaysKept, PTL
=============================================================================
