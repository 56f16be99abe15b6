------------------------------ MODULE Options -------------------------------
(***************************************************************************)
(* The options file of src/src/options.c over many runs of the client, on  *)
(* the machines it is copied to: how it is made, read line by line at the  *)
(* start, and how credentials are written into it and cut off from it      *)
(* again, with what src/src/logic.c does to log in by itself.  A run may   *)
(* end, or be killed, at any step.                                         *)
(*                                                                         *)
(* A line is the option it sets, the options that the rest of it names     *)
(* ("admin" in a host's name), and a value; credentials are sealed with a  *)
(* key made from the machine's id (by), and their payload, random letters  *)
(* and digits, may happen to spell an option's name.  Left out: a file of  *)
(* more than MAX_FILE_SIZE bytes, and what the connection says (Session).  *)
(***************************************************************************)
EXTENDS Naturals, SequencesExt, FiniteSetsExt

CONSTANTS
  Machines,     (* host ids                                                *)
  Accounts,     (* user names with passwords                               *)
  Nobody, NoMachine,
  FirstFiles,   (* what the first run finds: files made by hand, no file   *)
  Spellings     (* which options' names a payload may happen to spell      *)

Names == {"admin", "host", "port", "sspk", "theme", "language", "credentials"}
Others == Names \ {"credentials"}

Line(option, says, value, by) ==
  [option |-> option, says |-> says, value |-> value, by |-> by]
Plain(option, value) == Line(option, {}, value, NoMachine)
Sealed(who, machine, says) == Line("credentials", says, who, machine)
NoCredentials == Sealed(Nobody, NoMachine, {})
(* A payload that has lost bytes or got some of another line. *)
Torn == Sealed("torn", NoMachine, {})
(* What a line break at the end of a file makes: an empty line. *)
Blank == Plain("blank", "")

Absent == <<Plain("absent", "")>>
Empty == <<>>

(* Values that are no account's name. *)
Marks == {"torn", "misread", "unset", "bad"}

ASSUME SpellingsAssumption == Spellings \subseteq SUBSET Others
ASSUME OptionsAssumption ==
  /\ NoMachine \notin Machines /\ Nobody \notin Accounts
  /\ Marks \cap (Accounts \cup {Nobody}) = {}
  /\ Absent \in FirstFiles
  /\ \A f \in FirstFiles :
       /\ f \in Seq(ToSet(f))
       /\ \A i \in DOMAIN f :
            /\ f[i] = Line(f[i].option, f[i].says, f[i].value, f[i].by)
            /\ "credentials" \notin f[i].says
            /\ f[i].option = "credentials" /\ f[i].value \in Accounts => f[i].by \in Machines

VARIABLES
  file,          (* options.txt                                            *)
  phase,         (* how far the run is; "off" between runs                 *)
  machine,       (* fetchHostId of this run                                *)
  read,          (* the options as optionsInit read them                   *)
  autoLoggingIn, (* of logic.c                                             *)
  entered,       (* the account whose credentials are being processed      *)
  first, wanted, (* history: the first file; what the file may hold        *)
  spelled,       (* history: a written payload spelled an option's name    *)
  failed         (* an assertion that ended a run, or "none"               *)

run  == <<phase, machine, read, autoLoggingIn, entered>>
past == <<first, wanted, spelled>>
vars == <<file, run, past, failed>>

Phases == {"off", "creating", "starting", "waiting", "page", "writing", "logging", "in"}

Unread == [o \in Names |-> "unset"]

TypeOK ==
  /\ phase \in Phases /\ machine \in Machines \cup {NoMachine}
  /\ (phase = "off") = (machine = NoMachine)
  /\ DOMAIN read = Names /\ autoLoggingIn \in BOOLEAN
  /\ file \in Seq(ToSet(file))
  /\ entered \in Accounts \cup {Nobody}
  /\ \A i \in DOMAIN file : file[i].option = "credentials" /\ file[i].value \in Accounts
       => file[i].by \in Machines
  /\ wanted # {} /\ spelled \in BOOLEAN
  /\ failed \in {"none", "empty", "line", "value", "torn", "offset"}
  /\ autoLoggingIn /\ phase = "waiting" => read["credentials"] \in Accounts

Init ==
  /\ first \in FirstFiles /\ file = first
  /\ phase = "off" /\ machine = NoMachine /\ read = Unread
  /\ autoLoggingIn = FALSE /\ entered = Nobody
  /\ wanted = {NoCredentials} \cup
               {first[i] : i \in {j \in DOMAIN first : first[j].option = "credentials"}}
  /\ spelled = FALSE /\ failed = "none"

-----------------------------------------------------------------------------
(* Reading the file: optionsInit and the parse functions.                  *)

(* A line is parsed as the first option, in this order, that stands        *)
(* anywhere in it.                                                         *)
Order == <<"admin", "host", "port", "sspk", "theme", "language", "credentials">>
Mentioned(line) == {i \in DOMAIN Order : Order[i] \in {line.option} \cup line.says}
IsOption(line) == Mentioned(line) # {}
ParsedAs(line) == Order[Min(Mentioned(line))]

LinesOf(f, option) == {i \in DOMAIN f : IsOption(f[i]) /\ ParsedAs(f[i]) = option}

(* The last line of an option counts; one that means another is misread.   *)
ParsedOther(f, option) ==
  LET lines == LinesOf(f, option)
  IN  IF lines = {} THEN "unset"
      ELSE LET line == f[Max(lines)]
           IN  IF line.option = option THEN line.value ELSE "misread"

(* parseCredentialsOption leaves them unset unless this machine's key opens *)
(* the payload.                                                            *)
OwnKey(line, m) == line.by = m
AnyKey(line, m) == line.by # NoMachine
Opens(line, m) == OwnKey(line, m)

ParsedCredentials(f, m) ==
  LET lines == {i \in LinesOf(f, "credentials") : f[i].value \in Accounts /\ Opens(f[i], m)}
  IN  IF lines = {} THEN "unset" ELSE f[Max(lines)].value

Parsed(f, m) ==
  [o \in Names |-> IF o = "credentials" THEN ParsedCredentials(f, m) ELSE ParsedOther(f, o)]

(* parseHostOption copies the host without its end: it may be read on      *)
(* beyond that.                                                            *)
HostReadings(f) ==
  LET host == ParsedOther(f, "host")
  IN  IF host = "unset" THEN {host} ELSE {host, "overrun"}

(* logicInit logs in by itself if there are credentials that it can read.  *)
Readable(f, m) == ParsedCredentials(f, m) # "unset"
PayloadThere(f, m) == \E i \in DOMAIN f : f[i].by # NoMachine

ByItself(f, m) == Readable(f, m)

(* The theme and the language are one digit; a misread one may be any      *)
(* character, and one that is no digit counts as 0.                        *)
BadDigit(f) ==
  \E o \in {"theme", "language"} : \E i \in LinesOf(f, o) : f[i].option = o /\ f[i].value = "bad"
MaybeBadDigit(f) ==
  \E o \in {"theme", "language"} : \E i \in LinesOf(f, o) : f[i].option # o

-----------------------------------------------------------------------------
(* Where the payload of the credentials is (findOffsetOfOptionPayload).    *)

Places(f) == {i \in DOMAIN f : f[i].option = "credentials"}
HasPlace(f) == Places(f) # {}
Place(f) == Min(Places(f))

(* truncate: the payload and whatever follows. *)
CutOff(f) == SubSeq(f, 1, Place(f) - 1) \o <<NoCredentials>>
CutLine(f) == SubSeq(f, 1, Place(f) - 1)
NothingCut(f) == f

Truncated(f) == CutOff(f)

(* Payloads are as long as one another and are written over the bytes that *)
(* are there: an old payload; the end of the file; the lines that follow,  *)
(* of which the last to be hit may leave a piece that tears the payload; a *)
(* torn payload keeps that piece.                                          *)
InPlace(f, line) ==
  LET p == Place(f)
      WithoutLines(n, payload) == SubSeq(f, 1, p - 1) \o <<payload>> \o SubSeq(f, n + 1, Len(f))
  IN  IF f[p] = Torn THEN {f}
      ELSE IF f[p].by # NoMachine \/ p = Len(f) THEN {[f EXCEPT ![p] = line]}
      ELSE UNION {{WithoutLines(n, line), WithoutLines(n, Torn)} : n \in p + 1 .. Len(f)}
AtEnd(f, line) == {Append(f, line)}

Overwritten(f, line) == InPlace(f, line)

-----------------------------------------------------------------------------
(* A run.                                                                  *)

Running == phase # "off"

Off ==
  /\ phase' = "off" /\ machine' = NoMachine /\ read' = Unread
  /\ autoLoggingIn' = FALSE /\ entered' = Nobody

Abort(what) ==
  /\ failed' = what
  /\ Off /\ UNCHANGED <<file, past>>

(* The process is closed or killed. *)
Ends ==
  /\ Running
  /\ Off /\ UNCHANGED <<file, past, failed>>

Starts(m) ==
  /\ phase = "off"
  /\ machine' = m
  /\ IF file = Absent THEN phase' = "creating" /\ file' = Empty
     ELSE phase' = "starting" /\ UNCHANGED file
  /\ UNCHANGED <<read, autoLoggingIn, entered, past, failed>>

(* createDefaultOptionsFileIfNotExists: opening has made an empty file. *)
DefaultFile ==
  <<Plain("admin", "false"), Plain("host", "127.0.0.1"), Plain("port", "8080"),
    Plain("sspk", "key"), Plain("theme", "1"), Plain("language", "0"), NoCredentials>>

Creates ==
  /\ phase = "creating"
  /\ file' = DefaultFile /\ phase' = "starting"
  /\ UNCHANGED <<machine, read, autoLoggingIn, entered, past, failed>>

(* optionsInit and logicInit.  An empty file, a line without an option and *)
(* a bad digit end the run; a torn payload ends it when it still decodes.  *)
Reads ==
  \/ /\ phase = "starting" /\ file # Empty
     /\ \A i \in DOMAIN file : IsOption(file[i])
     /\ ~BadDigit(file)
     /\ \E host \in HostReadings(file) : read' = [Parsed(file, machine) EXCEPT !["host"] = host]
     /\ autoLoggingIn' = ByItself(file, machine)
     /\ phase' = "waiting"
     /\ UNCHANGED <<file, machine, entered, past, failed>>
  \/ phase = "starting" /\ file = Empty /\ Abort("empty")
  \/ phase = "starting" /\ (\E i \in DOMAIN file : ~IsOption(file[i])) /\ Abort("line")
  \/ phase = "starting" /\ (BadDigit(file) \/ MaybeBadDigit(file)) /\ Abort("value")
  \/ phase = "starting" /\ Torn \in ToSet(file) /\ Abort("torn")

(* showLoginPageOrPerformAutoLoggingIn, a second later *)
ShowsPage ==
  /\ phase = "waiting"
  /\ IF autoLoggingIn
     THEN phase' = "writing" /\ entered' = read["credentials"]
     ELSE phase' = "page" /\ UNCHANGED entered
  /\ UNCHANGED <<file, machine, read, autoLoggingIn, past, failed>>

(* The box to tick and the buttons are there on the log in page. *)
OnForm == phase = "page"

(* logicOnAutoLoggingInChanged: turned off, the credentials are forgotten. *)
TurnsOn ==
  /\ OnForm /\ ~autoLoggingIn
  /\ autoLoggingIn' = TRUE
  /\ UNCHANGED <<file, phase, machine, read, entered, past, failed>>

TurnsOff ==
  \/ /\ OnForm /\ autoLoggingIn
     /\ IF HasPlace(file) THEN file' = Truncated(file) ELSE UNCHANGED file
     /\ autoLoggingIn' = FALSE
     /\ wanted' = {NoCredentials}
     /\ UNCHANGED <<phase, machine, read, entered, first, spelled, failed>>
  \/ OnForm /\ autoLoggingIn /\ ~HasPlace(file) /\ Abort("offset")

(* logicOnCredentialsReceived; registering writes nothing. *)
LogsIn(who) ==
  /\ OnForm
  /\ phase' = "writing" /\ entered' = who
  /\ UNCHANGED <<file, machine, read, autoLoggingIn, past, failed>>

Registers ==
  /\ OnForm
  /\ phase' = "logging"
  /\ UNCHANGED <<file, machine, read, autoLoggingIn, entered, past, failed>>

(* processCredentials: written before anyone has looked at them.  Where    *)
(* the option is missing the offset is the distance of two unrelated       *)
(* addresses: below 0 an assertion fails, beyond what is ever read nothing *)
(* is seen of the write.                                                   *)
Writes ==
  \/ /\ phase = "writing" /\ autoLoggingIn
     /\ \E says \in Spellings :
          LET line == Sealed(entered, machine, says) IN
          /\ \/ HasPlace(file) /\ file' \in Overwritten(file, line)
             \/ ~HasPlace(file) /\ UNCHANGED file
          /\ wanted' = {line}
          /\ spelled' = (spelled \/ says # {})
     /\ phase' = "logging" /\ entered' = Nobody
     /\ UNCHANGED <<machine, read, autoLoggingIn, first, failed>>
  \/ /\ phase = "writing" /\ ~autoLoggingIn
     /\ phase' = "logging" /\ entered' = Nobody
     /\ UNCHANGED <<file, machine, read, autoLoggingIn, past, failed>>
  \/ phase = "writing" /\ autoLoggingIn /\ ~HasPlace(file) /\ Abort("offset")

(* Refused, not connected or disconnected later; or logged in. *)
Answered ==
  /\ phase = "logging" /\ phase' \in {"page", "in"}
  /\ UNCHANGED <<file, machine, read, autoLoggingIn, entered, past, failed>>

Disconnected ==
  /\ phase = "in" /\ phase' = "page"
  /\ UNCHANGED <<file, machine, read, autoLoggingIn, entered, past, failed>>

Next ==
  \/ \E m \in Machines : Starts(m)
  \/ Creates \/ Reads \/ ShowsPage \/ TurnsOn \/ TurnsOff
  \/ \E who \in Accounts : LogsIn(who)
  \/ Registers \/ Writes \/ Answered \/ Disconnected \/ Ends

Spec == Init /\ [][Next]_vars

-----------------------------------------------------------------------------
(* Correctness.                                                            *)

(* A file as the client makes it, whatever its values and the order of the *)
(* other options: one line for each option, credentials last and whole,    *)
(* none of the others named by another...                                  *)
InOrder(f) ==
  /\ f # Empty /\ f # Absent
  /\ \A i \in DOMAIN f :
       /\ f[i].option \in Names /\ f[i].value # "bad"
       /\ i # Len(f) => f[i].says = {}
  /\ \A o \in Names : Cardinality({i \in DOMAIN f : f[i].option = o}) = 1
  /\ Last(f).option = "credentials" /\ Torn \notin ToSet(f)
(* ...nor by the payload of the credentials.                               *)
WellFormed(f) == InOrder(f) /\ Last(f).says = {}

Proper == WellFormed(first) \/ (first = Absent /\ InOrder(file))

(* Through any runs, on any machines, ended at any step, the file holds    *)
(* the credentials of who asked for it last, and nothing once that was     *)
(* turned off; while the log in page says that it is off, no start on this *)
(* machine logs in by itself.                                              *)
RemembersLast ==
  Proper =>
    /\ Last(file) \in wanted
    /\ phase = "page" /\ ~autoLoggingIn => ParsedCredentials(file, machine) = "unset"

(* Neither writing nor cutting off credentials ever costs the file another *)
(* option, or the client its next start, but for a payload that happens to *)
(* spell an option's name: until it is written over or cut off, its line   *)
(* is read as that option.  A file that ends in a line break, names an     *)
(* option in a value, has options after the credentials or was being made  *)
(* when the first run was killed is not promised that.                     *)
StartsAgain ==
  Proper =>
    /\ ~spelled => failed = "none"
    /\ InOrder(file)
    /\ WellFormed(file) =>
         \A o \in Others :
           ParsedOther(file, o) = ParsedOther(IF first = Absent THEN DefaultFile ELSE first, o)
=============================================================================
