----------------------------- MODULE MCOptions ------------------------------
(* Options for TLC: files as the client makes them, as an editor leaves    *)
(* them, and as a user may have arranged them.                             *)
EXTENDS Options

CONSTANTS A, B, M1, M2

Head7(host) ==
  <<Plain("admin", "false"), host, Plain("port", "8080"), Plain("sspk", "key"),
    Plain("theme", "1"), Plain("language", "0")>>
Host == Plain("host", "127.0.0.1")

(* No name, one whose line is then misread, and one that ends the run. *)
Few == {{}, {"host"}, {"theme"}}

Files == {
  Absent,
  Append(Head7(Host), Sealed(A, M1, {})),
  Reverse(Head7(Host)) \o <<NoCredentials>>,
  <<NoCredentials>> \o Head7(Host),
  <<Sealed(B, M2, {})>> \o Head7(Host),
  Head7(Host),
  Append(Head7(Host), NoCredentials) \o <<Blank>>,
  Append(Head7(Line("host", {"admin"}, "admin.org", NoMachine)), NoCredentials),
  Append(Head7(Host), NoCredentials) \o <<Line("note", {"theme"}, "", NoMachine)>>,
  Append(SubSeq(Head7(Host), 1, 5), Plain("language", "bad")) \o <<NoCredentials>>,
  Empty }
=============================================================================
