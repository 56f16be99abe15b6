------------------------------ MODULE Database ------------------------------
(***************************************************************************)
(* The database of src/src/database/database.c, as a value: two tables,    *)
(* sets of rows, and the operations on them.  A condition named May...     *)
(* is what makes the statement end with SQLITE_DONE, which executeSingle   *)
(* asserts.  Encrypting a row with the database's key is left out: who     *)
(* holds the key is Session's concern (checkKey).                          *)
(***************************************************************************)
EXTENDS Naturals, Sequences, FiniteSets, FiniteSetsExt, SequencesExt

(* createTablesIfNotExist, on a new file. *)
NoRows == [conversations |-> {}, messages |-> {}]

(* databaseAddConversation's row; its time is MessageFetch's concern. *)
Conversation(u, streams) == [user |-> u, streams |-> streams]

(* databaseMessageCreate *)
Message(timestamp, conversation, from, text) ==
  [timestamp |-> timestamp, conversation |-> conversation, from |-> from, text |-> text]

-----------------------------------------------------------------------------
(* The conversations, one for each user.                                   *)

conversationExists(db, u) == \E c \in db.conversations : c.user = u

(* The primary key is the user. *)
MayAddConversation(db, u) == ~conversationExists(db, u)

addConversation(db, u, streams) ==
  [db EXCEPT !.conversations = @ \cup {Conversation(u, streams)}]

RowOf(db, u) == CHOOSE c \in db.conversations : c.user = u

getConversation(db, u) == RowOf(db, u).streams

(* Foreign keys are on: deleting a conversation deletes its messages. *)
OfUser(rows, u) == {m \in rows : m.conversation = u}
Cascade(rows, u) == rows \ OfUser(rows, u)

removeConversation(db, u) ==
  [conversations |-> {c \in db.conversations : c.user # u},
   messages      |-> Cascade(db.messages, u)]

-----------------------------------------------------------------------------
(* The messages.                                                           *)

SameKey(m, n) ==
  m.conversation = n.conversation /\ m.timestamp = n.timestamp /\ m.from = n.from

(* enableForeignKeys: sqlite checks none unless it is told to. *)
ForeignKey(db, m) == conversationExists(db, m.conversation)
ForeignKeysOff(db, m) == TRUE

HasConversation(db, m) == ForeignKey(db, m)

(* A foreign key, to the conversations, and the primary key. *)
MayAddMessage(db, m) ==
  /\ HasConversation(db, m)
  /\ ~ \E n \in db.messages : SameKey(m, n)

addMessage(db, m) == [db EXCEPT !.messages = @ \cup {m}]

(* order by timestamp desc: each row once, those of one time in any order. *)
getMessages(db, u) ==
  {rows \in SetToSeqs(OfUser(db.messages, u)) :
     \A i, j \in DOMAIN rows : i < j => rows[i].timestamp >= rows[j].timestamp}

removeMessages(db, u) == [db EXCEPT !.messages = @ \ OfUser(@, u)]

(* 0 when there is none. *)
getMostRecentMessageTimestamp(db, u) ==
  LET times == {m.timestamp : m \in OfUser(db.messages, u)}
  IN  IF times = {} THEN 0 ELSE Max(times)
=============================================================================
