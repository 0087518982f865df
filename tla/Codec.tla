--------------------------------- MODULE Codec ---------------------------------
(***************************************************************************)
(* Text and values: the words for fields and operators in the payload of a *)
(* request, in the file and in a reply (common/group.cpp), and the bus     *)
(* message a reply travels in (common/message.cpp, common/message.h).      *)
(*                                                                         *)
(* A text is the sequence of its words, since operator>> of a string reads *)
(* the first word.  A rule is its three words, or their three values; what *)
(* else a group has is text that is copied.                                *)
(***************************************************************************)
EXTENDS Sequences, Functions

CONSTANTS Texts,   \* texts a client writes for a field or an operator
          None

(* The tables: the word of each value, and the value a new object has.     *)

Table == [
  field |-> [Unknown |-> "unknown", Contact |-> "contact", HostName |-> "host-name",
             IPAddress |-> "ip-address", Location |-> "location", Name |-> "name",
             Type |-> "type"],
  op    |-> [Contains |-> "CONTAINS", Is |-> "IS", IsNot |-> "ISNOT"],
  logic |-> [And |-> "AND", Or |-> "OR"]]

Parts == DOMAIN Table

Values == UNION {DOMAIN Table[part] : part \in Parts}

ASSUME CodecAssumption == None \notin [Parts -> Texts] /\ None \notin [Parts -> Values]

Default == [field |-> "Unknown", op |-> "Contains", logic |-> "Or"]

\* Mutant: "is not" is written with a blank.
WordOf_Spaced(part, value) ==
  IF value = "IsNot" THEN <<"IS", "NOT">> ELSE <<Table[part][value]>>

\* operator<<
WordOf(part, value) == <<Table[part][value]>>

\* operator>>: a word that is in no table leaves the value as it was.
Parse(part, text, before) ==
  IF text # <<>> /\ Head(text) \in Range(Table[part])
  THEN CHOOSE v \in DOMAIN Table[part] : Table[part][v] = Head(text)
  ELSE before

\* pack's decode makes a new object, its encode writes every part.
Decode(words) == [part \in Parts |-> Parse(part, words[part], Default[part])]

Encode(rule) == [part \in Parts |-> WordOf(part, rule[part])]

-----------------------------------------------------------------------------
(* Message::Status and its words; a message without one counts as "ok".    *)

StatusWord == [Ok |-> "ok", Error |-> "ko"]

\* Mutant: an error is sent as a success, with a group as it was constructed.
ToMessageBus_Empty(status, data) ==
  [status |-> "ok", userData |-> <<IF status = "Error" THEN Encode(Default) ELSE data>>]

ToMessageBus(status, data) == [status |-> StatusWord[status], userData |-> <<data>>]

\* Message::Message of what the bus has; status keeps Ok for an unknown word.
FromMessageBus(m) ==
  [status |-> IF m.status = "ko" THEN "Error" ELSE "Ok",
   userData |-> IF m.userData = <<>> THEN None ELSE Head(m.userData)]

-----------------------------------------------------------------------------
VARIABLES sent,    \* the words of the rule a client sent
          memory,  \* the rule the agent works with
          file,    \* the words in the file
          reply,   \* the reply on the bus, with its status before it was put there
          shown    \* what the client makes of the reply

vars == <<sent, memory, file, reply, shown>>

Init == sent = None /\ memory = None /\ file = None /\ reply = None /\ shown = None

\* CREATE or UPDATE: decode, and Storage writes the file.
Save ==
  /\ sent = None
  /\ \E words \in [Parts -> Texts] : sent' = words /\ memory' = Decode(words)
  /\ file' = Encode(memory')
  /\ UNCHANGED <<reply, shown>>

\* The agent is restarted and loads the file.
Load ==
  /\ file # None
  /\ memory' = Decode(file)
  /\ UNCHANGED <<sent, file, reply, shown>>

\* Response::operator Message and MessageBus::reply, with the rule or an error text.
Reply ==
  /\ memory # None
  /\ reply = None
  /\ \E status \in DOMAIN StatusWord :
       reply' = [status |-> status,
                 message |-> ToMessageBus(status, IF status = "Ok" THEN Encode(memory) ELSE None)]
  /\ UNCHANGED <<sent, memory, file, shown>>

\* MessageBus::send returns the group, or the error.
Receive ==
  /\ reply # None
  /\ LET m == FromMessageBus(reply.message) IN
       shown' = [status |-> m.status,
                 rule |-> IF m.status = "Ok" THEN Decode(m.userData) ELSE None]
  /\ UNCHANGED <<sent, memory, file, reply>>

Next == Save \/ Load \/ Reply \/ Receive

Spec == Init /\ [][Next]_vars

-----------------------------------------------------------------------------
(* The rule the agent resolves is the same before and after a restart, for *)
(* every text a client can have sent, also one that is no word at all.     *)
RestartKeepsRule == [][memory # None => memory' = memory]_vars

(* A client is shown the rule the agent works with, and for every word it  *)
(* spelled right the value it meant.                                       *)
ShownIsMeant ==
  shown # None /\ reply.status = "Ok" =>
    /\ shown.rule = memory
    /\ \A part \in Parts : \A v \in DOMAIN Table[part] :
         sent[part] = <<Table[part][v]>> => shown.rule[part] = v

(* An error of the agent is an error to its client: the word for it        *)
(* survives the bus, where every unknown word means success.               *)
ErrorsArrive == shown # None => shown.status = reply.status
=============================================================================
