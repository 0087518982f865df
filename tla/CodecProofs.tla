----------------------------- MODULE CodecProofs -----------------------------
(* Theorems about the words of a rule, for every text a client can write.  *)
EXTENDS Codec, TLAPS

\* A rule has a value of the table for each of its parts.
Rule == {rule \in [Parts -> Values] : \A part \in Parts : rule[part] \in DOMAIN Table[part]}

LEMMA PartNames == Parts = {"field", "op", "logic"}
  BY DEF Parts, Table

\* No two values of a part have the same word.
LEMMA WordsDiffer ==
  ASSUME NEW part \in Parts, NEW v \in DOMAIN Table[part], NEW w \in DOMAIN Table[part],
         Table[part][v] = Table[part][w]
  PROVE  v = w
  <1>1. CASE part = "field"
    BY <1>1 DEF Table
  <1>2. CASE part = "op"
    BY <1>2 DEF Table
  <1>3. CASE part = "logic"
    BY <1>3 DEF Table
  <1> QED
    BY <1>1, <1>2, <1>3, PartNames

LEMMA DefaultInTable == \A part \in Parts : Default[part] \in DOMAIN Table[part]
  BY PartNames DEF Default, Table

\* Whatever is read is a value of the table.
LEMMA ParseType ==
  ASSUME NEW part \in Parts, NEW text, NEW before \in DOMAIN Table[part]
  PROVE  Parse(part, text, before) \in DOMAIN Table[part]
  <1>1. CASE text # <<>> /\ Head(text) \in Range(Table[part])
    <2>1. \E v \in DOMAIN Table[part] : Table[part][v] = Head(text)
      BY <1>1 DEF Range
    <2> QED
      BY <1>1, <2>1 DEF Parse
  <1>2. CASE ~(text # <<>> /\ Head(text) \in Range(Table[part]))
    BY <1>2 DEF Parse
  <1> QED
    BY <1>1, <1>2

\* What is written for a value is read as this value.
LEMMA RoundTrip ==
  ASSUME NEW part \in Parts, NEW v \in DOMAIN Table[part], NEW before
  PROVE  Parse(part, WordOf(part, v), before) = v
  <1> DEFINE word == Table[part][v]
  <1>1. <<word>> # <<>> /\ Head(<<word>>) = word
    OBVIOUS
  <1>2. word \in Range(Table[part])
    BY DEF Range
  <1>3. \A w \in DOMAIN Table[part] : Table[part][w] = word => w = v
    BY WordsDiffer
  <1>4. Parse(part, <<word>>, before) = CHOOSE w \in DOMAIN Table[part] : Table[part][w] = word
    BY <1>1, <1>2 DEF Parse
  <1>5. (CHOOSE w \in DOMAIN Table[part] : Table[part][w] = word) = v
    BY <1>3
  <1> QED
    BY <1>4, <1>5 DEF WordOf

LEMMA DecodeType == \A words : Decode(words) \in Rule
  <1> SUFFICES ASSUME NEW words PROVE Decode(words) \in Rule
    OBVIOUS
  <1>1. \A part \in Parts : Parse(part, words[part], Default[part]) \in DOMAIN Table[part]
    BY ParseType, DefaultInTable
  <1>2. \A part \in Parts : DOMAIN Table[part] \subseteq Values
    BY DEF Values
  <1> QED
    BY <1>1, <1>2 DEF Decode, Rule

LEMMA DecodeEncode == \A rule \in Rule : Decode(Encode(rule)) = rule
  <1> SUFFICES ASSUME NEW rule \in Rule PROVE Decode(Encode(rule)) = rule
    OBVIOUS
  <1>1. \A part \in Parts : Encode(rule)[part] = WordOf(part, rule[part])
    BY DEF Encode
  <1>2. \A part \in Parts : Parse(part, Encode(rule)[part], Default[part]) = rule[part]
    BY <1>1, RoundTrip DEF Rule
  <1> QED
    BY <1>2 DEF Decode, Rule

-----------------------------------------------------------------------------
CodecInv ==
  /\ memory # None => sent # None /\ memory \in Rule
  /\ sent # None => memory # None
  /\ file # None => memory # None /\ file = Encode(memory)

LEMMA CodecStep == CodecInv /\ [Next]_vars => CodecInv' /\ (memory # None => memory' = memory)
  <1> SUFFICES ASSUME CodecInv, [Next]_vars
               PROVE  CodecInv' /\ (memory # None => memory' = memory)
    OBVIOUS
  <1>1. CASE Save
    <2>1. PICK words \in [Parts -> Texts] : sent' = words /\ memory' = Decode(words)
      BY <1>1 DEF Save
    <2>2. sent' # None /\ memory' \in Rule /\ memory' # None
      BY <2>1, DecodeType, CodecAssumption DEF Rule
    <2> QED
      BY <1>1, <2>2 DEF Save, CodecInv
  <1>2. CASE Load
    BY <1>2, DecodeEncode DEF Load, CodecInv
  <1>3. CASE Reply \/ Receive \/ UNCHANGED vars
    BY <1>3 DEF Reply, Receive, vars, CodecInv
  <1> QED
    BY <1>1, <1>2, <1>3 DEF Next

(* Whatever text a client writes for a field or an operator, the rule it   *)
(* became is the rule the agent has after every restart.                   *)
THEOREM RestartAlwaysKeepsRule == Spec => RestartKeepsRule
  <1>1. Init => CodecInv
    BY DEF Init, CodecInv
  <1>2. CodecInv /\ [Next]_vars => CodecInv'
    BY CodecStep
  <1>3. CodecInv /\ [Next]_vars => [memory # None => memory' = memory]_vars
    BY CodecStep
  <1> QED
    BY <1>1, <1>2, <1>3, PTL DEF Spec, RestartKeepsRule

-----------------------------------------------------------------------------
\* What travels is what was sent, and what arrives is what travels.
ReplyInv ==
  /\ memory # None => memory = Decode(sent)
  /\ reply # None =>
       /\ memory # None
       /\ reply.status \in {"Ok", "Error"}
       /\ reply.message =
            ToMessageBus(reply.status, IF reply.status = "Ok" THEN Encode(memory) ELSE None)
  /\ shown # None =>
       /\ reply # None
       /\ shown.status = reply.status
       /\ reply.status = "Ok" => shown.rule = memory

\* The status survives the bus, and the payload too.
LEMMA MessageRoundTrip ==
  ASSUME NEW status \in {"Ok", "Error"}, NEW data
  PROVE  FromMessageBus(ToMessageBus(status, data)) = [status |-> status, userData |-> data]
  <1>1. <<data>> # <<>> /\ Head(<<data>>) = data
    OBVIOUS
  <1>2. StatusWord[status] = "ko" <=> status = "Error"
    BY DEF StatusWord
  <1>3. /\ ToMessageBus(status, data).status = StatusWord[status]
        /\ ToMessageBus(status, data).userData = <<data>>
    BY DEF ToMessageBus
  <1>4. FromMessageBus(ToMessageBus(status, data)) =
          [status |-> IF StatusWord[status] = "ko" THEN "Error" ELSE "Ok", userData |-> data]
    BY <1>1, <1>3, Zenon DEF FromMessageBus
  <1> QED
    BY <1>2, <1>4

LEMMA ReplyStep == CodecInv /\ ReplyInv /\ [Next]_vars => ReplyInv'
  <1> SUFFICES ASSUME CodecInv, ReplyInv, [Next]_vars PROVE ReplyInv'
    OBVIOUS
  <1>1. CASE Save
    BY <1>1 DEF Save, CodecInv, ReplyInv
  <1>2. CASE Load
    <2>1. memory' = memory
      BY <1>2, DecodeEncode DEF Load, CodecInv
    <2> QED
      BY <1>2, <2>1 DEF Load, ReplyInv
  <1>3. CASE Reply
    <2>1. PICK status \in {"Ok", "Error"} :
            reply' = [status |-> status,
                      message |-> ToMessageBus(status, IF status = "Ok" THEN Encode(memory) ELSE None)]
      BY <1>3 DEF Reply, StatusWord
    <2>2. /\ reply'.status = status
          /\ reply'.message = ToMessageBus(status, IF status = "Ok" THEN Encode(memory) ELSE None)
      BY <2>1
    <2>3. shown = None
      BY <1>3 DEF Reply, ReplyInv
    <2> QED
      BY <1>3, <2>2, <2>3 DEF Reply, ReplyInv
  <1>4. CASE Receive
    <2> DEFINE data == IF reply.status = "Ok" THEN Encode(memory) ELSE None
               m == FromMessageBus(reply.message)
    <2>1. m.status = reply.status /\ m.userData = data
      <3>1. m = [status |-> reply.status, userData |-> data]
        BY <1>4, MessageRoundTrip DEF Receive, ReplyInv
      <3> QED
        BY <3>1
    <2>2. /\ shown'.status = m.status
          /\ m.status = "Ok" => shown'.rule = Decode(m.userData)
      BY <1>4 DEF Receive
    <2>3. reply.status = "Ok" => Decode(data) = memory
      BY <1>4, DecodeEncode DEF Receive, ReplyInv, CodecInv
    <2> HIDE DEF m, data
    <2> QED
      BY <1>4, <2>1, <2>2, <2>3 DEF Receive, ReplyInv
  <1>5. CASE UNCHANGED vars
    BY <1>5 DEF vars, ReplyInv
  <1> QED
    BY <1>1, <1>2, <1>3, <1>4, <1>5 DEF Next

LEMMA RepliesTrue == Spec => [](CodecInv /\ ReplyInv)
  <1>1. Init => CodecInv /\ ReplyInv
    BY DEF Init, CodecInv, ReplyInv
  <1> QED
    BY <1>1, CodecStep, ReplyStep, PTL DEF Spec

(* Every error reaches the client as an error.                             *)
THEOREM ErrorsAlwaysArrive == Spec => []ErrorsArrive
  <1>1. ReplyInv => ErrorsArrive
    BY DEF ReplyInv, ErrorsArrive
  <1> QED
    BY <1>1, RepliesTrue, PTL

(* Every client is shown the rule the agent works with, and every word it  *)
(* spelled right as the value it meant.                                    *)
THEOREM ShownAlwaysMeant == Spec => []ShownIsMeant
  <1>1. ReplyInv => ShownIsMeant
    <2> SUFFICES ASSUME ReplyInv, shown # None, reply.status = "Ok"
                 PROVE  /\ shown.rule = memory
                        /\ \A part \in Parts : \A v \in DOMAIN Table[part] :
                             sent[part] = <<Table[part][v]>> => shown.rule[part] = v
      BY DEF ShownIsMeant
    <2>1. shown.rule = Decode(sent) /\ shown.rule = memory
      BY DEF ReplyInv
    <2>2. ASSUME NEW part \in Parts, NEW v \in DOMAIN Table[part],
                 sent[part] = <<Table[part][v]>>
          PROVE  shown.rule[part] = v
      <3>1. sent[part] = WordOf(part, v)
        BY <2>2 DEF WordOf
      <3>2. Parse(part, sent[part], Default[part]) = v
        BY <3>1, RoundTrip
      <3> QED
        BY <2>1, <3>2 DEF Decode
    <2> QED
      BY <2>1, <2>2
  <1> QED
    BY <1>1, RepliesTrue, PTL

=============================================================================
