----------------------------- MODULE HttpMessage -------------------------------
(* A request or a response in the hands of its owner, who may call the public   *)
(* methods of its class and of its header container in any order, read over it  *)
(* from a text or from a connection, and write it out.  Nothing but the classes *)
(* themselves keeps the members in step.                                        *)
EXTENDS HttpHeaders

CONSTANTS
    Fields, FieldValues,            \* the names and values that the owner gives to set
    Lengths,                        \* the numbers that the owner gives to content_length
    MethodTexts, Targets, Versions, Bodies, Phrases, Codes,
    OwnVerbs, OwnStatuses, OwnFields,   \* enumerators
    RequestTexts, ResponseTexts,    \* texts to deserialize
    RequestMessages, ResponseMessages,  \* messages that Beast reads from a connection
    MaxEntries                      \* bound on the entries of a message

Req == INSTANCE HttpRequest
Res == INSTANCE HttpResponse

\* The sizes of all bodies, the header lines of a text, which may be broken, and the
\* fields of a message.
Sizes ==
    {Len(b) : b \in Bodies}
        \cup {Len(Req!Scan(t).body) : t \in RequestTexts} \cup {Len(Res!Scan(t).body) : t \in ResponseTexts}
        \cup {Len(m.body) : m \in RequestMessages} \cup {Len(m.body) : m \in ResponseMessages}
TextLines == Seq([name : Names \cup {""}, value : Values])
MessageFields == Seq([name : Names, value : Values])

\* A version is written and read as a digit, a dot and a digit.
Digits == 0 .. 99

\* The texts that the classes write themselves; that they are strings is said below,
\* because no prover knows it of a literal.
OwnTexts == {""} \cup {Req!VerbText(v) : v \in Req!Verbs} \cup {Res!ReasonOf(code) : code \in Res!Statuses}

ASSUME MessageAssumption ==
    /\ Fields \subseteq Names /\ FieldValues \subseteq Values
    /\ \A f \in OwnFields : /\ f \in DOMAIN Req!FieldNames => Req!FieldNames[f] \in Names
                            /\ f \in DOMAIN Res!FieldNames => Res!FieldNames[f] \in Names
    /\ OwnVerbs \subseteq Req!Verbs /\ OwnStatuses \subseteq Res!Statuses
    /\ MethodTexts \cup Targets \cup Phrases \cup OwnTexts \subseteq STRING
    /\ Versions \subseteq Digits /\ Codes \subseteq Nat /\ Bodies \subseteq STRING
    /\ {Decimal(n) : n \in Lengths \cup Sizes} \subseteq Values \ {""}
    /\ {Req!Scan(t) : t \in RequestTexts} \subseteq
         [start : {<<>>} \cup (STRING \X STRING \X (Digits \cup {Req!BadNumber})),
          lines : TextLines, ended : BOOLEAN, body : STRING]
    /\ {Res!Scan(t) : t \in ResponseTexts} \subseteq
         [start : {<<>>} \cup ((Digits \cup {Res!BadNumber}) \X (0 .. 999 \cup {Res!BadNumber}) \X STRING),
          lines : TextLines, ended : BOOLEAN, body : STRING]
    /\ RequestMessages \subseteq
         [method : STRING, target : STRING, version : Digits, keepAlive : BOOLEAN, body : STRING,
          fields : MessageFields]
    /\ ResponseMessages \subseteq
         [status : Res!Statuses, version : Digits, keepAlive : BOOLEAN, body : STRING,
          fields : MessageFields]

VARIABLES
    kind,       \* the class of the message
    msg         \* the object

vars == <<kind, msg>>

Init == \/ kind = "request" /\ msg = Req!Fresh
        \/ kind = "response" /\ msg = Res!Fresh

Becomes(request, response) ==
    /\ msg' = IF kind = "request" THEN request ELSE response
    /\ Len(msg'.entries) <= MaxEntries
    /\ UNCHANGED kind

-------------------------------------------------------------------------------
\* What both classes offer.
SetName(name, value) == Becomes(Req!SetName(msg, name, value), Res!SetName(msg, name, value))
EraseNameValue(name, value) ==
    Becomes(Req!EraseNameValue(msg, name, value), Res!EraseNameValue(msg, name, value))

ByField(f, value) ==
    \/ Becomes(Req!SetField(msg, f, value), Res!SetField(msg, f, value))
    \/ Becomes(Req!EraseFieldValue(msg, f, value), Res!EraseFieldValue(msg, f, value))

EraseName(name) == Becomes(Req!EraseName(msg, name), Res!EraseName(msg, name))
EraseField(f) == Becomes(Req!EraseField(msg, f), Res!EraseField(msg, f))

\* header().construct and header().clear.
HeaderConstruct(name, value) ==
    Becomes(Req!HeaderConstruct(msg, name, value), Res!HeaderConstruct(msg, name, value))
HeaderClear == Becomes(Req!HeaderClear(msg), Res!HeaderClear(msg))

ContentLength(n) == Becomes(Req!ContentLength(msg, n), Res!ContentLength(msg, n))
Body(bytes) == Becomes(Req!Body(msg, bytes), Res!Body(msg, bytes))
KeepAlive(on) == Becomes(Req!KeepAlive(msg, on), Res!KeepAlive(msg, on))
Version(v) == Becomes(Req!Version(msg, v), Res!Version(msg, v))
Clear == Becomes(Req!Clear(msg), Res!Clear(msg))

\* What only a request has.
OfRequest ==
    /\ kind = "request"
    /\ \/ \E v \in OwnVerbs : msg' = Req!Method(msg, v)
       \/ \E text \in MethodTexts : msg' = Req!MethodString(msg, text)
       \/ \E text \in Targets : msg' = Req!Target(msg, text)
       \/ \E text \in RequestTexts : msg' = Req!Deserialize(msg, text).object
       \/ \E message \in RequestMessages : msg' = Req!AsyncRead(msg, message)
    /\ UNCHANGED kind

\* What only a response has.
OfResponse ==
    /\ kind = "response"
    /\ \/ \E code \in OwnStatuses : msg' = Res!Status(msg, code)
       \/ \E code \in Codes : msg' = Res!StatusCode(msg, code)
       \/ \E text \in Phrases : msg' = Res!Reason(msg, text)
       \/ \E text \in ResponseTexts : msg' = Res!Deserialize(msg, text).object
       \/ \E message \in ResponseMessages : msg' = Res!AsyncRead(msg, message)
    /\ UNCHANGED kind

Next ==
    \/ \E name \in Fields, value \in FieldValues :
            SetName(name, value) \/ HeaderConstruct(name, value) \/ EraseNameValue(name, value)
    \/ \E f \in OwnFields, value \in FieldValues : ByField(f, value)
    \/ \E name \in Fields : EraseName(name)
    \/ \E f \in OwnFields : EraseField(f)
    \/ HeaderClear
    \/ \E n \in Lengths : ContentLength(n)
    \/ \E bytes \in Bodies : Body(bytes)
    \/ \E on \in BOOLEAN : KeepAlive(on)
    \/ \E v \in Versions : Version(v)
    \/ Clear
    \/ OfRequest
    \/ OfResponse

Spec == Init /\ [][Next]_vars

-------------------------------------------------------------------------------
\* Every entry is found under the lower case of the name it is written with, and an
\* entry that set has emptied has neither a name nor a value, so that nothing of it
\* can be found or written again.
TypeOK ==
    /\ msg \in IF kind = "request"
               THEN [method : Req!Verbs, methodString : STRING, target : STRING, body : STRING,
                     entries : Seq(Entries), version : Nat]
               ELSE [status : Res!Statuses, reason : STRING, body : STRING,
                     entries : Seq(Entries), version : Nat]
    /\ \A i \in DOMAIN msg.entries : LET e == msg.entries[i] IN
        \/ e.name = "" /\ e.value = ""
        \/ e.name \in Names /\ e.key = Key(e.name)

\* The vector with its emptied entries, its duplicates and its spellings behaves as a
\* mapping from names to values: after set there is one value, construct adds one,
\* erase takes them all, and a message that is read takes the place of everything.
Map == [k \in Keys |-> ValuesOf(msg.entries, k)]
Promise == INSTANCE HttpFields WITH Empty <- "", fields <- Map
ImplementsFields == Promise!Spec

\* Each call on the container does to the mapping what its name says, with the name
\* and the value it is given, and nothing to the other names: set is never an
\* addition, and erase(name, value) leaves the other values of the name.
CallsAreKept ==
    [][LET was == Map
           now == Map'
       IN  \A name \in Fields : LET k == Key(name) IN
            /\ EraseName(name) => now = Promise!Drop(was, k)
            /\ \A value \in FieldValues :
                /\ SetName(name, value) => now = Promise!Put(was, k, value)
                /\ HeaderConstruct(name, value) => now = Promise!Add(was, k, value)
                /\ EraseNameValue(name, value) => now = Promise!DropValue(was, k, value)]_vars

Reread(m) == IF kind = "request" THEN Req!Deserialize(m, Req!Serialize(m))
                                 ELSE Res!Deserialize(m, Res!Serialize(m))

LinesOf(lines, k) == Chosen(lines, {i \in DOMAIN lines : Key(lines[i].name) = k})

\* Whatever the header fields were before, a call that gives the message another body
\* leaves it with one Content-Length to write, which is the size of that body.
BodyCounted ==
    [][msg'.body # msg.body /\ msg'.body # "" =>
            LinesOf(Shown(msg'.entries), Key("Content-Length"))
                = <<[name |-> "Content-Length", value |-> Decimal(Len(msg'.body))]>>]_vars

\* The value that reading the text back leaves a field with.
Expected(k) ==
    LET values == ValuesOf(msg.entries, k)
        last   == IF values = <<>> THEN "" ELSE Last(values)
    IN  CASE k = Key("Content-Length") /\ msg.body # "" -> Decimal(Len(msg.body))
          [] k = Key("Connection") /\ last = "" /\ msg.version = 11 -> "keep-alive"
          [] k = Key("Connection") /\ last # "" /\ Lower[last] \in {"keep-alive", "close"} -> Lower[last]
          [] OTHER -> last

\* The reader of the text of msg finds the same first line and body, the last value of
\* each field, with Connection and the length of a body settled; and what it has read
\* once is written and read unchanged from then on.  A status code that to_status does
\* not know comes back as unknown.
IsReadBack ==
    LET reread == Reread(msg)
        read   == reread.object
    IN
    /\ reread.ok
    /\ read.body = msg.body /\ read.version = msg.version
    /\ IF kind = "request"
       THEN Req!MethodText(read) = Req!MethodText(msg) /\ read.target = msg.target
       ELSE Res!ReasonText(read) = Res!ReasonText(msg) /\ read.status = Res!ToStatus(msg.status)
    /\ \A k \in Keys : ValuesOf(read.entries, k) = IF Expected(k) = "" THEN <<>> ELSE <<Expected(k)>>
    /\ Reread(read) = [ok |-> TRUE, object |-> read]

HasNone(text, parts) == \A part \in parts : Req!FindText(text, part, 1) = 0

\* The messages whose text can be read: there is a header line, no blank or line break
\* is in the method or the target and no line break in the phrase, and the names and
\* values that are written are trimmed and have no line break in them, the names also
\* no colon.  The setters accept everything else as well, and what is written then is
\* not read back.
Legible ==
    /\ IF kind = "request"
       THEN HasNone(Req!MethodText(msg), {" ", Req!Break}) /\ HasNone(msg.target, {" ", Req!Break})
       ELSE HasNone(Res!ReasonText(msg), {Req!Break})
    /\ Visible(msg.entries) # <<>>
    /\ \A i \in DOMAIN msg.entries : LET e == msg.entries[i] IN
            e.value # "" => /\ e.name # "" /\ Req!Trim(e.name) = e.name /\ HasNone(e.name, {":", Req!Break})
                            /\ Req!Trim(e.value) = e.value /\ HasNone(e.value, {Req!Break})

\* What serialize writes of a legible message, deserialize reads back.
RoundTrip == Legible => IsReadBack

===============================================================================
