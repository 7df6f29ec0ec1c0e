--------------------------- MODULE HttpMessageProofs ---------------------------
(* What is proved of the messages (HttpMessage): the types, the refinement of    *)
(* HttpFields and what each call does to it, that a body is counted, and that a  *)
(* text which is divided as it was put together is read back.                    *)
EXTENDS HttpMessage, CodecProofs

-------------------------------------------------------------------------------
\* The names that the fields of a message are written with.
Spelt(es, k, n) == \A i \in 1 .. Len(es) : es[i].key = k /\ es[i].value # "" => es[i].name = n

LEMMA SetSpells ==
    ASSUME NEW es \in Seq(Good), NEW name \in Names, NEW value \in Values
    PROVE  Spelt(Set(es, name, value), Key(name), name)
<1> DEFINE fs == Set(es, name, value)
<1>1. /\ Len(es) \in Nat /\ DOMAIN es = 1 .. Len(es) /\ \A i \in 1 .. Len(es) : es[i] \in Good
      /\ Entry(name, value) \in Good /\ Entry(name, value).name = name
  BY SeqOfEntries, EntryFacts
<1>2. CASE At(es, name) = {}
  <2>1. fs = Append(es, Entry(name, value))
    BY <1>2, SetShape
  <2>2. /\ Len(fs) = Len(es) + 1 /\ fs[Len(es) + 1] = Entry(name, value)
        /\ \A i \in 1 .. Len(es) : fs[i] = es[i]
    BY <1>1, <2>1, AppendProperties
  <2>3. \A i \in 1 .. Len(es) : es[i].key # Key(name)
    BY <1>1, <1>2 DEF At
  <2> HIDE DEF fs
  <2>4. ASSUME NEW i \in 1 .. Len(es) + 1, fs[i].key = Key(name) PROVE fs[i].name = name
    <3>1. CASE i = Len(es) + 1
      BY <1>1, <2>2, <3>1
    <3>2. CASE i # Len(es) + 1
      <4>1. i \in 1 .. Len(es)
        BY <1>1, <3>2
      <4> QED
        BY <2>2, <2>3, <2>4, <4>1
    <3> QED
      BY <3>1, <3>2
  <2>5. Spelt(fs, Key(name), name)
    BY <2>2, <2>4 DEF Spelt
  <2> QED
    BY <2>5 DEF fs
<1>3. CASE At(es, name) # {}
  <2>1. PICK m \in At(es, name) : Overwrites(fs, es, name, value, m)
    BY <1>3, SetShape
  <2>2. ASSUME NEW i \in 1 .. Len(es), i \in At(es, name), i # m PROVE fs[i].value = ""
    <3>1. fs[i] = [es[i] EXCEPT !.name = "", !.value = ""]
      BY <2>1, <2>2 DEF Overwrites
    <3>2. es[i] \in Entries
      BY <1>1, EntryFacts
    <3> QED
      BY <3>1, <3>2 DEF Entries
  <2>3. \A i \in 1 .. Len(es) : i \notin At(es, name) => fs[i] = es[i] /\ es[i].key # Key(name)
    BY <1>1, <2>1 DEF Overwrites, At
  <2>4. m \in 1 .. Len(es) => fs[m] = Entry(name, value)
    BY <2>1 DEF Overwrites
  <2>5. Len(fs) = Len(es)
    BY <2>1 DEF Overwrites
  <2> HIDE DEF fs
  <2>6. Spelt(fs, Key(name), name)
    BY <1>1, <2>2, <2>3, <2>4, <2>5 DEF Spelt
  <2> QED
    BY <2>6 DEF fs
<1> QED
  BY <1>2, <1>3

LEMMA SetKeepsSpelling ==
    ASSUME NEW es \in Seq(Good), NEW name \in Names, NEW value \in Values,
           NEW k, NEW n, k # Key(name), Spelt(es, k, n)
    PROVE  Spelt(Set(es, name, value), k, n)
<1> DEFINE fs == Set(es, name, value)
<1>1. /\ Len(es) \in Nat /\ DOMAIN es = 1 .. Len(es) /\ \A i \in 1 .. Len(es) : es[i] \in Good
      /\ Entry(name, value) \in Good /\ Entry(name, value).key = Key(name)
  BY SeqOfEntries, EntryFacts
<1>2. CASE At(es, name) = {}
  <2>1. fs = Append(es, Entry(name, value))
    BY <1>2, SetShape
  <2>2. /\ Len(fs) = Len(es) + 1 /\ fs[Len(es) + 1] = Entry(name, value)
        /\ \A i \in 1 .. Len(es) : fs[i] = es[i]
    BY <1>1, <2>1, AppendProperties
  <2> HIDE DEF fs
  <2>3. ASSUME NEW i \in 1 .. Len(es) + 1, fs[i].key = k, fs[i].value # "" PROVE fs[i].name = n
    <3>1. CASE i = Len(es) + 1
      BY <1>1, <2>2, <2>3, <3>1
    <3>2. CASE i # Len(es) + 1
      <4>1. i \in 1 .. Len(es)
        BY <1>1, <3>2
      <4> QED
        BY <2>2, <2>3, <4>1 DEF Spelt
    <3> QED
      BY <3>1, <3>2
  <2>4. Spelt(fs, k, n)
    BY <2>2, <2>3 DEF Spelt
  <2> QED
    BY <2>4 DEF fs
<1>3. CASE At(es, name) # {}
  <2>1. PICK m \in At(es, name) : Overwrites(fs, es, name, value, m)
    BY <1>3, SetShape
  <2>2. ASSUME NEW i \in 1 .. Len(es), i \in At(es, name) PROVE fs[i].key = Key(name)
    <3>1. es[i] \in Entries /\ es[i].key = Key(name)
      BY <1>1, <2>2, EntryFacts DEF At
    <3>2. fs[i] = Entry(name, value) \/ fs[i] = [es[i] EXCEPT !.name = "", !.value = ""]
      BY <2>1, <2>2 DEF Overwrites
    <3>3. [es[i] EXCEPT !.name = "", !.value = ""].key = es[i].key
      BY <3>1 DEF Entries
    <3> QED
      BY <1>1, <3>1, <3>2, <3>3
  <2>3. \A i \in 1 .. Len(es) : i \notin At(es, name) => fs[i] = es[i]
    BY <2>1 DEF Overwrites
  <2>4. Len(fs) = Len(es)
    BY <2>1 DEF Overwrites
  <2> HIDE DEF fs
  <2>5. Spelt(fs, k, n)
    BY <1>1, <2>2, <2>3, <2>4 DEF Spelt
  <2> QED
    BY <2>5 DEF fs
<1> QED
  BY <1>2, <1>3

\* The lines of a field that has one value and one spelling.
Of(lines, k) == Chosen(lines, {i \in DOMAIN lines : Key(lines[i].name) = k})

LEMMA OneLine ==
    ASSUME NEW es \in Seq(Good), NEW k \in Keys, NEW n, NEW d, Spelt(es, k, n), ValuesOf(es, k) = <<d>>
    PROVE  Of(Shown(es), k) = <<[name |-> n, value |-> d]>>
<1> DEFINE S == {e \in Seen : e.key = k => e.name = n}
           vs == Visible(es)
           ls == Shown(es)
           L == {l \in Lines : l.name = n}
           c == Of(ls, k)
<1>1. Len(es) \in Nat /\ DOMAIN es = 1 .. Len(es) /\ \A i \in 1 .. Len(es) : es[i] \in Good
  BY SeqOfEntries
<1>2. vs \in Seq(S)
  <2> DEFINE I == {i \in DOMAIN es : es[i].value # ""}
  <2>1. \A i \in 1 .. Len(es) : i \in I => es[i] \in S
    BY <1>1 DEF Spelt, Seen
  <2> HIDE DEF I, S
  <2>2. Chosen(es, I) \in Seq(S)
    BY <2>1, ChosenType
  <2> QED
    BY <2>2 DEF Visible, I
<1>3. Len(vs) \in Nat /\ DOMAIN vs = 1 .. Len(vs) /\ \A i \in 1 .. Len(vs) : vs[i] \in S
  <2> HIDE DEF vs, S
  <2> QED
    BY <1>2, LenProperties, ElementOfSeq
<1>4. ls \in Seq(Lines) /\ Named(ls, k) = <<d>> /\ DOMAIN ls = 1 .. Len(ls)
  BY ShownFacts, LenProperties
<1>5. \A i \in 1 .. Len(ls) : Key(ls[i].name) = k => ls[i] \in L
  <2> TAKE i \in 1 .. Len(ls)
  <2>1. i \in DOMAIN vs /\ ls[i] = Line(vs[i])
    BY <1>4 DEF Shown, Line
  <2>2. vs[i] \in Seen /\ (vs[i].key = k => vs[i].name = n)
    BY <1>3, <2>1
  <2>3. Line(vs[i]) \in Lines /\ Key(Line(vs[i]).name) = vs[i].key /\ Line(vs[i]).name = vs[i].name
    BY <2>2, LineFacts DEF Line
  <2> QED
    BY <2>1, <2>2, <2>3
<1> HIDE DEF vs, ls, L
<1>6. c \in Seq(L)
  <2> DEFINE I == {i \in DOMAIN ls : Key(ls[i].name) = k}
  <2>1. \A i \in 1 .. Len(ls) : i \in I => ls[i] \in L
    BY <1>5
  <2> HIDE DEF I
  <2>2. Chosen(ls, I) \in Seq(L)
    BY <1>4, <2>1, ChosenType
  <2> QED
    BY <2>2 DEF Of, I
<1>7. [i \in DOMAIN c |-> c[i].value] = <<d>>
  BY <1>4 DEF Named, Picked, Of
<1> HIDE DEF c
<1>8. DOMAIN c = 1 .. 1 /\ c[1].value = d
  <2> DEFINE w == [i \in DOMAIN c |-> c[i].value]
             o == <<d>>
  <2>1. DOMAIN o = 1 .. 1 /\ o[1] = d
    OBVIOUS
  <2>2. DOMAIN w = DOMAIN c /\ \A i \in DOMAIN c : w[i] = c[i].value
    OBVIOUS
  <2>3. w = o
    BY <1>7
  <2> HIDE DEF w, o
  <2> QED
    BY <2>1, <2>2, <2>3
<1>9. Len(c) = 1 /\ c[1] \in L
  <2>1. Len(c) \in Nat /\ DOMAIN c = 1 .. Len(c) /\ \A i \in 1 .. Len(c) : c[i] \in L
    BY <1>6, LenProperties, ElementOfSeq
  <2> DEFINE m == Len(c)
  <2>2. m \in Nat /\ 1 .. m = 1 .. 1
    BY <1>8, <2>1
  <2> HIDE DEF m
  <2>3. m = 1
    BY <2>2
  <2> QED
    BY <2>1, <2>3 DEF m
<1>10. c[1] = [name |-> n, value |-> d]
  BY <1>8, <1>9 DEF L, Lines
<1>11. c = <<c[1]>>
  <2> DEFINE o == <<c[1]>>
  <2>1. o \in Seq(L) /\ Len(o) = 1 /\ o[1] = c[1]
    BY <1>9
  <2> HIDE DEF o
  <2>2. c = o
    BY <1>6, <1>9, <2>1, SeqEqual
  <2> QED
    BY <2>2 DEF o
<1> QED
  BY <1>10, <1>11 DEF c, ls

-------------------------------------------------------------------------------
\* The containers of the classes are the same.
LEMMA ReqSame ==
    /\ \A es, n, v : Req!Set(es, n, v) = Set(es, n, v)
    /\ \A es, n, v : Req!Construct(es, n, v) = Construct(es, n, v)
    /\ \A es, n : Req!Erase(es, n) = Erase(es, n)
    /\ \A es, n, v : Req!EraseValue(es, n, v) = EraseValue(es, n, v)
    /\ \A es : Req!Visible(es) = Visible(es) /\ Req!Shown(es) = Shown(es)
    /\ \A es, n : Req!Retrieve(es, n) = Retrieve(es, n)
    /\ \A es, fields : Req!SetAll(es, fields) = SetAll(es, fields)
    /\ \A n : Req!Decimal(n) = Decimal(n)
BY DEF Req!Set, Set, Req!At, At, Req!Entry, Entry, Req!Key, Key, Req!Construct, Construct, Req!Min, Min,
    Req!Erase, Erase, Req!EraseValue, EraseValue, Req!Visible, Visible, Req!Shown, Shown, Req!Chosen, Chosen,
    Req!ValuesOf, ValuesOf, Req!Retrieve, Retrieve, Req!SetAll, SetAll, Req!Decimal, Decimal

LEMMA ResSame ==
    /\ \A es, n, v : Res!Set(es, n, v) = Set(es, n, v)
    /\ \A es, n, v : Res!Construct(es, n, v) = Construct(es, n, v)
    /\ \A es, n : Res!Erase(es, n) = Erase(es, n)
    /\ \A es, n, v : Res!EraseValue(es, n, v) = EraseValue(es, n, v)
    /\ \A es : Res!Visible(es) = Visible(es) /\ Res!Shown(es) = Shown(es)
    /\ \A es, n : Res!Retrieve(es, n) = Retrieve(es, n)
    /\ \A es, fields : Res!SetAll(es, fields) = SetAll(es, fields)
    /\ \A n : Res!Decimal(n) = Decimal(n)
BY DEF Res!Set, Set, Res!At, At, Res!Entry, Entry, Res!Key, Key, Res!Construct, Construct, Res!Min, Min,
    Res!Erase, Erase, Res!EraseValue, EraseValue, Res!Visible, Visible, Res!Shown, Shown, Res!Chosen, Chosen,
    Res!ValuesOf, ValuesOf, Res!Retrieve, Retrieve, Res!SetAll, SetAll, Res!Decimal, Decimal

\* The invariant: the types, in the entries that set can leave, with a size that can
\* be written for every body.
Bytes == {b \in STRING : b = "" \/ Decimal(Len(b)) \in Given}
Requests == [method : Req!Verbs, methodString : STRING, target : STRING, body : Bytes,
             entries : Seq(Good), version : Digits]
Responses == [status : Res!Statuses, reason : STRING, body : Bytes, entries : Seq(Good), version : Digits]
Inv ==
    /\ kind \in {"request", "response"}
    /\ kind = "request" => msg \in Requests
    /\ kind = "response" => msg \in Responses

\* What a call may do to the entries.
Once(es) == \A k \in Keys : \E v \in Values : ValuesOf(es, k) = Single(v)
Sole(es, name, value) == {Set(es, name, value), Construct(es, name, value), Erase(es, name), EraseValue(es, name, value)}
Edit(es, fs) ==
    \/ fs = es
    \/ \E name \in Names, value \in Values : fs \in Sole(es, name, value)
    \/ fs \in Seq(Good) /\ Once(fs)

\* A body is counted, in the one spelling.
Counts(es, body) ==
    body # "" => /\ Spelt(es, Key("Content-Length"), "Content-Length")
                   /\ ValuesOf(es, Key("Content-Length")) = <<Decimal(Len(body))>>

Step(m, n) == Edit(m.entries, n.entries) /\ (n.body # m.body => Counts(n.entries, n.body))

LEMMA Fixed ==
    /\ "Content-Length" \in Names /\ "Connection" \in Names
    /\ Key("Content-Length") = "content-length" /\ Key("Connection") = "connection"
    /\ Key("Content-Length") \in Keys /\ Key("Connection") \in Keys
    /\ "keep-alive" \in Given /\ "close" \in Given /\ "keep-alive" \in Values /\ "close" \in Values
    /\ Given \subseteq Values /\ "" \in Values /\ <<>> \in Seq(Good)
    /\ \A v \in Given : Single(v) = <<v>>
<1>1. /\ {"Content-Length", "Connection"} \subseteq Names /\ {"", "keep-alive", "close"} \subseteq Values
      /\ Lower["Content-Length"] = "content-length" /\ Lower["Connection"] = "connection"
  BY HeaderAssumption
<1>2. "Content-Length" \in Names /\ "Connection" \in Names
  BY <1>1
<1>3. Key("Content-Length") = "content-length" /\ Key("Connection") = "connection"
  BY <1>1 DEF Key
<1>4. Key("Content-Length") \in Keys /\ Key("Connection") \in Keys
  BY <1>2, KeyFacts
<1>5. /\ "keep-alive" \in Given /\ "close" \in Given /\ "keep-alive" \in Values /\ "close" \in Values
      /\ Given \subseteq Values /\ "" \in Values
  BY <1>1 DEF Given
<1>6. \A v \in Given : Single(v) = <<v>>
  BY DEF Given, Single
<1>7. <<>> \in Seq(Good)
  OBVIOUS
<1> QED
  BY <1>2, <1>3, <1>4, <1>5, <1>6, <1>7

LEMMA EditType ==
    ASSUME NEW es \in Seq(Good), NEW fs, Edit(es, fs)
    PROVE  fs \in Seq(Good)
<1>1. ASSUME NEW name \in Names, NEW value \in Values, fs \in Sole(es, name, value) PROVE fs \in Seq(Good)
  <2>1. Set(es, name, value) \in Seq(Good)
    BY SetShape
  <2>2. Construct(es, name, value) \in Seq(Good)
    BY EntryFacts, AppendProperties DEF Construct
  <2>3. Erase(es, name) \in Seq(Good)
    BY EraseFacts
  <2>4. EraseValue(es, name, value) \in Seq(Good)
    BY EraseValueFacts
  <2> QED
    BY <1>1, <2>1, <2>2, <2>3, <2>4 DEF Sole
<1> QED
  BY <1>1 DEF Edit

\* What an edit does to the values of the fields.
Others(es, fs, j) == \A k \in Keys \ {j} : ValuesOf(fs, k) = ValuesOf(es, k)
Turns(es, fs, j, v) ==
    \/ ValuesOf(fs, j) = <<>>
    \/ ValuesOf(fs, j) = Single(v)
    \/ ValuesOf(fs, j) = ValuesOf(es, j) \o Single(v)
    \/ ValuesOf(fs, j) = Without(ValuesOf(es, j), v)

LEMMA ConstructFacts ==
    ASSUME NEW es \in Seq(Good), NEW name \in Names, NEW value \in Values, NEW k \in Keys
    PROVE  ValuesOf(Construct(es, name, value), k) =
             IF k = Key(name) THEN ValuesOf(es, k) \o Single(value) ELSE ValuesOf(es, k)
<1> DEFINE e == Entry(name, value)
           t == ValuesOf(es, k)
<1>1. es \in Seq(Entries) /\ e \in Entries /\ e.key = Key(name) /\ e.value = value /\ Key(k) = k
  BY SeqOfEntries, EntryFacts, KeyFacts
<1>2. Construct(es, name, value) = Append(es, e)
  BY DEF Construct
<1>3. t \in Seq(Given)
  BY <1>1, ValuesFacts
<1> HIDE DEF e
<1>4. ValuesOf(Append(es, e), k) = IF e.key = Key(k) /\ e.value # "" THEN Append(t, e.value) ELSE t
  BY <1>1, ValuesAppend
<1> HIDE DEF t
<1>5. value # "" => Append(t, value) = t \o Single(value)
  <2>1. \A u \in Seq(Given) : \A x \in Given : Append(u, x) = u \o <<x>>
    BY AppendIsConcat
  <2> QED
    BY <1>3, <2>1 DEF Single, Given
<1>6. value = "" => t = t \o Single(value)
  <2>1. t \o <<>> = t
    BY <1>3, ConcatEmptySeq
  <2> QED
    BY <2>1 DEF Single
<1> QED
  BY <1>1, <1>2, <1>4, <1>5, <1>6 DEF t

LEMMA EditFields ==
    ASSUME NEW es \in Seq(Good), NEW fs, Edit(es, fs)
    PROVE  \/ fs = es
           \/ Once(fs)
           \/ \E j \in Keys : Others(es, fs, j) /\ \E v \in Values : Turns(es, fs, j, v)
<1>1. ASSUME NEW name \in Names, NEW value \in Values, fs \in Sole(es, name, value)
      PROVE  Others(es, fs, Key(name)) /\ Turns(es, fs, Key(name), value)
  <2> DEFINE j == Key(name)
  <2>1. j \in Keys /\ Key(j) = Key(name) /\ \A k \in Keys : Key(k) = k
    BY KeyFacts
  <2>2. CASE fs = Set(es, name, value)
    <3>1. ValuesOf(fs, j) = Single(value)
      BY <2>1, <2>2, SetOwn
    <3>2. ASSUME NEW k \in Keys \ {j} PROVE ValuesOf(fs, k) = ValuesOf(es, k)
      <4>1. Key(k) # Key(name)
        BY <2>1
      <4> QED
        BY <2>2, <4>1, SetOther
    <3> QED
      BY <3>1, <3>2 DEF Others, Turns
  <2>3. CASE fs = Construct(es, name, value)
    <3>1. \A k \in Keys : ValuesOf(fs, k) =
            IF k = j THEN ValuesOf(es, k) \o Single(value) ELSE ValuesOf(es, k)
      BY <2>3, ConstructFacts
    <3> QED
      BY <2>1, <3>1 DEF Others, Turns
  <2>4. CASE fs = Erase(es, name)
    <3>1. \A k : ValuesOf(fs, k) = IF Key(k) = Key(name) THEN <<>> ELSE ValuesOf(es, k)
      BY <2>4, EraseFacts
    <3> QED
      BY <2>1, <3>1 DEF Others, Turns
  <2>5. CASE fs = EraseValue(es, name, value)
    <3>1. \A k : ValuesOf(fs, k) =
            IF Key(k) = Key(name) THEN Without(ValuesOf(es, k), value) ELSE ValuesOf(es, k)
      BY <2>5, EraseValueFacts
    <3> QED
      BY <2>1, <3>1 DEF Others, Turns
  <2> QED
    BY <1>1, <2>2, <2>3, <2>4, <2>5 DEF Sole
<1>2. \A name \in Names : Key(name) \in Keys
  BY KeyFacts
<1> QED
  BY <1>1, <1>2 DEF Edit

-------------------------------------------------------------------------------
\* What reading makes of the header lines of a message and of its body.
Fill(es, body) == IF body = "" THEN es ELSE Set(es, "Content-Length", Decimal(Len(body)))
Stays(value, version) == (value # "" /\ Lower[value] = "keep-alive") \/ (value = "" /\ version = 11)
Ends(value) == value # "" /\ Lower[value] = "close"
Settle(es, version) ==
    LET value == Retrieve(es, "Connection")
    IN  IF Stays(value, version) THEN Set(es, "Connection", "keep-alive")
        ELSE IF Ends(value) THEN Set(es, "Connection", "close") ELSE es

Reads(es, body) == es \in Seq(Good) /\ Once(es) /\ Counts(es, body)

LEMMA SetOnce ==
    ASSUME NEW es \in Seq(Good), Once(es), NEW name \in Names, NEW value \in Values
    PROVE  Set(es, name, value) \in Seq(Good) /\ Once(Set(es, name, value))
<1>1. Set(es, name, value) \in Seq(Good)
  BY SetShape
<1>2. ASSUME NEW k \in Keys PROVE \E v \in Values : ValuesOf(Set(es, name, value), k) = Single(v)
  <2>1. CASE Key(k) = Key(name)
    <3>1. ValuesOf(Set(es, name, value), k) = Single(value)
      BY <2>1, SetOwn
    <3> QED
      BY <3>1
  <2>2. CASE Key(k) # Key(name)
    <3>1. ValuesOf(Set(es, name, value), k) = ValuesOf(es, k)
      BY <2>2, SetOther
    <3> QED
      BY <3>1 DEF Once
  <2> QED
    BY <2>1, <2>2
<1> QED
  BY <1>1, <1>2 DEF Once

LEMMA AllOnce ==
    ASSUME NEW F, NEW lines \in Seq(F), Settable(lines)
    PROVE  SetAll(<<>>, lines) \in Seq(Good) /\ Once(SetAll(<<>>, lines))
<1>1. SetAll(<<>>, lines) \in Seq(Good)
  BY Fixed, SetAllFacts
<1>2. ASSUME NEW k \in Keys PROVE \E v \in Values : ValuesOf(SetAll(<<>>, lines), k) = Single(v)
  <2> DEFINE t == Named(lines, k)
  <2>1. ValuesOf(SetAll(<<>>, lines), k) = IF t = <<>> THEN <<>> ELSE Single(Last(t))
    BY SetAllNamed
  <2>2. t \in Seq(Values)
    <3>1. \A i \in 1 .. Len(lines) : lines[i].value \in Values
      BY DEF Settable
    <3> QED
      BY <3>1, NamedFacts
  <2> HIDE DEF t
  <2>3. CASE t = <<>>
    <3>1. ValuesOf(SetAll(<<>>, lines), k) = Single("")
      BY <2>1, <2>3 DEF Single
    <3> QED
      BY <3>1, Fixed
  <2>4. CASE t # <<>>
    <3>1. Last(t) \in Values
      <4>1. Len(t) \in Nat /\ Len(t) # 0
        BY <2>2, <2>4, LenProperties, EmptySeq
      <4>2. \A i \in 1 .. Len(t) : t[i] \in Values
        BY <2>2, ElementOfSeq
      <4>3. Len(t) \in 1 .. Len(t)
        BY <4>1
      <4> QED
        BY <4>2, <4>3 DEF Last
    <3> QED
      BY <2>1, <2>4, <3>1
  <2> QED
    BY <2>3, <2>4
<1> QED
  BY <1>1, <1>2 DEF Once

LEMMA CountFacts ==
    ASSUME NEW es \in Seq(Good), NEW body, body = "" \/ Decimal(Len(body)) \in Given
    PROVE  Counts(Set(es, "Content-Length", Decimal(Len(body))), body)
<1> DEFINE d == Decimal(Len(body))
<1>1. CASE body # ""
  <2>1. d \in Given /\ d \in Values
    BY <1>1, Fixed
  <2> HIDE DEF d
  <2>2. Spelt(Set(es, "Content-Length", d), Key("Content-Length"), "Content-Length")
    BY <2>1, Fixed, SetSpells
  <2>3. ValuesOf(Set(es, "Content-Length", d), Key("Content-Length")) = Single(d)
    <3>1. Key(Key("Content-Length")) = Key("Content-Length")
      BY Fixed, KeyFacts
    <3>2. "Content-Length" \in Names
      BY Fixed
    <3> QED
      BY <2>1, <3>1, <3>2, SetOwn
  <2>4. Single(d) = <<d>>
    BY <2>1, Fixed
  <2> QED
    BY <2>2, <2>3, <2>4 DEF Counts, d
<1> QED
  BY <1>1 DEF Counts

LEMMA FillFacts ==
    ASSUME NEW es \in Seq(Good), Once(es), NEW body \in Bytes
    PROVE  Reads(Fill(es, body), body)
<1>1. body = "" \/ Decimal(Len(body)) \in Given
  BY DEF Bytes
<1>2. CASE body = ""
  BY <1>2 DEF Fill, Reads, Counts
<1>3. CASE body # ""
  <2> DEFINE d == Decimal(Len(body))
  <2>1. d \in Values /\ Fill(es, body) = Set(es, "Content-Length", d)
    BY <1>1, <1>3, Fixed DEF Fill
  <2>2. Counts(Set(es, "Content-Length", d), body)
    BY <1>1, CountFacts
  <2> HIDE DEF d
  <2>3. Set(es, "Content-Length", d) \in Seq(Good) /\ Once(Set(es, "Content-Length", d))
    BY <2>1, Fixed, SetOnce
  <2> QED
    BY <2>1, <2>2, <2>3 DEF Reads
<1> QED
  BY <1>2, <1>3

LEMMA KeepFacts ==
    ASSUME NEW es, NEW body, Reads(es, body), NEW value \in Values
    PROVE  Reads(Set(es, "Connection", value), body)
<1> DEFINE fs == Set(es, "Connection", value)
           c == Key("Content-Length")
<1>1. es \in Seq(Good) /\ Once(es) /\ Counts(es, body)
  BY DEF Reads
<1>2. fs \in Seq(Good) /\ Once(fs)
  BY <1>1, Fixed, SetOnce
<1>3. CASE body # ""
  <2>1. Spelt(es, c, "Content-Length") /\ ValuesOf(es, c) = <<Decimal(Len(body))>>
    BY <1>1, <1>3 DEF Counts
  <2>2. c # Key("Connection") /\ Key(c) # Key("Connection")
    BY Fixed, KeyFacts
  <2>3. ValuesOf(fs, c) = ValuesOf(es, c)
    BY <1>1, <2>2, Fixed, SetOther, ZenonT(60)
  <2>4. Spelt(fs, c, "Content-Length")
    BY <1>1, <2>1, <2>2, Fixed, SetKeepsSpelling
  <2> QED
    BY <1>2, <2>1, <2>3, <2>4 DEF Reads, Counts
<1>4. CASE body = ""
  BY <1>2, <1>4 DEF Reads, Counts
<1> QED
  BY <1>3, <1>4

LEMMA SettleFacts ==
    ASSUME NEW es, NEW body, Reads(es, body), NEW version
    PROVE  Reads(Settle(es, version), body)
BY Fixed, KeepFacts DEF Settle

\* The lines before the first that is broken.
Unbroken(lines) ==
    LET bad == {i \in DOMAIN lines : lines[i].name = ""}
    IN  IF bad = {} THEN lines ELSE SubSeq(lines, 1, Min(bad) - 1)

LEMMA ReadableSame ==
    \A lines : Req!Readable(lines) = Unbroken(lines) /\ Res!Readable(lines) = Unbroken(lines)
BY DEF Req!Readable, Res!Readable, Unbroken, Req!Min, Res!Min, Min

LineShapes == [name : Names \cup {""}, value : Values]

LEMMA UnbrokenFacts ==
    ASSUME NEW lines \in Seq(LineShapes)
    PROVE  Unbroken(lines) \in Seq(LineShapes) /\ Settable(Unbroken(lines))
<1> DEFINE bad == {i \in DOMAIN lines : lines[i].name = ""}
<1>1. /\ Len(lines) \in Nat /\ DOMAIN lines = 1 .. Len(lines)
      /\ \A i \in 1 .. Len(lines) : lines[i] \in LineShapes
  BY LenProperties, ElementOfSeq
<1>2. \A i \in 1 .. Len(lines) : lines[i].value \in Values /\ (i \notin bad => lines[i].name \in Names)
  BY <1>1 DEF LineShapes
<1>3. CASE bad = {}
  BY <1>2, <1>3 DEF Unbroken, Settable
<1>4. CASE bad # {}
  <2> DEFINE m == Min(bad)
  <2>1. bad \subseteq 1 .. Len(lines) /\ bad \in SUBSET Nat
    <3>1. bad \subseteq DOMAIN lines
      OBVIOUS
    <3>2. DOMAIN lines = 1 .. Len(lines) /\ 1 .. Len(lines) \subseteq Nat
      BY <1>1
    <3> HIDE DEF bad
    <3> QED
      BY <3>1, <3>2
  <2> HIDE DEF bad
  <2>2. m \in bad /\ \A i \in bad : m <= i
    BY <1>4, <2>1, MinFacts
  <2>3. m \in 1 .. Len(lines)
    BY <2>1, <2>2
  <2> HIDE DEF m
  <2>4. m - 1 \in 0 .. Len(lines) /\ m - 1 \in Nat
    BY <1>1, <2>3
  <2> DEFINE u == SubSeq(lines, 1, m - 1)
  <2>5. u \in Seq(LineShapes) /\ Len(u) = m - 1 /\ \A i \in 1 .. m - 1 : u[i] = lines[i]
    BY <1>1, <2>3, <2>4
  <2> HIDE DEF u
  <2>6. ASSUME NEW i \in 1 .. m - 1 PROVE u[i].name \in Names /\ u[i].value \in Values
    <3>1. i \in 1 .. Len(lines) /\ i \notin bad
      BY <1>1, <2>2, <2>3
    <3> QED
      BY <1>2, <2>5, <3>1
  <2>7. Settable(u)
    BY <2>5, <2>6 DEF Settable
  <2>8. Unbroken(lines) = u
    BY <1>4 DEF Unbroken, bad, m, u
  <2> QED
    BY <2>5, <2>7, <2>8
<1> QED
  BY <1>3, <1>4

-------------------------------------------------------------------------------
\* The calls of a request.
Asked(method, methodString, uri, body, es, version) ==
    [method |-> method, methodString |-> methodString, target |-> uri, body |-> body, entries |-> es,
     version |-> version]
ReqFine(r, q) == q \in Requests /\ Step(r, q)

LEMMA EditOf ==
    ASSUME NEW es \in Seq(Good), NEW name \in Names, NEW value \in Values
    PROVE  /\ Edit(es, Set(es, name, value)) /\ Edit(es, Construct(es, name, value))
           /\ Edit(es, Erase(es, name)) /\ Edit(es, EraseValue(es, name, value))
<1>1. \A fs : fs \in Sole(es, name, value) => Edit(es, fs)
  BY DEF Edit
<1> QED
  BY <1>1 DEF Sole

LEMMA OwnStrings ==
    /\ "" \in STRING
    /\ \A v \in Req!Verbs : Req!VerbText(v) \in STRING
    /\ \A code \in Res!Statuses : Res!ReasonOf(code) \in STRING
<1>1. OwnTexts \subseteq STRING
  BY MessageAssumption, ZenonT(60)
<1> QED
  BY <1>1 DEF OwnTexts

LEMMA EmptyFacts == "" \in Bytes /\ <<>> \in Seq(Good) /\ 11 \in Digits /\ "" \in STRING
<1>2. "" \in Bytes
  BY OwnStrings DEF Bytes
<1>3. 11 \in Digits
  BY DEF Digits
<1>4. <<>> \in Seq(Good)
  OBVIOUS
<1> QED
  BY <1>2, <1>3, <1>4, OwnStrings

LEMMA NothingOnce == Once(<<>>)
<1>1. \A k \in Keys : ValuesOf(<<>>, k) = Single("")
  BY ValuesEmpty DEF Single
<1> QED
  BY <1>1, Fixed DEF Once

LEMMA ReqEnters ==
    ASSUME NEW r \in Requests, NEW fs, Edit(r.entries, fs)
    PROVE  ReqFine(r, [r EXCEPT !.entries = fs])
<1> DEFINE q == [r EXCEPT !.entries = fs]
<1>1. r.entries \in Seq(Good)
  BY DEF Requests
<1>2. fs \in Seq(Good)
  BY <1>1, EditType
<1>3. q \in Requests /\ q.entries = fs /\ q.body = r.body
  BY <1>2 DEF Requests
<1> QED
  BY <1>3 DEF ReqFine, Step

LEMMA ReqNames ==
    ASSUME NEW r \in Requests, NEW name \in Names, NEW value \in Values
    PROVE  /\ ReqFine(r, Req!SetName(r, name, value)) /\ ReqFine(r, Req!EraseName(r, name))
           /\ ReqFine(r, Req!EraseNameValue(r, name, value)) /\ ReqFine(r, Req!HeaderConstruct(r, name, value))
<1>1. r.entries \in Seq(Good)
  BY DEF Requests
<1>2. /\ Req!SetName(r, name, value) = [r EXCEPT !.entries = Set(r.entries, name, value)]
      /\ Req!EraseName(r, name) = [r EXCEPT !.entries = Erase(r.entries, name)]
      /\ Req!EraseNameValue(r, name, value) = [r EXCEPT !.entries = EraseValue(r.entries, name, value)]
      /\ Req!HeaderConstruct(r, name, value) = [r EXCEPT !.entries = Construct(r.entries, name, value)]
  BY ReqSame DEF Req!SetName, Req!EraseName, Req!EraseNameValue, Req!HeaderConstruct
<1>3. /\ Edit(r.entries, Set(r.entries, name, value)) /\ Edit(r.entries, Construct(r.entries, name, value))
      /\ Edit(r.entries, Erase(r.entries, name)) /\ Edit(r.entries, EraseValue(r.entries, name, value))
  BY <1>1, EditOf
<1> QED
  BY <1>2, <1>3, ReqEnters

LEMMA ReqFresh == ASSUME NEW r \in Requests PROVE ReqFine(r, Req!Fresh)
<1>1. "get" \in Req!Verbs
  BY DEF Req!Verbs, Req!VerbNames
<1>2. "" \in Bytes /\ <<>> \in Seq(Good) /\ 11 \in Digits /\ "" \in STRING
  BY EmptyFacts
<1>3. Req!Fresh \in Requests /\ Req!Fresh.entries = <<>> /\ Req!Fresh.body = ""
  BY <1>1, <1>2 DEF Req!Fresh, Requests
<1> QED
  BY <1>3, Fixed, NothingOnce DEF ReqFine, Step, Edit, Counts

LEMMA VerbTypes ==
    /\ \A v \in Req!Verbs : Req!VerbText(v) \in STRING /\ Req!VerbText(v) # ""
    /\ \A text : Req!VerbOf(text) \in Req!Verbs
<1> DEFINE verbs == {"delete_", "get", "head", "post", "put", "connect", "options", "trace", "patch"}
<1>1. \A v \in DOMAIN Req!VerbNames : Req!VerbNames[v] # ""
  <2>1. DOMAIN Req!VerbNames = verbs
    BY DEF Req!VerbNames
  <2>2. /\ Req!VerbNames["delete_"] # "" /\ Req!VerbNames["get"] # "" /\ Req!VerbNames["head"] # ""
        /\ Req!VerbNames["post"] # "" /\ Req!VerbNames["put"] # "" /\ Req!VerbNames["connect"] # ""
        /\ Req!VerbNames["options"] # "" /\ Req!VerbNames["trace"] # "" /\ Req!VerbNames["patch"] # ""
    BY DEF Req!VerbNames
  <2> QED
    BY <2>1, <2>2
<1>2. \A text : Req!VerbOf(text) \in DOMAIN Req!VerbNames \/ Req!VerbOf(text) = "unknown"
  BY DEF Req!VerbOf
<1>3. "unknown" \in Req!Verbs /\ DOMAIN Req!VerbNames \subseteq Req!Verbs
  BY DEF Req!Verbs
<1>4. ASSUME NEW v PROVE Req!VerbText(v) # ""
  <2>1. CASE v \in DOMAIN Req!VerbNames
    BY <1>1, <2>1 DEF Req!VerbText
  <2>2. CASE v \notin DOMAIN Req!VerbNames
    BY <2>2 DEF Req!VerbText
  <2> QED
    BY <2>1, <2>2
<1> QED
  BY <1>2, <1>3, <1>4, OwnStrings

LEMMA ReqMembers ==
    ASSUME NEW r \in Requests
    PROVE  /\ \A v \in Req!Verbs : ReqFine(r, Req!Method(r, v))
           /\ \A text \in STRING : ReqFine(r, Req!MethodString(r, text)) /\ ReqFine(r, Req!Target(r, text))
           /\ \A v \in Digits : ReqFine(r, Req!Version(r, v))
           /\ ReqFine(r, Req!HeaderClear(r))
<1>1. ASSUME NEW q \in Requests, q.entries = r.entries, q.body = r.body PROVE ReqFine(r, q)
  BY <1>1 DEF ReqFine, Step, Edit
<1>2. ASSUME NEW v \in Req!Verbs, NEW text \in STRING
      PROVE  ReqFine(r, [[r EXCEPT !.method = v] EXCEPT !.methodString = text])
  <2> DEFINE q == [[r EXCEPT !.method = v] EXCEPT !.methodString = text]
  <2>1. q \in Requests /\ q.entries = r.entries /\ q.body = r.body
    BY DEF Requests
  <2> QED
    BY <1>1, <2>1
<1>3. ASSUME NEW v \in Req!Verbs PROVE ReqFine(r, Req!Method(r, v))
  BY <1>2, VerbTypes DEF Req!Method
<1>4. ASSUME NEW text \in STRING PROVE ReqFine(r, Req!MethodString(r, text)) /\ ReqFine(r, Req!Target(r, text))
  <2>1. ReqFine(r, Req!MethodString(r, text))
    BY <1>2, VerbTypes DEF Req!MethodString
  <2> DEFINE q == [r EXCEPT !.target = text]
  <2>2. q \in Requests /\ q.entries = r.entries /\ q.body = r.body
    BY DEF Requests
  <2>3. ReqFine(r, q)
    BY <1>1, <2>2
  <2> QED
    BY <2>1, <2>3 DEF Req!Target
<1>5. ASSUME NEW v \in Digits PROVE ReqFine(r, Req!Version(r, v))
  <2> DEFINE q == [r EXCEPT !.version = v]
  <2>1. q \in Requests /\ q.entries = r.entries /\ q.body = r.body
    BY DEF Requests
  <2>2. ReqFine(r, q)
    BY <1>1, <2>1
  <2> QED
    BY <2>2 DEF Req!Version
<1>6. ReqFine(r, Req!HeaderClear(r))
  <2>1. Edit(r.entries, <<>>)
    BY Fixed, NothingOnce DEF Edit
  <2> QED
    BY <2>1, ReqEnters DEF Req!HeaderClear
<1> QED
  BY <1>3, <1>4, <1>5, <1>6

\* What is asked of the texts and of the messages.
Trimmed == Seq(LineShapes)
Parsed == [name : Names, value : Values]

RequestStarts == {<<>>} \cup (STRING \X STRING \X (Digits \cup {Req!BadNumber}))
ResponseStarts == {<<>>} \cup ((Digits \cup {Res!BadNumber}) \X (0 .. 999 \cup {Res!BadNumber}) \X STRING)

LEMMA TextFacts ==
    /\ \A t \in {Req!Scan(text) : text \in RequestTexts} :
         /\ t.start \in RequestStarts
         /\ t.lines \in Trimmed /\ t.body \in STRING
    /\ \A t \in {Res!Scan(text) : text \in ResponseTexts} :
         /\ t.start \in ResponseStarts
         /\ t.lines \in Trimmed /\ t.body \in STRING
    /\ \A m \in RequestMessages :
         /\ m.method \in STRING /\ m.target \in STRING /\ m.version \in Digits
         /\ m.body \in STRING /\ m.fields \in Seq(Parsed)
    /\ \A m \in ResponseMessages :
         /\ m.status \in Res!Statuses /\ m.version \in Digits
         /\ m.body \in STRING /\ m.fields \in Seq(Parsed)
<1>1. /\ TextLines = Trimmed /\ MessageFields = Seq(Parsed)
  BY DEF TextLines, Trimmed, LineShapes, MessageFields, Parsed
<1>2. {Req!Scan(text) : text \in RequestTexts} \subseteq
         [start : RequestStarts,
          lines : TextLines, ended : BOOLEAN, body : STRING]
  BY MessageAssumption DEF RequestStarts
<1>3. {Res!Scan(text) : text \in ResponseTexts} \subseteq
         [start : ResponseStarts,
          lines : TextLines, ended : BOOLEAN, body : STRING]
  BY MessageAssumption DEF ResponseStarts
<1>4. RequestMessages \subseteq
         [method : STRING, target : STRING, version : Digits, keepAlive : BOOLEAN, body : STRING,
          fields : MessageFields]
  BY MessageAssumption
<1>5. ResponseMessages \subseteq
         [status : Res!Statuses, version : Digits, keepAlive : BOOLEAN, body : STRING,
          fields : MessageFields]
  BY MessageAssumption
<1>6. \A t \in {Req!Scan(text) : text \in RequestTexts} :
         /\ t.start \in RequestStarts
         /\ t.lines \in Trimmed /\ t.body \in STRING
  <2> DEFINE All == {Req!Scan(text) : text \in RequestTexts}
  <2>1. All \subseteq [start : RequestStarts, lines : TextLines, ended : BOOLEAN, body : STRING]
    BY <1>2
  <2> HIDE DEF All
  <2>2. \A t \in All : t.start \in RequestStarts /\ t.lines \in Trimmed /\ t.body \in STRING
    BY <1>1, <2>1
  <2> QED
    BY <2>2 DEF All
<1>7. \A t \in {Res!Scan(text) : text \in ResponseTexts} :
         /\ t.start \in ResponseStarts
         /\ t.lines \in Trimmed /\ t.body \in STRING
  <2> DEFINE All == {Res!Scan(text) : text \in ResponseTexts}
  <2>1. All \subseteq [start : ResponseStarts, lines : TextLines, ended : BOOLEAN, body : STRING]
    BY <1>3
  <2> HIDE DEF All
  <2>2. \A t \in All : t.start \in ResponseStarts /\ t.lines \in Trimmed /\ t.body \in STRING
    BY <1>1, <2>1
  <2> QED
    BY <2>2 DEF All
<1> QED
  BY <1>1, <1>4, <1>5, <1>6, <1>7

\* The sizes that are written.
LEMMA SizeFacts ==
    /\ \A b \in Bodies : b \in Bytes /\ Decimal(Len(b)) \in Given
    /\ \A n \in Lengths : Decimal(n) \in Values
    /\ \A t \in {Req!Scan(text) : text \in RequestTexts} : t.body \in Bytes
    /\ \A t \in {Res!Scan(text) : text \in ResponseTexts} : t.body \in Bytes
    /\ \A m \in RequestMessages : m.body \in Bytes
    /\ \A m \in ResponseMessages : m.body \in Bytes
<1>1. {Decimal(n) : n \in Lengths \cup Sizes} \subseteq Given
  BY MessageAssumption DEF Given
<1>2. \A n \in Lengths \cup Sizes : Decimal(n) \in Given
  BY <1>1
<1>3. \A b \in Bodies : b \in STRING /\ Len(b) \in Sizes
  <2>1. Bodies \subseteq STRING
    BY MessageAssumption
  <2> QED
    BY <2>1 DEF Sizes
<1>4. \A t \in {Req!Scan(text) : text \in RequestTexts} : t.body \in STRING /\ Len(t.body) \in Sizes
  BY TextFacts DEF Sizes
<1>5. \A t \in {Res!Scan(text) : text \in ResponseTexts} : t.body \in STRING /\ Len(t.body) \in Sizes
  BY TextFacts DEF Sizes
<1>6. \A t \in RequestMessages : t.body \in STRING /\ Len(t.body) \in Sizes
  BY TextFacts DEF Sizes
<1>7. \A t \in ResponseMessages : t.body \in STRING /\ Len(t.body) \in Sizes
  BY TextFacts DEF Sizes
<1> QED
  BY <1>2, <1>3, <1>4, <1>5, <1>6, <1>7, Fixed DEF Bytes

LEMMA ReqBody ==
    ASSUME NEW r \in Requests, NEW bytes \in Bytes, Decimal(Len(bytes)) \in Given
    PROVE  ReqFine(r, Req!Body(r, bytes))
<1> DEFINE d == Decimal(Len(bytes))
           es == r.entries
           fs == Set(es, "Content-Length", d)
           q == [r EXCEPT !.body = bytes]
           p == Req!Body(r, bytes)
<1>1. es \in Seq(Good) /\ d \in Values
  BY Fixed DEF Requests
<1>2. p = [q EXCEPT !.entries = Set(q.entries, "Content-Length", d)]
  BY ReqSame DEF Req!Body, Req!ContentLength, Req!SetName
<1>3. q \in Requests /\ q.entries = es /\ q.body = bytes
  BY DEF Requests
<1>4. Counts(fs, bytes)
  BY <1>1, CountFacts
<1> HIDE DEF d
<1>5. fs \in Seq(Good) /\ Edit(es, fs)
  BY <1>1, Fixed, SetShape, EditOf
<1> HIDE DEF fs, q, p
<1>6. p = [q EXCEPT !.entries = fs]
  BY <1>2, <1>3 DEF fs
<1>7. p \in Requests /\ p.entries = fs /\ p.body = bytes
  BY <1>3, <1>5, <1>6 DEF Requests
<1> QED
  BY <1>4, <1>5, <1>7 DEF ReqFine, Step, p, es

\* What reading a request makes of its members.
NoBody == ""

LEMMA ReqStarted ==
    ASSUME NEW r, NEW text, NEW uri, NEW version
    PROVE  Req!Version(Req!Target(Req!MethodString(Req!Clear(r), text), uri), version) =
             Asked(Req!VerbOf(text), text, uri, NoBody, <<>>, version)
<1> DEFINE a == Req!MethodString(Req!Clear(r), text)
           b == Req!Target(a, uri)
           v == Req!VerbOf(text)
           get == "get"
           nothing == <<>>
           eleven == 11
<1>1. Req!Clear(r) = Asked(get, NoBody, NoBody, NoBody, nothing, eleven)
  BY DEF Req!Clear, Req!Fresh, Asked, NoBody
<1> HIDE DEF v, get, nothing, eleven
<1>2. a = Asked(v, text, NoBody, NoBody, nothing, eleven)
  <2>1. [Asked(get, NoBody, NoBody, NoBody, nothing, eleven) EXCEPT !.method = v] =
          Asked(v, NoBody, NoBody, NoBody, nothing, eleven)
    BY DEF Asked
  <2>2. [Asked(v, NoBody, NoBody, NoBody, nothing, eleven) EXCEPT !.methodString = text] =
          Asked(v, text, NoBody, NoBody, nothing, eleven)
    BY DEF Asked
  <2> QED
    BY <1>1, <2>1, <2>2 DEF Req!MethodString, v
<1> HIDE DEF a
<1>3. b = Asked(v, text, uri, NoBody, nothing, eleven)
  BY <1>2 DEF Req!Target, Asked
<1> HIDE DEF b
<1>4. Req!Version(b, version) = Asked(v, text, uri, NoBody, nothing, version)
  BY <1>3 DEF Req!Version, Asked
<1> QED
  BY <1>4 DEF a, b, v, nothing

LEMMA ReqSet ==
    ASSUME NEW method, NEW text, NEW uri, NEW body, NEW es, NEW version, NEW name, NEW value
    PROVE  Req!SetName(Asked(method, text, uri, body, es, version), name, value) =
             Asked(method, text, uri, body, Set(es, name, value), version)
BY ReqSame DEF Req!SetName, Asked

LEMMA ReqFilled ==
    ASSUME NEW method, NEW text, NEW uri, NEW body, NEW es, NEW version, NEW r,
           r = Asked(method, text, uri, NoBody, es, version)
    PROVE  (IF body = NoBody THEN r ELSE Req!Body(r, body)) =
             Asked(method, text, uri, body, Fill(es, body), version)
<1> DEFINE d == Decimal(Len(body))
           q == [r EXCEPT !.body = body]
<1>1. CASE body = NoBody
  BY <1>1 DEF Fill, NoBody
<1>2. CASE body # NoBody
  <2>1. q = Asked(method, text, uri, body, es, version)
    <3>1. r = Asked(method, text, uri, NoBody, es, version)
      OBVIOUS
    <3> QED
      BY <3>1 DEF Asked
  <2>2. Req!Body(r, body) = Req!SetName(q, "Content-Length", d)
    BY ReqSame DEF Req!Body, Req!ContentLength
  <2>3. Fill(es, body) = Set(es, "Content-Length", d)
    BY <1>2 DEF Fill, NoBody
  <2> HIDE DEF d, q
  <2>4. Req!Body(r, body) = Asked(method, text, uri, body, Set(es, "Content-Length", d), version)
    BY <2>1, <2>2, ReqSet
  <2> QED
    BY <1>2, <2>3, <2>4
<1> QED
  BY <1>1, <1>2

LEMMA ReqConnected ==
    ASSUME NEW method, NEW text, NEW uri, NEW body, NEW es, NEW version
    PROVE  Req!Connected(Asked(method, text, uri, body, es, version)) =
             Asked(method, text, uri, body, Settle(es, version), version)
<1> DEFINE r == Asked(method, text, uri, body, es, version)
           value == Retrieve(es, "Connection")
           low == Lower[value]
<1>1. r.entries = es /\ r.version = version
  BY DEF Asked
<1>2. Req!Retrieve(r.entries, "Connection") = value
  BY <1>1, ReqSame
<1>3. Req!KeepAlive(r, TRUE) = Asked(method, text, uri, body, Set(es, "Connection", "keep-alive"), version)
  BY ReqSet DEF Req!KeepAlive
<1>4. Req!KeepAlive(r, FALSE) = Asked(method, text, uri, body, Set(es, "Connection", "close"), version)
  BY ReqSet DEF Req!KeepAlive
<1>5. Req!Connected(r) =
        CASE value # "" /\ low = "keep-alive" -> Req!KeepAlive(r, TRUE)
          [] value # "" /\ low = "close" -> Req!KeepAlive(r, FALSE)
          [] value = "" /\ version = 11 -> Req!KeepAlive(r, TRUE)
          [] OTHER -> r
  BY <1>1, <1>2 DEF Req!Connected
<1>6. Settle(es, version) = (IF Stays(value, version) THEN Set(es, "Connection", "keep-alive")
                             ELSE IF Ends(value) THEN Set(es, "Connection", "close") ELSE es)
  BY DEF Settle
<1>7. /\ Stays(value, version) <=> (value # "" /\ low = "keep-alive") \/ (value = "" /\ version = 11)
      /\ Ends(value) <=> value # "" /\ low = "close"
  BY DEF Stays, Ends
<1> DEFINE on == Req!KeepAlive(r, TRUE)
           off == Req!KeepAlive(r, FALSE)
           connected == Req!Connected(r)
<1> HIDE DEF value, low, on, off, connected
<1>8. connected = IF Stays(value, version) THEN on ELSE IF Ends(value) THEN off ELSE r
  <2> HIDE DEF r
  <2>1. CASE value # "" /\ low = "keep-alive"
    BY <1>5, <1>7, <2>1 DEF on, off, connected
  <2>2. CASE value # "" /\ low = "close"
    BY <1>5, <1>7, <2>2 DEF on, off, connected
  <2>3. CASE value = "" /\ version = 11
    BY <1>5, <1>7, <2>3 DEF on, off, connected
  <2>4. CASE ~ (value # "" /\ low \in {"keep-alive", "close"}) /\ ~ (value = "" /\ version = 11)
    BY <1>5, <1>7, <2>4 DEF on, off, connected
  <2> QED
    BY <2>1, <2>2, <2>3, <2>4
<1> QED
  BY <1>3, <1>4, <1>6, <1>8 DEF on, off, connected

\* A request that is read from a text, if it is one, and what is left where it is not.
Headed(lines) == SetAll(<<>>, Unbroken(lines))

LEMMA ReqDeserialized ==
    ASSUME NEW r, NEW t
    PROVE  LET a == t.start[1]
               u == t.start[2]
               n == t.start[3]
           IN  Req!ReadFrom(r, t) =
                 IF t.start = <<>> \/ n = Req!BadNumber THEN [ok |-> FALSE, object |-> Req!Fresh]
                 ELSE IF ~ t.ended
                      THEN [ok |-> FALSE, object |-> Asked(Req!VerbOf(a), a, u, "", <<>>, n)]
                 ELSE IF Unbroken(t.lines) # t.lines
                      THEN [ok |-> FALSE, object |-> Asked(Req!VerbOf(a), a, u, "", Headed(t.lines), n)]
                 ELSE [ok |-> TRUE,
                       object |-> Asked(Req!VerbOf(a), a, u, t.body, Settle(Fill(Headed(t.lines), t.body), n), n)]
<1> DEFINE a == t.start[1]
           u == t.start[2]
           n == t.start[3]
           v == Req!VerbOf(a)
           started == Req!Version(Req!Target(Req!MethodString(Req!Clear(r), a), u), n)
           headed == [started EXCEPT !.entries = Req!SetAll(@, Req!Readable(t.lines))]
           filled == IF t.body = NoBody THEN headed ELSE Req!Body(headed, t.body)
           es == Fill(Headed(t.lines), t.body)
           nothing == <<>>
<1>1. started = Asked(v, a, u, NoBody, nothing, n)
  BY ReqStarted
<1>2. headed = Asked(v, a, u, NoBody, Headed(t.lines), n)
  <2> DEFINE hs == Headed(t.lines)
  <2>1. started.entries = <<>>
    BY <1>1 DEF Asked
  <2>2. Req!SetAll(started.entries, Req!Readable(t.lines)) = hs
    BY <2>1, ReqSame, ReadableSame DEF Headed
  <2>3. headed = [started EXCEPT !.entries = hs]
    BY <2>2
  <2> HIDE DEF hs, nothing, started
  <2> QED
    BY <1>1, <2>3 DEF Asked, hs
<1> HIDE DEF headed
<1>3. filled = Asked(v, a, u, t.body, es, n)
  BY <1>2, ReqFilled
<1> HIDE DEF filled, es
<1>4. Req!Connected(filled) = Asked(v, a, u, t.body, Settle(es, n), n)
  BY <1>3, ReqConnected
<1> DEFINE bad == n = Req!BadNumber
           cut == ~ t.ended
           broken == Unbroken(t.lines) # t.lines
           failed(o) == [ok |-> FALSE, object |-> o]
           done == [ok |-> TRUE, object |-> Req!Connected(filled)]
           result == Req!ReadFrom(r, t)
           fresh == failed(Req!Fresh)
           stopped == failed(started)
           torn == failed(headed)
<1>5. result =
        CASE t.start = <<>> -> fresh
          [] t.start # <<>> /\ bad -> fresh
          [] OTHER -> CASE cut -> stopped [] t.ended /\ broken -> torn [] OTHER -> done
  BY ReadableSame DEF Req!ReadFrom, filled, headed, Req!Clear, NoBody
<1> HIDE DEF done, fresh, stopped, torn, result
<1> HIDE DEF bad, broken
<1>7. result = IF t.start = <<>> \/ bad THEN fresh
               ELSE IF cut THEN stopped ELSE IF broken THEN torn ELSE done
  <2>1. CASE t.start = <<>>
    BY <1>5, <2>1
  <2>2. CASE t.start # <<>> /\ bad
    BY <1>5, <2>2
  <2>3. CASE t.start # <<>> /\ ~ bad
    <3>1. result = CASE cut -> stopped [] t.ended /\ broken -> torn [] OTHER -> done
      BY <1>5, <2>3
    <3>2. CASE cut
      <4>1. ~ (t.ended /\ broken)
        BY <3>2
      <4> QED
        BY <2>3, <3>1, <3>2, <4>1
    <3>3. CASE ~ cut
      BY <2>3, <3>1, <3>3
    <3> QED
      BY <3>2, <3>3
  <2> QED
    BY <2>1, <2>2, <2>3
<1> HIDE DEF started
<1> QED
  BY <1>1, <1>2, <1>4, <1>7 DEF bad, broken, done, fresh, stopped, torn, result, es, NoBody, nothing

LEMMA ReqAsyncRead ==
    ASSUME NEW r, NEW m
    PROVE  LET on == IF m.keepAlive THEN "keep-alive" ELSE "close"
           IN  Req!AsyncRead(r, m) =
                 Asked(Req!VerbOf(m.method), m.method, m.target, m.body,
                       Set(Fill(SetAll(<<>>, m.fields), m.body), "Connection", on), m.version)
<1> DEFINE a == m.method
           u == m.target
           n == m.version
           v == Req!VerbOf(a)
           on == IF m.keepAlive THEN "keep-alive" ELSE "close"
           started == Req!Version(Req!Target(Req!MethodString(Req!Clear(r), a), u), n)
           headed == [started EXCEPT !.entries = Req!SetAll(@, m.fields)]
           filled == IF m.body = NoBody THEN headed ELSE Req!Body(headed, m.body)
           hs == SetAll(<<>>, m.fields)
           es == Fill(hs, m.body)
           nothing == <<>>
<1>1. started = Asked(v, a, u, NoBody, nothing, n)
  BY ReqStarted
<1>2. headed = Asked(v, a, u, NoBody, hs, n)
  <2>1. started.entries = <<>>
    BY <1>1 DEF Asked
  <2>2. Req!SetAll(started.entries, m.fields) = hs
    BY <2>1, ReqSame
  <2>3. headed = [started EXCEPT !.entries = hs]
    BY <2>2
  <2> HIDE DEF hs, nothing, started
  <2> QED
    BY <1>1, <2>3 DEF Asked
<1> HIDE DEF headed, hs
<1>3. filled = Asked(v, a, u, m.body, es, n)
  BY <1>2, ReqFilled
<1>4. Req!AsyncRead(r, m) = Req!SetName(filled, "Connection", on)
  BY DEF Req!AsyncRead, Req!KeepAlive, headed, NoBody
<1> HIDE DEF filled, es, on
<1>5. Req!SetName(filled, "Connection", on) = Asked(v, a, u, m.body, Set(es, "Connection", on), n)
  BY <1>3, ReqSet
<1> QED
  BY <1>4, <1>5 DEF es, hs, on

LEMMA AskedFine ==
    ASSUME NEW r \in Requests, NEW v \in Req!Verbs, NEW text \in STRING, NEW uri \in STRING,
           NEW body \in Bytes, NEW es, Reads(es, body), NEW version \in Digits
    PROVE  ReqFine(r, Asked(v, text, uri, body, es, version))
<1> DEFINE q == Asked(v, text, uri, body, es, version)
<1>1. es \in Seq(Good) /\ Once(es) /\ Counts(es, body)
  BY DEF Reads
<1>2. q \in Requests /\ q.entries = es /\ q.body = body
  BY <1>1 DEF Asked, Requests
<1> QED
  BY <1>1, <1>2 DEF ReqFine, Step, Edit

LEMMA NothingReads == Reads(<<>>, "")
BY EmptyFacts, NothingOnce DEF Reads, Counts

LEMMA HeadedFacts ==
    ASSUME NEW lines \in Trimmed
    PROVE  Headed(lines) \in Seq(Good) /\ Once(Headed(lines)) /\ Reads(Headed(lines), "")
<1>1. Unbroken(lines) \in Seq(LineShapes) /\ Settable(Unbroken(lines))
  BY UnbrokenFacts DEF Trimmed
<1>2. Headed(lines) \in Seq(Good) /\ Once(Headed(lines))
  BY <1>1, AllOnce DEF Headed
<1> QED
  BY <1>2 DEF Reads, Counts

LEMMA ReqDeserializeFine ==
    ASSUME NEW r \in Requests, NEW text \in RequestTexts
    PROVE  ReqFine(r, Req!Deserialize(r, text).object)
<1> DEFINE t == Req!Scan(text)
           a == t.start[1]
           u == t.start[2]
           n == t.start[3]
           v == Req!VerbOf(a)
           q == Req!ReadFrom(r, t)
           settled == Settle(Fill(Headed(t.lines), t.body), n)
<1>0. t \in {Req!Scan(x) : x \in RequestTexts}
  OBVIOUS
<1> HIDE DEF t
<1>1. t.lines \in Trimmed /\ t.body \in Bytes
  BY <1>0, TextFacts, SizeFacts
<1>2. ReqFine(r, Req!Fresh)
  BY ReqFresh
<1>3. ASSUME t.start # <<>>, n # Req!BadNumber PROVE a \in STRING /\ u \in STRING /\ n \in Digits /\ v \in Req!Verbs
  <2>1. t.start \in RequestStarts
    BY <1>0, TextFacts
  <2> QED
    BY <1>3, <2>1, VerbTypes DEF RequestStarts
<1>4. Reads(<<>>, "") /\ Reads(Headed(t.lines), "") /\ "" \in Bytes
  BY <1>1, NothingReads, HeadedFacts, EmptyFacts
<1>5. Reads(settled, t.body)
  BY <1>1, HeadedFacts, FillFacts, SettleFacts
<1> DEFINE stopped == Asked(v, a, u, "", <<>>, n)
           torn == Asked(v, a, u, "", Headed(t.lines), n)
           done == Asked(v, a, u, t.body, settled, n)
           bad == t.start = <<>> \/ n = Req!BadNumber
<1>6. ASSUME ~ bad PROVE ReqFine(r, stopped) /\ ReqFine(r, torn) /\ ReqFine(r, done)
  <2>1. a \in STRING /\ u \in STRING /\ n \in Digits /\ v \in Req!Verbs
    BY <1>3, <1>6
  <2> HIDE DEF a, u, n, v, settled
  <2> QED
    BY <1>1, <1>4, <1>5, <2>1, AskedFine
<1>7. q.object \in {Req!Fresh} \/ (~ bad /\ q.object \in {stopped, torn, done})
  <2> DEFINE cut == ~ t.ended
             broken == Unbroken(t.lines) # t.lines
  <2>1. q = IF bad THEN [ok |-> FALSE, object |-> Req!Fresh]
            ELSE IF cut THEN [ok |-> FALSE, object |-> stopped]
            ELSE IF broken THEN [ok |-> FALSE, object |-> torn]
            ELSE [ok |-> TRUE, object |-> done]
    BY ReqDeserialized
  <2> HIDE DEF q, bad, cut, broken, stopped, torn, done
  <2> QED
    BY <2>1
<1> HIDE DEF q, bad, stopped, torn, done
<1> QED
  BY <1>2, <1>6, <1>7 DEF q, t, Req!Deserialize

LEMMA SettableFields == ASSUME NEW fields \in Seq(Parsed) PROVE Settable(fields)
<1>1. \A i \in 1 .. Len(fields) : fields[i] \in Parsed
  BY ElementOfSeq
<1> QED
  BY <1>1 DEF Settable, Parsed

LEMMA ReqAsyncFine ==
    ASSUME NEW r \in Requests, NEW m \in RequestMessages
    PROVE  ReqFine(r, Req!AsyncRead(r, m))
<1> DEFINE on == IF m.keepAlive THEN "keep-alive" ELSE "close"
           es == Fill(SetAll(<<>>, m.fields), m.body)
           fs == Set(es, "Connection", on)
           v == Req!VerbOf(m.method)
<1>1. /\ m.method \in STRING /\ m.target \in STRING /\ m.version \in Digits /\ m.body \in Bytes
      /\ m.fields \in Seq(Parsed) /\ v \in Req!Verbs /\ on \in Values
  <2>1. on \in Values
    BY Fixed
  <2>2. v \in Req!Verbs
    BY VerbTypes
  <2> HIDE DEF on, v
  <2>3. /\ m.method \in STRING /\ m.target \in STRING /\ m.version \in Digits
        /\ m.fields \in Seq(Parsed)
    BY TextFacts
  <2> QED
    BY <2>1, <2>2, <2>3, SizeFacts
<1>2. Reads(es, m.body)
  BY <1>1, SettableFields, AllOnce, FillFacts
<1> HIDE DEF es, on
<1>3. Reads(fs, m.body)
  BY <1>1, <1>2, KeepFacts
<1> HIDE DEF fs, v
<1>4. ReqFine(r, Asked(v, m.method, m.target, m.body, fs, m.version))
  BY <1>1, <1>3, AskedFine
<1> QED
  BY <1>4, ReqAsyncRead DEF es, fs, on, v

LEMMA ReqCalls ==
    ASSUME NEW r \in Requests
    PROVE  /\ \A f \in OwnFields, value \in Values :
                /\ ReqFine(r, Req!SetField(r, f, value)) /\ ReqFine(r, Req!EraseField(r, f))
                /\ ReqFine(r, Req!EraseFieldValue(r, f, value))
           /\ \A n \in Lengths : ReqFine(r, Req!ContentLength(r, n))
           /\ \A on \in BOOLEAN : ReqFine(r, Req!KeepAlive(r, on))
           /\ \A b \in Bodies : ReqFine(r, Req!Body(r, b))
           /\ ReqFine(r, Req!Clear(r))
<1>1. ReqFine(r, r)
  BY DEF ReqFine, Step, Edit
<1>2. ASSUME NEW f \in OwnFields, NEW value \in Values
      PROVE  /\ ReqFine(r, Req!SetField(r, f, value)) /\ ReqFine(r, Req!EraseField(r, f))
             /\ ReqFine(r, Req!EraseFieldValue(r, f, value))
  <2>1. f \in DOMAIN Req!FieldNames => Req!FieldNames[f] \in Names
    BY MessageAssumption, ZenonT(60)
  <2>2. CASE f \in DOMAIN Req!FieldNames
    BY <2>1, <2>2, ReqNames DEF Req!SetField, Req!EraseField, Req!EraseFieldValue
  <2>3. CASE f \notin DOMAIN Req!FieldNames
    BY <1>1, <2>3 DEF Req!SetField, Req!EraseField, Req!EraseFieldValue
  <2> QED
    BY <2>2, <2>3
<1>3. ASSUME NEW n \in Lengths PROVE ReqFine(r, Req!ContentLength(r, n))
  <2>1. Req!Decimal(n) = Decimal(n)
    BY ReqSame
  <2> QED
    BY <2>1, SizeFacts, Fixed, ReqNames DEF Req!ContentLength
<1>4. ASSUME NEW on \in BOOLEAN PROVE ReqFine(r, Req!KeepAlive(r, on))
  BY Fixed, ReqNames DEF Req!KeepAlive
<1>5. \A b \in Bodies : ReqFine(r, Req!Body(r, b))
  BY SizeFacts, ReqBody
<1>6. ReqFine(r, Req!Clear(r))
  BY ReqFresh DEF Req!Clear
<1> QED
  BY <1>2, <1>3, <1>4, <1>5, <1>6

-------------------------------------------------------------------------------
\* The calls of a response.
Answer(status, reason, body, es, version) ==
    [status |-> status, reason |-> reason, body |-> body, entries |-> es, version |-> version]
ResFine(r, q) == q \in Responses /\ Step(r, q)

LEMMA ResEnters ==
    ASSUME NEW r \in Responses, NEW fs, Edit(r.entries, fs)
    PROVE  ResFine(r, [r EXCEPT !.entries = fs])
<1> DEFINE q == [r EXCEPT !.entries = fs]
<1>1. r.entries \in Seq(Good)
  BY DEF Responses
<1>2. fs \in Seq(Good)
  BY <1>1, EditType
<1>3. q \in Responses /\ q.entries = fs /\ q.body = r.body
  BY <1>2 DEF Responses
<1> QED
  BY <1>3 DEF ResFine, Step

LEMMA ResNames ==
    ASSUME NEW r \in Responses, NEW name \in Names, NEW value \in Values
    PROVE  /\ ResFine(r, Res!SetName(r, name, value)) /\ ResFine(r, Res!EraseName(r, name))
           /\ ResFine(r, Res!EraseNameValue(r, name, value)) /\ ResFine(r, Res!HeaderConstruct(r, name, value))
<1>1. r.entries \in Seq(Good)
  BY DEF Responses
<1>2. /\ Res!SetName(r, name, value) = [r EXCEPT !.entries = Set(r.entries, name, value)]
      /\ Res!EraseName(r, name) = [r EXCEPT !.entries = Erase(r.entries, name)]
      /\ Res!EraseNameValue(r, name, value) = [r EXCEPT !.entries = EraseValue(r.entries, name, value)]
      /\ Res!HeaderConstruct(r, name, value) = [r EXCEPT !.entries = Construct(r.entries, name, value)]
  BY ResSame DEF Res!SetName, Res!EraseName, Res!EraseNameValue, Res!HeaderConstruct
<1>3. /\ Edit(r.entries, Set(r.entries, name, value)) /\ Edit(r.entries, Construct(r.entries, name, value))
      /\ Edit(r.entries, Erase(r.entries, name)) /\ Edit(r.entries, EraseValue(r.entries, name, value))
  BY <1>1, EditOf
<1> QED
  BY <1>2, <1>3, ResEnters

LEMMA ResFresh == ASSUME NEW r \in Responses PROVE ResFine(r, Res!Fresh)
<1>1. 200 \in Res!Statuses
  BY DEF Res!Statuses
<1>2. "" \in Bytes /\ <<>> \in Seq(Good) /\ 11 \in Digits /\ "" \in STRING
  BY EmptyFacts
<1>3. Res!Fresh \in Responses /\ Res!Fresh.entries = <<>> /\ Res!Fresh.body = ""
  BY <1>1, <1>2 DEF Res!Fresh, Responses
<1> QED
  BY <1>3, Fixed, NothingOnce DEF ResFine, Step, Edit, Counts

LEMMA StatusTypes ==
    /\ \A code : Res!ToStatus(code) \in Res!Statuses /\ Res!ReasonOf(code) \in STRING
    /\ \A code : Res!ReasonOf(Res!ToStatus(code)) = Res!ReasonOf(code)
    /\ \A code : Res!ToStatus(Res!ToStatus(code)) = Res!ToStatus(code)
<1>1. DOMAIN Res!Reasons \subseteq Res!Statuses /\ 0 \in Res!Statuses /\ 0 \notin DOMAIN Res!Reasons
  BY DEF Res!Reasons, Res!Statuses
<1>2. ASSUME NEW code
      PROVE  /\ Res!ToStatus(code) \in Res!Statuses /\ Res!ReasonOf(code) \in STRING
             /\ Res!ReasonOf(Res!ToStatus(code)) = Res!ReasonOf(code)
             /\ Res!ToStatus(Res!ToStatus(code)) = Res!ToStatus(code)
  <2>1. CASE code \in DOMAIN Res!Reasons
    <3>1. Res!ToStatus(code) = code /\ code \in Res!Statuses
      BY <1>1, <2>1 DEF Res!ToStatus
    <3> QED
      BY <3>1, OwnStrings
  <2>2. CASE code \notin DOMAIN Res!Reasons
    <3>1. Res!ToStatus(code) = 0 /\ Res!ReasonOf(code) = "" /\ Res!ReasonOf(0) = "" /\ Res!ToStatus(0) = 0
      BY <1>1, <2>2 DEF Res!ToStatus, Res!ReasonOf
    <3> QED
      BY <1>1, <3>1, OwnStrings
  <2> QED
    BY <2>1, <2>2
<1> QED
  BY <1>2

LEMMA ResMembers ==
    ASSUME NEW r \in Responses
    PROVE  /\ \A code \in Res!Statuses : ResFine(r, Res!Status(r, code))
           /\ \A code : ResFine(r, Res!StatusCode(r, code))
           /\ \A text \in STRING : ResFine(r, Res!Reason(r, text))
           /\ \A v \in Digits : ResFine(r, Res!Version(r, v))
           /\ ResFine(r, Res!HeaderClear(r))
<1>1. ASSUME NEW q \in Responses, q.entries = r.entries, q.body = r.body PROVE ResFine(r, q)
  BY <1>1 DEF ResFine, Step, Edit
<1>2. ASSUME NEW code \in Res!Statuses, NEW text \in STRING
      PROVE  ResFine(r, [[r EXCEPT !.status = code] EXCEPT !.reason = text])
  <2> DEFINE q == [[r EXCEPT !.status = code] EXCEPT !.reason = text]
  <2>1. q \in Responses /\ q.entries = r.entries /\ q.body = r.body
    BY DEF Responses
  <2> QED
    BY <1>1, <2>1
<1>3. ASSUME NEW code \in Res!Statuses PROVE ResFine(r, Res!Status(r, code))
  <2> DEFINE p == [r EXCEPT !.status = code]
             text == IF code \in DOMAIN Res!Reasons THEN Res!Reasons[code] ELSE r.reason
  <2>1. r.reason \in STRING /\ p.reason = r.reason
    BY DEF Responses
  <2>2. text \in STRING
    BY <2>1, StatusTypes DEF Res!ReasonOf
  <2>3. Res!Status(r, code) = [p EXCEPT !.reason = text]
    BY <2>1 DEF Res!Status
  <2> HIDE DEF text
  <2> QED
    BY <1>2, <2>2, <2>3
<1>4. ASSUME NEW code PROVE ResFine(r, Res!StatusCode(r, code))
  BY <1>2, StatusTypes DEF Res!StatusCode
<1>5. ASSUME NEW text \in STRING PROVE ResFine(r, Res!Reason(r, text))
  <2> DEFINE q == [r EXCEPT !.reason = text]
  <2>1. q \in Responses /\ q.entries = r.entries /\ q.body = r.body
    BY DEF Responses
  <2>2. ResFine(r, q)
    BY <1>1, <2>1
  <2> QED
    BY <2>2 DEF Res!Reason
<1>6. ASSUME NEW v \in Digits PROVE ResFine(r, Res!Version(r, v))
  <2> DEFINE q == [r EXCEPT !.version = v]
  <2>1. q \in Responses /\ q.entries = r.entries /\ q.body = r.body
    BY DEF Responses
  <2>2. ResFine(r, q)
    BY <1>1, <2>1
  <2> QED
    BY <2>2 DEF Res!Version
<1>7. ResFine(r, Res!HeaderClear(r))
  <2>1. Edit(r.entries, <<>>)
    BY Fixed, NothingOnce DEF Edit
  <2> QED
    BY <2>1, ResEnters DEF Res!HeaderClear
<1> QED
  BY <1>3, <1>4, <1>5, <1>6, <1>7

LEMMA ResBody ==
    ASSUME NEW r \in Responses, NEW bytes \in Bytes, Decimal(Len(bytes)) \in Given
    PROVE  ResFine(r, Res!Body(r, bytes))
<1> DEFINE d == Decimal(Len(bytes))
           es == r.entries
           fs == Set(es, "Content-Length", d)
           q == [r EXCEPT !.body = bytes]
           p == Res!Body(r, bytes)
<1>1. es \in Seq(Good) /\ d \in Values
  BY Fixed DEF Responses
<1>2. p = [q EXCEPT !.entries = Set(q.entries, "Content-Length", d)]
  BY ResSame DEF Res!Body, Res!ContentLength, Res!SetName
<1>3. q \in Responses /\ q.entries = es /\ q.body = bytes
  BY DEF Responses
<1>4. Counts(fs, bytes)
  BY <1>1, CountFacts
<1> HIDE DEF d
<1>5. fs \in Seq(Good) /\ Edit(es, fs)
  BY <1>1, Fixed, SetShape, EditOf
<1> HIDE DEF fs, q, p
<1>6. p = [q EXCEPT !.entries = fs]
  BY <1>2, <1>3 DEF fs
<1>7. p \in Responses /\ p.entries = fs /\ p.body = bytes
  BY <1>3, <1>5, <1>6 DEF Responses
<1> QED
  BY <1>4, <1>5, <1>7 DEF ResFine, Step, p, es

\* What reading a response makes of its members.
LEMMA ResStarted ==
    ASSUME NEW r, NEW version
    PROVE  /\ \A code, text :
                Res!Reason(Res!StatusCode(Res!Version(Res!Clear(r), version), code), text) =
                  Answer(Res!ToStatus(code), text, NoBody, <<>>, version)
           /\ \A code : Res!Status(Res!Version(Res!Clear(r), version), code) =
                          Answer(code, Res!ReasonOf(code), NoBody, <<>>, version)
<1> DEFINE a == Res!Version(Res!Clear(r), version)
           okay == 200
           nothing == <<>>
           eleven == 11
<1>1. Res!Clear(r) = Answer(okay, NoBody, NoBody, nothing, eleven)
  BY DEF Res!Clear, Res!Fresh, Answer, NoBody
<1> HIDE DEF okay, nothing, eleven
<1>2. a = Answer(okay, NoBody, NoBody, nothing, version)
  BY <1>1 DEF Res!Version, Answer
<1> HIDE DEF a
<1>3. ASSUME NEW code, NEW text
      PROVE  [[a EXCEPT !.status = code] EXCEPT !.reason = text] = Answer(code, text, NoBody, nothing, version)
  <2>1. [Answer(okay, NoBody, NoBody, nothing, version) EXCEPT !.status = code] =
          Answer(code, NoBody, NoBody, nothing, version)
    BY DEF Answer
  <2>2. [Answer(code, NoBody, NoBody, nothing, version) EXCEPT !.reason = text] =
          Answer(code, text, NoBody, nothing, version)
    BY DEF Answer
  <2> QED
    BY <1>2, <2>1, <2>2
<1>4. ASSUME NEW code, NEW text
      PROVE  Res!Reason(Res!StatusCode(a, code), text) = Answer(Res!ToStatus(code), text, NoBody, nothing, version)
  <2> DEFINE b == Answer(Res!ToStatus(code), Res!ReasonOf(code), NoBody, nothing, version)
  <2>1. Res!StatusCode(a, code) = b
    BY <1>3 DEF Res!StatusCode
  <2>2. [b EXCEPT !.reason = text] = Answer(Res!ToStatus(code), text, NoBody, nothing, version)
    BY DEF Answer
  <2> QED
    BY <2>1, <2>2 DEF Res!Reason
<1>5. ASSUME NEW code PROVE Res!Status(a, code) = Answer(code, Res!ReasonOf(code), NoBody, nothing, version)
  <2> DEFINE p == [a EXCEPT !.status = code]
  <2>1. p.reason = NoBody
    BY <1>2 DEF Answer
  <2>2. Res!Status(a, code) = [p EXCEPT !.reason = Res!ReasonOf(code)]
    BY <2>1 DEF Res!Status, Res!ReasonOf, NoBody
  <2> QED
    BY <1>3, <2>2
<1> QED
  BY <1>4, <1>5 DEF a, nothing

LEMMA ResSet ==
    ASSUME NEW status, NEW reason, NEW body, NEW es, NEW version, NEW name, NEW value
    PROVE  Res!SetName(Answer(status, reason, body, es, version), name, value) =
             Answer(status, reason, body, Set(es, name, value), version)
BY ResSame DEF Res!SetName, Answer

LEMMA ResFilled ==
    ASSUME NEW status, NEW reason, NEW body, NEW es, NEW version, NEW r,
           r = Answer(status, reason, NoBody, es, version)
    PROVE  (IF body = NoBody THEN r ELSE Res!Body(r, body)) =
             Answer(status, reason, body, Fill(es, body), version)
<1> DEFINE d == Decimal(Len(body))
           q == [r EXCEPT !.body = body]
<1>1. CASE body = NoBody
  BY <1>1 DEF Fill, NoBody
<1>2. CASE body # NoBody
  <2>1. q = Answer(status, reason, body, es, version)
    <3>1. r = Answer(status, reason, NoBody, es, version)
      OBVIOUS
    <3> QED
      BY <3>1 DEF Answer
  <2>2. Res!Body(r, body) = Res!SetName(q, "Content-Length", d)
    BY ResSame DEF Res!Body, Res!ContentLength
  <2>3. Fill(es, body) = Set(es, "Content-Length", d)
    BY <1>2 DEF Fill, NoBody
  <2> HIDE DEF d, q
  <2>4. Res!Body(r, body) = Answer(status, reason, body, Set(es, "Content-Length", d), version)
    BY <2>1, <2>2, ResSet
  <2> QED
    BY <1>2, <2>3, <2>4
<1> QED
  BY <1>1, <1>2

LEMMA ResConnected ==
    ASSUME NEW status, NEW reason, NEW body, NEW es, NEW version
    PROVE  Res!Connected(Answer(status, reason, body, es, version)) =
             Answer(status, reason, body, Settle(es, version), version)
<1> DEFINE r == Answer(status, reason, body, es, version)
           value == Retrieve(es, "Connection")
           low == Lower[value]
<1>1. r.entries = es /\ r.version = version
  BY DEF Answer
<1>2. Res!Retrieve(r.entries, "Connection") = value
  BY <1>1, ResSame
<1>3. Res!KeepAlive(r, TRUE) = Answer(status, reason, body, Set(es, "Connection", "keep-alive"), version)
  BY ResSet DEF Res!KeepAlive
<1>4. Res!KeepAlive(r, FALSE) = Answer(status, reason, body, Set(es, "Connection", "close"), version)
  BY ResSet DEF Res!KeepAlive
<1>5. Res!Connected(r) =
        CASE value # "" /\ low = "keep-alive" -> Res!KeepAlive(r, TRUE)
          [] value # "" /\ low = "close" -> Res!KeepAlive(r, FALSE)
          [] value = "" /\ version = 11 -> Res!KeepAlive(r, TRUE)
          [] OTHER -> r
  BY <1>1, <1>2 DEF Res!Connected
<1>6. Settle(es, version) = (IF Stays(value, version) THEN Set(es, "Connection", "keep-alive")
                             ELSE IF Ends(value) THEN Set(es, "Connection", "close") ELSE es)
  BY DEF Settle
<1>7. /\ Stays(value, version) <=> (value # "" /\ low = "keep-alive") \/ (value = "" /\ version = 11)
      /\ Ends(value) <=> value # "" /\ low = "close"
  BY DEF Stays, Ends
<1> DEFINE on == Res!KeepAlive(r, TRUE)
           off == Res!KeepAlive(r, FALSE)
           connected == Res!Connected(r)
<1> HIDE DEF value, low, on, off, connected
<1>8. connected = IF Stays(value, version) THEN on ELSE IF Ends(value) THEN off ELSE r
  <2> HIDE DEF r
  <2>1. CASE value # "" /\ low = "keep-alive"
    BY <1>5, <1>7, <2>1 DEF on, off, connected
  <2>2. CASE value # "" /\ low = "close"
    BY <1>5, <1>7, <2>2 DEF on, off, connected
  <2>3. CASE value = "" /\ version = 11
    BY <1>5, <1>7, <2>3 DEF on, off, connected
  <2>4. CASE ~ (value # "" /\ low \in {"keep-alive", "close"}) /\ ~ (value = "" /\ version = 11)
    BY <1>5, <1>7, <2>4 DEF on, off, connected
  <2> QED
    BY <2>1, <2>2, <2>3, <2>4
<1> QED
  BY <1>3, <1>4, <1>6, <1>8 DEF on, off, connected

\* A response that is read from a text, if it is one, and what is left where it is not.
LEMMA ResDeserialized ==
    ASSUME NEW r, NEW t
    PROVE  LET n == t.start[1]
               u == t.start[2]
               a == t.start[3]
           IN  Res!ReadFrom(r, t) =
                 IF t.start = <<>> \/ Res!BadNumber \in {n, u} THEN [ok |-> FALSE, object |-> Res!Fresh]
                 ELSE IF ~ t.ended
                      THEN [ok |-> FALSE, object |-> Answer(Res!ToStatus(u), a, "", <<>>, n)]
                 ELSE IF Unbroken(t.lines) # t.lines
                      THEN [ok |-> FALSE, object |-> Answer(Res!ToStatus(u), a, "", Headed(t.lines), n)]
                 ELSE [ok |-> TRUE,
                       object |-> Answer(Res!ToStatus(u), a, t.body, Settle(Fill(Headed(t.lines), t.body), n), n)]
<1> DEFINE n == t.start[1]
           u == t.start[2]
           a == t.start[3]
           v == Res!ToStatus(u)
           started == Res!Reason(Res!StatusCode(Res!Version(Res!Clear(r), n), u), a)
           headed == [started EXCEPT !.entries = Res!SetAll(@, Res!Readable(t.lines))]
           filled == IF t.body = NoBody THEN headed ELSE Res!Body(headed, t.body)
           es == Fill(Headed(t.lines), t.body)
           nothing == <<>>
<1>1. started = Answer(v, a, NoBody, nothing, n)
  BY ResStarted
<1>2. headed = Answer(v, a, NoBody, Headed(t.lines), n)
  <2> DEFINE hs == Headed(t.lines)
  <2>1. started.entries = <<>>
    BY <1>1 DEF Answer
  <2>2. Res!SetAll(started.entries, Res!Readable(t.lines)) = hs
    BY <2>1, ResSame, ReadableSame DEF Headed
  <2>3. headed = [started EXCEPT !.entries = hs]
    BY <2>2
  <2> HIDE DEF hs, nothing, started
  <2> QED
    BY <1>1, <2>3 DEF Answer, hs
<1> HIDE DEF headed
<1>3. filled = Answer(v, a, t.body, es, n)
  BY <1>2, ResFilled
<1> HIDE DEF filled, es
<1>4. Res!Connected(filled) = Answer(v, a, t.body, Settle(es, n), n)
  BY <1>3, ResConnected
<1> DEFINE bad == Res!BadNumber \in {n, u}
           cut == ~ t.ended
           broken == Unbroken(t.lines) # t.lines
           failed(o) == [ok |-> FALSE, object |-> o]
           done == [ok |-> TRUE, object |-> Res!Connected(filled)]
           result == Res!ReadFrom(r, t)
           fresh == failed(Res!Fresh)
           stopped == failed(started)
           torn == failed(headed)
<1>5. result =
        CASE t.start = <<>> -> fresh
          [] t.start # <<>> /\ bad -> fresh
          [] OTHER -> CASE cut -> stopped [] t.ended /\ broken -> torn [] OTHER -> done
  BY ReadableSame DEF Res!ReadFrom, filled, headed, Res!Clear, NoBody
<1> HIDE DEF done, fresh, stopped, torn, result
<1> HIDE DEF bad, broken
<1>7. result = IF t.start = <<>> \/ bad THEN fresh
               ELSE IF cut THEN stopped ELSE IF broken THEN torn ELSE done
  <2>1. CASE t.start = <<>>
    BY <1>5, <2>1
  <2>2. CASE t.start # <<>> /\ bad
    BY <1>5, <2>2
  <2>3. CASE t.start # <<>> /\ ~ bad
    <3>1. result = CASE cut -> stopped [] t.ended /\ broken -> torn [] OTHER -> done
      BY <1>5, <2>3
    <3>2. CASE cut
      <4>1. ~ (t.ended /\ broken)
        BY <3>2
      <4> QED
        BY <2>3, <3>1, <3>2, <4>1
    <3>3. CASE ~ cut
      BY <2>3, <3>1, <3>3
    <3> QED
      BY <3>2, <3>3
  <2> QED
    BY <2>1, <2>2, <2>3
<1> HIDE DEF started
<1> QED
  BY <1>1, <1>2, <1>4, <1>7 DEF bad, broken, done, fresh, stopped, torn, result, es, NoBody, nothing

LEMMA ResAsyncRead ==
    ASSUME NEW r, NEW m
    PROVE  LET on == IF m.keepAlive THEN "keep-alive" ELSE "close"
           IN  Res!AsyncRead(r, m) =
                 Answer(m.status, Res!ReasonOf(m.status), m.body,
                       Set(Fill(SetAll(<<>>, m.fields), m.body), "Connection", on), m.version)
<1> DEFINE a == Res!ReasonOf(m.status)
           n == m.version
           v == m.status
           on == IF m.keepAlive THEN "keep-alive" ELSE "close"
           started == Res!Status(Res!Version(Res!Clear(r), n), v)
           headed == [started EXCEPT !.entries = Res!SetAll(@, m.fields)]
           filled == IF m.body = NoBody THEN headed ELSE Res!Body(headed, m.body)
           hs == SetAll(<<>>, m.fields)
           es == Fill(hs, m.body)
           nothing == <<>>
<1>1. started = Answer(v, a, NoBody, nothing, n)
  BY ResStarted
<1>2. headed = Answer(v, a, NoBody, hs, n)
  <2>1. started.entries = <<>>
    BY <1>1 DEF Answer
  <2>2. Res!SetAll(started.entries, m.fields) = hs
    BY <2>1, ResSame
  <2>3. headed = [started EXCEPT !.entries = hs]
    BY <2>2
  <2> HIDE DEF hs, nothing, started
  <2> QED
    BY <1>1, <2>3 DEF Answer
<1> HIDE DEF headed, hs
<1>3. filled = Answer(v, a, m.body, es, n)
  BY <1>2, ResFilled
<1>4. Res!AsyncRead(r, m) = Res!SetName(filled, "Connection", on)
  BY DEF Res!AsyncRead, Res!KeepAlive, headed, NoBody
<1> HIDE DEF filled, es, on
<1>5. Res!SetName(filled, "Connection", on) = Answer(v, a, m.body, Set(es, "Connection", on), n)
  BY <1>3, ResSet
<1> QED
  BY <1>4, <1>5 DEF es, hs, on

LEMMA AnswerFine ==
    ASSUME NEW r \in Responses, NEW v \in Res!Statuses, NEW text \in STRING,
           NEW body \in Bytes, NEW es, Reads(es, body), NEW version \in Digits
    PROVE  ResFine(r, Answer(v, text, body, es, version))
<1> DEFINE q == Answer(v, text, body, es, version)
<1>1. es \in Seq(Good) /\ Once(es) /\ Counts(es, body)
  BY DEF Reads
<1>2. q \in Responses /\ q.entries = es /\ q.body = body
  BY <1>1 DEF Answer, Responses
<1> QED
  BY <1>1, <1>2 DEF ResFine, Step, Edit

LEMMA ResDeserializeFine ==
    ASSUME NEW r \in Responses, NEW text \in ResponseTexts
    PROVE  ResFine(r, Res!Deserialize(r, text).object)
<1> DEFINE t == Res!Scan(text)
           n == t.start[1]
           u == t.start[2]
           a == t.start[3]
           v == Res!ToStatus(u)
           q == Res!ReadFrom(r, t)
           settled == Settle(Fill(Headed(t.lines), t.body), n)
<1>0. t \in {Res!Scan(x) : x \in ResponseTexts}
  OBVIOUS
<1> HIDE DEF t
<1>1. t.lines \in Trimmed /\ t.body \in Bytes
  BY <1>0, TextFacts, SizeFacts
<1>2. ResFine(r, Res!Fresh)
  BY ResFresh
<1>3. ASSUME t.start # <<>>, Res!BadNumber \notin {n, u} PROVE a \in STRING /\ n \in Digits /\ v \in Res!Statuses
  <2>1. t.start \in ResponseStarts
    BY <1>0, TextFacts
  <2> QED
    BY <1>3, <2>1, StatusTypes DEF ResponseStarts
<1>4. Reads(<<>>, "") /\ Reads(Headed(t.lines), "") /\ "" \in Bytes
  BY <1>1, NothingReads, HeadedFacts, EmptyFacts
<1>5. Reads(settled, t.body)
  BY <1>1, HeadedFacts, FillFacts, SettleFacts
<1> DEFINE stopped == Answer(v, a, "", <<>>, n)
           torn == Answer(v, a, "", Headed(t.lines), n)
           done == Answer(v, a, t.body, settled, n)
           bad == t.start = <<>> \/ Res!BadNumber \in {n, u}
<1>6. ASSUME ~ bad PROVE ResFine(r, stopped) /\ ResFine(r, torn) /\ ResFine(r, done)
  <2>1. a \in STRING /\ n \in Digits /\ v \in Res!Statuses
    BY <1>3, <1>6
  <2> HIDE DEF a, u, n, v, settled
  <2> QED
    BY <1>1, <1>4, <1>5, <2>1, AnswerFine
<1>7. q.object \in {Res!Fresh} \/ (~ bad /\ q.object \in {stopped, torn, done})
  <2> DEFINE cut == ~ t.ended
             broken == Unbroken(t.lines) # t.lines
  <2>1. q = IF bad THEN [ok |-> FALSE, object |-> Res!Fresh]
            ELSE IF cut THEN [ok |-> FALSE, object |-> stopped]
            ELSE IF broken THEN [ok |-> FALSE, object |-> torn]
            ELSE [ok |-> TRUE, object |-> done]
    BY ResDeserialized
  <2> HIDE DEF q, bad, cut, broken, stopped, torn, done
  <2> QED
    BY <2>1
<1> HIDE DEF q, bad, stopped, torn, done
<1> QED
  BY <1>2, <1>6, <1>7 DEF q, t, Res!Deserialize

LEMMA ResAsyncFine ==
    ASSUME NEW r \in Responses, NEW m \in ResponseMessages
    PROVE  ResFine(r, Res!AsyncRead(r, m))
<1> DEFINE on == IF m.keepAlive THEN "keep-alive" ELSE "close"
           es == Fill(SetAll(<<>>, m.fields), m.body)
           fs == Set(es, "Connection", on)
           v == m.status
           a == Res!ReasonOf(v)
<1>1. /\ a \in STRING /\ m.version \in Digits /\ m.body \in Bytes
      /\ m.fields \in Seq(Parsed) /\ v \in Res!Statuses /\ on \in Values
  <2>1. on \in Values
    BY Fixed
  <2>2. a \in STRING
    BY StatusTypes
  <2> HIDE DEF on, a
  <2>3. v \in Res!Statuses /\ m.version \in Digits /\ m.fields \in Seq(Parsed)
    BY TextFacts
  <2> QED
    BY <2>1, <2>2, <2>3, SizeFacts
<1>2. Reads(es, m.body)
  BY <1>1, SettableFields, AllOnce, FillFacts
<1> HIDE DEF es, on
<1>3. Reads(fs, m.body)
  BY <1>1, <1>2, KeepFacts
<1> HIDE DEF fs, a
<1>4. ResFine(r, Answer(v, a, m.body, fs, m.version))
  BY <1>1, <1>3, AnswerFine
<1> QED
  BY <1>4, ResAsyncRead DEF es, fs, on, v, a

LEMMA ResCalls ==
    ASSUME NEW r \in Responses
    PROVE  /\ \A f \in OwnFields, value \in Values :
                /\ ResFine(r, Res!SetField(r, f, value)) /\ ResFine(r, Res!EraseField(r, f))
                /\ ResFine(r, Res!EraseFieldValue(r, f, value))
           /\ \A n \in Lengths : ResFine(r, Res!ContentLength(r, n))
           /\ \A on \in BOOLEAN : ResFine(r, Res!KeepAlive(r, on))
           /\ \A b \in Bodies : ResFine(r, Res!Body(r, b))
           /\ ResFine(r, Res!Clear(r))
<1>1. ResFine(r, r)
  BY DEF ResFine, Step, Edit
<1>2. ASSUME NEW f \in OwnFields, NEW value \in Values
      PROVE  /\ ResFine(r, Res!SetField(r, f, value)) /\ ResFine(r, Res!EraseField(r, f))
             /\ ResFine(r, Res!EraseFieldValue(r, f, value))
  <2>1. f \in DOMAIN Res!FieldNames => Res!FieldNames[f] \in Names
    BY MessageAssumption, ZenonT(60)
  <2>2. CASE f \in DOMAIN Res!FieldNames
    BY <2>1, <2>2, ResNames DEF Res!SetField, Res!EraseField, Res!EraseFieldValue
  <2>3. CASE f \notin DOMAIN Res!FieldNames
    BY <1>1, <2>3 DEF Res!SetField, Res!EraseField, Res!EraseFieldValue
  <2> QED
    BY <2>2, <2>3
<1>3. ASSUME NEW n \in Lengths PROVE ResFine(r, Res!ContentLength(r, n))
  <2>1. Res!Decimal(n) = Decimal(n)
    BY ResSame
  <2> QED
    BY <2>1, SizeFacts, Fixed, ResNames DEF Res!ContentLength
<1>4. ASSUME NEW on \in BOOLEAN PROVE ResFine(r, Res!KeepAlive(r, on))
  BY Fixed, ResNames DEF Res!KeepAlive
<1>5. \A b \in Bodies : ResFine(r, Res!Body(r, b))
  BY SizeFacts, ResBody
<1>6. ResFine(r, Res!Clear(r))
  BY ResFresh DEF Res!Clear
<1> QED
  BY <1>2, <1>3, <1>4, <1>5, <1>6

-------------------------------------------------------------------------------
\* Every step keeps the invariant, edits the entries in one of the known ways, and
\* counts a new body.
Fine == Inv' /\ Step(msg, msg')

LEMMA InitInv == Init => Inv
<1> SUFFICES ASSUME Init PROVE Inv
  OBVIOUS
<1>1. "get" \in Req!Verbs /\ 200 \in Res!Statuses
  BY DEF Req!Verbs, Req!VerbNames, Res!Statuses
<1>2. Req!Fresh \in Requests
  BY <1>1, EmptyFacts DEF Req!Fresh, Requests
<1>3. Res!Fresh \in Responses
  BY <1>1, EmptyFacts DEF Res!Fresh, Responses
<1> QED
  BY <1>2, <1>3 DEF Init, Inv

LEMMA Goes ==
    ASSUME Inv, UNCHANGED kind,
           kind = "request" => ReqFine(msg, msg'), kind = "response" => ResFine(msg, msg')
    PROVE  Fine
<1>1. CASE kind = "request"
  <2>1. msg' \in Requests /\ Step(msg, msg')
    BY <1>1 DEF ReqFine
  <2> QED
    BY <1>1, <2>1 DEF Fine, Inv
<1>2. CASE kind = "response"
  <2>1. msg' \in Responses /\ Step(msg, msg')
    BY <1>2 DEF ResFine
  <2> QED
    BY <1>2, <2>1 DEF Fine, Inv
<1> QED
  BY <1>1, <1>2 DEF Inv

LEMMA BothFine ==
    /\ kind = "request" /\ Inv => msg \in Requests
    /\ kind = "response" /\ Inv => msg \in Responses
BY DEF Inv

LEMMA NameSteps ==
    ASSUME Inv, NEW name \in Fields
    PROVE  /\ \A value \in FieldValues :
                SetName(name, value) \/ HeaderConstruct(name, value) \/ EraseNameValue(name, value) => Fine
           /\ EraseName(name) => Fine
<1>1. name \in Names /\ FieldValues \subseteq Values
  BY MessageAssumption, ZenonT(60)
<1>2. ASSUME NEW value \in Values,
             SetName(name, value) \/ HeaderConstruct(name, value) \/ EraseNameValue(name, value) \/ EraseName(name)
      PROVE  Fine
  <2>1. kind = "request" => ReqFine(msg, msg')
    BY <1>1, <1>2, BothFine, ReqNames DEF SetName, EraseNameValue, HeaderConstruct, EraseName, Becomes
  <2>2. kind = "response" => ResFine(msg, msg')
    BY <1>1, <1>2, BothFine, ResNames DEF SetName, EraseNameValue, HeaderConstruct, EraseName, Becomes
  <2>3. UNCHANGED kind
    BY <1>2 DEF SetName, EraseNameValue, HeaderConstruct, EraseName, Becomes
  <2> QED
    BY <2>1, <2>2, <2>3, Goes
<1> QED
  BY <1>1, <1>2, Fixed

LEMMA FieldSteps ==
    ASSUME Inv, NEW f \in OwnFields
    PROVE  /\ \A value \in FieldValues : ByField(f, value) => Fine
           /\ EraseField(f) => Fine
<1>1. FieldValues \subseteq Values
  BY MessageAssumption
<1>2. ASSUME NEW value \in Values, ByField(f, value) \/ EraseField(f) PROVE Fine
  <2>1. kind = "request" => ReqFine(msg, msg')
    BY <1>2, BothFine, ReqCalls DEF ByField, EraseField, Becomes
  <2>2. kind = "response" => ResFine(msg, msg')
    BY <1>2, BothFine, ResCalls DEF ByField, EraseField, Becomes
  <2>3. UNCHANGED kind
    BY <1>2 DEF ByField, EraseField, Becomes
  <2> QED
    BY <2>1, <2>2, <2>3, Goes
<1> QED
  BY <1>1, <1>2, Fixed

LEMMA OtherSteps ==
    ASSUME Inv
    PROVE  /\ HeaderClear \/ Clear => Fine
           /\ \A n \in Lengths : ContentLength(n) => Fine
           /\ \A bytes \in Bodies : Body(bytes) => Fine
           /\ \A on \in BOOLEAN : KeepAlive(on) => Fine
           /\ \A v \in Versions : Version(v) => Fine
<1>1. Versions \subseteq Digits
  BY MessageAssumption
<1>2. ASSUME HeaderClear \/ Clear PROVE Fine
  <2>1. kind = "request" => ReqFine(msg, msg')
    BY <1>2, BothFine, ReqCalls, ReqMembers DEF HeaderClear, Clear, Becomes
  <2>2. kind = "response" => ResFine(msg, msg')
    BY <1>2, BothFine, ResCalls, ResMembers DEF HeaderClear, Clear, Becomes
  <2>3. UNCHANGED kind
    BY <1>2 DEF HeaderClear, Clear, Becomes
  <2> QED
    BY <2>1, <2>2, <2>3, Goes
<1>3. ASSUME NEW n \in Lengths, ContentLength(n) PROVE Fine
  <2>1. kind = "request" => ReqFine(msg, msg')
    BY <1>3, BothFine, ReqCalls DEF ContentLength, Becomes
  <2>2. kind = "response" => ResFine(msg, msg')
    BY <1>3, BothFine, ResCalls DEF ContentLength, Becomes
  <2>3. UNCHANGED kind
    BY <1>3 DEF ContentLength, Becomes
  <2> QED
    BY <2>1, <2>2, <2>3, Goes
<1>4. ASSUME NEW bytes \in Bodies, Body(bytes) PROVE Fine
  <2>1. kind = "request" => ReqFine(msg, msg')
    BY <1>4, BothFine, ReqCalls DEF Body, Becomes
  <2>2. kind = "response" => ResFine(msg, msg')
    BY <1>4, BothFine, ResCalls DEF Body, Becomes
  <2>3. UNCHANGED kind
    BY <1>4 DEF Body, Becomes
  <2> QED
    BY <2>1, <2>2, <2>3, Goes
<1>5. ASSUME NEW on \in BOOLEAN, KeepAlive(on) PROVE Fine
  <2>1. kind = "request" => ReqFine(msg, msg')
    BY <1>5, BothFine, ReqCalls DEF KeepAlive, Becomes
  <2>2. kind = "response" => ResFine(msg, msg')
    BY <1>5, BothFine, ResCalls DEF KeepAlive, Becomes
  <2>3. UNCHANGED kind
    BY <1>5 DEF KeepAlive, Becomes
  <2> QED
    BY <2>1, <2>2, <2>3, Goes
<1>6. ASSUME NEW v \in Versions, Version(v) PROVE Fine
  <2>1. kind = "request" => ReqFine(msg, msg')
    BY <1>1, <1>6, BothFine, ReqMembers DEF Version, Becomes
  <2>2. kind = "response" => ResFine(msg, msg')
    BY <1>1, <1>6, BothFine, ResMembers DEF Version, Becomes
  <2>3. UNCHANGED kind
    BY <1>6 DEF Version, Becomes
  <2> QED
    BY <2>1, <2>2, <2>3, Goes
<1> QED
  BY <1>2, <1>3, <1>4, <1>5, <1>6

LEMMA ClassSteps ==
    ASSUME Inv
    PROVE  OfRequest \/ OfResponse => Fine
<1>1. /\ OwnVerbs \subseteq Req!Verbs /\ OwnStatuses \subseteq Res!Statuses
      /\ \A text \in MethodTexts \cup Targets \cup Phrases : text \in STRING
  BY MessageAssumption, ZenonT(60)
<1>2. CASE OfRequest
  <2>1. msg \in Requests /\ kind = "request" /\ UNCHANGED kind
    BY <1>2, BothFine DEF OfRequest
  <2>2. /\ \A v \in OwnVerbs : ReqFine(msg, Req!Method(msg, v))
        /\ \A text \in MethodTexts : ReqFine(msg, Req!MethodString(msg, text))
        /\ \A text \in Targets : ReqFine(msg, Req!Target(msg, text))
        /\ \A text \in RequestTexts : ReqFine(msg, Req!Deserialize(msg, text).object)
        /\ \A message \in RequestMessages : ReqFine(msg, Req!AsyncRead(msg, message))
    BY <1>1, <2>1, ReqMembers, ReqDeserializeFine, ReqAsyncFine
  <2>3. ReqFine(msg, msg')
    BY <1>2, <2>2 DEF OfRequest
  <2> QED
    BY <2>1, <2>3, Goes
<1>3. CASE OfResponse
  <2>1. msg \in Responses /\ kind = "response" /\ UNCHANGED kind
    BY <1>3, BothFine DEF OfResponse
  <2>2. /\ \A code \in OwnStatuses : ResFine(msg, Res!Status(msg, code))
        /\ \A code \in Codes : ResFine(msg, Res!StatusCode(msg, code))
        /\ \A text \in Phrases : ResFine(msg, Res!Reason(msg, text))
        /\ \A text \in ResponseTexts : ResFine(msg, Res!Deserialize(msg, text).object)
        /\ \A message \in ResponseMessages : ResFine(msg, Res!AsyncRead(msg, message))
    BY <1>1, <2>1, ResMembers, ResDeserializeFine, ResAsyncFine
  <2>3. ResFine(msg, msg')
    BY <1>3, <2>2 DEF OfResponse
  <2> QED
    BY <2>1, <2>3, Goes
<1> QED
  BY <1>2, <1>3

LEMMA StepInv == Inv /\ [Next]_vars => Fine
<1> SUFFICES ASSUME Inv, [Next]_vars PROVE Fine
  OBVIOUS
<1>1. CASE UNCHANGED vars
  <2>1. Inv' /\ msg' = msg
    BY <1>1 DEF vars, Inv, Requests, Responses
  <2> QED
    BY <2>1 DEF Fine, Step, Edit
<1>2. CASE Next
  BY <1>2, NameSteps, FieldSteps, OtherSteps, ClassSteps DEF Next
<1> QED
  BY <1>1, <1>2

-------------------------------------------------------------------------------
LEMMA Inductive == Spec => []Inv
<1>1. Inv /\ [Next]_vars => Inv'
  BY StepInv DEF Fine
<1> QED
  BY InitInv, <1>1, PTL DEF Spec

\* What the objects hold has its type, and every entry is one that can be found by its
\* name or one that nothing finds.
THEOREM TypeCorrect == Spec => []TypeOK
<1>1. Inv => TypeOK
  <2> SUFFICES ASSUME Inv PROVE TypeOK
    OBVIOUS
  <2>1. Bytes \subseteq STRING /\ Digits \subseteq Nat
    <3>1. \A A, B : {b \in STRING : b \in A \/ Decimal(Len(b)) \in B} \subseteq STRING
      OBVIOUS
    <3>2. Bytes = {b \in STRING : b \in {""} \/ Decimal(Len(b)) \in Given}
      BY DEF Bytes
    <3>3. Bytes \subseteq STRING
      BY <3>1, <3>2
    <3>4. Digits \subseteq Nat
      BY DEF Digits
    <3> QED
      BY <3>3, <3>4
  <2>2. ASSUME NEW es \in Seq(Good)
        PROVE  /\ es \in Seq(Entries)
               /\ \A i \in DOMAIN es : LET e == es[i] IN
                    \/ e.name = "" /\ e.value = ""
                    \/ e.name \in Names /\ e.key = Key(e.name)
    BY SeqOfEntries DEF Good
  <2>3. msg.entries \in Seq(Good)
    BY DEF Inv, Requests, Responses
  <2>4. msg \in IF kind = "request"
                THEN [method : Req!Verbs, methodString : STRING, target : STRING, body : STRING,
                      entries : Seq(Entries), version : Nat]
                ELSE [status : Res!Statuses, reason : STRING, body : STRING,
                      entries : Seq(Entries), version : Nat]
    <3>1. msg.entries \in Seq(Entries)
      BY <2>2, <2>3
    <3>2. CASE kind = "request"
      BY <2>1, <3>1, <3>2 DEF Inv, Requests
    <3>3. CASE kind = "response"
      BY <2>1, <3>1, <3>3 DEF Inv, Responses
    <3> QED
      BY <3>2, <3>3 DEF Inv
  <2> QED
    BY <2>2, <2>3, <2>4 DEF TypeOK
<1> QED
  BY Inductive, <1>1, PTL

\* The line that a counted body is written with.
LEMMA CountedLine ==
    ASSUME NEW es \in Seq(Good), NEW body, body # NoBody, Counts(es, body)
    PROVE  LinesOf(Shown(es), Key("Content-Length"))
             = <<[name |-> "Content-Length", value |-> Decimal(Len(body))]>>
<1> DEFINE k == Key("Content-Length")
           d == Decimal(Len(body))
           n == "Content-Length"
<1>1. Spelt(es, k, n) /\ ValuesOf(es, k) = <<d>>
  BY DEF Counts, NoBody
<1>2. k \in Keys
  BY Fixed
<1>3. LinesOf(Shown(es), k) = Of(Shown(es), k)
  BY DEF LinesOf, Of
<1> HIDE DEF k, d, n
<1>4. Of(Shown(es), k) = <<[name |-> n, value |-> d]>>
  BY <1>1, <1>2, OneLine
<1> QED
  BY <1>3, <1>4 DEF k, d, n

\* Whatever a message held, another body leaves it with one Content-Length to write,
\* which is the size of that body: no duplicate and no other spelling of the name
\* survives in what serialize writes.
THEOREM BodiesAreCounted == Spec => BodyCounted
<1>1. Inv /\ [Next]_vars => [msg'.body # msg.body /\ msg'.body # "" =>
        LinesOf(Shown(msg'.entries), Key("Content-Length"))
            = <<[name |-> "Content-Length", value |-> Decimal(Len(msg'.body))]>>]_vars
  <2> SUFFICES ASSUME Inv, [Next]_vars, msg'.body # msg.body, msg'.body # NoBody
               PROVE  LinesOf(Shown(msg'.entries), Key("Content-Length"))
                        = <<[name |-> "Content-Length", value |-> Decimal(Len(msg'.body))]>>
    BY DEF NoBody
  <2>1. Inv' /\ Counts(msg'.entries, msg'.body)
    BY StepInv DEF Fine, Step
  <2>2. msg'.entries \in Seq(Good)
    BY <2>1 DEF Inv, Requests, Responses
  <2> QED
    BY <2>1, <2>2, CountedLine
<1> QED
  BY Inductive, <1>1, PTL DEF Spec, BodyCounted

\* What a call does to the mapping.
MapOf(es) == [k \in Keys |-> ValuesOf(es, k)]

LEMMA MapEdits ==
    ASSUME NEW es, NEW fs, NEW j \in Keys, NEW v, Others(es, fs, j)
    PROVE  /\ ValuesOf(fs, j) = <<>> => MapOf(fs) = Promise!Drop(MapOf(es), j)
           /\ ValuesOf(fs, j) = Single(v) => MapOf(fs) = Promise!Put(MapOf(es), j, v)
           /\ ValuesOf(fs, j) = ValuesOf(es, j) \o Single(v) => MapOf(fs) = Promise!Add(MapOf(es), j, v)
           /\ ValuesOf(fs, j) = Without(ValuesOf(es, j), v) => MapOf(fs) = Promise!DropValue(MapOf(es), j, v)
<1> DEFINE F == MapOf(es)
           G == MapOf(fs)
           has == ValuesOf(fs, j)
<1>1. G = [F EXCEPT ![j] = has] /\ F[j] = ValuesOf(es, j)
  <2>1. \A k \in Keys : G[k] = IF k = j THEN has ELSE F[k]
    BY DEF MapOf, Others
  <2>2. DOMAIN F = Keys /\ DOMAIN G = Keys /\ G = [k \in Keys |-> G[k]] /\ F[j] = ValuesOf(es, j)
    BY DEF MapOf
  <2> HIDE DEF F, G, has
  <2> QED
    BY <2>1, <2>2
<1>2. Promise!Only(v) = Single(v)
  BY DEF Promise!Only, Single
<1> HIDE DEF F, G, has
<1>3. has = <<>> => G = Promise!Drop(F, j)
  BY <1>1 DEF Promise!Drop
<1>4. has = Single(v) => G = Promise!Put(F, j, v)
  BY <1>1, <1>2 DEF Promise!Put
<1>5. has = ValuesOf(es, j) \o Single(v) => G = Promise!Add(F, j, v)
  BY <1>1, <1>2 DEF Promise!Add
<1>6. has = Without(ValuesOf(es, j), v) => G = Promise!DropValue(F, j, v)
  <2>1. \A t, I : Promise!Chosen(t, I) = Chosen(t, I)
    BY DEF Promise!Chosen, Chosen
  <2> QED
    BY <1>1, <2>1 DEF Promise!DropValue, Without
<1> QED
  BY <1>3, <1>4, <1>5, <1>6 DEF F, G, has

LEMMA CallFacts ==
    ASSUME NEW es \in Seq(Good), NEW name \in Names, NEW value \in Values
    PROVE  /\ MapOf(Set(es, name, value)) = Promise!Put(MapOf(es), Key(name), value)
           /\ MapOf(Construct(es, name, value)) = Promise!Add(MapOf(es), Key(name), value)
           /\ MapOf(EraseValue(es, name, value)) = Promise!DropValue(MapOf(es), Key(name), value)
           /\ MapOf(Erase(es, name)) = Promise!Drop(MapOf(es), Key(name))
<1> DEFINE j == Key(name)
<1>1. j \in Keys /\ Key(j) = Key(name) /\ \A k \in Keys : Key(k) = k
  BY KeyFacts
<1>2. MapOf(Set(es, name, value)) = Promise!Put(MapOf(es), j, value)
  <2> DEFINE fs == Set(es, name, value)
  <2>1. ValuesOf(fs, j) = Single(value)
    BY <1>1, SetOwn
  <2>2. ASSUME NEW k \in Keys \ {j} PROVE ValuesOf(fs, k) = ValuesOf(es, k)
    <3>1. Key(k) # Key(name)
      BY <1>1
    <3> QED
      BY <3>1, SetOther
  <2> HIDE DEF fs, j
  <2>3. Others(es, fs, j)
    BY <2>2 DEF Others
  <2> QED
    BY <1>1, <2>1, <2>3, MapEdits DEF fs
<1>3. MapOf(Construct(es, name, value)) = Promise!Add(MapOf(es), j, value)
  <2> DEFINE fs == Construct(es, name, value)
  <2>1. \A k \in Keys : ValuesOf(fs, k) = IF k = j THEN ValuesOf(es, k) \o Single(value) ELSE ValuesOf(es, k)
    BY ConstructFacts
  <2> HIDE DEF fs, j
  <2>2. Others(es, fs, j) /\ ValuesOf(fs, j) = ValuesOf(es, j) \o Single(value)
    BY <1>1, <2>1 DEF Others
  <2> QED
    BY <1>1, <2>2, MapEdits DEF fs
<1>4. MapOf(EraseValue(es, name, value)) = Promise!DropValue(MapOf(es), j, value)
  <2> DEFINE fs == EraseValue(es, name, value)
  <2>1. \A k : ValuesOf(fs, k) = IF Key(k) = Key(name) THEN Without(ValuesOf(es, k), value) ELSE ValuesOf(es, k)
    BY EraseValueFacts
  <2> HIDE DEF fs
  <2>2. Others(es, fs, j) /\ ValuesOf(fs, j) = Without(ValuesOf(es, j), value)
    BY <1>1, <2>1 DEF Others
  <2> HIDE DEF j
  <2> QED
    BY <1>1, <2>2, MapEdits DEF fs
<1>5. MapOf(Erase(es, name)) = Promise!Drop(MapOf(es), j)
  <2> DEFINE fs == Erase(es, name)
  <2>1. \A k : ValuesOf(fs, k) = IF Key(k) = Key(name) THEN <<>> ELSE ValuesOf(es, k)
    BY EraseFacts
  <2> HIDE DEF fs
  <2>2. Others(es, fs, j) /\ ValuesOf(fs, j) = <<>>
    BY <1>1, <2>1 DEF Others
  <2> HIDE DEF j
  <2> QED
    BY <1>1, <2>2, MapEdits DEF fs
<1> QED
  BY <1>2, <1>3, <1>4, <1>5

\* What a call leaves in the vector.
LEMMA NameCalls ==
    ASSUME Inv, NEW name, NEW value
    PROVE  /\ SetName(name, value) => msg'.entries = Set(msg.entries, name, value)
           /\ HeaderConstruct(name, value) => msg'.entries = Construct(msg.entries, name, value)
           /\ EraseNameValue(name, value) => msg'.entries = EraseValue(msg.entries, name, value)
           /\ EraseName(name) => msg'.entries = Erase(msg.entries, name)
<1>1. ASSUME NEW fs, msg' = [msg EXCEPT !.entries = fs] PROVE msg'.entries = fs
  BY <1>1 DEF Inv, Requests, Responses
<1>2. SetName(name, value) => msg' = [msg EXCEPT !.entries = Set(msg.entries, name, value)]
  BY ReqSame, ResSame DEF SetName, Becomes, Req!SetName, Res!SetName
<1>3. HeaderConstruct(name, value) => msg' = [msg EXCEPT !.entries = Construct(msg.entries, name, value)]
  BY ReqSame, ResSame DEF HeaderConstruct, Becomes, Req!HeaderConstruct, Res!HeaderConstruct
<1>4. EraseNameValue(name, value) => msg' = [msg EXCEPT !.entries = EraseValue(msg.entries, name, value)]
  BY ReqSame, ResSame DEF EraseNameValue, Becomes, Req!EraseNameValue, Res!EraseNameValue
<1>5. EraseName(name) => msg' = [msg EXCEPT !.entries = Erase(msg.entries, name)]
  BY ReqSame, ResSame DEF EraseName, Becomes, Req!EraseName, Res!EraseName
<1> QED
  BY <1>1, <1>2, <1>3, <1>4, <1>5

\* Whatever duplicates and emptied entries the vector has, set leaves the name it is
\* given the one value, construct adds one, erase takes them all or those of one value,
\* and none of them touches another name.
THEOREM CallsKeepThePromise == Spec => CallsAreKept
<1>1. Inv /\ [Next]_vars =>
        [\A name \in Fields :
            /\ EraseName(name) => Map' = Promise!Drop(Map, Key(name))
            /\ \A value \in FieldValues :
                /\ SetName(name, value) => Map' = Promise!Put(Map, Key(name), value)
                /\ HeaderConstruct(name, value) => Map' = Promise!Add(Map, Key(name), value)
                /\ EraseNameValue(name, value) => Map' = Promise!DropValue(Map, Key(name), value)]_vars
  <2> SUFFICES ASSUME Inv, NEW name \in Fields
               PROVE  /\ EraseName(name) => Map' = Promise!Drop(Map, Key(name))
                      /\ \A value \in FieldValues :
                          /\ SetName(name, value) => Map' = Promise!Put(Map, Key(name), value)
                          /\ HeaderConstruct(name, value) => Map' = Promise!Add(Map, Key(name), value)
                          /\ EraseNameValue(name, value) => Map' = Promise!DropValue(Map, Key(name), value)
    OBVIOUS
  <2>1. name \in Names /\ FieldValues \subseteq Values
    BY MessageAssumption, ZenonT(60)
  <2>2. msg.entries \in Seq(Good)
    BY DEF Inv, Requests, Responses
  <2>3. Map = MapOf(msg.entries) /\ Map' = MapOf(msg'.entries)
    BY DEF Map, MapOf, Keys
  <2>4. EraseName(name) => Map' = Promise!Drop(Map, Key(name))
    <3>1. PICK v \in Values : TRUE
      BY Fixed
    <3>2. EraseName(name) => msg'.entries = Erase(msg.entries, name)
      BY NameCalls
    <3>3. MapOf(Erase(msg.entries, name)) = Promise!Drop(MapOf(msg.entries), Key(name))
      BY <2>1, <2>2, <3>1, CallFacts
    <3> QED
      BY <2>3, <3>2, <3>3
  <2>5. ASSUME NEW value \in FieldValues
        PROVE  /\ SetName(name, value) => Map' = Promise!Put(Map, Key(name), value)
               /\ HeaderConstruct(name, value) => Map' = Promise!Add(Map, Key(name), value)
               /\ EraseNameValue(name, value) => Map' = Promise!DropValue(Map, Key(name), value)
    <3>1. value \in Values
      BY <2>1
    <3> QED
      BY <2>1, <2>2, <2>3, <3>1, NameCalls, CallFacts
  <2> QED
    BY <2>4, <2>5
<1> QED
  BY Inductive, <1>1, PTL DEF Spec, CallsAreKept

\* The vector of entries implements a mapping from names to values.
THEOREM FieldsAreAMap == Spec => ImplementsFields
<1>1. Init => Promise!Init
  <2> SUFFICES ASSUME Init PROVE Map = [k \in Keys |-> <<>>]
    BY DEF Promise!Init
  <2>1. Req!Fresh.entries = <<>> /\ Res!Fresh.entries = <<>>
    BY DEF Req!Fresh, Res!Fresh
  <2>2. msg.entries = <<>>
    BY <2>1 DEF Init
  <2> QED
    BY <2>2, ValuesEmpty DEF Map
<1>2. Inv /\ [Next]_vars => [Promise!Next]_Map
  <2> SUFFICES ASSUME Inv, [Next]_vars PROVE Promise!Next \/ Map' = Map
    OBVIOUS
  <2> DEFINE es == msg.entries
             fs == msg'.entries
  <2>1. es \in Seq(Good) /\ Edit(es, fs)
    BY StepInv DEF Fine, Step, Inv, Requests, Responses
  <2>2. Map = MapOf(es) /\ Map' = MapOf(fs)
    BY DEF Map, MapOf, Keys
  <2> HIDE DEF es, fs
  <2>3. CASE fs = es
    BY <2>2, <2>3
  <2>4. CASE Once(fs)
    <3>1. \A v : Promise!Only(v) = Single(v)
      BY DEF Promise!Only, Single
    <3>2. MapOf(fs) \in [Keys -> {Promise!Only(v) : v \in Values}]
      BY <2>4, <3>1 DEF Once, MapOf
    <3> QED
      BY <2>2, <3>2 DEF Promise!Next, Promise!Replace
  <2>5. ASSUME NEW j \in Keys, NEW v \in Values, Others(es, fs, j), Turns(es, fs, j, v)
        PROVE  Promise!Next
    <3>1. MapOf(fs) \in {Promise!Put(MapOf(es), j, v), Promise!Add(MapOf(es), j, v),
                         Promise!Drop(MapOf(es), j), Promise!DropValue(MapOf(es), j, v)}
      BY <2>5, MapEdits DEF Turns
    <3> QED
      BY <2>2, <3>1 DEF Promise!Next
  <2> QED
    BY <2>1, <2>3, <2>4, <2>5, EditFields
<1> QED
  BY Inductive, <1>1, <1>2, PTL DEF Spec, ImplementsFields, Promise!Spec

-------------------------------------------------------------------------------
\* What has been read has an entry with a value for each name, and no two of a name.
Settled(es) ==
    /\ es \in Seq(Good)
    /\ \A i \in 1 .. Len(es) : es[i].value # ""
    /\ \A i, j \in 1 .. Len(es) : es[i].key = es[j].key => i = j
Has(es, name, value) == \E i \in 1 .. Len(es) : es[i] = Entry(name, value)

\* Set adds one entry, or replaces one.
Added(fs, es, e) ==
    /\ Len(fs) = Len(es) + 1 /\ fs[Len(es) + 1] = e
    /\ \A i \in 1 .. Len(es) : fs[i] = es[i] /\ es[i].key # e.key
Replaced(fs, es, e, m) ==
    /\ m \in 1 .. Len(es) /\ Len(fs) = Len(es) /\ fs[m] = e /\ es[m].key = e.key
    /\ \A i \in 1 .. Len(es) : i # m => fs[i] = es[i]

LEMMA SettledSet ==
    ASSUME NEW es, Settled(es), NEW name \in Names, NEW value \in Values
    PROVE  \/ Added(Set(es, name, value), es, Entry(name, value))
           \/ \E m \in 1 .. Len(es) : Replaced(Set(es, name, value), es, Entry(name, value), m)
<1> DEFINE fs == Set(es, name, value)
           e == Entry(name, value)
<1>1. es \in Seq(Good) /\ \A i, j \in 1 .. Len(es) : es[i].key = es[j].key => i = j
  BY DEF Settled
<1>2. /\ Len(es) \in Nat /\ DOMAIN es = 1 .. Len(es) /\ e \in Good /\ e.key = Key(name)
      /\ \A i \in 1 .. Len(es) : es[i] \in Good
  BY <1>1, SeqOfEntries, EntryFacts
<1>3. CASE At(es, name) = {}
  <2>1. fs = Append(es, e)
    BY <1>1, <1>3, SetShape
  <2>2. /\ Len(fs) = Len(es) + 1 /\ fs[Len(es) + 1] = e
        /\ \A i \in 1 .. Len(es) : fs[i] = es[i]
    BY <1>1, <1>2, <2>1, AppendProperties
  <2>3. \A i \in 1 .. Len(es) : es[i].key # e.key
    BY <1>2, <1>3 DEF At
  <2> HIDE DEF fs, e
  <2>4. Added(fs, es, e)
    BY <2>2, <2>3 DEF Added
  <2> QED
    BY <2>4 DEF fs, e
<1>4. CASE At(es, name) # {}
  <2>1. PICK m \in At(es, name) : Overwrites(fs, es, name, value, m)
    BY <1>1, <1>4, SetShape
  <2>2. m \in 1 .. Len(es) /\ es[m].key = e.key /\ \A i \in 1 .. Len(es) : i # m => i \notin At(es, name)
    BY <1>1, <1>2 DEF At
  <2>3. Len(fs) = Len(es) /\ fs[m] = e /\ \A i \in 1 .. Len(es) : i # m => fs[i] = es[i]
    BY <2>1, <2>2 DEF Overwrites
  <2> HIDE DEF fs, e
  <2>4. Replaced(fs, es, e, m)
    BY <2>2, <2>3 DEF Replaced
  <2> QED
    BY <2>2, <2>4 DEF fs, e
<1> QED
  BY <1>3, <1>4

LEMMA SetSettled ==
    ASSUME NEW es, Settled(es), NEW name \in Names, NEW value \in Given
    PROVE  Settled(Set(es, name, value)) /\ Has(Set(es, name, value), name, value)
<1> DEFINE fs == Set(es, name, value)
           e == Entry(name, value)
           N == Len(es)
<1>1. /\ es \in Seq(Good) /\ \A i \in 1 .. N : es[i].value # ""
      /\ \A i, j \in 1 .. N : es[i].key = es[j].key => i = j
  BY DEF Settled
<1>2. value \in Values /\ e.value = value /\ e.value # ""
  BY EntryFacts DEF Given
<1>0. N \in Nat
  BY <1>1, LenProperties
<1>3. fs \in Seq(Good)
  BY <1>1, <1>2, SetShape
<1>4. Added(fs, es, e) \/ \E m \in 1 .. N : Replaced(fs, es, e, m)
  BY <1>2, SettledSet
<1> HIDE DEF fs, e, N
<1>5. CASE Added(fs, es, e)
  <2>1. /\ Len(fs) = N + 1 /\ fs[N + 1] = e
        /\ \A i \in 1 .. N : fs[i] = es[i] /\ es[i].key # e.key
    BY <1>5 DEF Added, N
  <2>2. \A i \in 1 .. N + 1 : i = N + 1 \/ i \in 1 .. N
    BY <1>0
  <2>3. \A i \in 1 .. N + 1 : fs[i].value # ""
    BY <1>1, <1>2, <2>1, <2>2
  <2>4. ASSUME NEW i \in 1 .. N + 1, NEW j \in 1 .. N + 1, fs[i].key = fs[j].key PROVE i = j
    <3>1. CASE i = N + 1
      BY <2>1, <2>2, <2>4, <3>1
    <3>2. CASE j = N + 1
      BY <2>1, <2>2, <2>4, <3>2
    <3>3. CASE i # N + 1 /\ j # N + 1
      BY <1>1, <2>1, <2>2, <2>4, <3>3
    <3> QED
      BY <3>1, <3>2, <3>3
  <2>5. Settled(fs)
    BY <1>3, <2>1, <2>3, <2>4 DEF Settled
  <2>6. N + 1 \in 1 .. Len(fs)
    BY <1>0, <2>1
  <2> QED
    BY <2>1, <2>5, <2>6 DEF Has, fs, e
<1>6. CASE \E m \in 1 .. N : Replaced(fs, es, e, m)
  <2>1. PICK m \in 1 .. N : Replaced(fs, es, e, m)
    BY <1>6
  <2>2. /\ Len(fs) = N /\ fs[m] = e /\ es[m].key = e.key
        /\ \A i \in 1 .. N : i # m => fs[i] = es[i]
    BY <2>1 DEF Replaced, N
  <2>3. \A i \in 1 .. N : fs[i].value # "" /\ fs[i].key = es[i].key
    BY <1>1, <1>2, <2>2
  <2>4. Settled(fs)
    BY <1>1, <1>3, <2>2, <2>3 DEF Settled
  <2> QED
    BY <2>2, <2>4 DEF Has, fs, e
<1> QED
  BY <1>4, <1>5, <1>6

LEMMA SetHas ==
    ASSUME NEW es, Settled(es), NEW name \in Names, NEW value \in Values,
           NEW other, NEW v, Key(other) # Key(name), Has(es, other, v)
    PROVE  Has(Set(es, name, value), other, v)
<1> DEFINE fs == Set(es, name, value)
           e == Entry(name, value)
           o == Entry(other, v)
<1>1. PICK i \in 1 .. Len(es) : es[i] = o
  BY DEF Has
<1>2. o.key # e.key /\ Len(es) \in Nat
  BY LenProperties DEF Entry, Settled
<1>3. Added(fs, es, e) \/ \E m \in 1 .. Len(es) : Replaced(fs, es, e, m)
  BY SettledSet
<1> HIDE DEF fs, e, o
<1>4. i \in 1 .. Len(fs) /\ fs[i] = o
  <2>1. CASE Added(fs, es, e)
    BY <1>1, <1>2, <2>1 DEF Added
  <2>2. CASE \E m \in 1 .. Len(es) : Replaced(fs, es, e, m)
    BY <1>1, <1>2, <2>2 DEF Replaced
  <2> QED
    BY <1>3, <2>1, <2>2
<1> QED
  BY <1>4 DEF Has, fs, o

\* Setting what is there changes nothing.
LEMMA SetSame ==
    ASSUME NEW es, Settled(es), NEW name \in Names, NEW value \in Values, Has(es, name, value)
    PROVE  Set(es, name, value) = es
<1> DEFINE fs == Set(es, name, value)
           e == Entry(name, value)
<1>1. PICK i \in 1 .. Len(es) : es[i] = e
  BY DEF Has
<1>2. /\ es \in Seq(Good) /\ \A j, k \in 1 .. Len(es) : es[j].key = es[k].key => j = k
  BY DEF Settled
<1>3. fs \in Seq(Good)
  BY <1>2, SetShape
<1>4. Added(fs, es, e) \/ \E m \in 1 .. Len(es) : Replaced(fs, es, e, m)
  BY SettledSet
<1> HIDE DEF fs, e
<1>5. PICK m \in 1 .. Len(es) : Replaced(fs, es, e, m)
  BY <1>1, <1>4 DEF Added
<1>6. m = i
  BY <1>1, <1>2, <1>5 DEF Replaced
<1>7. Len(fs) = Len(es) /\ \A j \in 1 .. Len(es) : fs[j] = es[j]
  BY <1>1, <1>5, <1>6 DEF Replaced
<1>8. fs = es
  BY <1>2, <1>3, <1>7, SeqEqual
<1> QED
  BY <1>8 DEF fs

\* Lines with names and values leave a settled container.
LEMMA AllSettled ==
    ASSUME NEW lines \in Seq(Lines)
    PROVE  /\ Settled(SetAll(<<>>, lines))
           /\ lines # <<>> => SetAll(<<>>, lines) # <<>>
<1> DEFINE N == Len(lines)
           all == SetAll(<<>>, lines)
<1>1. N \in Nat /\ \A n \in 1 .. N : lines[n].name \in Names /\ lines[n].value \in Given
  BY LenProperties, ElementOfSeq, LineFacts
<1>2. Settable(lines)
  BY <1>1, Fixed DEF Settable
<1>3. PICK g \in [0 .. N -> Seq(Good)] : Sets(g, <<>>, lines) /\ all = g[N]
  BY <1>2, Fixed, SetAllFacts
<1> HIDE DEF N, all
<1> DEFINE P == {n \in 0 .. N : Settled(g[n]) /\ (n # 0 => g[n] # <<>>)}
<1>4. 0 \in P
  <2>1. g[0] = <<>> /\ 0 \in 0 .. N
    BY <1>1, <1>3 DEF Sets
  <2>2. Settled(<<>>)
    <3>1. <<>> \in Seq(Good)
      BY Fixed
    <3>2. Len(<<>>) = 0
      OBVIOUS
    <3>3. 1 .. 0 = {}
      OBVIOUS
    <3> QED
      BY <3>1, <3>2, <3>3 DEF Settled
  <2> QED
    BY <2>1, <2>2
<1>5. ASSUME NEW n \in 1 .. N, n - 1 \in P PROVE n \in P
  <2>1. Settled(g[n - 1]) /\ n \in 0 .. N
    BY <1>1, <1>5
  <2>2. g[n] = Set(g[n - 1], lines[n].name, lines[n].value)
    BY <1>3 DEF Sets, N
  <2> DEFINE es == g[n - 1]
             fs == g[n]
             name == lines[n].name
             value == lines[n].value
  <2>3. name \in Names /\ value \in Given
    BY <1>1
  <2>4. Settled(es) /\ fs = Set(es, name, value)
    BY <2>1, <2>2
  <2> HIDE DEF es, fs, name, value
  <2>5. Settled(fs) /\ Has(fs, name, value)
    BY <2>3, <2>4, SetSettled
  <2>6. fs # <<>>
    BY <2>5 DEF Has
  <2> QED
    BY <2>1, <2>5, <2>6 DEF fs
<1>6. P = 0 .. N
  <2>1. P \in SUBSET (0 .. N)
    OBVIOUS
  <2> HIDE DEF P
  <2> QED
    BY <1>1, <1>4, <1>5, <2>1, Prefixwise
<1>7. N \in P
  <2>1. N \in 0 .. N
    BY <1>1
  <2> HIDE DEF P
  <2> QED
    BY <1>6, <2>1
<1>8. lines # <<>> => N # 0
  BY EmptySeq DEF N
<1> QED
  BY <1>3, <1>7, <1>8 DEF all

\* What is chosen when everything is.
LEMMA ChosenAll ==
    ASSUME NEW A, NEW s \in Seq(A), NEW I, \A n \in 1 .. Len(s) : n \in I
    PROVE  Chosen(s, I) = s
<1> DEFINE N == Len(s)
           c == Chosen(s, I)
<1>1. N \in Nat /\ \A n \in 1 .. N : s[n] \in A
  BY LenProperties, ElementOfSeq
<1>2. PICK g \in [0 .. N -> Seq(A)] : Takes(g, s, I) /\ c = g[N]
  BY <1>1, ChosenFacts
<1> HIDE DEF N, c
<1> DEFINE P == {n \in 0 .. N : Len(g[n]) = n /\ \A i \in 1 .. n : g[n][i] = s[i]}
<1>3. 0 \in P
  BY <1>1, <1>2 DEF Takes
<1>4. ASSUME NEW n \in 1 .. N, n - 1 \in P PROVE n \in P
  <2> DEFINE u == g[n - 1]
             w == g[n]
             x == s[n]
  <2>1. n \in 0 .. N /\ n - 1 \in 0 .. N
    BY <1>1
  <2>2. u \in Seq(A) /\ x \in A /\ Len(u) = n - 1 /\ \A i \in 1 .. n - 1 : u[i] = s[i]
    BY <1>1, <1>4, <2>1
  <2>3. w = Append(u, x)
    BY <1>2 DEF Takes, N
  <2> HIDE DEF u, w, x
  <2>4. /\ Len(w) = Len(u) + 1 /\ w[Len(u) + 1] = x
        /\ \A i \in 1 .. Len(u) : w[i] = u[i]
    BY <2>2, <2>3, AppendProperties
  <2>5. Len(w) = n /\ w[n] = x /\ \A i \in 1 .. n - 1 : w[i] = s[i]
    BY <1>1, <2>2, <2>4
  <2>6. \A i \in 1 .. n : i = n \/ i \in 1 .. n - 1
    BY <1>1
  <2>7. \A i \in 1 .. n : w[i] = s[i]
    BY <2>5, <2>6 DEF x
  <2> QED
    BY <2>1, <2>5, <2>7 DEF w
<1>5. P = 0 .. N
  <2>1. P \in SUBSET (0 .. N)
    OBVIOUS
  <2> HIDE DEF P
  <2> QED
    BY <1>1, <1>3, <1>4, <2>1, Prefixwise
<1>6. N \in P /\ N \in 0 .. N
  <2>1. N \in 0 .. N
    BY <1>1
  <2> HIDE DEF P
  <2> QED
    BY <1>5, <2>1
<1>7. c \in Seq(A) /\ Len(c) = N /\ \A i \in 1 .. N : c[i] = s[i]
  BY <1>2, <1>6
<1>8. c = s
  BY <1>7, SeqEqual DEF N
<1> QED
  BY <1>8 DEF c

\* Each entry of what has been read is written.
LEMMA ShownSettled ==
    ASSUME NEW es, Settled(es)
    PROVE  /\ Shown(es) \in Seq(Lines) /\ Len(Shown(es)) = Len(es) /\ Len(es) \in Nat
           /\ \A i \in 1 .. Len(es) : Shown(es)[i] = Line(es[i])
<1> DEFINE I == {i \in DOMAIN es : es[i].value # ""}
<1>1. es \in Seq(Good) /\ \A i \in 1 .. Len(es) : es[i].value # ""
  BY DEF Settled
<1>2. DOMAIN es = 1 .. Len(es) /\ Len(es) \in Nat
  BY <1>1, LenProperties
<1>3. \A n \in 1 .. Len(es) : n \in I
  BY <1>1, <1>2
<1> HIDE DEF I
<1>4. Chosen(es, I) = es
  BY <1>1, <1>3, ChosenAll
<1>5. Visible(es) = es
  BY <1>4 DEF Visible, I
<1>6. Shown(es) = [i \in 1 .. Len(es) |-> Line(es[i])]
  BY <1>2, <1>5 DEF Shown, Line
<1>7. Shown(es) \in Seq(Lines)
  BY <1>1, ShownFacts
<1> DEFINE ls == Shown(es)
           N == Len(es)
<1>8. DOMAIN ls = 1 .. Len(ls) /\ Len(ls) \in Nat
  BY <1>7, LenProperties
<1>9. ls = [i \in 1 .. N |-> Line(es[i])] /\ N \in Nat
  BY <1>2, <1>6
<1> HIDE DEF ls, N
<1>10. DOMAIN ls = 1 .. N /\ \A i \in 1 .. N : ls[i] = Line(es[i])
  BY <1>9
<1>11. Len(ls) = N
  <2> DEFINE l == Len(ls)
  <2>1. 1 .. l = 1 .. N /\ l \in Nat /\ N \in Nat
    BY <1>8, <1>9, <1>10
  <2> HIDE DEF l
  <2>2. l = N
    BY <2>1
  <2> QED
    BY <2>2 DEF l
<1> QED
  BY <1>2, <1>7, <1>10, <1>11 DEF ls, N

\* Reading what is written of it gives the same entries.
LEMMA SettledAgain ==
    ASSUME NEW es, Settled(es)
    PROVE  SetAll(<<>>, Shown(es)) = es
<1> DEFINE ls == Shown(es)
           N == Len(es)
           all == SetAll(<<>>, ls)
<1>1. es \in Seq(Good) /\ \A i, j \in 1 .. N : es[i].key = es[j].key => i = j
  BY DEF Settled
<1>2. N \in Nat
  BY <1>1, LenProperties
<1>3. ls \in Seq(Lines) /\ Len(ls) = N /\ \A i \in 1 .. N : ls[i] = Line(es[i])
  BY ShownSettled
<1>4. Settable(ls)
  <2>1. \A n \in 1 .. Len(ls) : ls[n].name \in Names /\ ls[n].value \in Given
    BY <1>3, ElementOfSeq, LineFacts
  <2> QED
    BY <2>1, Fixed DEF Settable
<1>5. ASSUME NEW n \in 1 .. N
      PROVE  /\ es[n] \in Good /\ ls[n].name \in Names /\ ls[n].value \in Values
             /\ Entry(ls[n].name, ls[n].value) = es[n] /\ Key(ls[n].name) = es[n].key
  <2>1. es[n] \in Good /\ es[n].value # ""
    BY <1>1, ElementOfSeq DEF Settled
  <2>2. es[n] \in Seen
    BY <2>1 DEF Seen
  <2>3. ls[n] = Line(es[n])
    BY <1>3
  <2>4. ls[n].name \in Names /\ ls[n].value \in Values
    BY <1>3, <1>4 DEF Settable
  <2> DEFINE e == es[n]
  <2>5. e \in Entries /\ e.key = Key(e.name) /\ Line(e).name = e.name /\ Line(e).value = e.value
    BY <2>1, <2>2, LineFacts DEF Good, Line
  <2> HIDE DEF e
  <2>6. Entry(e.name, e.value) = e
    BY <2>5 DEF Entry, Entries
  <2> QED
    BY <2>1, <2>3, <2>4, <2>5, <2>6 DEF e
<1>6. PICK g \in [0 .. N -> Seq(Good)] : Sets(g, <<>>, ls) /\ all = g[N]
  <2>1. \E g \in [0 .. Len(ls) -> Seq(Good)] : Sets(g, <<>>, ls) /\ all = g[Len(ls)]
    BY <1>3, <1>4, Fixed, SetAllFacts
  <2> QED
    BY <1>3, <2>1
<1>7. g[0] = <<>> /\ \A n \in 1 .. N : g[n] = Set(g[n - 1], ls[n].name, ls[n].value)
  BY <1>3, <1>6 DEF Sets
<1> HIDE DEF N, all, ls
<1> DEFINE P == {n \in 0 .. N : Len(g[n]) = n /\ \A i \in 1 .. n : g[n][i] = es[i]}
<1>8. 0 \in P
  BY <1>2, <1>7
<1>9. ASSUME NEW n \in 1 .. N, n - 1 \in P PROVE n \in P
  <2> DEFINE u == g[n - 1]
             w == g[n]
             x == es[n]
             name == ls[n].name
             value == ls[n].value
  <2>1. n \in 0 .. N /\ n - 1 \in 0 .. N
    BY <1>2
  <2>2. u \in Seq(Good) /\ Len(u) = n - 1 /\ \A i \in 1 .. n - 1 : u[i] = es[i]
    BY <1>6, <1>9, <2>1
  <2>3. w = Set(u, name, value)
    BY <1>7
  <2>4. x \in Good /\ name \in Names /\ value \in Values /\ Entry(name, value) = x /\ Key(name) = x.key
    BY <1>5
  <2>5. \A i \in 1 .. n - 1 : u[i].key # x.key
    <3>1. \A i \in 1 .. n - 1 : i \in 1 .. N /\ i # n
      BY <1>2
    <3> QED
      BY <1>1, <2>2, <3>1
  <2> HIDE DEF u, w, x, name, value
  <2>6. DOMAIN u = 1 .. n - 1
    BY <2>2, LenProperties
  <2>7. At(u, name) = {}
    BY <2>4, <2>5, <2>6 DEF At
  <2>8. w = Append(u, x)
    BY <2>2, <2>3, <2>4, <2>7, SetShape
  <2>9. /\ Len(w) = Len(u) + 1 /\ w[Len(u) + 1] = x
        /\ \A i \in 1 .. Len(u) : w[i] = u[i]
    BY <2>2, <2>4, <2>8, AppendProperties
  <2>10. Len(w) = n /\ w[n] = x /\ \A i \in 1 .. n - 1 : w[i] = es[i]
    BY <1>2, <2>2, <2>9
  <2>11. \A i \in 1 .. n : i = n \/ i \in 1 .. n - 1
    BY <1>2
  <2>12. \A i \in 1 .. n : w[i] = es[i]
    BY <2>10, <2>11 DEF x
  <2> QED
    BY <2>1, <2>10, <2>12 DEF w
<1>10. P = 0 .. N
  <2>1. P \in SUBSET (0 .. N)
    OBVIOUS
  <2> HIDE DEF P
  <2> QED
    BY <1>2, <1>8, <1>9, <2>1, Prefixwise
<1>11. N \in P /\ N \in 0 .. N
  <2>1. N \in 0 .. N
    BY <1>2
  <2> HIDE DEF P
  <2> QED
    BY <1>10, <2>1
<1>12. all \in Seq(Good) /\ Len(all) = N /\ \A i \in 1 .. N : all[i] = es[i]
  BY <1>6, <1>11
<1>13. all = es
  BY <1>1, <1>12, SeqEqual DEF N
<1> QED
  BY <1>13 DEF all, ls

\* The value that a field has, if it has one.
LEMMA RetrieveFacts ==
    ASSUME NEW es, NEW name \in Names, NEW v, ValuesOf(es, Key(name)) = Single(v)
    PROVE  Retrieve(es, name) = v
<1>1. ValuesOf(es, name) = ValuesOf(es, Key(name))
  <2>1. Key(Key(name)) = Key(name)
    BY KeyFacts
  <2> QED
    BY <2>1 DEF ValuesOf, At
<1>2. CASE v = ""
  BY <1>1, <1>2 DEF Retrieve, Single
<1>3. CASE v # ""
  <2> DEFINE o == <<v>>
  <2>1. o # <<>> /\ Head(o) = v
    OBVIOUS
  <2>2. ValuesOf(es, name) = o
    BY <1>1, <1>3 DEF Single
  <2> HIDE DEF o
  <2> QED
    BY <2>1, <2>2 DEF Retrieve
<1> QED
  BY <1>2, <1>3

\* What reading a message gives that has been written.
ReadBack(es, body, version) == Settle(Fill(SetAll(<<>>, Shown(es)), body), version)

LEMMA ReadBackSettled ==
    ASSUME NEW es \in Seq(Good), Shown(es) # <<>>, NEW body \in Bytes, NEW version
    PROVE  LET all == SetAll(<<>>, Shown(es))
               full == Fill(all, body)
           IN  /\ Settled(all) /\ Settled(full) /\ Settled(ReadBack(es, body, version))
               /\ full # <<>> /\ ReadBack(es, body, version) # <<>>
               /\ body # "" => Has(full, "Content-Length", Decimal(Len(body)))
<1> DEFINE all == SetAll(<<>>, Shown(es))
           d == Decimal(Len(body))
           full == Fill(all, body)
           back == ReadBack(es, body, version)
<1>1. Shown(es) \in Seq(Lines)
  BY ShownFacts
<1>2. Settled(all) /\ all # <<>>
  BY <1>1, AllSettled
<1>3. body # "" => d \in Given
  BY DEF Bytes
<1>4. full = (IF body = "" THEN all ELSE Set(all, "Content-Length", d))
  BY DEF Fill
<1>5. back = Settle(full, version)
  BY DEF ReadBack
<1> HIDE DEF all, d, full, back
<1>6. \A xs, name, v : Has(xs, name, v) => xs # <<>>
  <2>1. ASSUME NEW xs, xs = <<>>, NEW name, NEW v, Has(xs, name, v) PROVE FALSE
    <3>1. Len(xs) = 0
      BY <2>1
    <3> QED
      BY <2>1, <3>1 DEF Has
  <2> QED
    BY <2>1
<1>7. /\ Settled(full) /\ full # <<>>
      /\ body # "" => Has(full, "Content-Length", d)
  <2>1. CASE body = ""
    BY <1>2, <1>4, <2>1
  <2>2. CASE body # ""
    <3>1. Settled(Set(all, "Content-Length", d)) /\ Has(Set(all, "Content-Length", d), "Content-Length", d)
      BY <1>2, <1>3, <2>2, Fixed, SetSettled
    <3> QED
      BY <1>4, <1>6, <2>2, <3>1
  <2> QED
    BY <2>1, <2>2
<1>8. Settled(back) /\ back # <<>>
  <2>1. \A v \in {"keep-alive", "close"} :
          Settled(Set(full, "Connection", v)) /\ Has(Set(full, "Connection", v), "Connection", v)
    BY <1>7, Fixed, SetSettled
  <2>2. \/ back = full
        \/ \E v \in {"keep-alive", "close"} : back = Set(full, "Connection", v)
    BY <1>5 DEF Settle
  <2> QED
    BY <1>6, <1>7, <2>1, <2>2
<1> QED
  BY <1>2, <1>7, <1>8 DEF all, d, full, back

\* A name that an entry has.
LEMMA HasValue ==
    ASSUME NEW es \in Seq(Good), NEW name \in Names, NEW v \in Given
    PROVE  Retrieve(Set(es, name, v), name) = v
<1>1. v \in Values
  BY Fixed
<1>2. Key(Key(name)) = Key(name)
  BY KeyFacts
<1>3. ValuesOf(Set(es, name, v), Key(name)) = Single(v)
  BY <1>1, <1>2, SetOwn
<1> QED
  BY <1>3, RetrieveFacts

\* What has been read once is read unchanged from then on.
LEMMA ReadBackAgain ==
    ASSUME NEW es \in Seq(Good), Shown(es) # <<>>, NEW body \in Bytes, NEW version
    PROVE  /\ ReadBack(ReadBack(es, body, version), body, version) = ReadBack(es, body, version)
           /\ Shown(ReadBack(es, body, version)) # <<>>
<1> DEFINE all == SetAll(<<>>, Shown(es))
           d == Decimal(Len(body))
           full == Fill(all, body)
           back == ReadBack(es, body, version)
           value == Retrieve(full, "Connection")
<1>1. /\ Settled(full) /\ Settled(back) /\ full # <<>> /\ back # <<>>
      /\ body # "" => Has(full, "Content-Length", d)
  BY ReadBackSettled
<1>2. body # "" => d \in Values
  BY Fixed DEF Bytes
<1>3. back = Settle(full, version)
  BY DEF ReadBack
<1>4. ReadBack(back, body, version) = Settle(Fill(SetAll(<<>>, Shown(back)), body), version)
  BY DEF ReadBack
<1> HIDE DEF all, full, back
<1>5. SetAll(<<>>, Shown(back)) = back
  BY <1>1, SettledAgain
<1>6. Shown(back) # <<>>
  <2>1. Len(Shown(back)) = Len(back) /\ back \in Seq(Good)
    BY <1>1, ShownSettled DEF Settled
  <2>2. Len(back) # 0
    BY <1>1, <2>1, EmptySeq
  <2>3. Len(<<>>) = 0
    OBVIOUS
  <2> QED
    BY <2>1, <2>2, <2>3
<1>7. back = IF Stays(value, version) THEN Set(full, "Connection", "keep-alive")
             ELSE IF Ends(value) THEN Set(full, "Connection", "close") ELSE full
  BY <1>3 DEF Settle
<1>8. Fill(back, body) = back
  <2>1. CASE body = ""
    BY <2>1 DEF Fill
  <2>2. CASE body # ""
    <3>1. Fill(back, body) = Set(back, "Content-Length", d)
      BY <2>2 DEF Fill
    <3>2. Has(full, "Content-Length", d) /\ d \in Values /\ Key("Content-Length") # Key("Connection")
      BY <1>1, <1>2, <2>2, Fixed
    <3> HIDE DEF d, value
    <3>3. \A v \in Values : Has(Set(full, "Connection", v), "Content-Length", d)
      BY <1>1, <3>2, Fixed, SetHas
    <3>4. Has(back, "Content-Length", d)
      BY <1>7, <3>2, <3>3, Fixed
    <3>5. Set(back, "Content-Length", d) = back
      BY <1>1, <3>2, <3>4, Fixed, SetSame
    <3> QED
      BY <3>1, <3>5
  <2> QED
    BY <2>1, <2>2
<1>9. Settle(back, version) = back
  <2> HIDE DEF value
  <2>1. full \in Seq(Good) /\ back \in Seq(Good)
    BY <1>1 DEF Settled
  <2>2. ASSUME NEW v \in Given, back = Set(full, "Connection", v)
        PROVE  Retrieve(back, "Connection") = v /\ Set(back, "Connection", v) = back
    <3>1. "Connection" \in Names
      BY Fixed
    <3>2. Retrieve(Set(full, "Connection", v), "Connection") = v
      BY <2>1, <3>1, HasValue
    <3>3. Has(Set(full, "Connection", v), "Connection", v)
      BY <1>1, Fixed, SetSettled
    <3>4. v \in Values /\ Has(back, "Connection", v)
      BY <2>2, <3>3, Fixed
    <3>5. Set(back, "Connection", v) = back
      BY <1>1, <3>4, Fixed, SetSame
    <3> QED
      BY <2>2, <3>2, <3>5
  <2>3. Lower["keep-alive"] = "keep-alive" /\ Lower["close"] = "close"
    BY HeaderAssumption
  <2>4. Stays("keep-alive", version) /\ ~ Stays("close", version) /\ Ends("close")
    BY <2>3 DEF Stays, Ends
  <2>5. CASE Stays(value, version)
    <3>1. back = Set(full, "Connection", "keep-alive")
      BY <1>7, <2>5
    <3>2. Retrieve(back, "Connection") = "keep-alive" /\ Set(back, "Connection", "keep-alive") = back
      BY <2>2, <3>1, Fixed
    <3> QED
      BY <2>4, <3>2 DEF Settle
  <2>6. CASE ~ Stays(value, version) /\ Ends(value)
    <3>1. back = Set(full, "Connection", "close")
      BY <1>7, <2>6
    <3>2. Retrieve(back, "Connection") = "close" /\ Set(back, "Connection", "close") = back
      BY <2>2, <3>1, Fixed
    <3> QED
      BY <2>4, <3>2 DEF Settle
  <2>7. CASE ~ Stays(value, version) /\ ~ Ends(value)
    BY <1>7, <2>7 DEF Settle, value
  <2> QED
    BY <2>5, <2>6, <2>7
<1>10. ReadBack(back, body, version) = back
  BY <1>4, <1>5, <1>8, <1>9
<1> QED
  BY <1>6, <1>10 DEF back

\* The value that reading leaves a field with.
LastOf(es, k) == IF ValuesOf(es, k) = <<>> THEN "" ELSE Last(ValuesOf(es, k))
Left(es, body, version, k) ==
    LET last == LastOf(es, k)
    IN  CASE k = Key("Content-Length") /\ body # "" -> Decimal(Len(body))
          [] k = Key("Connection") /\ last = "" /\ version = 11 -> "keep-alive"
          [] k = Key("Connection") /\ last # "" /\ Lower[last] \in {"keep-alive", "close"} -> Lower[last]
          [] OTHER -> last

LEMMA ReadBackValues ==
    ASSUME NEW es \in Seq(Good), NEW body \in Bytes, NEW version, NEW k \in Keys
    PROVE  ValuesOf(ReadBack(es, body, version), k) = Single(Left(es, body, version, k))
<1> DEFINE all == SetAll(<<>>, Shown(es))
           d == Decimal(Len(body))
           full == Fill(all, body)
           c == Key("Content-Length")
           o == Key("Connection")
           value == Retrieve(full, "Connection")
           last == LastOf(es, k)
           left == Left(es, body, version, k)
<1>1. Shown(es) \in Seq(Lines) /\ \A j \in Keys : Named(Shown(es), j) = ValuesOf(es, j)
  BY ShownFacts
<1>2. Settable(Shown(es))
  <2>1. \A n \in 1 .. Len(Shown(es)) : Shown(es)[n].name \in Names /\ Shown(es)[n].value \in Given
    BY <1>1, ElementOfSeq, LineFacts
  <2> QED
    BY <2>1, Fixed DEF Settable
<1>3. all \in Seq(Good)
  BY <1>1, <1>2, AllOnce
<1>4. ASSUME NEW j \in Keys PROVE ValuesOf(all, j) = Single(LastOf(es, j))
  <2>1. ValuesOf(all, j) = IF Named(Shown(es), j) = <<>> THEN <<>> ELSE Single(Last(Named(Shown(es), j)))
    BY <1>1, <1>2, SetAllNamed
  <2>2. Single("") = <<>>
    BY DEF Single
  <2> QED
    BY <1>1, <2>1, <2>2 DEF LastOf
<1>5. c \in Keys /\ o \in Keys /\ c # o /\ \A j \in Keys : Key(j) = j
  BY Fixed, KeyFacts
<1>14. "Content-Length" \in Names
  BY Fixed
<1>15. "Connection" \in Names
  BY Fixed
<1> HIDE DEF all
<1>6. /\ full \in Seq(Good)
      /\ \A j \in Keys : ValuesOf(full, j) = IF j = c /\ body # "" THEN Single(d) ELSE Single(LastOf(es, j))
  <2>1. CASE body = ""
    BY <1>3, <1>4, <2>1 DEF Fill
  <2>2. CASE body # ""
    <3>1. full = Set(all, "Content-Length", d)
      BY <2>2 DEF Fill
    <3>2. d \in Values
      BY <2>2, Fixed DEF Bytes
    <3> HIDE DEF d, full
    <3>3. full \in Seq(Good)
      BY <1>3, <3>1, <3>2, Fixed, SetShape
    <3>4. ASSUME NEW j \in Keys, j = c PROVE ValuesOf(full, j) = Single(d)
      <4>1. Key(j) = Key("Content-Length")
        BY <1>5, <3>4
      <4>2. ValuesOf(Set(all, "Content-Length", d), j) = Single(d)
        BY <1>3, <1>14, <3>2, <4>1, SetOwn
      <4> QED
        BY <3>1, <4>2
    <3>5. ASSUME NEW j \in Keys, j # c PROVE ValuesOf(full, j) = Single(LastOf(es, j))
      <4>1. Key(j) # Key("Content-Length")
        BY <1>5, <3>5
      <4>2. ValuesOf(Set(all, "Content-Length", d), j) = ValuesOf(all, j)
        BY <1>3, <1>14, <3>2, <4>1, SetOther
      <4> QED
        BY <1>4, <3>1, <3>5, <4>2
    <3> QED
      BY <2>2, <3>3, <3>4, <3>5
  <2> QED
    BY <2>1, <2>2
<1>7. ReadBack(es, body, version) = Settle(full, version)
  BY DEF ReadBack, all
<1> HIDE DEF full
<1>8. value = LastOf(es, o)
  <2>1. ValuesOf(full, Key("Connection")) = Single(LastOf(es, o))
    BY <1>5, <1>6
  <2> QED
    BY <2>1, Fixed, RetrieveFacts
<1>9. ASSUME NEW v \in Values, Settle(full, version) = Set(full, "Connection", v)
      PROVE  ValuesOf(Settle(full, version), k) = IF k = o THEN Single(v) ELSE ValuesOf(full, k)
  <2>0. full \in Seq(Good)
    BY <1>6
  <2> HIDE DEF value, last, left, d, c
  <2>1. CASE k = o
    <3>1. Key(k) = Key("Connection")
      BY <1>5, <2>1
    <3>2. ValuesOf(Set(full, "Connection", v), k) = Single(v)
      BY <1>15, <2>0, <3>1, SetOwn
    <3> QED
      BY <1>9, <2>1, <3>2
  <2>2. CASE k # o
    <3>1. Key(k) # Key("Connection")
      BY <1>5, <2>2
    <3>2. ValuesOf(Set(full, "Connection", v), k) = ValuesOf(full, k)
      BY <1>15, <2>0, <3>1, SetOther
    <3> QED
      BY <1>9, <2>2, <3>2
  <2> QED
    BY <2>1, <2>2
<1>10. left = CASE k = c /\ body # "" -> d
                [] k = o /\ last = "" /\ version = 11 -> "keep-alive"
                [] k = o /\ last # "" /\ Lower[last] \in {"keep-alive", "close"} -> Lower[last]
                [] OTHER -> last
  BY DEF Left
<1> HIDE DEF left, d, c, o, value, last
<1>11. CASE k = c /\ body # ""
  <2>1. left = d /\ k # o
    BY <1>5, <1>10, <1>11
  <2>2. ValuesOf(full, k) = Single(d)
    BY <1>6, <1>11
  <2> QED
    BY <1>7, <1>9, <2>1, <2>2, Fixed DEF Settle, left
<1>12. CASE k # o /\ ~ (k = c /\ body # "")
  <2>1. left = last
    BY <1>10, <1>12
  <2>2. ValuesOf(full, k) = Single(last)
    BY <1>6, <1>12 DEF last
  <2> QED
    BY <1>7, <1>9, <1>12, <2>1, <2>2, Fixed DEF Settle, left
<1>13. CASE k = o
  <2>1. value = last /\ ValuesOf(full, k) = Single(last) /\ k # c
    BY <1>5, <1>6, <1>8, <1>13 DEF last
  <2>2. Settle(full, version) = IF Stays(last, version) THEN Set(full, "Connection", "keep-alive")
                                ELSE IF Ends(last) THEN Set(full, "Connection", "close") ELSE full
    BY <2>1 DEF Settle, value
  <2>3. left = IF Stays(last, version) THEN "keep-alive" ELSE IF Ends(last) THEN "close" ELSE last
    <3> DEFINE low == Lower[last]
    <3>1. /\ Stays(last, version) <=> (last # "" /\ low = "keep-alive") \/ (last = "" /\ version = 11)
          /\ Ends(last) <=> last # "" /\ low = "close"
      BY DEF Stays, Ends
    <3> HIDE DEF low
    <3>2. CASE last = "" /\ version = 11
      BY <1>10, <1>13, <2>1, <3>1, <3>2
    <3>3. CASE last # "" /\ low \in {"keep-alive", "close"}
      BY <1>10, <1>13, <2>1, <3>1, <3>3 DEF low
    <3>4. CASE ~ (last = "" /\ version = 11) /\ ~ (last # "" /\ low \in {"keep-alive", "close"})
      BY <1>10, <1>13, <2>1, <3>1, <3>4 DEF low
    <3> QED
      BY <3>2, <3>3, <3>4
  <2>4. CASE Stays(last, version)
    BY <1>7, <1>9, <1>13, <2>2, <2>3, <2>4, Fixed DEF left
  <2>5. CASE ~ Stays(last, version) /\ Ends(last)
    BY <1>7, <1>9, <1>13, <2>2, <2>3, <2>5, Fixed DEF left
  <2>6. CASE ~ Stays(last, version) /\ ~ Ends(last)
    BY <1>7, <2>1, <2>2, <2>3, <2>6 DEF left
  <2> QED
    BY <2>4, <2>5, <2>6
<1> QED
  BY <1>11, <1>12, <1>13

-------------------------------------------------------------------------------
\* Header lines that have a name each can be read.
Lined(es) == \A i \in DOMAIN Shown(es) : Shown(es)[i].name # ""

LEMMA ShownUnbroken ==
    ASSUME NEW es, Lined(es)
    PROVE  Unbroken(Shown(es)) = Shown(es)
<1> DEFINE ls == Shown(es)
<1>1. \A i \in DOMAIN ls : ls[i].name # ""
  BY DEF Lined
<1> HIDE DEF ls
<1>2. {i \in DOMAIN ls : ls[i].name = ""} = {}
  BY <1>1
<1>3. Unbroken(ls) = ls
  BY <1>2 DEF Unbroken
<1> QED
  BY <1>3 DEF ls

\* A request and what it is after it has been written and read.
ReadRequest(r) ==
    LET text == Req!MethodText(r)
    IN  Asked(Req!VerbOf(text), text, r.target, r.body, ReadBack(r.entries, r.body, r.version), r.version)

LEMMA ReqReread ==
    ASSUME NEW r \in Requests, Shown(r.entries) # <<>>, Lined(r.entries)
    PROVE  Req!ReadFrom(r, Req!Outline(r)) = [ok |-> TRUE, object |-> ReadRequest(r)]
<1> DEFINE t == Req!Outline(r)
           text == Req!MethodText(r)
           es == r.entries
           ls == Shown(es)
           version == r.version
<1>1. es \in Seq(Good) /\ version \in Digits
  BY DEF Requests
<1>2. t.start = <<text, r.target, version>> /\ t.ended = TRUE /\ t.body = r.body
  BY DEF Req!Outline
<1>3. t.lines = ls
  BY ReqSame DEF Req!Outline
<1>4. Unbroken(ls) = ls
  BY ShownUnbroken
<1>5. version # Req!BadNumber
  <2>1. 1000 \notin Digits
    BY DEF Digits
  <2> QED
    BY <1>1, <2>1 DEF Req!BadNumber
<1> DEFINE u == r.target
           start == <<text, u, version>>
<1>6. start # <<>> /\ start[1] = text /\ start[2] = u /\ start[3] = version
  OBVIOUS
<1> DEFINE a == t.start[1]
           b == t.start[2]
           n == t.start[3]
           done == [ok |-> TRUE,
                    object |-> Asked(Req!VerbOf(a), a, b, t.body, Settle(Fill(Headed(t.lines), t.body), n), n)]
           bad == t.start = <<>> \/ n = Req!BadNumber
           cut == ~ t.ended
           broken == Unbroken(t.lines) # t.lines
           fresh == [ok |-> FALSE, object |-> Req!Fresh]
           stopped == [ok |-> FALSE, object |-> Asked(Req!VerbOf(a), a, b, "", <<>>, n)]
           torn == [ok |-> FALSE, object |-> Asked(Req!VerbOf(a), a, b, "", Headed(t.lines), n)]
<1>7. Req!ReadFrom(r, t) = IF bad THEN fresh ELSE IF cut THEN stopped ELSE IF broken THEN torn ELSE done
  BY ReqDeserialized
<1> HIDE DEF start, t, text, es, ls, version, u
<1>8. a = text /\ b = u /\ n = version /\ t.start # <<>>
  BY <1>2, <1>6 DEF start, u
<1>9. ~ bad /\ ~ cut /\ ~ broken
  BY <1>2, <1>3, <1>4, <1>5, <1>8
<1>10. Req!ReadFrom(r, t) = done
  <2> HIDE DEF bad, cut, broken, done, fresh, stopped, torn
  <2> QED
    BY <1>7, <1>9
<1>11. Settle(Fill(Headed(t.lines), t.body), n) = ReadBack(es, r.body, version)
  BY <1>2, <1>3, <1>4, <1>8 DEF Headed, ReadBack, ls
<1>12. done = [ok |-> TRUE, object |-> Asked(Req!VerbOf(text), text, u, r.body, ReadBack(es, r.body, version), version)]
  BY <1>2, <1>8, <1>11
<1> QED
  BY <1>10, <1>12 DEF ReadRequest, t, text, es, version, u

LEMMA ReqRoundTrip ==
    ASSUME NEW r \in Requests, Shown(r.entries) # <<>>
    PROVE  LET q == ReadRequest(r)
           IN  /\ q.body = r.body /\ q.version = r.version /\ q.target = r.target
               /\ q.entries = ReadBack(r.entries, r.body, r.version)
               /\ Req!MethodText(q) = Req!MethodText(r)
               /\ Lined(q.entries) => Req!ReadFrom(q, Req!Outline(q)) = [ok |-> TRUE, object |-> q]
<1> DEFINE q == ReadRequest(r)
           text == Req!MethodText(r)
           es == r.entries
           back == ReadBack(es, r.body, r.version)
<1>1. es \in Seq(Good) /\ r.version \in Digits /\ r.body \in Bytes /\ r.target \in STRING
  BY DEF Requests
<1>2. text \in STRING /\ text # ""
  <2>1. r.methodString \in STRING /\ r.method \in Req!Verbs
    BY DEF Requests
  <2> QED
    BY <2>1, VerbTypes DEF Req!MethodText
<1>3. /\ ReadBack(back, r.body, r.version) = back /\ Shown(back) # <<>>
      /\ back \in Seq(Good)
  <2>1. /\ ReadBack(back, r.body, r.version) = back /\ Shown(back) # <<>>
    BY <1>1, ReadBackAgain
  <2>2. Settled(back)
    BY <1>1, ReadBackSettled
  <2> QED
    BY <2>1, <2>2 DEF Settled
<1>4. q = Asked(Req!VerbOf(text), text, r.target, r.body, back, r.version)
  BY DEF ReadRequest
<1> HIDE DEF q, text, back
<1>5. /\ q.body = r.body /\ q.version = r.version /\ q.target = r.target /\ q.entries = back
      /\ q.methodString = text
  BY <1>4 DEF Asked
<1>6. q \in Requests
  BY <1>1, <1>2, <1>3, <1>4, VerbTypes DEF Asked, Requests
<1>7. Req!MethodText(q) = text
  BY <1>2, <1>5 DEF Req!MethodText
<1>8. ReadRequest(q) = q
  BY <1>3, <1>4, <1>5, <1>7 DEF ReadRequest
<1>9. Lined(q.entries) => Req!ReadFrom(q, Req!Outline(q)) = [ok |-> TRUE, object |-> q]
  BY <1>3, <1>5, <1>6, <1>8, ReqReread
<1> QED
  BY <1>5, <1>7, <1>9 DEF q, text, back

\* A response and what it is after it has been written and read.
ReadResponse(r) ==
    Answer(Res!ToStatus(r.status), Res!ReasonText(r), r.body, ReadBack(r.entries, r.body, r.version), r.version)

LEMMA ResReread ==
    ASSUME NEW r \in Responses, Shown(r.entries) # <<>>, Lined(r.entries)
    PROVE  Res!ReadFrom(r, Res!Outline(r)) = [ok |-> TRUE, object |-> ReadResponse(r)]
<1> DEFINE t == Res!Outline(r)
           text == Res!ReasonText(r)
           es == r.entries
           ls == Shown(es)
           version == r.version
           code == r.status
<1>1. es \in Seq(Good) /\ version \in Digits /\ code \in Res!Statuses
  BY DEF Responses
<1>2. t.start = <<version, code, text>> /\ t.ended = TRUE /\ t.body = r.body
  BY DEF Res!Outline
<1>3. t.lines = ls
  BY ResSame DEF Res!Outline
<1>4. Unbroken(ls) = ls
  BY ShownUnbroken
<1>5. version # Res!BadNumber /\ code # Res!BadNumber
  <2>1. 1000 \notin Digits /\ 1000 \notin Res!Statuses
    BY DEF Digits, Res!Statuses
  <2> QED
    BY <1>1, <2>1 DEF Res!BadNumber
<1> DEFINE start == <<version, code, text>>
<1>6. start # <<>> /\ start[1] = version /\ start[2] = code /\ start[3] = text
  OBVIOUS
<1> DEFINE n == t.start[1]
           b == t.start[2]
           a == t.start[3]
           done == [ok |-> TRUE,
                    object |-> Answer(Res!ToStatus(b), a, t.body, Settle(Fill(Headed(t.lines), t.body), n), n)]
           bad == t.start = <<>> \/ Res!BadNumber \in {n, b}
           cut == ~ t.ended
           broken == Unbroken(t.lines) # t.lines
           fresh == [ok |-> FALSE, object |-> Res!Fresh]
           stopped == [ok |-> FALSE, object |-> Answer(Res!ToStatus(b), a, "", <<>>, n)]
           torn == [ok |-> FALSE, object |-> Answer(Res!ToStatus(b), a, "", Headed(t.lines), n)]
<1>7. Res!ReadFrom(r, t) = IF bad THEN fresh ELSE IF cut THEN stopped ELSE IF broken THEN torn ELSE done
  BY ResDeserialized
<1> HIDE DEF start, t, text, es, ls, version, code
<1>8. a = text /\ b = code /\ n = version /\ t.start # <<>>
  BY <1>2, <1>6 DEF start
<1>9. ~ bad /\ ~ cut /\ ~ broken
  BY <1>2, <1>3, <1>4, <1>5, <1>8
<1>10. Res!ReadFrom(r, t) = done
  <2> HIDE DEF bad, cut, broken, done, fresh, stopped, torn
  <2> QED
    BY <1>7, <1>9
<1>11. Settle(Fill(Headed(t.lines), t.body), n) = ReadBack(es, r.body, version)
  BY <1>2, <1>3, <1>4, <1>8 DEF Headed, ReadBack, ls
<1>12. done = [ok |-> TRUE, object |-> Answer(Res!ToStatus(code), text, r.body, ReadBack(es, r.body, version), version)]
  BY <1>2, <1>8, <1>11
<1> QED
  BY <1>10, <1>12 DEF ReadResponse, t, text, es, version, code

LEMMA ResRoundTrip ==
    ASSUME NEW r \in Responses, Shown(r.entries) # <<>>
    PROVE  LET q == ReadResponse(r)
           IN  /\ q.body = r.body /\ q.version = r.version /\ q.status = Res!ToStatus(r.status)
               /\ q.entries = ReadBack(r.entries, r.body, r.version)
               /\ Res!ReasonText(q) = Res!ReasonText(r)
               /\ Lined(q.entries) => Res!ReadFrom(q, Res!Outline(q)) = [ok |-> TRUE, object |-> q]
<1> DEFINE q == ReadResponse(r)
           text == Res!ReasonText(r)
           es == r.entries
           code == Res!ToStatus(r.status)
           back == ReadBack(es, r.body, r.version)
<1>1. es \in Seq(Good) /\ r.version \in Digits /\ r.body \in Bytes
  BY DEF Responses
<1>2. text \in STRING /\ code \in Res!Statuses
  <2>1. r.reason \in STRING /\ r.status \in Res!Statuses
    BY DEF Responses
  <2> QED
    BY <2>1, StatusTypes DEF Res!ReasonText
<1>3. /\ ReadBack(back, r.body, r.version) = back /\ Shown(back) # <<>>
      /\ back \in Seq(Good)
  <2>1. /\ ReadBack(back, r.body, r.version) = back /\ Shown(back) # <<>>
    BY <1>1, ReadBackAgain
  <2>2. Settled(back)
    BY <1>1, ReadBackSettled
  <2> QED
    BY <2>1, <2>2 DEF Settled
<1>4. q = Answer(code, text, r.body, back, r.version)
  BY DEF ReadResponse
<1>5. text = "" => Res!ReasonOf(code) = ""
  <2>1. text = "" => Res!ReasonOf(r.status) = ""
    BY DEF Res!ReasonText
  <2> QED
    BY <2>1, StatusTypes
<1>6. Res!ToStatus(code) = code
  BY StatusTypes
<1> HIDE DEF q, text, back, code
<1>7. /\ q.body = r.body /\ q.version = r.version /\ q.status = code /\ q.entries = back
      /\ q.reason = text
  BY <1>4 DEF Answer
<1>8. q \in Responses
  BY <1>1, <1>2, <1>3, <1>4 DEF Answer, Responses
<1>9. Res!ReasonText(q) = text
  BY <1>5, <1>7 DEF Res!ReasonText
<1>10. ReadResponse(q) = q
  BY <1>3, <1>4, <1>6, <1>7, <1>9 DEF ReadResponse
<1>11. Lined(q.entries) => Res!ReadFrom(q, Res!Outline(q)) = [ok |-> TRUE, object |-> q]
  BY <1>3, <1>7, <1>8, <1>10, ResReread
<1> QED
  BY <1>7, <1>9, <1>11 DEF q, text, back, code

\* A message whose text comes apart as it was put together, into lines with names.
Divided(m) ==
    /\ IF kind = "request" THEN Req!Scan(Req!Serialize(m)) = Req!Outline(m)
                           ELSE Res!Scan(Res!Serialize(m)) = Res!Outline(m)
    /\ Shown(m.entries) # <<>> /\ Lined(m.entries)

\* Where the text of a message is divided as it was put together, and the text of what
\* is read from it as well, everything else of the round trip follows for whatever was
\* done to the message: its first line and body, the last value of each field, however
\* many entries of it there were, with Connection and the length of the body settled;
\* and what has been read does not change any more.  What this leaves out, that a text
\* of trimmed parts without the separators is divided so, is about single characters
\* and is checked by RoundTrip.
THEOREM DividedAreReadBack == Spec => [](Divided(msg) /\ Divided(Reread(msg).object) => IsReadBack)
<1>1. Inv => (Divided(msg) /\ Divided(Reread(msg).object) => IsReadBack)
  <2> SUFFICES ASSUME Inv, Divided(msg), Divided(Reread(msg).object)
               PROVE  IsReadBack
    OBVIOUS
  <2> DEFINE reread == Reread(msg)
             read == reread.object
             es == msg.entries
             back == ReadBack(es, msg.body, msg.version)
  <2>1. es \in Seq(Good) /\ msg.body \in Bytes
    BY DEF Inv, Requests, Responses
  <2>2. Shown(es) # <<>> /\ Lined(es) /\ Lined(read.entries)
    BY DEF Divided
  <2>3. \A k \in Keys : ValuesOf(back, k) = IF Expected(k) = "" THEN <<>> ELSE <<Expected(k)>>
    <3>1. ASSUME NEW k \in Keys PROVE ValuesOf(back, k) = Single(Left(es, msg.body, msg.version, k))
      BY <2>1, <2>2, ReadBackValues
    <3>2. ASSUME NEW k \in Keys PROVE Expected(k) = Left(es, msg.body, msg.version, k)
      BY DEF Expected, Left, LastOf
    <3> QED
      BY <3>1, <3>2 DEF Single
  <2>4. CASE kind = "request"
    <3>1. msg \in Requests
      BY <2>4 DEF Inv
    <3> DEFINE q == ReadRequest(msg)
    <3>2. /\ q.body = msg.body /\ q.version = msg.version /\ q.target = msg.target /\ q.entries = back
          /\ Req!MethodText(q) = Req!MethodText(msg)
          /\ Lined(q.entries) => Req!ReadFrom(q, Req!Outline(q)) = [ok |-> TRUE, object |-> q]
      BY <2>2, <3>1, ReqRoundTrip
    <3>3. Req!Scan(Req!Serialize(msg)) = Req!Outline(msg) /\ Req!Scan(Req!Serialize(read)) = Req!Outline(read)
      BY <2>4 DEF Divided
    <3>4. reread = [ok |-> TRUE, object |-> q]
      <4>1. reread = Req!ReadFrom(msg, Req!Outline(msg))
        BY <2>4, <3>3 DEF Reread, Req!Deserialize
      <4> QED
        BY <2>2, <3>1, <4>1, ReqReread
    <3>5. Reread(read) = Req!ReadFrom(read, Req!Outline(read))
      BY <2>4, <3>3 DEF Reread, Req!Deserialize
    <3> HIDE DEF q, reread, back
    <3>6. reread.ok /\ read = q
      BY <3>4
    <3> HIDE DEF read
    <3>7. Reread(read) = [ok |-> TRUE, object |-> read]
      BY <2>2, <3>2, <3>5, <3>6
    <3> QED
      BY <2>3, <2>4, <3>2, <3>6, <3>7 DEF IsReadBack, read, reread
  <2>5. CASE kind = "response"
    <3>0. kind # "request"
      BY <2>5
    <3>1. msg \in Responses
      BY <2>5 DEF Inv
    <3> DEFINE q == ReadResponse(msg)
    <3>2. /\ q.body = msg.body /\ q.version = msg.version /\ q.status = Res!ToStatus(msg.status) /\ q.entries = back
          /\ Res!ReasonText(q) = Res!ReasonText(msg)
          /\ Lined(q.entries) => Res!ReadFrom(q, Res!Outline(q)) = [ok |-> TRUE, object |-> q]
      BY <2>2, <3>1, ResRoundTrip
    <3>3. Res!Scan(Res!Serialize(msg)) = Res!Outline(msg) /\ Res!Scan(Res!Serialize(read)) = Res!Outline(read)
      BY <3>0 DEF Divided
    <3>4. reread = [ok |-> TRUE, object |-> q]
      <4>1. reread = Res!ReadFrom(msg, Res!Outline(msg))
        BY <3>0, <3>3 DEF Reread, Res!Deserialize
      <4> QED
        BY <2>2, <3>1, <4>1, ResReread
    <3>5. Reread(read) = Res!ReadFrom(read, Res!Outline(read))
      BY <3>0, <3>3 DEF Reread, Res!Deserialize
    <3> HIDE DEF q, reread, back
    <3>6. reread.ok /\ read = q
      BY <3>4
    <3> HIDE DEF read
    <3>7. Reread(read) = [ok |-> TRUE, object |-> read]
      BY <2>2, <3>2, <3>5, <3>6
    <3> QED
      BY <2>3, <3>0, <3>2, <3>6, <3>7 DEF IsReadBack, read, reread
  <2> QED
    BY <2>4, <2>5 DEF Inv
<1> QED
  BY Inductive, <1>1, PTL

===============================================================================
