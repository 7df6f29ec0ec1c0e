---------------------------- MODULE ForwardingProofs ----------------------------
(* Where a session leads to and what it passes on, for every set of requests,    *)
(* configurations and lists.                                                     *)
EXTENDS Forwarding, CodecProofs

-------------------------------------------------------------------------------
\* string_view::find.
LEMMA FindFirst ==
    ASSUME NEW S, NEW text \in Seq(S), NEW token, NEW p \in 1 .. Len(text),
           text[p] = token, \A i \in 1 .. p - 1 : text[i] # token
    PROVE  Find(text, token) = p
<1> DEFINE I == {i \in 1 .. Len(text) : text[i] = token}
<1>1. I \in SUBSET Nat /\ I # {} /\ p \in I
  BY LenProperties
<1>2. Find(text, token) = Min(I)
  BY <1>1 DEF Find, SelectInSeq
<1>3. \A i \in I : i \in Nat /\ p <= i
  BY LenProperties
<1> HIDE DEF I
<1>4. Min(I) \in I /\ Min(I) <= p
  BY <1>1, MinFacts
<1>5. p <= Min(I) /\ Min(I) \in Nat
  BY <1>3, <1>4
<1> QED
  BY <1>2, <1>4, <1>5

LEMMA FindNone ==
    ASSUME NEW S, NEW text \in Seq(S), NEW token, \A i \in 1 .. Len(text) : text[i] # token
    PROVE  Find(text, token) = 0
<1>1. {i \in 1 .. Len(text) : text[i] = token} = {}
  OBVIOUS
<1> QED
  BY <1>1 DEF Find, SelectInSeq

\* A text that is divided at the first of its separators.
Divides(text, a, token, b) ==
    /\ Find(text, token) = Len(a) + 1
    /\ Before(text, Len(a) + 1) = a
    /\ After(text, Len(a) + 1) = b

LEMMA Divided ==
    ASSUME NEW S, NEW a \in Seq(S), NEW b \in Seq(S), NEW token \in S, \A i \in 1 .. Len(a) : a[i] # token
    PROVE  a \o <<token>> \o b \in Seq(S) /\ Divides(a \o <<token>> \o b, a, token, b)
<1> DEFINE text == a \o <<token>> \o b
           N == Len(a)
           M == Len(b)
           mid == <<token>>
<1>1. N \in Nat /\ M \in Nat /\ mid \in Seq(S) /\ Len(mid) = 1 /\ mid[1] = token
  BY LenProperties
<1>2. /\ a \o mid \in Seq(S) /\ Len(a \o mid) = N + 1
      /\ \A i \in 1 .. N + 1 : (a \o mid)[i] = IF i <= N THEN a[i] ELSE mid[i - N]
  BY <1>1, ConcatProperties
<1>3. /\ text \in Seq(S) /\ Len(text) = N + 1 + M
      /\ \A i \in 1 .. N + 1 + M : text[i] = IF i <= N + 1 THEN (a \o mid)[i] ELSE b[i - (N + 1)]
  BY <1>1, <1>2, ConcatProperties
<1>4. /\ \A i \in 1 .. N : text[i] = a[i]
      /\ text[N + 1] = token
      /\ \A i \in 1 .. M : text[(N + 1) + i] = b[i]
  BY <1>1, <1>2, <1>3
<1>5. Find(text, token) = N + 1
  <2>1. N + 1 \in 1 .. Len(text) /\ \A i \in 1 .. (N + 1) - 1 : text[i] # token
    BY <1>1, <1>3, <1>4
  <2> QED
    BY <1>3, <1>4, <2>1, FindFirst
<1>6. Before(text, N + 1) = a
  <2>1. Before(text, N + 1) = SubSeq(text, 1, N)
    BY <1>1 DEF Before
  <2> DEFINE c == SubSeq(text, 1, N)
  <2>2. c \in Seq(S) /\ Len(c) = N /\ \A i \in 1 .. N : c[i] = text[i]
    BY <1>1, <1>3, <1>4, SubSeqProperties
  <2> HIDE DEF c
  <2>3. c = a
    BY <1>4, <2>2, SeqEqual
  <2> QED
    BY <2>1, <2>3 DEF c
<1>7. After(text, N + 1) = b
  <2>1. After(text, N + 1) = SubSeq(text, N + 2, N + 1 + M)
    BY <1>1, <1>3 DEF After
  <2> DEFINE c == SubSeq(text, N + 2, N + 1 + M)
  <2>2. c \in Seq(S) /\ Len(c) = M /\ \A i \in 1 .. M : c[i] = text[(N + 1) + i]
    BY <1>1, <1>3, <1>4, SubSeqProperties
  <2> HIDE DEF c
  <2>3. c = b
    BY <1>4, <2>2, SeqEqual
  <2> QED
    BY <2>1, <2>3 DEF c
<1> QED
  BY <1>3, <1>5, <1>6, <1>7 DEF Divides

-------------------------------------------------------------------------------
\* What becomes of host and port, whichever way the port is left out.
Aimed(host, port, forward) == [host |-> host, port |-> port, forward |-> forward]
Or80(port) == IF port = <<>> THEN <<"80">> ELSE port

\* host, and host:port, and host with nothing behind the colon.
HostAndPort(text, host, port) ==
    \/ text = host \o PortPart(port)
    \/ port = <<>> /\ text = host \o <<":">>

LEMMA ParseFacts ==
    ASSUME NEW S, ":" \in S, NEW host \in Seq(S), NEW port \in Seq(S), Free(host, {":"}),
           NEW text, HostAndPort(text, host, port), NEW forward
    PROVE  Parse(Aimed(<<>>, <<"80">>, forward), text) = Aimed(host, Or80(port), forward)
<1> DEFINE t == Aimed(<<>>, <<"80">>, forward)
<1>1. /\ Len(host) \in Nat /\ DOMAIN host = 1 .. Len(host) /\ \A i \in 1 .. Len(host) : host[i] # ":"
      /\ host \o <<>> = host /\ <<>> \in Seq(S)
  BY LenProperties, ConcatEmptySeq DEF Free
<1>2. \A h, p : Aim(t, h, p) = Aimed(h, p, forward) /\ t.port = <<"80">>
  BY DEF Aim, Aimed
<1> HIDE DEF t
<1>3. CASE text = host /\ port = <<>>
  <2>1. Find(text, ":") = 0
    BY <1>1, <1>3, FindNone
  <2> QED
    BY <1>2, <1>3, <2>1 DEF Parse, Or80, t
<1>4. ASSUME NEW b \in Seq(S), text = host \o <<":">> \o b, port = b
      PROVE  Parse(t, text) = Aimed(host, Or80(port), forward)
  <2>1. Divides(text, host, ":", b)
    BY <1>1, <1>4, Divided
  <2>2. Find(text, ":") # 0 /\ Before(text, Find(text, ":")) = host /\ After(text, Find(text, ":")) = b
    BY <1>1, <2>1 DEF Divides
  <2> QED
    BY <1>2, <1>4, <2>2 DEF Parse, Or80
<1>5. CASE text = host \o <<":">> /\ port = <<>>
  <2>1. text = host \o <<":">> \o <<>>
    <3>1. <<":">> \in Seq(S)
      OBVIOUS
    <3>2. host \o <<":">> \in Seq(S)
      BY <3>1, ConcatProperties
    <3> QED
      BY <1>5, <3>2, ConcatEmptySeq
  <2> QED
    BY <1>1, <1>4, <1>5, <2>1 DEF t
<1>6. CASE text = host \o PortPart(port) /\ port # <<>>
  <2>1. text = host \o <<":">> \o port
    <3>1. <<":">> \in Seq(S)
      OBVIOUS
    <3>2. text = host \o (<<":">> \o port)
      BY <1>6 DEF PortPart
    <3> QED
      BY <3>1, <3>2, ConcatAssociative
  <2> QED
    BY <1>4, <2>1 DEF t
<1>7. text = host \o PortPart(port) /\ port = <<>> => text = host
  BY <1>1 DEF PortPart
<1> QED
  BY <1>3, <1>5, <1>6, <1>7 DEF HostAndPort, t

-------------------------------------------------------------------------------
\* Texts that are put together.
LEMMA FreeFacts ==
    ASSUME NEW S, NEW a \in Seq(S), NEW tokens
    PROVE  /\ Free(a, tokens) <=> \A i \in 1 .. Len(a) : a[i] \notin tokens
           /\ \A b \in Seq(S) : Free(a, tokens) /\ Free(b, tokens) => Free(a \o b, tokens)
<1>1. \A c \in Seq(S) : Free(c, tokens) <=> \A i \in 1 .. Len(c) : c[i] \notin tokens
  BY LenProperties DEF Free
<1>2. ASSUME NEW b \in Seq(S), Free(a, tokens), Free(b, tokens) PROVE Free(a \o b, tokens)
  <2> DEFINE c == a \o b
  <2>1. /\ Len(a) \in Nat /\ Len(b) \in Nat
        /\ c \in Seq(S) /\ Len(c) = Len(a) + Len(b)
        /\ \A i \in 1 .. Len(a) + Len(b) : c[i] = IF i <= Len(a) THEN a[i] ELSE b[i - Len(a)]
    BY ConcatProperties, LenProperties
  <2> HIDE DEF c
  <2>2. ASSUME NEW i \in 1 .. Len(c) PROVE c[i] \notin tokens
    <3>1. CASE i <= Len(a)
      BY <1>1, <1>2, <2>1, <3>1
    <3>2. CASE ~ i <= Len(a)
      <4>1. i - Len(a) \in 1 .. Len(b) /\ c[i] = b[i - Len(a)]
        BY <2>1, <3>2
      <4> QED
        BY <1>1, <1>2, <4>1
    <3> QED
      BY <3>1, <3>2
  <2> QED
    BY <1>1, <2>1, <2>2 DEF c
<1> QED
  BY <1>1, <1>2

LEMMA Led ==
    ASSUME NEW S, NEW x \in S, NEW s \in Seq(S)
    PROVE  /\ <<x>> \o s \in Seq(S) /\ <<x>> \o s # <<>> /\ (<<x>> \o s)[1] = x
           /\ Tail(<<x>> \o s) = s
<1> DEFINE l == <<x>>
           t == l \o s
<1>1. l \in Seq(S) /\ Len(l) = 1 /\ l[1] = x /\ Len(s) \in Nat
  BY LenProperties
<1> HIDE DEF l
<1>2. /\ t \in Seq(S) /\ Len(t) = 1 + Len(s)
      /\ \A i \in 1 .. 1 + Len(s) : t[i] = IF i <= 1 THEN l[i] ELSE s[i - 1]
  <2>1. /\ t \in Seq(S) /\ Len(t) = Len(l) + Len(s)
        /\ \A i \in 1 .. Len(l) + Len(s) : t[i] = IF i <= Len(l) THEN l[i] ELSE s[i - Len(l)]
    BY <1>1, ConcatProperties
  <2> HIDE DEF t
  <2> QED
    BY <1>1, <2>1
<1> HIDE DEF t
<1>3. t # <<>> /\ t[1] = x
  BY <1>1, <1>2
<1>4. Tail(t) \in Seq(S) /\ Len(Tail(t)) = Len(s) /\ \A i \in 1 .. Len(s) : Tail(t)[i] = s[i]
  <2>1. /\ Tail(t) \in Seq(S) /\ Len(Tail(t)) = Len(t) - 1
        /\ \A i \in 1 .. Len(Tail(t)) : Tail(t)[i] = t[i + 1]
    BY <1>2, <1>3, HeadTailProperties
  <2>2. \A i \in 1 .. Len(s) : i + 1 \in 1 .. 1 + Len(s) /\ ~ (i + 1 <= 1) /\ (i + 1) - 1 = i
    BY <1>1
  <2> QED
    BY <1>1, <1>2, <2>1, <2>2
<1>5. Tail(t) = s
  BY <1>4, SeqEqual
<1> QED
  BY <1>2, <1>3, <1>5 DEF t, l

\* What a text consists of.
Marks == Tokens \cup {":", "/", "http://", "https://"}
Remains(t, tail) ==
    LET m == Means[t] IN
    /\ Spell[t] = Prefix[m.scheme] \o ((m.host \o PortPart(m.port)) \o tail)
    /\ \/ tail = <<>>
       \/ Absolute(t) /\ tail # <<>> /\ tail[1] = "/"
       \/ ~ Absolute(t) /\ m.port = <<>> /\ tail = <<":">>

LEMMA MeansFacts ==
    ASSUME NEW t \in Texts
    PROVE  /\ Spell[t] \in Seq(Tokens) /\ Spell[t] \in Seq(Marks)
           /\ Means[t].host \in Seq(Tokens) /\ Means[t].host \in Seq(Marks)
           /\ Means[t].port \in Seq(Marks) /\ PortPart(Means[t].port) \in Seq(Marks)
           /\ Means[t].scheme \in {"http", "https", "none", "path"}
           /\ Prefix[Means[t].scheme] \in Seq(Marks)
           /\ IsAbsolute(Spell[t]) <=> Means[t].scheme \in {"http", "https"}
<1>1. /\ Spell[t] \in Seq(Tokens) /\ (IsAbsolute(Spell[t]) <=> Absolute(t))
      /\ Means[t] \in [scheme : DOMAIN Prefix, host : Seq(Tokens), port : Seq(Tokens)]
  BY ForwardingAssumption
<1>2. Seq(Tokens) \subseteq Seq(Marks)
  <2>1. Tokens \subseteq Marks
    BY DEF Marks
  <2> QED
    BY <2>1, SeqMonotonic
<1>3. DOMAIN Prefix = {"http", "https", "none", "path"}
  BY DEF Prefix
<1>4. \A s \in {"http", "https", "none", "path"} : Prefix[s] \in Seq(Marks)
  <2>1. /\ Prefix["http"] = <<"http://">> /\ Prefix["https"] = <<"https://">>
        /\ Prefix["none"] = <<>> /\ Prefix["path"] = <<"/">>
    BY DEF Prefix
  <2>2. <<"http://">> \in Seq(Marks) /\ <<"https://">> \in Seq(Marks) /\ <<>> \in Seq(Marks) /\ <<"/">> \in Seq(Marks)
    BY DEF Marks
  <2> QED
    BY <2>1, <2>2
<1>5. <<":">> \in Seq(Marks) /\ <<>> \in Seq(Marks)
  BY DEF Marks
<1>6. \A p \in Seq(Marks) : PortPart(p) \in Seq(Marks)
  BY <1>5, ConcatProperties DEF PortPart
<1> QED
  BY <1>1, <1>2, <1>3, <1>4, <1>6 DEF Absolute

LEMMA RemainsFacts ==
    ASSUME NEW t \in Texts \ Odd
    PROVE  /\ \E tail \in Seq(Marks) : Remains(t, tail)
           /\ Free(Means[t].host, {":", "/"}) /\ Free(Means[t].port, {"/"})
<1> DEFINE m == Means[t]
           lead == Prefix[m.scheme]
           place == PortPart(m.port)
           head == (lead \o m.host) \o place
           tail == SubSeq(Spell[t], Len(head) + 1, Len(Spell[t]))
<1>1. /\ Spell[t] = head \o tail
      /\ Free(m.host, {":", "/"}) /\ Free(m.port, {"/"})
      /\ \/ tail = <<>>
         \/ Absolute(t) /\ tail[1] = "/"
         \/ ~ Absolute(t) /\ m.port = <<>> /\ tail = <<":">>
  <2>1. SpeltAsMeant(t)
    BY ForwardingAssumption
  <2> QED
    BY <2>1, Zenon DEF SpeltAsMeant
<1>2. Spell[t] \in Seq(Marks) /\ lead \in Seq(Marks) /\ m.host \in Seq(Marks) /\ place \in Seq(Marks)
  BY MeansFacts
<1>3. tail \in Seq(Marks)
  <2> DEFINE a == Len(head) + 1
             n == Len(Spell[t])
  <2>1. lead \o m.host \in Seq(Marks)
    BY <1>2, ConcatProperties
  <2>2. head \in Seq(Marks)
    BY <1>2, <2>1, ConcatProperties
  <2> HIDE DEF head
  <2>3. a \in Int /\ n \in Int /\ 1 <= a
    BY <1>2, <2>2, LenProperties
  <2>4. \A i \in a .. n : Spell[t][i] \in Marks
    BY <1>2, <2>3, ElementOfSeq
  <2> HIDE DEF a, n
  <2>5. SubSeq(Spell[t], a, n) \in Seq(Marks)
    BY <2>3, <2>4, SubSeqProperties
  <2> QED
    BY <2>5 DEF a, n
<1> HIDE DEF tail
<1>4. head \o tail = lead \o ((m.host \o place) \o tail)
  <2> DEFINE h == m.host
             hp == h \o place
  <2> HIDE DEF lead, place, h
  <2>1. lead \in Seq(Marks) /\ h \in Seq(Marks) /\ place \in Seq(Marks) /\ tail \in Seq(Marks)
    BY <1>2, <1>3 DEF h
  <2>2. (lead \o h) \o place = lead \o (h \o place)
    BY <2>1, ConcatAssociative
  <2>3. hp \in Seq(Marks)
    BY <2>1, ConcatProperties
  <2> HIDE DEF hp
  <2>4. (lead \o hp) \o tail = lead \o (hp \o tail)
    BY <2>1, <2>3, ConcatAssociative, SMTT(30)
  <2> QED
    BY <2>2, <2>4 DEF h, hp
<1>5. Remains(t, tail)
  BY <1>1, <1>4 DEF Remains
<1> QED
  BY <1>1, <1>3, <1>5

\* A text that begins with the host.
LEMMA WithoutScheme ==
    ASSUME NEW t \in Texts \ Odd, Means[t].scheme = "none"
    PROVE  /\ HostAndPort(Spell[t], Means[t].host, Means[t].port)
           /\ ~ (Spell[t] # <<>> /\ Spell[t][1] = "/")
<1> DEFINE host == Means[t].host
           port == Means[t].port
           place == PortPart(port)
<1>1. PICK tail \in Seq(Marks) : Remains(t, tail)
  BY RemainsFacts
<1>2. /\ Spell[t] \in Seq(Marks) /\ host \in Seq(Marks) /\ place \in Seq(Marks)
      /\ ~ Absolute(t) /\ Free(host, {":", "/"})
      /\ Prefix["none"] = <<>>
  BY MeansFacts, RemainsFacts DEF Absolute, Prefix
<1>3. Spell[t] = <<>> \o ((host \o place) \o tail) /\ (tail = <<>> \/ (port = <<>> /\ tail = <<":">>))
  BY <1>1, <1>2 DEF Remains
<1>4. port = <<>> => place = <<>>
  BY DEF PortPart
<1> HIDE DEF host, place, port
<1>5. host \o place \in Seq(Marks)
  BY <1>2, ConcatProperties
<1> DEFINE all == (host \o place) \o tail
<1>6. all \in Seq(Marks)
  BY <1>5, ConcatProperties
<1> HIDE DEF all
<1>7. Spell[t] = all
  BY <1>3, <1>6, ConcatEmptySeq DEF all
<1>8. HostAndPort(Spell[t], host, port)
  <2>1. CASE tail = <<>>
    BY <1>5, <1>7, <2>1, ConcatEmptySeq DEF HostAndPort, all, place
  <2>2. CASE port = <<>> /\ tail = <<":">>
    <3>1. host \o place = host
      BY <1>2, <1>4, <2>2, ConcatEmptySeq
    <3> QED
      BY <1>7, <2>2, <3>1 DEF HostAndPort, all
  <2> QED
    BY <1>3, <2>1, <2>2
<1>9. ASSUME Spell[t] # <<>>, Spell[t][1] = "/" PROVE FALSE
  <2>1. CASE host # <<>>
    <3>1. Len(host) \in Nat /\ Len(host) # 0 /\ Len(place) \in Nat /\ Len(tail) \in Nat
      BY <1>2, <2>1, LenProperties, EmptySeq
    <3>2. (host \o place)[1] = host[1] /\ Len(host \o place) = Len(host) + Len(place)
      BY <1>2, <3>1, ConcatProperties
    <3>3. all[1] = (host \o place)[1]
      BY <1>5, <3>1, <3>2, ConcatProperties DEF all
    <3>4. host[1] # "/"
      BY <1>2, <3>1, FreeFacts
    <3> QED
      BY <1>7, <1>9, <3>2, <3>3, <3>4
  <2>2. CASE host = <<>>
    <3>1. Spell[t] = place \/ Spell[t] = <<":">>
      <4>1. CASE Spell[t] = host \o place
        BY <1>2, <2>2, <4>1, ConcatEmptySeq
      <4>2. CASE Spell[t] = host \o <<":">>
        <5>1. <<":">> \in Seq(Marks)
          BY DEF Marks
        <5> QED
          BY <2>2, <4>2, <5>1, ConcatEmptySeq
      <4> QED
        BY <1>8, <4>1, <4>2 DEF HostAndPort, place
    <3>2. place = <<>> \/ place[1] = ":"
      <4>1. port \in Seq(Marks) /\ ":" \in Marks
        BY MeansFacts DEF port, Marks
      <4> QED
        BY <4>1, Led DEF PortPart, place
    <3> QED
      BY <1>9, <3>1, <3>2
  <2> QED
    BY <2>1, <2>2
<1> QED
  BY <1>8, <1>9 DEF host, port

\* The slash of the path goes, and the rest begins with the host.
LEMMA BehindTheSlash ==
    ASSUME NEW t \in Texts \ Odd, Means[t].scheme = "path"
    PROVE  /\ Spell[t] # <<>> /\ Spell[t][1] = "/"
           /\ HostAndPort(Tail(Spell[t]), Means[t].host, Means[t].port)
<1> DEFINE host == Means[t].host
           port == Means[t].port
           place == PortPart(port)
<1>1. PICK tail \in Seq(Marks) : Remains(t, tail)
  BY RemainsFacts
<1>2. /\ host \in Seq(Marks) /\ place \in Seq(Marks) /\ ~ Absolute(t)
      /\ Prefix["path"] = <<"/">>
  BY MeansFacts, RemainsFacts DEF Absolute, Prefix
<1>3. Spell[t] = <<"/">> \o ((host \o place) \o tail) /\ (tail = <<>> \/ (port = <<>> /\ tail = <<":">>))
  BY <1>1, <1>2 DEF Remains
<1>4. port = <<>> => place = <<>>
  BY DEF PortPart
<1> HIDE DEF host, place, port
<1>5. host \o place \in Seq(Marks) /\ "/" \in Marks
  BY <1>2, ConcatProperties DEF Marks
<1> DEFINE all == (host \o place) \o tail
<1>6. all \in Seq(Marks)
  BY <1>5, ConcatProperties
<1> HIDE DEF all
<1>7. Spell[t] # <<>> /\ Spell[t][1] = "/" /\ Tail(Spell[t]) = all
  BY <1>3, <1>5, <1>6, Led DEF all
<1>8. HostAndPort(all, host, port)
  <2>1. CASE tail = <<>>
    BY <1>5, <2>1, ConcatEmptySeq DEF HostAndPort, all, place
  <2>2. CASE port = <<>> /\ tail = <<":">>
    <3>1. host \o place = host
      BY <1>2, <1>4, <2>2, ConcatEmptySeq
    <3> QED
      BY <2>2, <3>1 DEF HostAndPort, all
  <2> QED
    BY <1>3, <2>1, <2>2
<1> QED
  BY <1>7, <1>8 DEF host, port

\* What is between the scheme and the next slash.
LEMMA BetweenTheSlashes ==
    ASSUME NEW t \in Texts \ Odd, Absolute(t)
    PROVE  /\ Spell[t][1] = IF Means[t].scheme = "https" THEN "https://" ELSE "http://"
           /\ Authority(Spell[t]) = Means[t].host \o PortPart(Means[t].port)
<1> DEFINE host == Means[t].host
           port == Means[t].port
           place == PortPart(port)
           uri == Spell[t]
           scheme == IF Means[t].scheme = "https" THEN "https://" ELSE "http://"
<1>1. PICK tail \in Seq(Marks) : Remains(t, tail)
  BY RemainsFacts
<1>2. /\ host \in Seq(Marks) /\ port \in Seq(Marks) /\ place \in Seq(Marks)
      /\ Free(host, {":", "/"}) /\ Free(port, {"/"})
      /\ Prefix["http"] = <<"http://">> /\ Prefix["https"] = <<"https://">>
      /\ Means[t].scheme \in {"http", "https"}
  BY MeansFacts, RemainsFacts DEF Absolute, Prefix
<1>3. uri = <<scheme>> \o ((host \o place) \o tail) /\ (tail = <<>> \/ (tail # <<>> /\ tail[1] = "/"))
  BY <1>1, <1>2 DEF Remains
<1>4. "/" \in Marks /\ ":" \in Marks /\ scheme \in Marks
  BY DEF Marks
<1>5. Free(host, {"/"}) /\ Free(place, {"/"})
  <2>1. \A i \in 1 .. Len(host) : host[i] \notin {"/"}
    BY <1>2, FreeFacts
  <2>2. ASSUME port = <<>> PROVE Free(place, {"/"})
    <3>1. place = <<>>
      BY <2>2 DEF PortPart
    <3> HIDE DEF place
    <3> QED
      BY <3>1 DEF Free
  <2>3. ASSUME port # <<>> PROVE Free(place, {"/"})
    <3> DEFINE colon == <<":">>
    <3>1. colon \in Seq(Marks) /\ Free(colon, {"/"})
      BY <1>4 DEF Free
    <3>2. place = colon \o port
      BY <2>3 DEF PortPart
    <3> HIDE DEF colon, place, port
    <3> QED
      BY <1>2, <3>1, <3>2, FreeFacts
  <2> QED
    BY <1>2, <2>1, <2>2, <2>3, FreeFacts
<1> HIDE DEF host, place, port, uri, scheme
<1> DEFINE authority == host \o place
<1>6. authority \in Seq(Marks) /\ Free(authority, {"/"})
  BY <1>2, <1>5, ConcatProperties, FreeFacts
<1> HIDE DEF authority
<1> DEFINE rest == authority \o tail
<1>7. rest \in Seq(Marks)
  BY <1>6, ConcatProperties
<1>8. \A i \in 1 .. Len(authority) : authority[i] # "/"
  BY <1>6, FreeFacts
<1> HIDE DEF rest
<1>9. uri = <<scheme>> \o rest
  BY <1>3 DEF rest, authority
<1>10. uri[1] = scheme /\ Tail(uri) = rest
  BY <1>4, <1>7, <1>9, Led
<1>11. (IF Find(rest, "/") = 0 THEN rest ELSE Before(rest, Find(rest, "/"))) = authority
  <2>1. CASE tail = <<>>
    <3>1. rest = authority
      BY <1>6, <2>1, ConcatEmptySeq DEF rest
    <3>2. Find(rest, "/") = 0
      BY <1>6, <1>8, <3>1, FindNone
    <3> QED
      BY <3>1, <3>2
  <2>2. CASE tail # <<>> /\ tail[1] = "/"
    <3> DEFINE path == Tail(tail)
    <3>1. path \in Seq(Marks) /\ tail = <<"/">> \o path
      <4>1. path \in Seq(Marks) /\ Head(tail) = "/" /\ tail = <<Head(tail)>> \o path
        BY <2>2, HeadTailProperties, HeadTailAppend
      <4> QED
        BY <4>1
    <3> HIDE DEF path
    <3>2. rest = authority \o <<"/">> \o path
      <4>1. <<"/">> \in Seq(Marks)
        BY <1>4
      <4>2. (authority \o <<"/">>) \o path = authority \o (<<"/">> \o path)
        BY <1>6, <3>1, <4>1, ConcatAssociative
      <4> QED
        BY <3>1, <4>2 DEF rest
    <3>3. Divides(rest, authority, "/", path)
      BY <1>4, <1>6, <1>8, <3>1, <3>2, Divided
    <3>4. Len(authority) \in Nat
      BY <1>6, LenProperties
    <3> QED
      BY <3>3, <3>4 DEF Divides
  <2> QED
    BY <1>3, <2>1, <2>2
<1>12. Authority(uri) = authority
  BY <1>10, <1>11 DEF Authority
<1> QED
  BY <1>10, <1>12 DEF authority, host, place, port, uri, scheme

-------------------------------------------------------------------------------
\* What resolve makes of a text that is spelt as it is meant.
LEMMA NoTargetFacts ==
    /\ NoTarget = Aimed(<<>>, <<"80">>, FALSE)
    /\ [NoTarget EXCEPT !.forward = TRUE] = Aimed(<<>>, <<"80">>, TRUE)
<1> DEFINE yes == TRUE
           no == FALSE
<1>1. NoTarget = Aimed(<<>>, <<"80">>, no)
  BY DEF NoTarget, Aimed
<1> HIDE DEF yes, no
<1>2. [NoTarget EXCEPT !.forward = yes] = Aimed(<<>>, <<"80">>, yes)
  BY <1>1 DEF Aimed
<1> QED
  BY <1>1, <1>2 DEF yes, no

LEMMA ParseMeant ==
    ASSUME NEW t \in Texts \ Odd, NEW text, HostAndPort(text, Means[t].host, Means[t].port), NEW forward
    PROVE  Parse(Aimed(<<>>, <<"80">>, forward), text) = Aimed(Means[t].host, Or80(Means[t].port), forward)
<1> DEFINE host == Means[t].host
           port == Means[t].port
<1>1. host \in Seq(Marks) /\ port \in Seq(Marks) /\ ":" \in Marks
  BY MeansFacts DEF Marks
<1>2. Free(host, {":"})
  <2>1. Free(host, {":", "/"})
    BY RemainsFacts
  <2> QED
    BY <2>1 DEF Free
<1>3. HostAndPort(text, host, port)
  OBVIOUS
<1> HIDE DEF host, port
<1>4. Parse(Aimed(<<>>, <<"80">>, forward), text) = Aimed(host, Or80(port), forward)
  BY <1>1, <1>2, <1>3, ParseFacts
<1> QED
  BY <1>4 DEF host, port

LEMMA ResolvedConnect ==
    ASSUME NEW t \in Texts \ Odd, Means[t].scheme = "none", NEW other
    PROVE  Resolve("connect", Spell[t], other) =
             Aimed(Means[t].host, IF Or80(Means[t].port) = <<"80">> THEN <<"443">> ELSE Or80(Means[t].port), TRUE)
<1> DEFINE yes == TRUE
           c == Parse(Aimed(<<>>, <<"80">>, yes), Spell[t])
<1>1. c = Aimed(Means[t].host, Or80(Means[t].port), yes)
  BY WithoutScheme, ParseMeant
<1>2. Resolve("connect", Spell[t], other) = IF c.port = <<"80">> THEN Aim(c, c.host, <<"443">>) ELSE c
  BY NoTargetFacts DEF Resolve
<1> HIDE DEF c, yes
<1>3. /\ c.host = Means[t].host /\ c.port = Or80(Means[t].port)
      /\ Aim(c, c.host, <<"443">>) = Aimed(Means[t].host, <<"443">>, yes)
  BY <1>1 DEF Aim, Aimed
<1> QED
  BY <1>1, <1>2, <1>3 DEF yes

LEMMA ResolvedAbsolute ==
    ASSUME NEW t \in Texts \ Odd, Absolute(t), NEW method, method # "connect", NEW other
    PROVE  Resolve(method, Spell[t], other) =
             Aimed(Means[t].host,
                   IF Means[t].port # <<>> THEN Means[t].port
                   ELSE IF Means[t].scheme = "https" THEN <<"443">> ELSE <<"80">>,
                   TRUE)
<1> DEFINE host == Means[t].host
           port == Means[t].port
           uri == Spell[t]
           https == Means[t].scheme = "https"
           new == Aimed(<<>>, <<"80">>, TRUE)
           authority == Authority(uri)
           colon == Find(authority, ":")
<1>1. /\ host \in Seq(Marks) /\ port \in Seq(Marks) /\ ":" \in Marks
      /\ IsAbsolute(uri) /\ (uri[1] = "https://" <=> https)
      /\ authority = host \o PortPart(port)
  BY MeansFacts, BetweenTheSlashes DEF Marks, Absolute
<1>2. \A i \in 1 .. Len(host) : host[i] # ":"
  BY <1>1, RemainsFacts, FreeFacts
<1>3. Resolve(method, uri, other) = ParseAbsolute(new, uri)
  BY <1>1, NoTargetFacts DEF Resolve
<1>4. ParseAbsolute(new, uri) =
        IF colon = 0 THEN Aim(new, authority, IF https THEN <<"443">> ELSE <<"80">>)
        ELSE Aim(new, Before(authority, colon), After(authority, colon))
  BY <1>1 DEF ParseAbsolute
<1>5. \A h, p : Aim(new, h, p) = Aimed(h, p, TRUE)
  BY DEF Aim, Aimed
<1> HIDE DEF new, https, uri, host, port
<1>6. CASE port = <<>>
  <2>1. authority = host
    BY <1>1, <1>6, ConcatEmptySeq DEF PortPart
  <2>2. colon = 0
    BY <1>1, <1>2, <2>1, FindNone
  <2> QED
    BY <1>3, <1>4, <1>5, <1>6, <2>1, <2>2 DEF host, port, uri, https
<1>7. CASE port # <<>>
  <2>1. authority = host \o <<":">> \o port
    <3>1. <<":">> \in Seq(Marks)
      BY <1>1
    <3>2. (host \o <<":">>) \o port = host \o (<<":">> \o port)
      BY <1>1, <3>1, ConcatAssociative
    <3> QED
      BY <1>1, <1>7, <3>2 DEF PortPart
  <2> HIDE DEF authority
  <2>2. Divides(authority, host, ":", port)
    BY <1>1, <1>2, <2>1, Divided
  <2>3. colon # 0 /\ Before(authority, colon) = host /\ After(authority, colon) = port
    <3>1. Len(host) \in Nat
      BY <1>1, LenProperties
    <3> QED
      BY <2>2, <3>1 DEF Divides
  <2>4. ParseAbsolute(new, uri) = Aimed(host, port, TRUE)
    BY <1>4, <1>5, <2>3 DEF authority
  <2> QED
    BY <1>3, <1>7, <2>4 DEF host, port, uri
<1> QED
  BY <1>6, <1>7

LEMMA ResolvedByHost ==
    ASSUME NEW t \in Texts \ Odd, Means[t].scheme = "none", NEW method, method # "connect",
           NEW uri, ~ IsAbsolute(uri)
    PROVE  Resolve(method, uri, Spell[t]) = Aimed(Means[t].host, Or80(Means[t].port), FALSE)
<1>1. Parse(Aimed(<<>>, <<"80">>, FALSE), Spell[t]) = Aimed(Means[t].host, Or80(Means[t].port), FALSE)
  BY WithoutScheme, ParseMeant
<1> QED
  BY <1>1, NoTargetFacts DEF Resolve

LEMMA ResolvedPath ==
    ASSUME NEW t \in Texts \ Odd, Means[t].scheme \in {"none", "path"}
    PROVE  ResolvePath(Spell[t]) = Aimed(Means[t].host, Or80(Means[t].port), TRUE)
<1> DEFINE path == Spell[t]
           text == IF path # <<>> /\ path[1] = "/" THEN Tail(path) ELSE path
<1>1. HostAndPort(text, Means[t].host, Means[t].port)
  <2>1. CASE Means[t].scheme = "none"
    BY <2>1, WithoutScheme
  <2>2. CASE Means[t].scheme = "path"
    BY <2>2, BehindTheSlash
  <2> QED
    BY <2>1, <2>2
<1>2. ResolvePath(path) = Parse(Aimed(<<>>, <<"80">>, TRUE), text)
  BY NoTargetFacts DEF ResolvePath
<1> HIDE DEF text
<1>3. Parse(Aimed(<<>>, <<"80">>, TRUE), text) = Aimed(Means[t].host, Or80(Means[t].port), TRUE)
  BY <1>1, ParseMeant
<1> QED
  BY <1>2, <1>3

\* What resolve makes of any text.
LEMMA FindRange ==
    ASSUME NEW S, NEW text \in Seq(S), NEW token
    PROVE  /\ Find(text, token) \in 0 .. Len(text)
           /\ Find(text, token) # 0 => Before(text, Find(text, token)) \in Seq(S)
<1> DEFINE I == {i \in 1 .. Len(text) : text[i] = token}
           p == Find(text, token)
<1>1. Len(text) \in Nat /\ I \subseteq Nat
  BY LenProperties
<1>2. p = IF I # {} THEN Min(I) ELSE 0
  BY DEF Find, SelectInSeq
<1> HIDE DEF p
<1>3. p \in 0 .. Len(text)
  <2>1. CASE I # {}
    <3> HIDE DEF I
    <3>1. Min(I) \in I
      BY <1>1, <2>1, MinFacts
    <3> QED
      BY <1>1, <1>2, <2>1, <3>1 DEF I
  <2> QED
    BY <1>1, <1>2, <2>1
<1>4. p # 0 => Before(text, p) \in Seq(S)
  <2> DEFINE m == p - 1
  <2>1. m \in Int /\ 1 \in Int /\ m <= Len(text)
    BY <1>1, <1>3
  <2>2. \A i \in 1 .. m : text[i] \in S
    BY <1>1, <2>1, ElementOfSeq
  <2> HIDE DEF m
  <2>3. SubSeq(text, 1, m) \in Seq(S)
    BY <2>1, <2>2, SubSeqProperties
  <2> QED
    BY <2>3 DEF Before, m
<1> QED
  BY <1>3, <1>4 DEF p

LEMMA ParseType ==
    ASSUME NEW S, NEW t, NEW src \in Seq(S)
    PROVE  Parse(t, src).host \in Seq(S) /\ Parse(t, src).forward = t.forward
<1>1. \A h, p : Aim(t, h, p).host = h /\ Aim(t, h, p).forward = t.forward
  BY DEF Aim
<1>2. Find(src, ":") # 0 => Before(src, Find(src, ":")) \in Seq(S)
  BY FindRange
<1> QED
  BY <1>1, <1>2 DEF Parse

LEMMA AbsoluteType ==
    ASSUME NEW S, NEW t, NEW uri \in Seq(S), uri # <<>>
    PROVE  ParseAbsolute(t, uri).host \in Seq(S) /\ ParseAbsolute(t, uri).forward = t.forward
<1> DEFINE authority == Authority(uri)
<1>1. \A h, p : Aim(t, h, p).host = h /\ Aim(t, h, p).forward = t.forward
  BY DEF Aim
<1>2. Tail(uri) \in Seq(S)
  BY HeadTailProperties
<1>3. authority \in Seq(S)
  BY <1>2, FindRange DEF Authority
<1>4. Find(authority, ":") # 0 => Before(authority, Find(authority, ":")) \in Seq(S)
  BY <1>3, FindRange
<1> HIDE DEF authority
<1>5. \/ ParseAbsolute(t, uri) = Aim(t, authority, IF uri[1] = "https://" THEN <<"443">> ELSE <<"80">>)
      \/ /\ Find(authority, ":") # 0
         /\ ParseAbsolute(t, uri) = Aim(t, Before(authority, Find(authority, ":")), After(authority, Find(authority, ":")))
  BY DEF ParseAbsolute, authority
<1> QED
  BY <1>1, <1>3, <1>4, <1>5

LEMMA ResolveType ==
    ASSUME NEW S, NEW method, NEW uri \in Seq(S), NEW host \in Seq(S)
    PROVE  /\ Resolve(method, uri, host).host \in Seq(S)
           /\ Resolve(method, uri, host).forward = (method = "connect" \/ IsAbsolute(uri))
<1> DEFINE yes == TRUE
           no == FALSE
           new == Aimed(<<>>, <<"80">>, yes)
           old == Aimed(<<>>, <<"80">>, no)
           c == Parse(new, uri)
           r == Resolve(method, uri, host)
<1>1. r = IF method = "connect" THEN IF c.port = <<"80">> THEN Aim(c, c.host, <<"443">>) ELSE c
          ELSE IF IsAbsolute(uri) THEN ParseAbsolute(new, uri) ELSE Parse(old, host)
  BY NoTargetFacts DEF Resolve
<1> HIDE DEF yes, no, r
<1>2. new.forward = yes /\ old.forward = no
  BY DEF Aimed
<1> HIDE DEF new, old
<1>3. c.host \in Seq(S) /\ c.forward = yes
  BY <1>2, ParseType
<1>4. Aim(c, c.host, <<"443">>).host \in Seq(S) /\ Aim(c, c.host, <<"443">>).forward = yes
  BY <1>3 DEF Aim
<1>5. IsAbsolute(uri) => ParseAbsolute(new, uri).host \in Seq(S) /\ ParseAbsolute(new, uri).forward = yes
  BY <1>2, AbsoluteType DEF IsAbsolute
<1>6. Parse(old, host).host \in Seq(S) /\ Parse(old, host).forward = no
  BY <1>2, ParseType
<1> HIDE DEF c
<1>7. r.host \in Seq(S) /\ r.forward = IF method = "connect" \/ IsAbsolute(uri) THEN yes ELSE no
  BY <1>1, <1>3, <1>4, <1>5, <1>6
<1> QED
  BY <1>7 DEF r, yes, no

LEMMA ResolvePathType ==
    ASSUME NEW S, NEW path \in Seq(S)
    PROVE  ResolvePath(path).host \in Seq(S) /\ ResolvePath(path).forward = TRUE
<1> DEFINE yes == TRUE
           new == Aimed(<<>>, <<"80">>, yes)
           text == IF path # <<>> /\ path[1] = "/" THEN Tail(path) ELSE path
<1>1. ResolvePath(path) = Parse(new, text)
  BY NoTargetFacts DEF ResolvePath
<1>2. text \in Seq(S)
  BY HeadTailProperties
<1> HIDE DEF yes, text
<1>3. new.forward = yes
  BY DEF Aimed
<1> HIDE DEF new
<1>4. Parse(new, text).host \in Seq(S) /\ Parse(new, text).forward = yes
  BY <1>2, <1>3, ParseType
<1> QED
  BY <1>1, <1>4 DEF yes

-------------------------------------------------------------------------------
\* The table of backends.
Extends(g, f, x, v) ==
    /\ DOMAIN g = DOMAIN f \cup {x}
    /\ g[x] = v
    /\ \A y \in DOMAIN f : y # x => g[y] = f[y]

LEMMA Extended == ASSUME NEW f, NEW x, NEW v PROVE Extends(Table!With(f, x, v), f, x, v)
BY DEF Table!With, Extends

Backends == [name : Seq(Tokens), host : STRING, port : Nat]
Own(rs, name, n) == {i \in 1 .. n : rs[i].name = name /\ Table!Usable(rs[i])}

\* f is what the first n entries have made of the table that began as base.
Maps(f, base, rs, n) ==
    \A x \in DOMAIN f :
        \/ \E i \in Own(rs, x, n) : x # <<>> /\ (\A j \in Own(rs, x, n) : j <= i) /\ f[x] = Table!Endpoint(rs[i])
        \/ Own(rs, x, n) = {} /\ x \in DOMAIN base /\ f[x] = base[x]

LEMMA MapsStep ==
    ASSUME NEW rs \in Seq(Backends), NEW n \in 1 .. Len(rs), NEW f, NEW base, Maps(f, base, rs, n - 1),
           <<>> \notin DOMAIN base, NEW g, g = Table!Enter(f, rs[n])
    PROVE  Maps(g, base, rs, n)
<1> DEFINE e == rs[n]
<1>1. Len(rs) \in Nat /\ n \in Nat /\ n >= 1 /\ n - 1 \in Nat
  BY LenProperties
<1>2. /\ 1 .. n = (1 .. n - 1) \cup {n} /\ n \notin 1 .. n - 1
      /\ \A j \in 1 .. n - 1 : j <= n
  BY <1>1
<1>3. SUFFICES ASSUME NEW x \in DOMAIN g
               PROVE  \/ \E i \in Own(rs, x, n) : /\ x # <<>>
                                                  /\ \A j \in Own(rs, x, n) : j <= i
                                                  /\ g[x] = Table!Endpoint(rs[i])
                      \/ Own(rs, x, n) = {} /\ x \in DOMAIN base /\ g[x] = base[x]
  BY DEF Maps
<1>4. CASE e.name = x /\ x # <<>> /\ Table!Usable(e)
  <2>1. n \in Own(rs, x, n) /\ \A j \in Own(rs, x, n) : j <= n
    BY <1>1, <1>4 DEF Own
  <2>2. g[x] = Table!Endpoint(rs[n])
    <3>1. g = Table!With(f, x, Table!Endpoint(rs[n]))
      BY <1>4 DEF Table!Enter
    <3>2. Extends(g, f, x, Table!Endpoint(rs[n]))
      BY <3>1, Extended
    <3> QED
      BY <3>2 DEF Extends
  <2> QED
    BY <1>4, <2>1, <2>2
<1>5. CASE ~ (e.name = x /\ x # <<>> /\ Table!Usable(e))
  <2>1. x \in DOMAIN f /\ g[x] = f[x]
    <3>1. CASE rs[n].name = <<>> \/ ~ Table!Usable(rs[n])
      BY <1>3, <3>1 DEF Table!Enter
    <3>2. CASE ~ (rs[n].name = <<>> \/ ~ Table!Usable(rs[n]))
      <4> DEFINE y == rs[n].name
                 v == Table!Endpoint(rs[n])
      <4>1. g = Table!With(f, y, v) /\ y # x
        BY <1>5, <3>2 DEF Table!Enter
      <4> HIDE DEF y, v
      <4>2. Extends(g, f, y, v)
        BY <4>1, Extended
      <4> QED
        BY <1>3, <4>1, <4>2 DEF Extends
    <3> QED
      BY <3>1, <3>2
  <2>2. x # <<>>
    BY <2>1 DEF Maps
  <2>3. Own(rs, x, n) = Own(rs, x, n - 1)
    <3>1. n \notin Own(rs, x, n)
      BY <1>5, <2>2 DEF Own
    <3> QED
      BY <1>2, <3>1 DEF Own
  <2> QED
    BY <2>1, <2>3 DEF Maps
<1> QED
  BY <1>4, <1>5

\* g says what has become of the table after each entry.
Enters(g, base, rs, n) ==
    /\ DOMAIN g = 0 .. n
    /\ g[0] = base
    /\ \A i \in 1 .. n : g[i] = Table!Enter(g[i - 1], rs[i])

LEMMA EntersExists ==
    ASSUME NEW N \in Nat, NEW rs, NEW base
    PROVE  \E g : Enters(g, base, rs, N)
<1> DEFINE P == {n \in 0 .. N : \E g : Enters(g, base, rs, n)}
<1>1. 0 \in P
  <2> DEFINE g == [i \in 0 .. 0 |-> base]
  <2>1. Enters(g, base, rs, 0)
    BY DEF Enters
  <2> HIDE DEF g
  <2> QED
    BY <2>1
<1>2. ASSUME NEW n \in 1 .. N, n - 1 \in P PROVE n \in P
  <2>1. PICK g : Enters(g, base, rs, n - 1)
    BY <1>2
  <2> DEFINE h == [i \in 0 .. n |-> IF i = n THEN Table!Enter(g[n - 1], rs[n]) ELSE g[i]]
  <2>2. DOMAIN h = 0 .. n /\ h[0] = base
    BY <2>1 DEF Enters
  <2>3. ASSUME NEW i \in 1 .. n PROVE h[i] = Table!Enter(h[i - 1], rs[i])
    <3>1. CASE i = n
      BY <3>1
    <3>2. CASE i # n
      <4>1. i \in 1 .. n - 1 /\ i - 1 # n /\ i - 1 \in 0 .. n
        BY <3>2
      <4>2. h[i] = g[i] /\ h[i - 1] = g[i - 1]
        BY <4>1
      <4>3. g[i] = Table!Enter(g[i - 1], rs[i])
        BY <2>1, <4>1 DEF Enters
      <4> QED
        BY <4>2, <4>3
    <3> QED
      BY <3>1, <3>2
  <2> HIDE DEF h
  <2>4. Enters(h, base, rs, n)
    BY <2>2, <2>3 DEF Enters
  <2> QED
    BY <2>4
<1>3. P = 0 .. N
  <2>1. P \in SUBSET (0 .. N)
    OBVIOUS
  <2> HIDE DEF P
  <2> QED
    BY <1>1, <1>2, <2>1, Prefixwise
<1> QED
  BY <1>3

\* load_reverse_map: a name that is found has the last of the entries that name it
\* and an address, or it is the name of the addressable section.
LEMMA LoadFacts ==
    ASSUME NEW c \in Configurations
    PROVE  /\ <<>> \notin DOMAIN Table!Addressable(c)
           /\ Maps(Table!LoadReverseMap(c), Table!Addressable(c), c.reverseMap, Len(c.reverseMap))
<1> DEFINE rs == c.reverseMap
           N == Len(rs)
           base == Table!Addressable(c)
           Rec(f) == [n \in 0 .. Len(c.reverseMap) |->
                        IF n = 0 THEN Table!Addressable(c) ELSE Table!Enter(f[n - 1], c.reverseMap[n])]
           map == CHOOSE f : f = Rec(f)
<1>1. rs \in Seq(Backends) /\ N \in Nat
  <2>1. rs \in Seq(Backends)
    BY ForwardingAssumption DEF Backends
  <2> QED
    BY <2>1, LenProperties
<1>2. Table!LoadReverseMap(c) = map[N]
  BY DEF Table!LoadReverseMap
<1>3. <<>> \notin DOMAIN base
  <2> DEFINE name == IF c.positive = <<>> THEN Table!LocalHost ELSE c.positive
             v == Table!Endpoint(c.addressable)
  <2>1. name # <<>>
    BY DEF Table!LocalHost
  <2>2. base = <<>> \/ base = Table!With(<<>>, name, v)
    BY DEF Table!Addressable
  <2> HIDE DEF name, v, base
  <2>3. DOMAIN <<>> = {}
    OBVIOUS
  <2>4. Extends(Table!With(<<>>, name, v), <<>>, name, v)
    BY Extended
  <2> QED
    BY <2>1, <2>2, <2>3, <2>4 DEF Extends
<1>4. PICK g : Enters(g, base, rs, N)
  <2> HIDE DEF base, rs, N
  <2> QED
    BY <1>1, EntersExists
<1>5. g = Rec(g)
  <2>1. \A n \in 0 .. N : n # 0 => n \in 1 .. N
    BY <1>1
  <2>2. \A n \in 0 .. N : g[n] = Rec(g)[n]
    BY <1>4, <2>1 DEF Enters
  <2>3. Rec(g) = [n \in 0 .. N |-> Rec(g)[n]] /\ g = [n \in 0 .. N |-> g[n]]
    BY <1>4 DEF Enters
  <2> HIDE DEF Rec, N
  <2> QED
    BY <2>2, <2>3
<1>6. map = Rec(map)
  <2> HIDE DEF Rec
  <2> QED
    BY <1>5
<1>7. /\ map[0] = base
      /\ \A n \in 1 .. N : map[n] = Table!Enter(map[n - 1], rs[n])
  <2> HIDE DEF map
  <2>1. \A n \in 0 .. N : map[n] = Rec(map)[n]
    BY <1>6
  <2>2. 0 \in 0 .. N /\ \A n \in 1 .. N : n \in 0 .. N /\ n # 0
    BY <1>1
  <2> QED
    BY <2>1, <2>2
<1> HIDE DEF map, base, rs
<1> DEFINE P == {n \in 0 .. N : Maps(map[n], base, rs, n)}
<1>8. 0 \in P
  <2>1. \A x \in DOMAIN base : Own(rs, x, 0) = {}
    BY DEF Own
  <2> QED
    BY <1>1, <1>7, <2>1 DEF Maps
<1>9. ASSUME NEW n \in 1 .. N, n - 1 \in P PROVE n \in P
  <2>1. Maps(map[n - 1], base, rs, n - 1) /\ n \in 1 .. Len(rs) /\ map[n] = Table!Enter(map[n - 1], rs[n])
    BY <1>7, <1>9
  <2> DEFINE f == map[n - 1]
             h == map[n]
  <2> HIDE DEF f, h
  <2>2. Maps(h, base, rs, n)
    BY <1>1, <1>3, <2>1, MapsStep DEF f, h
  <2>3. n \in 0 .. N
    BY <1>1
  <2> QED
    BY <2>2, <2>3 DEF h
<1>10. P = 0 .. N
  <2>1. P \in SUBSET (0 .. N)
    OBVIOUS
  <2> HIDE DEF P, N
  <2> QED
    BY <1>1, <1>8, <1>9, <2>1, Prefixwise
<1>11. N \in P
  BY <1>1, <1>10
<1> QED
  BY <1>2, <1>3, <1>11 DEF base, rs

LEMMA LastOf ==
    ASSUME NEW S \in SUBSET Nat, NEW m \in S, \A n \in S : n <= m
    PROVE  Max(S) = m
<1>1. m \in S /\ \A n \in S : m >= n
  OBVIOUS
<1>2. \A x \in S : (\A n \in S : x >= n) => x = m
  <2> TAKE x \in S
  <2> HAVE \A n \in S : x >= n
  <2>1. x >= m /\ x <= m /\ x \in Nat /\ m \in Nat
    OBVIOUS
  <2> QED
    BY <2>1
<1> QED
  BY <1>1, <1>2 DEF Max

LEMMA BackendFound ==
    ASSUME config \in Configurations, routes = Table!LoadReverseMap(config), NEW name \in DOMAIN routes
    PROVE  IsBackend(name, routes[name])
<1> DEFINE rs == config.reverseMap
           own == {i \in DOMAIN rs : rs[i].name = name /\ Table!Usable(rs[i])}
           base == Table!Addressable(config)
           known == IF config.positive = <<>> THEN Table!LocalHost ELSE config.positive
           v == Table!Endpoint(config.addressable)
<1>1. rs \in Seq(Backends) /\ Len(rs) \in Nat /\ DOMAIN rs = 1 .. Len(rs)
  <2>1. rs \in Seq(Backends)
    BY ForwardingAssumption DEF Backends
  <2> QED
    BY <2>1, LenProperties
<1>2. own = Own(rs, name, Len(rs)) /\ own \subseteq Nat
  BY <1>1 DEF Own
<1>3. Maps(routes, base, rs, Len(rs))
  BY LoadFacts
<1> HIDE DEF rs, base, own, known, v
<1>4. \/ \E i \in own : (\A j \in own : j <= i) /\ routes[name] = Table!Endpoint(rs[i])
      \/ own = {} /\ name \in DOMAIN base /\ routes[name] = base[name]
  BY <1>2, <1>3 DEF Maps
<1>5. CASE \E i \in own : (\A j \in own : j <= i) /\ routes[name] = Table!Endpoint(rs[i])
  <2>1. PICK i \in own : (\A j \in own : j <= i) /\ routes[name] = Table!Endpoint(rs[i])
    BY <1>5
  <2>2. Max(own) = i
    BY <1>2, <2>1, LastOf
  <2>3. own # {} /\ routes[name] = Table!Endpoint(rs[Max(own)])
    BY <2>1, <2>2
  <2> QED
    BY <2>3 DEF IsBackend, own, rs
<1>6. CASE own = {} /\ name \in DOMAIN base /\ routes[name] = base[name]
  <2>1. base = IF ~ Table!Usable(config.addressable) THEN <<>> ELSE Table!With(<<>>, known, v)
    BY DEF base, known, v, Table!Addressable
  <2>2. Table!Usable(config.addressable) /\ base = Table!With(<<>>, known, v)
    <3>1. DOMAIN <<>> = {}
      OBVIOUS
    <3> QED
      BY <1>6, <2>1, <3>1
  <2>3. name = known /\ base[name] = v
    <3>1. Extends(base, <<>>, known, v)
      BY <2>2, Extended
    <3>2. DOMAIN <<>> = {}
      OBVIOUS
    <3> QED
      BY <1>6, <3>1, <3>2 DEF Extends
  <2> QED
    BY <1>6, <2>2, <2>3 DEF IsBackend, own, rs, known, v
<1> QED
  BY <1>4, <1>5, <1>6

-------------------------------------------------------------------------------
\* The end of a text.
LEMMA ReverseFacts ==
    ASSUME NEW S, NEW s \in Seq(S)
    PROVE  /\ Reverse(s) \in Seq(S) /\ Len(Reverse(s)) = Len(s)
           /\ \A i \in 1 .. Len(s) : Reverse(s)[i] = s[(Len(s) - i) + 1]
<1>1. Len(s) \in Nat /\ \A i \in 1 .. Len(s) : s[i] \in S
  BY LenProperties, ElementOfSeq
<1>2. \A i \in 1 .. Len(s) : (Len(s) - i) + 1 \in 1 .. Len(s)
  BY <1>1
<1> QED
  BY <1>1, <1>2 DEF Reverse

LEMMA SuffixPointwise ==
    ASSUME NEW S, NEW s \in Seq(S), NEW t \in Seq(S)
    PROVE  IsSuffix(s, t) <=> /\ Len(s) <= Len(t)
                              /\ \A i \in 1 .. Len(s) : s[i] = t[(Len(t) - Len(s)) + i]
<1> DEFINE L == Len(s)
           M == Len(t)
           a == Reverse(s)
           b == Reverse(t)
           c == SubSeq(a, 1, L)
           d == SubSeq(b, 1, L)
<1>1. /\ L \in Nat /\ M \in Nat /\ a \in Seq(S) /\ Len(a) = L /\ b \in Seq(S) /\ Len(b) = M
      /\ \A i \in 1 .. L : a[i] = s[(L - i) + 1]
      /\ \A i \in 1 .. M : b[i] = t[(M - i) + 1]
  BY ReverseFacts, LenProperties
<1>2. IsSuffix(s, t) <=> L <= M /\ c = d
  BY <1>1 DEF IsSuffix, IsPrefix
<1> HIDE DEF L, M, a, b
<1>3. ASSUME L <= M
      PROVE  /\ c \in Seq(S) /\ Len(c) = L /\ \A j \in 1 .. L : c[j] = a[j]
             /\ d \in Seq(S) /\ Len(d) = L /\ \A j \in 1 .. L : d[j] = b[j]
  <2>1. \A i \in 1 .. L : a[i] \in S /\ b[i] \in S
    BY <1>1, <1>3, ElementOfSeq
  <2>2. c \in Seq(S) /\ Len(c) = L /\ \A j \in 1 .. L : c[j] = a[j]
    BY <1>1, <2>1, SubSeqProperties
  <2>3. d \in Seq(S) /\ Len(d) = L /\ \A j \in 1 .. L : d[j] = b[j]
    BY <1>1, <2>1, SubSeqProperties
  <2> QED
    BY <2>2, <2>3
<1> HIDE DEF c, d
<1>4. ASSUME L <= M, c = d, NEW i \in 1 .. L PROVE s[i] = t[(M - L) + i]
  <2> DEFINE j == (L - i) + 1
  <2>1. j \in 1 .. L /\ j \in 1 .. M /\ (L - j) + 1 = i /\ (M - j) + 1 = (M - L) + i
    BY <1>1, <1>4
  <2> HIDE DEF j
  <2>2. a[j] = s[i] /\ b[j] = t[(M - L) + i]
    BY <1>1, <2>1
  <2>3. a[j] = b[j]
    BY <1>3, <1>4, <2>1
  <2> QED
    BY <2>2, <2>3
<1>5. ASSUME L <= M, \A i \in 1 .. L : s[i] = t[(M - L) + i] PROVE c = d
  <2>1. ASSUME NEW j \in 1 .. L PROVE c[j] = d[j]
    <3> DEFINE i == (L - j) + 1
    <3>1. i \in 1 .. L /\ (M - L) + i = (M - j) + 1 /\ j \in 1 .. M
      BY <1>1, <1>5
    <3> HIDE DEF i
    <3>2. s[i] = t[(M - j) + 1]
      BY <1>5, <3>1
    <3>3. a[j] = s[i]
      BY <1>1 DEF i
    <3>4. b[j] = t[(M - j) + 1]
      BY <1>1, <3>1
    <3> QED
      BY <1>3, <1>5, <3>2, <3>3, <3>4
  <2> QED
    BY <1>3, <1>5, <2>1, SeqEqual
<1> QED
  BY <1>2, <1>4, <1>5 DEF L, M

LEMMA BehindADot ==
    ASSUME NEW S, "." \in S, NEW h \in Seq(S), NEW n \in Seq(S)
    PROVE  IsSuffix(<<".">> \o n, h) <=> \E i \in DOMAIN h : h[i] = "." /\ SubSeq(h, i + 1, Len(h)) = n
<1> DEFINE dot == <<".">>
           d == dot \o n
           L == Len(n)
           M == Len(h)
<1>1. /\ L \in Nat /\ M \in Nat /\ DOMAIN h = 1 .. M
      /\ dot \in Seq(S) /\ Len(dot) = 1 /\ dot[1] = "."
  BY LenProperties
<1> HIDE DEF dot
<1>2. d \in Seq(S) /\ Len(d) = L + 1 /\ d[1] = "." /\ \A j \in 1 .. L : d[j + 1] = n[j]
  <2>1. /\ d \in Seq(S) /\ Len(d) = Len(dot) + L
        /\ \A i \in 1 .. Len(dot) + L : d[i] = IF i <= Len(dot) THEN dot[i] ELSE n[i - Len(dot)]
    BY <1>1, ConcatProperties
  <2> HIDE DEF d, L
  <2>2. \A j \in 1 .. L : j + 1 \in 1 .. 1 + L /\ ~ (j + 1 <= 1) /\ (j + 1) - 1 = j
    BY <1>1
  <2> QED
    BY <1>1, <2>1, <2>2
<1> HIDE DEF d, L, M
<1>3. ASSUME NEW i \in 1 .. M
      PROVE  /\ SubSeq(h, i + 1, M) \in Seq(S) /\ Len(SubSeq(h, i + 1, M)) = M - i
             /\ \A j \in 1 .. M - i : SubSeq(h, i + 1, M)[j] = h[i + j]
  <2> DEFINE m == i + 1
  <2>1. m \in Int /\ M \in Int /\ (M - m) + 1 = M - i /\ (m <= M \/ M - i = 0)
        /\ \A j \in 1 .. M - i : (m + j) - 1 = i + j
    BY <1>1
  <2>2. \A j \in m .. M : h[j] \in S
    BY <1>1, ElementOfSeq DEF M
  <2> HIDE DEF m
  <2>3. /\ SubSeq(h, m, M) \in Seq(S) /\ Len(SubSeq(h, m, M)) = IF m <= M THEN (M - m) + 1 ELSE 0
        /\ \A j \in 1 .. (M - m) + 1 : SubSeq(h, m, M)[j] = h[(m + j) - 1]
    BY <2>1, <2>2, SubSeqProperties
  <2>4. Len(SubSeq(h, m, M)) = M - i
    <3>1. m = i + 1 /\ i <= M /\ i \in Nat
      BY <1>1 DEF m
    <3> QED
      BY <1>1, <2>3, <3>1
  <2>5. \A j \in 1 .. M - i : SubSeq(h, m, M)[j] = h[i + j]
    BY <2>1, <2>3
  <2> QED
    BY <2>3, <2>4, <2>5 DEF m
<1>4. IsSuffix(d, h) <=> (L + 1 <= M /\ \A i \in 1 .. L + 1 : d[i] = h[(M - (L + 1)) + i])
  <2>1. d \in Seq(S) /\ Len(d) = L + 1 /\ Len(h) = M
    BY <1>2 DEF M
  <2>2. IsSuffix(d, h) <=> /\ Len(d) <= Len(h)
                           /\ \A i \in 1 .. Len(d) : d[i] = h[(Len(h) - Len(d)) + i]
    BY <2>1, SuffixPointwise
  <2> QED
    BY <2>1, <2>2
<1>5. ASSUME IsSuffix(d, h) PROVE \E i \in 1 .. M : h[i] = "." /\ SubSeq(h, i + 1, M) = n
  <2> DEFINE i == M - L
  <2>1. i \in 1 .. M /\ (M - (L + 1)) + 1 = i /\ M - i = L
    BY <1>1, <1>4, <1>5
  <2>2. \A j \in 1 .. L : j + 1 \in 1 .. L + 1 /\ (M - (L + 1)) + (j + 1) = i + j
    BY <1>1
  <2> HIDE DEF i
  <2>3. h[i] = "." /\ \A j \in 1 .. L : h[i + j] = n[j]
    <3>1. 1 \in 1 .. L + 1
      BY <1>1
    <3> QED
      BY <1>2, <1>4, <1>5, <2>1, <2>2, <3>1
  <2> DEFINE e == SubSeq(h, i + 1, M)
  <2>4. e \in Seq(S) /\ Len(e) = L /\ \A j \in 1 .. L : e[j] = n[j]
    BY <1>3, <2>1, <2>3
  <2> HIDE DEF e
  <2>5. e = n
    BY <2>4, SeqEqual DEF L
  <2> QED
    BY <2>1, <2>3, <2>5 DEF e
<1>6. ASSUME NEW i \in 1 .. M, h[i] = ".", SubSeq(h, i + 1, M) = n PROVE IsSuffix(d, h)
  <2>1. L = M - i /\ \A j \in 1 .. L : n[j] = h[i + j]
    BY <1>3, <1>6 DEF L
  <2>2. L + 1 <= M /\ M - (L + 1) = i - 1
    BY <1>1, <2>1
  <2>3. ASSUME NEW k \in 1 .. L + 1 PROVE d[k] = h[(M - (L + 1)) + k]
    <3>1. CASE k = 1
      <4>1. (M - (L + 1)) + k = i
        BY <1>1, <2>2, <3>1
      <4> QED
        BY <1>2, <1>6, <3>1, <4>1
    <3>2. CASE k # 1
      <4> DEFINE j == k - 1
      <4>1. j \in 1 .. L /\ k = j + 1 /\ (M - (L + 1)) + k = i + j
        BY <1>1, <2>2, <3>2
      <4> HIDE DEF j
      <4> QED
        BY <1>2, <2>1, <4>1
    <3> QED
      BY <3>1, <3>2
  <2> QED
    BY <1>4, <2>2, <2>3
<1> QED
  BY <1>1, <1>5, <1>6 DEF d, dot, M

-------------------------------------------------------------------------------
\* The blacklist: what is on it in lower case, and what it is asked for.
LEMMA LoweredFacts ==
    ASSUME NEW name \in Seq(Tokens)
    PROVE  /\ Rules!Lowered(name) \in Seq(Tokens)
           /\ Rules!Lowered(Rules!Lowered(name)) = Rules!Lowered(name)
<1> DEFINE N == Len(name)
           low == Rules!Lowered(name)
           twice == Rules!Lowered(low)
<1>1. N \in Nat /\ DOMAIN name = 1 .. N /\ \A i \in 1 .. N : name[i] \in Tokens
  BY LenProperties, ElementOfSeq
<1>2. \A token \in Tokens : LowerToken[token] \in Tokens /\ LowerToken[LowerToken[token]] = LowerToken[token]
  BY ForwardingAssumption
<1>3. low = [i \in 1 .. N |-> LowerToken[name[i]]]
  BY <1>1 DEF Rules!Lowered
<1>4. low \in Seq(Tokens)
  BY <1>1, <1>2, <1>3, IsASeq
<1>5. twice = [i \in 1 .. N |-> LowerToken[low[i]]]
  BY <1>3 DEF Rules!Lowered
<1> HIDE DEF N, low, twice
<1>6. \A i \in 1 .. N : LowerToken[low[i]] = low[i]
  BY <1>1, <1>2, <1>3
<1>7. low = [i \in 1 .. N |-> low[i]]
  BY <1>3
<1>8. twice = low
  BY <1>5, <1>6, <1>7
<1> QED
  BY <1>4, <1>8 DEF low, twice

\* The list holds the names that were put on it.
Listing == blacklist.domains = {Rules!Lowered(name) : name \in banned}

LEMMA BlockedFacts ==
    ASSUME NEW host \in Seq(Tokens), banned \subseteq Banned, Listing
    PROVE  Rules!Domain(blacklist, host) <=> Blocked(host)
<1> DEFINE S == Tokens \cup {"."}
           h == Rules!Lowered(host)
           cuts == {0} \cup {i \in DOMAIN h : h[i] = "."}
           rest(i) == SubSeq(h, i + 1, Len(h))
<1>1. Seq(Tokens) \subseteq Seq(S)
  BY SeqMonotonic
<1>2. h \in Seq(S)
  BY <1>1, LoweredFacts
<1>3. \A name \in banned : Rules!Lowered(name) \in Seq(S)
  <2> TAKE name \in banned
  <2>1. name \in Seq(Tokens)
    BY ForwardingAssumption
  <2> QED
    BY <1>1, <2>1, LoweredFacts
<1>4. Rules!Domain(blacklist, host) <=> \E i \in cuts : rest(i) \in blacklist.domains
  BY DEF Rules!Domain
<1>5. Blocked(host) <=> \E name \in banned : \/ h = Rules!Lowered(name)
                                             \/ IsSuffix(<<".">> \o Rules!Lowered(name), h)
  BY DEF Blocked
<1> HIDE DEF h, S
<1>6. rest(0) = h
  <2>1. Len(h) \in Nat /\ \A i \in 1 .. Len(h) : h[i] \in S
    BY <1>2, LenProperties, ElementOfSeq
  <2>2. 0 + 1 = 1
    OBVIOUS
  <2> DEFINE e == SubSeq(h, 1, Len(h))
  <2>3. e \in Seq(S) /\ Len(e) = Len(h) /\ \A i \in 1 .. Len(h) : e[i] = h[i]
    BY <2>1, SubSeqProperties
  <2> HIDE DEF e
  <2>4. e = h
    BY <1>2, <2>3, SeqEqual
  <2> QED
    BY <2>2, <2>4 DEF e
<1>7. ASSUME NEW name \in banned
      PROVE  (h = Rules!Lowered(name) \/ IsSuffix(<<".">> \o Rules!Lowered(name), h))
               <=> \E i \in cuts : rest(i) = Rules!Lowered(name)
  <2> DEFINE n == Rules!Lowered(name)
  <2>1. n \in Seq(S) /\ "." \in S
    BY <1>3 DEF S
  <2> HIDE DEF n
  <2>2. IsSuffix(<<".">> \o n, h) <=> \E i \in DOMAIN h : h[i] = "." /\ rest(i) = n
    BY <1>2, <2>1, BehindADot
  <2> QED
    BY <1>6, <2>2 DEF n
<1> HIDE DEF cuts, rest
<1> QED
  BY <1>4, <1>5, <1>7 DEF Listing

-------------------------------------------------------------------------------
\* What the calls of request do to its members.
Made(method, methodString, uri, body, entries, version) ==
    [method |-> method, methodString |-> methodString, target |-> uri, body |-> body, entries |-> entries,
     version |-> version]

\* The entries that a message from Beast becomes.
Headed(m) == SetAll(<<>>, m.fields)
Filled(m) == IF m.body = "" THEN Headed(m) ELSE Set(Headed(m), "Content-Length", Decimal(Len(m.body)))
Kept(m) == Set(Filled(m), "Connection", IF m.keepAlive THEN "keep-alive" ELSE "close")

LEMMA AsyncReadFacts ==
    ASSUME NEW r, NEW m
    PROVE  AsyncRead(r, m) = Made(VerbOf(m.method), m.method, m.target, m.body, Kept(m), m.version)
<1> DEFINE v == VerbOf(m.method)
           text == m.method
           uri == m.target
           version == m.version
           body == m.body
           fields == m.fields
           on == IF m.keepAlive THEN "keep-alive" ELSE "close"
           a == MethodString(Clear(r), text)
           b == Target(a, uri)
           c == Version(b, version)
           d == [c EXCEPT !.entries = SetAll(@, fields)]
           e == IF body = "" THEN d ELSE Body(d, body)
           headed == Headed(m)
           filled == Filled(m)
           length == Decimal(Len(m.body))
           get == "get"
           none == ""
           nothing == <<>>
           eleven == 11
<1>1. AsyncRead(r, m) = SetName(e, "Connection", on)
  BY DEF AsyncRead, KeepAlive
<1>2. Clear(r) = Made(get, none, none, none, nothing, eleven)
  BY DEF Clear, Fresh, Made
<1>3. v = VerbOf(text) /\ headed = SetAll(<<>>, fields) /\ length = Decimal(Len(body))
      /\ filled = (IF body = "" THEN headed ELSE Set(headed, "Content-Length", length))
      /\ Kept(m) = Set(filled, "Connection", on)
  BY DEF Headed, Filled, Kept
<1> HIDE DEF v, text, uri, version, body, fields, on, headed, filled, length, get, none, nothing, eleven
<1>4. a = Made(v, text, none, none, nothing, eleven)
  <2>1. [Made(get, none, none, none, nothing, eleven) EXCEPT !.method = v] = Made(v, none, none, none, nothing, eleven)
    BY DEF Made
  <2>2. [Made(v, none, none, none, nothing, eleven) EXCEPT !.methodString = text] = Made(v, text, none, none, nothing, eleven)
    BY DEF Made
  <2> QED
    BY <1>2, <1>3, <2>1, <2>2 DEF MethodString
<1> HIDE DEF a
<1>5. b = Made(v, text, uri, none, nothing, eleven)
  BY <1>4 DEF Target, Made
<1> HIDE DEF b
<1>6. c = Made(v, text, uri, none, nothing, version)
  BY <1>5 DEF Version, Made
<1> HIDE DEF c
<1>7. d = Made(v, text, uri, none, headed, version)
  <2>1. c.entries = nothing
    BY <1>6 DEF Made
  <2>2. d = [c EXCEPT !.entries = headed]
    BY <1>3, <2>1 DEF nothing
  <2> QED
    BY <1>6, <2>2 DEF Made
<1> HIDE DEF d
<1>8. e = Made(v, text, uri, body, filled, version)
  <2>1. CASE body = none
    BY <1>3, <1>7, <2>1 DEF none
  <2>2. CASE body # none
    <3>1. [d EXCEPT !.body = body] = Made(v, text, uri, body, headed, version)
      BY <1>7 DEF Made
    <3>2. SetName(Made(v, text, uri, body, headed, version), "Content-Length", length) =
            Made(v, text, uri, body, Set(headed, "Content-Length", length), version)
      BY DEF SetName, Made
    <3>3. e = SetName([d EXCEPT !.body = body], "Content-Length", length)
      BY <1>3, <2>2 DEF Body, ContentLength, none
    <3>4. filled = Set(headed, "Content-Length", length)
      BY <1>3, <2>2 DEF none
    <3> QED
      BY <3>1, <3>2, <3>3, <3>4
  <2> QED
    BY <2>1, <2>2
<1> HIDE DEF e
<1>9. SetName(e, "Connection", on) = Made(v, text, uri, body, Set(filled, "Connection", on), version)
  BY <1>8 DEF SetName, Made
<1> QED
  BY <1>1, <1>3, <1>9 DEF v, text, uri, body, version

\* What is asked of the messages that a client may send.
Fields == [name : Names, value : Values]

LEMMA MessageFacts ==
    ASSUME NEW m \in Messages
    PROVE  /\ m.fields \in Seq(Fields) /\ Settable(m.fields) /\ m.method # "" /\ m.target \in Texts
           /\ Decimal(Len(m.body)) \in Values
           /\ Headed(m) \in Seq(Good) /\ Filled(m) \in Seq(Good) /\ Kept(m) \in Seq(Good)
<1>1. /\ m \in [method : STRING, target : Texts, version : Nat, keepAlive : BOOLEAN, body : STRING,
                fields : Seq([name : Names, value : Values])]
      /\ m.method # "" /\ Decimal(Len(m.body)) \in Values
  BY ForwardingAssumption
<1>2. m.fields \in Seq(Fields) /\ m.target \in Texts
  BY <1>1 DEF Fields
<1>3. Settable(m.fields)
  <2>1. \A i \in 1 .. Len(m.fields) : m.fields[i] \in Fields
    BY <1>2, ElementOfSeq
  <2> QED
    BY <2>1 DEF Settable, Fields
<1>4. Headed(m) \in Seq(Good)
  <2>1. <<>> \in Seq(Good)
    OBVIOUS
  <2> QED
    BY <1>2, <1>3, <2>1, SetAllFacts DEF Headed
<1>5. "Content-Length" \in Names /\ "Connection" \in Names /\ "keep-alive" \in Values /\ "close" \in Values
  BY HeaderAssumption
<1>6. Filled(m) \in Seq(Good)
  BY <1>1, <1>4, <1>5, SetShape DEF Filled
<1>7. Kept(m) \in Seq(Good)
  BY <1>5, <1>6, SetShape DEF Kept
<1> QED
  BY <1>1, <1>2, <1>3, <1>4, <1>6, <1>7

\* A field that comes once, with a value, is read as it comes.
LEMMA HeadedFacts ==
    ASSUME NEW m \in Messages, Plain(m), NEW k \in Keys
    PROVE  /\ ValuesIn(m.fields, k) = Named(m.fields, k)
           /\ Named(m.fields, k) \in Seq(Given)
           /\ ValuesOf(Headed(m), k) = Named(m.fields, k)
<1> DEFINE fs == m.fields
           of == Named(fs, k)
<1>1. \A lines : ValuesIn(lines, k) = Named(lines, k)
  BY DEF ValuesIn, Named, Picked
<1>2. fs \in Seq(Fields) /\ Settable(fs) /\ Len(fs) \in Nat /\ DOMAIN fs = 1 .. Len(fs)
  BY MessageFacts, LenProperties
<1>3. \A i \in 1 .. Len(fs) : fs[i].value \in Given
  BY <1>2 DEF Plain, Settable, Given
<1>4. of \in Seq(Given)
  <2> HIDE DEF fs
  <2> QED
    BY <1>2, <1>3, NamedFacts
<1>5. Len(of) <= 1
  BY <1>1 DEF Plain
<1>6. ValuesOf(Headed(m), k) = IF of = <<>> THEN <<>> ELSE Single(Last(of))
  BY <1>2, SetAllNamed DEF Headed
<1> HIDE DEF of, fs
<1>7. CASE of = <<>>
  BY <1>1, <1>4, <1>6, <1>7 DEF of, fs
<1>8. CASE of # <<>>
  <2>1. Len(of) = 1
    <3> DEFINE n == Len(of)
    <3>1. n \in Nat
      BY <1>4, LenProperties
    <3>2. n # 0
      BY <1>4, <1>8, EmptySeq
    <3>3. n <= 1
      BY <1>5
    <3> HIDE DEF n
    <3>4. n = 1
      BY <3>1, <3>2, <3>3
    <3> QED
      BY <3>4 DEF n
  <2>2. of[1] \in Given /\ Last(of) = of[1]
    <3>1. \A i \in 1 .. Len(of) : of[i] \in Given
      BY <1>4, ElementOfSeq
    <3> QED
      BY <2>1, <3>1 DEF Last
  <2>3. Single(Last(of)) = <<of[1]>>
    BY <2>2 DEF Single, Given
  <2>4. of = <<of[1]>>
    <3> DEFINE o == <<of[1]>>
    <3>1. o \in Seq(Given) /\ Len(o) = 1 /\ o[1] = of[1]
      BY <2>2
    <3> HIDE DEF o
    <3>2. o = of
      BY <1>4, <2>1, <3>1, SeqEqual
    <3> QED
      BY <3>2 DEF o
  <2>5. ValuesOf(Headed(m), k) = of
    BY <1>6, <1>8, <2>3, <2>4
  <2> QED
    BY <1>1, <1>4, <2>5 DEF of, fs
<1> QED
  BY <1>7, <1>8

\* What is read from a client and written to its upstream says the same.
LEMMA SentFacts ==
    ASSUME NEW r, NEW m \in Messages, Plain(m)
    PROVE  SaysTheSame(Outline(AsyncRead(r, m)), m)
<1> DEFINE q == AsyncRead(r, m)
           on == IF m.keepAlive THEN "keep-alive" ELSE "close"
           n == Decimal(Len(m.body))
<1>1. q = Made(VerbOf(m.method), m.method, m.target, m.body, Kept(m), m.version)
  BY AsyncReadFacts
<1> HIDE DEF q
<1>2. /\ q.methodString = m.method /\ q.target = m.target /\ q.body = m.body /\ q.entries = Kept(m)
      /\ q.version = m.version
  BY <1>1 DEF Made
<1>3. /\ Outline(q).start = <<m.method, m.target, m.version>>
      /\ Outline(q).body = m.body
      /\ Outline(q).lines = Shown(Kept(m))
  <2>1. MethodText(q) = m.method
    BY <1>2, MessageFacts DEF MethodText
  <2> QED
    BY <1>2, <2>1 DEF Outline
<1>4. ASSUME NEW k \in Keys
      PROVE  ValuesIn(Shown(Kept(m)), k) = IF k = Key("Connection") THEN <<on>> ELSE ValuesIn(m.fields, k)
  <2>1. ValuesIn(Shown(Kept(m)), k) = ValuesOf(Kept(m), k)
    <3>1. ValuesIn(Shown(Kept(m)), k) = Named(Shown(Kept(m)), k)
      BY DEF ValuesIn, Named, Picked
    <3> QED
      BY <3>1, MessageFacts, ShownFacts
  <2>2. Key(k) = k
    BY KeyFacts
  <2>3. /\ "Content-Length" \in Names /\ "Connection" \in Names /\ on \in Values /\ on # ""
        /\ n \in Values /\ Headed(m) \in Seq(Good) /\ Filled(m) \in Seq(Good)
        /\ Kept(m) = Set(Filled(m), "Connection", on)
    BY MessageFacts, HeaderAssumption DEF Kept
  <2> HIDE DEF on, n
  <2>4. CASE k = Key("Connection")
    <3>1. Key(k) = Key("Connection")
      BY <2>2, <2>4
    <3>2. ValuesOf(Set(Filled(m), "Connection", on), k) = Single(on)
      BY <2>3, <3>1, SetOwn, ZenonT(60)
    <3> QED
      BY <2>1, <2>3, <2>4, <3>2 DEF Single
  <2>5. CASE k # Key("Connection")
    <3>1. ValuesOf(Kept(m), k) = ValuesOf(Filled(m), k)
      <4>1. Key(k) # Key("Connection")
        BY <2>2, <2>5
      <4>2. ValuesOf(Set(Filled(m), "Connection", on), k) = ValuesOf(Filled(m), k)
        BY <2>3, <4>1, SetOther, ZenonT(60)
      <4> QED
        BY <2>3, <4>2
    <3>2. ValuesOf(Filled(m), k) = Named(m.fields, k)
      <4>1. CASE m.body = ""
        BY <4>1, HeadedFacts DEF Filled
      <4>2. CASE m.body # "" /\ k # Key("Content-Length")
        <5>1. Filled(m) = Set(Headed(m), "Content-Length", n) /\ Key(k) # Key("Content-Length")
          BY <2>2, <4>2 DEF Filled, n
        <5>2. ValuesOf(Set(Headed(m), "Content-Length", n), k) = ValuesOf(Headed(m), k)
          BY <2>3, <5>1, SetOther, ZenonT(60)
        <5> QED
          BY <5>1, <5>2, HeadedFacts
      <4>3. CASE m.body # "" /\ k = Key("Content-Length")
        <5>1. Filled(m) = Set(Headed(m), "Content-Length", n)
          BY <4>3 DEF Filled, n
        <5>2. ValuesOf(Filled(m), k) = Single(n)
          <6>1. Key(k) = Key("Content-Length")
            BY <2>2, <4>3
          <6>2. ValuesOf(Set(Headed(m), "Content-Length", n), k) = Single(n)
            BY <2>3, <6>1, SetOwn, ZenonT(60)
          <6> QED
            BY <5>1, <6>2
        <5>3. Named(m.fields, k) = <<n>>
          BY <4>3, HeadedFacts DEF Plain, n
        <5>4. n # ""
          <6>1. <<n>> \in Seq(Given)
            BY <5>3, HeadedFacts
          <6>2. n \in Given
            BY <6>1
          <6> QED
            BY <6>2 DEF Given
        <5> QED
          BY <5>2, <5>3, <5>4 DEF Single
      <4> QED
        BY <4>1, <4>2, <4>3
    <3> QED
      BY <2>1, <2>5, <3>1, <3>2, HeadedFacts
  <2> QED
    BY <2>4, <2>5
<1> HIDE DEF on
<1>5. \A k \in Keys : ValuesIn(Outline(q).lines, k) =
        IF k = Key("Connection") THEN <<on>> ELSE ValuesIn(m.fields, k)
  BY <1>3, <1>4
<1> QED
  BY <1>3, <1>5 DEF SaysTheSame, on, q

-------------------------------------------------------------------------------
\* VerbOf knows one word for connect.
LEMMA VerbFacts == \A text : VerbOf(text) = "connect" <=> text = "CONNECT"
<1> DEFINE verbs == {"delete_", "get", "head", "post", "put", "connect", "options", "trace", "patch"}
<1>1. DOMAIN VerbNames = verbs
  BY DEF VerbNames
<1>2. \A v \in verbs : VerbNames[v] = "CONNECT" <=> v = "connect"
  BY DEF VerbNames
<1> HIDE DEF verbs
<1>3. "connect" \in verbs
  BY DEF verbs
<1> SUFFICES ASSUME NEW text PROVE VerbOf(text) = "connect" <=> text = "CONNECT"
  OBVIOUS
<1>4. CASE \E v \in verbs : VerbNames[v] = text
  <2> DEFINE w == CHOOSE v \in verbs : VerbNames[v] = text
  <2>1. w \in verbs /\ VerbNames[w] = text
    BY <1>4
  <2>2. VerbOf(text) = w
    BY <1>1, <1>4 DEF VerbOf
  <2> HIDE DEF w
  <2> QED
    BY <1>2, <2>1, <2>2
<1>5. CASE ~ \E v \in verbs : VerbNames[v] = text
  <2>1. VerbOf(text) = "unknown"
    BY <1>1, <1>5 DEF VerbOf
  <2> QED
    BY <1>2, <1>3, <1>5, <2>1
<1> QED
  BY <1>4, <1>5

LEMMA CutFacts ==
    ASSUME NEW S, NEW s \in Seq(S), NEW k \in 0 .. Len(s)
    PROVE  /\ SubSeq(s, 1, k) \in Seq(S) /\ SubSeq(s, k + 1, Len(s)) \in Seq(S)
           /\ SubSeq(s, 1, k) \o SubSeq(s, k + 1, Len(s)) = s
<1> DEFINE N == Len(s)
           a == SubSeq(s, 1, k)
           b == SubSeq(s, k + 1, N)
           c == a \o b
<1>1. N \in Nat /\ k \in Nat /\ k <= N /\ \A i \in 1 .. N : s[i] \in S
  BY LenProperties, ElementOfSeq
<1>2. a \in Seq(S) /\ Len(a) = k /\ \A i \in 1 .. k : a[i] = s[i]
  BY <1>1, SubSeqProperties
<1>3. b \in Seq(S) /\ Len(b) = N - k /\ \A i \in 1 .. N - k : b[i] = s[k + i]
  <2> DEFINE m == k + 1
  <2>1. /\ m \in Int /\ N \in Int /\ (N - m) + 1 = N - k /\ (m <= N \/ N - k = 0) /\ ~ (m <= N /\ N - k = 0)
        /\ \A j \in 1 .. N - k : (m + j) - 1 = k + j
    BY <1>1
  <2>2. \A j \in m .. N : s[j] \in S
    BY <1>1
  <2> HIDE DEF m, N
  <2>3. /\ SubSeq(s, m, N) \in Seq(S) /\ Len(SubSeq(s, m, N)) = IF m <= N THEN (N - m) + 1 ELSE 0
        /\ \A j \in 1 .. (N - m) + 1 : SubSeq(s, m, N)[j] = s[(m + j) - 1]
    BY <2>1, <2>2, SubSeqProperties
  <2>4. Len(SubSeq(s, m, N)) = N - k
    BY <2>1, <2>3
  <2>5. \A j \in 1 .. N - k : SubSeq(s, m, N)[j] = s[k + j]
    BY <2>1, <2>3
  <2> QED
    BY <2>3, <2>4, <2>5 DEF m
<1> HIDE DEF a, b, N
<1>4. /\ c \in Seq(S) /\ Len(c) = k + (N - k)
      /\ \A i \in 1 .. k + (N - k) : c[i] = IF i <= k THEN a[i] ELSE b[i - k]
  <2>1. /\ c \in Seq(S) /\ Len(c) = Len(a) + Len(b)
        /\ \A i \in 1 .. Len(a) + Len(b) : c[i] = IF i <= Len(a) THEN a[i] ELSE b[i - Len(a)]
    BY <1>2, <1>3, ConcatProperties
  <2> HIDE DEF c
  <2> QED
    BY <1>2, <1>3, <2>1
<1> HIDE DEF c
<1>5. Len(c) = N /\ \A i \in 1 .. N : c[i] = s[i]
  <2>1. k + (N - k) = N
    BY <1>1
  <2>2. ASSUME NEW i \in 1 .. N, ~ i <= k PROVE i - k \in 1 .. N - k /\ k + (i - k) = i
    BY <1>1, <2>2
  <2>3. ASSUME NEW i \in 1 .. N PROVE c[i] = s[i]
    <3>1. CASE i <= k
      BY <1>1, <1>2, <1>4, <2>1, <3>1
    <3>2. CASE ~ i <= k
      BY <1>3, <1>4, <2>1, <2>2, <3>2
    <3> QED
      BY <3>1, <3>2
  <2> QED
    BY <1>4, <2>1, <2>3
<1>6. c = s
  BY <1>4, <1>5, SeqEqual DEF N
<1> QED
  BY <1>2, <1>3, <1>6 DEF a, b, c, N

-------------------------------------------------------------------------------
\* The inductive invariant.  What was loaded and who the client is; what is on the
\* list.
Loaded == config \in Configurations /\ client \in Clients /\ routes = Table!LoadReverseMap(config)
ListInv ==
    /\ blacklist \in [ips : SUBSET BannedEndpoints, domains : SUBSET Seq(Tokens)]
    /\ banned \subseteq Banned
    /\ Listing

\* How far a session has come, and with what.
PhaseInv ==
    /\ phase \in {"peek", "http", "obscura", "route", "forward", "reverse", "write", "rest", "tunnel", "over"}
    /\ destination # <<>> => phase \in {"write", "rest", "tunnel", "over"}
    /\ phase \in {"write", "rest", "tunnel"} => destination # <<>>
    /\ phase \in {"reverse", "write", "rest"} => IsRequest
    /\ gone \in BOOLEAN /\ answered \in BOOLEAN

\* From the moment that the session knows where its client wants to go, its request
\* and its target are what the client has sent, read once.
Aims ==
    IF IsRequest
    THEN /\ req = AsyncRead(Fresh, Request)
         /\ target = Resolve(req.method, Spell[req.target], Spell[Retrieve(req.entries, FieldNames.host)])
    ELSE target = ResolvePath(Spell[client.path])
TargetInv ==
    /\ phase \in {"route", "forward", "reverse", "write", "rest", "tunnel"} \/ destination # <<>> => Aims
    /\ phase \in {"route", "forward"} => target.forward
    /\ phase = "reverse" => ~ target.forward
    /\ destination # <<>> =>
        IF target.forward THEN destination = <<target.host, target.port>>
        ELSE target.host \in DOMAIN routes /\ destination = routes[target.host]

\* What the upstream has been sent, what is held and what is to come are together what
\* the client has sent.
StreamInv ==
    /\ held \in Seq(Nat) /\ coming \in Seq(Nat)
    /\ phase \in {"peek", "http", "obscura"} => held = <<>> /\ coming = Coming
    /\ phase \notin {"rest", "tunnel", "over"} => wire = <<>> /\ ~ gone /\ ~ answered
    /\ answered => req.method = "connect"
    /\ phase \notin {"tunnel", "over"} => held \o coming = Coming
    /\ phase = "rest" /\ ~ gone => wire = IF req.method = "connect" THEN <<>> ELSE <<Outline(req)>>
    /\ phase = "tunnel" /\ IsRequest /\ ~ gone =>
        IF req.method = "connect" THEN wire \o coming = Coming
        ELSE wire # <<>> /\ Head(wire) = Outline(req) /\ Tail(wire) \o coming = Coming

IInv == Loaded /\ ListInv /\ PhaseInv /\ TargetInv /\ StreamInv

\* Where a request wants to go is a sequence of tokens; it is forwarded when it is a
\* CONNECT or absolute.
LEMMA AimsFacts ==
    ASSUME Loaded, Aims
    PROVE  /\ target.host \in Seq(Tokens)
           /\ ~ IsRequest => target.forward
           /\ IsRequest => /\ Request \in Messages /\ req.target = Request.target /\ Request.target \in Texts
                           /\ req.method = VerbOf(Request.method)
                           /\ Retrieve(req.entries, "Host") \in Texts
                           /\ target = Resolve(req.method, Spell[req.target], Spell[Retrieve(req.entries, "Host")])
                           /\ target.forward = (req.method = "connect" \/ IsAbsolute(Spell[req.target]))
<1>1. /\ IsRequest => client.message \in Messages
      /\ ~ IsRequest => client.path \in Paths
  BY DEF Loaded, Clients, IsRequest
<1>2. \A t \in Texts : Spell[t] \in Seq(Tokens)
  BY MeansFacts
<1>3. CASE IsRequest
  <2>1. Request \in Messages
    BY <1>1, <1>3 DEF Request
  <2>2. /\ req = Made(VerbOf(Request.method), Request.method, Request.target, Request.body, Kept(Request),
                      Request.version)
        /\ target = Resolve(req.method, Spell[req.target], Spell[Retrieve(req.entries, "Host")])
    BY <1>3, AsyncReadFacts DEF Aims, FieldNames
  <2>3. req.target = Request.target /\ req.method = VerbOf(Request.method) /\ req.entries = Kept(Request)
    BY <2>2 DEF Made
  <2>4. Request.target \in Texts /\ Kept(Request) \in Seq(Entries)
    BY <2>1, MessageFacts, SeqOfEntries
  <2>5. Retrieve(req.entries, "Host") \in Texts
    <3> DEFINE of == ValuesOf(req.entries, "Host")
    <3>1. of \in Seq(Given)
      BY <2>3, <2>4, ValuesFacts
    <3>2. of # <<>> => Head(of) \in Given
      BY <3>1, HeadTailProperties
    <3>3. "" \in Values /\ Values \subseteq Texts
      BY HeaderAssumption, ForwardingAssumption
    <3> QED
      BY <3>2, <3>3 DEF Retrieve, Given
  <2>6. Spell[req.target] \in Seq(Tokens) /\ Spell[Retrieve(req.entries, "Host")] \in Seq(Tokens)
    BY <1>2, <2>3, <2>4, <2>5
  <2>7. target.host \in Seq(Tokens) /\ target.forward = (req.method = "connect" \/ IsAbsolute(Spell[req.target]))
    BY <2>2, <2>6, ResolveType
  <2> QED
    BY <1>3, <2>1, <2>2, <2>3, <2>4, <2>5, <2>7
<1>4. CASE ~ IsRequest
  <2>1. Spell[client.path] \in Seq(Tokens)
    BY <1>1, <1>2, <1>4, ForwardingAssumption
  <2>2. target = ResolvePath(Spell[client.path])
    BY <1>4 DEF Aims
  <2> QED
    BY <1>4, <2>1, <2>2, ResolvePathType
<1> QED
  BY <1>3, <1>4

LEMMA InitInv == Init => IInv
<1> SUFFICES ASSUME Init PROVE IInv
  OBVIOUS
<1>1. Loaded
  BY DEF Init, Loaded
<1>2. ListInv
  <2>1. \A b : b = Rules!EmptyBlacklist =>
           b \in [ips : SUBSET BannedEndpoints, domains : SUBSET Seq(Tokens)] /\ b.domains = {}
    BY DEF Rules!EmptyBlacklist
  <2> QED
    BY <2>1 DEF Init, ListInv, Listing
<1>3. PhaseInv
  BY DEF Init, PhaseInv
<1>4. TargetInv
  BY DEF Init, TargetInv
<1>5. StreamInv
  <2>1. held = <<>> /\ coming = Coming /\ <<>> \in Seq(Nat)
    BY DEF Init
  <2> Coming \in Seq(Nat)
    BY ForwardingAssumption
  <2>2. held \o coming = Coming
    BY <2>1, ConcatEmptySeq
  <2> QED
    BY <2>1, <2>2 DEF Init, StreamInv
<1> QED
  BY <1>1, <1>2, <1>3, <1>4, <1>5 DEF IInv

\* What the owner of the list calls keeps it a list of what it was given.
LEMMA BanInv == ListInv /\ Ban => ListInv'
<1> DEFINE Shape == [ips : SUBSET BannedEndpoints, domains : SUBSET Seq(Tokens)]
           Low(names) == {Rules!Lowered(name) : name \in names}
<1> SUFFICES ASSUME ListInv, Ban PROVE ListInv'
  OBVIOUS
<1>1. blacklist \in Shape /\ banned \subseteq Banned /\ blacklist.domains = Low(banned)
  BY DEF ListInv, Listing
<1>2. \A name \in Banned : Rules!Lowered(name) \in Seq(Tokens)
  BY ForwardingAssumption, LoweredFacts
<1>3. SUFFICES blacklist' \in Shape /\ banned' \subseteq Banned /\ blacklist'.domains = Low(banned')
  BY DEF ListInv, Listing
<1>4. ASSUME NEW names \in SUBSET Banned, banned' = names,
             blacklist' = Rules!Load(blacklist, BannedEndpoints, names)
      PROVE  blacklist' \in Shape /\ blacklist'.domains = Low(banned')
  <2>1. blacklist' = [ips |-> BannedEndpoints, domains |-> Low(names)]
    BY <1>4 DEF Rules!Load
  <2>2. Low(names) \subseteq Seq(Tokens)
    BY <1>2
  <2> QED
    BY <1>4, <2>1, <2>2
<1>5. ASSUME NEW name \in Banned, banned' = banned \cup {name}, blacklist' = Rules!InsertDomain(blacklist, name)
      PROVE  blacklist' \in Shape /\ blacklist'.domains = Low(banned')
  <2>1. blacklist' = [blacklist EXCEPT !.domains = blacklist.domains \cup {Rules!Lowered(name)}]
    BY <1>5 DEF Rules!InsertDomain
  <2>2. Rules!Lowered(name) \in Seq(Tokens)
    BY <1>2
  <2>3. /\ blacklist' \in Shape
        /\ blacklist'.domains = blacklist.domains \cup {Rules!Lowered(name)}
    BY <1>1, <2>1, <2>2
  <2>4. Low(banned \cup {name}) = Low(banned) \cup {Rules!Lowered(name)}
    OBVIOUS
  <2> QED
    BY <1>1, <1>5, <2>3, <2>4
<1>6. ASSUME NEW ip \in BannedEndpoints, banned' = banned, blacklist' = Rules!InsertEndpoint(blacklist, ip)
      PROVE  blacklist' \in Shape /\ blacklist'.domains = Low(banned')
  BY <1>1, <1>6 DEF Rules!InsertEndpoint
<1>7. ASSUME banned' = {}, blacklist' = Rules!ClearBlacklist(blacklist)
      PROVE  blacklist' \in Shape /\ blacklist'.domains = Low(banned')
  BY <1>7 DEF Rules!ClearBlacklist, Rules!EmptyBlacklist
<1>8. banned' \subseteq Banned
  BY <1>1 DEF Ban
<1> HIDE DEF Shape, Low
<1> QED
  BY <1>4, <1>5, <1>6, <1>7, <1>8 DEF Ban

LEMMA Steady ==
    /\ UNCHANGED environment => (Loaded => Loaded') /\ IsRequest' = IsRequest
    /\ UNCHANGED rules => (ListInv => ListInv')
    /\ UNCHANGED <<environment, req, target>> => (Aims => Aims')
<1>1. ASSUME UNCHANGED environment PROVE (Loaded => Loaded') /\ IsRequest' = IsRequest
  BY <1>1 DEF environment, Loaded, IsRequest
<1>2. ASSUME UNCHANGED rules PROVE ListInv => ListInv'
  BY <1>2 DEF rules, ListInv, Listing
<1>3. ASSUME UNCHANGED <<environment, req, target>> PROVE Aims => Aims'
  BY <1>3 DEF environment, Aims, IsRequest, Request
<1> QED
  BY <1>1, <1>2, <1>3

\* The steps that only move the phase.
LEMMA PeekInv == IInv /\ (\E n \in PeekSizes : Peek(n)) => IInv'
<1> SUFFICES ASSUME IInv, NEW n \in PeekSizes, Peek(n) PROVE IInv'
  OBVIOUS
<1>1. /\ UNCHANGED <<environment, rules, coming, req, held, target, destination, gone, wire, answered>>
      /\ phase = "peek" /\ phase' \in {"http", "obscura"}
  BY DEF Peek
<1>2. Loaded' /\ ListInv' /\ IsRequest' = IsRequest
  BY <1>1, Steady DEF IInv
<1>3. destination' = <<>>
  BY <1>1 DEF IInv, PhaseInv
<1>4. PhaseInv' /\ TargetInv' /\ StreamInv'
  BY <1>1, <1>2, <1>3 DEF IInv, PhaseInv, TargetInv, StreamInv
<1> QED
  BY <1>2, <1>4 DEF IInv

LEMMA FailInv == IInv /\ Fail => IInv'
<1> SUFFICES ASSUME IInv, Fail PROVE IInv'
  OBVIOUS
<1>1. /\ UNCHANGED <<environment, rules, coming, req, held, target, destination, gone, wire, answered>>
      /\ phase \in {"peek", "http", "obscura", "forward", "reverse", "write", "rest"} /\ phase' = "over"
  BY DEF Fail
<1>2. Loaded' /\ ListInv' /\ IsRequest' = IsRequest
  BY <1>1, Steady DEF IInv
<1>3. Aims => Aims'
  BY <1>1, Steady
<1>4. TargetInv'
  BY <1>1, <1>3 DEF IInv, TargetInv, environment
<1>5. PhaseInv' /\ StreamInv'
  BY <1>1, <1>2 DEF IInv, PhaseInv, StreamInv
<1> QED
  BY <1>2, <1>4, <1>5 DEF IInv

LEMMA BanStep == IInv /\ Ban => IInv'
<1> SUFFICES ASSUME IInv, Ban PROVE IInv'
  OBVIOUS
<1>1. UNCHANGED <<environment, coming, phase, req, held, target, destination, gone, wire, answered>>
  BY DEF Ban
<1>2. Loaded' /\ ListInv' /\ IsRequest' = IsRequest /\ (Aims => Aims')
  BY <1>1, Steady, BanInv DEF IInv
<1>3. PhaseInv' /\ StreamInv'
  BY <1>1, <1>2 DEF IInv, PhaseInv, StreamInv
<1>4. TargetInv'
  BY <1>1, <1>2 DEF IInv, TargetInv, environment
<1> QED
  BY <1>2, <1>3, <1>4 DEF IInv

\* handle_http and handle_obscura learn where the client wants to go.
LEMMA ReadInv == IInv /\ (\E k \in 0 .. Len(coming) : Read(k)) => IInv'
<1> SUFFICES ASSUME IInv, NEW k \in 0 .. Len(coming), Read(k) PROVE IInv'
  OBVIOUS
<1>1. /\ UNCHANGED <<environment, rules, destination, gone, wire, answered>>
      /\ phase = "http" /\ IsRequest
      /\ req' = AsyncRead(req, Request)
      /\ held' = SubSeq(coming, 1, k) /\ coming' = SubSeq(coming, k + 1, Len(coming))
      /\ target' = Resolve(req'.method, Spell[req'.target], Spell[Retrieve(req'.entries, FieldNames.host)])
      /\ phase' = IF target'.forward THEN "route" ELSE "reverse"
  BY DEF Read
<1>2. Loaded' /\ ListInv' /\ IsRequest' = IsRequest
  BY <1>1, Steady DEF IInv
<1>3. destination' = <<>> /\ wire' = <<>> /\ ~ gone' /\ ~ answered' /\ coming \in Seq(Nat) /\ coming = Coming
  BY <1>1 DEF IInv, PhaseInv, StreamInv
<1>4. Aims'
  <2>1. Request' = Request
    BY <1>1 DEF Request, environment
  <2>2. req' = AsyncRead(Fresh, Request)'
    <3>1. AsyncRead(req, Request) = AsyncRead(Fresh, Request)
      BY AsyncReadFacts
    <3>2. AsyncRead(Fresh, Request)' = AsyncRead(Fresh, Request)
      BY <2>1
    <3> QED
      BY <1>1, <3>1, <3>2
  <2> QED
    BY <1>1, <1>2, <2>2 DEF Aims
<1>5. PhaseInv'
  BY <1>1, <1>2, <1>3 DEF IInv, PhaseInv
<1>6. TargetInv'
  BY <1>1, <1>3, <1>4 DEF TargetInv
<1>7. StreamInv'
  <2>1. held' \in Seq(Nat) /\ coming' \in Seq(Nat) /\ held' \o coming' = coming
    BY <1>1, <1>3, CutFacts
  <2> QED
    BY <1>1, <1>3, <2>1 DEF StreamInv
<1> QED
  BY <1>2, <1>5, <1>6, <1>7 DEF IInv

LEMMA HandshakeInv == IInv /\ Handshake => IInv'
<1> SUFFICES ASSUME IInv, Handshake PROVE IInv'
  OBVIOUS
<1>1. /\ UNCHANGED <<environment, rules, coming, req, held, destination, gone, wire, answered>>
      /\ phase = "obscura" /\ ~ IsRequest
      /\ target' = ResolvePath(Spell[client.path])
      /\ phase' = IF target'.host = <<>> THEN "over" ELSE "route"
  BY DEF Handshake
<1>2. Loaded' /\ ListInv' /\ IsRequest' = IsRequest
  BY <1>1, Steady DEF IInv
<1>3. destination' = <<>> /\ held = <<>> /\ coming = Coming
  BY <1>1 DEF IInv, PhaseInv, StreamInv
<1>4. Aims'
  BY <1>1, <1>2 DEF Aims, environment
<1>5. target'.forward
  <2>1. client.path \in Texts
    BY <1>1, ForwardingAssumption DEF IInv, Loaded, Clients, IsRequest
  <2> QED
    BY <1>1, <2>1, MeansFacts, ResolvePathType
<1>6. PhaseInv' /\ TargetInv' /\ StreamInv'
  BY <1>1, <1>2, <1>3, <1>4, <1>5 DEF IInv, PhaseInv, TargetInv, StreamInv
<1> QED
  BY <1>2, <1>6 DEF IInv

\* The route, and the upstream that it leads to.
LEMMA RouteForwardInv == IInv /\ RouteForward => IInv'
<1> SUFFICES ASSUME IInv, RouteForward PROVE IInv'
  OBVIOUS
<1>1. /\ UNCHANGED <<environment, rules, coming, req, held, target, destination, gone, wire, answered>>
      /\ phase = "route" /\ phase' \in {"over", "forward"}
  BY DEF RouteForward
<1>2. Loaded' /\ ListInv' /\ IsRequest' = IsRequest /\ (Aims => Aims')
  BY <1>1, Steady DEF IInv
<1>3. destination' = <<>>
  BY <1>1 DEF IInv, PhaseInv
<1>4. PhaseInv' /\ TargetInv' /\ StreamInv'
  BY <1>1, <1>2, <1>3 DEF IInv, PhaseInv, TargetInv, StreamInv
<1> QED
  BY <1>2, <1>4 DEF IInv

LEMMA ReachInv ==
    ASSUME IInv, phase \in {"forward", "reverse"}, phase = "reverse" => IsRequest, NEW where, Reach(where), where # <<>>,
           IF target.forward THEN where = <<target.host, target.port>>
           ELSE target.host \in DOMAIN routes /\ where = routes[target.host]
    PROVE  IInv'
<1>1. /\ UNCHANGED <<environment, rules, coming, req, held, target, gone, wire, answered>>
      /\ destination' = where /\ phase' = IF IsRequest THEN "write" ELSE "tunnel"
  BY DEF Reach
<1>2. Loaded' /\ ListInv' /\ IsRequest' = IsRequest /\ (Aims => Aims')
  BY <1>1, Steady DEF IInv
<1>3. PhaseInv' /\ StreamInv'
  BY <1>1, <1>2 DEF IInv, PhaseInv, StreamInv
<1>4. TargetInv'
  BY <1>1, <1>2 DEF IInv, TargetInv, environment
<1> QED
  BY <1>2, <1>3, <1>4 DEF IInv

LEMMA ResolvedInv == IInv /\ Resolved => IInv'
<1> SUFFICES ASSUME IInv, Resolved PROVE IInv'
  OBVIOUS
<1> DEFINE where == <<target.host, target.port>>
<1>1. phase = "forward" /\ Reach(where) /\ where # <<>> /\ target.forward
  BY DEF Resolved, IInv, TargetInv
<1> QED
  BY <1>1, ReachInv

LEMMA RouteReverseInv == IInv /\ RouteReverse => IInv'
<1> SUFFICES ASSUME IInv, RouteReverse PROVE IInv'
  OBVIOUS
<1> DEFINE where == routes[target.host]
<1>1. /\ phase = "reverse" /\ Reach(where) /\ target.host \in DOMAIN routes /\ ~ target.forward /\ IsRequest
  BY DEF RouteReverse, IInv, TargetInv, PhaseInv
<1>2. where # <<>>
  <2>1. IsBackend(target.host, where)
    BY <1>1, BackendFound DEF IInv, Loaded
  <2>2. \A e : Table!Endpoint(e) # <<>>
    BY DEF Table!Endpoint
  <2> QED
    BY <2>1, <2>2 DEF IsBackend
<1> QED
  BY <1>1, <1>2, ReachInv

\* The answer or the request, and what came behind it.
LEMMA WriteInv == IInv /\ Write => IInv'
<1> SUFFICES ASSUME IInv, Write PROVE IInv'
  OBVIOUS
<1> DEFINE opening == IF req.method = "connect" THEN <<>> ELSE <<Outline(req)>>
<1>1. /\ UNCHANGED <<environment, rules, coming, req, held, target, destination>>
      /\ phase = "write" /\ phase' = "rest"
      /\ gone' \in BOOLEAN /\ answered' \in BOOLEAN
      /\ ~ gone' => wire' = opening
      /\ answered' => req.method = "connect"
  <2>1. wire = <<>> /\ gone = FALSE /\ answered = FALSE /\ phase = "write"
    BY DEF Write, IInv, StreamInv, PhaseInv
  <2> QED
    BY <2>1 DEF Write
<1>2. Loaded' /\ ListInv' /\ IsRequest' = IsRequest /\ (Aims => Aims')
  BY <1>1, Steady DEF IInv
<1>3. opening' = opening
  BY <1>1
<1>4. PhaseInv'
  BY <1>1, <1>2 DEF IInv, PhaseInv
<1>5. TargetInv'
  BY <1>1, <1>2 DEF IInv, TargetInv, environment
<1> HIDE DEF opening
<1>6. StreamInv'
  <2>1. held' \o coming' = Coming /\ held' \in Seq(Nat) /\ coming' \in Seq(Nat)
    BY <1>1 DEF IInv, StreamInv
  <2>2. ~ gone' => wire' = opening'
    BY <1>1, <1>3
  <2> QED
    BY <1>1, <2>1, <2>2 DEF StreamInv, opening
<1> QED
  BY <1>2, <1>4, <1>5, <1>6 DEF IInv

LEMMA RestInv == IInv /\ Rest => IInv'
<1> SUFFICES ASSUME IInv, Rest PROVE IInv'
  OBVIOUS
<1>1. /\ UNCHANGED <<environment, rules, coming, req, target, destination, answered>>
      /\ phase = "rest" /\ phase' = "tunnel" /\ held' = <<>>
      /\ gone' \in BOOLEAN
      /\ ~ gone' => ~ gone /\ wire' = wire \o held
  BY DEF Rest, IInv, PhaseInv
<1>2. Loaded' /\ ListInv' /\ IsRequest' = IsRequest /\ (Aims => Aims')
  BY <1>1, Steady DEF IInv
<1>3. PhaseInv'
  BY <1>1, <1>2 DEF IInv, PhaseInv
<1>4. TargetInv'
  BY <1>1, <1>2 DEF IInv, TargetInv, environment
<1>5. ASSUME ~ gone'
      PROVE  IF req.method = "connect" THEN wire' \o coming = Coming
             ELSE wire' # <<>> /\ Head(wire') = Outline(req) /\ Tail(wire') \o coming = Coming
  <2>1. /\ held \in Seq(Nat) /\ held \o coming = Coming
        /\ wire' = wire \o held
        /\ wire = IF req.method = "connect" THEN <<>> ELSE <<Outline(req)>>
    BY <1>1, <1>5 DEF IInv, StreamInv
  <2>2. CASE req.method = "connect"
    <3>1. wire' = <<>> \o held
      BY <2>1, <2>2
    <3>2. <<>> \o held = held
      BY <2>1, ConcatEmptySeq
    <3> QED
      BY <2>1, <2>2, <3>1, <3>2
  <2>3. CASE req.method # "connect"
    <3> DEFINE x == Outline(req)
               S == Nat \cup {x}
    <3>1. wire' = <<x>> \o held
      BY <2>1, <2>3
    <3>2. Seq(Nat) \subseteq Seq(S)
      BY SeqMonotonic
    <3>3. x \in S /\ held \in Seq(S)
      BY <2>1, <3>2
    <3> HIDE DEF x, S
    <3>4. <<x>> \o held # <<>> /\ (<<x>> \o held)[1] = x /\ Tail(<<x>> \o held) = held
      BY <3>3, Led
    <3>5. wire' # <<>> /\ Head(wire') = x /\ Tail(wire') = held
      BY <3>1, <3>4
    <3> QED
      BY <2>1, <2>3, <3>5 DEF x
  <2> QED
    BY <2>2, <2>3
<1>6. StreamInv'
  <2>1. held' \in Seq(Nat) /\ coming' \in Seq(Nat)
    BY <1>1 DEF IInv, StreamInv
  <2>2. req' = req /\ coming' = coming
    BY <1>1
  <2>3. answered' => req'.method = "connect"
    BY <1>1, <2>2 DEF IInv, StreamInv
  <2>4. phase' = "tunnel" /\ held' = <<>>
    BY <1>1
  <2> QED
    BY <1>5, <2>1, <2>2, <2>3, <2>4 DEF StreamInv
<1> QED
  BY <1>2, <1>3, <1>4, <1>6 DEF IInv

LEMMA StepInv == IInv /\ [Next]_vars => IInv'
<1>1. IInv /\ UNCHANGED vars => IInv'
  <2> SUFFICES ASSUME IInv, UNCHANGED vars PROVE IInv'
    OBVIOUS
  <2>1. /\ UNCHANGED <<environment, rules, coming, req, held, target, destination, gone, wire, answered>>
        /\ phase' = phase
    BY DEF vars
  <2>2. Loaded' /\ ListInv' /\ IsRequest' = IsRequest /\ (Aims => Aims')
    BY <2>1, Steady DEF IInv
  <2>3. PhaseInv' /\ StreamInv'
    BY <2>1, <2>2 DEF IInv, PhaseInv, StreamInv
  <2>4. TargetInv'
    BY <2>1, <2>2 DEF IInv, TargetInv, environment
  <2> QED
    BY <2>2, <2>3, <2>4 DEF IInv
<1> QED
  BY <1>1, BanStep, PeekInv, FailInv, ReadInv, HandshakeInv, RouteForwardInv, ResolvedInv, RouteReverseInv,
     WriteInv, RestInv DEF Next

LEMMA Inductive == Spec => []IInv
<1>1. Init => IInv
  BY InitInv
<1>2. IInv /\ [Next]_vars => IInv'
  BY StepInv
<1> QED
  BY <1>1, <1>2, PTL DEF Spec

-------------------------------------------------------------------------------
\* A session that writes or tunnels has an upstream, and what is on the blacklist can
\* be found there: the names are kept in lower case, whoever put them on it.
THEOREM TypeCorrect == Spec => []TypeOK
<1>1. IInv => TypeOK
  <2> SUFFICES ASSUME IInv PROVE TypeOK
    OBVIOUS
  <2>1. \A name \in blacklist.domains : Rules!Lowered(name) = name
    <3> TAKE low \in blacklist.domains
    <3>1. PICK name \in banned : low = Rules!Lowered(name)
      BY DEF IInv, ListInv, Listing
    <3>2. name \in Seq(Tokens)
      BY ForwardingAssumption DEF IInv, ListInv
    <3> QED
      BY <3>1, <3>2, LoweredFacts
  <2>2. blacklist.ips \subseteq BannedEndpoints /\ banned \subseteq Banned
    BY DEF IInv, ListInv
  <2> QED
    BY <2>1, <2>2 DEF IInv, Loaded, PhaseInv, TypeOK
<1> QED
  BY <1>1, Inductive, PTL

\* handle_http passes on what the client has said and everything that came with it,
\* once and in order: read_buffer goes before the tunnel.
THEOREM RequestIsKept == Spec => []RequestKept
<1>1. IInv => RequestKept
  <2> SUFFICES ASSUME IInv, phase = "tunnel", IsRequest, ~ gone, Plain(Request)
               PROVE  IF Request.method = "CONNECT"
                      THEN wire \o coming = Coming
                      ELSE /\ ~ answered
                           /\ wire # <<>> /\ SaysTheSame(Head(wire), Request)
                           /\ Tail(wire) \o coming = Coming
    BY DEF RequestKept
  <2>1. Loaded /\ Aims
    BY DEF IInv, TargetInv
  <2>2. Request \in Messages /\ req.method = VerbOf(Request.method)
    BY <2>1, AimsFacts
  <2>3. req.method = "connect" <=> Request.method = "CONNECT"
    BY <2>2, VerbFacts
  <2>4. SaysTheSame(Outline(req), Request)
    <3>1. req = AsyncRead(Fresh, Request)
      BY <2>1 DEF Aims
    <3>2. SaysTheSame(Outline(AsyncRead(Fresh, Request)), Request)
      BY <2>2, SentFacts
    <3> QED
      BY <3>1, <3>2
  <2>5. IF req.method = "connect" THEN wire \o coming = Coming
        ELSE wire # <<>> /\ Head(wire) = Outline(req) /\ Tail(wire) \o coming = Coming
    BY DEF IInv, StreamInv
  <2>6. answered => req.method = "connect"
    BY DEF IInv, StreamInv
  <2> QED
    BY <2>3, <2>4, <2>5, <2>6
<1> QED
  BY <1>1, Inductive, PTL

\* What an understood wish comes to, for each of its forms.
LEMMA WishFacts ==
    ASSUME Loaded, Aims, Understood
    PROVE  /\ target.host = Means[Wish].host
           /\ target.forward => \/ target.port = WishedPort
                                \/ IsRequest /\ Request.method = "CONNECT" /\ WishedPort = <<"80">>
<1> DEFINE t == Wish
           method == Request.method
           port == Means[t].port
<1>1. t \notin Odd
  BY DEF Understood
<1>2. CASE ~ IsRequest
  <2>1. t = client.path /\ client.path \in Paths
    BY <1>2 DEF Wish, Loaded, Clients, IsRequest
  <2>2. t \in Texts \ Odd /\ Means[t].scheme \in {"path", "none"}
    BY <1>1, <1>2, <2>1, ForwardingAssumption DEF Understood
  <2>3. target = Aimed(Means[t].host, Or80(port), TRUE)
    <3>1. target = ResolvePath(Spell[t])
      BY <1>2, <2>1 DEF Aims
    <3> QED
      BY <2>2, <3>1, ResolvedPath
  <2>4. WishedPort = Or80(port)
    <3>1. DefaultPort = <<"80">>
      BY <1>2 DEF DefaultPort
    <3> QED
      BY <3>1 DEF WishedPort, Or80
  <2> QED
    BY <2>3, <2>4 DEF Aimed
<1>3. ASSUME IsRequest
      PROVE  /\ target = Resolve(req.method, Spell[Request.target], Spell[Retrieve(req.entries, "Host")])
             /\ Request.target \in Texts /\ Retrieve(req.entries, "Host") \in Texts
             /\ req.method = "connect" <=> method = "CONNECT"
  BY <1>3, AimsFacts, VerbFacts
<1>4. CASE IsRequest /\ method = "CONNECT"
  <2>1. t = Request.target /\ Means[t].scheme = "none"
    BY <1>4 DEF Wish, Understood
  <2>2. t \in Texts \ Odd
    BY <1>1, <1>3, <1>4, <2>1
  <2>3. target = Aimed(Means[t].host, IF Or80(port) = <<"80">> THEN <<"443">> ELSE Or80(port), TRUE)
    BY <1>3, <1>4, <2>1, <2>2, ResolvedConnect
  <2>4. WishedPort = IF port = <<>> THEN <<"443">> ELSE port
    BY <1>4 DEF WishedPort, DefaultPort
  <2> HIDE DEF port
  <2>5. target.host = Means[t].host /\ target.port = IF Or80(port) = <<"80">> THEN <<"443">> ELSE Or80(port)
    BY <2>3 DEF Aimed
  <2>6. target.port = WishedPort \/ WishedPort = <<"80">>
    <3>1. CASE port = <<>>
      BY <2>4, <2>5, <3>1 DEF Or80
    <3>2. CASE port # <<>>
      BY <2>4, <2>5, <3>2 DEF Or80
    <3> QED
      BY <3>1, <3>2
  <2> QED
    BY <1>4, <2>5, <2>6
<1>5. CASE IsRequest /\ method # "CONNECT" /\ Absolute(Request.target)
  <2>1. t = Request.target
    BY <1>5 DEF Wish
  <2>2. t \in Texts \ Odd /\ Absolute(t) /\ req.method # "connect"
    BY <1>1, <1>3, <1>5, <2>1
  <2> DEFINE m == req.method
             other == Spell[Retrieve(req.entries, "Host")]
  <2>3. target = Resolve(m, Spell[t], other)
    BY <1>3, <1>5, <2>1
  <2> HIDE DEF m, other
  <2>4. m # "connect"
    BY <2>2 DEF m
  <2>5. target = Aimed(Means[t].host,
                       IF Means[t].port # <<>> THEN Means[t].port
                       ELSE IF Means[t].scheme = "https" THEN <<"443">> ELSE <<"80">>,
                       TRUE)
    BY <2>2, <2>3, <2>4, ResolvedAbsolute
  <2>6. WishedPort = IF port # <<>> THEN port
                     ELSE IF Means[t].scheme = "https" THEN <<"443">> ELSE <<"80">>
    BY <1>5 DEF WishedPort, DefaultPort
  <2> QED
    BY <2>5, <2>6 DEF Aimed
<1>6. CASE IsRequest /\ method # "CONNECT" /\ ~ Absolute(Request.target)
  <2>1. t = Retrieve(req.entries, "Host") /\ Means[t].scheme = "none"
    BY <1>6 DEF Wish, Understood
  <2>2. t \in Texts \ Odd /\ req.method # "connect"
    BY <1>1, <1>3, <1>6, <2>1
  <2>3. ~ IsAbsolute(Spell[Request.target])
    BY <1>3, <1>6, MeansFacts DEF Absolute
  <2> DEFINE m == req.method
             uri == Spell[Request.target]
  <2>4. target = Resolve(m, uri, Spell[t])
    BY <1>3, <1>6, <2>1
  <2>5. m # "connect" /\ ~ IsAbsolute(uri)
    BY <2>2, <2>3
  <2> HIDE DEF m, uri
  <2>6. target = Aimed(Means[t].host, Or80(Means[t].port), FALSE)
    BY <2>1, <2>2, <2>4, <2>5, ResolvedByHost
  <2> QED
    BY <2>6 DEF Aimed
<1> QED
  BY <1>2, <1>4, <1>5, <1>6

\* resolve, route_forward and route_reverse: a session leads to the host and the port
\* that its client names, or to the backend that the configuration gives the host.
THEOREM DestinationIsRight == Spec => []RightDestination
<1>1. IInv => RightDestination
  <2> SUFFICES ASSUME IInv, destination # <<>>, Understood
               PROVE  IF target.forward
                      THEN \/ destination = <<Means[Wish].host, WishedPort>>
                           \/ IsRequest /\ Request.method = "CONNECT" /\ WishedPort = <<"80">>
                      ELSE IsBackend(Means[Wish].host, destination)
    BY DEF RightDestination
  <2>1. Loaded /\ Aims
    BY DEF IInv, TargetInv
  <2>2. IF target.forward THEN destination = <<target.host, target.port>>
        ELSE target.host \in DOMAIN routes /\ destination = routes[target.host]
    BY DEF IInv, TargetInv
  <2>3. CASE target.forward
    BY <2>1, <2>2, <2>3, WishFacts
  <2>4. CASE ~ target.forward
    <3>1. target.host = Means[Wish].host
      BY <2>1, WishFacts
    <3>2. IsBackend(target.host, routes[target.host])
      BY <2>1, <2>2, <2>4, BackendFound DEF Loaded
    <3> QED
      BY <2>2, <2>4, <3>1, <3>2
  <2> QED
    BY <2>3, <2>4
<1> QED
  BY <1>1, Inductive, PTL

\* route_forward: whatever has been done to the blacklist before, a host is refused
\* exactly when it, or a domain that it is in, is on the list, in any spelling.
THEOREM ListedAreBlocked == Spec => BlocksTheListed
<1>1. IInv /\ [Next]_vars => [phase = "route" /\ phase' # "route" => (phase' = "over" <=> Blocked(target.host))]_vars
  <2> SUFFICES ASSUME IInv, [Next]_vars, phase = "route", phase' # "route"
               PROVE  phase' = "over" <=> Blocked(target.host)
    OBVIOUS
  <2>1. RouteForward
    BY DEF Next, vars, Ban, Peek, Fail, Read, Handshake, Resolved, RouteReverse, Write, Rest
  <2>2. target.host \in Seq(Tokens)
    <3>1. Loaded /\ Aims
      BY DEF IInv, TargetInv
    <3> QED
      BY <3>1, AimsFacts
  <2>3. Rules!Domain(blacklist, target.host) <=> Blocked(target.host)
    BY <2>2, BlockedFacts DEF IInv, ListInv
  <2>4. phase' = IF Rules!Domain(blacklist, target.host) THEN "over" ELSE "forward"
    BY <2>1 DEF RouteForward
  <2> QED
    BY <2>3, <2>4
<1> QED
  BY <1>1, Inductive, PTL DEF Spec, BlocksTheListed

===============================================================================
