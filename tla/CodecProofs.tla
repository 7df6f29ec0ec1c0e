------------------------------ MODULE CodecProofs -------------------------------
(* What the containers and the codecs that the other modules are built from do,  *)
(* for every input: selections from a sequence, a container of header fields,    *)
(* and frames.                                                                   *)
EXTENDS HttpHeaders, SequenceTheorems, WellFoundedInduction, TLAPS

-------------------------------------------------------------------------------
\* A set of naturals that begins with 0 and goes on from each to the next is Nat.
LEMMA Upward ==
    ASSUME NEW P \in SUBSET Nat, 0 \in P, \A n \in P : n + 1 \in P
    PROVE  P = Nat
<1> DEFINE R == {ss \in Nat \X Nat : ss[1] < ss[2]}
           Missing == Nat \ P
<1> SUFFICES ASSUME Missing # {} PROVE FALSE
  OBVIOUS
<1>1. IsWellFoundedOn(R, Nat)
  BY NatLessThanWellFounded DEF OpToRel
<1> HIDE DEF R, Missing
<1>2. PICK m \in Missing : \A n \in Missing : ~ (<<n, m>> \in R)
  <2>1. Missing \subseteq Nat
    BY DEF Missing
  <2> QED
    BY <1>1, <2>1, WFMin, Zenon
<1>3. m \in Nat /\ m \notin P
  BY DEF Missing
<1>4. m # 0 /\ m - 1 \in Nat /\ m = (m - 1) + 1
  BY <1>3
<1>5. m - 1 \in Missing
  BY <1>3, <1>4 DEF Missing
<1>6. <<m - 1, m>> \in R
  BY <1>3, <1>4 DEF R
<1> QED
  BY <1>2, <1>5, <1>6

\* The same for the prefixes of a sequence of length N.
LEMMA Prefixwise ==
    ASSUME NEW N \in Nat, NEW P \in SUBSET (0 .. N), 0 \in P,
           \A n \in 1 .. N : n - 1 \in P => n \in P
    PROVE  P = 0 .. N
<1> DEFINE Q == {n \in Nat : n <= N => n \in P}
<1>1. Q \in SUBSET Nat /\ 0 \in Q
  OBVIOUS
<1>2. ASSUME NEW n \in Q PROVE n + 1 \in Q
  <2>1. CASE n + 1 <= N
    <3>1. n \in P /\ n + 1 \in 1 .. N /\ (n + 1) - 1 = n
      BY <2>1
    <3> QED
      BY <3>1
  <2>2. CASE ~ n + 1 <= N
    BY <2>2
  <2> QED
    BY <2>1, <2>2
<1> HIDE DEF Q
<1>3. Q = Nat
  BY <1>1, <1>2, Upward
<1>4. \A n \in 0 .. N : n \in Q /\ n <= N
  BY <1>3
<1>5. \A n \in 0 .. N : n \in P
  BY <1>4 DEF Q
<1> QED
  BY <1>5

\* A function on prefixes that is given by its first value and by how it goes on
\* exists.
Recursive(g, N, X, base, step) ==
    /\ g \in [0 .. N -> X]
    /\ g[0] = base
    /\ \A n \in 1 .. N : g[n] = step[n][g[n - 1]]

LEMMA Recursion ==
    ASSUME NEW N \in Nat, NEW X, NEW base \in X, NEW step,
           \A n \in 1 .. N : \A x \in X : step[n][x] \in X
    PROVE  \E g : Recursive(g, N, X, base, step)
<1> DEFINE Good(g, n) == g[0] = base /\ \A i \in 1 .. n : g[i] = step[i][g[i - 1]]
           P == {n \in 0 .. N : \E g \in [0 .. n -> X] : Good(g, n)}
<1>1. 0 \in P
  <2> DEFINE g == [i \in 0 .. 0 |-> base]
  <2>1. g \in [0 .. 0 -> X] /\ g[0] = base
    OBVIOUS
  <2>2. Good(g, 0)
    BY <2>1
  <2> HIDE DEF g, Good
  <2>3. \E f \in [0 .. 0 -> X] : Good(f, 0)
    BY <2>1, <2>2
  <2> QED
    BY <2>3
<1>2. ASSUME NEW n \in 1 .. N, n - 1 \in P PROVE n \in P
  <2>1. PICK g \in [0 .. n - 1 -> X] : Good(g, n - 1)
    BY <1>2
  <2> DEFINE h == [i \in 0 .. n |-> IF i = n THEN step[n][g[n - 1]] ELSE g[i]]
  <2>2. step[n][g[n - 1]] \in X
    OBVIOUS
  <2>3. h \in [0 .. n -> X]
    BY <2>2
  <2>4. h[0] = base
    BY <2>1
  <2>5. ASSUME NEW i \in 1 .. n PROVE h[i] = step[i][h[i - 1]]
    <3>1. CASE i = n
      BY <3>1
    <3>2. CASE i # n
      <4>1. i \in 1 .. n - 1 /\ i - 1 # n /\ i - 1 \in 0 .. n
        BY <3>2
      <4>2. h[i] = g[i] /\ h[i - 1] = g[i - 1]
        BY <4>1
      <4> QED
        BY <2>1, <4>1, <4>2
    <3> QED
      BY <3>1, <3>2
  <2> HIDE DEF h
  <2>6. Good(h, n)
    BY <2>4, <2>5
  <2> QED
    BY <2>3, <2>6
<1>3. P = 0 .. N
  <2>1. P \in SUBSET (0 .. N)
    OBVIOUS
  <2> HIDE DEF P
  <2> QED
    BY <1>1, <1>2, <2>1, Prefixwise
<1>4. N \in P
  BY <1>3
<1> QED
  BY <1>4 DEF Recursive

-------------------------------------------------------------------------------
\* g says what Chosen(s, I) has taken from each prefix of s.
Takes(g, s, I) ==
    /\ g[0] = <<>>
    /\ \A n \in 1 .. Len(s) : g[n] = IF n \in I THEN Append(g[n - 1], s[n]) ELSE g[n - 1]

LEMMA ChosenFacts ==
    ASSUME NEW A, NEW s \in Seq(A), NEW I, NEW S, \A n \in 1 .. Len(s) : n \in I => s[n] \in S
    PROVE  \E g \in [0 .. Len(s) -> Seq(S)] : Takes(g, s, I) /\ Chosen(s, I) = g[Len(s)]
<1> DEFINE Rec(f) == [n \in 0 .. Len(s) |->
                        IF n = 0 THEN <<>>
                        ELSE IF n \in I THEN Append(f[n - 1], s[n]) ELSE f[n - 1]]
           step == [n \in 1 .. Len(s) |-> [t \in Seq(S) |-> IF n \in I THEN Append(t, s[n]) ELSE t]]
           left == CHOOSE f : f = Rec(f)
<1>1. Len(s) \in Nat
  BY LenProperties
<1>2. \A n \in 1 .. Len(s) : \A x \in Seq(S) : step[n][x] \in Seq(S)
  BY <1>1, AppendProperties
<1>3. PICK g \in [0 .. Len(s) -> Seq(S)] :
        g[0] = <<>> /\ \A n \in 1 .. Len(s) : g[n] = step[n][g[n - 1]]
  <2> DEFINE N == Len(s)
             X == Seq(S)
             base == <<>>
  <2>1. N \in Nat /\ base \in X /\ \A n \in 1 .. N : \A x \in X : step[n][x] \in X
    BY <1>1, <1>2
  <2> HIDE DEF N, step, X, base
  <2>2. \E g : Recursive(g, N, X, base, step)
    BY <2>1, Recursion
  <2> QED
    BY <2>2 DEF Recursive, N, X, base
<1>4. Takes(g, s, I)
  <2>1. ASSUME NEW n \in 1 .. Len(s)
        PROVE  g[n] = IF n \in I THEN Append(g[n - 1], s[n]) ELSE g[n - 1]
    <3>1. g[n - 1] \in Seq(S)
      BY <1>1
    <3> QED
      BY <1>3, <3>1
  <2> QED
    BY <1>3, <2>1 DEF Takes
<1>5. g = Rec(g)
  <2>1. \A n \in 0 .. Len(s) : n # 0 => n \in 1 .. Len(s)
    BY <1>1
  <2>2. \A n \in 0 .. Len(s) : g[n] = Rec(g)[n]
    BY <1>4, <2>1 DEF Takes
  <2>3. DOMAIN Rec(g) = 0 .. Len(s)
    OBVIOUS
  <2> HIDE DEF Rec
  <2> QED
    BY <2>2, <2>3
<1>6. left = Rec(left)
  <2> HIDE DEF Rec
  <2> QED
    BY <1>5
<1>7. Takes(left, s, I) /\ DOMAIN left = 0 .. Len(s)
  <2> HIDE DEF left
  <2>1. \A n \in 0 .. Len(s) : left[n] = Rec(left)[n]
    BY <1>6
  <2>2. DOMAIN left = 0 .. Len(s)
    BY <1>6
  <2>3. 0 \in 0 .. Len(s) /\ \A n \in 1 .. Len(s) : n \in 0 .. Len(s) /\ n # 0
    BY <1>1
  <2> QED
    BY <2>1, <2>2, <2>3 DEF Takes
<1>8. Chosen(s, I) = left[Len(s)]
  BY DEF Chosen
<1> HIDE DEF left
<1>9. left = g
  <2> DEFINE P == {n \in 0 .. Len(s) : left[n] = g[n]}
  <2>1. 0 \in P
    BY <1>1, <1>4, <1>7 DEF Takes
  <2>2. ASSUME NEW n \in 1 .. Len(s), n - 1 \in P PROVE n \in P
    BY <1>1, <1>4, <1>7, <2>2 DEF Takes
  <2>3. P = 0 .. Len(s)
    <3>1. P \in SUBSET (0 .. Len(s))
      OBVIOUS
    <3> HIDE DEF P
    <3> QED
      BY <1>1, <2>1, <2>2, <3>1, Prefixwise
  <2>4. \A n \in 0 .. Len(s) : left[n] = g[n]
    BY <2>3
  <2> QED
    BY <1>6, <1>7, <2>4
<1> QED
  BY <1>4, <1>8, <1>9

\* The values of the elements of s at the positions I, and what they are for each
\* prefix of s.
Picked(s, I) == LET of == Chosen(s, I) IN [i \in DOMAIN of |-> of[i].value]

Picks(h, s, I, N) ==
    /\ h[0] = <<>>
    /\ \A n \in 1 .. N : h[n] = IF n \in I THEN Append(h[n - 1], s[n].value) ELSE h[n - 1]

LEMMA PickedFacts ==
    ASSUME NEW A, NEW s \in Seq(A), NEW I, NEW V, \A n \in 1 .. Len(s) : n \in I => s[n].value \in V
    PROVE  \E h \in [0 .. Len(s) -> Seq(V)] : Picks(h, s, I, Len(s)) /\ Picked(s, I) = h[Len(s)]
<1> DEFINE S == {x \in A : x.value \in V}
           h(g) == [n \in 0 .. Len(s) |-> [i \in 1 .. Len(g[n]) |-> g[n][i].value]]
<1>1. Len(s) \in Nat /\ \A n \in 1 .. Len(s) : s[n] \in A
  BY LenProperties, ElementOfSeq
<1>2. PICK g \in [0 .. Len(s) -> Seq(S)] : Takes(g, s, I) /\ Chosen(s, I) = g[Len(s)]
  <2>1. \A n \in 1 .. Len(s) : n \in I => s[n] \in S
    BY <1>1
  <2> HIDE DEF S
  <2> QED
    BY <2>1, ChosenFacts
<1>3. \A t \in Seq(S) : /\ [i \in 1 .. Len(t) |-> t[i].value] \in Seq(V)
                       /\ DOMAIN t = 1 .. Len(t)
  <2> TAKE t \in Seq(S)
  <2>1. Len(t) \in Nat /\ DOMAIN t = 1 .. Len(t) /\ \A i \in 1 .. Len(t) : t[i] \in S
    BY LenProperties, ElementOfSeq
  <2> QED
    BY <2>1
<1>4. h(g) \in [0 .. Len(s) -> Seq(V)]
  BY <1>3
<1>5. ASSUME NEW n \in 1 .. Len(s)
      PROVE  h(g)[n] = IF n \in I THEN Append(h(g)[n - 1], s[n].value) ELSE h(g)[n - 1]
  <2>1. n \in 0 .. Len(s) /\ n - 1 \in 0 .. Len(s)
    BY <1>1
  <2>2. CASE n \notin I
    BY <1>2, <2>1, <2>2 DEF Takes
  <2>3. CASE n \in I
    <3> DEFINE t == g[n - 1]
               u == [i \in 1 .. Len(t) |-> t[i].value]
    <3>1. t \in Seq(S) /\ s[n] \in S /\ g[n] = Append(t, s[n])
      BY <1>1, <1>2, <2>1, <2>3 DEF Takes
    <3>2. /\ g[n] \in Seq(S) /\ Len(g[n]) = Len(t) + 1 /\ Len(t) \in Nat
          /\ \A i \in 1 .. Len(t) : g[n][i] = t[i]
          /\ g[n][Len(t) + 1] = s[n]
      BY <3>1, AppendProperties, LenProperties
    <3>3. u \in Seq(V) /\ s[n].value \in V /\ Len(u) = Len(t)
      BY <1>3, <2>3, <3>1, <3>2
    <3>4. /\ Append(u, s[n].value) \in Seq(V) /\ Len(Append(u, s[n].value)) = Len(t) + 1
          /\ \A i \in 1 .. Len(t) : Append(u, s[n].value)[i] = u[i]
          /\ Append(u, s[n].value)[Len(t) + 1] = s[n].value
      BY <3>3, AppendProperties
    <3>5. h(g)[n] \in Seq(V) /\ Len(h(g)[n]) = Len(t) + 1
      BY <1>4, <2>1, <3>2
    <3>6. ASSUME NEW i \in 1 .. Len(t) + 1 PROVE h(g)[n][i] = Append(u, s[n].value)[i]
      <4>1. h(g)[n][i] = g[n][i].value
        BY <2>1, <3>2
      <4>2. CASE i = Len(t) + 1
        BY <3>2, <3>4, <4>1, <4>2
      <4>3. CASE i # Len(t) + 1
        <5>1. i \in 1 .. Len(t)
          BY <3>2, <4>3
        <5> QED
          BY <3>2, <3>4, <4>1, <5>1
      <4> QED
        BY <4>2, <4>3
    <3>7. h(g)[n] = Append(u, s[n].value)
      <4> DEFINE p == h(g)[n]
                 q == Append(u, s[n].value)
      <4>1. p \in Seq(V) /\ q \in Seq(V) /\ Len(p) = Len(q) /\ \A i \in 1 .. Len(p) : p[i] = q[i]
        BY <3>4, <3>5, <3>6
      <4> HIDE DEF p, q
      <4>2. p = q
        BY <4>1, SeqEqual
      <4> QED
        BY <4>2 DEF p, q
    <3> QED
      BY <2>1, <2>3, <3>7
  <2> QED
    BY <2>2, <2>3
<1>6. h(g)[0] = <<>>
  <2>1. g[0] = <<>> /\ 0 \in 0 .. Len(s) /\ Len(<<>>) = 0
    BY <1>1, <1>2 DEF Takes
  <2> QED
    BY <2>1
<1>7. Picked(s, I) = h(g)[Len(s)]
  <2>1. Len(s) \in 0 .. Len(s)
    BY <1>1
  <2> QED
    BY <1>2, <1>3, <2>1 DEF Picked
<1>8. Picks(h(g), s, I, Len(s))
  <2> HIDE DEF h
  <2> QED
    BY <1>5, <1>6 DEF Picks
<1> QED
  BY <1>4, <1>7, <1>8

\* What is picked depends on nothing but which elements are, and on their values.
LEMMA PicksAgree ==
    ASSUME NEW N \in Nat, NEW g, NEW h, NEW s, NEW t, NEW I, NEW J,
           Picks(g, s, I, N), Picks(h, t, J, N),
           \A n \in 1 .. N : (n \in I <=> n \in J) /\ (n \in I => s[n].value = t[n].value)
    PROVE  \A n \in 0 .. N : g[n] = h[n]
<1> DEFINE P == {n \in 0 .. N : g[n] = h[n]}
<1>1. 0 \in P
  BY DEF Picks
<1>2. ASSUME NEW n \in 1 .. N, n - 1 \in P PROVE n \in P
  BY <1>2 DEF Picks
<1>3. P = 0 .. N
  <2>1. P \in SUBSET (0 .. N)
    OBVIOUS
  <2> HIDE DEF P
  <2> QED
    BY <1>1, <1>2, <2>1, Prefixwise
<1> QED
  BY <1>3

-------------------------------------------------------------------------------
\* The entries that a container of header fields may hold.
Good == {e \in Entries : (e.name \in Names /\ e.key = Key(e.name)) \/ (e.name = "" /\ e.value = "")}

\* The values that count, and those that a set leaves.
Given == Values \ {""}
Single(v) == IF v = "" THEN <<>> ELSE <<v>>

\* The entries of a name that are seen.
Live(es, name) == {i \in At(es, name) : es[i].value # ""}

LEMMA KeyFacts ==
    /\ \A n \in Names : Key(n) \in Keys /\ Key(n) \in Names /\ Key(Key(n)) = Key(n)
    /\ \A k \in Keys : k \in Names /\ Key(k) = k
BY HeaderAssumption DEF Key, Keys

LEMMA EntryFacts ==
    /\ \A n \in Names, v \in Values : Entry(n, v) \in Good /\ Entry(n, v).key = Key(n)
                                     /\ Entry(n, v).name = n /\ Entry(n, v).value = v
    /\ \A e \in Good : e \in Entries /\ [e EXCEPT !.name = "", !.value = ""] \in Good
    /\ \A e \in Entries : e.key \in Keys /\ e.name \in Names \cup {""} /\ e.value \in Values
<1>1. \A n \in Names : Key(n) \in Keys
  BY KeyFacts
<1> QED
  BY <1>1, HeaderAssumption DEF Entry, Good, Entries

LEMMA SeqOfEntries ==
    ASSUME NEW es \in Seq(Good)
    PROVE  /\ es \in Seq(Entries) /\ Len(es) \in Nat /\ DOMAIN es = 1 .. Len(es)
           /\ \A i \in 1 .. Len(es) : es[i] \in Good
<1>1. Good \subseteq Entries
  BY DEF Good
<1> QED
  BY <1>1, SeqMonotonic, LenProperties, ElementOfSeq

\* Min of a set of naturals.
LEMMA MinFacts ==
    ASSUME NEW S \in SUBSET Nat, S # {}
    PROVE  Min(S) \in S /\ \A n \in S : Min(S) <= n
<1> DEFINE R == {ss \in Nat \X Nat : ss[1] < ss[2]}
<1>1. IsWellFoundedOn(R, Nat)
  BY NatLessThanWellFounded DEF OpToRel
<1> HIDE DEF R
<1>2. PICK m \in S : \A n \in S : ~ (<<n, m>> \in R)
  BY <1>1, WFMin, Zenon
<1>3. \A n \in S : ~ (n < m)
  BY <1>2 DEF R
<1>4. \A n \in S : m <= n
  BY <1>3
<1> QED
  BY <1>4 DEF Min

\* What ValuesOf gives, for each prefix of the container.
LEMMA ValuesFacts ==
    ASSUME NEW es \in Seq(Entries), NEW name
    PROVE  /\ ValuesOf(es, name) \in Seq(Given)
           /\ \E h \in [0 .. Len(es) -> Seq(Given)] :
                Picks(h, es, Live(es, name), Len(es)) /\ ValuesOf(es, name) = h[Len(es)]
<1> DEFINE I == Live(es, name)
<1>1. Len(es) \in Nat /\ \A n \in 1 .. Len(es) : es[n] \in Entries
  BY LenProperties, ElementOfSeq
<1>2. \A n \in 1 .. Len(es) : n \in I => es[n].value \in Given
  BY <1>1, EntryFacts DEF Live, Given
<1>3. ValuesOf(es, name) = Picked(es, I)
  BY DEF ValuesOf, Picked, Live
<1> HIDE DEF I
<1>4. \E h \in [0 .. Len(es) -> Seq(Given)] : Picks(h, es, I, Len(es)) /\ Picked(es, I) = h[Len(es)]
  BY <1>2, PickedFacts
<1> QED
  BY <1>1, <1>3, <1>4 DEF I

\* Two containers whose prefixes of a length have the same entries of a name.
LEMMA ValuesAgree ==
    ASSUME NEW N \in Nat, NEW g, NEW h, NEW es, NEW fs, NEW name, NEW other,
           N <= Len(es), N <= Len(fs), es \in Seq(Entries), fs \in Seq(Entries),
           Picks(g, es, Live(es, name), N), Picks(h, fs, Live(fs, other), N),
           \A n \in 1 .. N : /\ es[n].key = Key(name) <=> fs[n].key = Key(other)
                             /\ es[n].key = Key(name) => es[n].value = fs[n].value
    PROVE  \A n \in 0 .. N : g[n] = h[n]
<1> DEFINE I == Live(es, name)
           J == Live(fs, other)
<1>1. /\ Len(es) \in Nat /\ DOMAIN es = 1 .. Len(es)
      /\ Len(fs) \in Nat /\ DOMAIN fs = 1 .. Len(fs)
  BY LenProperties
<1>2. \A n \in 1 .. N : (n \in I <=> n \in J) /\ (n \in I => es[n].value = fs[n].value)
  <2>1. \A n \in 1 .. N : n \in DOMAIN es /\ n \in DOMAIN fs
    BY <1>1
  <2> QED
    BY <2>1 DEF Live, At
<1> HIDE DEF I, J
<1>3. Picks(g, es, I, N) /\ Picks(h, fs, J, N)
  BY DEF I, J
<1> QED
  BY <1>2, <1>3, PicksAgree

LEMMA ValuesSame ==
    ASSUME NEW es \in Seq(Entries), NEW fs \in Seq(Entries), NEW name, NEW other, Len(es) = Len(fs),
           \A n \in 1 .. Len(es) : /\ es[n].key = Key(name) <=> fs[n].key = Key(other)
                                   /\ es[n].key = Key(name) => es[n].value = fs[n].value
    PROVE  ValuesOf(es, name) = ValuesOf(fs, other)
<1>1. Len(es) \in Nat
  BY LenProperties
<1>2. PICK g : Picks(g, es, Live(es, name), Len(es)) /\ ValuesOf(es, name) = g[Len(es)]
  BY ValuesFacts
<1>3. PICK h : Picks(h, fs, Live(fs, other), Len(fs)) /\ ValuesOf(fs, other) = h[Len(fs)]
  BY ValuesFacts
<1>4. \A n \in 0 .. Len(es) : g[n] = h[n]
  <2> DEFINE N == Len(es)
  <2>1. N \in Nat /\ N <= Len(es) /\ N <= Len(fs)
    BY <1>1
  <2>2. Picks(g, es, Live(es, name), N) /\ Picks(h, fs, Live(fs, other), N)
    BY <1>2, <1>3
  <2>3. \A n \in 1 .. N : /\ es[n].key = Key(name) <=> fs[n].key = Key(other)
                          /\ es[n].key = Key(name) => es[n].value = fs[n].value
    OBVIOUS
  <2> HIDE DEF N
  <2>4. \A n \in 0 .. N : g[n] = h[n]
    BY <2>1, <2>2, <2>3, ValuesAgree
  <2> QED
    BY <2>4 DEF N
<1> QED
  BY <1>1, <1>2, <1>3, <1>4

\* An entry at the end.
LEMMA ValuesAppend ==
    ASSUME NEW es \in Seq(Entries), NEW e \in Entries, NEW name
    PROVE  ValuesOf(Append(es, e), name) =
             IF e.key = Key(name) /\ e.value # "" THEN Append(ValuesOf(es, name), e.value)
             ELSE ValuesOf(es, name)
<1> DEFINE fs == Append(es, e)
           N == Len(es)
<1>1. /\ fs \in Seq(Entries) /\ Len(fs) = N + 1 /\ N \in Nat
      /\ \A i \in 1 .. N : fs[i] = es[i]
      /\ fs[N + 1] = e
  BY AppendProperties, LenProperties
<1> HIDE DEF fs
<1>2. PICK g : Picks(g, es, Live(es, name), N) /\ ValuesOf(es, name) = g[N]
  BY ValuesFacts
<1>3. PICK h : Picks(h, fs, Live(fs, name), N + 1) /\ ValuesOf(fs, name) = h[N + 1]
  BY <1>1, ValuesFacts
<1>4. g[N] = h[N]
  <2>1. Picks(h, fs, Live(fs, name), N)
    BY <1>1, <1>3 DEF Picks
  <2>2. N <= Len(es) /\ N <= Len(fs)
    BY <1>1
  <2> HIDE DEF N
  <2>3. \A n \in 0 .. N : g[n] = h[n]
    BY <1>1, <1>2, <2>1, <2>2, ValuesAgree
  <2> QED
    BY <1>1, <2>3
<1>5. h[N + 1] = IF N + 1 \in Live(fs, name) THEN Append(h[N], e.value) ELSE h[N]
  BY <1>1, <1>3 DEF Picks
<1>6. N + 1 \in Live(fs, name) <=> e.key = Key(name) /\ e.value # ""
  <2>1. N + 1 \in DOMAIN fs
    BY <1>1, LenProperties
  <2> QED
    BY <1>1, <2>1 DEF Live, At
<1> QED
  BY <1>2, <1>3, <1>4, <1>5, <1>6 DEF fs

\* No entry of a name, or none that is seen.
LEMMA ValuesNone ==
    ASSUME NEW es \in Seq(Entries), NEW name, Live(es, name) = {}
    PROVE  ValuesOf(es, name) = <<>>
<1> DEFINE N == Len(es)
           none == [n \in 0 .. N |-> <<>>]
<1>1. N \in Nat
  BY LenProperties
<1>2. PICK h : Picks(h, es, Live(es, name), N) /\ ValuesOf(es, name) = h[N]
  BY ValuesFacts
<1>3. Picks(none, es, {}, N)
  BY <1>1 DEF Picks
<1>4. \A n \in 0 .. N : h[n] = none[n]
  <2>1. Picks(h, es, {}, N)
    BY <1>2
  <2> HIDE DEF N, none
  <2> QED
    BY <1>1, <1>3, <2>1, PicksAgree
<1> QED
  BY <1>1, <1>2, <1>4

-------------------------------------------------------------------------------
\* set: where it finds an entry of the name, and where it finds none.
Overwrites(fs, es, name, value, m) ==
    /\ Len(fs) = Len(es)
    /\ \A i \in 1 .. Len(es) : fs[i] =
         IF i \notin At(es, name) THEN es[i]
         ELSE IF i = m THEN Entry(name, value) ELSE [es[i] EXCEPT !.name = "", !.value = ""]

LEMMA SetShape ==
    ASSUME NEW es \in Seq(Good), NEW name \in Names, NEW value \in Values
    PROVE  /\ Set(es, name, value) \in Seq(Good)
           /\ At(es, name) = {} => Set(es, name, value) = Append(es, Entry(name, value))
           /\ At(es, name) # {} =>
                \E m \in At(es, name) : Overwrites(Set(es, name, value), es, name, value, m)
<1> DEFINE fs == Set(es, name, value)
           m == Min(At(es, name))
<1>1. /\ es \in Seq(Entries) /\ Len(es) \in Nat /\ DOMAIN es = 1 .. Len(es)
      /\ \A i \in 1 .. Len(es) : es[i] \in Good
      /\ Entry(name, value) \in Good
  BY SeqOfEntries, EntryFacts
<1>2. CASE At(es, name) = {}
  <2>1. fs = Append(es, Entry(name, value))
    BY <1>2 DEF Set, Construct
  <2> QED
    BY <1>1, <1>2, <2>1, AppendProperties
<1>3. CASE At(es, name) # {}
  <2>1. At(es, name) \subseteq 1 .. Len(es) /\ At(es, name) \in SUBSET Nat
    BY <1>1 DEF At
  <2>2. m \in At(es, name)
    BY <1>3, <2>1, MinFacts
  <2>3. fs = [i \in 1 .. Len(es) |->
                CASE i \notin At(es, name) -> es[i]
                  [] i = m -> Entry(name, value)
                  [] OTHER -> [es[i] EXCEPT !.name = "", !.value = ""]]
    BY <1>1, <1>3 DEF Set
  <2> HIDE DEF m
  <2>4. ASSUME NEW i \in 1 .. Len(es)
        PROVE  fs[i] = IF i \notin At(es, name) THEN es[i]
                       ELSE IF i = m THEN Entry(name, value) ELSE [es[i] EXCEPT !.name = "", !.value = ""]
    BY <2>2, <2>3
  <2>5. \A i \in 1 .. Len(es) : fs[i] \in Good
    <3> TAKE i \in 1 .. Len(es)
    <3>1. es[i] \in Good /\ [es[i] EXCEPT !.name = "", !.value = ""] \in Good
      BY <1>1, EntryFacts
    <3> QED
      BY <1>1, <2>4, <3>1
  <2>6. fs = [i \in 1 .. Len(es) |-> fs[i]]
    BY <2>3
  <2> HIDE DEF fs
  <2>7. fs \in Seq(Good) /\ Len(fs) = Len(es)
    BY <1>1, <2>5, <2>6
  <2> QED
    BY <1>3, <2>2, <2>4, <2>7 DEF fs, Overwrites
<1> QED
  BY <1>2, <1>3

\* After set the name has that value and no other.
LEMMA SetOwn ==
    ASSUME NEW es \in Seq(Good), NEW name \in Names, NEW value \in Values, NEW other, Key(other) = Key(name)
    PROVE  ValuesOf(Set(es, name, value), other) = Single(value)
<1> DEFINE fs == Set(es, name, value)
<1>1. /\ es \in Seq(Entries) /\ Len(es) \in Nat /\ DOMAIN es = 1 .. Len(es)
      /\ \A i \in 1 .. Len(es) : es[i] \in Good
      /\ fs \in Seq(Good) /\ fs \in Seq(Entries) /\ Len(fs) \in Nat /\ DOMAIN fs = 1 .. Len(fs)
      /\ Entry(name, value) \in Entries /\ Entry(name, value).key = Key(name)
      /\ Entry(name, value).value = value
  BY SetShape, SeqOfEntries, EntryFacts
<1>2. CASE At(es, name) = {}
  <2>1. fs = Append(es, Entry(name, value))
    BY <1>2, SetShape
  <2>2. ValuesOf(es, other) = <<>>
    <3>1. Live(es, other) = {}
      BY <1>2 DEF Live, At
    <3> QED
      BY <1>1, <3>1, ValuesNone
  <2>3. ValuesOf(fs, other) = IF value # "" THEN Append(<<>>, value) ELSE <<>>
    <3> HIDE DEF fs
    <3> QED
      BY <1>1, <2>1, <2>2, ValuesAppend
  <2>4. Append(<<>>, value) = <<value>>
    OBVIOUS
  <2> QED
    BY <2>3, <2>4 DEF Single
<1>3. CASE At(es, name) # {}
  <2>0. PICK m \in At(es, name) : Overwrites(fs, es, name, value, m)
    BY <1>3, SetShape
  <2>1. \A i \in 1 .. Len(es) : fs[i] =
             IF i \notin At(es, name) THEN es[i]
             ELSE IF i = m THEN Entry(name, value) ELSE [es[i] EXCEPT !.name = "", !.value = ""]
    BY <2>0 DEF Overwrites
  <2>2. Len(fs) = Len(es) /\ m \in 1 .. Len(es)
    BY <1>1, <2>0 DEF Overwrites, At
  <2> HIDE DEF fs
  <2>3. Live(fs, other) = IF value # "" THEN {m} ELSE {}
    <3>1. ASSUME NEW i \in 1 .. Len(es) PROVE i \in Live(fs, other) <=> i = m /\ value # ""
      <4>1. i \in DOMAIN es /\ i \in DOMAIN fs
        BY <1>1, <2>2
      <4>2. CASE i \notin At(es, name)
        <5>1. fs[i] = es[i] /\ es[i].key # Key(other) /\ i # m
          BY <2>1, <4>1, <4>2 DEF At
        <5> QED
          BY <5>1 DEF Live, At
      <4>3. CASE i \in At(es, name) /\ i # m
        <5>1. fs[i].value = ""
          BY <1>1, <2>1, <4>3 DEF Good, Entries
        <5> QED
          BY <4>3, <5>1 DEF Live, At
      <4>4. CASE i = m
        <5>1. fs[i].value = value /\ fs[i].key = Key(other)
          BY <1>1, <2>1, <4>4
        <5> QED
          BY <4>1, <4>4, <5>1 DEF Live, At
      <4> QED
        BY <4>2, <4>3, <4>4
    <3>2. Live(fs, other) \subseteq 1 .. Len(es)
      BY <1>1, <2>2 DEF Live, At
    <3> QED
      BY <2>2, <3>1, <3>2
  <2>4. CASE value = ""
    BY <1>1, <2>3, <2>4, ValuesNone DEF Single, fs
  <2>5. CASE value # ""
    <3> DEFINE N == Len(es)
               one == [n \in 0 .. N |-> IF n < m THEN <<>> ELSE <<value>>]
    <3>1. PICK h : Picks(h, fs, Live(fs, other), N) /\ ValuesOf(fs, other) = h[N]
      BY <1>1, <2>2, ValuesFacts
    <3>2. Picks(one, fs, {m}, N)
      <4>1. one[0] = <<>>
        BY <1>1, <2>2
      <4>2. ASSUME NEW n \in 1 .. N
            PROVE  one[n] = IF n \in {m} THEN Append(one[n - 1], fs[n].value) ELSE one[n - 1]
        <5>1. CASE n < m
          BY <1>1, <2>2, <5>1
        <5>2. CASE n = m
          <6>1. one[n] = <<value>> /\ one[n - 1] = <<>>
            BY <1>1, <2>2, <5>2
          <6>2. fs[n].value = value
            BY <1>1, <2>1, <2>2, <5>2
          <6> QED
            BY <5>2, <6>1, <6>2
        <5>3. CASE n > m
          BY <1>1, <2>2, <5>3
        <5> QED
          BY <1>1, <2>2, <5>1, <5>2, <5>3
      <4> HIDE DEF one
      <4> QED
        BY <4>1, <4>2 DEF Picks
    <3>3. \A n \in 0 .. N : h[n] = one[n]
      <4>1. Picks(h, fs, {m}, N) /\ N \in Nat
        BY <1>1, <2>3, <2>5, <3>1
      <4> HIDE DEF N, one
      <4> QED
        BY <3>2, <4>1, PicksAgree
    <3>4. one[N] = <<value>>
      BY <1>1, <2>2
    <3>5. N \in 0 .. N
      BY <1>1
    <3> HIDE DEF N, one
    <3>6. ValuesOf(fs, other) = <<value>>
      BY <3>1, <3>3, <3>4, <3>5
    <3> QED
      BY <2>5, <3>6 DEF Single, fs
  <2> QED
    BY <2>4, <2>5 DEF fs
<1> QED
  BY <1>2, <1>3

\* Nothing happens to the other names.
LEMMA SetOther ==
    ASSUME NEW es \in Seq(Good), NEW name \in Names, NEW value \in Values, NEW other, Key(other) # Key(name)
    PROVE  ValuesOf(Set(es, name, value), other) = ValuesOf(es, other)
<1> DEFINE fs == Set(es, name, value)
<1>1. /\ es \in Seq(Entries) /\ Len(es) \in Nat /\ DOMAIN es = 1 .. Len(es)
      /\ \A i \in 1 .. Len(es) : es[i] \in Good
      /\ fs \in Seq(Good) /\ fs \in Seq(Entries)
      /\ Entry(name, value) \in Entries /\ Entry(name, value).key = Key(name)
  BY SetShape, SeqOfEntries, EntryFacts
<1>2. CASE At(es, name) = {}
  <2>1. fs = Append(es, Entry(name, value))
    BY <1>2, SetShape
  <2> HIDE DEF fs
  <2>2. ValuesOf(fs, other) = ValuesOf(es, other)
    BY <1>1, <2>1, ValuesAppend
  <2> QED
    BY <2>2 DEF fs
<1>3. CASE At(es, name) # {}
  <2>0. PICK m \in At(es, name) : Overwrites(fs, es, name, value, m)
    BY <1>3, SetShape
  <2>1. \A i \in 1 .. Len(es) : fs[i] =
             IF i \notin At(es, name) THEN es[i]
             ELSE IF i = m THEN Entry(name, value) ELSE [es[i] EXCEPT !.name = "", !.value = ""]
    BY <2>0 DEF Overwrites
  <2>2. Len(fs) = Len(es)
    BY <2>0 DEF Overwrites
  <2> HIDE DEF fs
  <2>3. ASSUME NEW i \in 1 .. Len(es)
        PROVE  /\ es[i].key = Key(other) <=> fs[i].key = Key(other)
               /\ es[i].key = Key(other) => es[i].value = fs[i].value
    <3>1. CASE i \notin At(es, name)
      BY <2>1, <3>1
    <3>2. CASE i \in At(es, name)
      <4>1. es[i].key = Key(name)
        BY <3>2 DEF At
      <4>2. fs[i].key = Key(name)
        BY <1>1, <2>1, <3>2, <4>1 DEF Good, Entries
      <4> QED
        BY <4>1, <4>2
    <3> QED
      BY <3>1, <3>2
  <2>4. ValuesOf(es, other) = ValuesOf(fs, other)
    BY <1>1, <2>2, <2>3, ValuesSame
  <2> QED
    BY <2>4 DEF fs
<1> QED
  BY <1>2, <1>3

-------------------------------------------------------------------------------
\* What is chosen from a prefix depends on nothing behind it.
LEMMA TakesAgree ==
    ASSUME NEW N \in Nat, NEW g, NEW h, NEW s, NEW t, NEW I, NEW J, NEW m \in Nat, NEW n \in Nat,
           N <= m, N <= n, m = Len(s), n = Len(t), Takes(g, s, I), Takes(h, t, J),
           \A i \in 1 .. N : (i \in I <=> i \in J) /\ (i \in I => s[i] = t[i])
    PROVE  \A i \in 0 .. N : g[i] = h[i]
<1> DEFINE P == {i \in 0 .. N : g[i] = h[i]}
<1>1. 0 \in P
  BY DEF Takes
<1>2. ASSUME NEW i \in 1 .. N, i - 1 \in P PROVE i \in P
  <2>1. i \in 1 .. Len(s) /\ i \in 1 .. Len(t)
    OBVIOUS
  <2> QED
    BY <1>2, <2>1 DEF Takes
<1>3. P = 0 .. N
  <2>1. P \in SUBSET (0 .. N)
    OBVIOUS
  <2> HIDE DEF P
  <2> QED
    BY <1>1, <1>2, <2>1, Prefixwise
<1> QED
  BY <1>3

LEMMA ChosenType ==
    ASSUME NEW A, NEW s \in Seq(A), NEW I, NEW S, \A n \in 1 .. Len(s) : n \in I => s[n] \in S
    PROVE  Chosen(s, I) \in Seq(S)
<1>1. PICK g \in [0 .. Len(s) -> Seq(S)] : Chosen(s, I) = g[Len(s)]
  BY ChosenFacts
<1>2. Len(s) \in 0 .. Len(s)
  BY LenProperties
<1> QED
  BY <1>1, <1>2

LEMMA ChosenAppend ==
    ASSUME NEW A, NEW s \in Seq(A), NEW x \in A, NEW I, NEW J, \A n \in 1 .. Len(s) : n \in I <=> n \in J
    PROVE  Chosen(Append(s, x), J) = IF Len(s) + 1 \in J THEN Append(Chosen(s, I), x) ELSE Chosen(s, I)
<1> DEFINE t == Append(s, x)
           N == Len(s)
<1>1. /\ t \in Seq(A) /\ Len(t) = N + 1 /\ N \in Nat
      /\ \A i \in 1 .. N : t[i] = s[i]
      /\ t[N + 1] = x
  BY AppendProperties, LenProperties
<1>2. PICK g : Takes(g, s, I) /\ Chosen(s, I) = g[N]
  <2>1. \A n \in 1 .. Len(s) : n \in I => s[n] \in A
    BY ElementOfSeq
  <2> QED
    BY <2>1, ChosenFacts
<1> HIDE DEF t
<1>3. PICK h : Takes(h, t, J) /\ Chosen(t, J) = h[N + 1]
  <2>1. \A n \in 1 .. Len(t) : n \in J => t[n] \in A
    BY <1>1, ElementOfSeq
  <2> QED
    BY <1>1, <2>1, ChosenFacts
<1>4. g[N] = h[N]
  <2> DEFINE M == N + 1
  <2>1. M \in Nat /\ N <= N /\ N <= M /\ N = Len(s) /\ M = Len(t) /\ N \in 0 .. N
    BY <1>1
  <2>2. \A i \in 1 .. N : (i \in I <=> i \in J) /\ (i \in I => s[i] = t[i])
    BY <1>1
  <2> HIDE DEF N, M
  <2>3. \A i \in 0 .. N : g[i] = h[i]
    BY <1>1, <1>2, <1>3, <2>1, <2>2, TakesAgree
  <2> QED
    BY <2>1, <2>3
<1>5. h[N + 1] = IF N + 1 \in J THEN Append(h[N], x) ELSE h[N]
  BY <1>1, <1>3 DEF Takes
<1> QED
  BY <1>2, <1>3, <1>4, <1>5 DEF t

LEMMA ChosenEmpty == \A I : Chosen(<<>>, I) = <<>>
<1> TAKE I
<1>1. <<>> \in Seq({}) /\ Len(<<>>) = 0
  OBVIOUS
<1> DEFINE s == <<>>
<1>2. \A n \in 1 .. Len(s) : n \in I => s[n] \in {}
  BY <1>1
<1> HIDE DEF s
<1>3. PICK g : Takes(g, s, I) /\ Chosen(s, I) = g[Len(s)]
  BY <1>1, <1>2, ChosenFacts DEF s
<1> QED
  BY <1>1, <1>3 DEF Takes, s

\* The sequence without the values v.
Without(t, v) == Chosen(t, {i \in DOMAIN t : t[i] # v})

LEMMA WithoutEmpty == \A v : Without(<<>>, v) = <<>>
BY ChosenEmpty DEF Without

LEMMA WithoutAppend ==
    ASSUME NEW S, NEW t \in Seq(S), NEW x \in S, NEW v
    PROVE  Without(Append(t, x), v) = IF x # v THEN Append(Without(t, v), x) ELSE Without(t, v)
<1> DEFINE u == Append(t, x)
           I == {i \in DOMAIN t : t[i] # v}
           J == {i \in DOMAIN u : u[i] # v}
<1>1. /\ u \in Seq(S) /\ Len(u) = Len(t) + 1 /\ Len(t) \in Nat
      /\ DOMAIN t = 1 .. Len(t) /\ DOMAIN u = 1 .. Len(t) + 1
      /\ \A i \in 1 .. Len(t) : u[i] = t[i]
      /\ u[Len(t) + 1] = x
  BY AppendProperties, LenProperties
<1>2. \A n \in 1 .. Len(t) : n \in I <=> n \in J
  BY <1>1
<1>3. Len(t) + 1 \in J <=> x # v
  BY <1>1
<1> HIDE DEF I, J
<1>4. Chosen(u, J) = IF Len(t) + 1 \in J THEN Append(Chosen(t, I), x) ELSE Chosen(t, I)
  BY <1>2, ChosenAppend
<1> QED
  BY <1>3, <1>4 DEF Without, I, J

-------------------------------------------------------------------------------
LEMMA LiveFacts ==
    ASSUME NEW es \in Seq(Entries), NEW name
    PROVE  /\ Live(es, name) \subseteq 1 .. Len(es)
           /\ \A n \in 1 .. Len(es) : n \in Live(es, name) <=> es[n].key = Key(name) /\ es[n].value # ""
BY LenProperties DEF Live, At

LEMMA ValuesEmpty == \A name : ValuesOf(<<>>, name) = <<>>
<1> TAKE name
<1>1. <<>> \in Seq(Entries) /\ Live(<<>>, name) = {}
  BY DEF Live, At
<1> QED
  BY <1>1, ValuesNone

\* What is taken out of a container, when none of it is a value of the name.
LEMMA ChosenOther ==
    ASSUME NEW es \in Seq(Entries), NEW I, NEW name, \A n \in Live(es, name) : n \in I
    PROVE  ValuesOf(Chosen(es, I), name) = ValuesOf(es, name)
<1> DEFINE N == Len(es)
<1>1. N \in Nat /\ \A n \in 1 .. N : es[n] \in Entries
  BY LenProperties, ElementOfSeq
<1>2. PICK g \in [0 .. N -> Seq(Entries)] : Takes(g, es, I) /\ Chosen(es, I) = g[N]
  BY <1>1, ChosenFacts
<1>3. PICK h : Picks(h, es, Live(es, name), N) /\ ValuesOf(es, name) = h[N]
  BY ValuesFacts
<1> DEFINE P == {n \in 0 .. N : ValuesOf(g[n], name) = h[n]}
<1>4. 0 \in P
  BY <1>1, <1>2, <1>3, ValuesEmpty DEF Takes, Picks
<1>5. ASSUME NEW n \in 1 .. N, n - 1 \in P PROVE n \in P
  <2>1. g[n - 1] \in Seq(Entries) /\ es[n] \in Entries /\ ValuesOf(g[n - 1], name) = h[n - 1] /\ n \in 0 .. N
    BY <1>1, <1>5
  <2>2. ValuesOf(Append(g[n - 1], es[n]), name) =
          IF n \in Live(es, name) THEN Append(h[n - 1], es[n].value) ELSE h[n - 1]
    <3> DEFINE t == g[n - 1]
               e == es[n]
    <3>1. n \in Live(es, name) <=> e.key = Key(name) /\ e.value # ""
      BY LiveFacts
    <3>2. t \in Seq(Entries) /\ e \in Entries /\ ValuesOf(t, name) = h[n - 1]
      BY <2>1
    <3> HIDE DEF t, e
    <3>3. ValuesOf(Append(t, e), name) = IF n \in Live(es, name) THEN Append(h[n - 1], e.value) ELSE h[n - 1]
      BY <3>1, <3>2, ValuesAppend
    <3> QED
      BY <3>3 DEF t, e
  <2>3. h[n] = IF n \in Live(es, name) THEN Append(h[n - 1], es[n].value) ELSE h[n - 1]
    BY <1>3 DEF Picks
  <2>4. g[n] = IF n \in I THEN Append(g[n - 1], es[n]) ELSE g[n - 1]
    BY <1>2 DEF Takes
  <2>5. ValuesOf(g[n], name) = h[n]
    BY <2>1, <2>2, <2>3, <2>4
  <2> QED
    BY <2>1, <2>5
<1>6. P = 0 .. N
  <2>1. P \in SUBSET (0 .. N)
    OBVIOUS
  <2> HIDE DEF P, N
  <2> QED
    BY <1>1, <1>4, <1>5, <2>1, Prefixwise
<1>7. N \in P
  BY <1>1, <1>6
<1> QED
  BY <1>2, <1>3, <1>7

\* erase(name).
LEMMA EraseFacts ==
    ASSUME NEW es \in Seq(Good), NEW name, NEW other
    PROVE  /\ Erase(es, name) \in Seq(Good)
           /\ ValuesOf(Erase(es, name), other) =
                IF Key(other) = Key(name) THEN <<>> ELSE ValuesOf(es, other)
<1> DEFINE I == DOMAIN es \ At(es, name)
<1>1. /\ es \in Seq(Entries) /\ Len(es) \in Nat /\ DOMAIN es = 1 .. Len(es)
      /\ \A i \in 1 .. Len(es) : es[i] \in Good
  BY SeqOfEntries
<1>2. Chosen(es, I) \in Seq(Good)
  BY <1>1, ChosenType
<1>3. CASE Key(other) = Key(name)
  <2> DEFINE S == {e \in Entries : e.key # Key(name)}
             fs == Chosen(es, I)
  <2>1. \A n \in 1 .. Len(es) : n \in I => es[n] \in S
    BY <1>1, SeqOfEntries DEF At, Good
  <2>2. fs \in Seq(S)
    <3> HIDE DEF S, I
    <3> QED
      BY <1>1, <2>1, ChosenType
  <2>3. fs \in Seq(Entries) /\ Len(fs) \in Nat /\ \A i \in 1 .. Len(fs) : fs[i] \in S
    <3>1. S \subseteq Entries
      OBVIOUS
    <3> HIDE DEF S, fs
    <3> QED
      BY <2>2, <3>1, SeqMonotonic, LenProperties, ElementOfSeq
  <2> HIDE DEF fs
  <2>4. Live(fs, other) = {}
    BY <1>3, <2>3, LiveFacts
  <2>5. ValuesOf(fs, other) = <<>>
    BY <2>3, <2>4, ValuesNone
  <2> QED
    BY <1>2, <1>3, <2>5 DEF Erase, fs
<1>4. CASE Key(other) # Key(name)
  <2>1. \A n \in Live(es, other) : n \in I
    BY <1>4 DEF Live, At
  <2> HIDE DEF I
  <2>2. ValuesOf(Chosen(es, I), other) = ValuesOf(es, other)
    BY <1>1, <2>1, ChosenOther
  <2> QED
    BY <1>2, <1>4, <2>2 DEF Erase, I
<1> QED
  BY <1>3, <1>4

\* erase(name, value).
LEMMA EraseValueFacts ==
    ASSUME NEW es \in Seq(Good), NEW name, NEW value, NEW other
    PROVE  /\ EraseValue(es, name, value) \in Seq(Good)
           /\ ValuesOf(EraseValue(es, name, value), other) =
                IF Key(other) = Key(name) THEN Without(ValuesOf(es, other), value) ELSE ValuesOf(es, other)
<1> DEFINE I == {i \in DOMAIN es : i \in At(es, name) => es[i].value # value}
           N == Len(es)
<1>1. /\ es \in Seq(Entries) /\ N \in Nat /\ DOMAIN es = 1 .. N
      /\ \A i \in 1 .. N : es[i] \in Good
      /\ \A i \in 1 .. N : es[i] \in Entries /\ es[i].value \in Values
  BY SeqOfEntries, EntryFacts
<1>2. Chosen(es, I) \in Seq(Good)
  BY <1>1, ChosenType
<1>3. CASE Key(other) = Key(name)
  <2>1. PICK g \in [0 .. N -> Seq(Entries)] : Takes(g, es, I) /\ Chosen(es, I) = g[N]
    <3>1. \A n \in 1 .. N : n \in I => es[n] \in Entries
      BY <1>1
    <3> HIDE DEF I
    <3> QED
      BY <1>1, <3>1, ChosenFacts
  <2>2. PICK h \in [0 .. N -> Seq(Given)] : Picks(h, es, Live(es, other), N) /\ ValuesOf(es, other) = h[N]
    BY <1>1, ValuesFacts
  <2> DEFINE P == {n \in 0 .. N : ValuesOf(g[n], other) = Without(h[n], value)}
  <2>3. 0 \in P
    BY <1>1, <2>1, <2>2, ValuesEmpty, WithoutEmpty DEF Takes, Picks
  <2>4. ASSUME NEW n \in 1 .. N, n - 1 \in P PROVE n \in P
    <3>1. /\ g[n - 1] \in Seq(Entries) /\ h[n - 1] \in Seq(Given) /\ es[n] \in Entries /\ n \in 0 .. N
          /\ ValuesOf(g[n - 1], other) = Without(h[n - 1], value)
      BY <1>1, <2>4
    <3>2. g[n] = IF n \in I THEN Append(g[n - 1], es[n]) ELSE g[n - 1]
      BY <2>1 DEF Takes
    <3>3. h[n] = IF n \in Live(es, other) THEN Append(h[n - 1], es[n].value) ELSE h[n - 1]
      BY <2>2 DEF Picks
    <3>4. ValuesOf(Append(g[n - 1], es[n]), other) =
            IF n \in Live(es, other) THEN Append(ValuesOf(g[n - 1], other), es[n].value)
            ELSE ValuesOf(g[n - 1], other)
      <4> DEFINE t == g[n - 1]
                 e == es[n]
      <4>1. n \in Live(es, other) <=> e.key = Key(other) /\ e.value # ""
        BY <1>1, LiveFacts
      <4>2. t \in Seq(Entries) /\ e \in Entries
        BY <3>1
      <4> HIDE DEF t, e
      <4>3. ValuesOf(Append(t, e), other) =
              IF n \in Live(es, other) THEN Append(ValuesOf(t, other), e.value) ELSE ValuesOf(t, other)
        BY <4>1, <4>2, ValuesAppend
      <4> QED
        BY <4>3 DEF t, e
    <3>5. n \in I <=> (es[n].key = Key(other) => es[n].value # value)
      BY <1>1, <1>3 DEF At
    <3>6. CASE n \in Live(es, other)
      <4>1. es[n].value \in Given /\ es[n].key = Key(other)
        BY <1>1, <3>6, LiveFacts DEF Given
      <4>2. Without(h[n], value) = IF es[n].value # value THEN Append(Without(h[n - 1], value), es[n].value)
                                   ELSE Without(h[n - 1], value)
        <5> DEFINE t == h[n - 1]
                   x == es[n].value
        <5>1. t \in Seq(Given) /\ x \in Given /\ h[n] = Append(t, x)
          BY <3>1, <3>3, <3>6, <4>1
        <5> HIDE DEF t, x
        <5>2. Without(Append(t, x), value) = IF x # value THEN Append(Without(t, value), x) ELSE Without(t, value)
          BY <5>1, WithoutAppend
        <5> QED
          BY <5>1, <5>2 DEF t, x
      <4> HIDE DEF I
      <4>3. ValuesOf(g[n], other) = Without(h[n], value)
        BY <3>1, <3>2, <3>4, <3>5, <3>6, <4>1, <4>2
      <4> QED
        BY <3>1, <4>3
    <3>7. CASE n \notin Live(es, other)
      <4>1. ValuesOf(g[n], other) = Without(h[n], value)
        BY <3>1, <3>2, <3>3, <3>4, <3>7
      <4> QED
        BY <3>1, <4>1
    <3> QED
      BY <3>6, <3>7
  <2>5. P = 0 .. N
    <3>1. P \in SUBSET (0 .. N)
      OBVIOUS
    <3> HIDE DEF P, N
    <3> QED
      BY <1>1, <2>3, <2>4, <3>1, Prefixwise
  <2>6. N \in P
    BY <1>1, <2>5
  <2> QED
    BY <1>2, <1>3, <2>1, <2>2, <2>6 DEF EraseValue
<1>4. CASE Key(other) # Key(name)
  <2>1. \A n \in Live(es, other) : n \in I
    BY <1>4 DEF Live, At
  <2> HIDE DEF I
  <2>2. ValuesOf(Chosen(es, I), other) = ValuesOf(es, other)
    BY <1>1, <2>1, ChosenOther
  <2> QED
    BY <1>2, <1>4, <2>2 DEF EraseValue, I
<1> QED
  BY <1>3, <1>4

-------------------------------------------------------------------------------
\* Header lines that can be set, and g says what SetAll has made of each prefix.
Settable(fields) == \A i \in 1 .. Len(fields) : fields[i].name \in Names /\ fields[i].value \in Values

Sets(g, es, fields) ==
    /\ g[0] = es
    /\ \A n \in 1 .. Len(fields) : g[n] = Set(g[n - 1], fields[n].name, fields[n].value)

LEMMA SetAllFacts ==
    ASSUME NEW es \in Seq(Good), NEW F, NEW fields \in Seq(F), Settable(fields)
    PROVE  /\ SetAll(es, fields) \in Seq(Good)
           /\ \E g \in [0 .. Len(fields) -> Seq(Good)] :
                Sets(g, es, fields) /\ SetAll(es, fields) = g[Len(fields)]
<1> DEFINE N == Len(fields)
           Rec(f) == [n \in 0 .. Len(fields) |->
                        IF n = 0 THEN es ELSE Set(f[n - 1], fields[n].name, fields[n].value)]
           step == [n \in 1 .. N |-> [t \in Seq(Good) |-> Set(t, fields[n].name, fields[n].value)]]
           done == CHOOSE f : f = Rec(f)
<1>1. N \in Nat /\ \A n \in 1 .. N : fields[n].name \in Names /\ fields[n].value \in Values
  BY LenProperties DEF Settable
<1>2. \A n \in 1 .. N : \A x \in Seq(Good) : step[n][x] \in Seq(Good)
  BY <1>1, SetShape
<1>3. PICK g \in [0 .. N -> Seq(Good)] : g[0] = es /\ \A n \in 1 .. N : g[n] = step[n][g[n - 1]]
  <2> DEFINE X == Seq(Good)
  <2>1. N \in Nat /\ es \in X /\ \A n \in 1 .. N : \A x \in X : step[n][x] \in X
    BY <1>1, <1>2
  <2> HIDE DEF N, step, X
  <2>2. \E g : Recursive(g, N, X, es, step)
    BY <2>1, Recursion
  <2> QED
    BY <2>2 DEF Recursive, X
<1>4. Sets(g, es, fields)
  <2>1. ASSUME NEW n \in 1 .. N PROVE g[n] = Set(g[n - 1], fields[n].name, fields[n].value)
    <3>1. n - 1 \in 0 .. N
      BY <1>1
    <3>2. g[n - 1] \in Seq(Good)
      BY <3>1
    <3> QED
      BY <1>3, <3>2
  <2> QED
    BY <1>3, <2>1 DEF Sets
<1>5. g = Rec(g)
  <2>1. \A n \in 0 .. N : n # 0 => n \in 1 .. N
    BY <1>1
  <2>2. \A n \in 0 .. N : g[n] = Rec(g)[n]
    BY <1>4, <2>1 DEF Sets
  <2>3. Rec(g) = [n \in 0 .. N |-> Rec(g)[n]]
    OBVIOUS
  <2> HIDE DEF Rec, N
  <2> QED
    BY <2>2, <2>3
<1>6. done = Rec(done)
  <2> HIDE DEF Rec
  <2> QED
    BY <1>5
<1>7. Sets(done, es, fields) /\ DOMAIN done = 0 .. N
  <2> HIDE DEF done
  <2>1. \A n \in 0 .. N : done[n] = Rec(done)[n]
    BY <1>6
  <2>2. DOMAIN done = 0 .. N
    BY <1>6
  <2>3. 0 \in 0 .. N /\ \A n \in 1 .. N : n \in 0 .. N /\ n # 0
    BY <1>1
  <2> QED
    BY <2>1, <2>2, <2>3 DEF Sets
<1>8. SetAll(es, fields) = done[N]
  BY DEF SetAll
<1> HIDE DEF done
<1>9. done = g
  <2> DEFINE P == {n \in 0 .. N : done[n] = g[n]}
  <2>1. 0 \in P
    BY <1>1, <1>4, <1>7 DEF Sets
  <2>2. ASSUME NEW n \in 1 .. N, n - 1 \in P PROVE n \in P
    BY <1>1, <1>4, <1>7, <2>2 DEF Sets
  <2>3. P = 0 .. N
    <3>1. P \in SUBSET (0 .. N)
      OBVIOUS
    <3> HIDE DEF P, N
    <3> QED
      BY <1>1, <2>1, <2>2, <3>1, Prefixwise
  <2>4. \A n \in 0 .. N : done[n] = g[n]
    BY <2>3
  <2> QED
    BY <1>6, <1>7, <2>4
<1>10. N \in 0 .. N
  BY <1>1
<1> QED
  BY <1>4, <1>8, <1>9, <1>10

\* The values of a field among header lines.
Named(lines, k) == Picked(lines, {i \in DOMAIN lines : Key(lines[i].name) = k})

Gathers(h, lines, k, V) ==
    /\ h \in [0 .. Len(lines) -> Seq(V)]
    /\ h[0] = <<>>
    /\ \A n \in 1 .. Len(lines) :
         h[n] = IF Key(lines[n].name) = k THEN Append(h[n - 1], lines[n].value) ELSE h[n - 1]
    /\ Named(lines, k) = h[Len(lines)]

LEMMA NamedFacts ==
    ASSUME NEW F, NEW lines \in Seq(F), NEW V, \A i \in 1 .. Len(lines) : lines[i].value \in V, NEW k
    PROVE  /\ Named(lines, k) \in Seq(V)
           /\ \E h : Gathers(h, lines, k, V)
<1> DEFINE I == {i \in DOMAIN lines : Key(lines[i].name) = k}
<1>1. Len(lines) \in Nat /\ DOMAIN lines = 1 .. Len(lines)
  BY LenProperties
<1>2. \A n \in 1 .. Len(lines) : n \in I <=> Key(lines[n].name) = k
  BY <1>1
<1> HIDE DEF I
<1>3. PICK h \in [0 .. Len(lines) -> Seq(V)] : Picks(h, lines, I, Len(lines)) /\ Picked(lines, I) = h[Len(lines)]
  BY PickedFacts
<1>4. Named(lines, k) = h[Len(lines)]
  BY <1>3 DEF Named, I
<1>5. \A n \in 1 .. Len(lines) :
        h[n] = IF Key(lines[n].name) = k THEN Append(h[n - 1], lines[n].value) ELSE h[n - 1]
  BY <1>2, <1>3 DEF Picks
<1>6. h[0] = <<>> /\ Len(lines) \in 0 .. Len(lines)
  BY <1>1, <1>3 DEF Picks
<1> QED
  BY <1>4, <1>5, <1>6 DEF Gathers

\* The loop of set leaves each field with the last of its values.
LEMMA SetAllNamed ==
    ASSUME NEW F, NEW fields \in Seq(F), Settable(fields), NEW k \in Keys
    PROVE  ValuesOf(SetAll(<<>>, fields), k) =
             IF Named(fields, k) = <<>> THEN <<>> ELSE Single(Last(Named(fields, k)))
<1> DEFINE N == Len(fields)
           of(s) == IF s = <<>> THEN <<>> ELSE Single(Last(s))
<1>1. /\ N \in Nat /\ <<>> \in Seq(Good)
      /\ \A n \in 1 .. N : fields[n].name \in Names /\ fields[n].value \in Values
  BY LenProperties DEF Settable
<1>2. PICK g \in [0 .. N -> Seq(Good)] : Sets(g, <<>>, fields) /\ SetAll(<<>>, fields) = g[N]
  BY <1>1, SetAllFacts
<1>3. PICK h \in [0 .. N -> Seq(Values)] :
        /\ h[0] = <<>>
        /\ \A n \in 1 .. N :
             h[n] = IF Key(fields[n].name) = k THEN Append(h[n - 1], fields[n].value) ELSE h[n - 1]
        /\ Named(fields, k) = h[N]
  <2>1. \A n \in 1 .. Len(fields) : fields[n].value \in Values
    BY DEF Settable
  <2>2. \E h : Gathers(h, fields, k, Values)
    BY <2>1, NamedFacts
  <2> QED
    BY <2>2 DEF Gathers
<1> DEFINE P == {n \in 0 .. N : ValuesOf(g[n], k) = of(h[n])}
<1>4. 0 \in P
  BY <1>1, <1>2, <1>3, ValuesEmpty DEF Sets
<1>5. ASSUME NEW n \in 1 .. N, n - 1 \in P PROVE n \in P
  <2> DEFINE es == g[n - 1]
             name == fields[n].name
             v == fields[n].value
  <2>1. /\ es \in Seq(Good) /\ name \in Names /\ v \in Values /\ n \in 0 .. N
        /\ h[n - 1] \in Seq(Values) /\ Key(k) = k
    <3>1. n - 1 \in 0 .. N /\ n \in 0 .. N
      BY <1>1
    <3>2. g[n - 1] \in Seq(Good) /\ h[n - 1] \in Seq(Values)
      BY <3>1
    <3> QED
      BY <1>1, <3>1, <3>2, KeyFacts
  <2>2. g[n] = Set(es, name, v)
    BY <1>2 DEF Sets
  <2>3. ValuesOf(es, k) = of(h[n - 1])
    BY <1>5
  <2>4. h[n] = IF Key(name) = k THEN Append(h[n - 1], v) ELSE h[n - 1]
    BY <1>3
  <2> HIDE DEF es, name, v
  <2>5. CASE Key(name) = k
    <3>1. ValuesOf(g[n], k) = Single(v)
      BY <2>1, <2>2, <2>5, SetOwn
    <3>2. h[n] # <<>> /\ Last(h[n]) = v
      BY <2>1, <2>4, <2>5, AppendProperties, SMTT(30) DEF Last
    <3> QED
      BY <2>1, <3>1, <3>2
  <2>6. CASE Key(name) # k
    <3>1. ValuesOf(g[n], k) = ValuesOf(es, k)
      BY <2>1, <2>2, <2>6, SetOther
    <3>2. h[n] = h[n - 1]
      BY <2>4, <2>6
    <3> HIDE DEF of
    <3> QED
      BY <2>1, <2>3, <3>1, <3>2
  <2> QED
    BY <2>5, <2>6
<1>6. P = 0 .. N
  <2>1. P \in SUBSET (0 .. N)
    OBVIOUS
  <2> HIDE DEF P, N
  <2> QED
    BY <1>1, <1>4, <1>5, <2>1, Prefixwise
<1>7. N \in P
  BY <1>1, <1>6
<1> QED
  BY <1>2, <1>3, <1>7

-------------------------------------------------------------------------------
\* A line at the end.
LEMMA NamedAppend ==
    ASSUME NEW F, NEW lines \in Seq(F), NEW line \in F, NEW k
    PROVE  Named(Append(lines, line), k) =
             IF Key(line.name) = k THEN Append(Named(lines, k), line.value) ELSE Named(lines, k)
<1> DEFINE ls == Append(lines, line)
           N == Len(lines)
           V == {l.value : l \in F}
<1>1. /\ ls \in Seq(F) /\ Len(ls) = N + 1 /\ N \in Nat
      /\ \A i \in 1 .. N : ls[i] = lines[i]
      /\ ls[N + 1] = line
      /\ \A i \in 1 .. N : lines[i].value \in V
      /\ \A i \in 1 .. Len(ls) : ls[i].value \in V
  BY AppendProperties, LenProperties, ElementOfSeq
<1> HIDE DEF ls, V
<1>2. PICK g : Gathers(g, lines, k, V)
  BY <1>1, NamedFacts
<1>3. PICK h : Gathers(h, ls, k, V)
  BY <1>1, NamedFacts
<1> DEFINE P == {n \in 0 .. N : g[n] = h[n]}
<1>4. 0 \in P
  BY <1>1, <1>2, <1>3 DEF Gathers
<1>5. ASSUME NEW n \in 1 .. N, n - 1 \in P PROVE n \in P
  <2>1. n \in 1 .. Len(ls) /\ n \in 0 .. N /\ ls[n] = lines[n]
    BY <1>1
  <2>2. g[n - 1] = h[n - 1]
    BY <1>5
  <2>3. g[n] = h[n]
    BY <1>2, <1>3, <2>1, <2>2 DEF Gathers
  <2> QED
    BY <2>1, <2>3
<1>6. P = 0 .. N
  <2>1. P \in SUBSET (0 .. N)
    OBVIOUS
  <2> HIDE DEF P, N
  <2> QED
    BY <1>1, <1>4, <1>5, <2>1, Prefixwise
<1>7. g[N] = h[N]
  BY <1>1, <1>6
<1>8. h[N + 1] = IF Key(line.name) = k THEN Append(h[N], line.value) ELSE h[N]
  BY <1>1, <1>3 DEF Gathers
<1>9. Named(lines, k) = g[N] /\ Named(ls, k) = h[N + 1]
  BY <1>1, <1>2, <1>3 DEF Gathers
<1> QED
  BY <1>7, <1>8, <1>9 DEF ls

LEMMA NamedEmpty == \A k : Named(<<>>, k) = <<>>
<1> TAKE k
<1> DEFINE lines == <<>>
<1>1. lines \in Seq({}) /\ Len(lines) = 0 /\ \A i \in 1 .. Len(lines) : lines[i].value \in {}
  OBVIOUS
<1> HIDE DEF lines
<1>2. PICK h : Gathers(h, lines, k, {})
  BY <1>1, NamedFacts
<1> QED
  BY <1>1, <1>2 DEF Gathers, lines

\* The header lines that serialize writes.
Seen == {e \in Good : e.value # ""}
Lines == [name : Names, value : Given]
Line(e) == [name |-> e.name, value |-> e.value]
Written(u) == [i \in 1 .. Len(u) |-> Line(u[i])]

LEMMA LineFacts ==
    /\ \A e \in Seen : /\ e \in Good /\ e \in Entries /\ e.value # ""
                       /\ Line(e) \in Lines /\ Key(Line(e).name) = e.key /\ Line(e).value = e.value
    /\ \A l \in Lines : l.name \in Names /\ l.value \in Given
<1>1. \A l \in Lines : l.name \in Names /\ l.value \in Given
  BY DEF Lines
<1>2. ASSUME NEW e \in Seen
      PROVE  /\ e \in Good /\ e \in Entries /\ e.value # ""
             /\ Line(e) \in Lines /\ Key(Line(e).name) = e.key /\ Line(e).value = e.value
  <2>1. e \in Good /\ e.value # ""
    BY DEF Seen
  <2>2. e \in Entries /\ e.name \in Names /\ e.key = Key(e.name)
    BY <2>1 DEF Good
  <2>3. e.name \in Names /\ e.value \in Given
    BY <2>1, <2>2, EntryFacts DEF Given
  <2> QED
    BY <2>1, <2>2, <2>3 DEF Lines, Line
<1> QED
  BY <1>1, <1>2

LEMMA WrittenFacts ==
    ASSUME NEW u \in Seq(Seen)
    PROVE  Written(u) \in Seq(Lines) /\ Len(Written(u)) = Len(u)
<1>1. Len(u) \in Nat /\ \A i \in 1 .. Len(u) : u[i] \in Seen
  BY LenProperties, ElementOfSeq
<1>2. \A i \in 1 .. Len(u) : Line(u[i]) \in Lines
  BY <1>1, LineFacts
<1> QED
  BY <1>1, <1>2 DEF Written

LEMMA WrittenAppend ==
    ASSUME NEW u \in Seq(Seen), NEW e \in Seen
    PROVE  Written(Append(u, e)) = Append(Written(u), Line(e))
<1> DEFINE w == Append(u, e)
           p == Written(w)
           t == Written(u)
           q == Append(t, Line(e))
<1>1. /\ w \in Seq(Seen) /\ Len(w) = Len(u) + 1 /\ Len(u) \in Nat
      /\ \A i \in 1 .. Len(u) : w[i] = u[i]
      /\ w[Len(u) + 1] = e
  BY AppendProperties, LenProperties
<1>2. t \in Seq(Lines) /\ Len(t) = Len(u) /\ Line(e) \in Lines
  BY WrittenFacts, LineFacts
<1> HIDE DEF t
<1>3. /\ q \in Seq(Lines) /\ Len(q) = Len(u) + 1
      /\ \A i \in 1 .. Len(u) : q[i] = t[i]
      /\ q[Len(u) + 1] = Line(e)
  BY <1>2, AppendProperties
<1> HIDE DEF w
<1>4. p \in Seq(Lines) /\ Len(p) = Len(u) + 1
  BY <1>1, WrittenFacts
<1>5. ASSUME NEW i \in 1 .. Len(u) + 1 PROVE p[i] = q[i]
  <2>1. p[i] = Line(w[i])
    BY <1>1 DEF Written
  <2>2. CASE i = Len(u) + 1
    BY <1>1, <1>3, <2>1, <2>2
  <2>3. CASE i # Len(u) + 1
    <3>1. i \in 1 .. Len(u)
      BY <1>1, <2>3
    <3>2. t[i] = Line(u[i])
      BY <1>1, <3>1 DEF Written, t
    <3> QED
      BY <1>1, <1>3, <2>1, <3>1, <3>2
  <2> QED
    BY <2>2, <2>3
<1> HIDE DEF p, q
<1>6. p = q
  BY <1>3, <1>4, <1>5, SeqEqual
<1> QED
  BY <1>6 DEF p, q, w, t

LEMMA WrittenEmpty == Written(<<>>) = <<>>
BY DEF Written

LEMMA ShownFacts ==
    ASSUME NEW es \in Seq(Good)
    PROVE  /\ Shown(es) \in Seq(Lines)
           /\ \A k \in Keys : Named(Shown(es), k) = ValuesOf(es, k)
<1> DEFINE N == Len(es)
           I == {i \in DOMAIN es : es[i].value # ""}
<1>1. /\ es \in Seq(Entries) /\ N \in Nat /\ DOMAIN es = 1 .. N
      /\ \A i \in 1 .. N : es[i] \in Good /\ es[i] \in Entries
  BY SeqOfEntries, EntryFacts
<1>2. \A n \in 1 .. N : n \in I => es[n] \in Seen
  BY <1>1 DEF Seen
<1>3. \A n \in 1 .. N : n \in I <=> es[n].value # ""
  BY <1>1
<1> HIDE DEF I
<1>4. PICK g \in [0 .. N -> Seq(Seen)] : Takes(g, es, I) /\ Chosen(es, I) = g[N]
  BY <1>2, ChosenFacts
<1> HIDE DEF N
<1>5. N \in 0 .. N
  BY <1>1
<1>6. g[N] \in Seq(Seen) /\ Visible(es) = g[N]
  BY <1>4, <1>5 DEF Visible, I
<1>7. Shown(es) = Written(g[N])
  <2> DEFINE u == g[N]
  <2>1. u \in Seq(Seen) /\ DOMAIN u = 1 .. Len(u) /\ Visible(es) = u
    BY <1>6, LenProperties
  <2> HIDE DEF u
  <2>2. Shown(es) = Written(u)
    BY <2>1 DEF Shown, Written, Line
  <2> QED
    BY <2>2 DEF u
<1>8. Shown(es) \in Seq(Lines)
  BY <1>6, <1>7, WrittenFacts
<1>9. ASSUME NEW k \in Keys PROVE Named(Shown(es), k) = ValuesOf(es, k)
  <2>1. PICK h : Picks(h, es, Live(es, k), N) /\ ValuesOf(es, k) = h[N]
    BY <1>1, ValuesFacts DEF N
  <2> DEFINE P == {n \in 0 .. N : Named(Written(g[n]), k) = h[n]}
  <2>2. 0 \in P
    <3>1. g[0] = <<>> /\ h[0] = <<>>
      BY <1>4, <2>1 DEF Takes, Picks
    <3>2. 0 \in 0 .. N
      BY <1>1
    <3> QED
      BY <3>1, <3>2, WrittenEmpty, NamedEmpty
  <2>3. ASSUME NEW n \in 1 .. N, n - 1 \in P PROVE n \in P
    <3> DEFINE u == g[n - 1]
               e == es[n]
               b == h[n - 1]
    <3>1. n - 1 \in 0 .. N /\ n \in 0 .. N /\ n \in 1 .. Len(es)
      BY <1>1 DEF N
    <3>2. u \in Seq(Seen) /\ e \in Good /\ e \in Entries
      BY <1>1, <1>4, <3>1
    <3>3. Named(Written(u), k) = b
      BY <2>3
    <3>4. g[n] = IF e.value # "" THEN Append(u, e) ELSE u
      BY <1>3, <1>4, <3>1 DEF Takes
    <3>5. h[n] = IF e.key = k /\ e.value # "" THEN Append(b, e.value) ELSE b
      <4>1. n \in Live(es, k) <=> es[n].key = Key(k) /\ es[n].value # ""
        BY <1>1, <3>1, LiveFacts
      <4>2. Key(k) = k
        BY KeyFacts
      <4>3. h[n] = IF n \in Live(es, k) THEN Append(h[n - 1], es[n].value) ELSE h[n - 1]
        BY <2>1 DEF Picks
      <4> QED
        BY <4>1, <4>2, <4>3
    <3> HIDE DEF u, e, b
    <3>6. CASE e.value = ""
      BY <3>1, <3>3, <3>4, <3>5, <3>6
    <3>7. CASE e.value # ""
      <4>1. e \in Seen
        BY <3>2, <3>7 DEF Seen
      <4> DEFINE t == Written(u)
                 l == Line(e)
      <4>2. t \in Seq(Lines) /\ l \in Lines /\ Key(l.name) = e.key /\ l.value = e.value
        BY <3>2, <4>1, WrittenFacts, LineFacts
      <4>3. Written(g[n]) = Append(t, l)
        BY <3>2, <3>4, <3>7, <4>1, WrittenAppend
      <4>4. Named(t, k) = b
        BY <3>3
      <4> HIDE DEF t, l
      <4>6. Named(Append(t, l), k) = IF Key(l.name) = k THEN Append(Named(t, k), l.value) ELSE Named(t, k)
        BY <4>2, NamedAppend
      <4>7. Named(Written(g[n]), k) = h[n]
        BY <3>5, <3>7, <4>2, <4>3, <4>4, <4>6
      <4> QED
        BY <3>1, <4>7
    <3> QED
      BY <3>6, <3>7
  <2>4. P = 0 .. N
    <3>1. P \in SUBSET (0 .. N)
      OBVIOUS
    <3> HIDE DEF P
    <3> QED
      BY <1>1, <2>2, <2>3, <3>1, Prefixwise
  <2>5. N \in P
    BY <1>5, <2>4
  <2> QED
    BY <1>7, <2>1, <2>5
<1> QED
  BY <1>8, <1>9

-------------------------------------------------------------------------------
\* The codec of frames.
Codec == INSTANCE Frame

LEMMA DivideByte ==
    \A n \in Nat : Codec!Low(n) \in Codec!Byte /\ Codec!High(n) \in Nat /\ n = 256 * Codec!High(n) + Codec!Low(n)
BY DEF Codec!Low, Codec!High, Codec!Byte

LEMMA Compose ==
    \A h \in Nat, l \in Codec!Byte :
        256 * h + l \in Nat /\ Codec!High(256 * h + l) = h /\ Codec!Low(256 * h + l) = l
BY DEF Codec!Low, Codec!High, Codec!Byte

LEMMA OneByte ==
    /\ \A n \in Nat : Codec!High(n) = 0 => Codec!Low(n) \in Codec!Byte /\ n = Codec!Low(n)
    /\ \A l \in Codec!Byte : l \in Nat /\ Codec!High(l) = 0 /\ Codec!Low(l) = l
<1>1. ASSUME NEW n \in Nat, Codec!High(n) = 0 PROVE Codec!Low(n) \in Codec!Byte /\ n = Codec!Low(n)
  <2>1. Codec!Low(n) \in Codec!Byte /\ n = 256 * 0 + Codec!Low(n)
    BY <1>1, DivideByte
  <2> QED BY <2>1 DEF Codec!Byte
<1>2. ASSUME NEW l \in Codec!Byte PROVE l \in Nat /\ Codec!High(l) = 0 /\ Codec!Low(l) = l
  BY DEF Codec!Low, Codec!High, Codec!Byte
<1> QED BY <1>1, <1>2

\* The four bytes of a number are bytes, and the number is found in them again.
LEMMA BigNative ==
    ASSUME NEW id \in Codec!StreamId
    PROVE  Codec!Big(id) \in Seq(Codec!Byte) /\ Len(Codec!Big(id)) = 4 /\ Codec!Native(Codec!Big(id)) = id
<1> DEFINE n1 == Codec!High(id)
           n2 == Codec!High(n1)
           n3 == Codec!High(n2)
<1>1. id \in Nat /\ Codec!High(n3) = 0
  BY DEF Codec!StreamId
<1>2. n1 \in Nat /\ Codec!Low(id) \in Codec!Byte /\ id = 256 * n1 + Codec!Low(id)
  BY <1>1, DivideByte
<1>3. n2 \in Nat /\ Codec!Low(n1) \in Codec!Byte /\ n1 = 256 * n2 + Codec!Low(n1)
  BY <1>2, DivideByte
<1>4. n3 \in Nat /\ Codec!Low(n2) \in Codec!Byte /\ n2 = 256 * n3 + Codec!Low(n2)
  BY <1>3, DivideByte
<1>5. Codec!Low(n3) \in Codec!Byte /\ n3 = Codec!Low(n3)
  BY <1>1, <1>4, OneByte
<1>6. Codec!Big(id) = <<Codec!Low(n3), Codec!Low(n2), Codec!Low(n1), Codec!Low(id)>>
  BY DEF Codec!Big
<1> HIDE DEF n1, n2, n3
<1> QED BY <1>2, <1>3, <1>4, <1>5, <1>6 DEF Codec!Native

\* Four bytes are found again in the number that they make.
LEMMA NativeBig ==
    ASSUME NEW s \in Seq(Codec!Byte), Len(s) = 4
    PROVE  Codec!Native(s) \in Codec!StreamId /\ Codec!Big(Codec!Native(s)) = s
<1> DEFINE n3 == s[1]
           n2 == 256 * n3 + s[2]
           n1 == 256 * n2 + s[3]
           n  == 256 * n1 + s[4]
<1>1. s[1] \in Codec!Byte /\ s[2] \in Codec!Byte /\ s[3] \in Codec!Byte /\ s[4] \in Codec!Byte
  <2>1. 1 \in 1 .. Len(s) /\ 2 \in 1 .. Len(s) /\ 3 \in 1 .. Len(s) /\ 4 \in 1 .. Len(s)
    OBVIOUS
  <2> QED BY <2>1, ElementOfSeq
<1>2. n3 \in Nat /\ Codec!High(n3) = 0 /\ Codec!Low(n3) = s[1]
  BY <1>1, OneByte
<1>3. n2 \in Nat /\ Codec!High(n2) = n3 /\ Codec!Low(n2) = s[2]
  <2> HIDE DEF n3
  <2> QED BY <1>1, <1>2, Compose
<1>4. n1 \in Nat /\ Codec!High(n1) = n2 /\ Codec!Low(n1) = s[3]
  <2> HIDE DEF n2
  <2> QED BY <1>1, <1>3, Compose
<1>5. n \in Nat /\ Codec!High(n) = n1 /\ Codec!Low(n) = s[4]
  <2> HIDE DEF n1
  <2> QED BY <1>1, <1>4, Compose
<1>6. Codec!Native(s) = n
  BY DEF Codec!Native
<1>7. s = <<s[1], s[2], s[3], s[4]>>
  OBVIOUS
<1> HIDE DEF n, n1, n2, n3
<1> QED BY <1>2, <1>3, <1>4, <1>5, <1>6, <1>7 DEF Codec!StreamId, Codec!Big

\* Two sequences are found again in their concatenation.
LEMMA Parts ==
    ASSUME NEW S, NEW a \in Seq(S), NEW b \in Seq(S)
    PROVE  /\ SubSeq(a \o b, 1, Len(a)) = a
           /\ SubSeq(a \o b, Len(a) + 1, Len(a \o b)) = b
<1> DEFINE t == a \o b
<1>1. t \in Seq(S) /\ Len(t) = Len(a) + Len(b)
      /\ \A i \in 1 .. Len(a) + Len(b) : t[i] = IF i <= Len(a) THEN a[i] ELSE b[i - Len(a)]
  BY ConcatProperties
<1>2. Len(a) \in Nat /\ Len(b) \in Nat
  BY LenProperties
<1>3. \A i \in 1 .. Len(t) : t[i] \in S
  BY <1>1, ElementOfSeq
<1> HIDE DEF t
<1>4. SubSeq(t, 1, Len(a)) = a
  <2> DEFINE s == SubSeq(t, 1, Len(a))
  <2>1. \A i \in 1 .. Len(a) : t[i] \in S
    BY <1>1, <1>2, <1>3
  <2>2. s \in Seq(S) /\ Len(s) = (IF 1 <= Len(a) THEN Len(a) - 1 + 1 ELSE 0)
        /\ \A i \in 1 .. Len(a) - 1 + 1 : s[i] = t[1 + i - 1]
    BY <1>2, <2>1, SubSeqProperties
  <2>3. Len(s) = Len(a)
    BY <1>2, <2>2
  <2>4. \A i \in 1 .. Len(s) : s[i] = a[i]
    BY <1>1, <1>2, <2>2, <2>3
  <2> HIDE DEF s
  <2>5. s = a
    BY <2>2, <2>3, <2>4, SeqEqual
  <2> QED BY <2>5 DEF s
<1>5. SubSeq(t, Len(a) + 1, Len(t)) = b
  <2> DEFINE m == Len(a) + 1
             n == Len(t)
             s == SubSeq(t, m, n)
  <2>1. m \in Int /\ n \in Int /\ \A i \in m .. n : t[i] \in S
    BY <1>1, <1>2, <1>3
  <2>2. s \in Seq(S) /\ Len(s) = (IF m <= n THEN n - m + 1 ELSE 0)
        /\ \A i \in 1 .. n - m + 1 : s[i] = t[m + i - 1]
    <3> HIDE DEF m, n
    <3> QED BY <2>1, SubSeqProperties
  <2>3. Len(s) = Len(b)
    BY <1>1, <1>2, <2>2
  <2>4. \A i \in 1 .. Len(s) : s[i] = b[i]
    BY <1>1, <1>2, <2>2, <2>3
  <2> HIDE DEF m, n, s
  <2>5. s = b
    BY <2>2, <2>3, <2>4, SeqEqual
  <2> QED BY <2>5 DEF s, m, n
<1> QED BY <1>4, <1>5 DEF t

\* Where a text of five bytes or more is divided, it can be put together again.
LEMMA Whole ==
    ASSUME NEW S, NEW t \in Seq(S), Len(t) >= 5
    PROVE  /\ SubSeq(t, 1, 4) \in Seq(S) /\ Len(SubSeq(t, 1, 4)) = 4
           /\ SubSeq(t, 6, Len(t)) \in Seq(S) /\ t[5] \in S
           /\ SubSeq(t, 1, 4) \o <<t[5]>> \o SubSeq(t, 6, Len(t)) = t
<1> DEFINE n == Len(t)
           h == SubSeq(t, 1, 4)
           r == SubSeq(t, 6, n)
           w == h \o <<t[5]>>
<1>1. n \in Nat /\ \A i \in 1 .. n : t[i] \in S
  BY LenProperties, ElementOfSeq
<1>2. t[5] \in S
  BY <1>1
<1>3. h \in Seq(S) /\ Len(h) = 4 /\ \A i \in 1 .. 4 : h[i] = t[i]
  <2>1. \A i \in 1 .. 4 : t[i] \in S
    BY <1>1
  <2>2. h \in Seq(S) /\ Len(h) = (IF 1 <= 4 THEN 4 - 1 + 1 ELSE 0) /\ \A i \in 1 .. 4 - 1 + 1 : h[i] = t[1 + i - 1]
    BY <2>1, SubSeqProperties
  <2> QED BY <2>2
<1>4. r \in Seq(S) /\ Len(r) = n - 5 /\ \A i \in 1 .. n - 5 : r[i] = t[i + 5]
  <2>1. \A i \in 6 .. n : t[i] \in S
    BY <1>1
  <2>2. r \in Seq(S) /\ Len(r) = (IF 6 <= n THEN n - 6 + 1 ELSE 0) /\ \A i \in 1 .. n - 6 + 1 : r[i] = t[6 + i - 1]
    <3> HIDE DEF n
    <3> QED BY <1>1, <2>1, SubSeqProperties
  <2>3. 6 <= n + 1
    OBVIOUS
  <2> HIDE DEF n, r
  <2>4. Len(r) = n - 5
    BY <1>1, <2>2, <2>3
  <2>5. n - 6 + 1 = n - 5 /\ \A i \in 1 .. n - 5 : 6 + i - 1 = i + 5
    BY <1>1
  <2> QED BY <2>2, <2>4, <2>5
<1> HIDE DEF h, r, n
<1>5. w \in Seq(S) /\ Len(w) = 5 /\ \A i \in 1 .. 5 : w[i] = t[i]
  <2>1. <<t[5]>> \in Seq(S) /\ Len(<<t[5]>>) = 1 /\ <<t[5]>>[1] = t[5]
    BY <1>2
  <2> DEFINE x == <<t[5]>>
  <2> HIDE DEF x
  <2>2. /\ h \o x \in Seq(S) /\ Len(h \o x) = Len(h) + Len(x)
        /\ \A i \in 1 .. Len(h) + Len(x) : (h \o x)[i] = IF i <= Len(h) THEN h[i] ELSE x[i - Len(h)]
    BY <1>3, <2>1, ConcatProperties DEF x
  <2>3. Len(x) = 1 /\ x[1] = t[5]
    BY <2>1 DEF x
  <2>4. /\ h \o x \in Seq(S) /\ Len(h \o x) = 5 /\ \A i \in 1 .. 5 : (h \o x)[i] = t[i]
    BY <1>3, <2>2, <2>3
  <2> QED BY <2>4 DEF x, w
<1> HIDE DEF w
<1>6. /\ w \o r \in Seq(S) /\ Len(w \o r) = Len(w) + Len(r)
      /\ \A i \in 1 .. Len(w) + Len(r) : (w \o r)[i] = IF i <= Len(w) THEN w[i] ELSE r[i - Len(w)]
  <2>1. w \in Seq(S) /\ r \in Seq(S)
    BY <1>4, <1>5
  <2> QED BY <2>1, ConcatProperties
<1>7. Len(w \o r) = Len(t) /\ \A i \in 1 .. Len(w \o r) : (w \o r)[i] = t[i]
  <2>1. n \in Nat /\ n >= 5 /\ Len(w \o r) = n
    BY <1>1, <1>4, <1>5, <1>6 DEF n
  <2>2. ASSUME NEW i \in 1 .. n PROVE (w \o r)[i] = t[i]
    <3>1. CASE i <= 5
      BY <1>4, <1>5, <1>6, <2>1, <3>1
    <3>2. CASE i > 5
      <4>1. i - 5 \in 1 .. n - 5 /\ (i - 5) + 5 = i
        BY <2>1, <3>2
      <4>2. (w \o r)[i] = r[i - 5]
        BY <1>4, <1>5, <1>6, <2>1, <3>2, SMTT(30)
      <4> QED BY <1>4, <4>1, <4>2
    <3> QED BY <3>1, <3>2, <2>1
  <2> QED BY <2>1, <2>2 DEF n
<1>8. w \o r = t
  BY <1>6, <1>7, SeqEqual
<1> QED BY <1>2, <1>3, <1>4, <1>8 DEF h, r, n, w

\* deserialize reads back the frame that serialize has written, whatever was in the
\* object before, and the type and the payload are whatever they were.
THEOREM FrameRead ==
    ASSUME NEW frame \in Codec!Frames, NEW old
    PROVE  Codec!Deserialize(Codec!Serialize(frame), old) = [ok |-> TRUE, object |-> frame]
<1> DEFINE big == Codec!Big(frame.streamId)
           type == <<frame.type>>
           front == big \o type
           text == Codec!Serialize(frame)
<1>1. frame.streamId \in Codec!StreamId /\ frame.type \in Codec!Byte /\ frame.data \in Seq(Codec!Byte)
  BY DEF Codec!Frames
<1>2. big \in Seq(Codec!Byte) /\ Len(big) = 4 /\ Codec!Native(big) = frame.streamId
  BY <1>1, BigNative
<1>3. type \in Seq(Codec!Byte) /\ Len(type) = 1 /\ type[1] = frame.type
  BY <1>1
<1>4. text = front \o frame.data
  BY DEF Codec!Serialize
<1> HIDE DEF big, text, type
<1>5. /\ front \in Seq(Codec!Byte) /\ Len(front) = 5 /\ front[5] = frame.type /\ SubSeq(front, 1, 4) = big
  <2>1. /\ front \in Seq(Codec!Byte) /\ Len(front) = Len(big) + Len(type)
        /\ \A i \in 1 .. Len(big) + Len(type) : front[i] = IF i <= Len(big) THEN big[i] ELSE type[i - Len(big)]
    BY <1>2, <1>3, ConcatProperties
  <2>2. SubSeq(front, 1, 4) = big
    BY <1>2, <1>3, Parts
  <2> HIDE DEF front
  <2> QED BY <1>2, <1>3, <2>1, <2>2
<1> HIDE DEF front
<1>6. SubSeq(text, 6, Len(text)) = frame.data
  <2>1. SubSeq(front \o frame.data, Len(front) + 1, Len(front \o frame.data)) = frame.data
    BY <1>1, <1>5, Parts
  <2>2. Len(front) + 1 = 6
    BY <1>5
  <2> QED BY <1>4, <2>1, <2>2
<1>7. Len(text) = 5 + Len(frame.data) /\ text[5] = frame.type /\ Len(frame.data) \in Nat
  <2>1. /\ Len(text) = Len(front) + Len(frame.data)
        /\ \A i \in 1 .. Len(front) + Len(frame.data) :
            text[i] = IF i <= Len(front) THEN front[i] ELSE frame.data[i - Len(front)]
    BY <1>1, <1>4, <1>5, ConcatProperties
  <2>2. Len(frame.data) \in Nat
    BY <1>1, LenProperties
  <2> QED BY <1>5, <2>1, <2>2
<1>8. SubSeq(text, 1, 4) = big
  <2>1. 1 \in 1 .. Len(front) /\ 4 \in 1 .. Len(front) /\ front \in Seq(Codec!Byte)
    BY <1>5
  <2>2. SubSeq(front \o frame.data, 1, 4) = SubSeq(front, 1, 4)
    BY <1>1, <2>1, SubSeqOfConcat1
  <2> QED BY <1>4, <1>5, <2>2
<1>9. frame = [streamId |-> frame.streamId, type |-> frame.type, data |-> frame.data]
  BY DEF Codec!Frames
<1>10. ~ (Len(text) < 5)
  BY <1>7
<1>11. Codec!Deserialize(text, old) =
         [ok |-> TRUE, object |-> [streamId |-> frame.streamId, type |-> frame.type, data |-> frame.data]]
  BY <1>2, <1>6, <1>7, <1>8, <1>10 DEF Codec!Deserialize
<1> QED BY <1>9, <1>11 DEF text

\* Every text of five bytes or more is read, and the frame is written again byte for
\* byte.
THEOREM FrameWritten ==
    ASSUME NEW text \in Seq(Codec!Byte), NEW old, Len(text) >= 5
    PROVE  LET read == Codec!Deserialize(text, old)
           IN  read.ok /\ read.object \in Codec!Frames /\ Codec!Serialize(read.object) = text
<1> DEFINE head == SubSeq(text, 1, 4)
           rest == SubSeq(text, 6, Len(text))
           frame == [streamId |-> Codec!Native(head), type |-> text[5], data |-> rest]
<1>1. head \in Seq(Codec!Byte) /\ Len(head) = 4 /\ rest \in Seq(Codec!Byte) /\ text[5] \in Codec!Byte /\ head \o <<text[5]>> \o rest = text
  BY Whole
<1>2. Codec!Native(head) \in Codec!StreamId /\ Codec!Big(Codec!Native(head)) = head
  BY <1>1, NativeBig
<1>3. ~ (Len(text) < 5)
  BY LenProperties
<1>4. Codec!Deserialize(text, old) = [ok |-> TRUE, object |-> frame]
  BY <1>3 DEF Codec!Deserialize
<1> HIDE DEF head, rest
<1>5. frame \in Codec!Frames /\ Codec!Serialize(frame) = text
  BY <1>1, <1>2 DEF Codec!Frames, Codec!Serialize
<1> QED BY <1>4, <1>5

===============================================================================
