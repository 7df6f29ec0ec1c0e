---------------------------- MODULE LogMonitorProofs ----------------------------
(* Proofs about LogMonitor, for every set of calls of file_write, finite or  *)
(* not, every limit and every kind of fault.                                 *)
EXTENDS LogMonitor, FiniteSetTheorems, WellFoundedInduction, TLAPS

\* The calls whose message is in a file, or was.
Ok == {w \in Writers : outcome[w] = "ok"}

\* The calls that have got as far as async_write.
Started == {w \in Writers : outcome[w] # "none"}

\* The calls that have written through h and have not resumed to count it.
Uncounted(h) == {w \in Writers : pc[w] = "writing" /\ outcome[w] = "ok" /\ via[w] = h}

\* A call has no outcome before it starts and is suspended while it has none yet,
\* its message is in no file before it is written, and only finitely many have
\* started.
Orderly ==
    /\ \A w \in Writers : pc[w] = "idle" => outcome[w] = "none"
    /\ \A w \in Writers : outcome[w] = "pending" => pc[w] = "writing"
    /\ Messages(current) \subseteq Ok
    /\ \A t \in DOMAIN archives : Messages(archives[t]) \subseteq Ok
    /\ IsFiniteSet(Started)

\* A handle is named after a call that has started, and the calls that write
\* through the handle of the entry have an iterator to this entry.
Handles ==
    /\ entry # NoEntry => pc[entry.handle] # "idle"
    /\ \A v \in Writers : pc[v] = "writing" =>
         /\ pc[via[v]] # "idle"
         /\ entry # NoEntry /\ via[v] = entry.handle => it[v] = entry.node

\* The inductive invariant, together with Handles.
LogIInv ==
    /\ TypeOK
    /\ Orderly
    /\ WrittenOnce
    /\ SizeNotUnderestimated
    /\ ArchivesBounded

\* Without overlap the only suspended call has its iterator in file_map.
Serial ==
    "overlap" \notin mishaps =>
        /\ ~ crashed
        /\ \A w \in Writers : pc[w] = "writing" =>
             Valid(w) /\ \A v \in Writers : pc[v] = "writing" => v = w

\* All that was written can still be found, or was deleted for its age.
NothingLost ==
    mishaps \subseteq {"overlap"} => Ok \subseteq Messages(current) \cup InArchives(archives) \cup retired

-------------------------------------------------------------------------------
\* The least and the greatest of some time stamps.
LEMMA Least ==
    ASSUME NEW S \in SUBSET Nat, S # {}
    PROVE  \E m \in S : \A n \in S : m <= n
<1> DEFINE R == {ss \in Nat \X Nat : ss[1] < ss[2]}
<1>1. IsWellFoundedOn(R, Nat)
  BY NatLessThanWellFounded DEF OpToRel
<1> HIDE DEF R
<1>2. PICK m \in S : \A n \in S : ~ (<<n, m>> \in R)
  BY <1>1, WFMin, Zenon
<1>3. \A n \in S : ~ (n < m)
  BY <1>2 DEF R
<1> QED
  BY <1>3

LEMMA Greatest ==
    ASSUME NEW N \in Nat, NEW S \in SUBSET (0 .. N), S # {}
    PROVE  \E m \in S : \A n \in S : n <= m
<1> DEFINE D == {N - n : n \in S}
<1>1. D \in SUBSET Nat /\ D # {}
  <2>1. \A n \in S : n \in 0 .. N /\ N - n \in Nat
    OBVIOUS
  <2>2. D \in SUBSET Nat
    BY <2>1
  <2>3. PICK n \in S : TRUE
    OBVIOUS
  <2>4. N - n \in D
    OBVIOUS
  <2> QED
    BY <2>2, <2>4
<1>2. PICK k \in D : \A d \in D : k <= d
  <2> HIDE DEF D
  <2> QED
    BY <1>1, Least
<1>3. PICK m \in S : k = N - m
  BY <1>2
<1>4. \A n \in S : N - m <= N - n
  BY <1>2, <1>3
<1> QED
  BY <1>3, <1>4

\* How many are younger, of a set of time stamps.
LEMMA YoungerFacts ==
    ASSUME NEW S \in SUBSET (0 .. MaxTime), NEW t \in S
    PROVE  /\ IsFiniteSet({u \in S : u > t})
           /\ Cardinality({u \in S : u > t}) \in Nat
           /\ \A v \in S : t <= v => Cardinality({u \in S : u > v}) <= Cardinality({u \in S : u > t})
<1>1. IsFiniteSet(S) /\ S \subseteq Nat
  <2>1. IsFiniteSet(0 .. MaxTime)
    BY LogAssumption, FS_Interval
  <2>2. IsFiniteSet(S)
    BY <2>1, FS_Subset
  <2>3. S \subseteq Nat
    BY LogAssumption
  <2> QED
    BY <2>2, <2>3
<1>2. IsFiniteSet({u \in S : u > t}) /\ Cardinality({u \in S : u > t}) \in Nat
  BY <1>1, FS_Subset, FS_CardinalityType
<1>3. ASSUME NEW v \in S, t <= v
      PROVE  Cardinality({u \in S : u > v}) <= Cardinality({u \in S : u > t})
  <2>1. {u \in S : u > v} \subseteq {u \in S : u > t}
    <3>1. \A u \in S : u > v => u > t
      BY <1>1, <1>3
    <3> QED
      BY <3>1
  <2> QED
    BY <1>2, <2>1, FS_Subset
<1> QED
  BY <1>2, <1>3

\* cleanup_old_archives leaves no more than the limit.
LEMMA KeptBounded ==
    ASSUME NEW files, DOMAIN files \subseteq 0 .. MaxTime, MaxArchives > 0
    PROVE  Cardinality(Kept(files)) <= MaxArchives
<1> DEFINE S == DOMAIN files
           K == Kept(files)
<1>1. /\ K \subseteq S /\ S \subseteq Nat /\ MaxArchives \in Nat
      /\ \A t \in K : Cardinality({u \in S : u > t}) < MaxArchives
  BY LogAssumption DEF Kept
<1>2. IsFiniteSet(K) /\ Cardinality(K) \in Nat
  <2>1. IsFiniteSet(0 .. MaxTime)
    BY LogAssumption, FS_Interval
  <2> QED
    BY <1>1, <2>1, FS_Subset, FS_CardinalityType
<1> HIDE DEF K
<1>3. CASE K = {}
  BY <1>1, <1>3, FS_EmptySet DEF K
<1>4. CASE K # {}
  <2>1. PICK m \in K : \A n \in K : m <= n
    BY <1>1, <1>4, Least
  <2>2. K \ {m} \subseteq {u \in S : u > m}
    BY <1>1, <2>1
  <2>3. Cardinality(K \ {m}) = Cardinality(K) - 1
    BY <1>2, FS_RemoveElement
  <2>4. /\ IsFiniteSet({u \in S : u > m}) /\ Cardinality({u \in S : u > m}) \in Nat
        /\ Cardinality({u \in S : u > m}) < MaxArchives
    BY <1>1, YoungerFacts
  <2>5. Cardinality(K \ {m}) <= Cardinality({u \in S : u > m})
    BY <2>2, <2>4, FS_Subset
  <2>6. Cardinality(K) <= MaxArchives
    BY <1>1, <1>2, <2>3, <2>4, <2>5
  <2> QED
    BY <2>6 DEF K
<1> QED
  BY <1>3, <1>4

\* What it deletes is older than what stays, of which there is as much as the limit.
LEMMA DroppedOld ==
    ASSUME NEW files, DOMAIN files \subseteq 0 .. MaxTime, NEW t \in DOMAIN files \ Kept(files)
    PROVE  /\ MaxArchives > 0 /\ Cardinality(Kept(files)) = MaxArchives
           /\ \A u \in Kept(files) : t < u
<1> DEFINE S == DOMAIN files
           K == Kept(files)
           Younger(v) == {u \in S : u > v}
<1>1. /\ K \subseteq S /\ S \subseteq Nat /\ MaxArchives \in Nat /\ MaxArchives > 0
      /\ \A v \in S : v \in K <=> Cardinality(Younger(v)) < MaxArchives
  BY LogAssumption DEF Kept
<1>2. IsFiniteSet(K) /\ Cardinality(K) \in Nat /\ Cardinality(K) <= MaxArchives
  <2>1. IsFiniteSet(0 .. MaxTime)
    BY LogAssumption, FS_Interval
  <2>2. IsFiniteSet(K)
    BY <1>1, <2>1, FS_Subset
  <2> QED
    BY <1>1, <2>2, FS_CardinalityType, KeptBounded
<1>3. \A v, z \in S : /\ Cardinality(Younger(v)) \in Nat
                      /\ v <= z => Cardinality(Younger(z)) <= Cardinality(Younger(v))
  BY YoungerFacts
<1> HIDE DEF K, Younger
<1>4. ASSUME NEW u \in K, NEW v \in S \ K PROVE v < u
  <2>1. Cardinality(Younger(u)) < MaxArchives /\ ~ Cardinality(Younger(v)) < MaxArchives
    BY <1>1
  <2>2. ~ u <= v
    BY <1>1, <1>3, <2>1
  <2> QED
    BY <1>1, <2>2
<1>5. PICK v \in S \ K : \A z \in S \ K : z <= v
  <2>1. S \ K \in SUBSET (0 .. MaxTime) /\ S \ K # {} /\ MaxTime \in Nat
    BY LogAssumption DEF K
  <2> QED
    BY <2>1, Greatest
<1>6. Younger(v) \subseteq K
  <2>1. \A z \in S \ K : ~ z > v
    BY <1>1, <1>5
  <2> QED
    BY <2>1 DEF Younger
<1>7. Cardinality(K) = MaxArchives
  <2>1. Cardinality(Younger(v)) <= Cardinality(K)
    BY <1>2, <1>6, FS_Subset
  <2>2. Cardinality(Younger(v)) >= MaxArchives
    BY <1>1, <1>3
  <2> QED
    BY <1>1, <1>2, <1>3, <2>1, <2>2
<1> QED
  BY <1>1, <1>4, <1>7 DEF K

-------------------------------------------------------------------------------
\* The files after a step of file_write: the log file is as it was or empty, and
\* what it had may be an archive now, in the place of one of the same tick.
LEMMA FilesFacts ==
    ASSUME TypeOK, Orderly, WrittenOnce,
           current' \in {current, <<>>},
           NEW renamed \in BOOLEAN, renamed => current' = <<>>,
           \A t \in DOMAIN archives' :
             IF renamed /\ t = now THEN archives'[t] = current
                                  ELSE t \in DOMAIN archives /\ archives'[t] = archives[t],
           Ok' = Ok
    PROVE  /\ current' \in Seq(Writers)
           /\ \A t \in DOMAIN archives' : archives'[t] \in Seq(Writers)
           /\ WrittenOnce'
           /\ Messages(current') \subseteq Ok'
           /\ \A t \in DOMAIN archives' : Messages(archives'[t]) \subseteq Ok'
<1>0. /\ current \in Seq(Writers) /\ <<>> \in Seq(Writers) /\ Messages(<<>>) = {} /\ DOMAIN <<>> = {}
      /\ now \in 0 .. MaxTime /\ DOMAIN archives \subseteq 0 .. MaxTime
      /\ \A t \in DOMAIN archives : archives[t] \in Seq(Writers)
  BY DEF TypeOK, Messages
<1> DEFINE K == DOMAIN archives'
<1>1. current' \in Seq(Writers)
  BY <1>0
<1>3. /\ current' \in Seq(Writers) /\ Messages(current') \subseteq Messages(current)
      /\ \A i, j \in DOMAIN current' : current'[i] = current'[j] => i = j
  BY <1>0, <1>1 DEF WrittenOnce
<1>4. ASSUME NEW t \in K
      PROVE  /\ archives'[t] \in Seq(Writers) /\ Messages(archives'[t]) \subseteq Ok
             /\ Messages(archives'[t]) \cap Messages(current') = {}
             /\ \A i, j \in DOMAIN archives'[t] : archives'[t][i] = archives'[t][j] => i = j
  <2>1. CASE renamed /\ t = now
    <3>1. archives'[t] = current /\ Messages(current') = {}
      BY <1>0, <2>1
    <3>2. \A i, j \in DOMAIN current : current[i] = current[j] => i = j
      BY DEF WrittenOnce
    <3> QED
      BY <1>0, <3>1, <3>2 DEF Orderly
  <2>2. CASE ~ (renamed /\ t = now)
    <3>1. archives'[t] = archives[t] /\ t \in DOMAIN archives
      BY <2>2
    <3> QED
      BY <1>0, <1>3, <3>1 DEF Orderly, WrittenOnce
  <2> QED
    BY <2>1, <2>2
<1>5. ASSUME NEW t \in K, NEW u \in K \ {t}
      PROVE  Messages(archives'[t]) \cap Messages(archives'[u]) = {}
  <2>1. CASE renamed /\ t = now
    <3>1. archives'[t] = current /\ archives'[u] = archives[u] /\ u \in DOMAIN archives
      BY <2>1
    <3> QED
      BY <1>3, <3>1 DEF WrittenOnce
  <2>2. CASE renamed /\ u = now
    <3>1. archives'[u] = current /\ archives'[t] = archives[t] /\ t \in DOMAIN archives
      BY <2>2
    <3> QED
      BY <1>3, <3>1 DEF WrittenOnce
  <2>3. CASE ~ (renamed /\ t = now) /\ ~ (renamed /\ u = now)
    <3>1. /\ archives'[t] = archives[t] /\ t \in DOMAIN archives
          /\ archives'[u] = archives[u] /\ u \in DOMAIN archives
      BY <2>3
    <3> QED
      BY <3>1 DEF WrittenOnce
  <2> QED
    BY <2>1, <2>2, <2>3
<1>6. Messages(current') \subseteq Ok
  BY <1>3 DEF Orderly
<1>7. WrittenOnce'
  <2>2. \A t \in DOMAIN archives' :
          /\ Messages(archives'[t]) \cap Messages(current') = {}
          /\ \A i, j \in DOMAIN archives'[t] : archives'[t][i] = archives'[t][j] => i = j
    BY <1>4
  <2>3. \A t \in DOMAIN archives' : \A u \in DOMAIN archives' \ {t} :
          Messages(archives'[t]) \cap Messages(archives'[u]) = {}
    BY <1>5
  <2> QED
    BY <1>3, <2>2, <2>3 DEF WrittenOnce
<1> QED
  BY <1>3, <1>4, <1>6, <1>7

\* A call that starts to write through the handle of e.
LEMMA StartFacts ==
    ASSUME TypeOK, Orderly, NEW w \in Writers, pc[w] = "idle", NEW e \in Entries, StartWrite(w, e)
    PROVE  /\ entry' = e /\ e # NoEntry
           /\ pc' \in [Writers -> {"idle", "writing", "done"}]
           /\ it' \in [Writers -> Writers] /\ via' \in [Writers -> Writers]
           /\ outcome' \in [Writers -> {"none", "pending", "ok", "failed"}]
           /\ \A v \in Writers : /\ pc'[v] = "writing" => outcome'[v] # "none"
                                 /\ pc'[v] = "idle" => outcome'[v] = "none"
                                 /\ outcome'[v] = "pending" => pc'[v] = "writing"
           /\ Ok' = Ok /\ IsFiniteSet(Started')
           /\ Uncounted(e.handle)' = Uncounted(e.handle)
<1>0. /\ e.node \in Writers /\ e.handle \in Writers /\ e # NoEntry /\ outcome[w] = "none"
      /\ entry' = e
  BY LogAssumption DEF Entries, Orderly, StartWrite
<1>1. /\ pc' = [pc EXCEPT ![w] = "writing"] /\ it' = [it EXCEPT ![w] = e.node]
      /\ via' = [via EXCEPT ![w] = e.handle] /\ outcome' = [outcome EXCEPT ![w] = "pending"]
  BY DEF StartWrite
<1>2. /\ pc' \in [Writers -> {"idle", "writing", "done"}]
      /\ it' \in [Writers -> Writers] /\ via' \in [Writers -> Writers]
      /\ outcome' \in [Writers -> {"none", "pending", "ok", "failed"}]
  BY <1>0, <1>1 DEF TypeOK
<1>3. /\ pc'[w] = "writing" /\ via'[w] = e.handle /\ outcome'[w] = "pending"
      /\ \A v \in Writers \ {w} : pc'[v] = pc[v] /\ via'[v] = via[v] /\ outcome'[v] = outcome[v]
  BY <1>1 DEF TypeOK
<1>4. Ok' = Ok
  BY <1>0, <1>3 DEF Ok
<1>5. IsFiniteSet(Started')
  <2>1. Started' = Started \cup {w}
    BY <1>0, <1>3 DEF Started
  <2> QED
    BY <2>1, FS_AddElement DEF Orderly
<1>6. \A v \in Writers : /\ pc'[v] = "writing" => outcome'[v] # "none"
                         /\ pc'[v] = "idle" => outcome'[v] = "none"
                         /\ outcome'[v] = "pending" => pc'[v] = "writing"
  BY <1>3 DEF TypeOK, Orderly
<1>7. Uncounted(e.handle)' = Uncounted(e.handle)
  BY <1>0, <1>3 DEF Uncounted
<1> QED
  BY <1>0, <1>2, <1>4, <1>5, <1>6, <1>7

\* A call that ends.
LEMMA EndFacts ==
    ASSUME TypeOK, Orderly, NEW w \in Writers, outcome[w] # "pending",
           pc' = [pc EXCEPT ![w] = "done"], UNCHANGED outcome
    PROVE  /\ pc' \in [Writers -> {"idle", "writing", "done"}]
           /\ pc'[w] = "done" /\ \A v \in Writers \ {w} : pc'[v] = pc[v]
           /\ \A v \in Writers : /\ pc'[v] = "writing" => outcome'[v] # "none"
                                 /\ pc'[v] = "idle" => outcome'[v] = "none"
                                 /\ outcome'[v] = "pending" => pc'[v] = "writing"
           /\ Ok' = Ok /\ IsFiniteSet(Started')
<1>1. /\ pc' \in [Writers -> {"idle", "writing", "done"}]
      /\ pc'[w] = "done" /\ \A v \in Writers \ {w} : pc'[v] = pc[v]
  BY DEF TypeOK
<1>2. Ok' = Ok /\ Started' = Started
  BY DEF Ok, Started
<1>3. \A v \in Writers : /\ pc'[v] = "writing" => outcome'[v] # "none"
                         /\ pc'[v] = "idle" => outcome'[v] = "none"
                         /\ outcome'[v] = "pending" => pc'[v] = "writing"
  BY <1>1 DEF TypeOK, Orderly
<1> QED
  BY <1>1, <1>2, <1>3 DEF Orderly

\* After cleanup_old_archives there are few enough archives.
LEMMA CleanUpFacts ==
    ASSUME NEW files, DOMAIN files \subseteq 0 .. MaxTime, CleanUp(files),
           retired \subseteq Writers,
           \A t \in DOMAIN files : Messages(files[t]) \subseteq Writers
    PROVE  /\ Kept(files) \in SUBSET DOMAIN files
           /\ archives' = [t \in Kept(files) |-> files[t]]
           /\ ArchivesBounded' /\ retired' \subseteq Writers
<1>1. Kept(files) \in SUBSET DOMAIN files /\ archives' = [t \in Kept(files) |-> files[t]]
  BY DEF Kept, CleanUp
<1>2. DOMAIN archives' = Kept(files)
  BY <1>1
<1>3. ArchivesBounded'
  BY <1>2, KeptBounded DEF ArchivesBounded
<1> QED
  BY <1>1, <1>3 DEF CleanUp

\* file_write from the rotation check on, with the entry it has found or made.
LEMMA WriteThroughStep ==
    ASSUME LogIInv, NEW w \in Writers, pc[w] = "idle", NEW e \in Entries, WriteThrough(w, e),
           Len(current) <= e.size + Cardinality(Uncounted(e.handle)),
           UNCHANGED <<now, reported, crashed>>
    PROVE  LogIInv'
<1>0. /\ TypeOK /\ Orderly /\ WrittenOnce /\ ArchivesBounded
      /\ e.node \in Writers /\ e.handle \in Writers /\ e.size \in Nat /\ outcome[w] = "none"
  BY DEF LogIInv, Entries, Orderly
<1>1. CASE StartWrite(w, e) /\ mishaps' = mishaps \cup Overlap /\ UNCHANGED <<current, archives, retired>>
  <2>1. /\ entry' = e /\ e # NoEntry
        /\ pc' \in [Writers -> {"idle", "writing", "done"}]
        /\ it' \in [Writers -> Writers] /\ via' \in [Writers -> Writers]
        /\ outcome' \in [Writers -> {"none", "pending", "ok", "failed"}]
        /\ \A v \in Writers : /\ pc'[v] = "writing" => outcome'[v] # "none"
                              /\ pc'[v] = "idle" => outcome'[v] = "none"
                              /\ outcome'[v] = "pending" => pc'[v] = "writing"
        /\ Ok' = Ok /\ IsFiniteSet(Started')
        /\ Uncounted(e.handle)' = Uncounted(e.handle)
    BY <1>0, <1>1, StartFacts
  <2>2. mishaps' \subseteq Mishaps
    BY <1>0, <1>1 DEF TypeOK, Mishaps, Overlap
  <2>3. TypeOK'
    BY <1>0, <1>1, <2>1, <2>2 DEF TypeOK, Ok
  <2>4. SizeNotUnderestimated'
    BY <1>1, <2>1 DEF SizeNotUnderestimated, Uncounted
  <2>5. Orderly' /\ WrittenOnce' /\ ArchivesBounded'
    BY <1>0, <1>1, <2>1 DEF Orderly, WrittenOnce, ArchivesBounded
  <2> QED
    BY <2>3, <2>4, <2>5 DEF LogIInv
<1>2. CASE Rotate(w, e)
  <2>1. PICK renamed \in BOOLEAN :
          /\ CleanUp(Archived(renamed))
          /\ mishaps' = mishaps \cup Overlap \cup Mishap(renamed)
          /\ \/ /\ current' = <<>>
                /\ StartWrite(w, [e EXCEPT !.handle = w, !.size = 0])
             \/ /\ current' = IF renamed THEN <<>> ELSE current
                /\ entry' = [e EXCEPT !.open = FALSE]
                /\ OpenFails(w)
    BY <1>2 DEF Rotate
  <2> DEFINE files == Archived(renamed)
             new == [e EXCEPT !.handle = w, !.size = 0]
             shut == [e EXCEPT !.open = FALSE]
  <2>2. current \in Seq(Writers) /\ Len(current) \in Nat /\ Len(<<>>) = 0
    BY <1>0 DEF TypeOK
  <2>3. /\ pc' \in [Writers -> {"idle", "writing", "done"}]
        /\ it' \in [Writers -> Writers] /\ via' \in [Writers -> Writers]
        /\ outcome' \in [Writers -> {"none", "pending", "ok", "failed"}]
        /\ \A v \in Writers : /\ pc'[v] = "writing" => outcome'[v] # "none"
                              /\ pc'[v] = "idle" => outcome'[v] = "none"
                              /\ outcome'[v] = "pending" => pc'[v] = "writing"
        /\ Ok' = Ok /\ IsFiniteSet(Started') /\ entry' \in Entries
        /\ \/ Len(current') = 0
           \/ /\ current' = current /\ entry'.size = e.size /\ entry'.handle = e.handle
              /\ Uncounted(e.handle)' = Uncounted(e.handle)
    <3>1. CASE current' = <<>> /\ StartWrite(w, new)
      <4>1. new \in Entries
        BY <1>0 DEF Entries
      <4> HIDE DEF new
      <4>2. /\ pc' \in [Writers -> {"idle", "writing", "done"}]
            /\ it' \in [Writers -> Writers] /\ via' \in [Writers -> Writers]
            /\ outcome' \in [Writers -> {"none", "pending", "ok", "failed"}]
            /\ \A v \in Writers : /\ pc'[v] = "writing" => outcome'[v] # "none"
                                  /\ pc'[v] = "idle" => outcome'[v] = "none"
                                  /\ outcome'[v] = "pending" => pc'[v] = "writing"
            /\ Ok' = Ok /\ IsFiniteSet(Started') /\ entry' = new
        BY <1>0, <3>1, <4>1, StartFacts
      <4> QED
        BY <2>2, <3>1, <4>1, <4>2
    <3>2. CASE current' \in {current, <<>>} /\ entry' = shut /\ OpenFails(w)
      <4>1. /\ pc' = [pc EXCEPT ![w] = "done"] /\ UNCHANGED <<it, via, outcome>> /\ outcome[w] # "pending"
        BY <1>0, <3>2 DEF OpenFails
      <4>2. /\ pc' \in [Writers -> {"idle", "writing", "done"}]
            /\ pc'[w] = "done" /\ \A v \in Writers \ {w} : pc'[v] = pc[v]
            /\ \A v \in Writers : /\ pc'[v] = "writing" => outcome'[v] # "none"
                                  /\ pc'[v] = "idle" => outcome'[v] = "none"
                                  /\ outcome'[v] = "pending" => pc'[v] = "writing"
            /\ Ok' = Ok /\ IsFiniteSet(Started')
        BY <1>0, <4>1, EndFacts
      <4>3. shut \in Entries /\ shut.size = e.size /\ shut.handle = e.handle
        BY <1>0 DEF Entries
      <4>4. Uncounted(e.handle)' = Uncounted(e.handle)
        BY <1>0, <4>1, <4>2 DEF Uncounted
      <4> HIDE DEF shut
      <4>5. /\ it' \in [Writers -> Writers] /\ via' \in [Writers -> Writers]
            /\ outcome' \in [Writers -> {"none", "pending", "ok", "failed"}]
        BY <1>0, <4>1 DEF TypeOK
      <4>6. \/ Len(current') = 0
            \/ current' = current /\ entry'.size = e.size /\ entry'.handle = e.handle
        BY <2>2, <3>2, <4>3
      <4> QED
        BY <3>2, <4>2, <4>3, <4>4, <4>5, <4>6
    <3>3. \/ current' = <<>> /\ StartWrite(w, new)
          \/ current' \in {current, <<>>} /\ entry' = shut /\ OpenFails(w)
      BY <2>1
    <3> HIDE DEF new, shut
    <3> QED
      BY <3>1, <3>2, <3>3
  <2>4. /\ current' \in {current, <<>>} /\ (renamed => current' = <<>>)
    BY <2>1
  <2>5. /\ DOMAIN files \subseteq 0 .. MaxTime
        /\ \A t \in DOMAIN files : Messages(files[t]) \subseteq Writers
    <3>1. now \in 0 .. MaxTime /\ DOMAIN archives \subseteq 0 .. MaxTime
      BY <1>0 DEF TypeOK
    <3>2. \A m \in Seq(Writers) : Messages(m) \subseteq Writers
      BY DEF Messages
    <3>3. \A t \in DOMAIN archives : archives[t] \in Seq(Writers)
      BY <1>0 DEF TypeOK
    <3> QED
      BY <2>2, <3>1, <3>2, <3>3 DEF Archived
  <2> HIDE DEF files
  <2>6. CleanUp(files)
    BY <2>1 DEF files
  <2>7. /\ Kept(files) \in SUBSET DOMAIN files
        /\ archives' = [t \in Kept(files) |-> files[t]]
        /\ ArchivesBounded' /\ retired' \subseteq Writers
    BY <1>0, <2>5, <2>6, CleanUpFacts DEF TypeOK
  <2>8. /\ current' \in Seq(Writers)
        /\ DOMAIN archives' = Kept(files)
        /\ \A t \in DOMAIN archives' : archives'[t] \in Seq(Writers)
        /\ WrittenOnce'
        /\ Messages(current') \subseteq Ok'
        /\ \A t \in DOMAIN archives' : Messages(archives'[t]) \subseteq Ok'
    <3>1. DOMAIN archives' = Kept(files) /\ \A t \in Kept(files) : archives'[t] = files[t]
      BY <2>7
    <3>2. \A t \in DOMAIN archives' :
            IF renamed /\ t = now THEN archives'[t] = current
                                 ELSE t \in DOMAIN archives /\ archives'[t] = archives[t]
      BY <2>7, <3>1 DEF files, Archived
    <3> QED
      BY <1>0, <2>3, <2>4, <3>1, <3>2, FilesFacts
  <2>9. mishaps' \subseteq Mishaps
    BY <1>0, <2>1 DEF TypeOK, Mishaps, Overlap, Mishap
  <2>10. TypeOK'
    BY <1>0, <2>3, <2>5, <2>7, <2>8, <2>9 DEF TypeOK, Ok
  <2>11. Orderly'
    BY <2>3, <2>8 DEF Orderly
  <2>12. SizeNotUnderestimated'
    <3>1. Len(current') <= entry'.size + Cardinality(Uncounted(entry.handle)')
      <4>1. Uncounted(entry.handle)' \subseteq Started'
        BY DEF Uncounted, Started
      <4>2. Cardinality(Uncounted(entry.handle)') \in Nat
        BY <2>3, <4>1, FS_Subset, FS_CardinalityType
      <4>3. entry'.size \in Nat
        BY <2>3 DEF Entries
      <4>4. CASE Len(current') = 0
        BY <4>2, <4>3, <4>4
      <4>5. CASE /\ current' = current /\ entry'.size = e.size /\ entry'.handle = e.handle
                 /\ Uncounted(e.handle)' = Uncounted(e.handle)
        <5>1. Uncounted(entry.handle)' = Uncounted(e.handle)
          BY <4>5 DEF Uncounted
        <5> QED
          BY <4>5, <5>1
      <4> QED
        BY <2>3, <4>4, <4>5
    <3> QED
      BY <3>1 DEF SizeNotUnderestimated, Uncounted
  <2> QED
    BY <2>7, <2>8, <2>10, <2>11, <2>12 DEF LogIInv
<1> QED
  BY <1>1, <1>2 DEF WriteThrough

\* A step that leaves the files alone.
LEMMA FilesRest ==
    ASSUME LogIInv, UNCHANGED <<current, archives>>, Ok' = Ok, IsFiniteSet(Started'),
           \A v \in Writers : /\ pc'[v] = "idle" => outcome'[v] = "none"
                              /\ outcome'[v] = "pending" => pc'[v] = "writing"
    PROVE  Orderly' /\ WrittenOnce' /\ ArchivesBounded'
BY DEF LogIInv, Orderly, WrittenOnce, ArchivesBounded

\* What file_write makes of a file without an open handle.
LEMMA OpenedFacts ==
    ASSUME TypeOK, NEW w \in Writers
    PROVE  Opened(w) \in Entries /\ Opened(w).handle = w /\ Opened(w).size = Len(current)
<1>1. Len(current) \in Nat
  BY DEF TypeOK
<1>2. (IF entry = NoEntry THEN w ELSE entry.node) \in Writers
  BY DEF TypeOK, Entries
<1> QED
  BY <1>1, <1>2 DEF Opened, Entries

LEMMA FileWriteStep ==
    ASSUME LogIInv, NEW w \in Writers, FileWrite(w)
    PROVE  LogIInv'
<1>0. /\ TypeOK /\ Orderly /\ SizeNotUnderestimated /\ pc[w] = "idle" /\ outcome[w] # "pending"
      /\ UNCHANGED <<now, reported, crashed>>
  BY DEF LogIInv, FileWrite, Orderly
<1>1. CASE HasHandle /\ WriteThrough(w, entry)
  <2>1. entry # NoEntry /\ entry \in Entries
    BY <1>0, <1>1 DEF TypeOK, HasHandle
  <2>2. Len(current) <= entry.size + Cardinality(Uncounted(entry.handle))
    BY <1>0, <2>1 DEF SizeNotUnderestimated, Uncounted
  <2> QED
    BY <1>0, <1>1, <2>1, <2>2, WriteThroughStep
<1>2. CASE WriteThrough(w, Opened(w))
  <2> DEFINE e == Opened(w)
  <2>1. e \in Entries /\ e.handle = w /\ e.size = Len(current) /\ Len(current) \in Nat
    BY <1>0, OpenedFacts DEF TypeOK
  <2>2. Cardinality(Uncounted(w)) \in Nat
    <3>1. Uncounted(w) \subseteq Started
      BY DEF Uncounted, Started
    <3> QED
      BY <1>0, <3>1, FS_Subset, FS_CardinalityType DEF Orderly
  <2> HIDE DEF e
  <2>3. WriteThrough(w, e)
    BY <1>2 DEF e
  <2>4. Len(current) <= e.size + Cardinality(Uncounted(e.handle))
    BY <2>1, <2>2
  <2> QED
    BY <1>0, <2>1, <2>3, <2>4, WriteThroughStep
<1>3. CASE /\ OpenFails(w) /\ mishaps' = mishaps \cup Overlap
           /\ UNCHANGED <<entry, current, archives, retired>>
  <2>1. pc' = [pc EXCEPT ![w] = "done"] /\ UNCHANGED <<it, via, outcome>>
    BY <1>3 DEF OpenFails
  <2>2. /\ pc' \in [Writers -> {"idle", "writing", "done"}]
        /\ pc'[w] = "done" /\ \A v \in Writers \ {w} : pc'[v] = pc[v]
        /\ \A v \in Writers : /\ pc'[v] = "writing" => outcome'[v] # "none"
                              /\ pc'[v] = "idle" => outcome'[v] = "none"
                              /\ outcome'[v] = "pending" => pc'[v] = "writing"
        /\ Ok' = Ok /\ IsFiniteSet(Started')
    BY <1>0, <2>1, EndFacts
  <2>3. mishaps' \subseteq Mishaps
    BY <1>0, <1>3 DEF TypeOK, Mishaps, Overlap
  <2>4. TypeOK'
    BY <1>0, <1>3, <2>1, <2>2, <2>3 DEF TypeOK, Ok
  <2>5. Orderly' /\ WrittenOnce' /\ ArchivesBounded'
    BY <1>3, <2>2, FilesRest
  <2>6. Uncounted(entry.handle)' = Uncounted(entry.handle)
    <3>1. outcome[w] = "none"
      BY <1>0 DEF Orderly
    <3> QED
      BY <1>3, <2>1, <2>2, <3>1 DEF Uncounted
  <2>7. SizeNotUnderestimated'
    BY <1>0, <1>3, <2>6 DEF SizeNotUnderestimated, Uncounted
  <2> QED
    BY <2>4, <2>5, <2>7 DEF LogIInv
<1> QED
  BY <1>1, <1>2, <1>3 DEF FileWrite

LEMMA CompletesStep ==
    ASSUME LogIInv, NEW w \in Writers, Completes(w)
    PROVE  LogIInv'
<1>0. /\ TypeOK /\ Orderly /\ WrittenOnce /\ SizeNotUnderestimated /\ ArchivesBounded
      /\ outcome[w] = "pending" /\ pc[w] = "writing"
      /\ UNCHANGED <<entry, archives, now, pc, it, via, reported, retired, mishaps, crashed>>
  BY DEF LogIInv, Completes, Orderly
<1>2. CASE Live(via[w]) /\ outcome' = [outcome EXCEPT ![w] = "ok"] /\ current' = Append(current, w)
  <2>0. /\ entry # NoEntry /\ entry \in Entries /\ entry.handle = via[w]
        /\ IsFiniteSet(Uncounted(entry.handle)) /\ Cardinality(Uncounted(entry.handle)) \in Nat
        /\ Len(current) <= entry.size + Cardinality(Uncounted(entry.handle))
    <3>1. entry # NoEntry /\ entry \in Entries /\ entry.handle = via[w]
      BY <1>0, <1>2 DEF TypeOK, Live, HasHandle
    <3>2. Uncounted(entry.handle) \subseteq Started
      BY DEF Uncounted, Started
    <3> QED
      BY <1>0, <3>1, <3>2, FS_Subset, FS_CardinalityType DEF Orderly, SizeNotUnderestimated, Uncounted
  <2>1. /\ outcome' \in [Writers -> {"none", "pending", "ok", "failed"}] /\ outcome'[w] = "ok"
        /\ \A v \in Writers \ {w} : outcome'[v] = outcome[v]
    BY <1>0, <1>2 DEF TypeOK
  <2>2. Ok' = Ok \cup {w} /\ w \notin Ok /\ Started' = Started
    BY <1>0, <2>1 DEF Ok, Started
  <2>3. /\ current \in Seq(Writers) /\ current' \in Seq(Writers) /\ Len(current') = Len(current) + 1
        /\ DOMAIN current' = DOMAIN current \cup {Len(current) + 1} /\ Len(current) + 1 \notin DOMAIN current
        /\ \A i \in DOMAIN current : current'[i] = current[i]
        /\ current'[Len(current) + 1] = w
    BY <1>0, <1>2 DEF TypeOK
  <2>4. Messages(current') = Messages(current) \cup {w} /\ w \notin Messages(current)
    BY <1>0, <2>2, <2>3 DEF Messages, Orderly
  <2>5. TypeOK'
    BY <1>0, <2>1, <2>3 DEF TypeOK
  <2>6. Orderly'
    BY <1>0, <2>1, <2>2, <2>4 DEF Orderly
  <2>8. WrittenOnce'
    <3>1. \A i, j \in DOMAIN current' : current'[i] = current'[j] => i = j
      <4>1. \A i \in DOMAIN current : current'[i] # w
        BY <2>3, <2>4 DEF Messages
      <4> QED
        BY <1>0, <2>3, <4>1 DEF WrittenOnce
    <3>2. \A t \in DOMAIN archives : Messages(archives[t]) \cap Messages(current') = {}
      BY <1>0, <2>2, <2>4 DEF Orderly, WrittenOnce
    <3> QED
      BY <1>0, <3>1, <3>2 DEF WrittenOnce
  <2>9. SizeNotUnderestimated'
    <3>1. Uncounted(entry.handle)' = Uncounted(entry.handle) \cup {w} /\ w \notin Uncounted(entry.handle)
      BY <1>0, <2>0, <2>1 DEF Uncounted
    <3>2. Cardinality(Uncounted(entry.handle)') = Cardinality(Uncounted(entry.handle)) + 1
      BY <2>0, <3>1, FS_AddElement
    <3>3. Len(current') <= entry.size + Cardinality(Uncounted(entry.handle)')
      <4>1. Len(current) \in Nat /\ entry.size \in Nat
        BY <1>0, <2>0 DEF TypeOK, Entries
      <4> QED
        BY <2>0, <2>3, <3>2, <4>1
    <3> QED
      BY <1>0, <3>3 DEF SizeNotUnderestimated, Uncounted
  <2>10. ArchivesBounded'
    BY <1>0 DEF ArchivesBounded
  <2> QED
    BY <2>5, <2>6, <2>8, <2>9, <2>10 DEF LogIInv
<1>3. CASE outcome' = [outcome EXCEPT ![w] = "failed"] /\ UNCHANGED current
  <2>1. /\ outcome' \in [Writers -> {"none", "pending", "ok", "failed"}] /\ outcome'[w] = "failed"
        /\ \A v \in Writers \ {w} : outcome'[v] = outcome[v]
    BY <1>0, <1>3 DEF TypeOK
  <2>2. Ok' = Ok /\ Started' = Started /\ Uncounted(entry.handle)' = Uncounted(entry.handle)
    BY <1>0, <2>1 DEF Ok, Started, Uncounted
  <2>3. TypeOK'
    BY <1>0, <1>3, <2>1 DEF TypeOK
  <2>5. Orderly' /\ WrittenOnce' /\ ArchivesBounded'
    BY <1>0, <1>3, <2>1, <2>2, FilesRest DEF Orderly
  <2>6. SizeNotUnderestimated'
    BY <1>0, <1>3, <2>2 DEF SizeNotUnderestimated, Uncounted
  <2> QED
    BY <2>3, <2>5, <2>6 DEF LogIInv
<1> QED
  BY <1>2, <1>3 DEF Completes

\* A call that starts to write through the handle that is there, or a new one.
LEMMA HandlesStart ==
    ASSUME TypeOK, Handles, NEW w \in Writers, pc[w] = "idle", NEW e \in Entries,
           StartWrite(w, e),
           e.handle = w \/ (entry # NoEntry /\ e.handle = entry.handle /\ e.node = entry.node)
    PROVE  Handles'
<1>1. /\ entry' = e /\ e.node \in Writers /\ e.handle \in Writers
      /\ pc' = [pc EXCEPT ![w] = "writing"] /\ it' = [it EXCEPT ![w] = e.node]
      /\ via' = [via EXCEPT ![w] = e.handle]
  BY DEF StartWrite, Entries
<1>2. /\ pc'[w] = "writing" /\ it'[w] = e.node /\ via'[w] = e.handle
      /\ \A v \in Writers \ {w} : pc'[v] = pc[v] /\ it'[v] = it[v] /\ via'[v] = via[v]
      /\ \A v \in Writers : via[v] \in Writers
  BY <1>1 DEF TypeOK
<1>3. \A v \in Writers : pc[v] # "idle" => pc'[v] # "idle"
  BY <1>2
<1>4. pc'[e.handle] # "idle"
  BY <1>1, <1>2, <1>3 DEF Handles
<1>5. ASSUME NEW v \in Writers, pc'[v] = "writing"
      PROVE  pc'[via'[v]] # "idle" /\ (via'[v] = e.handle => it'[v] = e.node)
  <2>1. CASE v = w
    BY <1>2, <1>4, <2>1
  <2>2. CASE v # w
    <3>1. /\ pc[v] = "writing" /\ via'[v] = via[v] /\ it'[v] = it[v]
          /\ pc[via[v]] # "idle" /\ via[v] \in Writers
      BY <1>2, <1>5, <2>2 DEF Handles
    <3>2. pc'[via'[v]] # "idle"
      BY <1>3, <3>1
    <3>3. CASE e.handle = w
      BY <3>1, <3>2, <3>3
    <3>4. CASE entry # NoEntry /\ e.handle = entry.handle /\ e.node = entry.node
      BY <1>5, <3>1, <3>2, <3>4 DEF Handles
    <3> QED
      BY <3>3, <3>4
  <2> QED
    BY <2>1, <2>2
<1> QED
  BY <1>1, <1>4, <1>5 DEF Handles

\* A step that starts no write, and keeps the entry with its handle or removes it.
LEMMA HandlesRest ==
    ASSUME TypeOK, Handles, UNCHANGED <<it, via>>,
           \A v \in Writers : pc'[v] = pc[v] \/ pc'[v] = "done",
           \/ entry' = NoEntry
           \/ entry # NoEntry /\ entry'.handle = entry.handle /\ entry'.node = entry.node
    PROVE  Handles'
<1>1. \A v \in Writers : via[v] \in Writers /\ (entry # NoEntry => entry.handle \in Writers)
  BY DEF TypeOK, Entries
<1>2. entry' # NoEntry => pc'[entry'.handle] # "idle"
  BY <1>1 DEF Handles, TypeOK, Entries
<1>3. ASSUME NEW v \in Writers, pc'[v] = "writing"
      PROVE  /\ pc'[via'[v]] # "idle"
             /\ entry' # NoEntry /\ via'[v] = entry'.handle => it'[v] = entry'.node
  <2>1. pc[v] = "writing" /\ via'[v] = via[v] /\ it'[v] = it[v] /\ pc[via[v]] # "idle"
    BY <1>3 DEF Handles
  <2>2. pc'[via[v]] # "idle"
    BY <1>1, <2>1
  <2> QED
    BY <2>1, <2>2 DEF Handles
<1> QED
  BY <1>2, <1>3 DEF Handles

LEMMA NextHandles ==
    ASSUME TypeOK, Handles, [Next]_vars
    PROVE  Handles'
<1>1. ASSUME NEW w \in Writers, NEW e \in Entries, pc[w] = "idle",
             WriteThrough(w, e),
             e.handle = w \/ (entry # NoEntry /\ e.handle = entry.handle /\ e.node = entry.node)
      PROVE  Handles'
  <2> DEFINE new == [e EXCEPT !.handle = w, !.size = 0]
             shut == [e EXCEPT !.open = FALSE]
  <2>1. CASE StartWrite(w, e)
    BY <1>1, <2>1, HandlesStart
  <2>2. CASE StartWrite(w, new)
    <3>1. new \in Entries /\ new.handle = w
      BY DEF Entries
    <3> HIDE DEF new
    <3> QED
      BY <1>1, <2>2, <3>1, HandlesStart
  <2>3. CASE entry' = shut /\ OpenFails(w)
    <3>1. shut \in Entries /\ shut.handle = e.handle /\ shut.node = e.node
      BY DEF Entries
    <3>2. shut # NoEntry
      BY <3>1, LogAssumption DEF Entries
    <3> HIDE DEF shut
    <3>3. UNCHANGED <<it, via>> /\ pc'[w] = "done" /\ \A v \in Writers \ {w} : pc'[v] = pc[v]
      BY <2>3 DEF OpenFails, TypeOK
    <3>4. CASE entry # NoEntry /\ e.handle = entry.handle /\ e.node = entry.node
      <4>1. entry'.handle = entry.handle /\ entry'.node = entry.node
        BY <2>3, <3>1, <3>4
      <4> QED
        BY <3>3, <3>4, <4>1, HandlesRest
    <3>5. CASE e.handle = w
      <4>1. \A v \in Writers : pc'[v] = "writing" => pc[v] = "writing" /\ via'[v] = via[v] /\ via[v] # w
        BY <1>1, <3>3 DEF Handles, TypeOK
      <4>2. \A v \in Writers : pc'[v] = "writing" => pc'[via'[v]] # "idle"
        BY <3>3, <4>1 DEF Handles, TypeOK
      <4> QED
        BY <2>3, <3>1, <3>2, <3>3, <3>5, <4>1, <4>2 DEF Handles
    <3> QED
      BY <1>1, <3>4, <3>5
  <2> HIDE DEF new, shut
  <2> QED
    BY <1>1, <2>1, <2>2, <2>3 DEF WriteThrough, Rotate, new, shut
<1>2. ASSUME NEW w \in Writers, FileWrite(w)
      PROVE  Handles'
  <2>0. pc[w] = "idle"
    BY <1>2 DEF FileWrite
  <2>1. CASE HasHandle /\ WriteThrough(w, entry)
    BY <1>1, <2>0, <2>1 DEF TypeOK, HasHandle
  <2>2. CASE WriteThrough(w, Opened(w))
    <3>1. Opened(w) \in Entries /\ Opened(w).handle = w
      BY OpenedFacts
    <3> QED
      BY <1>1, <2>0, <2>2, <3>1
  <2>3. CASE OpenFails(w) /\ UNCHANGED entry
    <3>1. UNCHANGED <<it, via>> /\ \A v \in Writers : pc'[v] = pc[v] \/ pc'[v] = "done"
      BY <2>3 DEF OpenFails, TypeOK
    <3>2. entry' = NoEntry \/ (entry # NoEntry /\ entry'.handle = entry.handle /\ entry'.node = entry.node)
      BY <2>3
    <3> QED
      BY <3>1, <3>2, HandlesRest
  <2> QED
    BY <1>2, <2>1, <2>2, <2>3 DEF FileWrite
<1>3. ASSUME NEW w \in Writers, Written(w)
      PROVE  Handles'
  <2>1. UNCHANGED <<it, via>> /\ \A v \in Writers : pc'[v] = pc[v] \/ pc'[v] = "done"
    BY <1>3 DEF Written, TypeOK
  <2>2. entry' = NoEntry \/ (entry # NoEntry /\ entry'.handle = entry.handle /\ entry'.node = entry.node)
    <3>1. CASE entry # NoEntry /\ entry' = [entry EXCEPT !.size = @ + 1]
      BY <3>1 DEF TypeOK, Entries
    <3>2. CASE UNCHANGED entry
      BY <3>2
    <3> QED
      BY <1>3, <3>1, <3>2 DEF Written, Valid
  <2> QED
    BY <2>1, <2>2, HandlesRest
<1>4. ASSUME \/ CloseFile
             \/ Tick
             \/ UNCHANGED vars
             \/ \E w \in Writers : Completes(w) \/ NotWritten(w)
      PROVE  Handles'
  <2>1. /\ UNCHANGED <<it, via>> /\ \A v \in Writers : pc'[v] = pc[v] \/ pc'[v] = "done"
        /\ entry' = NoEntry \/ entry' = entry
    BY <1>4 DEF CloseFile, Tick, vars, Completes, NotWritten, TypeOK
  <2> QED
    BY <2>1, HandlesRest
<1> QED
  BY <1>2, <1>3, <1>4 DEF Next

LEMMA WrittenStep ==
    ASSUME LogIInv, Handles, NEW w \in Writers, Written(w)
    PROVE  LogIInv'
<1>0. /\ TypeOK /\ Orderly /\ SizeNotUnderestimated
      /\ pc[w] = "writing" /\ outcome[w] = "ok" /\ pc' = [pc EXCEPT ![w] = "done"]
      /\ UNCHANGED <<current, archives, now, it, via, outcome, retired, mishaps>>
  BY DEF LogIInv, Written
<1>1. /\ entry' \in Entries \cup {NoEntry} /\ (entry' = NoEntry <=> entry = NoEntry)
      /\ entry # NoEntry => entry'.handle = entry.handle
      /\ reported' \subseteq Ok /\ crashed' \in BOOLEAN
      /\ entry' = entry \/ (entry # NoEntry /\ entry'.size = entry.size + 1)
  <2>1. CASE /\ entry # NoEntry /\ entry' = [entry EXCEPT !.size = @ + 1]
             /\ reported' = reported \cup {w} /\ UNCHANGED crashed
    <3>1. entry \in Entries
      BY <1>0, <2>1 DEF TypeOK
    <3>2. entry' \in Entries /\ entry'.handle = entry.handle /\ entry'.size = entry.size + 1
      BY <2>1, <3>1 DEF Entries
    <3> QED
      BY <1>0, <2>1, <3>2, LogAssumption DEF TypeOK, Entries, Ok
  <2>2. CASE crashed' = TRUE /\ UNCHANGED <<entry, reported>>
    BY <1>0, <2>2 DEF TypeOK, Ok
  <2> QED
    BY <2>1, <2>2 DEF Written, Valid
<1>2. /\ pc' \in [Writers -> {"idle", "writing", "done"}]
      /\ \A v \in Writers : /\ pc'[v] = "writing" => outcome'[v] # "none"
                            /\ pc'[v] = "idle" => outcome'[v] = "none"
                            /\ outcome'[v] = "pending" => pc'[v] = "writing"
      /\ Ok' = Ok /\ IsFiniteSet(Started')
  BY <1>0, EndFacts
<1>3. TypeOK'
  BY <1>0, <1>1, <1>2 DEF TypeOK, Ok
<1>4. Orderly' /\ WrittenOnce' /\ ArchivesBounded'
  BY <1>0, <1>2, FilesRest
<1>5. SizeNotUnderestimated'
  <2> SUFFICES ASSUME entry' # NoEntry
               PROVE  Len(current) <= entry'.size + Cardinality(Uncounted(entry.handle)')
    BY <1>0, <1>1 DEF SizeNotUnderestimated, Uncounted
  <2> DEFINE U == Uncounted(entry.handle)
  <2>1. entry # NoEntry /\ entry \in Entries /\ entry.size \in Nat /\ Len(current) \in Nat
    BY <1>0, <1>1 DEF TypeOK, Entries
  <2>2. Len(current) <= entry.size + Cardinality(U) /\ IsFiniteSet(U) /\ Cardinality(U) \in Nat
    <3>1. U \subseteq Started
      BY DEF Uncounted, Started
    <3> QED
      BY <1>0, <2>1, <3>1, FS_Subset, FS_CardinalityType DEF Orderly, SizeNotUnderestimated, Uncounted
  <2>3. Uncounted(entry.handle)' = U \ {w}
    <3>1. pc'[w] = "done" /\ \A v \in Writers \ {w} : pc'[v] = pc[v]
      BY <1>0 DEF TypeOK
    <3>2. entry'.handle = entry.handle
      BY <1>1, <2>1
    <3> QED
      BY <1>0, <3>1, <3>2 DEF Uncounted
  <2> HIDE DEF U
  <2>4. CASE Valid(w)
    <3>1. entry'.size = entry.size + 1
      BY <2>1, <2>4 DEF Written, Entries
    <3>2. Cardinality(U \ {w}) \in Nat /\ Cardinality(U \ {w}) >= Cardinality(U) - 1
      <4>1. CASE w \in U
        <5>1. Cardinality(U \ {w}) = Cardinality(U) - 1 /\ IsFiniteSet(U \ {w})
          BY <2>2, <4>1, FS_RemoveElement
        <5> QED
          BY <2>2, <5>1, FS_CardinalityType
      <4>2. CASE w \notin U
        <5>1. U \ {w} = U
          BY <4>2
        <5>2. Cardinality(U \ {w}) = Cardinality(U)
          BY <5>1
        <5> QED
          BY <2>2, <5>2
      <4> QED
        BY <4>1, <4>2
    <3> QED
      BY <2>1, <2>2, <2>3, <3>1, <3>2
  <2>5. CASE ~ Valid(w)
    <3>1. entry' = entry
      BY <2>5 DEF Written
    <3>2. via[w] # entry.handle
      BY <1>0, <2>1, <2>5 DEF Valid, Handles
    <3>3. U \ {w} = U
      BY <3>2 DEF U, Uncounted
    <3> QED
      BY <2>2, <2>3, <3>1, <3>3
  <2> QED
    BY <2>4, <2>5
<1> QED
  BY <1>2, <1>3, <1>4, <1>5 DEF LogIInv

LEMMA NotWrittenStep ==
    ASSUME LogIInv, Handles, NEW w \in Writers, NotWritten(w)
    PROVE  LogIInv'
<1>0. /\ TypeOK /\ Orderly /\ SizeNotUnderestimated
      /\ pc[w] = "writing" /\ outcome[w] = "failed" /\ pc' = [pc EXCEPT ![w] = "done"]
      /\ UNCHANGED <<current, archives, now, it, via, outcome, reported, retired, mishaps>>
  BY DEF LogIInv, NotWritten
<1>1. (entry' = NoEntry \/ entry' = entry) /\ entry' \in Entries \cup {NoEntry} /\ crashed' \in BOOLEAN
  BY <1>0 DEF NotWritten, TypeOK
<1>2. /\ pc' \in [Writers -> {"idle", "writing", "done"}]
      /\ pc'[w] = "done" /\ \A v \in Writers \ {w} : pc'[v] = pc[v]
      /\ \A v \in Writers : /\ pc'[v] = "writing" => outcome'[v] # "none"
                            /\ pc'[v] = "idle" => outcome'[v] = "none"
                            /\ outcome'[v] = "pending" => pc'[v] = "writing"
      /\ Ok' = Ok /\ IsFiniteSet(Started')
  BY <1>0, EndFacts
<1>3. TypeOK'
  BY <1>0, <1>1, <1>2 DEF TypeOK, Ok
<1>4. Orderly' /\ WrittenOnce' /\ ArchivesBounded'
  BY <1>0, <1>2, FilesRest
<1>5. SizeNotUnderestimated'
  <2>1. Uncounted(entry.handle)' = Uncounted(entry.handle) \/ entry' = NoEntry
    BY <1>0, <1>1, <1>2 DEF Uncounted
  <2> QED
    BY <1>0, <1>1, <2>1 DEF SizeNotUnderestimated, Uncounted
<1> QED
  BY <1>3, <1>4, <1>5 DEF LogIInv

LEMMA CloseFileStep ==
    ASSUME LogIInv, CloseFile
    PROVE  LogIInv'
<1>0. /\ TypeOK /\ entry' = NoEntry /\ mishaps' = mishaps \cup Overlap
      /\ UNCHANGED <<current, archives, now, pc, it, via, outcome, reported, retired, crashed>>
  BY DEF LogIInv, CloseFile
<1>1. TypeOK'
  <2>1. mishaps' \subseteq Mishaps
    BY <1>0 DEF TypeOK, Mishaps, Overlap
  <2> QED
    BY <1>0, <2>1 DEF TypeOK
<1>2. Orderly' /\ WrittenOnce' /\ ArchivesBounded'
  BY <1>0 DEF LogIInv, Orderly, Ok, Started, WrittenOnce, ArchivesBounded
<1>3. SizeNotUnderestimated'
  BY <1>0 DEF SizeNotUnderestimated
<1> QED
  BY <1>1, <1>2, <1>3 DEF LogIInv

LEMMA TickStep ==
    ASSUME LogIInv, Tick
    PROVE  LogIInv'
<1>0. /\ TypeOK /\ now' \in 0 .. MaxTime
      /\ UNCHANGED <<entry, current, archives, pc, it, via, outcome, reported, retired, mishaps, crashed>>
  BY LogAssumption DEF LogIInv, Tick, TypeOK
<1>1. TypeOK'
  BY <1>0 DEF TypeOK
<1>2. Orderly' /\ WrittenOnce' /\ ArchivesBounded'
  BY <1>0 DEF LogIInv, Orderly, Ok, Started, WrittenOnce, ArchivesBounded
<1>3. SizeNotUnderestimated'
  BY <1>0 DEF LogIInv, SizeNotUnderestimated
<1> QED
  BY <1>1, <1>2, <1>3 DEF LogIInv

LEMMA InitLogIInv ==
    ASSUME Init
    PROVE  LogIInv /\ Handles
<1>1. TypeOK
  <2>1. entry \in Entries \cup {NoEntry} /\ now \in 0 .. MaxTime /\ crashed \in BOOLEAN
    <3>1. now \in 0 .. MaxTime
      BY LogAssumption DEF Init
    <3> QED
      BY <3>1 DEF Init
  <2>2. current \in Seq(Writers) /\ DOMAIN archives = {}
    BY DEF Init
  <2>3. /\ pc \in [Writers -> {"idle", "writing", "done"}]
        /\ it \in [Writers -> Writers] /\ via \in [Writers -> Writers]
        /\ outcome \in [Writers -> {"none", "pending", "ok", "failed"}]
        /\ \A w \in Writers : pc[w] # "writing"
    BY DEF Init
  <2>4. reported = {} /\ retired = {} /\ mishaps = {}
    BY DEF Init
  <2> QED
    BY <2>1, <2>2, <2>3, <2>4 DEF TypeOK
<1>2. Orderly
  <2>1. Started = {} /\ Messages(current) = {} /\ DOMAIN archives = {}
    BY DEF Init, Started, Messages
  <2> QED
    BY <2>1, FS_EmptySet DEF Init, Orderly
<1>3. WrittenOnce /\ SizeNotUnderestimated /\ Handles
  BY DEF Init, WrittenOnce, SizeNotUnderestimated, Handles
<1>4. ArchivesBounded
  <2>1. Cardinality(DOMAIN archives) = 0
    BY FS_EmptySet DEF Init
  <2> QED
    BY <2>1, LogAssumption DEF ArchivesBounded
<1> QED
  BY <1>1, <1>2, <1>3, <1>4 DEF LogIInv

LEMMA NextLogIInv ==
    ASSUME LogIInv, Handles, [Next]_vars
    PROVE  LogIInv' /\ Handles'
<1>1. ASSUME NEW w \in Writers, FileWrite(w) \/ Completes(w) \/ Written(w) \/ NotWritten(w)
      PROVE  LogIInv'
  BY <1>1, FileWriteStep, CompletesStep, WrittenStep, NotWrittenStep
<1>2. ASSUME UNCHANGED vars
      PROVE  LogIInv'
  <2>1. TypeOK' /\ SizeNotUnderestimated'
    BY <1>2 DEF LogIInv, vars, TypeOK, SizeNotUnderestimated
  <2>2. Orderly' /\ WrittenOnce' /\ ArchivesBounded'
    BY <1>2 DEF LogIInv, vars, Orderly, Ok, Started, WrittenOnce, ArchivesBounded
  <2> QED
    BY <2>1, <2>2 DEF LogIInv
<1>3. LogIInv'
  BY <1>1, <1>2, CloseFileStep, TickStep DEF Next
<1>4. Handles'
  BY NextHandles DEF LogIInv
<1> QED
  BY <1>3, <1>4

LEMMA SpecLogIInv == Spec => [](LogIInv /\ Handles)
<1>1. Init => LogIInv /\ Handles
  BY InitLogIInv
<1>2. LogIInv /\ Handles /\ [Next]_vars => (LogIInv /\ Handles)'
  BY NextLogIInv
<1> QED
  BY <1>1, <1>2, PTL DEF Spec

-------------------------------------------------------------------------------
\* Before a call begins or the file is closed without overlap, no call is suspended.
LEMMA NoneSuspended ==
    ASSUME "overlap" \notin Overlap
    PROVE  \A v \in Writers : pc[v] # "writing"
BY DEF Overlap

LEMMA SerialStep ==
    ASSUME LogIInv, Serial, [Next]_vars
    PROVE  Serial'
<1>0. /\ TypeOK /\ mishaps \subseteq mishaps'
  BY DEF LogIInv, Next, vars, FileWrite, WriteThrough, Rotate, Completes, Written, NotWritten, CloseFile, Tick
<1> SUFFICES ASSUME "overlap" \notin mishaps'
             PROVE  /\ ~ crashed'
                    /\ \A v \in Writers : pc'[v] = "writing" =>
                         Valid(v)' /\ \A u \in Writers : pc'[u] = "writing" => u = v
  BY DEF Serial
<1>1. /\ ~ crashed
      /\ \A v \in Writers : pc[v] = "writing" =>
           Valid(v) /\ \A u \in Writers : pc[u] = "writing" => u = v
  BY <1>0 DEF Serial
<1>2. ASSUME NEW w \in Writers, NEW e, StartWrite(w, e), e \in Entries, \A v \in Writers : pc[v] # "writing"
      PROVE  \A v \in Writers : pc'[v] = "writing" =>
               Valid(v)' /\ \A u \in Writers : pc'[u] = "writing" => u = v
  <2>1. /\ entry' = e /\ e # NoEntry /\ it'[w] = e.node
        /\ \A v \in Writers \ {w} : pc'[v] # "writing"
    BY <1>0, <1>2, LogAssumption DEF StartWrite, TypeOK, Entries
  <2> QED
    BY <2>1 DEF Valid
<1>3. ASSUME NEW w \in Writers, FileWrite(w)
      PROVE  /\ ~ crashed'
             /\ \A v \in Writers : pc'[v] = "writing" =>
                  Valid(v)' /\ \A u \in Writers : pc'[u] = "writing" => u = v
  <2>1. ~ crashed' /\ Overlap \subseteq mishaps'
    BY <1>1, <1>3 DEF FileWrite, WriteThrough, Rotate
  <2>2. \A v \in Writers : pc[v] # "writing"
    BY <2>1, NoneSuspended
  <2>3. CASE OpenFails(w)
    <3>1. \A v \in Writers : pc'[v] # "writing"
      BY <1>0, <2>2, <2>3 DEF OpenFails, TypeOK
    <3> QED
      BY <2>1, <3>1
  <2>4. ASSUME NEW e \in Entries, WriteThrough(w, e), ~ OpenFails(w)
        PROVE  \E f \in Entries : StartWrite(w, f)
    <3>1. [e EXCEPT !.handle = w, !.size = 0] \in Entries
      BY DEF Entries
    <3> QED
      BY <2>4, <3>1 DEF WriteThrough, Rotate
  <2>5. CASE ~ OpenFails(w)
    <3>1. \E e \in Entries : WriteThrough(w, e)
      <4>1. HasHandle => entry \in Entries
        BY <1>0 DEF HasHandle, TypeOK
      <4>2. Opened(w) \in Entries
        BY <1>0, OpenedFacts
      <4> QED
        BY <1>3, <2>5, <4>1, <4>2 DEF FileWrite
    <3>2. PICK f \in Entries : StartWrite(w, f)
      BY <2>4, <2>5, <3>1
    <3> QED
      BY <1>2, <2>1, <2>2, <3>2
  <2> QED
    BY <2>3, <2>5
<1>4. ASSUME NEW w \in Writers, Written(w) \/ NotWritten(w)
      PROVE  /\ ~ crashed'
             /\ \A v \in Writers : pc'[v] = "writing" =>
                  Valid(v)' /\ \A u \in Writers : pc'[u] = "writing" => u = v
  <2>1. pc[w] = "writing" /\ pc' = [pc EXCEPT ![w] = "done"]
    BY <1>4 DEF Written, NotWritten
  <2>2. Valid(w) /\ \A v \in Writers : pc'[v] # "writing"
    BY <1>0, <1>1, <2>1 DEF TypeOK
  <2>3. ~ crashed'
    BY <1>1, <1>4, <2>2 DEF Written, NotWritten
  <2> QED
    BY <2>2, <2>3
<1>5. CASE CloseFile
  <2>1. ~ crashed' /\ Overlap \subseteq mishaps' /\ pc' = pc
    BY <1>1, <1>5 DEF CloseFile
  <2> QED
    BY <2>1, NoneSuspended
<1>6. ASSUME \/ Tick
             \/ UNCHANGED vars
             \/ \E w \in Writers : Completes(w)
      PROVE  /\ ~ crashed'
             /\ \A v \in Writers : pc'[v] = "writing" =>
                  Valid(v)' /\ \A u \in Writers : pc'[u] = "writing" => u = v
  <2>1. UNCHANGED <<entry, pc, it, crashed>>
    BY <1>6 DEF Tick, vars, Completes
  <2> QED
    BY <1>1, <2>1 DEF Valid
<1> QED
  BY <1>3, <1>4, <1>5, <1>6 DEF Next

LEMMA NothingLostStep ==
    ASSUME LogIInv, NothingLost, [Next]_vars
    PROVE  NothingLost'
<1>0. /\ TypeOK /\ Orderly /\ mishaps \subseteq mishaps'
  BY DEF LogIInv, Next, vars, FileWrite, WriteThrough, Rotate, Completes, Written, NotWritten, CloseFile, Tick
<1> DEFINE Held == Messages(current) \cup InArchives(archives) \cup retired
<1> SUFFICES ASSUME mishaps' \subseteq {"overlap"}
             PROVE  Ok' \subseteq Held'
  BY DEF NothingLost
<1>1. Ok \subseteq Held
  BY <1>0 DEF NothingLost
<1>2. ASSUME NEW w \in Writers, NEW e \in Entries, pc[w] = "idle", Rotate(w, e)
      PROVE  Held \subseteq Held'
  <2>1. PICK renamed \in BOOLEAN :
          /\ CleanUp(Archived(renamed))
          /\ mishaps' = mishaps \cup Overlap \cup Mishap(renamed)
          /\ renamed => current' = <<>>
    BY <1>2 DEF Rotate
  <2>2. renamed /\ now \notin DOMAIN archives
    BY <2>1 DEF Mishap
  <2> DEFINE files == Archived(TRUE)
  <2>3. /\ DOMAIN files = DOMAIN archives \cup {now} /\ files[now] = current
        /\ \A t \in DOMAIN archives : files[t] = archives[t]
    BY <2>2 DEF Archived
  <2>4. /\ archives' = [t \in Kept(files) |-> files[t]]
        /\ retired' = retired \cup UNION {Messages(files[t]) : t \in DOMAIN files \ Kept(files)}
    BY <2>1, <2>2 DEF CleanUp
  <2> HIDE DEF files
  <2>5. DOMAIN archives' = Kept(files) /\ \A t \in Kept(files) : archives'[t] = files[t]
    BY <2>4
  <2>6. ASSUME NEW t \in DOMAIN files PROVE Messages(files[t]) \subseteq Held'
    <3>1. CASE t \in Kept(files)
      BY <2>5, <3>1 DEF InArchives
    <3>2. CASE t \notin Kept(files)
      BY <2>4, <3>2
    <3> QED
      BY <3>1, <3>2
  <2>7. Messages(current) \subseteq Held'
    <3> HIDE DEF Held
    <3> QED
      BY <2>3, <2>6
  <2>8. InArchives(archives) \subseteq Held'
    <3>1. \A t \in DOMAIN archives : Messages(archives[t]) \subseteq Held'
      <4> HIDE DEF Held
      <4> QED
        BY <2>3, <2>6
    <3> HIDE DEF Held
    <3> QED
      BY <3>1 DEF InArchives
  <2>9. retired \subseteq Held'
    BY <2>4
  <2> QED
    BY <2>7, <2>8, <2>9
<1>3. ASSUME NEW w \in Writers, FileWrite(w)
      PROVE  Held \subseteq Held' /\ Ok' = Ok
  <2>1. pc[w] = "idle" /\ outcome[w] = "none"
    BY <1>0, <1>3 DEF FileWrite, Orderly
  <2>2. Ok' = Ok
    <3>1. UNCHANGED outcome \/ outcome' = [outcome EXCEPT ![w] = "pending"]
      BY <1>3 DEF FileWrite, WriteThrough, Rotate, StartWrite, OpenFails
    <3> QED
      BY <1>0, <2>1, <3>1 DEF Ok, TypeOK
  <2>3. CASE UNCHANGED <<current, archives, retired>>
    BY <2>2, <2>3
  <2>4. HasHandle => entry \in Entries
    BY <1>0 DEF HasHandle, TypeOK
  <2>5. Opened(w) \in Entries
    BY <1>0, OpenedFacts
  <2>6. \/ UNCHANGED <<current, archives, retired>>
        \/ \E e \in Entries : Rotate(w, e)
    BY <1>3, <2>4, <2>5 DEF FileWrite, WriteThrough
  <2> HIDE DEF Held
  <2> QED
    BY <1>2, <2>1, <2>2, <2>3, <2>6
<1>4. ASSUME NEW w \in Writers, Completes(w)
      PROVE  Ok' \subseteq Held'
  <2>1. UNCHANGED <<archives, retired>> /\ outcome[w] = "pending"
    BY <1>4 DEF Completes
  <2>2. CASE outcome' = [outcome EXCEPT ![w] = "ok"] /\ current' = Append(current, w)
    <3>1. Ok' = Ok \cup {w}
      BY <1>0, <2>2 DEF Ok, TypeOK
    <3>2. Messages(current') = Messages(current) \cup {w}
      <4>1. /\ current \in Seq(Writers)
            /\ DOMAIN current' = DOMAIN current \cup {Len(current) + 1}
            /\ Len(current) + 1 \notin DOMAIN current
            /\ \A i \in DOMAIN current : current'[i] = current[i]
            /\ current'[Len(current) + 1] = w
        BY <1>0, <2>2 DEF TypeOK
      <4> QED
        BY <4>1 DEF Messages
    <3> QED
      BY <1>1, <2>1, <3>1, <3>2
  <2>3. CASE outcome' = [outcome EXCEPT ![w] = "failed"] /\ UNCHANGED current
    <3>1. Ok' = Ok
      BY <1>0, <2>1, <2>3 DEF Ok, TypeOK
    <3> QED
      BY <1>1, <2>1, <2>3, <3>1
  <2> QED
    BY <1>4, <2>2, <2>3 DEF Completes
<1>5. ASSUME \/ CloseFile
             \/ Tick
             \/ UNCHANGED vars
             \/ \E w \in Writers : Written(w) \/ NotWritten(w)
      PROVE  Ok' \subseteq Held'
  <2>1. UNCHANGED <<current, archives, retired, outcome>>
    BY <1>5 DEF CloseFile, Tick, vars, Written, NotWritten
  <2> QED
    BY <1>1, <2>1 DEF Ok
<1> HIDE DEF Held
<1> QED
  BY <1>1, <1>3, <1>4, <1>5 DEF Next

-------------------------------------------------------------------------------
\* Every variable keeps its type.
THEOREM TypeCorrect == Spec => []TypeOK
<1>1. LogIInv => TypeOK
  BY DEF LogIInv
<1> QED
  BY <1>1, SpecLogIInv, PTL

\* Calls of file_write that are awaited one after the other never use an iterator
\* to an entry that is gone, whatever fails.
THEOREM SerialCorrect == Spec => []SerialCallsAreSafe
<1>1. Init => Serial
  BY DEF Init, Serial
<1>2. LogIInv /\ Serial /\ [Next]_vars => Serial'
  BY SerialStep
<1>3. Serial => SerialCallsAreSafe
  <2>1. ASSUME Serial, crashed PROVE "overlap" \in mishaps
    BY <2>1 DEF Serial
  <2> QED
    BY <2>1 DEF SerialCallsAreSafe
<1> QED
  BY <1>1, <1>2, <1>3, SpecLogIInv, PTL DEF Spec

\* A message that file_write has reported is in the log file, in an archive, or in
\* one that was deleted for its age, unless a rename failed or replaced an archive.
THEOREM KeptCorrect == Spec => []ReportedIsKept
<1>1. Init => NothingLost
  BY DEF Init, NothingLost, Ok
<1>2. LogIInv /\ NothingLost /\ [Next]_vars => NothingLost'
  BY NothingLostStep
<1>3. LogIInv /\ NothingLost => ReportedIsKept
  BY DEF LogIInv, TypeOK, NothingLost, ReportedIsKept, Ok
<1> QED
  BY <1>1, <1>2, <1>3, SpecLogIInv, PTL DEF Spec

\* No rotation and no error makes two copies of a message.
THEOREM WrittenOnceCorrect == Spec => []WrittenOnce
<1>1. LogIInv => WrittenOnce
  BY DEF LogIInv
<1> QED
  BY <1>1, SpecLogIInv, PTL

\* The size that rotation goes by lags the file by the uncounted writes at most.
THEOREM SizeCorrect == Spec => []SizeNotUnderestimated
<1>1. LogIInv => SizeNotUnderestimated
  BY DEF LogIInv
<1> QED
  BY <1>1, SpecLogIInv, PTL

\* There are never more archives than max_archive_count.
THEOREM ArchivesCorrect == Spec => []ArchivesBounded
<1>1. LogIInv => ArchivesBounded
  BY DEF LogIInv
<1> QED
  BY <1>1, SpecLogIInv, PTL

\* cleanup_old_archives takes the oldest, and only those in excess.
THEOREM DeletionOrderCorrect == Spec => OldestDeletedFirst
<1> DEFINE Oldest == \A t \in DOMAIN archives \ DOMAIN archives' :
                       /\ MaxArchives > 0 /\ Cardinality(DOMAIN archives') = MaxArchives
                       /\ \A u \in DOMAIN archives' : t < u
<1>1. ASSUME TypeOK, [Next]_vars
      PROVE  Oldest
  <2>1. ASSUME NEW files, CleanUp(files), DOMAIN files \subseteq 0 .. MaxTime,
               DOMAIN archives \subseteq DOMAIN files
        PROVE  Oldest
    <3>1. DOMAIN archives' = Kept(files)
      BY <2>1 DEF CleanUp
    <3> QED
      BY <2>1, <3>1, DroppedOld
  <2>2. ASSUME NEW w, NEW e, Rotate(w, e)
        PROVE  Oldest
    <3>1. PICK renamed \in BOOLEAN : CleanUp(Archived(renamed))
      BY <2>2 DEF Rotate
    <3>2. /\ DOMAIN Archived(renamed) \subseteq 0 .. MaxTime
          /\ DOMAIN archives \subseteq DOMAIN Archived(renamed)
      BY <1>1 DEF TypeOK, Archived
    <3> HIDE DEF Oldest
    <3> QED
      BY <2>1, <3>1, <3>2
  <2>3. CASE UNCHANGED archives
    BY <2>3
  <2> HIDE DEF Oldest
  <2> QED
    BY <1>1, <2>2, <2>3
      DEF Next, vars, FileWrite, WriteThrough, Completes, Written, NotWritten, CloseFile, Tick
<1>2. TypeOK /\ [Next]_vars => [Oldest]_vars
  BY <1>1
<1> QED
  BY <1>2, TypeCorrect, PTL DEF Spec, OldestDeletedFirst

================================================================================
